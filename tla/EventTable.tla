------------------------------ MODULE EventTable ------------------------------
(***************************************************************************)
(* The table of events under the transaction of a scan, as far as it       *)
(* decides what the scan goes on with: which rows remain, and what of a    *)
(* previous row an event keeps where a source has failed.  (First-seen     *)
(* times, tombstones and changes are module ScanStore's.)                  *)
(*                                                                         *)
(* The table is a set of events, one of each id; its keys sort as ids do.  *)
(***************************************************************************)
EXTENDS Enrichment

NoRow == [found |-> FALSE]  \* instead of a previous row

\* canonical_id: a row whose event was merged into another one goes by its id.
CanonicalId(id, aliases, ids) ==
  IF id \in DOMAIN aliases /\ id \notin ids /\ aliases[id] \in ids THEN aliases[id] ELSE id

\* The rows of one event, in the order of their keys, merged into one.
PreviousRow(id, rows, aliases, ids) ==
  LET same  == {r \in rows : CanonicalId(r.id, aliases, ids) = id}
      at    == Arranged(same, {p \in same \X same : p[1].id < p[2].id})
      named == [n \in DOMAIN at |-> [at[n] EXCEPT !.id = id]]
  IN  IF same = {} THEN NoRow ELSE FoldLeft(MergeEvents, named[1], Tail(named))

\* The sources whose word counts, and whether they are all.
Authorities(health) == {health[h].source : h \in {h \in DOMAIN health : health[h].status = "Ok"}}

AllAuthoritative(health) == \A h \in DOMAIN health : health[h].status = "Ok"

\* previous_observation_complete
ObservationComplete(row, authority) == row.sources # <<>> /\ ToSet(row.sources) \subseteq authority

UnionSources(a, b) == UnionBy(LAMBDA s : s, a, b)
UnionTalks(a, b)   == UnionBy(LAMBDA t : t.id, a, b)

WithEvidence(event, row, authority) ==
  [event EXCEPT
     !.sources = UnionSources(@, SelectSeq(row.sources, LAMBDA s : s \notin authority)),
     !.media   = UnionMedia(@, row.media),
     !.talks   = UnionTalks(@, row.talks)]

\* Fault: evidence is kept even if every source that gave it is heard again.
RetainAlways(event, row, authority) == WithEvidence(event, row, authority)

\* retain_uncertain_evidence
RetainUncertainEvidence(event, row, authority) ==
  IF ObservationComplete(row, authority) THEN event ELSE WithEvidence(event, row, authority)

\* What the transaction gives back for an event.
Returned(event, row, health) ==
  IF AllAuthoritative(health) \/ row = NoRow THEN event
  ELSE RetainUncertainEvidence(event, row, Authorities(health))

\* Of events with one id the last is stored; rows that were not observed stay unless
\* every source was heard, or their event goes by another id now.
TableAfter(rows, events, aliases, health) ==
  LET ids == {events[e].id : e \in DOMAIN events}
  IN  {events[e] : e \in {e \in DOMAIN events :
                            \A f \in DOMAIN events : events[f].id = events[e].id => f <= e}}
      \cup {r \in rows : /\ r.id \notin ids /\ ~ AllAuthoritative(health)
                         /\ CanonicalId(r.id, aliases, ids) = r.id}

=============================================================================
