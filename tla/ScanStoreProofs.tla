--------------------------- MODULE ScanStoreProofs ---------------------------
(* Proofs about ScanStore, for every set of ids, sources, media and times,  *)
(* every retention window, and scans committing in any order.               *)
EXTENDS ScanStore, OrderLemmas

\* One commit of a scan, with everything Next says of its inputs.
Commit(obs, health, aliases, now) ==
  /\ now \in Time /\ CanCommitAt(now)
  /\ health \in Healths
  /\ DOMAIN obs \in SUBSET EventIds
  /\ obs \in [DOMAIN obs -> Observation]
  /\ DOMAIN aliases \in SUBSET EventIds
  /\ aliases \in [DOMAIN aliases -> DOMAIN obs]
  /\ StoreScanBundle(obs, health, aliases, now)

\* The only step of the store is a scan's commit.
LEMMA NextIsCommit ==
  ASSUME Next
  PROVE  \E obs, health, aliases, now : Commit(obs, health, aliases, now)
<1>1. PICK now \in Time, health \in Healths, current \in SUBSET EventIds :
        /\ CanCommitAt(now)
        /\ \E obs \in [current -> Observation] :
             /\ PossibleObservation(obs, health)
             /\ \E replaced \in SUBSET EventIds :
                  \E aliases \in [replaced -> current] :
                    /\ \A id \in replaced : aliases[id] # id
                    /\ StoreScanBundle(obs, health, aliases, now)
  BY DEF Next
<1>2. PICK obs \in [current -> Observation], replaced \in SUBSET EventIds :
        \E aliases \in [replaced -> current] : StoreScanBundle(obs, health, aliases, now)
  BY <1>1
<1>3. PICK aliases \in [replaced -> current] : StoreScanBundle(obs, health, aliases, now)
  BY <1>2
<1>4. DOMAIN obs = current /\ DOMAIN aliases = replaced
  OBVIOUS
<1>5. CanCommitAt(now)
  BY <1>1
<1>6. Commit(obs, health, aliases, now)
  BY <1>3, <1>4, <1>5 DEF Commit
<1>. QED BY <1>6

\* The canonical id of a stored id is an id, and an observed one if it differs.
LEMMA CanonicalIdType ==
  ASSUME NEW obs, NEW aliases, DOMAIN obs \in SUBSET EventIds, NEW id \in EventIds
  PROVE  /\ CanonicalId(id, DOMAIN obs, aliases) \in EventIds
         /\ CanonicalId(id, DOMAIN obs, aliases) # id
              => CanonicalId(id, DOMAIN obs, aliases) \in DOMAIN obs
         /\ id \in DOMAIN obs => CanonicalId(id, DOMAIN obs, aliases) = id
BY DEF CanonicalId

\* Fields of a stored row have the types the row has.
LEMMA RowTypes ==
  ASSUME TypeOK
  PROVE  /\ \A id \in Rows(events) : events[id] \in EventRow
         /\ \A id \in Rows(tombstones) : tombstones[id] \in Tombstone
BY DEF TypeOK, Rows

\* Inherited first-seen times are timestamps.
LEMMA InheritedType ==
  ASSUME TypeOK, NEW c, NEW now, NEW current, NEW aliases
  PROVE  InheritedFirst(c, now, current, aliases) \in SUBSET Time
BY RowTypes DEF InheritedFirst, Group, EventRow, Tombstone

\* The first-seen time given to a row is the scan's own or one it inherits, and no later than
\* those.
LEMMA FirstSeenType ==
  ASSUME TypeOK, NEW c, NEW now \in Time, NEW current, NEW aliases
  PROVE  /\ FirstSeen(c, now, current, aliases) \in Time
         /\ \A t \in InheritedFirst(c, now, current, aliases) :
              FirstSeen(c, now, current, aliases) <= t
         /\ \/ FirstSeen(c, now, current, aliases) = now
            \/ FirstSeen(c, now, current, aliases)
                 \in InheritedFirst(c, now, current, aliases)
<1> DEFINE inherited == InheritedFirst(c, now, current, aliases)
<1>1. inherited \in SUBSET Time /\ inherited \in SUBSET Nat
  BY InheritedType, DataAssumption DEF DataAssumption
<1>2. CASE inherited = {}
  BY <1>2 DEF FirstSeen
<1>3. CASE inherited # {}
  <2>1. Min(inherited) \in inherited /\ \A y \in inherited : Min(inherited) <= y
    BY <1>1, <1>3, MinIsLeast
  <2>2. FirstSeen(c, now, current, aliases) = Min(inherited)
    BY <1>3 DEF FirstSeen
  <2>. QED BY <1>1, <2>1, <2>2
<1>. QED BY <1>2, <1>3

\* The previous row of an id is absent exactly when no stored row belongs to it.
LEMMA PreviousType ==
  ASSUME TypeOK, NEW c, NEW current, NEW aliases
  PROVE  /\ Previous(c, current, aliases) \in PreviousRow \cup {Absent}
         /\ Previous(c, current, aliases) = Absent <=> Group(c, current, aliases) = {}
         /\ Group(c, current, aliases) # {}
              => Previous(c, current, aliases) \in PreviousRow
<1> DEFINE G == Group(c, current, aliases)
<1>1. CASE G = {}
  BY <1>1, AbsentAssumption DEF AbsentAssumption, Previous
<1>2. CASE G # {}
  <2>1. \A id \in G : events[id] \in EventRow
    BY RowTypes DEF Group
  <2>2. {events[id].body : id \in G} \in SUBSET Nat /\ {events[id].body : id \in G} # {}
    BY <1>2, <2>1, DataAssumption DEF DataAssumption, EventRow
  <2>3. {events[id].first : id \in G} \in SUBSET Nat /\ {events[id].first : id \in G} # {}
    BY <1>2, <2>1, DataAssumption DEF DataAssumption, EventRow
  <2>4. Min({events[id].body : id \in G}) \in {events[id].body : id \in G}
    BY <2>2, MinIsLeast
  <2>5. Min({events[id].first : id \in G}) \in {events[id].first : id \in G}
    BY <2>3, MinIsLeast
  <2>6. Min({events[id].body : id \in G}) \in Bodies
    BY <2>1, <2>4 DEF EventRow
  <2>7. Min({events[id].first : id \in G}) \in Time
    BY <2>1, <2>5 DEF EventRow
  <2>8. /\ UNION {events[id].sources : id \in G} \in SUBSET Sources
        /\ UNION {events[id].media : id \in G} \in SUBSET Media
        /\ UNION {events[id].talks : id \in G} \in SUBSET Talks
        /\ UNION {events[id].people : id \in G} \in SUBSET People
    BY <2>1 DEF EventRow
  <2>9. Previous(c, current, aliases) \in PreviousRow
    BY <1>2, <2>6, <2>7, <2>8 DEF Previous, PreviousRow
  <2>. QED BY <1>2, <2>9, AbsentAssumption DEF AbsentAssumption
<1>. QED BY <1>1, <1>2

\* Kept evidence is of the same kind as what was observed.
LEMMA RetainType ==
  ASSUME NEW observed \in Observation, NEW prev \in PreviousRow, NEW authority
  PROVE  Retain(observed, prev, authority) \in Observation
<1> DEFINE src == observed.sources \cup (prev.sources \ authority)
           med == observed.media \cup prev.media
           tlk == observed.talks \cup prev.talks
<1>1. src \in SUBSET Sources /\ med \in SUBSET Media /\ tlk \in SUBSET Talks
  BY DEF Observation, PreviousRow
<1>. HIDE DEF src, med, tlk
<1>2. [observed EXCEPT !.sources = src, !.media = med, !.talks = tlk] \in Observation
  BY <1>1 DEF Observation
<1>3. Retain(observed, prev, authority)
        \in {observed, [observed EXCEPT !.sources = src, !.media = med, !.talks = tlk]}
  BY DEF Retain, src, med, tlk
<1>. QED BY <1>2, <1>3

\* What is written for an observed event is a row, last seen by this scan.
LEMMA StampedType ==
  ASSUME TypeOK, NEW obs, NEW health, NEW aliases, NEW now \in Time,
         obs \in [DOMAIN obs -> Observation], NEW c \in DOMAIN obs
  PROVE  /\ Stamped(c, obs, health, aliases, now) \in EventRow
         /\ Stamped(c, obs, health, aliases, now).first
              = FirstSeen(c, now, DOMAIN obs, aliases)
         /\ Stamped(c, obs, health, aliases, now).last = now
<1> DEFINE prev == Previous(c, DOMAIN obs, aliases)
           seen == Observed(c, obs, health, prev)
<1>1. obs[c] \in Observation
  OBVIOUS
<1>2. prev = Absent \/ prev \in PreviousRow
  BY PreviousType
<1>3. seen \in Observation
  <2>1. CASE seen = obs[c]
    BY <1>1, <2>1
  <2>2. CASE seen # obs[c]
    <3>1. prev \in PreviousRow /\ seen = Retain(obs[c], prev, Authority(health))
      BY <1>2, <2>2 DEF Observed
    <3>. QED BY <1>1, <3>1, RetainType
  <2>. QED BY <2>1, <2>2
<1>4. FirstSeen(c, now, DOMAIN obs, aliases) \in Time
  BY FirstSeenType
<1>. QED BY <1>3, <1>4 DEF Stamped, EventRow, Observation

\* The row that change detection compares: what the scan writes, if anything.
LEMMA DetailChangesType ==
  ASSUME NEW now \in Time, NEW id \in EventIds, NEW prev \in PreviousRow, NEW curr \in EventRow
  PROVE  \A r \in DetailChanges(now, id, prev, curr) :
           r \in ChangeRow /\ r.at = now /\ r.kind # "EventCancelled"
<1>1. \A t \in curr.talks \ prev.talks : t \in Talks
  BY DEF EventRow
<1>2. \A p \in curr.people \ prev.people : p \in People
  BY DEF EventRow
<1>3. \A m \in (curr.media \ prev.media) \cup (prev.media \ curr.media) : m \in Media
  BY DEF EventRow, PreviousRow
<1>4. \A r \in AddedDetails(now, id, prev, curr) :
         r \in ChangeRow /\ r.at = now /\ r.kind # "EventCancelled"
  BY <1>1, <1>2, <1>3 DEF AddedDetails, Change, ChangeRow, ChangeKind
<1>5. \A r \in RemovedDetails(now, id, prev, curr) :
         r \in ChangeRow /\ r.at = now /\ r.kind # "EventCancelled"
  BY <1>3 DEF RemovedDetails, Change, ChangeRow, ChangeKind
<1>6. LET r == Change(now, id, "EventUpdated", Absent)
      IN  r \in ChangeRow /\ r.at = now /\ r.kind # "EventCancelled"
  BY DEF Change, ChangeRow, ChangeKind
<1>. QED BY <1>4, <1>5, <1>6 DEF DetailChanges

\* Every record of a scan carries the scan's time, and a cancellation is only
\* recorded when the scan may cancel.
LEMMA DetectChangesType ==
  ASSUME TypeOK, NEW obs, NEW health, NEW aliases, NEW now \in Time,
         obs \in [DOMAIN obs -> Observation]
  PROVE  \A r \in DetectChanges(obs, health, aliases, now) :
           /\ r \in ChangeRow /\ r.at = now
           /\ r.kind = "EventCancelled" => AllAuthoritative(health)
<1>. SUFFICES ASSUME NEW r \in DetectChanges(obs, health, aliases, now)
              PROVE  /\ r \in ChangeRow /\ r.at = now
                     /\ r.kind = "EventCancelled" => AllAuthoritative(health)
  OBVIOUS
<1>1. PICK id \in EventIds :
        r \in Changes(now, id, Previous(id, DOMAIN obs, aliases),
                      IF id \in DOMAIN obs THEN Stamped(id, obs, health, aliases, now)
                      ELSE Absent,
                      AllAuthoritative(health))
  BY DEF DetectChanges
<1> DEFINE prev == Previous(id, DOMAIN obs, aliases)
           curr == IF id \in DOMAIN obs THEN Stamped(id, obs, health, aliases, now)
                   ELSE Absent
<1>2. prev = Absent \/ prev \in PreviousRow
  BY PreviousType
<1>3. curr = Absent \/ curr \in EventRow
  BY StampedType
<1>4. CASE prev = Absent
  BY <1>1, <1>4 DEF Changes, Change, ChangeRow, ChangeKind
<1>5. CASE prev # Absent /\ curr = Absent
  BY <1>1, <1>5 DEF Changes, Change, ChangeRow, ChangeKind
<1>6. CASE prev # Absent /\ curr # Absent
  <2>1. r \in DetailChanges(now, id, prev, curr)
    BY <1>1, <1>6 DEF Changes
  <2>. QED BY <1>2, <1>3, <1>6, <2>1, DetailChangesType
<1>. QED BY <1>4, <1>5, <1>6

\* An empty store is of its type.
LEMMA InitTypeOK == Init => TypeOK
BY DEF Init, TypeOK

\* Each table keeps its type over a commit.
LEMMA CommitTypeOK ==
  ASSUME TypeOK, NEW obs, NEW health, NEW aliases, NEW now, Commit(obs, health, aliases, now)
  PROVE  TypeOK'
<1>. USE DEF Commit, StoreScanBundle
<1>1. events' \in [EventIds -> EventRow \cup {Absent}]
  <2>1. \A id \in EventIds : EventsAfter(obs, health, aliases, now)[id] \in EventRow \cup {Absent}
    BY StampedType DEF EventsAfter, TypeOK
  <2>2. EventsAfter(obs, health, aliases, now)
          = [id \in EventIds |-> EventsAfter(obs, health, aliases, now)[id]]
    BY DEF EventsAfter
  <2>. QED BY <2>1, <2>2
<1>2. tombstones' \in [EventIds -> Tombstone \cup {Absent}]
  <2>1. \A id \in Cancelled(obs, health, aliases) : events[id].first \in Time
    BY RowTypes DEF Cancelled, EventRow
  <2>2. \A id \in EventIds :
          TombstonesAfter(obs, health, aliases, now)[id] \in Tombstone \cup {Absent}
    BY <2>1 DEF TombstonesAfter, Tombstone, TypeOK
  <2>3. TombstonesAfter(obs, health, aliases, now)
          = [id \in EventIds |-> TombstonesAfter(obs, health, aliases, now)[id]]
    BY DEF TombstonesAfter
  <2>. QED BY <2>2, <2>3
<1>3. source_health' \subseteq HealthRow
  BY DEF HealthRows, HealthRow, Retained, TypeOK, Healths, Status
<1>4. change_log' \subseteq ChangeRow
  BY DetectChangesType DEF Retained, TypeOK
<1>5. scans' \subseteq Time
  BY DEF TypeOK
<1>. QED BY <1>1, <1>2, <1>3, <1>4, <1>5 DEF TypeOK

\* The tables keep their types: whatever a scan hands over, the transaction
\* writes rows, tombstones and records, and never a missing value.
THEOREM TypeCorrect == Spec => []TypeOK
<1>1. TypeOK /\ [Next]_vars => TypeOK'
  <2>1. ASSUME TypeOK, Next PROVE TypeOK'
    BY <2>1, NextIsCommit, CommitTypeOK
  <2>2. ASSUME TypeOK, UNCHANGED vars PROVE TypeOK'
    BY <2>2 DEF TypeOK, vars
  <2>. QED BY <2>1, <2>2
<1>. QED BY <1>1, InitTypeOK, PTL DEF Spec

-----------------------------------------------------------------------------

\* A commit leaves no identifier with both a row and a cancellation.
LEMMA CommitNoLiveTombstone ==
  ASSUME NoLiveTombstone, NEW obs, NEW health, NEW aliases, NEW now,
         Commit(obs, health, aliases, now)
  PROVE  NoLiveTombstone'
<1>. SUFFICES ASSUME NEW id \in EventIds, events'[id] # Absent, tombstones'[id] # Absent
              PROVE  FALSE
  BY DEF NoLiveTombstone, Rows
<1>1. /\ events' = EventsAfter(obs, health, aliases, now)
      /\ tombstones' = TombstonesAfter(obs, health, aliases, now)
  BY DEF Commit, StoreScanBundle
<1>2. CASE id \in DOMAIN obs
  BY <1>1, <1>2 DEF TombstonesAfter, Cancelled
<1>3. CASE id \notin DOMAIN obs
  <2>1. ~ AllAuthoritative(health) /\ events[id] # Absent
    BY <1>1, <1>3 DEF EventsAfter
  <2>2. tombstones'[id] = tombstones[id]
    BY <1>1, <1>3, <2>1 DEF TombstonesAfter, Cancelled
  <2>. QED BY <2>1, <2>2 DEF NoLiveTombstone, Rows
<1>. QED BY <1>2, <1>3

\* An id is never both stored and remembered as cancelled.
THEOREM NoLiveTombstoneHolds == Spec => []NoLiveTombstone
<1>1. Init => NoLiveTombstone
  BY DEF Init, NoLiveTombstone, Rows
<1>2. NoLiveTombstone /\ [Next]_vars => NoLiveTombstone'
  <2>1. ASSUME NoLiveTombstone, Next PROVE NoLiveTombstone'
    BY <2>1, NextIsCommit, CommitNoLiveTombstone
  <2>2. ASSUME NoLiveTombstone, UNCHANGED vars PROVE NoLiveTombstone'
    BY <2>2 DEF NoLiveTombstone, Rows, vars
  <2>. QED BY <2>1, <2>2
<1>. QED BY <1>1, <1>2, PTL DEF Spec

-----------------------------------------------------------------------------

\* The strengthening behind CancelledOnlyOnCompleteScan: every record and every
\* health row carries the timestamp of a committed scan, so a scan with a fresh
\* timestamp cannot meet an older row at its own time.
RecordsAreOfScans ==
  /\ \A c \in change_log : c.at \in scans
  /\ \A h \in source_health : h.at \in scans

\* A commit cancels rows only under a complete scan.
LEMMA CommitCancelledOnly ==
  ASSUME TypeOK, RecordsAreOfScans, CancelledOnlyOnCompleteScan,
         NEW obs, NEW health, NEW aliases, NEW now, Commit(obs, health, aliases, now)
  PROVE  RecordsAreOfScans' /\ CancelledOnlyOnCompleteScan'
<1> DEFINE found == DetectChanges(obs, health, aliases, now)
           heard == HealthRows(health, now)
<1>1. /\ \A c \in change_log' : c \in change_log \/ c \in found
      /\ \A h \in source_health' : h \in source_health \/ h \in heard
      /\ scans' = scans \cup {now} /\ now \notin scans
  BY DEF Commit, CanCommitAt, StoreScanBundle, Retained
<1>2. \A c \in found : c.at = now /\ (c.kind = "EventCancelled" => AllAuthoritative(health))
  BY DetectChangesType DEF Commit
<1>3. \A h \in heard : h.at = now /\ (AllAuthoritative(health) => h.status = "Ok")
  BY DEF HealthRows, AllAuthoritative, Commit, Healths, Status
<1>. HIDE DEF found, heard
<1>4. RecordsAreOfScans'
  BY <1>1, <1>2, <1>3 DEF RecordsAreOfScans
<1>5. CancelledOnlyOnCompleteScan'
  <2>. SUFFICES ASSUME NEW c \in change_log', NEW h \in source_health',
                       c.kind = "EventCancelled", h.at = c.at
                PROVE  h.status = "Ok"
    BY DEF CancelledOnlyOnCompleteScan
  <2>1. CASE c \in change_log /\ h \in source_health
    BY <2>1 DEF CancelledOnlyOnCompleteScan
  <2>2. CASE c \in found /\ h \in heard
    BY <2>2, <1>2, <1>3
  <2>3. CASE c \in found /\ h \in source_health
    BY <2>3, <1>1, <1>2 DEF RecordsAreOfScans
  <2>4. CASE c \in change_log /\ h \in heard
    BY <2>4, <1>1, <1>3 DEF RecordsAreOfScans
  <2>. QED BY <1>1, <2>1, <2>2, <2>3, <2>4
<1>. QED BY <1>4, <1>5

\* A cancellation on record was decided by a scan all of whose sources were Ok,
\* even though the log and the health history are purged and written apart.
THEOREM CancelledOnlyOnCompleteScanHolds ==
  Spec => [](RecordsAreOfScans /\ CancelledOnlyOnCompleteScan)
<1> DEFINE IInv == RecordsAreOfScans /\ CancelledOnlyOnCompleteScan
<1>1. Init => IInv
  BY DEF Init, RecordsAreOfScans, CancelledOnlyOnCompleteScan
<1>2. TypeOK /\ IInv /\ [Next]_vars => IInv'
  <2>1. ASSUME TypeOK, IInv, Next PROVE IInv'
    BY <2>1, NextIsCommit, CommitCancelledOnly
  <2>2. ASSUME IInv, UNCHANGED vars PROVE IInv'
    BY <2>2 DEF RecordsAreOfScans, CancelledOnlyOnCompleteScan, vars
  <2>. QED BY <2>1, <2>2
<1>. QED BY <1>1, <1>2, TypeCorrect, PTL DEF Spec

-----------------------------------------------------------------------------
(* What a step may never do.                                               *)

\* Now, in the action properties, is the time of the scan that commits.
LEMMA NowIsCommitTime ==
  ASSUME NEW obs, NEW health, NEW aliases, NEW now, Commit(obs, health, aliases, now)
  PROVE  Now = now
BY DEF Now, Commit, CanCommitAt, StoreScanBundle

\* A scan that may cancel leaves no other than Ok rows at its own time.
LEMMA CompleteScan ==
  ASSUME RecordsAreOfScans, NEW obs, NEW health, NEW aliases, NEW now,
         Commit(obs, health, aliases, now), AllAuthoritative(health)
  PROVE  ~ Incomplete
<1>. SUFFICES ASSUME NEW h \in source_health', h.at = now PROVE h.status = "Ok"
  BY NowIsCommitTime DEF Incomplete
<1>1. h \in source_health \/ h \in HealthRows(health, now)
  BY DEF Commit, StoreScanBundle, Retained
<1>2. h \notin source_health
  BY DEF RecordsAreOfScans, Commit, CanCommitAt
<1>. QED BY <1>1, <1>2 DEF HealthRows, AllAuthoritative, Commit, Healths, Status

\* A stored row of the group of c bounds the first-seen time of c from above, and
\* so does an unexpired tombstone that belongs to c.
LEMMA FirstSeenBound ==
  ASSUME TypeOK, NEW obs, NEW health, NEW aliases, NEW now, Commit(obs, health, aliases, now),
         NEW c \in DOMAIN obs, NEW id \in EventIds, CanonicalId(id, DOMAIN obs, aliases) = c
  PROVE  /\ events'[c].first = FirstSeen(c, now, DOMAIN obs, aliases)
         /\ events'[c].last = now
         /\ c \in Rows(events')
         /\ id \in Rows(events) => events'[c].first <= events[id].first
         /\ id \in Rows(tombstones) /\ ~ Expired(tombstones[id], now)
              => events'[c].first <= tombstones[id].first
<1>1. /\ now \in Time /\ c \in EventIds
      /\ obs \in [DOMAIN obs -> Observation]
      /\ events' = EventsAfter(obs, health, aliases, now)
  BY DEF Commit, StoreScanBundle
<1>2. events'[c] = Stamped(c, obs, health, aliases, now)
  BY <1>1 DEF EventsAfter
<1>3. /\ events'[c] \in EventRow
      /\ events'[c].first = FirstSeen(c, now, DOMAIN obs, aliases)
      /\ events'[c].last = now
  BY <1>1, <1>2, StampedType
<1>4. c \in Rows(events')
  BY <1>1, <1>3, AbsentAssumption DEF AbsentAssumption, Rows
<1>5. \A t \in InheritedFirst(c, now, DOMAIN obs, aliases) :
        FirstSeen(c, now, DOMAIN obs, aliases) <= t
  BY <1>1, FirstSeenType
<1>6. id \in Rows(events) => events[id].first \in InheritedFirst(c, now, DOMAIN obs, aliases)
  BY DEF InheritedFirst, Group
<1>7. id \in Rows(tombstones) /\ ~ Expired(tombstones[id], now)
        => tombstones[id].first \in InheritedFirst(c, now, DOMAIN obs, aliases)
  BY DEF InheritedFirst
<1>. QED BY <1>3, <1>4, <1>5, <1>6, <1>7

\* A row that a commit removes leaves a cancellation or a new identifier behind.
LEMMA CommitRowsLeaveWithATrace ==
  ASSUME TypeOK, NoLiveTombstone, RecordsAreOfScans,
         NEW obs, NEW health, NEW aliases, NEW now, Commit(obs, health, aliases, now),
         NEW id \in Rows(events) \ Rows(events')
  PROVE  \/ /\ ~ Incomplete
            /\ id \in Rows(tombstones')
            /\ tombstones'[id] = [first |-> events[id].first, cancelled |-> now]
            /\ Change(now, id, "EventCancelled", Absent) \in change_log'
         \/ \E c \in Rows(events') : /\ c # id
                                     /\ events'[c].first <= events[id].first
                                     /\ events'[c].last = now
<1> DEFINE canonical == CanonicalId(id, DOMAIN obs, aliases)
<1>1. id \in EventIds /\ events[id] # Absent /\ events'[id] = Absent
  BY DEF Rows
<1>2. id \notin DOMAIN obs
  <2>1. id \in DOMAIN obs => canonical = id
    BY DEF CanonicalId
  <2>. QED BY <1>1, <2>1, FirstSeenBound DEF Rows
<1>3. CASE canonical # id
  <2>1. canonical \in DOMAIN obs /\ canonical \in EventIds
    BY <1>1, <1>3, CanonicalIdType DEF Commit
  <2>2. /\ canonical \in Rows(events')
        /\ events'[canonical].first <= events[id].first
        /\ events'[canonical].last = now
    BY <1>1, <2>1, FirstSeenBound
  <2>. QED BY <1>3, <2>2
<1>4. CASE canonical = id
  <2>1. AllAuthoritative(health)
    BY <1>1, <1>2, <1>4 DEF Commit, StoreScanBundle, EventsAfter
  <2>2. id \in Cancelled(obs, health, aliases)
    BY <1>1, <1>2, <1>4, <2>1 DEF Cancelled, Rows
  <2>3. id \notin ObsoleteTombstones(obs, aliases, now)
    BY <1>4 DEF ObsoleteTombstones, NoLiveTombstone
  <2>4. tombstones'[id] = [first |-> events[id].first, cancelled |-> now]
    BY <1>1, <2>2, <2>3 DEF Commit, StoreScanBundle, TombstonesAfter
  <2>5. id \in Rows(tombstones')
    <3>1. events[id].first \in Time /\ now \in Time
      BY <1>1, RowTypes DEF Rows, EventRow, Commit
    <3>2. tombstones'[id] \in Tombstone
      BY <2>4, <3>1 DEF Tombstone
    <3>. QED BY <1>1, <3>2, AbsentAssumption DEF AbsentAssumption, Rows
  <2>6. Change(now, id, "EventCancelled", Absent) \in change_log'
    <3>1. Previous(id, DOMAIN obs, aliases) # Absent
      BY <1>1, <1>4, PreviousType DEF Group, Rows
    <3>2. Change(now, id, "EventCancelled", Absent) \in DetectChanges(obs, health, aliases, now)
      BY <1>1, <1>2, <2>1, <3>1 DEF DetectChanges, Changes
    <3>3. now \in Nat /\ RetentionDays \in Nat
      BY DataAssumption DEF DataAssumption, Commit
    <3>. QED BY <3>2, <3>3 DEF Commit, StoreScanBundle, Retained, Change
  <2>7. ~ Incomplete
    BY <2>1, CompleteScan
  <2>. QED BY <2>4, <2>5, <2>6, <2>7
<1>. QED BY <1>3, <1>4

\* A commit moves the first-seen time of no row, and of no unexpired cancellation, to a later
\* one.
LEMMA CommitFirstSeenKept ==
  ASSUME TypeOK, NoLiveTombstone, NEW obs, NEW health, NEW aliases, NEW now,
         Commit(obs, health, aliases, now), NEW id \in Rows(events')
  PROVE  /\ id \in Rows(events) => events'[id].first <= events[id].first
         /\ id \in Rows(tombstones) /\ ~ Expired(tombstones[id], now)
              => events'[id].first <= tombstones[id].first
<1>1. id \in EventIds /\ events'[id] # Absent
  BY DEF Rows
<1>2. CASE id \in DOMAIN obs
  <2>1. CanonicalId(id, DOMAIN obs, aliases) = id
    BY <1>2 DEF CanonicalId
  <2>. QED BY <1>1, <1>2, <2>1, FirstSeenBound
<1>3. CASE id \notin DOMAIN obs
  <2>1. events'[id] = events[id] /\ id \in Rows(events)
    BY <1>1, <1>3 DEF Commit, StoreScanBundle, EventsAfter, Rows
  <2>2. id \notin Rows(tombstones)
    BY <2>1 DEF NoLiveTombstone
  <2>3. events[id].first \in Nat
    BY <2>1, RowTypes, DataAssumption DEF DataAssumption, EventRow
  <2>. QED BY <2>1, <2>2, <2>3
<1>. QED BY <1>2, <1>3

\* A first-seen time is the commit's own or one that the store already held.
LEMMA CommitFirstSeenFound ==
  ASSUME TypeOK, NEW obs, NEW health, NEW aliases, NEW now,
         Commit(obs, health, aliases, now), NEW id \in Rows(events')
  PROVE  \/ events'[id] = events[id]
         \/ events'[id].first = now
         \/ \E i \in Rows(events) : events[i].first = events'[id].first
         \/ \E i \in Rows(tombstones) : /\ tombstones[i].first = events'[id].first
                                        /\ now <= tombstones[i].cancelled + RetentionDays
<1>1. id \in EventIds /\ events'[id] # Absent /\ now \in Time
  BY DEF Rows, Commit
<1>2. CASE id \notin DOMAIN obs
  BY <1>1, <1>2 DEF Commit, StoreScanBundle, EventsAfter
<1>3. CASE id \in DOMAIN obs
  <2>1. CanonicalId(id, DOMAIN obs, aliases) = id
    BY <1>3 DEF CanonicalId
  <2>2. events'[id].first = FirstSeen(id, now, DOMAIN obs, aliases)
    BY <1>1, <1>3, <2>1, FirstSeenBound
  <2>3. \/ events'[id].first = now
        \/ events'[id].first \in InheritedFirst(id, now, DOMAIN obs, aliases)
    BY <1>1, <2>2, FirstSeenType
  <2>4. ASSUME events'[id].first \in InheritedFirst(id, now, DOMAIN obs, aliases)
        PROVE  \/ \E i \in Rows(events) : events[i].first = events'[id].first
               \/ \E i \in Rows(tombstones) :
                    /\ tombstones[i].first = events'[id].first
                    /\ ~ Expired(tombstones[i], now)
    BY <2>4 DEF InheritedFirst, Group
  <2>5. ASSUME NEW i \in Rows(tombstones), ~ Expired(tombstones[i], now)
        PROVE  now <= tombstones[i].cancelled + RetentionDays
    <3>1. tombstones[i].cancelled \in Nat /\ now \in Nat /\ RetentionDays \in Nat
      BY <1>1, RowTypes, DataAssumption DEF DataAssumption, Tombstone
    <3>. QED BY <2>5, <3>1 DEF Expired
  <2>. QED BY <2>3, <2>4, <2>5
<1>. QED BY <1>2, <1>3

\* A commit drops the records that are out of their retention, and no other.
LEMMA CommitRetainedExactly ==
  ASSUME TypeOK, NEW obs, NEW health, NEW aliases, NEW now, Commit(obs, health, aliases, now)
  PROVE  /\ \A r \in change_log \cup source_health :
              r \in change_log' \cup source_health' <=> now <= r.at + RetentionDays
         /\ \A id \in Rows(tombstones') : now <= tombstones'[id].cancelled + RetentionDays
         /\ \A id \in Rows(tombstones) \ Rows(tombstones') :
              now <= tombstones[id].cancelled + RetentionDays
                => \E c \in Rows(events') : events'[c].first <= tombstones[id].first
<1>1. /\ now \in Nat /\ RetentionDays \in Nat
      /\ \A id \in Rows(tombstones) :
           tombstones[id].cancelled \in Nat /\ tombstones[id] \in Tombstone
  BY RowTypes, DataAssumption DEF DataAssumption, Tombstone, Commit
<1>2. tombstones' = TombstonesAfter(obs, health, aliases, now)
  BY DEF Commit, StoreScanBundle
<1>3. \A r \in change_log \cup source_health :
        r \in change_log' \cup source_health' <=> now <= r.at + RetentionDays
  BY DEF Commit, StoreScanBundle, Retained
<1>4. ASSUME NEW id \in Rows(tombstones')
      PROVE  now <= tombstones'[id].cancelled + RetentionDays
  <2>1. id \in EventIds /\ tombstones'[id] # Absent
    BY DEF Rows
  <2>2. \/ tombstones'[id].cancelled = now
        \/ /\ tombstones'[id] = tombstones[id] /\ id \in Rows(tombstones)
           /\ ~ Expired(tombstones[id], now)
    BY <1>2, <2>1 DEF TombstonesAfter, ObsoleteTombstones, Rows
  <2>. QED BY <1>1, <2>2 DEF Expired
<1>5. ASSUME NEW id \in Rows(tombstones) \ Rows(tombstones'),
             now <= tombstones[id].cancelled + RetentionDays
      PROVE  \E c \in Rows(events') : events'[c].first <= tombstones[id].first
  <2> DEFINE c == CanonicalId(id, DOMAIN obs, aliases)
  <2>1. id \in EventIds /\ tombstones'[id] = Absent /\ tombstones[id] # Absent
    BY DEF Rows
  <2>2. ~ Expired(tombstones[id], now)
    BY <1>1, <1>5 DEF Expired
  <2>3. c # id \/ id \in Cancelled(obs, health, aliases) \/ id \in DOMAIN obs
    BY <1>2, <2>1, <2>2 DEF TombstonesAfter, ObsoleteTombstones
  <2>4. ~ (c = id /\ id \in Cancelled(obs, health, aliases))
    <3>1. SUFFICES ASSUME c = id, id \in Cancelled(obs, health, aliases) PROVE FALSE
      OBVIOUS
    <3>2. tombstones'[id] = [first |-> events[id].first, cancelled |-> now]
      BY <1>2, <2>1, <2>2, <3>1 DEF TombstonesAfter, ObsoleteTombstones
    <3>3. events[id].first \in Time /\ now \in Time
      BY <3>1, RowTypes DEF Cancelled, EventRow, Commit
    <3>4. tombstones'[id] \in Tombstone
      BY <3>2, <3>3 DEF Tombstone
    <3>. QED BY <2>1, <3>4, AbsentAssumption DEF AbsentAssumption
  <2>5. c \in DOMAIN obs
    BY <2>1, <2>3, <2>4, CanonicalIdType DEF Commit
  <2>. QED BY <2>1, <2>2, <2>5, FirstSeenBound
<1>. QED BY <1>3, <1>4, <1>5

\* Under an incomplete scan a row loses media or talks only where all of its sources answered
\* Ok.
LEMMA CommitEvidenceKept ==
  ASSUME TypeOK, RecordsAreOfScans, NEW obs, NEW health, NEW aliases, NEW now,
         Commit(obs, health, aliases, now), NEW id \in Rows(events) \cap Rows(events'),
         ~ (events[id].media \cup events[id].talks
              \subseteq events'[id].media \cup events'[id].talks),
         Incomplete, NEW s \in events[id].sources
  PROVE  [source |-> s, at |-> now, status |-> "Ok"] \in source_health'
<1> DEFINE prev == Previous(id, DOMAIN obs, aliases)
           authority == Authority(health)
<1>1. id \in EventIds /\ events[id] # Absent /\ events'[id] # Absent /\ s \in Sources
  BY RowTypes DEF Rows, EventRow
<1>2. ~ AllAuthoritative(health)
  BY CompleteScan
<1>3. id \in DOMAIN obs /\ events'[id] = Stamped(id, obs, health, aliases, now)
  BY <1>1 DEF Commit, StoreScanBundle, EventsAfter
<1>4. id \in Group(id, DOMAIN obs, aliases)
  BY <1>1, <1>3 DEF Group, CanonicalId, Rows
<1>5. prev \in PreviousRow /\ prev # Absent
  BY <1>4, PreviousType
<1>6. /\ events[id].media \subseteq prev.media /\ events[id].talks \subseteq prev.talks
      /\ s \in prev.sources
  BY <1>4 DEF Previous
<1>7. Observed(id, obs, health, prev) = Retain(obs[id], prev, authority)
  BY <1>2, <1>5 DEF Observed
<1>8. prev.sources \subseteq authority
  <2>1. SUFFICES ASSUME ~ (prev.sources \subseteq authority) PROVE FALSE
    OBVIOUS
  <2>2. obs[id] \in Observation
    BY <1>3 DEF Commit
  <2>3. /\ Retain(obs[id], prev, authority).media = obs[id].media \cup prev.media
        /\ Retain(obs[id], prev, authority).talks = obs[id].talks \cup prev.talks
    BY <2>1, <2>2 DEF Retain, Observation
  <2>4. /\ events'[id].media = obs[id].media \cup prev.media
        /\ events'[id].talks = obs[id].talks \cup prev.talks
    BY <1>3, <1>7, <2>3 DEF Stamped
  <2>. QED BY <1>6, <2>4
<1>9. [source |-> s, at |-> now, status |-> "Ok"] \in HealthRows(health, now)
  BY <1>1, <1>6, <1>8 DEF Authority, HealthRows
<1>10. now \in Nat /\ RetentionDays \in Nat
  BY DataAssumption DEF DataAssumption, Commit
<1>. QED BY <1>9, <1>10 DEF Commit, StoreScanBundle, Retained

-----------------------------------------------------------------------------
(* The action properties, as theorems of the specification.                *)

\* A row leaves by cancellation, with a tombstone and a record, or by handing its
\* history to another row; under any aliases and any order of commits.
THEOREM RowsLeaveWithATraceHolds == Spec => RowsLeaveWithATrace
<1>1. ASSUME TypeOK, NoLiveTombstone, RecordsAreOfScans, Next PROVE LeavingLeavesATrace
  <2>1. PICK obs, health, aliases, now : Commit(obs, health, aliases, now)
    BY <1>1, NextIsCommit
  <2>2. Now = now
    BY <2>1, NowIsCommitTime
  <2>. QED BY <1>1, <2>1, <2>2, CommitRowsLeaveWithATrace DEF LeavingLeavesATrace
<1>2. TypeOK /\ NoLiveTombstone /\ RecordsAreOfScans /\ [Next]_vars => [LeavingLeavesATrace]_vars
  BY <1>1
<1>. QED BY <1>2, TypeCorrect, NoLiveTombstoneHolds, CancelledOnlyOnCompleteScanHolds, PTL
         DEF Spec, RowsLeaveWithATrace

\* First-seen times never move later, also across cancellation and return.
THEOREM FirstSeenNeverMovesLaterHolds == Spec => FirstSeenNeverMovesLater
<1>1. ASSUME TypeOK, NoLiveTombstone, Next PROVE FirstSeenKept
  <2>1. PICK obs, health, aliases, now : Commit(obs, health, aliases, now)
    BY <1>1, NextIsCommit
  <2>2. Now = now
    BY <2>1, NowIsCommitTime
  <2>. QED BY <1>1, <2>1, <2>2, CommitFirstSeenKept DEF FirstSeenKept
<1>2. TypeOK /\ NoLiveTombstone /\ [Next]_vars => [FirstSeenKept]_vars
  BY <1>1
<1>. QED BY <1>2, TypeCorrect, NoLiveTombstoneHolds, PTL DEF Spec, FirstSeenNeverMovesLater

\* First-seen times are inherited from a row or an unexpired tombstone, or new.
THEOREM FirstSeenIsInheritedHolds == Spec => FirstSeenIsInherited
<1>1. ASSUME TypeOK, Next PROVE FirstSeenFound
  <2>1. PICK obs, health, aliases, now : Commit(obs, health, aliases, now)
    BY <1>1, NextIsCommit
  <2>2. Now = now
    BY <2>1, NowIsCommitTime
  <2>. QED BY <1>1, <2>1, <2>2, CommitFirstSeenFound DEF FirstSeenFound
<1>2. TypeOK /\ [Next]_vars => [FirstSeenFound]_vars
  BY <1>1
<1>. QED BY <1>2, TypeCorrect, PTL DEF Spec, FirstSeenIsInherited

\* Purging drops what is past the window and nothing else.
THEOREM RetentionIsExactHolds == Spec => RetentionIsExact
<1>1. ASSUME TypeOK, Next PROVE RetainedExactly
  <2>1. PICK obs, health, aliases, now : Commit(obs, health, aliases, now)
    BY <1>1, NextIsCommit
  <2>2. Now = now
    BY <2>1, NowIsCommitTime
  <2>. QED BY <1>1, <2>1, <2>2, CommitRetainedExactly DEF RetainedExactly
<1>2. TypeOK /\ [Next]_vars => [RetainedExactly]_vars
  BY <1>1
<1>. QED BY <1>2, TypeCorrect, PTL DEF Spec, RetentionIsExact

\* An outage never takes media or talks from a row with an unheard source.
THEOREM OutageKeepsEvidenceHolds == Spec => OutageKeepsEvidence
<1>1. ASSUME TypeOK, RecordsAreOfScans, Next PROVE EvidenceKept
  <2>1. PICK obs, health, aliases, now : Commit(obs, health, aliases, now)
    BY <1>1, NextIsCommit
  <2>2. Now = now
    BY <2>1, NowIsCommitTime
  <2>. QED BY <1>1, <2>1, <2>2, CommitEvidenceKept DEF EvidenceKept
<1>2. TypeOK /\ RecordsAreOfScans /\ [Next]_vars => [EvidenceKept]_vars
  BY <1>1
<1>. QED BY <1>2, TypeCorrect, CancelledOnlyOnCompleteScanHolds, PTL DEF Spec, OutageKeepsEvidence

-----------------------------------------------------------------------------
(* Media that come and go.                                                  *)

\* A record of an addition.
IsAddition(a) == a.kind \in {"MediaAdded", "LivestreamAdded"}

\* r takes back what addition a said.
TakesBack(r, a) ==
  /\ a.at < r.at /\ r.id = a.id
  /\ \/ r.kind = "MediaRemoved" /\ r.detail = a.detail
     \/ r.kind \in {"EventCancelled", "EventAdded"}

\* The strengthening behind MediaAdditionsAlternate: what was reported as added is
\* stored, or a later record takes it back.
AdditionsStand ==
  \A a \in change_log :
    IsAddition(a) => \/ a.id \in Rows(events) /\ a.detail \in events[a.id].media
                     \/ \E r \in change_log : TakesBack(r, a)

\* What a scan reports as added is a medium of a row that it writes, and was one of
\* no row that it found under that id.
LEMMA AdditionIsNew ==
  ASSUME TypeOK, NEW obs, NEW health, NEW aliases, NEW now, Commit(obs, health, aliases, now),
         NEW a \in DetectChanges(obs, health, aliases, now), IsAddition(a)
  PROVE  /\ a.id \in Rows(events') /\ a.detail \in events'[a.id].media
         /\ a.id \in Rows(events) => a.detail \notin events[a.id].media
<1>0. /\ now \in Time /\ DOMAIN obs \in SUBSET EventIds
      /\ obs \in [DOMAIN obs -> Observation]
      /\ events' = EventsAfter(obs, health, aliases, now)
  BY DEF Commit, StoreScanBundle
<1>1. PICK id \in EventIds :
        a \in Changes(now, id, Previous(id, DOMAIN obs, aliases),
                      IF id \in DOMAIN obs THEN Stamped(id, obs, health, aliases, now)
                      ELSE Absent,
                      AllAuthoritative(health))
  BY DEF DetectChanges
<1> DEFINE prev == Previous(id, DOMAIN obs, aliases)
           curr == IF id \in DOMAIN obs THEN Stamped(id, obs, health, aliases, now)
                   ELSE Absent
<1>2. prev # Absent /\ curr # Absent /\ a \in DetailChanges(now, id, prev, curr)
  BY <1>1 DEF Changes, Change, IsAddition
<1>3. a.id = id /\ a.detail \in curr.media \ prev.media
  <2>1. a \in AddedDetails(now, id, prev, curr)
    BY <1>2 DEF DetailChanges, RemovedDetails, Change, IsAddition
  <2>. QED BY <2>1 DEF AddedDetails, Change, IsAddition
<1>4. id \in DOMAIN obs /\ curr = Stamped(id, obs, health, aliases, now)
  BY <1>2
<1>5. events'[id] = curr
  BY <1>0, <1>4 DEF EventsAfter
<1>6. ASSUME id \in Rows(events) PROVE events[id].media \subseteq prev.media
  <2>1. id \in Group(id, DOMAIN obs, aliases)
    BY <1>4, <1>6 DEF Group, CanonicalId
  <2>. QED BY <2>1 DEF Previous
<1>. QED BY <1>2, <1>3, <1>5, <1>6 DEF Rows

\* A medium leaves a row that stays with a record of its removal.
LEMMA RemovalIsReported ==
  ASSUME TypeOK, NEW obs, NEW health, NEW aliases, NEW now, Commit(obs, health, aliases, now),
         NEW id \in Rows(events) \cap Rows(events'),
         NEW m \in events[id].media, m \notin events'[id].media
  PROVE  Change(now, id, "MediaRemoved", m) \in DetectChanges(obs, health, aliases, now)
<1>1. id \in EventIds /\ events[id] # Absent /\ events'[id] # Absent
  BY DEF Rows
<1>2. id \in DOMAIN obs /\ events'[id] = Stamped(id, obs, health, aliases, now)
  BY <1>1 DEF Commit, StoreScanBundle, EventsAfter
<1> DEFINE prev == Previous(id, DOMAIN obs, aliases)
           curr == Stamped(id, obs, health, aliases, now)
<1>3. id \in Group(id, DOMAIN obs, aliases)
  BY <1>1, <1>2 DEF Group, CanonicalId, Rows
<1>4. prev # Absent /\ m \in prev.media
  <2>1. prev # Absent
    BY <1>3, PreviousType
  <2>2. m \in prev.media
    BY <1>3 DEF Previous
  <2>. QED BY <2>1, <2>2
<1>5. Change(now, id, "MediaRemoved", m) \in RemovedDetails(now, id, prev, curr)
  BY <1>2, <1>4 DEF RemovedDetails
<1>6. Change(now, id, "MediaRemoved", m)
        \in Changes(now, id, prev, curr, AllAuthoritative(health))
  BY <1>1, <1>2, <1>4, <1>5 DEF Changes, DetailChanges
<1>. QED BY <1>1, <1>2, <1>6 DEF DetectChanges

\* One commit, in clock order, that moves no row to another id.
LEMMA CommitAdditionsStand ==
  ASSUME InOrder, TypeOK, RecordsAreOfScans, AdditionsStand, MediaAdditionsAlternate,
         NEW obs, NEW health, NEW aliases, NEW now, Commit(obs, health, aliases, now),
         LeavingIsCancelling
  PROVE  AdditionsStand' /\ MediaAdditionsAlternate'
<1> DEFINE found == DetectChanges(obs, health, aliases, now)
<1>1. /\ now \in Nat /\ RetentionDays \in Nat
      /\ change_log' = Retained(change_log \cup found, now)
  BY DataAssumption DEF DataAssumption, Commit, StoreScanBundle
<1>2. \A t \in scans : t \in Nat /\ t < now
  BY DataAssumption DEF DataAssumption, Commit, CanCommitAt, TypeOK
<1>3. \A r \in found : r.at = now
  BY DetectChangesType DEF Commit
<1>4. \A r \in change_log : r.at \in Nat /\ r.at < now
  BY <1>2 DEF RecordsAreOfScans
<1>5. \A r \in found : r \in change_log'
  BY <1>1, <1>3 DEF Retained
<1>6. ASSUME NEW a \in change_log \cap change_log', NEW r \in change_log, a.at < r.at
      PROVE  r \in change_log'
  <2>1. a.at \in Nat /\ r.at \in Nat /\ now <= a.at + RetentionDays
    BY <1>1, <1>4 DEF Retained
  <2>2. now <= r.at + RetentionDays
    BY <1>1, <1>6, <2>1
  <2>. QED BY <1>1, <2>2 DEF Retained
<1>7. Now = now
  BY NowIsCommitTime
<1>8. \A a \in change_log' : a \in change_log \/ a \in found
  BY <1>1 DEF Retained
<1>. HIDE DEF found
<1>9. ASSUME NEW a \in change_log \cap change_log', NEW r \in change_log, TakesBack(r, a)
      PROVE  r \in change_log'
  BY <1>6, <1>9 DEF TakesBack
<1>10. AdditionsStand'
  <2>. SUFFICES ASSUME NEW a \in change_log', IsAddition(a)
                PROVE  \/ a.id \in Rows(events') /\ a.detail \in events'[a.id].media
                       \/ \E r \in change_log' : TakesBack(r, a)
    BY DEF AdditionsStand
  <2>1. CASE a \in found
    BY <2>1, AdditionIsNew DEF found
  <2>2. CASE a \in change_log /\ \E r \in change_log : TakesBack(r, a)
    BY <2>2, <1>9
  <2>3. CASE /\ a \in change_log
             /\ a.id \in Rows(events) /\ a.detail \in events[a.id].media
    <3>1. a.at < now
      BY <1>4, <2>3
    <3>2. CASE a.id \notin Rows(events')
      <4>1. Change(now, a.id, "EventCancelled", Absent) \in change_log'
        BY <1>7, <2>3, <3>2 DEF LeavingIsCancelling
      <4>2. TakesBack(Change(now, a.id, "EventCancelled", Absent), a)
        BY <3>1 DEF TakesBack, Change
      <4>. QED BY <4>1, <4>2
    <3>3. CASE a.id \in Rows(events') /\ a.detail \notin events'[a.id].media
      <4>1. Change(now, a.id, "MediaRemoved", a.detail) \in change_log'
        BY <1>5, <2>3, <3>3, RemovalIsReported DEF found
      <4>2. TakesBack(Change(now, a.id, "MediaRemoved", a.detail), a)
        BY <3>1 DEF TakesBack, Change
      <4>. QED BY <4>1, <4>2
    <3>. QED BY <3>2, <3>3
  <2>. QED BY <1>8, <2>1, <2>2, <2>3 DEF AdditionsStand
<1>11. MediaAdditionsAlternate'
  <2>. SUFFICES ASSUME NEW a \in change_log', NEW b \in change_log',
                       IsAddition(a), b.kind = a.kind, b.id = a.id, b.detail = a.detail,
                       a.at < b.at
                PROVE  \E r \in change_log' : TakesBack(r, a) /\ r.at < b.at
    BY DEF MediaAdditionsAlternate, IsAddition, TakesBack
  <2>1. a \in change_log
    BY <1>1, <1>3, <1>4, <1>8
  <2>2. CASE b \in change_log
    <3>1. PICK r \in change_log : TakesBack(r, a) /\ r.at < b.at
      BY <2>1, <2>2 DEF MediaAdditionsAlternate, IsAddition, TakesBack
    <3>. QED BY <1>9, <2>1, <3>1
  <2>3. CASE b \in found
    <3>1. ~ (a.id \in Rows(events) /\ a.detail \in events[a.id].media)
      BY <2>3, AdditionIsNew DEF found, IsAddition
    <3>2. PICK r \in change_log : TakesBack(r, a)
      BY <2>1, <3>1 DEF AdditionsStand
    <3>3. r.at < b.at
      BY <1>3, <1>4, <2>3, <3>2
    <3>. QED BY <1>9, <2>1, <3>2, <3>3
  <2>. QED BY <1>8, <2>2, <2>3
<1>. QED BY <1>10, <1>11

\* With scans committed in clock order and as long as no alias moves a row, a medium
\* is reported as added again only after a record that took the first report back.
THEOREM MediaAdditionsAlternateHolds ==
  ASSUME InOrder
  PROVE  Spec /\ RowsLeaveByCancellation => []MediaAdditionsAlternate
<1> DEFINE IInv == AdditionsStand /\ MediaAdditionsAlternate
<1>1. Init => IInv
  BY DEF Init, AdditionsStand, MediaAdditionsAlternate
<1>2. TypeOK /\ RecordsAreOfScans /\ IInv /\ [Next]_vars /\ [LeavingIsCancelling]_vars => IInv'
  <2>1. ASSUME TypeOK, RecordsAreOfScans, IInv, Next, LeavingIsCancelling PROVE IInv'
    BY <2>1, NextIsCommit, CommitAdditionsStand
  <2>2. ASSUME IInv, UNCHANGED vars PROVE IInv'
    BY <2>2 DEF AdditionsStand, MediaAdditionsAlternate, vars, Rows
  <2>. QED BY <2>1, <2>2
<1>. QED BY <1>1, <1>2, TypeCorrect, CancelledOnlyOnCompleteScanHolds, PTL
         DEF Spec, RowsLeaveByCancellation

=============================================================================
