----------------------------- MODULE ScanPipeline -----------------------------
(***************************************************************************)
(* The command `scan` from its arguments to its exit code: load, fetch,    *)
(* cap, enrich, merge, persist, rank, cut, print; next to a `state         *)
(* migrate` on the same files, kills and losses of power.                  *)
(*                                                                         *)
(* What FetchTransaction, FetchEngine and the adapters make of the sources *)
(* is given: a result per source.  Deduplication goes by the canonical URL *)
(* only (module Dedup has all keys).  The events go on as the transaction  *)
(* gives them back (EventTable; module ScanStore has the rest of it).      *)
(***************************************************************************)
EXTENDS Presentation, Registry, StateFiles, EventTable

CONSTANTS
  Scenarios,            \* [args, runs, files]: what the runs of a scan may find; `runs` is
                        \* the set of what its sources may give, a result for each
  MaxGlobalCandidates,  \* the cap on candidates, 10 000 in the code
  ScanTime,             \* the time that the first run stamps; later ones follow
  MaxScans              \* bound: how often the scan is run again

NotStored == [committed |-> FALSE]  \* instead of what a transaction was given

\* People as an adapter lists them: no tags yet.
AreListed(people) ==
  /\ people \in Seq(ToSet(people))
  /\ \A p \in ToSet(people) : p = [f \in PersonFields |-> p[f]] /\ p.tags = {}

\* What an adapter hands over for a source: no topics yet, and the source alone.
IsCandidate(event, source) ==
  /\ event = [f \in EventFields |-> event[f]]
  /\ event.id \in Nat /\ event.topics = <<>> /\ event.sources = <<source>>
  /\ AreListed(event.people)
  /\ event.talks \in Seq(ToSet(event.talks))
  /\ \A t \in ToSet(event.talks) :
       t = [f \in TalkFields |-> t[f]] /\ t.topics = <<>> /\ AreListed(t.speakers)

\* A result for each source.
AreResults(list) ==
  /\ list \in Seq(ToSet(list))
  /\ \A r, t \in DOMAIN list : list[r].source = list[t].source => r = t
  /\ \A r \in DOMAIN list :
       /\ list[r].events \in Seq(ToSet(list[r].events))
       /\ \A e \in ToSet(list[r].events) : IsCandidate(e, list[r].source)

\* Results, caps and weights are such as the sources and the command line can give.
ASSUME ResultAssumption ==
  /\ MaxGlobalCandidates \in Nat
  /\ \A s \in Scenarios :
       /\ \A given \in s.runs : AreResults(given)
       /\ s.args.max_events = NoCap \/ s.args.max_events \in Nat
       /\ s.args.max_talks = NoCap \/ s.args.max_talks \in Nat
       /\ \/ s.args.interests \in {NotGiven, Unreadable}
          \/ \A t \in DOMAIN s.args.interests :
               s.args.interests[t] = Neutral \/ s.args.interests[t] \in Int

\* An event that some scan stored.
IsStored(event) ==
  /\ event = [f \in EventFields |-> event[f]]
  /\ event.id \in Nat /\ event.topics \in Seq(ToSet(event.topics))
  /\ event.talks \in Seq(ToSet(event.talks))
  /\ \A t \in ToSet(event.talks) :
       t = [f \in TalkFields |-> t[f]] /\ t.speakers \in Seq(ToSet(t.speakers))

\* Files are those of some version of the program, if not of another one, with an event
\* of each id; and no clock shows the time that stands for none.
ASSUME PipelineAssumption ==
  /\ StampTime \in Nat \ {NoTime} /\ ScanTime \in Nat \ {NoTime}
  /\ \A s \in Scenarios : /\ s.args.state \in Paths \cup {NotGiven}
                           /\ s.files = [p \in Paths |-> s.files[p]]
                           /\ \A p \in Paths :
                                /\ WellFormed(s.files[p])
                                /\ IsFiniteSet(RowsOf(s.files[p]))
                                /\ \A r \in RowsOf(s.files[p]) : IsStored(r)
                                /\ \A r, t \in RowsOf(s.files[p]) : r.id = t.id => r = t

VARIABLES
  scenario,   \* what this behaviour is about
  results,    \* what the sources give in this run
  pc,         \* the next phase of the scan
  events,     \* the corpus
  health,     \* a report per source
  aliases,    \* ids that were merged away, with those they were merged into
  requested,  \* a request may have been sent
  stored,     \* what the transaction of this run was given, or NotStored
  shown,      \* the events of the output
  exit,       \* the exit code
  scans       \* runs so far

inputs == <<scenario, results>>
scanVars ==
  <<scenario, results, pc, events, health, aliases, requested, stored, shown, exit, scans>>
vars == <<scanVars, fileVars>>

args == scenario.args

Cleared ==
  [events |-> <<>>, health |-> <<>>, aliases |-> <<>>, requested |-> FALSE,
   stored |-> NotStored, shown |-> <<>>, exit |-> 0]

Init ==
  /\ scenario \in Scenarios /\ results \in scenario.runs
  /\ pc = "load" /\ scans = 0
  /\ events = <<>> /\ health = <<>> /\ aliases = <<>> /\ requested = FALSE
  /\ stored = NotStored /\ shown = <<>> /\ exit = 0
  /\ FilesInit(scenario.files)

Exit(code) == pc' = "exited" /\ exit' = code

-----------------------------------------------------------------------------
(* Load and fetch.                                                         *)

Load ==
  /\ pc = "load"
  /\ LET code == LoadExit(args)
     IN  IF code = 0 THEN pc' = "fetch" /\ UNCHANGED exit ELSE Exit(code)
  /\ UNCHANGED <<inputs, events, health, aliases, requested, stored, shown, scans, fileVars>>

\* FetchClient::new
ClientFails ==
  /\ pc = "fetch"
  /\ Exit(3)
  /\ UNCHANGED <<inputs, events, health, aliases, requested, stored, shown, scans, fileVars>>

Usable(result) == result.status \in {"Ok", "Partial"}

\* The events of all sources, in the order of the registry.
FetchAll ==
  /\ pc = "fetch"
  /\ \E r \in DOMAIN results : Usable(results[r])
  /\ requested' = TRUE
  /\ events' = FlattenSeq([r \in DOMAIN results |-> results[r].events])
  /\ health' = [r \in DOMAIN results |->
                  [source |-> results[r].source, status |-> results[r].status,
                   events |-> Len(results[r].events)]]
  /\ pc' = "cap"
  /\ UNCHANGED <<inputs, aliases, stored, shown, exit, scans, fileVars>>

NothingFetched ==
  /\ pc = "fetch"
  /\ \A r \in DOMAIN results : ~ Usable(results[r])
  /\ requested' = TRUE
  /\ Exit(4)
  /\ UNCHANGED <<inputs, events, health, aliases, stored, shown, scans, fileVars>>

Survivors(corpus, source) ==
  Cardinality(UNION {{<<e, k>> : k \in {k \in DOMAIN corpus[e].sources :
                                        corpus[e].sources[k] = source}} :
                       e \in DOMAIN corpus})

\* Fault: the counts are corrected, the statuses are not.
RecountOnly(corpus, report) == [report EXCEPT !.events = Survivors(corpus, report.source)]

\* recount_and_mark_partial
Recount(corpus, report) ==
  LET left == Survivors(corpus, report.source)
  IN  [report EXCEPT !.events = left, !.status = IF report.events > left THEN "Partial" ELSE @]

Cap ==
  /\ pc = "cap"
  /\ events' = FirstOf(events, MaxGlobalCandidates)
  /\ health' = IF Len(events) > MaxGlobalCandidates
               THEN [h \in DOMAIN health |-> Recount(events', health[h])] ELSE health
  /\ pc' = "enrich"
  /\ UNCHANGED <<inputs, aliases, requested, stored, shown, exit, scans, fileVars>>

Enrich ==
  /\ pc = "enrich"
  /\ events' = [e \in DOMAIN events |-> EnrichScholars(EnrichTopics(events[e]))]
  /\ pc' = "merge"
  /\ UNCHANGED <<inputs, health, aliases, requested, stored, shown, exit, scans, fileVars>>

-----------------------------------------------------------------------------
(* Merge, persist.                                                         *)

\* The events in canonical order, each merged into the first one of its URL.
MergeInto(clusters, event) ==
  LET same == SelectInSeq(clusters, LAMBDA c : c.url = event.url)
  IN  IF same = 0 THEN Append(clusters, event)
      ELSE [clusters EXCEPT ![same] = MergeEvents(@, event)]

InIdOrder(corpus) ==
  LET at == Arranged(DOMAIN corpus, {p \in (DOMAIN corpus) \X (DOMAIN corpus) : Sooner(corpus, p)})
  IN  [n \in DOMAIN corpus |-> corpus[at[n]]]

MergeDuplicates(corpus) == FoldLeft(MergeInto, <<>>, InIdOrder(corpus))

AliasesOf(corpus, clusters) ==
  LET rep(e) == clusters[SelectInSeq(clusters, LAMBDA c : c.url = e.url)].id
      gone   == {e \in ToSet(corpus) : rep(e) # e.id}
  IN  [id \in {e.id : e \in gone} |-> rep(CHOOSE e \in gone : e.id = id)]

Merge ==
  /\ pc = "merge"
  /\ events' = MergeDuplicates(events)
  /\ aliases' = IF args.no_state THEN <<>> ELSE AliasesOf(events, events')
  /\ pc' = "persist"
  /\ UNCHANGED <<inputs, health, requested, stored, shown, exit, scans, fileVars>>

\* --state, or the default path.
StatePath == IF args.state = NotGiven THEN "old" ELSE args.state

SkipState ==
  /\ pc = "persist" /\ args.no_state
  /\ pc' = "present"
  /\ UNCHANGED <<inputs, events, health, aliases, requested, stored, shown, exit, scans, fileVars>>

OpenState ==
  /\ pc = "persist" /\ ~ args.no_state
  /\ OpenFile(StatePath)
  /\ pc' = "store"
  /\ UNCHANGED <<inputs, events, health, aliases, requested, stored, shown, exit, scans>>

\* Fault: a scan goes on without the state that it was told to use.
OpenFailsQuietly ==
  /\ pc = "persist" /\ ~ args.no_state
  /\ pc' = "present" /\ UNCHANGED exit
  /\ UNCHANGED <<inputs, events, health, aliases, requested, stored, shown, scans, fileVars>>

\* The file is locked or refused, or an I/O error; fatal only for a path that was
\* named.
OpenFails ==
  /\ pc = "persist" /\ ~ args.no_state
  /\ IF args.state = NotGiven THEN pc' = "present" /\ UNCHANGED exit ELSE Exit(5)
  /\ UNCHANGED <<inputs, events, health, aliases, requested, stored, shown, scans, fileVars>>

\* The same, where the open has left an empty database behind.
OpenFailsHalfway ==
  /\ pc = "persist" /\ ~ args.no_state
  /\ OpenFileHalfway(StatePath)
  /\ IF args.state = NotGiven THEN pc' = "present" /\ UNCHANGED exit ELSE Exit(5)
  /\ UNCHANGED <<inputs, events, health, aliases, requested, stored, shown, scans>>

HealthRows(now) ==
  {[form |-> "fixed", source |-> health[h].source, at |-> now, parses |-> TRUE] : h \in DOMAIN health}
ChangeRows(now) == {[form |-> "fixed", source |-> "added", at |-> now, parses |-> TRUE]}

Rows == RowsOf(files[StatePath])

\* The previous row of each event.
Previous ==
  LET ids == {events[e].id : e \in DOMAIN events}
  IN  [e \in DOMAIN events |-> PreviousRow(events[e].id, Rows, aliases, ids)]

\* The whole corpus and every report, whatever the output will show; the scan goes on
\* with the events as they are stored.  A row that does not parse is an error.
StoreBundle ==
  /\ pc = "store" /\ files[StatePath].db.events_parse
  /\ events' = [e \in DOMAIN events |-> Returned(events[e], Previous[e], health)]
  /\ CommitAndClose(StatePath, TableAfter(Rows, events', aliases, health),
                    HealthRows(ScanTime + scans), ChangeRows(ScanTime + scans))
  /\ stored' = [ids |-> {events[e].id : e \in DOMAIN events}, health |-> ToSet(health),
                aliases |-> aliases, previous |-> Previous]
  /\ pc' = "present"
  /\ UNCHANGED <<inputs, health, aliases, requested, shown, exit, scans>>

StoreFails ==
  /\ pc = "store"
  /\ CloseFile
  /\ Exit(5)
  /\ UNCHANGED <<inputs, events, health, aliases, requested, stored, shown, scans>>

-----------------------------------------------------------------------------
(* Rank, cut, print.                                                       *)

InterestsOf == IF args.interests = NotGiven THEN <<>> ELSE args.interests

RankedEvents == Ranked(events, Tiers(LoadSources(args.sources)), InterestsOf)

Present ==
  /\ pc = "present"
  /\ shown' = FilterOutput(RankedEvents, args)
  /\ pc' = "render"
  /\ UNCHANGED <<inputs, events, health, aliases, requested, stored, exit, scans, fileVars>>

\* A reader that closed the pipe counts as success.
Render ==
  /\ pc = "render"
  /\ Exit(0)
  /\ UNCHANGED <<inputs, events, health, aliases, requested, stored, shown, scans, fileVars>>

RenderFails ==
  /\ pc = "render"
  /\ Exit(6)
  /\ UNCHANGED <<inputs, events, health, aliases, requested, stored, shown, scans, fileVars>>

-----------------------------------------------------------------------------
(* Kills, losses of power, another run.                                    *)

Running == pc \notin {"exited", "dead"}

Kill ==
  /\ Running
  /\ pc' = "dead"
  /\ CloseFile
  /\ UNCHANGED <<inputs, events, health, aliases, requested, stored, shown, exit, scans>>

PowerLoss ==
  /\ pc' = IF Running THEN "dead" ELSE pc
  /\ FilesAfterPowerLoss
  /\ UNCHANGED <<inputs, events, health, aliases, requested, stored, shown, exit, scans>>

ScanAgain ==
  /\ ~ Running /\ scans < MaxScans
  /\ pc' = "load" /\ scans' = scans + 1
  /\ results' \in scenario.runs
  /\ events' = <<>> /\ health' = <<>> /\ aliases' = <<>> /\ requested' = FALSE
  /\ stored' = NotStored /\ shown' = <<>> /\ exit' = 0
  /\ UNCHANGED <<scenario, fileVars>>

ScanNext ==
  \/ Load \/ ClientFails \/ FetchAll \/ NothingFetched \/ Cap \/ Enrich \/ Merge
  \/ SkipState \/ OpenState \/ OpenFails \/ OpenFailsHalfway \/ StoreBundle \/ StoreFails
  \/ Present \/ Render \/ RenderFails \/ Kill \/ PowerLoss \/ ScanAgain

Next == ScanNext \/ (MigrationNext /\ UNCHANGED scanVars)

Spec == Init /\ [][Next]_vars

-----------------------------------------------------------------------------
(* Properties.                                                             *)

Fetched == FirstOf(FlattenSeq([r \in DOMAIN results |-> results[r].events]), MaxGlobalCandidates)

\* A source that is stored as Ok vouches for absence: the store cancels what it no
\* longer lists.  So each event it found is in the stored corpus, under its id or
\* under the one it was merged into, whatever the cap on candidates cut and
\* whatever the output is limited to.
OkMeansAllStored ==
  stored # NotStored =>
    \A r \in DOMAIN results : \A h \in stored.health :
      h.source = results[r].source /\ h.status = "Ok" =>
        \A e \in ToSet(results[r].events) :
          IF e.id \in DOMAIN stored.aliases THEN stored.aliases[e.id] \in stored.ids
          ELSE e.id \in stored.ids

\* The exit code can be trusted: success means that a source was usable and that a
\* state named on the command line has the scan; a refusal of arguments or
\* configuration means that no request was sent; and neither it nor a scan without
\* a usable source touched the state, nor any that was told not to.
ExitTellsWhatHappened ==
  pc = "exited" =>
    /\ exit = 0 =>
         /\ \E r \in DOMAIN results : Usable(results[r])
         /\ args.state # NotGiven /\ ~ args.no_state => stored # NotStored
    /\ exit \in {2, 3} => ~ requested
    /\ exit \in {2, 3, 4} \/ args.no_state => stored = NotStored

\* The texts that topics are looked for in.
TextsOf(event) ==
  {event.title, event.description}
  \cup UNION {{event.talks[i].title, event.talks[i].abstract} : i \in DOMAIN event.talks}

\* However often, and under whichever of its names, a topic is mentioned by an event
\* and its talks, the event is credited with it once, and with the confidence of
\* the best mention anywhere.
CreditedOnce ==
  pc = "merge" =>
    \A e \in ToSet(events) : \A id \in {t.id : t \in ToSet(Topics)} :
      LET entries == {t \in ToSet(Topics) : t.id = id}
          credits == {i \in DOMAIN e.topics : e.topics[i].topic = id}
          byName  == \E text \in TextsOf(e), t \in entries : Named(text, t.name)
          byAlias == \E text \in TextsOf(e), t \in entries : \E a \in ToSet(t.aliases) : Named(text, a)
      IN  /\ Cardinality(credits) = (IF byName \/ byAlias THEN 1 ELSE 0)
          /\ \A i \in credits : e.topics[i].confidence = (IF byName THEN 10 ELSE 8)

SpeaksAt(event) == {p \in AllPeople(event) : p.role \in {"Speaker", "Lecturer"}}

LaureateNames == UNION {ToSet(Surfaces(s)) : s \in {x \in ToSet(Scholars) : Laureate(x)}}

\* The talks of an event that this scan cannot rule out: an earlier scan stored them,
\* not every source of that row was heard again, and no part of the event lists a talk
\* of their id.
Remembered(e, parts) ==
  LET row    == stored.previous[e]
      heard  == {r.source : r \in {h \in ToSet(health) : h.status = "Ok"}}
      listed == UNION {{c.talks[i].id : i \in DOMAIN c.talks} : c \in parts}
  IN  IF \/ stored = NotStored
         \/ \A h \in ToSet(health) : h.status = "Ok"
         \/ row = NoRow
         \/ row.sources # <<>> /\ \A s \in ToSet(row.sources) : s \in heard
      THEN {}
      ELSE {row.talks[i] : i \in {i \in DOMAIN row.talks :
              /\ row.talks[i].id \notin listed
              /\ \A k \in DOMAIN row.talks : row.talks[k].id = row.talks[i].id => i <= k}}

\* Who speaks at an event counts fully for its rank exactly if a candidate that is
\* part of it lists, for itself or for a talk, a laureate under any of the names in
\* the registry, or a talk remembered from an earlier scan has one; a name in a title
\* counts for nothing, nor does a talk that vanished while every source was heard.
LaureatesLiftRank ==
  pc \in {"present", "render"} =>
    \A e \in DOMAIN events :
      LET parts == {c \in ToSet(Fetched) : c.url = events[e].url}
      IN  (ScoreComponents(events[e], <<>>, <<>>).people = 10) <=>
            \/ \E c \in parts : \E p \in SpeaksAt(c) :
                 \E n \in LaureateNames : Fold[n] = Fold[p.name]
            \/ \E t \in Remembered(e, parts) : \E p \in ToSet(t.speakers) :
                 p.role \in {"Speaker", "Lecturer"} /\ Laureate(p)

\* The output is the head of the ranking of what matches, cut only where a cap says
\* so: it leaves out nothing that ranks above what it shows, and stops early only
\* when the talks of what it shows use up their budget.
ShownInFull ==
  pc = "render" =>
    LET matching == Matching(RankedEvents, args)
        budget   == TalkBudget(args)
        talks    == TalksBefore(shown, Len(shown) + 1)
    IN  /\ \A i \in DOMAIN shown : shown[i].id = matching[i].id
        /\ talks <= budget
        /\ \/ Len(shown) = Len(FirstOf(matching, args.max_events))
           \/ budget > 0 /\ talks = budget
        /\ talks < budget => \A i \in DOMAIN shown : shown[i].talks = matching[i].talks

\* No record of a state file is lost and none is left under a key that does not
\* sort: opening a file of any older version, committing to it, migrating a copy of
\* it.  Only power can take back a file that was just published.  (That rows expire is
\* module ScanStore's.)
HistoryKept ==
  [][\A p \in Paths :
       files'[p] # files[p] =>
         /\ Keeps(files[p], files'[p]) \/ (files'[p] = Absent /\ ~ durable)
         /\ Ordered(files'[p])]_vars

=============================================================================
