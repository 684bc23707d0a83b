------------------------------ MODULE ScanStore ------------------------------
(***************************************************************************)
(* The state repository of the radar: the tables events, cancelled_events, *)
(* source_health and change_log, and the one write transaction a scan      *)
(* makes on them (Repository::store_scan_bundle_owned).                    *)
(*                                                                         *)
(* A scan hands over the deduplicated events it saw, one health record per *)
(* source it ran, the time it read from the clock and the aliases found by *)
(* deduplication (an id that was merged into another one).  The handler    *)
(* runs in one redb write transaction, so it is one action here: an error  *)
(* anywhere in it drops the transaction and leaves the tables as they are. *)
(* A read-only repository refuses the call before it begins.               *)
(*                                                                         *)
(* Event content is abstracted to what change detection tells apart:       *)
(* `body` stands for title, date, location and description, `people` for   *)
(* the speakers.  Bodies are numbered in the order in which canonical_cmp  *)
(* would sort two stored rows of one id.  A source lists an event under    *)
(* one URL, so provenance is a set of sources.                             *)
(***************************************************************************)
EXTENDS Naturals, FiniteSets, FiniteSetsExt

CONSTANTS
  EventIds,       \* stable event identifiers
  Sources,        \* configured sources
  Media,          \* media URLs
  Livestreams,    \* the media URLs whose type is Livestream
  Talks,          \* talk identifiers
  People,         \* speaker names
  Bodies,         \* scalar contents of an event, numbered in canonical order
  Time,           \* timestamps a scan can read from the clock
  RetentionDays,  \* the retention window of all three history tables
  InOrder,        \* TRUE: scans commit in the order in which they read the clock
  Absent          \* no row, no observation, no detail

ASSUME DataAssumption ==
  /\ Livestreams \subseteq Media
  /\ Bodies \subseteq Nat
  /\ Time \subseteq Nat
  /\ RetentionDays \in Nat
  /\ InOrder \in BOOLEAN

VARIABLES
  events,         \* the events table: id -> row or Absent
  tombstones,     \* the cancelled_events table: id -> tombstone or Absent
  source_health,  \* the rows of source_health
  change_log,     \* the rows of change_log
  scans           \* the timestamps of the scans committed so far (history)

vars == <<events, tombstones, source_health, change_log, scans>>

Observation == [sources : SUBSET Sources, media : SUBSET Media, talks : SUBSET Talks,
                people : SUBSET People, body : Bodies]
EventRow    == [sources : SUBSET Sources, media : SUBSET Media, talks : SUBSET Talks,
                people : SUBSET People, body : Bodies, first : Time, last : Time]
\* A stored row as change detection compares it with the observation.
PreviousRow == [sources : SUBSET Sources, media : SUBSET Media, talks : SUBSET Talks,
                people : SUBSET People, body : Bodies, first : Time]
Tombstone   == [first : Time, cancelled : Time]
\* What a source reported: "None" is a source that was not part of the scan.
Status      == {"Ok", "NotOk", "None"}
HealthRow   == [source : Sources, at : Time, status : Status \ {"None"}]
ChangeKind  == {"EventAdded", "EventUpdated", "ScheduleAdded", "SpeakerAdded",
                "LivestreamAdded", "MediaAdded", "MediaRemoved", "EventCancelled"}
ChangeRow   == [at : Time, id : EventIds, kind : ChangeKind,
                detail : Media \cup Talks \cup People \cup {Absent}]

ASSUME AbsentAssumption == Absent \notin EventRow \cup PreviousRow \cup Tombstone

TypeOK ==
  /\ events \in [EventIds -> EventRow \cup {Absent}]
  /\ tombstones \in [EventIds -> Tombstone \cup {Absent}]
  /\ source_health \subseteq HealthRow
  /\ change_log \subseteq ChangeRow
  /\ scans \subseteq Time

Init ==
  /\ events = [id \in EventIds |-> Absent]
  /\ tombstones = [id \in EventIds |-> Absent]
  /\ source_health = {}
  /\ change_log = {}
  /\ scans = {}

-----------------------------------------------------------------------------
(* What one scan hands over.                                               *)

Rows(table) == {id \in EventIds : table[id] # Absent}

\* Fault: one healthy source is taken to vouch for all.
SomeAuthoritative(health) == \E s \in Sources : health[s] = "Ok"

\* No supplied health record is other than Ok (an empty slice asserts a
\* complete snapshot).
AllAuthoritative(health) == \A s \in Sources : health[s] # "NotOk"

Authority(health) == {s \in Sources : health[s] = "Ok"}

\* The id a stored row belongs to in this scan: an id that deduplication
\* replaced moves to its replacement, unless it was itself observed.
CanonicalId(id, current, aliases) ==
  IF /\ id \in DOMAIN aliases \ current
     /\ aliases[id] \in current
  THEN aliases[id] ELSE id

\* The rows that coalesce under canonical id c.
Group(c, current, aliases) ==
  {id \in Rows(events) : CanonicalId(id, current, aliases) = c}

\* The previous state of c as the scan sees it: its own row merged with the
\* rows of the ids that were replaced by it (merge_events).
Previous(c, current, aliases) ==
  LET G == Group(c, current, aliases)
  IN  IF G = {} THEN Absent
      ELSE [sources |-> UNION {events[id].sources : id \in G},
            media   |-> UNION {events[id].media : id \in G},
            talks   |-> UNION {events[id].talks : id \in G},
            people  |-> UNION {events[id].people : id \in G},
            body    |-> Min({events[id].body : id \in G}),
            first   |-> Min({events[id].first : id \in G})]

-----------------------------------------------------------------------------
(* Stamping an observed event.                                             *)

\* Fault: a tombstone restores its first-seen time however old it is.
NeverExpired(tombstone, now) == FALSE

\* A tombstone is past the retention window at time now.
Expired(tombstone, now) == tombstone.cancelled + RetentionDays < now

\* Fault: tombstones are not consulted.
FirstOfRows(c, now, current, aliases) ==
  {events[id].first : id \in Group(c, current, aliases)}

\* Every first-seen time that c inherits: its previous row's, and those of the
\* unexpired tombstones that belong to it.
InheritedFirst(c, now, current, aliases) ==
  {events[id].first : id \in Group(c, current, aliases)}
  \cup {tombstones[id].first : id \in
          {i \in Rows(tombstones) : /\ CanonicalId(i, current, aliases) = c
                                    /\ ~ Expired(tombstones[i], now)}}

FirstSeen(c, now, current, aliases) ==
  LET inherited == InheritedFirst(c, now, current, aliases)
  IN  IF inherited = {} THEN now ELSE Min(inherited)

\* Fault: only the provenance of the unheard sources is kept.
RetainProvenance(observed, prev, authority) ==
  [observed EXCEPT !.sources = @ \cup (prev.sources \ authority)]

\* retain_uncertain_evidence: unless every source that supported the previous
\* row answered, the evidence of the others is kept.  People and the scalar
\* fields are taken from the observation alone.
Retain(observed, prev, authority) ==
  IF prev.sources # {} /\ prev.sources \subseteq authority THEN observed
  ELSE [observed EXCEPT !.sources = @ \cup (prev.sources \ authority),
                        !.media = @ \cup prev.media,
                        !.talks = @ \cup prev.talks]

Observed(c, obs, health, prev) ==
  IF AllAuthoritative(health) \/ prev = Absent THEN obs[c]
  ELSE Retain(obs[c], prev, Authority(health))

Stamped(c, obs, health, aliases, now) ==
  LET current == DOMAIN obs
      seen    == Observed(c, obs, health, Previous(c, current, aliases))
  IN  [sources |-> seen.sources, media |-> seen.media, talks |-> seen.talks,
       people |-> seen.people, body |-> seen.body,
       first |-> FirstSeen(c, now, current, aliases), last |-> now]

-----------------------------------------------------------------------------
(* Change detection: detect_changes_when.                                  *)

Change(now, id, kind, detail) == [at |-> now, id |-> id, kind |-> kind, detail |-> detail]

IsEventUpdated(prev, curr) ==
  prev.body # curr.body \/ prev.talks # curr.talks \/ prev.people # curr.people

AddedDetails(now, id, prev, curr) ==
  {Change(now, id, "ScheduleAdded", t) : t \in curr.talks \ prev.talks}
  \cup {Change(now, id, "SpeakerAdded", p) : p \in curr.people \ prev.people}
  \cup {Change(now, id, "LivestreamAdded", m) : m \in (curr.media \ prev.media) \cap Livestreams}
  \cup {Change(now, id, "MediaAdded", m) : m \in (curr.media \ prev.media) \ Livestreams}

\* Fault: a vanished media URL is not reported.
NoRemovedDetails(now, id, prev, curr) == {}

RemovedDetails(now, id, prev, curr) ==
  {Change(now, id, "MediaRemoved", m) : m \in prev.media \ curr.media}

\* The records of an event that is present on both sides.
DetailChanges(now, id, prev, curr) ==
  (IF IsEventUpdated(prev, curr) THEN {Change(now, id, "EventUpdated", Absent)} ELSE {})
  \cup AddedDetails(now, id, prev, curr)
  \cup RemovedDetails(now, id, prev, curr)

\* The records of one id: prev and curr are rows or Absent.
Changes(now, id, prev, curr, can_cancel) ==
  CASE prev = Absent /\ curr # Absent -> {Change(now, id, "EventAdded", Absent)}
    [] prev # Absent /\ curr = Absent ->
         IF can_cancel THEN {Change(now, id, "EventCancelled", Absent)} ELSE {}
    [] prev # Absent /\ curr # Absent -> DetailChanges(now, id, prev, curr)
    [] OTHER -> {}

DetectChanges(obs, health, aliases, now) ==
  LET current == DOMAIN obs
  IN  UNION {Changes(now, id, Previous(id, current, aliases),
                     IF id \in current THEN Stamped(id, obs, health, aliases, now) ELSE Absent,
                     AllAuthoritative(health)) : id \in EventIds}

-----------------------------------------------------------------------------
(* The tables after the transaction.                                       *)

\* Fault: unobserved rows are pruned after any scan.
ObservedEventsOnly(obs, health, aliases, now) ==
  [id \in EventIds |->
     IF id \in DOMAIN obs THEN Stamped(id, obs, health, aliases, now) ELSE Absent]

\* An unobserved row goes when it moved to its canonical id, or when the scan
\* is complete; otherwise it stays.
EventsAfter(obs, health, aliases, now) ==
  LET current == DOMAIN obs
  IN  [id \in EventIds |->
         IF id \in current THEN Stamped(id, obs, health, aliases, now)
         ELSE IF AllAuthoritative(health) \/ CanonicalId(id, current, aliases) # id
              THEN Absent
              ELSE events[id]]

\* The ids cancelled by this scan.
Cancelled(obs, health, aliases) ==
  {id \in Rows(events) : /\ AllAuthoritative(health)
                         /\ id \notin DOMAIN obs
                         /\ CanonicalId(id, DOMAIN obs, aliases) = id}

\* Tombstones that expired or moved with an alias are removed last, after the
\* tombstones of observed ids went and those of cancelled ids were written.
ObsoleteTombstones(obs, aliases, now) ==
  {id \in Rows(tombstones) : \/ Expired(tombstones[id], now)
                             \/ CanonicalId(id, DOMAIN obs, aliases) # id}

\* Fault: the tombstone of an observed id stays.
TombstonesAfterWithoutRestoring(obs, health, aliases, now) ==
  [id \in EventIds |->
     IF id \in ObsoleteTombstones(obs, aliases, now) THEN Absent
     ELSE IF id \in Cancelled(obs, health, aliases)
          THEN [first |-> events[id].first, cancelled |-> now]
     ELSE tombstones[id]]

TombstonesAfter(obs, health, aliases, now) ==
  [id \in EventIds |->
     IF id \in ObsoleteTombstones(obs, aliases, now) THEN Absent
     ELSE IF id \in Cancelled(obs, health, aliases)
          THEN [first |-> events[id].first, cancelled |-> now]
     ELSE IF id \in DOMAIN obs THEN Absent
     ELSE tombstones[id]]

\* Fault: the row at the very edge of the window is purged.
RetainedStrictly(table, now) == {r \in table : now < r.at + RetentionDays}

\* Rows within the retention window at time now.
Retained(table, now) == {r \in table : now <= r.at + RetentionDays}

HealthRows(health, now) ==
  {[source |-> s, at |-> now, status |-> health[s]] : s \in {x \in Sources : health[x] # "None"}}

-----------------------------------------------------------------------------
(* The handler.                                                            *)

\* The clock has nanoseconds, so no two scans share a timestamp; a scan that read
\* it earlier may still commit later, unless InOrder says otherwise.
CanCommitAt(now) == now \notin scans /\ (InOrder => \A t \in scans : t < now)

StoreScanBundle(obs, health, aliases, now) ==
  /\ events' = EventsAfter(obs, health, aliases, now)
  /\ tombstones' = TombstonesAfter(obs, health, aliases, now)
  /\ change_log' = Retained(change_log \cup DetectChanges(obs, health, aliases, now), now)
  /\ source_health' = Retained(source_health \cup HealthRows(health, now), now)
  /\ scans' = scans \cup {now}

\* What the pipeline can hand over: events of the sources it ran (with an empty
\* health slice, the store_scan entry points, the provenance is the caller's), and
\* aliases from an id to a different, observed one.
Healths == [Sources -> Status]

PossibleObservation(obs, health) ==
  \/ \A s \in Sources : health[s] = "None"
  \/ \A id \in DOMAIN obs : /\ obs[id].sources # {}
                             /\ \A s \in obs[id].sources : health[s] # "None"

Next ==
  \E now \in Time :
    /\ CanCommitAt(now)
    /\ \E health \in Healths, current \in SUBSET EventIds :
         \E obs \in [current -> Observation] :
           /\ PossibleObservation(obs, health)
           /\ \E replaced \in SUBSET EventIds :
                \E aliases \in [replaced -> current] :
                  /\ \A id \in replaced : aliases[id] # id
                  /\ StoreScanBundle(obs, health, aliases, now)

Spec == Init /\ [][Next]_vars

-----------------------------------------------------------------------------
(* Properties.                                                             *)

\* No id is both stored as an event and remembered as cancelled: the tombstone
\* goes in the transaction that restores the event (ADR-0011 INV-2), whatever
\* aliases move rows and tombstones around.
NoLiveTombstone == Rows(events) \cap Rows(tombstones) = {}

\* A cancellation on record was decided by a scan all of whose sources were Ok:
\* the change log and the health history, written and purged side by side,
\* agree at every timestamp (ADR-0016).
CancelledOnlyOnCompleteScan ==
  \A c \in change_log, h \in source_health :
    c.kind = "EventCancelled" /\ h.at = c.at => h.status = "Ok"

\* The timestamp of a committing scan.
Now == CHOOSE t \in scans' : t \notin scans

\* A step's scan reported some source as other than Ok.
Incomplete == \E h \in source_health' : h.at = Now /\ h.status # "Ok"

\* What RowsLeaveWithATrace says of a step.
LeavingLeavesATrace ==
  \A id \in Rows(events) \ Rows(events') :
    \/ /\ ~ Incomplete
       /\ id \in Rows(tombstones')
       /\ tombstones'[id] = [first |-> events[id].first, cancelled |-> Now]
       /\ Change(Now, id, "EventCancelled", Absent) \in change_log'
    \/ \E c \in Rows(events') : /\ c # id
                                /\ events'[c].first <= events[id].first
                                /\ events'[c].last = Now

\* A row leaves the table in two ways only: a complete scan cancelled it and
\* left a tombstone with its first-seen time and a log record, or another row
\* took over its history.
RowsLeaveWithATrace == [][LeavingLeavesATrace]_vars

\* What FirstSeenNeverMovesLater says of a step.
FirstSeenKept ==
  \A id \in Rows(events') :
    /\ id \in Rows(events) => events'[id].first <= events[id].first
    /\ id \in Rows(tombstones) /\ ~ Expired(tombstones[id], Now)
         => events'[id].first <= tombstones[id].first

\* First-seen times never move later (ADR-0011 INV-1, INV-2): not while a row
\* stays, and not across a cancellation and a return within the window.
FirstSeenNeverMovesLater == [][FirstSeenKept]_vars

\* What FirstSeenIsInherited says of a step.
FirstSeenFound ==
  \A id \in Rows(events') :
    \/ events'[id] = events[id]
    \/ events'[id].first = Now
    \/ \E i \in Rows(events) : events[i].first = events'[id].first
    \/ \E i \in Rows(tombstones) : /\ tombstones[i].first = events'[id].first
                                   /\ Now <= tombstones[i].cancelled + RetentionDays

\* A first-seen time is never invented: it is the scan's own time or one that
\* some row or some unexpired tombstone carried (INV-3: a return past the
\* window starts afresh).
FirstSeenIsInherited == [][FirstSeenFound]_vars

\* What RetentionIsExact says of a step.
RetainedExactly ==
  /\ \A r \in change_log \cup source_health :
       r \in change_log' \cup source_health' <=> Now <= r.at + RetentionDays
  /\ \A id \in Rows(tombstones') : Now <= tombstones'[id].cancelled + RetentionDays
  /\ \A id \in Rows(tombstones) \ Rows(tombstones') :
       Now <= tombstones[id].cancelled + RetentionDays
         => \E c \in Rows(events') : events'[c].first <= tombstones[id].first

\* Nothing outlives the retention window of the scan that last committed, and
\* nothing inside it is dropped: the log only loses expired rows, and a
\* tombstone inside the window goes only when its id, or the id it moved to, is
\* in the table again.
RetentionIsExact == [][RetainedExactly]_vars

\* What OutageKeepsEvidence says of a step.
EvidenceKept ==
  \A id \in Rows(events) \cap Rows(events') :
    ~ (events[id].media \cup events[id].talks
         \subseteq events'[id].media \cup events'[id].talks)
      => \A s \in events[id].sources :
           \/ [source |-> s, at |-> Now, status |-> "Ok"] \in source_health'
           \/ ~ Incomplete

\* An outage removes nothing it cannot vouch for: in an incomplete scan a media
\* URL or a talk disappears from a row that stays only if every source behind
\* that row answered.
OutageKeepsEvidence == [][EvidenceKept]_vars

\* A row that leaves was cancelled: no alias moved it to another id.  True of scans
\* that merge no stored event into another one.
LeavingIsCancelling ==
  \A id \in Rows(events) \ Rows(events') :
    Change(Now, id, "EventCancelled", Absent) \in change_log'

RowsLeaveByCancellation == [][LeavingIsCancelling]_vars

\* With scans committed in clock order, additions alternate with removals: a
\* media URL that is reported as added twice was reported as removed, or its
\* event as cancelled or as new, in between.  An outage between two scans that
\* list the same media is therefore silent.  Where an alias moves the row to
\* another id and back, what became of it in between is on record under that id.
\* [changes.rs: detect_changes_when]
MediaAdditionsAlternate ==
  \A a, b \in change_log :
    /\ a.kind \in {"MediaAdded", "LivestreamAdded"}
    /\ b.kind = a.kind /\ b.id = a.id /\ b.detail = a.detail /\ a.at < b.at
    => \E r \in change_log :
         /\ a.at < r.at /\ r.at < b.at /\ r.id = a.id
         /\ \/ r.kind = "MediaRemoved" /\ r.detail = a.detail
            \/ r.kind \in {"EventCancelled", "EventAdded"}

=============================================================================
