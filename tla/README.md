# TLA+ models of math_talk_radar

math_talk_radar is a command line radar for mathematics events. A `scan`
fetches the configured sources concurrently over HTTP, extracts candidates with
per-source adapters, deduplicates them, and commits one transaction to a redb
database in which it also detects what changed. `update` and `uninstall`
maintain the installed binary. The modules here model all of that down to the
parsers of strings: what depends on order, failure and concurrency as
interleaved actions, what is a pure function of a document or an event as
operators over small domains, driven by the action that calls it.

## 1. Inventory

| component | state it keeps | operations | talks to |
|---|---|---|---|
| Scan transaction (`radar-state/repository/scan.rs`, `changes.rs`) | tables `events`, `cancelled_events`, `source_health`, `change_log` | `store_scan_bundle_owned` (the scan's one write transaction: move rows along aliases, retain evidence of silent sources, stamp first/last seen, detect changes, write and expire tombstones, purge) | gets events, health and aliases from the scan pipeline |
| State repository (`repository.rs`, `queries.rs`) | the database file, read-only flag | `open`, `open_read_only`, `store_event`, `list_*` | migrations; all commands |
| HTTP transactions (`radar-fetch/http.rs`, `client.rs`, `robots.rs`, `retry.rs`, `budget.rs`) | host semaphores, robots cache of single-initialisation cells, per-source request budget | `fetch_one`: robots check, redirect and retry loop | servers; shared by all sources of a scan |
| Fetch engine (`radar-fetch/engine.rs`) | a `JoinSet` of source tasks, results | `fetch_all` (admission, join, panics), `fetch_source` (entrypoint, discover, plans, enrich, status) | adapters; `fetch_one` |
| Update lock (`lifecycle/update.rs` 30-172) | `update.lock`, `update.lock.stale` | `acquire_update_lock`, drop of `UpdateGuard` | every `update` and `uninstall` process |
| Self-update, uninstall (`lifecycle/`) | binary, staged download, rollback copy, install manifest | `update::run`, `uninstall::run` | the lock; release server |
| Deduplication (`radar-core/dedup*`) | none | `dedup_indexed` (blocking index), merge, aliases | pipeline |
| Schema and file migration (`migrations.rs`, `file_migration.rs`) | schema version, forms of keys; a temporary copy, locks on files | `run_migrations`, `migrate_copy`, `upgrade_engine`, `validate` | `Repository::open`, `state migrate` |
| Scan pipeline (`scan_engine.rs`, `context.rs`) | none of its own | `run_scan`: load, fetch, cap, recount, enrich, merge, persist, rank, cut, render | all of the above and below |
| Source adapters (`radar-adapters`) | none | `discover`, `plan_enrichment`, `enrich` for feeds, calendars, JSON-LD, configured and generic HTML | the fetch engine |
| Robots rules (`robots.rs` 1-264) | none | `parse_robots_for`, `is_allowed`, `glob_match` | HTTP transactions |
| Normalisation (`date.rs`, `people.rs`, `topics.rs`, `normalize.rs`) | none | `parse_date*`, `enrich_event_topics`, `enrich_event_scholars` | adapters, pipeline |
| Filter and ranking (`filter.rs`, `ranking.rs`) | none | `matches_mode_and_window`, `score_event` | pipeline |
| Configuration, command line (`config.rs`, `config_loader.rs`, `cli.rs`, `runtime.rs`, `output.rs`) | none | load, validate, exit codes, render | pipeline |
| xtask, scripts | evidence files | acceptance and release tooling | not part of what runs |

What is hard about it: sources run as interleaved tasks that share permits,
robots cells and a deadline; any of them can fail, panic or be cut short, and
only a *complete* scan may cancel an event; scans of two processes commit in
either order; updates can fail or die between any two file system calls, and a
second process may run at the same time; a state file may be of any age, and is
migrated while scans use it. Documents contradict themselves: dates without a
year, namesakes, events without a URL. `PROJECT.json` lists the hazards at
their lines.

What makes each component correct:

* **Scan transaction** – an outage never deletes or cancels; every row that leaves
  left a trace; identity (first seen) survives aliases, cancellations and returns;
  history is kept exactly for its window.
* **HTTP** – concurrency per host is bounded; requests stay within budget and
  deadline; robots rules are known before content is asked for, and never come
  from a host that the source may not talk to; nobody waits while holding a permit.
* **Fetch engine** – every source is reported once whatever panics; `Ok` means
  complete; a scan ends without help from the deadline.
* **Extraction** – only what the robots file allows is asked for; dates are periods of
  the calendar; an event has its own facts and its own identity.
* **Pipeline** – a source that is stored as `Ok` has all its events in the store; the
  exit code tells what happened; credit for topics and people does not depend on
  where and how often they are named; the output is the head of the ranking.
* **Migration** – no record is lost or left under a key that does not sort; a migrated
  copy appears whole or not at all.
* **Lock and lifecycle** – one process at a time works on the files, as long as none takes
  the lock of another that lives, which takes a race of two acquisitions; until then the
  binary runs whatever dies, and can be restored while it is on trial; no crash leaves a
  lock that must be removed by hand.

## 2. Modules

| module | models | state and actions |
|---|---|---|
| `ScanStore` | the scan transaction | the four tables plus the set of committed timestamps; one action, `StoreScanBundle`, because redb commits atomically and an error drops the transaction |
| `ScanStoreProofs` | – | theorems of `ScanStore` |
| `FetchTransaction` | `fetch_one` of every source and what they share | `tx` is the local state of the async function at its await points, `cached`/`denied` the robots cache, permits are derived from who holds them, `expired` the deadline; one action per stretch between awaits |
| `FetchEngine` | `fetch_all` and `fetch_source` on top of `FetchTransaction` | extends it; a source's stage is its place in `fetch_source`; `Start`, `Progress` and `Take` of its transaction are conjoined to its own steps |
| `FetchProofs` | – | theorems of `FetchTransaction` and of `FetchEngine`, among them that the second implements the first |
| `UpdateLock` | the lock file | one action per file system call, so other processes come in between; three history variables record who found a holder, who acquired beside another, and whose file was taken from it |
| `Lifecycle` | `update::run`, `uninstall::run` on top of `UpdateLock` | one action per file operation or self-test, each of which can fail, and a process may die before any of them |
| `LifecycleProofs` | – | theorems of `UpdateLock` and of `Lifecycle` |
| `DedupReference` | `reference_dedup_events`, the linear search that tests compare with | the events taken so far and the cluster representatives; one action, `RefTake`, takes the next event in canonical order |
| `Dedup` | `dedup_indexed` | extends it by the blocking index (pairs of a key and a cluster), the cached scalar keys and the aliases; `FoundCluster` and `MergeCluster` are the two branches of its loop |
| `DedupProofs` | – | theorems of `Dedup`, among them that it implements `DedupReference` |
| `RobotsRules` | robots files: groups, patterns, precedence; and what a file means, read from the standard | operators; a path is a sequence of characters, since patterns are about them |
| `Dates` | `date.rs`: which texts are dates, ranges, the roll-forward of dates without a year | operators; a text is a sequence of tokens, a date a number that sorts |
| `Documents` | `helpers.rs`, `helpers/media.rs`: URLs, fields of a page, keywords, media links, the event built from them | operators; a text is known by the phrases in it |
| `FeedAdapter`, `IcsAdapter`, `JsonLdAdapter`, `HtmlAdapters` | the adapters: discovery, plans and enrichment | operators on parsed documents |
| `ExtractionProofs` | – | theorems of `Dates`, of the dates and URLs that the adapters make, and of `Extraction` |
| `Extraction` | one source from robots file to candidates (`fetch_source` with the adapters filled in) | one action per stretch of `fetch_source`; the result of a request is a choice |
| `Enrichment` | `topics.rs`, `people.rs`, and the merging of details in `merge.rs` | operators on events |
| `Arrangement` | sorting, filtering, adding up | operators on sequences that the models share and proofs can use |
| `Presentation` | `ranking.rs`, `filter.rs`, `filter_output` | operators on events |
| `EventTable` | the table of events under the transaction of a scan, as far as the scan goes on with it: rows moved along aliases, evidence retained for silent sources | operators on sets of events |
| `Registry` | `config.rs`, `config_loader.rs`, `context.rs`: what is refused, with which exit code | operators on the arguments |
| `Migrations` | `run_migrations`, `Repository::open`, `upgrade_engine`, `validate` on the content of a file | operators on databases |
| `StateFiles` | the two paths of `state migrate`, the locks on them, `migrate_copy` | one action per step of `migrate_copy`, with I/O errors, kills, losses of power |
| `AtomicCopy` | what `state migrate` promises | the abstract specification of `StateFiles` |
| `ScanPipeline` | `run_scan` and what `main` makes of its result, composed with `StateFiles` | one action per phase and per way it fails; runs again after it ended, on what its sources give then |
| `ScanPipelineProofs` | – | theorems of `ScanPipeline` about state files and exit codes, among them that it implements `AtomicCopy` |
| `CorpusProofs` | – | theorems of `ScanPipeline` about what is stored, who and what is credited, and what is shown |
| `OrderLemmas` | – | lemmas that the other proof modules use: least and greatest elements, induction, arrangements, sums, flattened and searched sequences |
| `MC*` | instances | model values and constant functions for TLC |

Abstractions worth knowing when reading them:

* An event is its provenance, media, talks, people and one `body` for the scalar
  fields (title, dates, location, description); `Bodies` are numbered in the
  order in which `canonical_cmp` sorts two rows. Health is `Ok`, anything else,
  or absent. Details of a change record are the added or removed item.
* Robots rules are the set of paths they deny. `OnceCell::get_or_try_init` is
  the guard `~ Initializing(key)`: one initialiser, whose failure leaves the
  cell empty for the next. The deadline and a request time-out are different
  things: `DeadlinePasses` may happen at any moment or never, a request
  time-out is one of the failures a server may answer with.
* An adapter may return anything or panic, so `Discover`, `NextPlan`, `Enrich`
  and `Panic` are nondeterministic; the list caps and depth limits around them
  are not.
* A binary is a release and whether the file is complete. A self-test passes
  only on a usable binary, and may fail on any (spawning can fail).
* A lock file is named by the session that created it, since a session creates at
  most one. Its content becomes readable in a step of its own.

* Deduplication sees of an event its id, title, URL, date, place, organizer and
  sources; URLs and titles have canonical forms, and the other fields are the
  keys made of them. An extracted event has one source. The sorted input is
  the guard `InOrder`: the next event is none that comes before the last one
  taken. Descriptions, which break the last ties, are left out, so events that
  differ only there are taken in either order. Media, talks and topics are
  united like sources and decide nothing. Collisions of the id hash are left out.

* Documents are what the parsers of HTML, XML, JSON and iCalendar make of the
  bytes; malformed ones are covered as far as the code looks at the outcome.
  Texts, phrases and folded names are constants; URLs have a host, a path, a
  marker parameter and the rest of the query in one of two encodings.
* `Extraction` takes requests as succeeding or not, and `ScanPipeline` takes the
  results of the sources as given: `FetchTransaction` and `FetchEngine` have what
  lies behind them. In the same way `ScanPipeline` merges by URL only (`Dedup` has all
  keys). Of the transaction it has what the rest of a scan depends on: the rows of the
  table (`EventTable`) and the events it gives back, with the sources, media and talks that
  a previous row keeps while a source is silent. Its history rows are appended and none
  expires; first-seen times and tombstones are left to `ScanStore`.
* A calendar that `read_calendar` cannot parse is rejected like one nested too deep; only
  the second is among the documents of `Extraction`.
* Scores are whole points and interest weights percents; the code rounds the same
  products of floating point numbers.
* In a state file, `cancelled_events` matters only as far as it parses; rows of the two
  histories are their record and the form of their key. A scan that fails to open a
  file that is not there may leave an empty database (`OpenFailsHalfway`). A file that a scan
  has just made counts as durable at once; only a published copy may vanish with the power.

Variables marked "(history)" record what happened for a property; no guard
reads them, with the exception of `scans`, from which `CanCommitAt` derives
that two scans never read the same nanosecond.

## 3. Runs

| run | instance | question |
|---|---|---|
| `StoreOutage` | 1 event, 2 sources, 1 medium (what it shows of media, `ScanStoreProofs` proves of talks too), 4 clock ticks, retention 2, in clock order | what an incomplete scan may not do; exact retention |
| `StoreAlias` | 3 ids, 1 source, 3 ticks, retention 1, commits in any order, any aliases | identity across aliases, tombstones, expiry |
| `FetchSafety` | 2 sources with different allowlists, an https and an http origin on two hosts, 1 permit, 1 redirect, 1 retry, budget 2 | permits, budget, deadline, robots |
| `FetchLiveness` | 2 sources that each need both hosts, 2 jobs, 1 permit, lists that may be clipped | ends, reports once, rules are stable, `Ok` means complete |
| `DedupIndex` | up to 4 events; 2 ids, 3 URLs of 2 pages, 3 evidences of 2 pages with 2 native ids, one date, place and organizer or none | the index is exact and gives the reference's result; ids for the store |
| `LifecycleSafety` | 2 sessions that may race for the lock, 3 releases of which one is broken | files and lock, crashes and thefts anywhere |
| `Extraction` | some 12 000 sources: robots files of up to 3 lines, feeds, calendars of up to 2 events, JSON-LD pages of 2 nodes in every arrangement, list pages with 12 date texts on 6 days | what is asked for, dated, attributed and identified |
| `ScanPipeline` | scenarios for arguments, results, credit, output, files and series of results, each with every failure, kill and loss of power; cap 3, one repeated scan, one repeated migration | what is stored, remembered, ranked, shown and reported; history; atomic migration |
| `RobotsBypass`, `RobotsAnchor`, `UpdateLockRace`, `RollbackLost` | smallest that show it | divergences, section 6 |

Why the bounds are enough. The scan transaction relates one scan to the tables
and the tables to at most one alias move, and the cases of a rule are
separated by two sources (one heard, one silent), three ids (two that move
into a third, or a chain) and a clock that passes the retention cutoff by one
(`Time` = retention + 2 values). All store properties that run here are also
proved for all instances. In the fetch model, interference needs two
sources and two hosts; a redirect, a retry and a detail request each happen at
least once, and the budget runs out before the loop's other limits do. A lock
session interferes with one other: two are enough for the race in `UpdateLockRace` and for a
lock that is stolen, robbed or purged under its holder. `TheftNeedsRace` and `RefusedOnlyByHolder`
were also checked of `UpdateLock` with three sessions (60 087 states), and the theorems are about any
number. Every limit is a
constant of the modules; `MaxPlans` of `FetchEngine` and `MaxEvents` of
`DedupReference` are the only ones that the program does not have under some name, and `MaxStubs`, `Jobs` and the fetch
limits are only smaller than the configured values.

Deduplication needs three events for its interesting cases: two clusters and an
event that matches both, or a cluster, an event that gives it a field, and one
that matches by that field. The fourth adds the replaced representative among two
clusters. `dedup_indexed` replaces a representative only when a cluster without a
URL has gained one; the instance has such events, though no adapter builds them
(`AdapterBuilt` tells the two apart in `UniqueIds`).

The sources of `Extraction` vary one part at a time: a property that reads calendars
gains nothing from robots files that vary beside them. Two nodes or two
calendar entries are enough for one to be taken for the other, two stubs are
the cap (`MaxStubs`), and the days of the list pages lie before, in and
after the dates, around the turn of the year and in a leap year.
`AsksAsPublished` compares two separately written readings of a file: the code's
one pass over lines and two-pointer matcher, and `PublishedAllows`, which
collects the groups that name the crawler and lets stars stand for anything. In
`ScanPipeline` the interference is that of one scan and one migration on two
paths; a second run of each meets what the first left. Its cap of 3 candidates
out of up to 5 cuts none, some or all of a source's. In the series of results two
sources give an event with a laureate's lecture, with the same one by someone else, without
it, or nothing, in any two runs, on an empty table or on rows with more talks and with
ids that will be merged: a talk is remembered, replaced, moved with its row, or dropped.

Two runs leave part of their question to others. `RetentionIsExact` in `StoreOutage` meets the
cutoff on health and change rows; tombstones at the cutoff are in `StoreAlias`
(`FirstSeenIsInherited`), and the theorem covers all of them. `FetchLiveness` has one permit per host and no
more sources than jobs, so waiting for a job slot (`--jobs 1`) is not exercised.

`ScanStore`, `Dedup`, `FetchTransaction`, `FetchEngine`, `UpdateLock` and `Lifecycle` each state a
type invariant; that of the state files is part of `FilesInv` in `ScanPipelineProofs`.
All are proved, `FetchTypeOK` (with the bounds of redirects and retries), `EngineTypeOK`, `LockTypeOK`
and `LifecycleTypeOK` as parts of `FetchInv`, `EngineInv` and `LifecycleInv`; the runs do
not repeat those.

Deadlock is checked in the fetch runs, where waiting for each other is the hazard.
The other runs end by design: the clock of `ScanStore` and the events of `Dedup` run out, sessions of
`UpdateLock` and `Lifecycle` end, a source is read once, and scans and migrations are repeated once.

Nothing in the code keeps two sessions from being inside `acquire_update_lock` at the same time, and
then mutual exclusion fails (`UpdateLockRace`). `LifecycleSafety` has these races. What it says of them:

* `TheftNeedsRace`: a session that lives loses its lock file to another (`robbed`) only if two
  acquisitions have overlapped at some time (`overlapped`). Crashes, stale locks and purges alone never
  lead there.
* `OneAtATime`: two sessions work at once only if one of them was robbed, or is a purge that has
  deleted the data directory and its own lock file with it. It holds through races.
* `RefusedOnlyByHolder`: a session is refused only if another one held the lock when it began or was
  acquiring while it did. It holds through races.
* `CurrentUsable`, `RecoveryPathExists` and `RollbackRetained` are said of the time in which nobody has been
  robbed. After a robbery two sessions replace and test each other's files, and the code promises nothing that
  could be checked. Up to it, sessions overlap, die and steal stale locks at any step.

### Fairness

* `FetchEngine`: weak fairness of the coordinator and of each source's step.
  tokio polls every task that can proceed, and `request_timeout` bounds every
  request, so a request in flight does end. Nothing is assumed of the deadline
  nor of panics. Semaphore and `OnceCell` queues are not modelled as fair:
  `AllReported` needs no stronger assumption because a finite number of
  transactions competes.
* `Lifecycle`: weak fairness of each session's own steps: a running process
  gets on, downloads end. None for launching and none for dying. The
  confirmation prompt of `uninstall` precedes `Launch`.

## 4. Proofs

TLAPS checks the theorems below for every value of the constants, from the named
assumptions of the modules (`DataAssumption`, `AbsentAssumption`, `FetchAssumption`,
`EngineAssumption`, `LockAssumption`, `LifecycleAssumption`, `DedupAssumption`,
`RegistryAssumption`, `ResultAssumption`, `PipelineAssumption`, `SourceAssumption`). They say what the constants are and that the values standing for
"none" are no others, and what a scan is given: a registry of topics with their aliases, one
result for each source, made of candidates as `build_event_from_stub` makes them (no topics
yet, one source, people without tags), state files with finitely many rows of different ids, caps and
weights that are numbers; runs evaluate each of
them. Statements that are hypotheses of a theorem: `InOrder` (scans commit in clock order) of `MediaAdditionsAlternate`; `NamesTellApart` (no
name is that of a laureate and of another scholar) of `LaureatesLift`, which holds of the registry in
`config/scholars.toml` and of that of the run; `CalendarsNameEntries` and `CalendarsLinkElsewhere` of the URLs of
calendar entries.

`ScanStoreProofs`. Type correctness rests on a lemma per operator that builds a
table (what merging, stamping, change detection and purging return), with
finiteness of the tables' domains for the minima. `NoLiveTombstone` is inductive
on its own, by cases on whether an id is observed, moved, cancelled or
untouched. `CancelledOnlyOnCompleteScan` is not: a committing scan could meet an
old record with its own timestamp. The strengthening is `RecordsAreOfScans`,
every log and health record carries the timestamp of a committed scan; a
fresh timestamp then meets rows of its own scan only, and those agree by
construction of one transaction. The action properties (`RowsLeaveWithATrace`,
`FirstSeenNeverMovesLater`, `FirstSeenIsInherited`, `RetentionIsExact`,
`OutageKeepsEvidence`) follow from type correctness, `NoLiveTombstone` where tombstones
are involved, and the lemma that the scan's own timestamp is the one added to `scans`.

`MediaAdditionsAlternate` is not inductive: nothing in it says what the table holds. The
strengthening is `AdditionsStand`: an addition on record is still in the row of its id unless
a later record took it back (`TakesBack`: its removal, or the cancellation or the new arrival
of the event). A scan reports an addition only of what the row it compares with lacks, so one
that is reported again was taken back. The comparison is with the row that an alias
leads to, and here the attempt to prove it found the limit of the property: when an alias moves
a row to another id and a later one moves it back, what was removed in between is on record under the
other id, and the property fails (TLC shows it with two ids and free aliases). The theorem
therefore has the hypothesis `RowsLeaveByCancellation`, that no alias takes a stored row to
another id. It is about what a behaviour does and not about the constants; every
behaviour of `StoreOutage`, whose one event has one id, satisfies it.

`FetchProofs`. No safety property of the transactions is inductive; `FetchInv` is. A permit held is
that of the host of the request in flight (`PermitFits`), so that `HostBound`, about
requests, follows from `PermitsBounded`, about permits, which a step that takes one
keeps because it found the set of holders short of `PerHost`. `SentWithinBudget` needs the request
that is paid for and not yet sent (`Paid`). For the robots cache: a source goes, and
looks for rules, only where it may (`WithinAllowlist`); what is cached under an allowlist came from a
host in it (`RulesOfAllowedHosts`); and a cell that is being initialised is not
initialised and has no other initialiser (`OneInitializer`), which is why rules once known stay
(`RulesAreStable`). `NoRequestAfterDeadline` is about a step and needs the types only.

`FetchProofs`, the engine. `EngineImplementsTransactions`: every step of the engine makes a
step that `FetchTransaction` allows, or none, so the theorems above hold of the engine. `OkIsComplete`
rests on an account of what is in hand: as long as nothing failed and no list was clipped,
every stub is a candidate or still to come, and every planned page has arrived, is under way or
still to come (`Accounted`). `OneReportEach` rests on `ReportsFit` (the reports are those of the
joined sources, one each) and `AdmittedInOrder`; that the sorted reports have the order of the
configured ids follows from there being one ascending arrangement (`Ascending`).

`LifecycleProofs`, the lock. The theorems hold for any number of sessions, racing and crashing at
will. `LifecycleInv` is two invariants in one. `LockPart` holds whatever happens: the file of a session that was not
robbed is at `update.lock` as long as it relies on it (`LockOfSession`, with the exception of a
purge past its deletion, `LockGone`); and who acquires beside another is on record, while one that acquires alone renames
only a file that nobody needs (`RaceFits`). A step that takes a file from the path robs its owner or takes what nobody needs
(`TakingRobs`). `OneAtATime` follows, since only one file is at the path; `TheftNeedsRace` is part of the
invariant, and `RefusedOnlyByHolder` follows from `RaceFits`.

`LifecycleProofs`, the files. `CalmInv` adds, for as long as `robbed = {}`, what the files are. Without thefts two sessions
hold at once only if one has purged, and that this hurts nobody is `FilesFit`: where
the lock is gone no binary is left, and no step of an update makes one out of nothing (`OneWorks`).
`FilesFit` also says, step by step, what an update may rely on: a tested download until it is
renamed, a rollback copy of the running release from before the replacement until the trial
is over. `CurrentUsable` is in the invariant, `RecoveryPathExists` follows. `StagingFits`
is about the list that an uninstall makes before it has the lock: by the time it deletes them,
the downloads on it belong to sessions that ended.

`DedupProofs`. `Refinement`: every pass of `dedup_indexed` is a pass of the linear
reference. It follows from `IndexExact`, since with an exact index the candidates
found are the clusters that match. `IndexExact` is inductive together with the
typing and `KeysCached`, that the cached scalar keys are those of the
representative, because the update removes and adds only differences of keys;
`MergedNativeKeys` states which native keys a merge keeps, drops and gains.
`AliasesResolve` needs `IdsInOrder` (no cluster's id comes after that of the last
event, so a replaced representative has its own id), and `UniqueIds` needs
`FromAdapters` (each cluster has the id and the canonical URL of one event
taken, so a new event of the same id shares its URL key).

`ScanPipelineProofs`. `CopyIsAtomic` and `HistoryKept` rest on `FilesInv`: a file is one that some
version of the program leaves (`WellFormed`, which `PipelineAssumption` asks of the scenarios); a
scan about to commit has locked its file since opening it (`ScanHolds`); a migration has locked
its source until it publishes (`MigrationHolds`); so the candidate is, half, whole or migrated,
what the source is still (`CandidateOfSource`). The last is what makes a copy in several steps one
step of `AtomicCopy`, and is false without the lock. `MigrationStampsAll` says that `run_migrations`,
where it does not refuse, amounts to stamping every row, whichever of the four versions it
finds; that each record is kept and keys sort follows. Each step of the pipeline is then one
`FileStep` (nothing visible, a scan's use, a publication, a loss), from which both properties follow.
`ExitTellsWhatHappened` is inductive with what each phase knows of the ones before (`PhasesInOrder`).

`CorpusProofs`, what is stored. `OkMeansAllStored` is not inductive: it says nothing before the
store. `OkInv` adds what each phase hands to the next (`HandedOn`). After the cap every source that
is still reported `Ok` has all its candidates in the corpus (`Vouched`). That is the hard part, since the
code compares counts: `FewerSurvive` shows that a source some of whose candidates lie behind the
cap has fewer survivors than it reported, because the candidates of all sources, one after
the other, take up places that do not overlap, and the survivors of a source are those of its
places that the prefix has. So `recount_and_mark_partial` finds it out. Enrichment leaves ids, URLs
and sources alone (`EnrichmentKeeps`). After the merge each of these candidates is in a cluster of its
id, or has an alias that is one (`VouchedAs`), by induction over the merge: a cluster keeps
its URL and id, and an alias goes from the id of what joins to the id of what it joins
(`MergeCovers`). The last step is that the store is given just that corpus and those aliases.

`CorpusProofs`, credit. `CreditedOnce` holds of each candidate after `Enrich`, for every registry, every text
and any number of talks. `SaysOf` says of a list of topics that it credits each topic of a set of texts once, with
10 if a text has its name and 8 if only an alias: true of the matches of one text (`MatchesRight`, with
`BestMatchRight` for the name that comes before the aliases), and kept when two lists are merged
(`SaysMerged`: `MergedFrom`, the higher confidence survives and no topic is taken twice), so of the title and
the description with all the talks (`EventSays`). `enrich_event_scholars`, which runs after it, touches
people only (`ScholarsKeepTopics`).

`CorpusProofs`, people. `LaureatesLiftRank` says of a ranked event what of its parts, and of the talks that
the store remembers, is left after enrichment, merging, the transaction, ranking and sorting. Five
steps. `enrich_person_from_registry` gives whoever speaks the
tags of a laureate exactly if a laureate goes by the name listed (`PersonIsTagged`, `AreTagged`); the first scholar
who goes by a name decides, hence the hypothesis. A name found in a title is nobody who speaks. Merging leaves out people
only where one of the same name and role stays (`StandFor`), in an event and in each of its talks, so by induction over
the merge the cluster of a URL has just the speakers of the parts it took (`Gathered`), all still tagged. The
transaction changes an event only where a source is not `Ok`, and then adds, of the row it had, the talks of ids that no
part lists (`ReturnedIs`, `JoinedOfParts`); for this the talks of a cluster must have just the ids of its parts' (`TalkIds`),
and the rows of a file must stay events with different ids over any number of scans, opens, migrations and failures
(`TablesInv`: `TableStays`, `NextKeepsTablesInv`). Ranking and
sorting keep people and URLs. The invariant `CorpusInv` gives the corpus of each phase in closed form, from
which the property follows (`CorpusIsLifted`). A remembered talk counts by the tags it was stored with, which are those
of the registry of that time.

`CorpusProofs`, output. `ShownInFull` rests on `OutputInv`: from the merge on the corpus remains one whose
talks can be counted (`AreCountable`; merging unites talks and topics into sequences again,
`TalksStayLists`, `TopicsStayLists`), and what is printed is the cut of the ranking of the corpus. The ranking is
an arrangement of the same events (`RankedIsCountable`: score, then id, is a strict total order of their places).
`CutInFull` is about the budget: with T(k) the talks of the first k events that match, the first k that are
shown have T(k) or the whole budget, whichever is less, so the list ends early only where
the budget is met, and below it every event has all its talks.

`OrderLemmas`. Sorts and filters are written as the arrangement of a finite set in a strict total order
(`Arrangement`), which exists (`ArrangedInOrder`), and not by `SortSeq` and `SelectSeq`. Folds are in the
models as they are in the code. The prover cannot prove by induction over data for an operator that is a
parameter; but `InductTo` gives induction for a set of numbers, and the steps of one fold after the other
are put together with it (`MergeSteps`, `MentionSteps`, `TalkSteps`, `TopicSteps`, `FlattenedFrom`).

`ExtractionProofs`, days. The arithmetic under `RangesOrdered` and `NextOccurrence` of `Extraction`, for every text and
every day where the run has twelve texts on six days. `ParsedIsPeriod` and `ReferencedIsPeriod`: what is
read from a text is unknown, a day of the calendar, or two in order. `NextDayIsNext` and
`PreviousDayIsPrevious` establish the calendar (a date is a number in which year, month and day
can be found again), and with them `IcsRangeIsPeriod`, where an exclusive end is taken back by a day, and
`JsonLdRangeIsPeriod`. `AddDaysIsLater` is about a recursive function, for every number of days: were there
days it does not give, there would be a least such number, and the day before it leads to it. `ListDateIsNext`
is `NextOccurrence` of a text: the date of a list page without a year is not over, and a year
earlier it was.

`ExtractionProofs`, from documents to candidates. `EventsHavePeriods` is `RangesOrdered` for every source (a run of its own would add nothing), on the
assumption that a parser hands over lists and URLs, and days where it hands over a time stamp (`SourceAssumption`). The
invariant `DatedInv` follows a date through `fetch_source`: each kind of discovery makes a list of stubs dated by
periods (`DiscoveredIsDated`), each kind of enrichment a list of candidates dated by periods, given
such a stub (`EnrichedIsDated`), and what is reported is candidates. A filter of an adapter is written
`Filtered` or `Picked`, of which `PickedList` says that what is kept was there.

`ExtractionProofs`, URLs. `EntriesHaveUrls` is `SyntheticUrlsDistinct` for documents of any length: the stubs of a
calendar are those of different entries, in spite of entries that are skipped and of the caps (`EntriesFound`, by
`PickedApart`), and each is known by its own link or by its mark (`EntryUrl`; for JSON-LD `NodeUrl`). No link that is
resolved has a mark (`JoinMarks`; links that are published with that query parameter are left out of the model). For JSON-LD, where the mark is the number of a node, that is all. For calendars
the proof found what the code relies on (`CalendarsNameEntries`): the mark is the UID or else the number of the entry, so no
UID may be given twice, which an exception to a recurring event (`RECURRENCE-ID`) does, and none may be the number of
an entry that has no UID. Entries without a URL that break this share one. `EntryIsFetchedOnce` is `EntryNeverRefetched`: `is_synthetic_ics_url` recognises each
URL that `synthetic_ics_url` made (`EntriesGoElsewhere`), provided that the calendar's URL is in the url crate's
encoding, and no entry names the calendar as its page (`CalendarsLinkElsewhere`); one that does is
fetched again. JSON-LD compares with the document itself and needs no proviso. Every calendar of the run
satisfies both.

Left to TLC, and why. Liveness (`AllReported`, `SessionsEnd`) and everything that rests on ENABLED are out
of the prover's reach. `AsksAsPublished` is not true of every robots file (`RobotsAnchor`, section 6).
`NextOccurrence` of the run is about containers with a single date text; a `datetime` attribute, or another
container of the same URL, would decide otherwise, so as a formula about any source it is not meant. `ListDateIsNext` is
what it says of a text, for every text and every day. `OwnFactsOnly` is about how the
instance names nodes: for any names it would need an assumption that the code does not
justify (no two nodes of one name and one start).

### Refinement

Three detailed specifications implement more abstract ones. `FetchEngine` extends `FetchTransaction` and
conjoins its steps with those of `fetch_source`; that its behaviours are behaviours of `FetchSpec`
is proved, with the variables they share as the mapping. `Dedup` extends `DedupReference`, whose
specification is its property `MatchesReference` (checked and proved). `StateFiles` instantiates
`AtomicCopy` with the two paths as its two files: `CopyIsAtomic` (checked and proved) says that through all its steps
the command makes a single visible one, `Publish`, which takes what the source is at that moment. That the
source may not change between copying and publishing is not a rule of the abstract
specification but follows from the lock that `migrate_copy` holds on it.

## 5. Not modelled

* Parsing of bytes: HTML, XML, JSON, iCalendar, TOML, UTF-8, and the layout of texts
  (ordinals, white space, case folding).
* Which HTTP statuses and network errors are retried and how long `Retry-After` makes a
  source wait: any answer may be retried as far as the allowances reach, any wait may end.
* `store_event`: used by tests only; it ignores tombstones. `list_*` queries only read.
* `sources`, `doctor`, `schema`, path validation and dry runs: they only print.
* The configuration, cache and database directories under `uninstall --purge`.
* Acceptance and release tooling (`xtask`, `scripts`).

## 6. Where code and documents disagree

With a run that shows it:

* **RobotsBypass** – a redirect within one origin is followed without asking the rules
  about the new path (`http.rs:269`), although the policy is to be "re-checked
  after redirect".
* **RobotsAnchor** – `Disallow: /*a$` does not deny `/a/a`: `glob_match` stops when the
  pattern is used up and does not let the star take more (`robots.rs:126`, `160`).
* **UpdateLockRace** – the thief renames whatever file is there by then, and a lock file
  is stale until its content is written; two sessions can both hold a guard.
* **RollbackLost** – an update removes the previous rollback copy before it
  has a new one, so an update that fails can leave none.

Met while modelling, and in the models as the code has it, without a run of their own:

* `uninstall` lists its files (`uninstall.rs:51-116`) before it takes the lock (138), so it
  misses a rollback copy made meanwhile; `update.rs:69-70` says the lock is acquired
  "before resolving or deleting any path".
* A calendar whose URL has a query in another encoding than the `url` crate writes is fetched
  again for every event without a URL (`ics.rs:213-238`): the comparison in
  `is_synthetic_ics_url` is of rewritten with unrewritten queries.
* A feed's date is lost when the detail page has a date text that does not parse
  (`rss.rs:136-142`), since `parse_date` then gives an unknown date and no error;
  the comment says "Fall back to the feed date only when the detail page has no
  parseable date".
* "Dec 30 - Jan 2" read on January 1 is dated a year late (`date.rs:299-321`), though "an
  in-progress or future event must not be rolled forward". `NextOccurrence` excludes
  ranges over the turn of the year.
* A calendar given as entrypoint is handed to the extraction of HTML fields where no
  page of its own is planned (`engine.rs:163-176`); markup in it is read as a page.
* `--max-talks` ends the list of events when it is used up (`scan_engine.rs:134-145`), while its help
  text calls it a cap on talks.
* When candidates merge, the first one's match of a topic stays even if the other's
  confidence is higher (`merge.rs`, `union_topics`); `CreditedOnce` is about a candidate before that.
* `state migrate` prints with `println!` (`commands/state.rs:9-16`), against `output.rs:161-164`: on
  a closed pipe it ends with 101, an exit code that the program does not document.
* Someone listed under an alias and the full name appears twice in an event's people after
  enrichment gave both the same name.
* The disabled and entrypoint-less sources that `fetch_source` refuses never reach it
  in a scan: `context.rs` and `validate` keep them out.
* The install manifest is rewritten in place, so a crash leaves a torn one and an
  installation that counts as unmanaged; people and scalar fields, unlike
  media and talks, are not retained over an outage. No document promises otherwise.

## 7. Plan

Modelled: the scan transaction, fetching, lock and lifecycle, deduplication,
migration, extraction, the pipeline. Every safety and action property of the scan transaction, the
transactions, the engine, the lock, the lifecycle, deduplication, state files and the pipeline is proved,
and of extraction `RangesOrdered`, `SyntheticUrlsDistinct` and `EntryNeverRefetched`. What TLC alone checks is named at
the end of section 4, with the reasons.
