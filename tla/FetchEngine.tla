------------------------------ MODULE FetchEngine ------------------------------
(***************************************************************************)
(* A whole scan's fetching: fetch_all admits sources in id order, never    *)
(* more than Jobs at a time; each runs fetch_source, one transaction of    *)
(* FetchTransaction after another; a source that panics is reported like   *)
(* one that failed.                                                        *)
(*                                                                         *)
(* The adapter is outside: discover, plan_enrichment and enrich return     *)
(* anything they may, or panic.                                            *)
(***************************************************************************)
EXTENDS FetchTransaction, Sequences, Functions

CONSTANTS
  Order,          \* the configured sources in id order
  Enabled,        \* the sources that are enabled
  Entrypoint,     \* the entrypoint of a source, or NoUrl
  NoUrl,
  Jobs,           \* global_concurrency
  MaxStubs,       \* MAX_STUBS_PER_SOURCE
  MaxPlans        \* bound: fetches planned for one stub

ASSUME EngineAssumption ==
  /\ Order \in Seq(Fetchers) /\ Len(Order) = Cardinality(Fetchers)
  /\ \A f \in Fetchers : \E i \in 1..Len(Order) : Order[i] = f
  /\ Enabled \subseteq Fetchers
  /\ Entrypoint \in [Fetchers -> Urls \cup {NoUrl}]
  /\ Jobs \in Nat \ {0} /\ MaxStubs \in Nat /\ MaxPlans \in Nat

VARIABLES
  admitted,   \* how many sources of Order the coordinator has taken
  results,    \* what fetch_all has collected: a sequence of reports
  returned,   \* fetch_all has returned
  src         \* the state of fetch_source for each source

engineVars == <<admitted, results, returned, src>>
allVars == <<tx, cached, denied, served, expired, admitted, results, returned, src>>

\* Where fetch_source is:
\*   Pending    not admitted             Entry    fetching the entrypoint
\*   Begin      spawned, not started     Stubs    at the head of the stub loop
\*   Discover   entrypoint in hand       Plans    at the head of the plan loop
\*   Detail     fetching for a plan      Finished returned its status
\*   Panicked   the task died            Joined   its report is collected
SourceStage == {"Pending", "Begin", "Entry", "Discover", "Stubs", "Plans", "Detail",
                "Finished", "Panicked", "Joined"}
SourceStatus == {"Ok", "Partial", "ParseError", "Disabled"} \cup Failure

Source == [stage : SourceStage, status : SourceStatus,
           found : 0..(MaxStubs + 1),     \* stubs that discover returned
           stubs : 0..MaxStubs,           \* stubs left to enrich
           plans : 0..MaxPlans,           \* plans left for this stub
           failed : BOOLEAN,              \* enrichment_failures > 0
           candidates : 0..MaxStubs,      \* events extracted
           wanted : Nat, got : Nat]       \* plans made, documents had (history)

Report == [source : Fetchers, status : SourceStatus, candidates : 0..MaxStubs]

EngineTypeOK ==
  /\ FetchTypeOK
  /\ admitted \in 0..Len(Order)
  /\ results \in Seq(Report)
  /\ returned \in BOOLEAN
  /\ src \in [Fetchers -> Source]

EngineInit ==
  /\ FetchInit
  /\ admitted = 0 /\ results = <<>> /\ returned = FALSE
  /\ src = [f \in Fetchers |->
              [stage |-> "Pending", status |-> "Ok", found |-> 0, stubs |-> 0, plans |-> 0,
               failed |-> FALSE, candidates |-> 0, wanted |-> 0, got |-> 0]]

-----------------------------------------------------------------------------
(* fetch_source.                                                           *)

Finish(f, status) == src' = [src EXCEPT ![f].stage = "Finished", ![f].status = status]

Fetchable(f) == f \in Enabled /\ Entrypoint[f] # NoUrl

\* A source that is disabled or has no entrypoint ends without a request; a scan never
\* hands one over (Enabled and EntrypointOk of Registry).
Begin(f) ==
  /\ src[f].stage = "Begin"
  /\ IF Fetchable(f)
     THEN Start(f, Entrypoint[f]) /\ src' = [src EXCEPT ![f].stage = "Entry"]
     ELSE /\ Finish(f, IF f \in Enabled THEN "ParseError" ELSE "Disabled")
          /\ UNCHANGED fetchVars
  /\ UNCHANGED <<admitted, results, returned>>

\* Without the entrypoint there is nothing to report but the failure.
EntryDone(f) ==
  /\ src[f].stage = "Entry"
  /\ Take(f)
  /\ IF tx[f].outcome = "Document"
     THEN src' = [src EXCEPT ![f].stage = "Discover"]
     ELSE Finish(f, tx[f].outcome)
  /\ UNCHANGED <<admitted, results, returned>>

\* Stubs kept of n discovered ones.
Kept(n) == IF n > MaxStubs THEN MaxStubs ELSE n

\* What discover may return: an error, or stubs, possibly one more than are kept.
Discover(f) ==
  /\ src[f].stage = "Discover"
  /\ \/ Finish(f, "ParseError")
     \/ \E n \in 0..(MaxStubs + 1) :
          src' = [src EXCEPT ![f].stage = "Stubs", ![f].found = n,
                             ![f].stubs = Kept(n)]
  /\ UNCHANGED <<fetchVars, admitted, results, returned>>

\* Something the source listed is missing from its candidates.
Lost(f) == src[f].failed \/ src[f].found > MaxStubs

\* Fault: the deadline ends the loop without a failure.
BreakSilently(f) == src[f].failed

\* The failure flag when the deadline ends the stub loop early.
BreakFailed(f) == TRUE

\* The head of the stub loop: done, out of time, or on to the next stub's plans.
NextStub(f) ==
  /\ src[f].stage = "Stubs"
  /\ IF src[f].stubs = 0
     THEN Finish(f, IF Lost(f) THEN "Partial" ELSE "Ok")
     ELSE IF expired
     THEN src' = [src EXCEPT ![f].stubs = 0, ![f].failed = BreakFailed(f)]
     ELSE \E n \in 0..MaxPlans :
            src' = [src EXCEPT ![f].stage = "Plans", ![f].plans = n, ![f].wanted = @ + n]
  /\ UNCHANGED <<fetchVars, admitted, results, returned>>

\* The failure flag when a plan lies beyond max_depth.
SkipFailed(f) == TRUE

\* A plan that lies too deep is a failure of its own; any other is fetched.
NextPlan(f) ==
  /\ src[f].stage = "Plans" /\ src[f].plans > 0
  /\ \/ /\ src' = [src EXCEPT ![f].plans = @ - 1, ![f].failed = SkipFailed(f)]
        /\ UNCHANGED fetchVars
     \/ /\ \E url \in Urls : Start(f, url)
        /\ src' = [src EXCEPT ![f].plans = @ - 1, ![f].stage = "Detail"]
  /\ UNCHANGED <<admitted, results, returned>>

DetailDone(f) ==
  /\ src[f].stage = "Detail"
  /\ Take(f)
  /\ src' = IF tx[f].outcome = "Document"
            THEN [src EXCEPT ![f].stage = "Plans", ![f].got = @ + 1]
            ELSE [src EXCEPT ![f].stage = "Plans", ![f].failed = TRUE]
  /\ UNCHANGED <<admitted, results, returned>>

\* All plans of the stub are done: enrich extracts an event from whatever
\* documents were had, or reports an error.
Enrich(f) ==
  /\ src[f].stage = "Plans" /\ src[f].plans = 0
  /\ \/ src' = [src EXCEPT ![f].stage = "Stubs", ![f].stubs = @ - 1, ![f].candidates = @ + 1]
     \/ src' = [src EXCEPT ![f].stage = "Stubs", ![f].stubs = @ - 1, ![f].failed = TRUE]
  /\ UNCHANGED <<fetchVars, admitted, results, returned>>

\* An adapter call panics; the tokio task ends and its locals are dropped.
Panic(f) ==
  /\ \/ src[f].stage = "Discover"
     \/ src[f].stage = "Stubs" /\ src[f].stubs > 0
     \/ src[f].stage = "Plans" /\ src[f].plans = 0
  /\ src' = [src EXCEPT ![f].stage = "Panicked"]
  /\ UNCHANGED <<fetchVars, admitted, results, returned>>

-----------------------------------------------------------------------------
(* fetch_all.                                                              *)

\* tasks.len(): spawned and not joined.
Tasks == {f \in Fetchers : src[f].stage \notin {"Pending", "Joined"}}

Reported(f) == [source |-> f, status |-> src[f].status, candidates |-> src[f].candidates]

FailedSource(f) == [source |-> f, status |-> "ParseError", candidates |-> 0]

CanAdmit == ~ returned /\ admitted < Len(Order) /\ Cardinality(Tasks) < Jobs

\* The results once the factory of f has panicked.
FactoryFailed(f) == Append(results, FailedSource(f))

\* The next source is spawned, unless its adapter factory panics.
Admit ==
  /\ CanAdmit
  /\ LET f == Order[admitted + 1]
     IN  \/ /\ src' = [src EXCEPT ![f].stage = "Begin"]
            /\ UNCHANGED results
         \/ /\ src' = [src EXCEPT ![f].stage = "Joined"]
            /\ results' = FactoryFailed(f)
  /\ admitted' = admitted + 1
  /\ UNCHANGED <<fetchVars, returned>>

\* A finished task is joined; only then is the next source admitted.
Join(f) ==
  /\ ~ CanAdmit
  /\ src[f].stage \in {"Finished", "Panicked"}
  /\ results' = Append(results, IF src[f].stage = "Finished" THEN Reported(f)
                                ELSE FailedSource(f))
  /\ src' = [src EXCEPT ![f].stage = "Joined"]
  /\ UNCHANGED <<fetchVars, admitted, returned>>

\* Where f comes in id order.
Position(f) == CHOOSE i \in 1..Len(Order) : Order[i] = f

\* Fault: results are returned as the sources completed.
Unsorted(seq) == seq

\* The ids of seq ascend when its elements are taken as arranged.
Ascending(seq, arranged) ==
  \A i, j \in DOMAIN seq :
    i < j => Position(seq[arranged[i]].source) <= Position(seq[arranged[j]].source)

\* results.sort_by source id.
SortedById(seq) ==
  LET arranged == CHOOSE by \in Bijection(DOMAIN seq, DOMAIN seq) : Ascending(seq, by)
  IN  [i \in DOMAIN seq |-> seq[arranged[i]]]

ReturnResults ==
  /\ ~ returned /\ ~ CanAdmit /\ Tasks = {}
  /\ results' = SortedById(results)
  /\ returned' = TRUE
  /\ UNCHANGED <<fetchVars, admitted, src>>

-----------------------------------------------------------------------------

\* What the task of f does next, its coordinator's part included.
SourceStep(f) ==
  \/ Begin(f) \/ EntryDone(f) \/ Discover(f) \/ NextStub(f) \/ NextPlan(f)
  \/ DetailDone(f) \/ Enrich(f) \/ Join(f)
  \/ Progress(f) /\ UNCHANGED engineVars

Coordinate == Admit \/ ReturnResults

EngineNext ==
  \/ Coordinate
  \/ \E f \in Fetchers : SourceStep(f) \/ Panic(f)
  \/ DeadlinePasses /\ UNCHANGED engineVars
  \/ returned /\ UNCHANGED allVars   \* the scan goes on to its next phase

\* Tokio polls every task that can proceed, and servers answer or time out
\* (request_timeout).  Nothing is assumed of the deadline: it may never pass.
EngineSpec ==
  /\ EngineInit /\ [][EngineNext]_allVars
  /\ WF_allVars(Coordinate)
  /\ \A f \in Fetchers : WF_allVars(SourceStep(f))

-----------------------------------------------------------------------------
(* Properties.                                                             *)

\* A source that reports Ok is complete: every stub it listed became a candidate
\* and every document it planned for was had.  Only then may its silence about an
\* event cancel it (AllAuthoritative of ScanStore).
OkIsComplete ==
  \A i \in 1..Len(results) :
    LET f == results[i].source
    IN  results[i].status = "Ok" => /\ results[i].candidates = src[f].found
                                    /\ src[f].got = src[f].wanted

\* Whatever fails or panics, fetch_all reports every configured source exactly
\* once, in id order.
OneReportEach ==
  /\ \A i, j \in 1..Len(results) : results[i].source = results[j].source => i = j
  /\ returned => [i \in 1..Len(results) |-> results[i].source] = Order

\* fetch_all returns even if the deadline never passes: no cycle of waits for
\* permits, robots cells and job slots needs it to be broken.
AllReported == <>returned

=============================================================================
