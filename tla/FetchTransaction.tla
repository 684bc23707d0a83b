--------------------------- MODULE FetchTransaction ---------------------------
(***************************************************************************)
(* The HTTP transactions of a scan (fetch_one) and what they share: the    *)
(* host semaphores of FetchClient, the RobotsCache and the scan deadline.  *)
(*                                                                         *)
(* A fetcher is a source; it has at most one transaction at a time and one *)
(* request budget for all of them.  Steps are the stretches between two    *)
(* awaits.  A server may answer anything, at any time, also after the      *)
(* deadline (the answer arrived in time and is read late); a request that  *)
(* times out is one of the failures it may answer with.                    *)
(*                                                                         *)
(* An origin is a scheme, a host and a port.  Robots rules are the set of  *)
(* paths they deny, which is all that is_allowed tells.                    *)
(***************************************************************************)
EXTENDS Naturals, FiniteSets

CONSTANTS
  Fetchers,       \* the sources of the scan
  Origins,        \* scheme, host and port
  Paths,          \* paths with their query
  HostOf,         \* the host of an origin
  Secure,         \* the https origins
  AllowedHosts,   \* the allowed_hosts of a source; empty is no restriction
  PerHost,        \* per_host_concurrency
  RedirectLimit,  \* redirect_limit
  MaxRetry,       \* max_retry
  RequestBudget,  \* request_budget of each source
  NoHost          \* no permit held

Hosts == {HostOf[o] : o \in Origins}
Urls  == [origin : Origins, path : Paths]

ASSUME FetchAssumption ==
  /\ IsFiniteSet(Fetchers)
  /\ Origins # {} /\ Paths # {}
  /\ HostOf \in [Origins -> Hosts]
  /\ Secure \subseteq Origins
  /\ AllowedHosts \in [Fetchers -> SUBSET Hosts]
  /\ PerHost \in Nat \ {0}
  /\ RedirectLimit \in Nat /\ MaxRetry \in Nat /\ RequestBudget \in Nat
  /\ NoHost \notin Hosts

VARIABLES
  tx,       \* the transaction of each fetcher
  cached,   \* the robots cache: the keys whose cell is initialised ...
  denied,   \* ... the paths their rules deny ...
  served,   \* ... and the host that was asked last for them (history)
  expired   \* the scan deadline has passed

fetchVars == <<tx, cached, denied, served, expired>>

Keys == Origins \X {AllowedHosts[f] : f \in Fetchers}

\* Where a transaction awaits or was left:
\*   Idle        none under way
\*   Robots      wants the rules of its url's origin (OnceCell::get_or_try_init)
\*   RobotsWait  initialises them, waits for a permit of the robots host
\*   RobotsSent  initialises them, request in flight
\*   Top         the head of the redirect and retry loop
\*   Wait        waits for a permit of its url's host
\*   Sent        request in flight
\*   Sleep       backs off before a retry
\*   Done        returned its outcome
Stage   == {"Idle", "Robots", "RobotsWait", "RobotsSent", "Top", "Wait", "Sent", "Sleep", "Done"}
Failure == {"Timeout", "HttpError", "RobotsDenied", "BudgetExhausted"}
Outcome == {"Document"} \cup Failure

Transaction ==
  [pc : Stage, url : Urls, hops : 0..RedirectLimit, retries : 0..MaxRetry,
   remaining : 0..RequestBudget, holding : Hosts \cup {NoHost},
   robotsAt : Origins, robotsHops : 0..RedirectLimit, outcome : Outcome,
   sent : Nat]   \* content requests that left (history)

FetchTypeOK ==
  /\ tx \in [Fetchers -> Transaction]
  /\ cached \subseteq Keys
  /\ denied \in [Keys -> SUBSET Paths]
  /\ served \in [Keys -> Hosts]
  /\ expired \in BOOLEAN

FetchInit ==
  /\ \E o \in Origins, p \in Paths :
       tx = [f \in Fetchers |->
               [pc |-> "Idle", url |-> [origin |-> o, path |-> p], hops |-> 0, retries |-> 0,
                remaining |-> RequestBudget, holding |-> NoHost,
                robotsAt |-> o, robotsHops |-> 0, outcome |-> "Document", sent |-> 0]]
  /\ cached = {}
  /\ denied = [k \in Keys |-> {}]
  /\ served = [k \in Keys |-> HostOf[k[1]]]
  /\ expired = FALSE

-----------------------------------------------------------------------------

HostAllowed(f, origin) == AllowedHosts[f] = {} \/ HostOf[origin] \in AllowedHosts[f]

Downgrade(from, to) == from \in Secure /\ to \notin Secure

\* Fault: rules are cached per origin, whoever fetched them.
KeyOfOrigin(f) == <<tx[f].url.origin, AllowedHosts[CHOOSE g \in Fetchers : TRUE]>>

\* Cached rules are shared by the fetchers with the same allowlist only.
Key(f) == <<tx[f].url.origin, AllowedHosts[f]>>

\* Fault: a second fetcher may initialise the cell at the same time.
NeverInitializing(key) == FALSE

\* Some fetcher is inside the initialiser of the cell.
Initializing(key) ==
  \E f \in Fetchers : Key(f) = key /\ tx[f].pc \in {"RobotsWait", "RobotsSent"}

UrlHost(f) == HostOf[tx[f].url.origin]

\* Fault: robots requests are charged to the host of the url that needs them.
RobotsHostOfUrl(f) == UrlHost(f)

RobotsHost(f) == HostOf[tx[f].robotsAt]

Holders(host) == {f \in Fetchers : tx[f].holding = host}

PermitFree(host) == Cardinality(Holders(host)) < PerHost

\* fetch_one returns: every permit guard is dropped, the counters are gone.
Return(f, outcome) ==
  tx' = [tx EXCEPT ![f].pc = "Done", ![f].outcome = outcome, ![f].holding = NoHost,
                   ![f].hops = 0, ![f].retries = 0, ![f].robotsHops = 0,
                   ![f].robotsAt = tx[f].url.origin]

-----------------------------------------------------------------------------
(* fetch_one, up to its loop, and check_robots.                            *)

Start(f, url) ==
  /\ tx[f].pc = "Idle"
  /\ IF expired THEN Return(f, "Timeout")
     ELSE IF ~ HostAllowed(f, url.origin) THEN Return(f, "HttpError")
     ELSE tx' = [tx EXCEPT ![f].pc = "Robots", ![f].url = url]
  /\ UNCHANGED <<cached, denied, served, expired>>

\* The rules of the key are known: the url is allowed or not.
RobotsVerdict(f) ==
  /\ tx[f].pc = "Robots" /\ Key(f) \in cached
  /\ IF tx[f].url.path \in denied[Key(f)]
     THEN Return(f, "RobotsDenied")
     ELSE tx' = [tx EXCEPT ![f].pc = "Top"]
  /\ UNCHANGED <<cached, denied, served, expired>>

\* Nobody has fetched them and nobody is at it: this fetcher does.
RobotsInitialize(f) ==
  /\ tx[f].pc = "Robots" /\ Key(f) \notin cached
  /\ ~ Initializing(Key(f))
  /\ tx' = [tx EXCEPT ![f].pc = "RobotsWait", ![f].robotsAt = tx[f].url.origin]
  /\ UNCHANGED <<cached, denied, served, expired>>

\* Fault: the deadline is not looked at again after the wait for a permit.
InTimeBeforeWait(f) == TRUE

\* There is time left to send: the timeout of the request is not zero.
InTime(f) == ~ expired

\* A permit is had in time and the request leaves.
RobotsSend(f) ==
  /\ tx[f].pc = "RobotsWait" /\ InTime(f)
  /\ PermitFree(RobotsHost(f))
  /\ tx' = [tx EXCEPT ![f].pc = "RobotsSent", ![f].holding = RobotsHost(f)]
  /\ UNCHANGED <<cached, denied, served, expired>>

\* The deadline passed before the request left.  The cell stays empty.
RobotsTimeout(f) ==
  /\ tx[f].pc = "RobotsWait" /\ expired
  /\ Return(f, "Timeout")
  /\ UNCHANGED <<cached, denied, served, expired>>

\* A robots file, or what stands for one: nothing is denied on a 4xx, everything
\* on any other status and on an oversized file.
RobotsKnown(f, paths) ==
  /\ cached' = cached \cup {Key(f)}
  /\ denied' = [denied EXCEPT ![Key(f)] = paths]
  /\ served' = [served EXCEPT ![Key(f)] = HostOf[tx[f].robotsAt]]
  /\ tx' = [tx EXCEPT ![f].pc = "Robots", ![f].holding = NoHost, ![f].robotsHops = 0,
                   ![f].robotsAt = tx[f].url.origin]

RobotsAnswer(f) ==
  /\ tx[f].pc = "RobotsSent"
  /\ \/ \E paths \in SUBSET Paths : RobotsKnown(f, paths)
     \/ /\ Return(f, "HttpError")
        /\ UNCHANGED <<cached, denied, served>>
  /\ UNCHANGED expired

\* A redirect to an unsafe place, or one too many, stands for "all denied".
RobotsRedirect(f) ==
  /\ tx[f].pc = "RobotsSent"
  /\ \E to \in Origins :
       IF \/ Downgrade(tx[f].robotsAt, to)
          \/ ~ HostAllowed(f, to)
          \/ tx[f].robotsHops = RedirectLimit
       THEN RobotsKnown(f, Paths)
       ELSE /\ tx' = [tx EXCEPT ![f].pc = "RobotsWait", ![f].robotsAt = to,
                                ![f].robotsHops = @ + 1, ![f].holding = NoHost]
            /\ UNCHANGED <<cached, denied, served>>
  /\ UNCHANGED expired

-----------------------------------------------------------------------------
(* The redirect and retry loop.                                            *)

\* Every pass of the loop charges the budget before it waits for a permit.
Charge(f) ==
  /\ tx[f].pc = "Top"
  /\ IF expired THEN Return(f, "Timeout")
     ELSE IF tx[f].remaining = 0 THEN Return(f, "BudgetExhausted")
     ELSE tx' = [tx EXCEPT ![f].pc = "Wait", ![f].remaining = @ - 1]
  /\ UNCHANGED <<cached, denied, served, expired>>

Send(f) ==
  /\ tx[f].pc = "Wait" /\ InTime(f)
  /\ PermitFree(UrlHost(f))
  /\ tx' = [tx EXCEPT ![f].pc = "Sent", ![f].holding = UrlHost(f), ![f].sent = @ + 1]
  /\ UNCHANGED <<cached, denied, served, expired>>

SendTimeout(f) ==
  /\ tx[f].pc = "Wait" /\ expired
  /\ Return(f, "Timeout")
  /\ UNCHANGED <<cached, denied, served, expired>>

\* A document, or a failure that is not retried: a status, an oversized body, a
\* network error or a request that timed out.
Answer(f) ==
  /\ tx[f].pc = "Sent"
  /\ \E outcome \in {"Document", "HttpError"} : Return(f, outcome)
  /\ UNCHANGED <<cached, denied, served, expired>>

\* Fault: a redirect never asks for robots rules again.
AlwaysSameOrigin(from, to) == TRUE

\* Host, port and scheme are compared; the path is not.
SameOrigin(from, to) == from.origin = to.origin

\* Fault: the permit is kept while the next origin's rules are awaited.
KeepPermit(f) == tx[f].holding

\* What is held of the old response when the next await begins.
DropPermit(f) == NoHost

\* This redirect exceeds the limit.
OutOfHops(f) == tx[f].hops = RedirectLimit

Redirect(f) ==
  /\ tx[f].pc = "Sent"
  /\ \E to \in Urls :
       IF \/ OutOfHops(f)
          \/ ~ HostAllowed(f, to.origin)
          \/ Downgrade(tx[f].url.origin, to.origin)
       THEN Return(f, "HttpError")
       ELSE tx' = [tx EXCEPT
              ![f].pc = IF SameOrigin(tx[f].url, to) THEN "Top" ELSE "Robots",
              ![f].url = to, ![f].hops = @ + 1, ![f].holding = DropPermit(f)]
  /\ UNCHANGED <<cached, denied, served, expired>>

\* Fault: a retry goes straight back to the wait for a permit.
RetryUncharged(transient) == IF transient THEN "Wait" ELSE "Sleep"

\* A transient network error loops at once, a status after a pause.
RetryAt(transient) == IF transient THEN "Top" ELSE "Sleep"

\* Network errors and statuses share one retry allowance.
Retry(f) ==
  /\ tx[f].pc = "Sent"
  /\ IF tx[f].retries = MaxRetry THEN Return(f, "HttpError")
     ELSE \E transient \in BOOLEAN :
            tx' = [tx EXCEPT ![f].pc = RetryAt(transient), ![f].retries = @ + 1,
                             ![f].holding = NoHost]
  /\ UNCHANGED <<cached, denied, served, expired>>

Wake(f) ==
  /\ tx[f].pc = "Sleep"
  /\ tx' = [tx EXCEPT ![f].pc = "Top"]
  /\ UNCHANGED <<cached, denied, served, expired>>

-----------------------------------------------------------------------------

\* One step of the transaction of f.
Progress(f) ==
  \/ RobotsVerdict(f) \/ RobotsInitialize(f)
  \/ RobotsSend(f) \/ RobotsTimeout(f) \/ RobotsAnswer(f) \/ RobotsRedirect(f)
  \/ Charge(f) \/ Send(f) \/ SendTimeout(f)
  \/ Answer(f) \/ Redirect(f) \/ Retry(f) \/ Wake(f)

\* The caller takes the outcome.
Take(f) ==
  /\ tx[f].pc = "Done"
  /\ tx' = [tx EXCEPT ![f].pc = "Idle"]
  /\ UNCHANGED <<cached, denied, served, expired>>

DeadlinePasses ==
  /\ ~ expired
  /\ expired' = TRUE
  /\ UNCHANGED <<tx, cached, denied, served>>

FetchNext ==
  \/ \E f \in Fetchers : \/ \E url \in Urls : Start(f, url)
                         \/ Progress(f)
                         \/ Take(f)
  \/ DeadlinePasses

FetchSpec == FetchInit /\ [][FetchNext]_fetchVars

-----------------------------------------------------------------------------
(* Properties.                                                             *)

InFlight(f) == tx[f].pc \in {"RobotsSent", "Sent"}

\* At most PerHost requests, robots files included, are in flight to one host,
\* whichever origins, redirects and allowlists lead there.
HostBound ==
  \A h \in Hosts :
    Cardinality({f \in Fetchers :
                   \/ tx[f].pc = "RobotsSent" /\ HostOf[tx[f].robotsAt] = h
                   \/ tx[f].pc = "Sent" /\ HostOf[tx[f].url.origin] = h}) <= PerHost

\* A permit is held exactly while a request is in flight, so nobody waits for
\* robots rules, a permit or a timer while holding one: no wait cycle can form.
NoHoldAndWait == \A f \in Fetchers : tx[f].holding # NoHost => InFlight(f)

\* Content requests of any kind (first, redirected, retried) never exceed what
\* was charged to the source, across all its transactions.
SentWithinBudget == \A f \in Fetchers : tx[f].sent + tx[f].remaining <= RequestBudget

\* Content is requested from an origin only once the rules of that origin, as
\* seen under the source's own allowlist, are known.
RulesKnownBeforeContent ==
  \A f \in Fetchers :
    tx[f].pc \in {"Top", "Wait", "Sent", "Sleep"} => Key(f) \in cached

\* A source never acts on rules that came from a host outside its allowlist, even
\* if another source followed a redirect of the same robots file there.
RulesFromAllowedHosts ==
  \A f \in Fetchers :
    tx[f].pc \in {"Top", "Wait", "Sent", "Sleep"} /\ AllowedHosts[f] # {}
      => served[Key(f)] \in AllowedHosts[f]

\* What NoRequestAfterDeadline says of a step.
NothingLeaves ==
  expired => \A f \in Fetchers : InFlight(f)' => InFlight(f)

\* No request leaves once the deadline has passed, however long a permit, a
\* robots cell or a backoff was waited for.
NoRequestAfterDeadline == [][NothingLeaves]_fetchVars

\* What RulesAreStable says of a step.
RulesKept == \A k \in cached : k \in cached' /\ denied'[k] = denied[k]

\* All sources that share a cell see one answer: rules, once known, stay, and a
\* failed initialisation leaves nothing behind.
RulesAreStable == [][RulesKept]_fetchVars

\* The policy is checked again after a redirect and there is no robots bypass: no
\* content request is in flight to a path its origin's rules deny.
RobotsRespected ==
  \A f \in Fetchers : tx[f].pc = "Sent" => tx[f].url.path \notin denied[Key(f)]

=============================================================================
