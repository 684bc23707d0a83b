------------------------------ MODULE FetchProofs ------------------------------
(* Proofs about FetchTransaction, for every set of sources, hosts and limits:   *)
(* permits, budget, deadline, and where the rules of robots come from.  Then    *)
(* about FetchEngine: the loops of fetch_source make only transactions that     *)
(* FetchTransaction allows, an Ok report has lost nothing, and every source is  *)
(* reported once.                                                               *)
EXTENDS FetchEngine, FiniteSetTheorems, OrderLemmas

-----------------------------------------------------------------------------
(* The inductive invariant of the transactions.                            *)

Content(f)      == tx[f].pc \in {"Top", "Wait", "Sent", "Sleep"}
Initializer(f)  == tx[f].pc \in {"RobotsWait", "RobotsSent"}

\* A permit is that of the host to which the request in flight goes.
PermitFits(f) ==
  /\ tx[f].pc = "RobotsSent" => tx[f].holding = RobotsHost(f)
  /\ tx[f].pc = "Sent" => tx[f].holding = UrlHost(f)
  /\ ~ InFlight(f) => tx[f].holding = NoHost

PermitsBounded == \A h \in Hosts : Cardinality(Holders(h)) <= PerHost

\* Whoever waits for its permit has paid for a request that it has not sent.
Paid(f) == tx[f].sent + tx[f].remaining + (IF tx[f].pc = "Wait" THEN 1 ELSE 0) <= RequestBudget

\* Where a source is going, and where it has been sent for rules, it may go.
WithinAllowlist(f) ==
  /\ tx[f].pc \notin {"Idle", "Done"} => HostAllowed(f, tx[f].url.origin)
  /\ Initializer(f) => HostAllowed(f, tx[f].robotsAt)

RulesOfAllowedHosts == \A k \in cached : k[2] # {} => served[k] \in k[2]

\* A cell has one initialiser at a time, and none once it is initialised.
OneInitializer ==
  \A f \in Fetchers : Initializer(f) =>
    /\ Key(f) \notin cached
    /\ \A g \in Fetchers : Initializer(g) /\ Key(g) = Key(f) => g = f

FetcherInv(f) == PermitFits(f) /\ Paid(f) /\ WithinAllowlist(f) /\ (Content(f) => Key(f) \in cached)

FetchInv ==
  /\ FetchTypeOK
  /\ \A f \in Fetchers : FetcherInv(f)
  /\ PermitsBounded /\ RulesOfAllowedHosts /\ OneInitializer

-----------------------------------------------------------------------------
(* What a step of one fetcher does to the others.                          *)

\* Only the transaction of f changes.
Moves(f) ==
  /\ tx' \in [Fetchers -> Transaction]
  /\ \A g \in Fetchers \ {f} : tx'[g] = tx[g]

\* A new transaction for f in the place of the old one moves f only.
LEMMA UpdateMoves ==
  ASSUME NEW f \in Fetchers, NEW new \in Transaction, tx \in [Fetchers -> Transaction],
         tx' = [tx EXCEPT ![f] = new]
  PROVE  Moves(f) /\ tx'[f] = new
BY DEF Moves

\* Hosts get no more permits than there are: a step that takes one found it free.
LEMMA PermitsStayBounded ==
  ASSUME FetchTypeOK, PermitsBounded, NEW f \in Fetchers, Moves(f),
         \/ tx'[f].holding = NoHost
         \/ tx[f].holding = NoHost /\ PermitFree(tx'[f].holding)
  PROVE  PermitsBounded'
<1> SUFFICES ASSUME NEW h \in Hosts PROVE Cardinality(Holders(h)') <= PerHost
  BY DEF PermitsBounded, Hosts
<1>1. IsFiniteSet(Holders(h)) /\ Cardinality(Holders(h)) \in Nat /\ Cardinality(Holders(h)) <= PerHost
  BY FetchAssumption, FS_Subset, FS_CardinalityType DEF Holders, PermitsBounded
<1>2. CASE tx'[f].holding # h
  <2>1. Holders(h)' \subseteq Holders(h)
    BY <1>2 DEF Holders, Moves
  <2>2. Cardinality(Holders(h)') <= Cardinality(Holders(h)) /\ Cardinality(Holders(h)') \in Nat
    BY <1>1, <2>1, FS_Subset, FS_CardinalityType
  <2> QED BY <1>1, <2>2, FetchAssumption
<1>3. CASE tx'[f].holding = h
  <2>1. h # NoHost
    BY FetchAssumption
  <2>2. PermitFree(h) /\ f \notin Holders(h)
    BY <1>3, <2>1 DEF Holders
  <2>3. Holders(h)' = Holders(h) \cup {f}
    BY <1>3 DEF Holders, Moves
  <2>4. Cardinality(Holders(h)') = Cardinality(Holders(h)) + 1
    BY <1>1, <2>2, <2>3, FS_AddElement
  <2> QED BY <1>1, <2>2, <2>4, FetchAssumption DEF PermitFree
<1> QED BY <1>2, <1>3

\* The other fetchers keep their part of the invariant.
LEMMA OthersKeepInv ==
  ASSUME NEW f \in Fetchers, Moves(f), cached \subseteq cached',
         NEW g \in Fetchers \ {f}, FetcherInv(g)
  PROVE  FetcherInv(g)'
BY DEF Moves, FetcherInv, PermitFits, Paid, WithinAllowlist, Content, Initializer, InFlight,
       RobotsHost, UrlHost, Key

\* A step that leaves the cache alone: what is left to show is what holds of f itself,
\* and that it does not join another initialiser.
LEMMA StepKeepsFetchInv ==
  ASSUME FetchInv, NEW f \in Fetchers, Moves(f), UNCHANGED <<cached, denied, served, expired>>,
         FetcherInv(f)',
         \/ tx'[f].holding = NoHost
         \/ tx[f].holding = NoHost /\ PermitFree(tx'[f].holding),
         Initializer(f)' => \/ Initializer(f) /\ Key(f)' = Key(f)
                            \/ Key(f)' \notin cached /\ ~ Initializing(Key(f)')
  PROVE  FetchInv'
<1>1. FetchTypeOK'
  BY DEF FetchInv, FetchTypeOK, Moves
<1>2. \A g \in Fetchers : FetcherInv(g)'
  BY OthersKeepInv DEF FetchInv
<1>3. PermitsBounded'
  BY PermitsStayBounded DEF FetchInv
<1>4. RulesOfAllowedHosts'
  BY DEF FetchInv, RulesOfAllowedHosts
<1>5. \A g \in Fetchers \ {f} : Initializer(g)' = Initializer(g) /\ Key(g)' = Key(g)
  BY DEF Moves, Initializer, Key
<1>6. OneInitializer'
  <2> SUFFICES ASSUME NEW g \in Fetchers, Initializer(g)'
               PROVE  /\ Key(g)' \notin cached
                      /\ \A h \in Fetchers : Initializer(h)' /\ Key(h)' = Key(g)' => h = g
    BY DEF OneInitializer
  <2>1. CASE Initializer(f)' => Initializer(f) /\ Key(f)' = Key(f)
    <3>1. \A h \in Fetchers : Initializer(h)' => Initializer(h) /\ Key(h)' = Key(h)
      BY <1>5, <2>1
    <3> QED BY <3>1 DEF FetchInv, OneInitializer
  <2>2. CASE Initializer(f)' /\ Key(f)' \notin cached /\ ~ Initializing(Key(f)')
    <3>1. \A h \in Fetchers \ {f} : Initializer(h)' => Key(h)' # Key(f)'
      BY <1>5, <2>2 DEF Initializing, Initializer
    <3> QED BY <1>5, <2>2, <3>1 DEF FetchInv, OneInitializer
  <2> QED BY <2>1, <2>2
<1> QED BY <1>1, <1>2, <1>3, <1>4, <1>6 DEF FetchInv

-----------------------------------------------------------------------------
(* The actions, one by one.                                                *)

\* fetch_one returns: nothing is held and nothing is owed to a wait.
LEMMA ReturnKeepsFetchInv ==
  ASSUME FetchInv, NEW f \in Fetchers, NEW outcome \in Outcome, Return(f, outcome),
         UNCHANGED <<cached, denied, served, expired>>
  PROVE  FetchInv'
<1>0. tx \in [Fetchers -> Transaction] /\ RequestBudget \in Nat
  BY FetchAssumption DEF FetchInv, FetchTypeOK
<1>1. /\ tx'[f].pc = "Done" /\ tx'[f].holding = NoHost /\ tx'[f].url = tx[f].url
      /\ tx'[f].sent = tx[f].sent /\ tx'[f].remaining = tx[f].remaining
  BY <1>0 DEF Return, Transaction
<1>2. Moves(f)
  <2>1. tx[f] \in Transaction
    BY <1>0
  <2> DEFINE new == [tx[f] EXCEPT !.pc = "Done", !.outcome = outcome, !.holding = NoHost,
                       !.hops = 0, !.retries = 0, !.robotsHops = 0,
                       !.robotsAt = tx[f].url.origin]
  <2>2. new \in Transaction
    <3>1. 0 \in 0..RedirectLimit /\ 0 \in 0..MaxRetry /\ "Done" \in Stage
      BY FetchAssumption DEF Stage
    <3>2. tx[f].url.origin \in Origins
      BY <2>1 DEF Transaction, Urls
    <3> QED BY <2>1, <3>1, <3>2 DEF Transaction
  <2>3. tx' = [tx EXCEPT ![f] = new]
    BY <1>0 DEF Return
  <2> QED BY <1>0, <2>2, <2>3, UpdateMoves
<1>3. FetcherInv(f)'
  <2>1. tx[f].sent \in Nat /\ tx[f].remaining \in Nat
    BY <1>0, FetchAssumption DEF Transaction
  <2>2. tx[f].sent + tx[f].remaining <= RequestBudget
    BY <1>0, <2>1 DEF FetchInv, FetcherInv, Paid
  <2>3. Paid(f)'
    BY <1>0, <1>1, <2>1, <2>2 DEF Paid
  <2> QED BY <1>1, <2>3 DEF FetcherInv, PermitFits, WithinAllowlist, Content, Initializer, InFlight
<1>4. ~ Initializer(f)'
  BY <1>1 DEF Initializer
<1> QED BY <1>1, <1>2, <1>3, <1>4, StepKeepsFetchInv

\* A transaction starts where its source may go.
LEMMA StartKeepsFetchInv ==
  ASSUME FetchInv, NEW f \in Fetchers, NEW url \in Urls, tx[f].pc = "Idle", HostAllowed(f, url.origin),
         tx' = [tx EXCEPT ![f].pc = "Robots", ![f].url = url],
         UNCHANGED <<cached, denied, served, expired>>
  PROVE  FetchInv'
<1> DEFINE new == [tx[f] EXCEPT !.pc = "Robots", !.url = url]
<1>1. tx \in [Fetchers -> Transaction] /\ tx[f] \in Transaction /\ FetcherInv(f)
  BY DEF FetchInv, FetchTypeOK
<1>2. new \in Transaction
  BY <1>1, FetchAssumption DEF Transaction, Stage, Urls
<1>3. tx' = [tx EXCEPT ![f] = new]
  BY <1>1
<1>4. Moves(f) /\ tx'[f] = new
  BY <1>1, <1>2, <1>3, UpdateMoves
<1>5. FetcherInv(f)'
  BY <1>1, <1>4, FetchAssumption
  DEF FetcherInv, PermitFits, Paid, WithinAllowlist, Content, Initializer, InFlight, Key,
      RobotsHost, UrlHost, Transaction, HostAllowed
<1> QED BY <1>1, <1>4, <1>5, StepKeepsFetchInv
        DEF FetcherInv, PermitFits, InFlight, Initializer, Key, Transaction

\* Rules that are known lead to the loop.
LEMMA VerdictKeepsFetchInv ==
  ASSUME FetchInv, NEW f \in Fetchers, tx[f].pc = "Robots", Key(f) \in cached,
         tx' = [tx EXCEPT ![f].pc = "Top"],
         UNCHANGED <<cached, denied, served, expired>>
  PROVE  FetchInv'
<1> DEFINE new == [tx[f] EXCEPT !.pc = "Top"]
<1>1. tx \in [Fetchers -> Transaction] /\ tx[f] \in Transaction /\ FetcherInv(f)
  BY DEF FetchInv, FetchTypeOK
<1>2. new \in Transaction
  BY <1>1, FetchAssumption DEF Transaction, Stage, Urls
<1>3. tx' = [tx EXCEPT ![f] = new]
  BY <1>1
<1>4. Moves(f) /\ tx'[f] = new
  BY <1>1, <1>2, <1>3, UpdateMoves
<1>5. FetcherInv(f)'
  BY <1>1, <1>4, FetchAssumption
  DEF FetcherInv, PermitFits, Paid, WithinAllowlist, Content, Initializer, InFlight, Key,
      RobotsHost, UrlHost, Transaction, HostAllowed
<1> QED BY <1>1, <1>4, <1>5, StepKeepsFetchInv
        DEF FetcherInv, PermitFits, InFlight, Initializer, Key, Transaction

\* An empty cell that nobody initialises is taken by one.
LEMMA InitializeKeepsFetchInv ==
  ASSUME FetchInv, NEW f \in Fetchers, tx[f].pc = "Robots", Key(f) \notin cached, ~ Initializing(Key(f)),
         tx' = [tx EXCEPT ![f].pc = "RobotsWait", ![f].robotsAt = tx[f].url.origin],
         UNCHANGED <<cached, denied, served, expired>>
  PROVE  FetchInv'
<1> DEFINE new == [tx[f] EXCEPT !.pc = "RobotsWait", !.robotsAt = tx[f].url.origin]
<1>1. tx \in [Fetchers -> Transaction] /\ tx[f] \in Transaction /\ FetcherInv(f)
  BY DEF FetchInv, FetchTypeOK
<1>2. new \in Transaction
  BY <1>1, FetchAssumption DEF Transaction, Stage, Urls
<1>3. tx' = [tx EXCEPT ![f] = new]
  BY <1>1
<1>4. Moves(f) /\ tx'[f] = new
  BY <1>1, <1>2, <1>3, UpdateMoves
<1>5. FetcherInv(f)'
  BY <1>1, <1>4, FetchAssumption
  DEF FetcherInv, PermitFits, Paid, WithinAllowlist, Content, Initializer, InFlight, Key,
      RobotsHost, UrlHost, Transaction, HostAllowed
<1> QED BY <1>1, <1>4, <1>5, StepKeepsFetchInv
        DEF FetcherInv, PermitFits, InFlight, Initializer, Key, Transaction

\* A robots request leaves with a free permit of its host.
LEMMA RobotsSendKeepsFetchInv ==
  ASSUME FetchInv, NEW f \in Fetchers, tx[f].pc = "RobotsWait", PermitFree(RobotsHost(f)),
         tx' = [tx EXCEPT ![f].pc = "RobotsSent", ![f].holding = RobotsHost(f)],
         UNCHANGED <<cached, denied, served, expired>>
  PROVE  FetchInv'
<1> DEFINE new == [tx[f] EXCEPT !.pc = "RobotsSent", !.holding = RobotsHost(f)]
<1>1. tx \in [Fetchers -> Transaction] /\ tx[f] \in Transaction /\ FetcherInv(f)
  BY DEF FetchInv, FetchTypeOK
<1>2. new \in Transaction
  BY <1>1, FetchAssumption DEF Transaction, Stage, Urls, RobotsHost
<1>3. tx' = [tx EXCEPT ![f] = new]
  BY <1>1
<1>4. Moves(f) /\ tx'[f] = new
  BY <1>1, <1>2, <1>3, UpdateMoves
<1>5. FetcherInv(f)'
  BY <1>1, <1>4, FetchAssumption
  DEF FetcherInv, PermitFits, Paid, WithinAllowlist, Content, Initializer, InFlight, Key,
      RobotsHost, UrlHost, Transaction, HostAllowed
<1> QED BY <1>1, <1>4, <1>5, StepKeepsFetchInv
        DEF FetcherInv, PermitFits, InFlight, Initializer, Key, Transaction, RobotsHost

\* A robots request is redirected to where its source may go.
LEMMA RobotsHopKeepsFetchInv ==
  ASSUME FetchInv, NEW f \in Fetchers, NEW to \in Origins, tx[f].pc = "RobotsSent",
         HostAllowed(f, to), tx[f].robotsHops # RedirectLimit,
         tx' = [tx EXCEPT ![f].pc = "RobotsWait", ![f].robotsAt = to,
                         ![f].robotsHops = tx[f].robotsHops + 1, ![f].holding = NoHost],
         UNCHANGED <<cached, denied, served, expired>>
  PROVE  FetchInv'
<1> DEFINE new == [tx[f] EXCEPT !.pc = "RobotsWait", !.robotsAt = to,
                                !.robotsHops = tx[f].robotsHops + 1, !.holding = NoHost]
<1>1. tx \in [Fetchers -> Transaction] /\ tx[f] \in Transaction /\ FetcherInv(f)
  BY DEF FetchInv, FetchTypeOK
<1>2. new \in Transaction
  BY <1>1, FetchAssumption DEF Transaction, Stage, Urls
<1>3. tx' = [tx EXCEPT ![f] = new]
  BY <1>1
<1>4. Moves(f) /\ tx'[f] = new
  BY <1>1, <1>2, <1>3, UpdateMoves
<1>5. FetcherInv(f)'
  BY <1>1, <1>4, FetchAssumption
  DEF FetcherInv, PermitFits, Paid, WithinAllowlist, Content, Initializer, InFlight, Key,
      RobotsHost, UrlHost, Transaction, HostAllowed
<1> QED BY <1>1, <1>4, <1>5, StepKeepsFetchInv
        DEF FetcherInv, PermitFits, InFlight, Initializer, Key, Transaction

\* What is charged is owed until it is sent.
LEMMA ChargeKeepsFetchInv ==
  ASSUME FetchInv, NEW f \in Fetchers, tx[f].pc = "Top", tx[f].remaining # 0,
         tx' = [tx EXCEPT ![f].pc = "Wait", ![f].remaining = tx[f].remaining - 1],
         UNCHANGED <<cached, denied, served, expired>>
  PROVE  FetchInv'
<1> DEFINE new == [tx[f] EXCEPT !.pc = "Wait", !.remaining = tx[f].remaining - 1]
<1>1. tx \in [Fetchers -> Transaction] /\ tx[f] \in Transaction /\ FetcherInv(f)
  BY DEF FetchInv, FetchTypeOK
<1>2. new \in Transaction
  BY <1>1, FetchAssumption DEF Transaction, Stage, Urls
<1>3. tx' = [tx EXCEPT ![f] = new]
  BY <1>1
<1>4. Moves(f) /\ tx'[f] = new
  BY <1>1, <1>2, <1>3, UpdateMoves
<1>5. FetcherInv(f)'
  BY <1>1, <1>4, FetchAssumption, SMTT(30)
  DEF FetcherInv, PermitFits, Paid, WithinAllowlist, Content, Initializer, InFlight, Key,
      RobotsHost, UrlHost, Transaction, HostAllowed
<1> QED BY <1>1, <1>4, <1>5, StepKeepsFetchInv
        DEF FetcherInv, PermitFits, InFlight, Initializer, Key, Transaction

\* A request leaves with a free permit of its host.
LEMMA SendKeepsFetchInv ==
  ASSUME FetchInv, NEW f \in Fetchers, tx[f].pc = "Wait", PermitFree(UrlHost(f)),
         tx' = [tx EXCEPT ![f].pc = "Sent", ![f].holding = UrlHost(f), ![f].sent = tx[f].sent + 1],
         UNCHANGED <<cached, denied, served, expired>>
  PROVE  FetchInv'
<1> DEFINE new == [tx[f] EXCEPT !.pc = "Sent", !.holding = UrlHost(f), !.sent = tx[f].sent + 1]
<1>1. tx \in [Fetchers -> Transaction] /\ tx[f] \in Transaction /\ FetcherInv(f)
  BY DEF FetchInv, FetchTypeOK
<1>2. new \in Transaction
  BY <1>1, FetchAssumption, SMTT(30) DEF Transaction, Stage, Urls, UrlHost
<1>3. tx' = [tx EXCEPT ![f] = new]
  BY <1>1
<1>4. Moves(f) /\ tx'[f] = new
  BY <1>1, <1>2, <1>3, UpdateMoves
<1>5. FetcherInv(f)'
  <2>1. PermitFits(f)'
    BY <1>1, <1>4 DEF PermitFits, InFlight, Initializer, Key, UrlHost, Transaction
  <2>2. Paid(f)'
    BY <1>1, <1>4, FetchAssumption DEF FetcherInv, Paid, InFlight, Transaction
  <2>3. WithinAllowlist(f)'
    BY <1>1, <1>4 DEF FetcherInv, WithinAllowlist, Initializer, Key, HostAllowed, Transaction
  <2>4. Content(f)' => Key(f)' \in cached'
    BY <1>1, <1>4 DEF FetcherInv, Content, Key, Transaction
  <2> QED BY <2>1, <2>2, <2>3, <2>4 DEF FetcherInv
<1> QED BY <1>1, <1>4, <1>5, StepKeepsFetchInv
        DEF FetcherInv, PermitFits, InFlight, Initializer, Key, Transaction, UrlHost

\* A redirect within the origin keeps its rules, any other asks for them.
LEMMA RedirectKeepsFetchInv ==
  ASSUME FetchInv, NEW f \in Fetchers, NEW to \in Urls, tx[f].pc = "Sent",
         HostAllowed(f, to.origin), tx[f].hops # RedirectLimit,
         tx' = [tx EXCEPT ![f].pc = IF SameOrigin(tx[f].url, to) THEN "Top" ELSE "Robots",
                         ![f].url = to, ![f].hops = tx[f].hops + 1, ![f].holding = NoHost],
         UNCHANGED <<cached, denied, served, expired>>
  PROVE  FetchInv'
<1> DEFINE new == [tx[f] EXCEPT !.pc = IF SameOrigin(tx[f].url, to) THEN "Top" ELSE "Robots",
                                !.url = to, !.hops = tx[f].hops + 1, !.holding = NoHost]
<1>1. tx \in [Fetchers -> Transaction] /\ tx[f] \in Transaction /\ FetcherInv(f)
  BY DEF FetchInv, FetchTypeOK
<1>2. new \in Transaction
  BY <1>1, FetchAssumption DEF Transaction, Stage, Urls
<1>3. tx' = [tx EXCEPT ![f] = new]
  BY <1>1
<1>4. Moves(f) /\ tx'[f] = new
  BY <1>1, <1>2, <1>3, UpdateMoves
<1>5. FetcherInv(f)'
  BY <1>1, <1>4, FetchAssumption, SMTT(30)
  DEF FetcherInv, PermitFits, Paid, WithinAllowlist, Content, Initializer, InFlight, Key,
      RobotsHost, UrlHost, Transaction, HostAllowed
<1> QED BY <1>1, <1>4, <1>5, StepKeepsFetchInv
        DEF FetcherInv, PermitFits, InFlight, Initializer, Key, Transaction, SameOrigin

\* A retry goes back to the head of the loop.
LEMMA RetryKeepsFetchInv ==
  ASSUME FetchInv, NEW f \in Fetchers, NEW stage \in {"Top", "Sleep"},
         tx[f].pc = "Sent", tx[f].retries # MaxRetry,
         tx' = [tx EXCEPT ![f].pc = stage, ![f].retries = tx[f].retries + 1, ![f].holding = NoHost],
         UNCHANGED <<cached, denied, served, expired>>
  PROVE  FetchInv'
<1> DEFINE new == [tx[f] EXCEPT !.pc = stage, !.retries = tx[f].retries + 1, !.holding = NoHost]
<1>1. tx \in [Fetchers -> Transaction] /\ tx[f] \in Transaction /\ FetcherInv(f)
  BY DEF FetchInv, FetchTypeOK
<1>2. new \in Transaction
  BY <1>1, FetchAssumption DEF Transaction, Stage, Urls
<1>3. tx' = [tx EXCEPT ![f] = new]
  BY <1>1
<1>4. Moves(f) /\ tx'[f] = new
  BY <1>1, <1>2, <1>3, UpdateMoves
<1>5. FetcherInv(f)'
  BY <1>1, <1>4, FetchAssumption
  DEF FetcherInv, PermitFits, Paid, WithinAllowlist, Content, Initializer, InFlight, Key,
      RobotsHost, UrlHost, Transaction, HostAllowed
<1> QED BY <1>1, <1>4, <1>5, StepKeepsFetchInv
        DEF FetcherInv, PermitFits, InFlight, Initializer, Key, Transaction

\* So does a fetcher that has slept.
LEMMA WakeKeepsFetchInv ==
  ASSUME FetchInv, NEW f \in Fetchers, tx[f].pc = "Sleep",
         tx' = [tx EXCEPT ![f].pc = "Top"],
         UNCHANGED <<cached, denied, served, expired>>
  PROVE  FetchInv'
<1> DEFINE new == [tx[f] EXCEPT !.pc = "Top"]
<1>1. tx \in [Fetchers -> Transaction] /\ tx[f] \in Transaction /\ FetcherInv(f)
  BY DEF FetchInv, FetchTypeOK
<1>2. new \in Transaction
  BY <1>1, FetchAssumption DEF Transaction, Stage, Urls
<1>3. tx' = [tx EXCEPT ![f] = new]
  BY <1>1
<1>4. Moves(f) /\ tx'[f] = new
  BY <1>1, <1>2, <1>3, UpdateMoves
<1>5. FetcherInv(f)'
  BY <1>1, <1>4, FetchAssumption
  DEF FetcherInv, PermitFits, Paid, WithinAllowlist, Content, Initializer, InFlight, Key,
      RobotsHost, UrlHost, Transaction, HostAllowed
<1> QED BY <1>1, <1>4, <1>5, StepKeepsFetchInv
        DEF FetcherInv, PermitFits, InFlight, Initializer, Key, Transaction

\* The outcome of a transaction is taken.
LEMMA TakeKeepsFetchInv ==
  ASSUME FetchInv, NEW f \in Fetchers, tx[f].pc = "Done",
         tx' = [tx EXCEPT ![f].pc = "Idle"],
         UNCHANGED <<cached, denied, served, expired>>
  PROVE  FetchInv'
<1> DEFINE new == [tx[f] EXCEPT !.pc = "Idle"]
<1>1. tx \in [Fetchers -> Transaction] /\ tx[f] \in Transaction /\ FetcherInv(f)
  BY DEF FetchInv, FetchTypeOK
<1>2. new \in Transaction
  BY <1>1, FetchAssumption DEF Transaction, Stage, Urls
<1>3. tx' = [tx EXCEPT ![f] = new]
  BY <1>1
<1>4. Moves(f) /\ tx'[f] = new
  BY <1>1, <1>2, <1>3, UpdateMoves
<1>5. FetcherInv(f)'
  BY <1>1, <1>4, FetchAssumption
  DEF FetcherInv, PermitFits, Paid, WithinAllowlist, Content, Initializer, InFlight, Key,
      RobotsHost, UrlHost, Transaction, HostAllowed
<1> QED BY <1>1, <1>4, <1>5, StepKeepsFetchInv
        DEF FetcherInv, PermitFits, InFlight, Initializer, Key, Transaction

\* Rules become known: the cell gets the only answer that it will have, from the
\* host that was asked last.
LEMMA KnownKeepsFetchInv ==
  ASSUME FetchInv, NEW f \in Fetchers, NEW paths \in SUBSET Paths, tx[f].pc = "RobotsSent",
         RobotsKnown(f, paths), UNCHANGED expired
  PROVE  FetchInv'
<1> DEFINE new == [tx[f] EXCEPT !.pc = "Robots", !.holding = NoHost, !.robotsHops = 0,
                                !.robotsAt = tx[f].url.origin]
<1>1. /\ tx \in [Fetchers -> Transaction] /\ tx[f] \in Transaction /\ FetcherInv(f)
      /\ Key(f) \in Keys /\ Initializer(f)
  BY DEF FetchInv, FetchTypeOK, Key, Keys, Transaction, Urls, Initializer
<1>2. new \in Transaction
  <2>1. 0 \in 0..RedirectLimit /\ "Robots" \in Stage
    BY FetchAssumption DEF Stage
  <2>2. tx[f].url.origin \in Origins
    BY <1>1 DEF Transaction, Urls
  <2> QED BY <1>1, <2>1, <2>2 DEF Transaction
<1>3. tx' = [tx EXCEPT ![f] = new]
  BY <1>1 DEF RobotsKnown
<1>4. Moves(f) /\ tx'[f] = new
  BY <1>1, <1>2, <1>3, UpdateMoves
<1>5. /\ cached' = cached \cup {Key(f)} /\ denied' = [denied EXCEPT ![Key(f)] = paths]
      /\ served' = [served EXCEPT ![Key(f)] = HostOf[tx[f].robotsAt]]
  BY DEF RobotsKnown
<1>6. FetchTypeOK'
  <2>1. HostOf[tx[f].robotsAt] \in Hosts
    BY <1>1, FetchAssumption DEF Transaction
  <2> QED BY <1>1, <1>4, <1>5, <2>1 DEF FetchInv, FetchTypeOK, Moves
<1>7. \A g \in Fetchers : FetcherInv(g)'
  <2>1. FetcherInv(f)'
    BY <1>1, <1>4, FetchAssumption
    DEF FetcherInv, PermitFits, Paid, WithinAllowlist, Content, Initializer, InFlight, Transaction
  <2>2. \A g \in Fetchers \ {f} : FetcherInv(g)'
    BY <1>4, <1>5, OthersKeepInv DEF FetchInv
  <2> QED BY <2>1, <2>2
<1>8. PermitsBounded'
  <2>1. tx'[f].holding = NoHost
    BY <1>1, <1>4 DEF Transaction
  <2> QED BY <1>4, <2>1, PermitsStayBounded DEF FetchInv
<1>9. RulesOfAllowedHosts'
  <2>1. Key(f)[2] # {} => HostOf[tx[f].robotsAt] \in Key(f)[2]
    BY <1>1 DEF FetcherInv, WithinAllowlist, HostAllowed, Key
  <2>2. served'[Key(f)] = HostOf[tx[f].robotsAt] /\ \A k \in cached \ {Key(f)} : served'[k] = served[k]
    BY <1>1, <1>5 DEF FetchInv, FetchTypeOK
  <2> QED BY <1>5, <2>1, <2>2 DEF FetchInv, RulesOfAllowedHosts
<1>10. OneInitializer'
  <2>1. ~ Initializer(f)'
    BY <1>4 DEF Initializer
  <2>2. \A g \in Fetchers \ {f} : Initializer(g)' = Initializer(g) /\ Key(g)' = Key(g)
    BY <1>4 DEF Moves, Initializer, Key
  <2> QED BY <1>1, <1>5, <2>1, <2>2 DEF FetchInv, OneInitializer
<1> QED BY <1>6, <1>7, <1>8, <1>9, <1>10 DEF FetchInv

-----------------------------------------------------------------------------
(* Every step.                                                             *)

\* A scan starts with no permit taken, no rules known and nobody under way.
LEMMA FetchInvInit == FetchInit => FetchInv
<1> SUFFICES ASSUME FetchInit PROVE FetchInv
  OBVIOUS
<1>1. PICK o \in Origins, p \in Paths :
        tx = [f \in Fetchers |->
               [pc |-> "Idle", url |-> [origin |-> o, path |-> p], hops |-> 0, retries |-> 0,
                remaining |-> RequestBudget, holding |-> NoHost,
                robotsAt |-> o, robotsHops |-> 0, outcome |-> "Document", sent |-> 0]]
  BY DEF FetchInit
<1>2. FetchTypeOK
  <2>1. tx \in [Fetchers -> Transaction]
    BY <1>1, FetchAssumption DEF Transaction, Stage, Outcome, Urls
  <2>2. denied \in [Keys -> SUBSET Paths] /\ served \in [Keys -> Hosts]
    BY FetchAssumption DEF FetchInit, Keys
  <2> QED BY <2>1, <2>2 DEF FetchInit, FetchTypeOK
<1>3. \A f \in Fetchers : FetcherInv(f)
  BY <1>1, FetchAssumption
  DEF FetcherInv, PermitFits, Paid, WithinAllowlist, Content, Initializer, InFlight
<1>4. PermitsBounded
  <2>1. \A h \in Hosts : Holders(h) = {}
    BY <1>1, FetchAssumption DEF Holders
  <2>2. Cardinality({}) = 0
    BY FS_EmptySet
  <2>3. \A h \in Hosts : Cardinality(Holders(h)) = 0
    BY <2>1, <2>2
  <2>4. PerHost \in Nat /\ 0 <= PerHost
    BY FetchAssumption
  <2> QED BY <2>3, <2>4 DEF PermitsBounded
<1>5. RulesOfAllowedHosts /\ OneInitializer
  BY <1>1 DEF FetchInit, RulesOfAllowedHosts, OneInitializer, Initializer
<1> QED BY <1>2, <1>3, <1>4, <1>5 DEF FetchInv

\* Whatever a transaction does next, its early returns included, keeps the invariant.
LEMMA ProgressKeepsFetchInv ==
  ASSUME FetchInv, NEW f \in Fetchers, Progress(f)
  PROVE  FetchInv'
<1>0. tx \in [Fetchers -> Transaction] /\ "Timeout" \in Outcome /\ "HttpError" \in Outcome
      /\ "RobotsDenied" \in Outcome /\ "BudgetExhausted" \in Outcome /\ "Document" \in Outcome
  BY DEF FetchInv, FetchTypeOK, Outcome, Failure
<1>1. CASE RobotsVerdict(f)
  BY <1>0, <1>1, ReturnKeepsFetchInv, VerdictKeepsFetchInv DEF RobotsVerdict
<1>2. CASE RobotsInitialize(f)
  BY <1>2, InitializeKeepsFetchInv DEF RobotsInitialize
<1>3. CASE RobotsSend(f)
  BY <1>3, RobotsSendKeepsFetchInv DEF RobotsSend
<1>4. CASE RobotsTimeout(f)
  BY <1>0, <1>4, ReturnKeepsFetchInv DEF RobotsTimeout
<1>5. CASE RobotsAnswer(f)
  BY <1>0, <1>5, ReturnKeepsFetchInv, KnownKeepsFetchInv, SMTT(30) DEF RobotsAnswer
<1>6. CASE RobotsRedirect(f)
  <2>1. PICK to \in Origins :
          IF \/ Downgrade(tx[f].robotsAt, to)
             \/ ~ HostAllowed(f, to)
             \/ tx[f].robotsHops = RedirectLimit
          THEN RobotsKnown(f, Paths)
          ELSE /\ tx' = [tx EXCEPT ![f].pc = "RobotsWait", ![f].robotsAt = to,
                                   ![f].robotsHops = @ + 1, ![f].holding = NoHost]
               /\ UNCHANGED <<cached, denied, served>>
    BY <1>6 DEF RobotsRedirect
  <2>2. tx[f].pc = "RobotsSent" /\ UNCHANGED expired
    BY <1>6 DEF RobotsRedirect
  <2> QED BY <2>1, <2>2, KnownKeepsFetchInv, RobotsHopKeepsFetchInv
<1>7. CASE Charge(f)
  BY <1>0, <1>7, ReturnKeepsFetchInv, ChargeKeepsFetchInv DEF Charge
<1>8. CASE Send(f)
  BY <1>8, SendKeepsFetchInv DEF Send
<1>9. CASE SendTimeout(f)
  BY <1>0, <1>9, ReturnKeepsFetchInv DEF SendTimeout
<1>10. CASE Answer(f)
  BY <1>0, <1>10, ReturnKeepsFetchInv, SMTT(30) DEF Answer
<1>11. CASE Redirect(f)
  BY <1>0, <1>11, ReturnKeepsFetchInv, RedirectKeepsFetchInv, ZenonT(60)
  DEF Redirect, OutOfHops, DropPermit
<1>12. CASE Retry(f)
  <2>1. \A transient \in BOOLEAN : RetryAt(transient) \in {"Top", "Sleep"}
    BY DEF RetryAt
  <2> QED BY <1>0, <1>12, <2>1, ReturnKeepsFetchInv, RetryKeepsFetchInv DEF Retry
<1>13. CASE Wake(f)
  BY <1>13, WakeKeepsFetchInv DEF Wake
<1> QED BY <1>1, <1>2, <1>3, <1>4, <1>5, <1>6, <1>7, <1>8, <1>9, <1>10, <1>11, <1>12, <1>13 DEF Progress

\* So does every step, the passing of the deadline included.
LEMMA NextKeepsFetchInv ==
  ASSUME FetchInv, [FetchNext]_fetchVars
  PROVE  FetchInv'
<1>1. ASSUME NEW f \in Fetchers, NEW url \in Urls, Start(f, url) PROVE FetchInv'
  <2>1. "Timeout" \in Outcome /\ "HttpError" \in Outcome
    BY DEF Outcome, Failure
  <2> QED BY <1>1, <2>1, ReturnKeepsFetchInv, StartKeepsFetchInv DEF Start
<1>2. ASSUME NEW f \in Fetchers, Take(f) PROVE FetchInv'
  BY <1>2, TakeKeepsFetchInv DEF Take
<1>3. CASE DeadlinePasses \/ UNCHANGED fetchVars
  <2>1. UNCHANGED <<tx, cached, denied, served>> /\ expired' \in {expired, TRUE}
    BY <1>3 DEF DeadlinePasses, fetchVars
  <2>2. FetchTypeOK'
    BY <2>1 DEF FetchInv, FetchTypeOK
  <2>3. \A f \in Fetchers : FetcherInv(f)'
    BY <2>1 DEF FetchInv, FetcherInv, PermitFits, Paid, WithinAllowlist, Content, Initializer,
                InFlight, RobotsHost, UrlHost, Key
  <2>4. PermitsBounded' /\ RulesOfAllowedHosts' /\ OneInitializer'
    BY <2>1 DEF FetchInv, PermitsBounded, Holders, RulesOfAllowedHosts, OneInitializer, Initializer, Key
  <2> QED BY <2>2, <2>3, <2>4 DEF FetchInv
<1> QED BY <1>1, <1>2, <1>3, ProgressKeepsFetchInv DEF FetchNext

\* The invariant, the type of a transaction with it, holds in every scan.
THEOREM FetchInvHolds == FetchSpec => []FetchInv
BY FetchInvInit, NextKeepsFetchInv, PTL DEF FetchSpec

-----------------------------------------------------------------------------
(* The theorems about transactions.                                        *)

\* At most PerHost requests, robots files included, are in flight to one host: each
\* holds a permit of the host that it goes to, however it was led there.
THEOREM HostBoundHolds == FetchSpec => []HostBound
<1>1. FetchInv => HostBound
  <2> SUFFICES ASSUME FetchInv, NEW h \in Hosts
               PROVE  Cardinality({f \in Fetchers :
                        \/ tx[f].pc = "RobotsSent" /\ HostOf[tx[f].robotsAt] = h
                        \/ tx[f].pc = "Sent" /\ HostOf[tx[f].url.origin] = h}) <= PerHost
    BY DEF HostBound
  <2> DEFINE asked == {f \in Fetchers :
                        \/ tx[f].pc = "RobotsSent" /\ HostOf[tx[f].robotsAt] = h
                        \/ tx[f].pc = "Sent" /\ HostOf[tx[f].url.origin] = h}
  <2>1. asked \subseteq Holders(h)
    BY DEF FetchInv, FetcherInv, PermitFits, RobotsHost, UrlHost, Holders
  <2>2. IsFiniteSet(Holders(h)) /\ Cardinality(Holders(h)) <= PerHost
    BY FetchAssumption, FS_Subset DEF Holders, FetchInv, PermitsBounded
  <2>3. /\ Cardinality(asked) <= Cardinality(Holders(h))
        /\ Cardinality(asked) \in Nat /\ Cardinality(Holders(h)) \in Nat
    BY <2>1, <2>2, FS_Subset, FS_CardinalityType
  <2> HIDE DEF asked
  <2>4. Cardinality(asked) <= PerHost
    BY <2>2, <2>3, FetchAssumption
  <2> QED BY <2>4 DEF asked
<1> QED BY <1>1, FetchInvHolds, PTL

\* No fetcher waits for rules, a permit or a timer while it holds a permit.
THEOREM NoHoldAndWaitHolds == FetchSpec => []NoHoldAndWait
<1>1. FetchInv => NoHoldAndWait
  BY DEF FetchInv, FetcherInv, PermitFits, NoHoldAndWait
<1> QED BY <1>1, FetchInvHolds, PTL

\* A source never sends more content requests than its budget has, in all its
\* transactions together: what waits for a permit is paid for already.
THEOREM SentWithinBudgetHolds == FetchSpec => []SentWithinBudget
<1>1. FetchInv => SentWithinBudget
  <2> SUFFICES ASSUME FetchInv, NEW f \in Fetchers
               PROVE  tx[f].sent + tx[f].remaining <= RequestBudget
    BY DEF SentWithinBudget
  <2>1. tx[f].sent \in Nat /\ tx[f].remaining \in Nat /\ RequestBudget \in Nat
    BY FetchAssumption DEF FetchInv, FetchTypeOK, Transaction
  <2> QED BY <2>1 DEF FetchInv, FetcherInv, Paid
<1> QED BY <1>1, FetchInvHolds, PTL

\* Whatever redirects and retries there are, content is asked for only where the
\* rules of the origin are known ...
THEOREM RulesKnownBeforeContentHolds == FetchSpec => []RulesKnownBeforeContent
<1>1. FetchInv => RulesKnownBeforeContent
  BY DEF FetchInv, FetcherInv, Content, RulesKnownBeforeContent
<1> QED BY <1>1, FetchInvHolds, PTL

\* ... and those came from a host that the source may talk to, though another source
\* may have fetched them: cells are shared within an allowlist only.
THEOREM RulesFromAllowedHostsHolds == FetchSpec => []RulesFromAllowedHosts
<1>1. FetchInv => RulesFromAllowedHosts
  BY DEF FetchInv, FetcherInv, Content, RulesOfAllowedHosts, RulesFromAllowedHosts, Key
<1> QED BY <1>1, FetchInvHolds, PTL

\* What a step may do to requests in flight and to known rules.
LEMMA StepIsDisciplined ==
  ASSUME FetchInv, [FetchNext]_fetchVars
  PROVE  NothingLeaves /\ RulesKept
<1>1. ASSUME NEW f \in Fetchers, NEW paths, tx[f].pc = "RobotsSent", RobotsKnown(f, paths)
      PROVE  RulesKept
  BY <1>1 DEF RobotsKnown, RulesKept, FetchInv, FetchTypeOK, OneInitializer, Initializer
<1>2. ASSUME UNCHANGED <<cached, denied>> PROVE RulesKept
  BY <1>2, SMTT(30) DEF RulesKept
<1>3. RulesKept
  BY <1>1, <1>2, ZenonT(60)
  DEF FetchNext, fetchVars, DeadlinePasses, Start, Take, Progress, RobotsVerdict, RobotsInitialize,
      RobotsSend, RobotsTimeout, RobotsAnswer, RobotsRedirect, Charge, Send, SendTimeout, Answer,
      Redirect, Retry, Wake
<1>4. NothingLeaves
  <2> SUFFICES ASSUME expired, NEW g \in Fetchers, InFlight(g)' PROVE InFlight(g)
    BY DEF NothingLeaves
  <2>0. tx \in [Fetchers -> Transaction]
    BY DEF FetchInv, FetchTypeOK
  <2>1. ASSUME NEW f \in Fetchers, NEW outcome, Return(f, outcome) PROVE InFlight(g)
    BY <2>0, <2>1 DEF Return, InFlight, Transaction
  <2>2. ASSUME NEW f \in Fetchers, NEW paths, RobotsKnown(f, paths) PROVE InFlight(g)
    BY <2>0, <2>2 DEF RobotsKnown, InFlight, Transaction
  <2>3. CASE UNCHANGED tx
    BY <2>3 DEF InFlight
  <2>4. ASSUME NEW f \in Fetchers, NEW url \in Urls, Start(f, url) PROVE InFlight(g)
    BY <2>0, <2>1, <2>4 DEF Start, InFlight, Transaction
  <2>5. ASSUME NEW f \in Fetchers, Take(f) PROVE InFlight(g)
    BY <2>0, <2>5 DEF Take, InFlight, Transaction
  <2>6. ASSUME NEW f \in Fetchers, Progress(f) PROVE InFlight(g)
    <3>1. CASE RobotsVerdict(f) \/ Charge(f) \/ SendTimeout(f) \/ RobotsTimeout(f) \/ Answer(f)
      BY <2>0, <2>1, <3>1
      DEF RobotsVerdict, Charge, SendTimeout, RobotsTimeout, Answer, InFlight, Transaction
    <3>2. CASE RobotsInitialize(f) \/ Wake(f)
      BY <2>0, <3>2, ZenonT(60) DEF RobotsInitialize, Wake, InFlight, Transaction
    <3>3. CASE RobotsSend(f) \/ Send(f)
      BY <3>3 DEF RobotsSend, Send, InTime
    <3>4. CASE RobotsAnswer(f) \/ RobotsRedirect(f)
      BY <2>0, <2>1, <2>2, <3>4, ZenonT(60) DEF RobotsAnswer, RobotsRedirect, InFlight, Transaction
    <3>5. CASE Redirect(f) \/ Retry(f)
      BY <2>0, <2>1, <3>5 DEF Redirect, Retry, RetryAt, InFlight, Transaction
    <3> QED BY <2>6, <3>1, <3>2, <3>3, <3>4, <3>5 DEF Progress
  <2> QED BY <2>3, <2>4, <2>5, <2>6 DEF FetchNext, fetchVars, DeadlinePasses
<1> QED BY <1>3, <1>4

\* No request leaves after the deadline, whatever was waited for.
THEOREM NoRequestAfterDeadlineHolds == FetchSpec => NoRequestAfterDeadline
<1>1. FetchInv /\ [FetchNext]_fetchVars => [NothingLeaves]_fetchVars
  BY StepIsDisciplined
<1> QED BY <1>1, FetchInvHolds, PTL DEF FetchSpec, NoRequestAfterDeadline

\* Rules that are known stay as they are.
THEOREM RulesAreStableHolds == FetchSpec => RulesAreStable
<1>1. FetchInv /\ [FetchNext]_fetchVars => [RulesKept]_fetchVars
  BY StepIsDisciplined
<1> QED BY <1>1, FetchInvHolds, PTL DEF FetchSpec, RulesAreStable

-----------------------------------------------------------------------------
(* The inductive invariant of the engine.                                  *)

\* A source has nothing before its stubs are known.
Fresh(s) ==
  s.stage \in {"Pending", "Begin", "Entry", "Discover"} =>
    /\ s.found = 0 /\ s.stubs = 0 /\ s.plans = 0 /\ s.candidates = 0
    /\ s.wanted = 0 /\ s.got = 0

\* What the loops of fetch_source have in hand.
InLoop(s) ==
  /\ s.stage = "Stubs" => s.plans = 0
  /\ s.stage \in {"Plans", "Detail"} => s.stubs > 0
  /\ s.candidates + s.stubs <= MaxStubs

Complete(s) == s.candidates = s.found /\ s.got = s.wanted

\* As long as nothing is lost, every stub is a candidate or still to come, and every
\* plan has its document, is under way or still to come.
Accounted(s) ==
  /\ s.stage \in {"Stubs", "Plans", "Detail"} /\ ~ s.failed /\ s.found <= MaxStubs =>
       /\ s.candidates + s.stubs = s.found
       /\ s.got + s.plans + (IF s.stage = "Detail" THEN 1 ELSE 0) = s.wanted
  /\ s.stage = "Finished" /\ s.status = "Ok" => Complete(s)

SourceInv(s) == Fresh(s) /\ InLoop(s) /\ Accounted(s)

\* What is collected was joined, once, and what was joined is collected.
ReportsFit ==
  /\ \A i \in DOMAIN results : src[results[i].source].stage = "Joined"
  /\ \A f \in Fetchers : src[f].stage = "Joined" => \E i \in DOMAIN results : results[i].source = f
  /\ \A i, j \in DOMAIN results : results[i].source = results[j].source => i = j
  /\ \A i \in DOMAIN results : results[i].status = "Ok" =>
       /\ results[i].candidates = src[results[i].source].found
       /\ src[results[i].source].got = src[results[i].source].wanted

\* Sources are admitted in order.
AdmittedInOrder == \A i \in 1..Len(Order) : src[Order[i]].stage = "Pending" <=> admitted < i

ReturnedAll ==
  returned => /\ \A f \in Fetchers : src[f].stage = "Joined"
              /\ [i \in 1..Len(results) |-> results[i].source] = Order

EngineInv ==
  /\ EngineTypeOK
  /\ \A f \in Fetchers : SourceInv(src[f])
  /\ ReportsFit /\ AdmittedInOrder /\ ReturnedAll

-----------------------------------------------------------------------------
(* The engine runs transactions of FetchTransaction.                       *)

\* Every step of the engine is a step of the transactions, or leaves them alone.
LEMMA EngineStepIsFetchStep ==
  ASSUME [EngineNext]_allVars
  PROVE  [FetchNext]_fetchVars
<1>0. \A f \in Fetchers : Entrypoint[f] # NoUrl => Entrypoint[f] \in Urls
  BY EngineAssumption, SMTT(30)
<1>1. ASSUME NEW f \in Fetchers, SourceStep(f) PROVE [FetchNext]_fetchVars
  BY <1>0, <1>1 DEF SourceStep, Begin, Fetchable, EntryDone, Discover, NextStub, NextPlan, DetailDone,
                     Enrich, Join, FetchNext, fetchVars
<1> QED BY <1>1 DEF EngineNext, Coordinate, Admit, ReturnResults, Panic, FetchNext, fetchVars, allVars

\* A scan's fetching implements the transactions: what is proved of them holds of it.
THEOREM EngineImplementsTransactions == EngineSpec => FetchSpec
<1>1. EngineInit => FetchInit
  BY DEF EngineInit
<1>2. [EngineNext]_allVars => [FetchNext]_fetchVars
  BY EngineStepIsFetchStep
<1> QED BY <1>1, <1>2, PTL DEF EngineSpec, FetchSpec

\* Rules that are known stay as they are, throughout a scan.
THEOREM EngineKeepsRules == EngineSpec => RulesAreStable
BY EngineImplementsTransactions, RulesAreStableHolds, PTL

-----------------------------------------------------------------------------
(* fetch_source.                                                           *)

\* A source between its admission and its end goes on, and nothing else does.
Working(f) ==
  /\ UNCHANGED <<admitted, results, returned>>
  /\ \A g \in Fetchers \ {f} : src'[g] = src[g]
  /\ src' \in [Fetchers -> Source]
  /\ SourceInv(src'[f])
  /\ src[f].stage \notin {"Pending", "Joined"} /\ src'[f].stage \notin {"Pending", "Joined"}

\* What the fields of a source count.
LEMMA Counts ==
  ASSUME NEW s \in Source
  PROVE  /\ MaxStubs \in Nat /\ MaxPlans \in Nat
         /\ s.found \in Nat /\ s.found <= MaxStubs + 1
         /\ s.stubs \in Nat /\ s.stubs <= MaxStubs
         /\ s.plans \in Nat /\ s.plans <= MaxPlans
         /\ s.candidates \in Nat /\ s.candidates <= MaxStubs
         /\ s.wanted \in Nat /\ s.got \in Nat
<1>1. MaxStubs \in Nat /\ MaxPlans \in Nat
  BY EngineAssumption
<1>2. /\ s.found \in 0..(MaxStubs + 1) /\ s.stubs \in 0..MaxStubs /\ s.plans \in 0..MaxPlans
      /\ s.candidates \in 0..MaxStubs /\ s.wanted \in Nat /\ s.got \in Nat
  BY DEF Source
<1> QED BY <1>1, <1>2

\* Giving a running source another consistent record, and changing nothing else, is a step of
\* work.
LEMMA UpdateWorks ==
  ASSUME src \in [Fetchers -> Source], NEW f \in Fetchers, NEW new \in Source,
         src' = [src EXCEPT ![f] = new], SourceInv(new),
         src[f].stage \notin {"Pending", "Joined"}, new.stage \notin {"Pending", "Joined"},
         UNCHANGED <<admitted, results, returned>>
  PROVE  Working(f)
BY DEF Working

\* A source's own work leaves the reports, and who they are from, as they were.
LEMMA WorkingKeepsEngineInv ==
  ASSUME EngineInv, FetchTypeOK', NEW f \in Fetchers, Working(f)
  PROVE  EngineInv'
<1>1. EngineTypeOK'
  BY DEF EngineInv, EngineTypeOK, Working
<1>2. \A g \in Fetchers : SourceInv(src'[g])
  BY DEF EngineInv, Working
<1>3. \A i \in DOMAIN results : results[i].source \in Fetchers \ {f}
  <2>1. \A i \in DOMAIN results : results[i] \in Report
    BY DEF EngineInv, EngineTypeOK
  <2> QED BY <2>1 DEF EngineInv, ReportsFit, Working, Report
<1>4. ReportsFit'
  BY <1>3 DEF EngineInv, ReportsFit, Working
<1>5. AdmittedInOrder'
  <2>1. \A i \in 1..Len(Order) : Order[i] \in Fetchers
    BY EngineAssumption
  <2> QED BY <2>1 DEF EngineInv, AdmittedInOrder, Working
<1>6. ReturnedAll'
  BY DEF EngineInv, ReturnedAll, Working
<1> QED BY <1>1, <1>2, <1>4, <1>5, <1>6 DEF EngineInv


\* A task that starts fetches its entrypoint.
LEMMA BeginWorks ==
  ASSUME EngineInv, NEW f \in Fetchers,
         src[f].stage = "Begin",
         src' = [src EXCEPT ![f].stage = "Entry"],
         UNCHANGED <<admitted, results, returned>>
  PROVE  Working(f)
<1> DEFINE new == [src[f] EXCEPT !.stage = "Entry"]
<1>1. src \in [Fetchers -> Source] /\ src[f] \in Source /\ SourceInv(src[f])
  BY DEF EngineInv, EngineTypeOK
<1>2. new \in Source
  BY <1>1, EngineAssumption DEF Source, SourceStage, SourceStatus, Failure, SourceInv, InLoop
<1>3. src' = [src EXCEPT ![f] = new]
  BY <1>1
<1>4. SourceInv(new)
  BY <1>1, EngineAssumption DEF Source, SourceInv, Fresh, InLoop, Accounted, Complete
<1>5. src[f].stage \notin {"Pending", "Joined"} /\ new.stage \notin {"Pending", "Joined"}
  BY <1>1 DEF Source
<1> QED BY <1>1, <1>2, <1>3, <1>4, <1>5, UpdateWorks

\* The entrypoint is in hand.
LEMMA EntryWorks ==
  ASSUME EngineInv, NEW f \in Fetchers,
         src[f].stage = "Entry",
         src' = [src EXCEPT ![f].stage = "Discover"],
         UNCHANGED <<admitted, results, returned>>
  PROVE  Working(f)
<1> DEFINE new == [src[f] EXCEPT !.stage = "Discover"]
<1>1. src \in [Fetchers -> Source] /\ src[f] \in Source /\ SourceInv(src[f])
  BY DEF EngineInv, EngineTypeOK
<1>2. new \in Source
  BY <1>1, EngineAssumption DEF Source, SourceStage, SourceStatus, Failure, SourceInv, InLoop
<1>3. src' = [src EXCEPT ![f] = new]
  BY <1>1
<1>4. SourceInv(new)
  BY <1>1, EngineAssumption DEF Source, SourceInv, Fresh, InLoop, Accounted, Complete
<1>5. src[f].stage \notin {"Pending", "Joined"} /\ new.stage \notin {"Pending", "Joined"}
  BY <1>1 DEF Source
<1> QED BY <1>1, <1>2, <1>3, <1>4, <1>5, UpdateWorks

\* Of the stubs that discover returned some are kept.
LEMMA DiscoverWorks ==
  ASSUME EngineInv, NEW f \in Fetchers,
         src[f].stage = "Discover", NEW n \in 0..(MaxStubs + 1),
         src' = [src EXCEPT ![f].stage = "Stubs", ![f].found = n, ![f].stubs = Kept(n)],
         UNCHANGED <<admitted, results, returned>>
  PROVE  Working(f)
<1> DEFINE new == [src[f] EXCEPT !.stage = "Stubs", !.found = n, !.stubs = Kept(n)]
<1>1. src \in [Fetchers -> Source] /\ src[f] \in Source /\ SourceInv(src[f])
  BY DEF EngineInv, EngineTypeOK
<1>6. Kept(n) \in 0..MaxStubs /\ (n <= MaxStubs => Kept(n) = n)
  BY <1>1, Counts DEF SourceInv, InLoop, Kept
<1>2. new \in Source
  BY <1>1, <1>6 DEF Source, SourceStage
<1>3. src' = [src EXCEPT ![f] = new]
  BY <1>1
<1>4. SourceInv(new)
  BY <1>1, <1>6, Counts DEF Source, SourceInv, Fresh, InLoop, Accounted, Complete
<1>5. src[f].stage \notin {"Pending", "Joined"} /\ new.stage \notin {"Pending", "Joined"}
  BY <1>1 DEF Source
<1> QED BY <1>1, <1>2, <1>3, <1>4, <1>5, UpdateWorks

\* A source that finishes Ok has everything that it listed.
LEMMA FinishWorks ==
  ASSUME EngineInv, NEW f \in Fetchers,
         NEW status \in SourceStatus, Finish(f, status),
         src[f].stage \in {"Begin", "Entry", "Discover", "Stubs"},
         status = "Ok" => Complete(src[f]),
         UNCHANGED <<admitted, results, returned>>
  PROVE  Working(f)
<1> DEFINE new == [src[f] EXCEPT !.stage = "Finished", !.status = status]
<1>1. src \in [Fetchers -> Source] /\ src[f] \in Source /\ SourceInv(src[f])
  BY DEF EngineInv, EngineTypeOK
<1>2. new \in Source
  BY <1>1, EngineAssumption DEF Source, SourceStage, SourceStatus, Failure, SourceInv, InLoop, Finish
<1>3. src' = [src EXCEPT ![f] = new]
  BY <1>1 DEF Finish
<1>4. SourceInv(new)
  BY <1>1, EngineAssumption DEF Source, SourceInv, Fresh, InLoop, Accounted, Complete, Finish
<1>5. src[f].stage \notin {"Pending", "Joined"} /\ new.stage \notin {"Pending", "Joined"}
  BY <1>1 DEF Source
<1> QED BY <1>1, <1>2, <1>3, <1>4, <1>5, UpdateWorks

\* The deadline ends the stub loop with a failure.
LEMMA BreakWorks ==
  ASSUME EngineInv, NEW f \in Fetchers,
         src[f].stage = "Stubs", NEW failed \in BOOLEAN, failed,
         src' = [src EXCEPT ![f].stubs = 0, ![f].failed = failed],
         UNCHANGED <<admitted, results, returned>>
  PROVE  Working(f)
<1> DEFINE new == [src[f] EXCEPT !.stubs = 0, !.failed = failed]
<1>1. src \in [Fetchers -> Source] /\ src[f] \in Source /\ SourceInv(src[f])
  BY DEF EngineInv, EngineTypeOK
<1>6. 0 \in 0..MaxStubs
  BY <1>1, Counts DEF SourceInv, InLoop
<1>2. new \in Source
  BY <1>1, <1>6 DEF Source, SourceStage
<1>3. src' = [src EXCEPT ![f] = new]
  BY <1>1
<1>4. SourceInv(new)
  BY <1>1, <1>6, Counts DEF Source, SourceInv, Fresh, InLoop, Accounted, Complete
<1>5. src[f].stage \notin {"Pending", "Joined"} /\ new.stage \notin {"Pending", "Joined"}
  BY <1>1 DEF Source
<1> QED BY <1>1, <1>2, <1>3, <1>4, <1>5, UpdateWorks

\* The plans of a stub are wanted from now on.
LEMMA StubWorks ==
  ASSUME EngineInv, NEW f \in Fetchers,
         src[f].stage = "Stubs", src[f].stubs # 0, NEW n \in 0..MaxPlans,
         src' = [src EXCEPT ![f].stage = "Plans", ![f].plans = n, ![f].wanted = src[f].wanted + n],
         UNCHANGED <<admitted, results, returned>>
  PROVE  Working(f)
<1> DEFINE new == [src[f] EXCEPT !.stage = "Plans", !.plans = n, !.wanted = src[f].wanted + n]
<1>1. src \in [Fetchers -> Source] /\ src[f] \in Source /\ SourceInv(src[f])
  BY DEF EngineInv, EngineTypeOK
<1>6. src[f].wanted + n \in Nat
  BY <1>1, Counts DEF SourceInv, InLoop
<1>2. new \in Source
  BY <1>1, <1>6 DEF Source, SourceStage
<1>3. src' = [src EXCEPT ![f] = new]
  BY <1>1
<1>4. SourceInv(new)
  BY <1>1, <1>6, Counts DEF Source, SourceInv, Fresh, InLoop, Accounted, Complete
<1>5. src[f].stage \notin {"Pending", "Joined"} /\ new.stage \notin {"Pending", "Joined"}
  BY <1>1 DEF Source
<1> QED BY <1>1, <1>2, <1>3, <1>4, <1>5, UpdateWorks

\* A plan that is skipped is a failure.
LEMMA SkipWorks ==
  ASSUME EngineInv, NEW f \in Fetchers,
         src[f].stage = "Plans", src[f].plans > 0, NEW failed \in BOOLEAN, failed,
         src' = [src EXCEPT ![f].plans = src[f].plans - 1, ![f].failed = failed],
         UNCHANGED <<admitted, results, returned>>
  PROVE  Working(f)
<1> DEFINE new == [src[f] EXCEPT !.plans = src[f].plans - 1, !.failed = failed]
<1>1. src \in [Fetchers -> Source] /\ src[f] \in Source /\ SourceInv(src[f])
  BY DEF EngineInv, EngineTypeOK
<1>6. src[f].plans - 1 \in 0..MaxPlans
  BY <1>1, Counts DEF SourceInv, InLoop
<1>2. new \in Source
  BY <1>1, <1>6 DEF Source, SourceStage
<1>3. src' = [src EXCEPT ![f] = new]
  BY <1>1
<1>4. SourceInv(new)
  BY <1>1, <1>6, Counts DEF Source, SourceInv, Fresh, InLoop, Accounted, Complete
<1>5. src[f].stage \notin {"Pending", "Joined"} /\ new.stage \notin {"Pending", "Joined"}
  BY <1>1 DEF Source
<1> QED BY <1>1, <1>2, <1>3, <1>4, <1>5, UpdateWorks

\* A plan that is fetched is under way.
LEMMA PlanWorks ==
  ASSUME EngineInv, NEW f \in Fetchers,
         src[f].stage = "Plans", src[f].plans > 0,
         src' = [src EXCEPT ![f].plans = src[f].plans - 1, ![f].stage = "Detail"],
         UNCHANGED <<admitted, results, returned>>
  PROVE  Working(f)
<1> DEFINE new == [src[f] EXCEPT !.plans = src[f].plans - 1, !.stage = "Detail"]
<1>1. src \in [Fetchers -> Source] /\ src[f] \in Source /\ SourceInv(src[f])
  BY DEF EngineInv, EngineTypeOK
<1>6. src[f].plans - 1 \in 0..MaxPlans
  BY <1>1, Counts DEF SourceInv, InLoop
<1>2. new \in Source
  BY <1>1, <1>6 DEF Source, SourceStage
<1>3. src' = [src EXCEPT ![f] = new]
  BY <1>1
<1>4. SourceInv(new)
  BY <1>1, <1>6, Counts DEF Source, SourceInv, Fresh, InLoop, Accounted, Complete
<1>5. src[f].stage \notin {"Pending", "Joined"} /\ new.stage \notin {"Pending", "Joined"}
  BY <1>1 DEF Source
<1> QED BY <1>1, <1>2, <1>3, <1>4, <1>5, UpdateWorks

\* Its document was had ...
LEMMA DetailWorks ==
  ASSUME EngineInv, NEW f \in Fetchers,
         src[f].stage = "Detail",
         src' = [src EXCEPT ![f].stage = "Plans", ![f].got = src[f].got + 1],
         UNCHANGED <<admitted, results, returned>>
  PROVE  Working(f)
<1> DEFINE new == [src[f] EXCEPT !.stage = "Plans", !.got = src[f].got + 1]
<1>1. src \in [Fetchers -> Source] /\ src[f] \in Source /\ SourceInv(src[f])
  BY DEF EngineInv, EngineTypeOK
<1>6. src[f].got + 1 \in Nat
  BY <1>1, Counts DEF SourceInv, InLoop
<1>2. new \in Source
  BY <1>1, <1>6 DEF Source, SourceStage
<1>3. src' = [src EXCEPT ![f] = new]
  BY <1>1
<1>4. SourceInv(new)
  BY <1>1, <1>6, Counts DEF Source, SourceInv, Fresh, InLoop, Accounted, Complete
<1>5. src[f].stage \notin {"Pending", "Joined"} /\ new.stage \notin {"Pending", "Joined"}
  BY <1>1 DEF Source
<1> QED BY <1>1, <1>2, <1>3, <1>4, <1>5, UpdateWorks

\* ... or was not, which is a failure.
LEMMA DetailFails ==
  ASSUME EngineInv, NEW f \in Fetchers,
         src[f].stage = "Detail", NEW failed \in BOOLEAN, failed,
         src' = [src EXCEPT ![f].stage = "Plans", ![f].failed = failed],
         UNCHANGED <<admitted, results, returned>>
  PROVE  Working(f)
<1> DEFINE new == [src[f] EXCEPT !.stage = "Plans", !.failed = failed]
<1>1. src \in [Fetchers -> Source] /\ src[f] \in Source /\ SourceInv(src[f])
  BY DEF EngineInv, EngineTypeOK
<1>2. new \in Source
  BY <1>1, EngineAssumption DEF Source, SourceStage, SourceStatus, Failure, SourceInv, InLoop
<1>3. src' = [src EXCEPT ![f] = new]
  BY <1>1
<1>4. SourceInv(new)
  BY <1>1, EngineAssumption DEF Source, SourceInv, Fresh, InLoop, Accounted, Complete
<1>5. src[f].stage \notin {"Pending", "Joined"} /\ new.stage \notin {"Pending", "Joined"}
  BY <1>1 DEF Source
<1> QED BY <1>1, <1>2, <1>3, <1>4, <1>5, UpdateWorks

\* A stub becomes a candidate ...
LEMMA EnrichWorks ==
  ASSUME EngineInv, NEW f \in Fetchers,
         src[f].stage = "Plans", src[f].plans = 0,
         src' = [src EXCEPT ![f].stage = "Stubs", ![f].stubs = src[f].stubs - 1,
                           ![f].candidates = src[f].candidates + 1],
         UNCHANGED <<admitted, results, returned>>
  PROVE  Working(f)
<1> DEFINE new == [src[f] EXCEPT !.stage = "Stubs", !.stubs = src[f].stubs - 1,
                                 !.candidates = src[f].candidates + 1]
<1>1. src \in [Fetchers -> Source] /\ src[f] \in Source /\ SourceInv(src[f])
  BY DEF EngineInv, EngineTypeOK
<1>6. src[f].stubs - 1 \in 0..MaxStubs /\ src[f].candidates + 1 \in 0..MaxStubs
  BY <1>1, Counts DEF SourceInv, InLoop
<1>2. new \in Source
  BY <1>1, <1>6 DEF Source, SourceStage
<1>3. src' = [src EXCEPT ![f] = new]
  BY <1>1
<1>4. SourceInv(new)
  BY <1>1, <1>6, Counts DEF Source, SourceInv, Fresh, InLoop, Accounted, Complete
<1>5. src[f].stage \notin {"Pending", "Joined"} /\ new.stage \notin {"Pending", "Joined"}
  BY <1>1 DEF Source
<1> QED BY <1>1, <1>2, <1>3, <1>4, <1>5, UpdateWorks

\* ... or is lost, which is a failure.
LEMMA EnrichFails ==
  ASSUME EngineInv, NEW f \in Fetchers,
         src[f].stage = "Plans", src[f].plans = 0, NEW failed \in BOOLEAN, failed,
         src' = [src EXCEPT ![f].stage = "Stubs", ![f].stubs = src[f].stubs - 1, ![f].failed = failed],
         UNCHANGED <<admitted, results, returned>>
  PROVE  Working(f)
<1> DEFINE new == [src[f] EXCEPT !.stage = "Stubs", !.stubs = src[f].stubs - 1, !.failed = failed]
<1>1. src \in [Fetchers -> Source] /\ src[f] \in Source /\ SourceInv(src[f])
  BY DEF EngineInv, EngineTypeOK
<1>6. src[f].stubs - 1 \in 0..MaxStubs
  BY <1>1, Counts DEF SourceInv, InLoop
<1>2. new \in Source
  BY <1>1, <1>6 DEF Source, SourceStage
<1>3. src' = [src EXCEPT ![f] = new]
  BY <1>1
<1>4. SourceInv(new)
  BY <1>1, <1>6, Counts DEF Source, SourceInv, Fresh, InLoop, Accounted, Complete
<1>5. src[f].stage \notin {"Pending", "Joined"} /\ new.stage \notin {"Pending", "Joined"}
  BY <1>1 DEF Source
<1> QED BY <1>1, <1>2, <1>3, <1>4, <1>5, UpdateWorks

\* A task that panics has nothing to say any more.
LEMMA PanicWorks ==
  ASSUME EngineInv, NEW f \in Fetchers,
         src[f].stage \in {"Discover", "Stubs", "Plans"},
         src' = [src EXCEPT ![f].stage = "Panicked"],
         UNCHANGED <<admitted, results, returned>>
  PROVE  Working(f)
<1> DEFINE new == [src[f] EXCEPT !.stage = "Panicked"]
<1>1. src \in [Fetchers -> Source] /\ src[f] \in Source /\ SourceInv(src[f])
  BY DEF EngineInv, EngineTypeOK
<1>2. new \in Source
  BY <1>1, EngineAssumption DEF Source, SourceStage, SourceStatus, Failure, SourceInv, InLoop
<1>3. src' = [src EXCEPT ![f] = new]
  BY <1>1
<1>4. SourceInv(new)
  BY <1>1, EngineAssumption DEF Source, SourceInv, Fresh, InLoop, Accounted, Complete
<1>5. src[f].stage \notin {"Pending", "Joined"} /\ new.stage \notin {"Pending", "Joined"}
  BY <1>1 DEF Source
<1> QED BY <1>1, <1>2, <1>3, <1>4, <1>5, UpdateWorks

\* What a task does on its own, a panic included.
LEMMA TaskWorks ==
  ASSUME EngineInv, NEW f \in Fetchers,
         \/ Begin(f) \/ EntryDone(f) \/ Discover(f) \/ NextStub(f) \/ NextPlan(f)
         \/ DetailDone(f) \/ Enrich(f) \/ Panic(f)
  PROVE  Working(f)
<1>0. /\ src \in [Fetchers -> Source] /\ src[f] \in Source /\ SourceInv(src[f])
      /\ tx \in [Fetchers -> Transaction] /\ TRUE \in BOOLEAN
  BY DEF EngineInv, EngineTypeOK, FetchTypeOK
<1>1. CASE Begin(f)
  <2>1. "ParseError" \in SourceStatus /\ "Disabled" \in SourceStatus
    BY DEF SourceStatus
  <2> QED BY <1>1, <2>1, BeginWorks, FinishWorks DEF Begin
<1>2. CASE EntryDone(f)
  <2>1. tx[f].outcome # "Document" => tx[f].outcome \in SourceStatus /\ tx[f].outcome # "Ok"
    BY <1>0 DEF Transaction, Outcome, Failure, SourceStatus
  <2> QED BY <1>2, <2>1, EntryWorks, FinishWorks DEF EntryDone
<1>3. CASE Discover(f)
  <2>1. "ParseError" \in SourceStatus
    BY DEF SourceStatus
  <2> QED BY <1>3, <2>1, DiscoverWorks, FinishWorks DEF Discover
<1>4. CASE NextStub(f)
  <2>1. "Ok" \in SourceStatus /\ "Partial" \in SourceStatus
    BY DEF SourceStatus
  <2>2. src[f].stage = "Stubs" /\ src[f].stubs = 0 /\ ~ Lost(f) => Complete(src[f])
    BY <1>0, Counts DEF SourceInv, InLoop, Accounted, Complete, Lost
  <2>3. CASE src[f].stubs = 0
    BY <1>4, <2>1, <2>2, <2>3, FinishWorks DEF NextStub
  <2>4. CASE src[f].stubs # 0 /\ expired
    BY <1>0, <1>4, <2>4, BreakWorks DEF NextStub, BreakFailed
  <2>5. CASE src[f].stubs # 0 /\ ~ expired
    BY <1>0, <1>4, <2>5, StubWorks DEF NextStub
  <2> QED BY <2>3, <2>4, <2>5
<1>5. CASE NextPlan(f)
  BY <1>0, <1>5, SkipWorks, PlanWorks DEF NextPlan, SkipFailed
<1>6. CASE DetailDone(f)
  BY <1>0, <1>6, DetailWorks, DetailFails DEF DetailDone
<1>7. CASE Enrich(f)
  BY <1>0, <1>7, EnrichWorks, EnrichFails DEF Enrich
<1>8. CASE Panic(f)
  BY <1>8, PanicWorks DEF Panic
<1> QED BY <1>1, <1>2, <1>3, <1>4, <1>5, <1>6, <1>7, <1>8

-----------------------------------------------------------------------------
(* fetch_all.                                                              *)

\* No source stands at two places of the order, which has as many as there are.
LEMMA OrderIsInjective ==
  /\ Len(Order) \in Nat /\ IsFiniteSet(Fetchers)
  /\ \A i \in 1..Len(Order) : Order[i] \in Fetchers
  /\ \A i, j \in 1..Len(Order) : Order[i] = Order[j] => i = j
<1>1. Len(Order) \in Nat /\ Order \in [1..Len(Order) -> Fetchers]
  BY EngineAssumption
<1>2. IsFiniteSet(1..Len(Order)) /\ Cardinality(1..Len(Order)) = Len(Order)
  BY <1>1, FS_Interval, SMTT(30)
<1>3. Order \in Surjection(1..Len(Order), Fetchers)
  BY <1>1, EngineAssumption DEF Surjection
<1>4. Order \in Injection(1..Len(Order), Fetchers)
  BY <1>2, <1>3, EngineAssumption, FS_SurjSameCardinalityImpliesInj
<1> QED BY <1>1, <1>4, FetchAssumption DEF Injection, IsInjective

\* The place of a source.
LEMMA PositionOfSource ==
  /\ \A f \in Fetchers : Position(f) \in 1..Len(Order) /\ Order[Position(f)] = f
  /\ \A i \in 1..Len(Order) : Position(Order[i]) = i
<1>1. \A f \in Fetchers : Position(f) \in 1..Len(Order) /\ Order[Position(f)] = f
  BY EngineAssumption DEF Position
<1> QED BY <1>1, OrderIsInjective

\* A report of a source that becomes Joined keeps the invariant.
LEMMA ReportKeepsEngineInv ==
  ASSUME EngineInv, FetchTypeOK', NEW f \in Fetchers, NEW report \in Report,
         report.source = f, src[f].stage # "Joined",
         report.status = "Ok" => report.candidates = src[f].found /\ src[f].got = src[f].wanted,
         results' = Append(results, report), src' = [src EXCEPT ![f].stage = "Joined"],
         AdmittedInOrder', admitted' \in 0..Len(Order), UNCHANGED returned
  PROVE  EngineInv'
<1>1. /\ src \in [Fetchers -> Source] /\ results \in Seq(Report) /\ returned \in BOOLEAN
      /\ \A i \in DOMAIN results : results[i] \in Report
  BY DEF EngineInv, EngineTypeOK
<1>2. /\ src' \in [Fetchers -> Source] /\ src'[f].stage = "Joined"
      /\ \A g \in Fetchers : src'[g].found = src[g].found /\ src'[g].got = src[g].got
                             /\ src'[g].wanted = src[g].wanted
      /\ \A g \in Fetchers \ {f} : src'[g] = src[g]
  <2> DEFINE new == [src[f] EXCEPT !.stage = "Joined"]
  <2>1. src[f] \in Source
    BY <1>1
  <2>2. /\ new \in Source /\ new.stage = "Joined" /\ new.found = src[f].found
        /\ new.got = src[f].got /\ new.wanted = src[f].wanted
    BY <2>1 DEF Source, SourceStage
  <2>3. src' = [src EXCEPT ![f] = new]
    BY <1>1
  <2> HIDE DEF new
  <2> QED BY <1>1, <2>2, <2>3
<1>3. SourceInv(src'[f])
  <2>1. SourceInv(src[f]) /\ src[f] \in Source
    BY <1>1 DEF EngineInv
  <2>2. src'[f] = [src[f] EXCEPT !.stage = "Joined"]
    BY <1>1
  <2> QED BY <2>1, <2>2 DEF SourceInv, Fresh, InLoop, Accounted, Source
<1>4. \A g \in Fetchers : SourceInv(src'[g])
  BY <1>2, <1>3 DEF EngineInv
<1>5. /\ results' \in Seq(Report)
      /\ DOMAIN results' = DOMAIN results \cup {Len(results) + 1}
      /\ Len(results) + 1 \notin DOMAIN results
      /\ results'[Len(results) + 1] = report
      /\ \A i \in DOMAIN results : results'[i] = results[i]
  BY <1>1
<1>6. \A i \in DOMAIN results : results[i].source \in Fetchers \ {f}
  BY <1>1 DEF EngineInv, ReportsFit, Report
<1>7. ReportsFit'
  <2>1. \A i \in DOMAIN results' : src'[results'[i].source].stage = "Joined"
    BY <1>2, <1>5, <1>6 DEF EngineInv, ReportsFit
  <2>2. \A g \in Fetchers : src'[g].stage = "Joined" => \E i \in DOMAIN results' : results'[i].source = g
    BY <1>2, <1>5 DEF EngineInv, ReportsFit
  <2>3. \A i, j \in DOMAIN results' : results'[i].source = results'[j].source => i = j
    BY <1>5, <1>6 DEF EngineInv, ReportsFit
  <2>4. \A i \in DOMAIN results' : results'[i].status = "Ok" =>
          /\ results'[i].candidates = src'[results'[i].source].found
          /\ src'[results'[i].source].got = src'[results'[i].source].wanted
    BY <1>2, <1>5, <1>6 DEF EngineInv, ReportsFit
  <2> QED BY <2>1, <2>2, <2>3, <2>4 DEF ReportsFit
<1>8. ReturnedAll'
  BY DEF EngineInv, ReturnedAll
<1>9. EngineTypeOK'
  BY <1>1, <1>2, <1>5 DEF EngineTypeOK
<1> QED BY <1>4, <1>7, <1>8, <1>9 DEF EngineInv

\* The next source is spawned, or reported at once when its factory panics.
LEMMA AdmitKeepsEngineInv ==
  ASSUME EngineInv, FetchTypeOK', Admit
  PROVE  EngineInv'
<1> DEFINE f == Order[admitted + 1]
<1>1. /\ src \in [Fetchers -> Source] /\ admitted \in 0..Len(Order) /\ admitted < Len(Order)
      /\ ~ returned /\ UNCHANGED returned /\ admitted' = admitted + 1
  BY DEF EngineInv, EngineTypeOK, Admit, CanAdmit
<1>2. /\ admitted + 1 \in 1..Len(Order) /\ f \in Fetchers
      /\ \A i \in 1..Len(Order) : Order[i] = f => i = admitted + 1
  BY <1>1, OrderIsInjective
<1>3. src[f].stage = "Pending"
  BY <1>1, <1>2 DEF EngineInv, AdmittedInOrder
<1>4. ASSUME NEW new \in Source, src' = [src EXCEPT ![f] = new], new.stage # "Pending"
      PROVE  AdmittedInOrder' /\ admitted' \in 0..Len(Order)
  <2>1. admitted' \in 0..Len(Order)
    BY <1>1
  <2>2. ASSUME NEW i \in 1..Len(Order) PROVE src'[Order[i]].stage = "Pending" <=> admitted' < i
    <3>1. Order[i] \in Fetchers
      BY OrderIsInjective
    <3>2. CASE i = admitted + 1
      BY <1>1, <1>2, <1>4, <3>2
    <3>3. CASE i # admitted + 1
      <4>1. src'[Order[i]] = src[Order[i]]
        BY <1>1, <1>2, <1>4, <3>1, <3>3
      <4>2. admitted' < i <=> admitted < i
        BY <1>1, <3>3, OrderIsInjective
      <4> QED BY <4>1, <4>2 DEF EngineInv, AdmittedInOrder
    <3> QED BY <3>2, <3>3
  <2> QED BY <2>1, <2>2 DEF AdmittedInOrder
<1>5. \A stage \in {"Begin", "Joined"} :
        /\ [src[f] EXCEPT !.stage = stage] \in Source
        /\ [src[f] EXCEPT !.stage = stage].stage = stage
        /\ [src EXCEPT ![f].stage = stage] = [src EXCEPT ![f] = [src[f] EXCEPT !.stage = stage]]
  <2>1. src[f] \in Source
    BY <1>1, <1>2
  <2> QED BY <2>1 DEF Source, SourceStage
<1>6. CASE src' = [src EXCEPT ![f].stage = "Begin"] /\ UNCHANGED results
  <2> DEFINE new == [src[f] EXCEPT !.stage = "Begin"]
  <2>1. new \in Source /\ new.stage = "Begin" /\ src' = [src EXCEPT ![f] = new]
    BY <1>5, <1>6
  <2>2. AdmittedInOrder' /\ admitted' \in 0..Len(Order)
    BY <1>4, <2>1
  <2>3. SourceInv(new)
    BY <1>1, <1>2, <1>3 DEF EngineInv, SourceInv, Fresh, InLoop, Accounted, Source
  <2> HIDE DEF new
  <2>4. \A g \in Fetchers : SourceInv(src'[g])
    BY <1>1, <2>1, <2>3 DEF EngineInv
  <2>5. EngineTypeOK'
    BY <1>1, <1>6, <2>1, <2>2 DEF EngineInv, EngineTypeOK
  <2>6. \A i \in DOMAIN results : results[i].source \in Fetchers \ {f}
    <3>1. \A i \in DOMAIN results : results[i] \in Report
      BY DEF EngineInv, EngineTypeOK
    <3> QED BY <1>3, <3>1 DEF EngineInv, ReportsFit, Report
  <2>7. ReportsFit'
    BY <1>1, <1>2, <1>3, <1>6, <2>1, <2>6 DEF EngineInv, ReportsFit
  <2>8. ReturnedAll'
    BY <1>1 DEF ReturnedAll
  <2> QED BY <2>2, <2>4, <2>5, <2>7, <2>8 DEF EngineInv
<1>7. CASE src' = [src EXCEPT ![f].stage = "Joined"] /\ results' = Append(results, FailedSource(f))
  <2>1. AdmittedInOrder' /\ admitted' \in 0..Len(Order)
    BY <1>4, <1>5, <1>7
  <2>2. /\ FailedSource(f) \in Report /\ FailedSource(f).source = f
        /\ FailedSource(f).status # "Ok"
    BY <1>2, EngineAssumption DEF FailedSource, Report, SourceStatus
  <2> QED BY <1>1, <1>2, <1>3, <1>7, <2>1, <2>2, ReportKeepsEngineInv
<1> QED BY <1>6, <1>7 DEF Admit, FactoryFailed

\* A finished task is reported as it says, a panicked one as failed.
LEMMA JoinKeepsEngineInv ==
  ASSUME EngineInv, FetchTypeOK', NEW f \in Fetchers, Join(f)
  PROVE  EngineInv'
<1> DEFINE report == IF src[f].stage = "Finished" THEN Reported(f) ELSE FailedSource(f)
<1>1. /\ src \in [Fetchers -> Source] /\ src[f] \in Source /\ SourceInv(src[f])
      /\ admitted \in 0..Len(Order)
  BY DEF EngineInv, EngineTypeOK
<1>2. /\ report \in Report /\ report.source = f
      /\ report.status = "Ok" => report.candidates = src[f].found /\ src[f].got = src[f].wanted
  <2>1. CASE src[f].stage = "Finished"
    BY <1>1, <2>1 DEF Reported, Report, Source, SourceInv, Accounted, Complete
  <2>2. CASE src[f].stage # "Finished"
    BY <2>2, EngineAssumption DEF FailedSource, Report, SourceStatus
  <2> QED BY <2>1, <2>2
<1>3. /\ src[f].stage \in {"Finished", "Panicked"} /\ src' = [src EXCEPT ![f].stage = "Joined"]
      /\ results' = Append(results, report) /\ UNCHANGED <<admitted, returned>>
  BY DEF Join
<1>4. AdmittedInOrder'
  <2>1. \A i \in 1..Len(Order) : Order[i] \in Fetchers
    BY OrderIsInjective
  <2>2. \A g \in Fetchers : src'[g].stage = "Pending" <=> src[g].stage = "Pending"
    BY <1>1, <1>3 DEF Source
  <2> QED BY <1>3, <2>1, <2>2 DEF EngineInv, AdmittedInOrder
<1> HIDE DEF report
<1> QED BY <1>1, <1>2, <1>3, <1>4, ReportKeepsEngineInv

\* What rises from 1..n into 1..n rises by one.
LEMMA RisingIsIdentity ==
  ASSUME NEW n \in Nat, NEW q \in [1..n -> 1..n],
         \A i, j \in 1..n : i < j => q[i] < q[j]
  PROVE  \A i \in 1..n : q[i] = i
<1>1. \A i \in 1..n : i <= q[i]
  <2> DEFINE low == {i \in 1..n : q[i] < i}
  <2> SUFFICES ASSUME low # {} PROVE FALSE
    OBVIOUS
  <2>1. PICK k \in low : \A i \in low : k <= i
    <3>1. low \in SUBSET Nat
      OBVIOUS
    <3> QED BY <3>1, MinIsLeast
  <2>2. k \in 1..n /\ q[k] < k /\ q[k] \in 1..n
    BY <2>1
  <2>3. k - 1 \in 1..n /\ k - 1 < k
    BY <2>2
  <2>4. k - 1 \notin low
    BY <2>1, <2>2, <2>3
  <2>5. q[k - 1] \in 1..n /\ ~ (q[k - 1] < k - 1)
    BY <2>3, <2>4
  <2>6. q[k - 1] < q[k]
    BY <2>2, <2>3
  <2> QED BY <2>2, <2>5, <2>6
<1>2. \A i \in 1..n : q[i] <= i
  <2> DEFINE high == {m \in 0..(n - 1) : n - m < q[n - m]}
  <2>1. high = {}
    <3> SUFFICES ASSUME high # {} PROVE FALSE
      OBVIOUS
    <3>1. PICK k \in high : \A m \in high : k <= m
      <4>1. high \in SUBSET Nat
        OBVIOUS
      <4> QED BY <4>1, MinIsLeast
    <3>2. k \in 0..(n - 1) /\ n - k < q[n - k] /\ n - k \in 1..n /\ q[n - k] \in 1..n
      BY <3>1
    <3>3. k - 1 \in 0..(n - 1) /\ n - (k - 1) \in 1..n /\ n - k < n - (k - 1) /\ ~ (k <= k - 1)
      BY <3>2
    <3>4. k - 1 \notin high
      BY <3>1, <3>3
    <3>5. q[n - (k - 1)] \in 1..n /\ ~ (n - (k - 1) < q[n - (k - 1)])
      BY <3>3, <3>4
    <3>6. q[n - k] < q[n - (k - 1)]
      BY <3>2, <3>3
    <3> QED BY <3>2, <3>5, <3>6
  <2> SUFFICES ASSUME NEW i \in 1..n PROVE q[i] <= i
    OBVIOUS
  <2>2. n - i \in 0..(n - 1) /\ n - (n - i) = i /\ q[i] \in 1..n
    OBVIOUS
  <2>3. ~ (n - (n - i) < q[n - (n - i)])
    BY <2>1, <2>2
  <2>4. ~ (i < q[i])
    BY <2>2, <2>3
  <2> QED BY <2>2, <2>4
<1> SUFFICES ASSUME NEW i \in 1..n PROVE q[i] = i
  OBVIOUS
<1>3. q[i] \in 1..n /\ i <= q[i] /\ q[i] <= i
  BY <1>1, <1>2
<1> QED BY <1>3

\* One report of each source, in whatever order they came, sorted by id: the reports
\* stand in id order.
LEMMA SortingRestoresOrder ==
  ASSUME NEW seq \in Seq(Report),
         \A i, j \in DOMAIN seq : seq[i].source = seq[j].source => i = j,
         \A f \in Fetchers : \E i \in DOMAIN seq : seq[i].source = f
  PROVE  /\ SortedById(seq) \in Seq(Report) /\ Len(SortedById(seq)) = Len(Order)
         /\ \A i \in 1..Len(Order) :
              /\ SortedById(seq)[i].source = Order[i]
              /\ \E j \in DOMAIN seq : SortedById(seq)[i] = seq[j]
<1> DEFINE n == Len(seq)
<1>1. /\ n \in Nat /\ DOMAIN seq = 1..n
      /\ \A i \in 1..n : seq[i] \in Report /\ seq[i].source \in Fetchers
  <2>1. n \in Nat /\ DOMAIN seq = 1..n /\ \A i \in 1..n : seq[i] \in Report
    OBVIOUS
  <2>2. \A r \in Report : r.source \in Fetchers
    BY DEF Report
  <2> QED BY <2>1, <2>2
<1> HIDE DEF n
<1> DEFINE sourceAt == [i \in 1..n |-> seq[i].source]
<1>2. IsFiniteSet(1..n) /\ Cardinality(1..n) = n
  BY <1>1, FS_Interval
<1>3. n = Len(Order)
  <2>1. sourceAt \in Surjection(1..n, Fetchers) /\ sourceAt \in Injection(1..n, Fetchers)
    BY <1>1 DEF Surjection, Injection, IsInjective
  <2> HIDE DEF sourceAt
  <2> QED BY <1>2, <2>1, FS_Surjection, EngineAssumption
<1> DEFINE place == [i \in 1..n |-> CHOOSE j \in 1..n : seq[j].source = Order[i]]
<1>4. \A i \in 1..n : place[i] \in 1..n /\ seq[place[i]].source = Order[i]
  BY <1>1, <1>3, OrderIsInjective
<1>5. place \in Bijection(1..n, 1..n) /\ Ascending(seq, place)
  <2>1. place \in [1..n -> 1..n]
    BY <1>4
  <2>2. \A i, j \in 1..n : place[i] = place[j] => i = j
    <3> HIDE DEF place
    <3> QED BY <1>3, <1>4, OrderIsInjective, SMTT(30)
  <2>3. ASSUME NEW w \in 1..n PROVE \E v \in 1..n : place[v] = w
    <3>1. /\ Position(seq[w].source) \in 1..n
          /\ Order[Position(seq[w].source)] = seq[w].source
      BY <1>1, <1>3, PositionOfSource
    <3>2. place[Position(seq[w].source)] = w
      BY <1>1, <1>4, <3>1
    <3> QED BY <3>1, <3>2
  <2>4. \A i \in 1..n : Position(seq[place[i]].source) = i
    BY <1>3, <1>4, PositionOfSource
  <2> HIDE DEF place
  <2>5. Ascending(seq, place)
    BY <1>1, <2>4 DEF Ascending
  <2> QED BY <2>1, <2>2, <2>3, <2>5 DEF Bijection, Injection, IsInjective, Surjection
<1> HIDE DEF place
<1> DEFINE arranged == CHOOSE by \in Bijection(DOMAIN seq, DOMAIN seq) : Ascending(seq, by)
           q == [i \in 1..n |-> Position(seq[arranged[i]].source)]
<1>6. arranged \in Bijection(1..n, 1..n) /\ Ascending(seq, arranged)
  BY <1>1, <1>5
<1>7. SortedById(seq) = [i \in 1..n |-> seq[arranged[i]]]
  BY <1>1 DEF SortedById
<1> HIDE DEF arranged
<1>8. arranged \in [1..n -> 1..n] /\ \A i, j \in 1..n : arranged[i] = arranged[j] => i = j
  BY <1>6 DEF Bijection, Injection, IsInjective
<1>9. /\ q \in [1..n -> 1..n]
      /\ \A i \in 1..n : Order[q[i]] = seq[arranged[i]].source
  BY <1>1, <1>3, <1>8, PositionOfSource, ZenonT(60)
<1>10. \A i, j \in 1..n : i < j => q[i] < q[j]
  <2> SUFFICES ASSUME NEW i \in 1..n, NEW j \in 1..n, i < j PROVE q[i] < q[j]
    OBVIOUS
  <2>1. q[i] <= q[j]
    BY <1>1, <1>6 DEF Ascending
  <2>2. q[i] # q[j]
    <3> SUFFICES ASSUME q[i] = q[j] PROVE FALSE
      OBVIOUS
    <3>1. seq[arranged[i]].source = seq[arranged[j]].source
      BY <1>9
    <3>2. arranged[i] = arranged[j]
      BY <1>1, <1>8, <3>1
    <3>3. i = j
      BY <1>8, <3>2
    <3> QED BY <3>3, <1>1
  <2>3. q[i] \in 1..n /\ q[j] \in 1..n
    BY <1>9
  <2> HIDE DEF q
  <2> QED BY <2>1, <2>2, <2>3
<1> HIDE DEF q
<1>11. \A i \in 1..n : q[i] = i
  BY <1>1, <1>9, <1>10, RisingIsIdentity
<1>12. \A i \in 1..n : seq[arranged[i]].source = Order[i] /\ arranged[i] \in 1..n
  BY <1>8, <1>9, <1>11
<1>13. [i \in 1..n |-> seq[arranged[i]]] \in Seq(Report) /\ Len([i \in 1..n |-> seq[arranged[i]]]) = n
  BY <1>1, <1>12
<1> QED BY <1>1, <1>3, <1>7, <1>12, <1>13, SMTT(30)

\* fetch_all returns when all are joined: every source is reported, in id order.
LEMMA ReturnKeepsEngineInv ==
  ASSUME EngineInv, FetchTypeOK', ReturnResults
  PROVE  EngineInv'
<1>1. /\ src \in [Fetchers -> Source] /\ results \in Seq(Report) /\ admitted \in 0..Len(Order)
      /\ \A i \in DOMAIN results : results[i] \in Report
      /\ UNCHANGED <<admitted, src>> /\ returned' = TRUE /\ results' = SortedById(results)
  BY DEF EngineInv, EngineTypeOK, ReturnResults
<1>2. admitted = Len(Order)
  <2>1. Cardinality({}) = 0
    BY FS_EmptySet
  <2>2. Cardinality(Tasks) < Jobs
    BY <2>1, EngineAssumption DEF ReturnResults
  <2> QED BY <1>1, <2>2, OrderIsInjective DEF ReturnResults, CanAdmit
<1>3. \A f \in Fetchers : src[f].stage = "Joined"
  <2>1. \A f \in Fetchers : src[f].stage # "Pending"
    BY <1>2, PositionOfSource, OrderIsInjective DEF EngineInv, AdmittedInOrder
  <2> QED BY <2>1 DEF ReturnResults, Tasks
<1>4. /\ \A i, j \in DOMAIN results : results[i].source = results[j].source => i = j
      /\ \A f \in Fetchers : \E i \in DOMAIN results : results[i].source = f
  BY <1>3 DEF EngineInv, ReportsFit
<1>5. /\ results' \in Seq(Report) /\ Len(results') = Len(Order)
      /\ \A i \in 1..Len(Order) : results'[i].source = Order[i]
      /\ \A i \in 1..Len(Order) : \E j \in DOMAIN results : results'[i] = results[j]
  BY <1>1, <1>4, SortingRestoresOrder
<1>6. DOMAIN results' = 1..Len(Order)
  BY <1>5
<1>7. ReportsFit'
  <2>1. \A i, j \in DOMAIN results' : results'[i].source = results'[j].source => i = j
    BY <1>5, <1>6, OrderIsInjective
  <2>2. \A f \in Fetchers : \E i \in DOMAIN results' : results'[i].source = f
    BY <1>5, <1>6, PositionOfSource
  <2>3. \A i \in DOMAIN results' : \E j \in DOMAIN results : results'[i] = results[j]
    BY <1>5, <1>6
  <2>4. /\ \A i \in DOMAIN results' : src[results'[i].source].stage = "Joined"
        /\ \A i \in DOMAIN results' : results'[i].status = "Ok" =>
             /\ results'[i].candidates = src[results'[i].source].found
             /\ src[results'[i].source].got = src[results'[i].source].wanted
    BY <2>3 DEF EngineInv, ReportsFit
  <2> QED BY <1>1, <2>1, <2>2, <2>4 DEF ReportsFit
<1>8. ReturnedAll'
  <2>1. [i \in 1..Len(results') |-> results'[i].source] = Order
    <3>1. Order = [i \in 1..Len(Order) |-> Order[i]]
      BY EngineAssumption
    <3> QED BY <1>5, <3>1
  <2> QED BY <1>1, <1>3, <2>1 DEF ReturnedAll
<1>9. EngineTypeOK'
  BY <1>1, <1>5 DEF EngineInv, EngineTypeOK
<1>10. (\A f \in Fetchers : SourceInv(src[f]))' /\ AdmittedInOrder'
  BY <1>1 DEF EngineInv, AdmittedInOrder
<1> QED BY <1>7, <1>8, <1>9, <1>10 DEF EngineInv

\* Before the first source is admitted there is nothing to account for.
LEMMA EngineInvInit == EngineInit => EngineInv
<1> SUFFICES ASSUME EngineInit PROVE EngineInv
  OBVIOUS
<1>1. FetchTypeOK
  BY FetchInvInit DEF EngineInit, FetchInv
<1> DEFINE none == [stage |-> "Pending", status |-> "Ok", found |-> 0, stubs |-> 0, plans |-> 0,
                    failed |-> FALSE, candidates |-> 0, wanted |-> 0, got |-> 0]
<1>2. src = [f \in Fetchers |-> none] /\ admitted = 0 /\ results = <<>> /\ returned = FALSE
  BY DEF EngineInit
<1>3. MaxStubs \in Nat /\ MaxPlans \in Nat /\ Len(Order) \in Nat
  BY EngineAssumption
<1>4. none \in Source
  <2>1. /\ 0 \in 0..(MaxStubs + 1) /\ 0 \in 0..MaxStubs /\ 0 \in 0..MaxPlans /\ 0 \in Nat
        /\ "Pending" \in SourceStage /\ "Ok" \in SourceStatus
    BY <1>3 DEF SourceStage, SourceStatus
  <2> QED BY <2>1 DEF Source
<1>5. SourceInv(none) /\ none.stage = "Pending"
  BY <1>3 DEF SourceInv, Fresh, InLoop, Accounted
<1> HIDE DEF none
<1>6. EngineTypeOK
  <2>1. src \in [Fetchers -> Source]
    BY <1>2, <1>4
  <2>2. admitted \in 0..Len(Order)
    BY <1>2, <1>3
  <2>3. results \in Seq(Report)
    <3>1. <<>> \in Seq(Report)
      OBVIOUS
    <3> QED BY <1>2, <3>1
  <2>4. returned \in BOOLEAN
    BY <1>2, Zenon
  <2> QED BY <1>1, <2>1, <2>2, <2>3, <2>4 DEF EngineTypeOK
<1>7. \A f \in Fetchers : SourceInv(src[f])
  BY <1>2, <1>5
<1>8. DOMAIN results = {}
  BY <1>2
<1>9. ReportsFit
  BY <1>2, <1>5, <1>8 DEF ReportsFit
<1>10. AdmittedInOrder /\ ReturnedAll
  <2>1. \A i \in 1..Len(Order) : Order[i] \in Fetchers /\ 0 < i
    BY OrderIsInjective
  <2> QED BY <1>2, <1>5, <2>1 DEF AdmittedInOrder, ReturnedAll
<1> QED BY <1>6, <1>7, <1>9, <1>10 DEF EngineInv

\* Every step of the coordinator and of the tasks keeps the accounts.
LEMMA NextKeepsEngineInv ==
  ASSUME EngineInv, FetchTypeOK', [EngineNext]_allVars
  PROVE  EngineInv'
<1>1. ASSUME NEW f \in Fetchers, SourceStep(f) PROVE EngineInv' \/ UNCHANGED engineVars
  BY <1>1, TaskWorks, WorkingKeepsEngineInv, JoinKeepsEngineInv DEF SourceStep
<1>2. ASSUME NEW f \in Fetchers, Panic(f) PROVE EngineInv'
  BY <1>2, TaskWorks, WorkingKeepsEngineInv
<1>3. ASSUME UNCHANGED engineVars PROVE EngineInv'
  BY <1>3 DEF engineVars, EngineInv, EngineTypeOK, ReportsFit, AdmittedInOrder, ReturnedAll
<1> QED BY <1>1, <1>2, <1>3, AdmitKeepsEngineInv, ReturnKeepsEngineInv
        DEF EngineNext, Coordinate, allVars, engineVars

\* The accounts of a scan, the types of its sources and reports with them, hold always.
THEOREM EngineInvHolds == EngineSpec => []EngineInv
<1>1. FetchInv => FetchTypeOK
  BY DEF FetchInv
<1>2. EngineInit => EngineInv
  BY EngineInvInit
<1>3. EngineInv /\ FetchTypeOK' /\ [EngineNext]_allVars => EngineInv'
  BY NextKeepsEngineInv
<1> QED BY <1>1, <1>2, <1>3, EngineImplementsTransactions, FetchInvHolds, PTL DEF EngineSpec

\* A source that reports Ok has a candidate for every stub that it listed and had every
\* document that it planned for.
THEOREM OkIsCompleteHolds == EngineSpec => []OkIsComplete
<1>1. EngineInv => OkIsComplete
  <2> SUFFICES ASSUME EngineInv PROVE OkIsComplete
    OBVIOUS
  <2>1. DOMAIN results = 1..Len(results)
    BY DEF EngineInv, EngineTypeOK
  <2> QED BY <2>1 DEF EngineInv, ReportsFit, OkIsComplete
<1> QED BY <1>1, EngineInvHolds, PTL

\* fetch_all reports each source once, whatever failed or panicked, and returns the
\* reports of all of them in id order.
THEOREM OneReportEachHolds == EngineSpec => []OneReportEach
<1>1. EngineInv => OneReportEach
  <2> SUFFICES ASSUME EngineInv PROVE OneReportEach
    OBVIOUS
  <2>1. DOMAIN results = 1..Len(results)
    BY DEF EngineInv, EngineTypeOK
  <2> QED BY <2>1 DEF EngineInv, ReportsFit, ReturnedAll, OneReportEach
<1> QED BY <1>1, EngineInvHolds, PTL

=============================================================================
