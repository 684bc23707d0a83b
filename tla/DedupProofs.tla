------------------------------ MODULE DedupProofs ------------------------------
(***************************************************************************)
(* Theorems about Dedup.                                                   *)
(***************************************************************************)
EXTENDS Dedup, SequenceTheorems, OrderLemmas

-----------------------------------------------------------------------------
(* Keys, matches and merging.                                              *)

\* An extracted event is a representative.
LEMMA InputsRepresent == Inputs \subseteq Representative
<1> SUFFICES ASSUME NEW e \in Inputs PROVE e \in Representative
  OBVIOUS
<1>1. e \in Event /\ Len(e.sources) = 1
  BY DedupAssumption
<1>2. e.sources # <<>>
  BY <1>1, EmptySeq
<1> QED BY <1>1, <1>2 DEF Representative

\* The organizer of a representative is a number.
LEMMA OrganizerIsNat ==
  ASSUME NEW e \in Representative
  PROVE  OrganizerOf(e) \in Nat
<1>1. e.sources[1] \in Evidence
  BY EmptySeq, ElementOfSeq DEF Representative, Event
<1> QED
  BY <1>1, DedupAssumption DEF OrganizerOf, Representative, Event

\* Scalar keys have no missing field.
LEMMA ScalarKeysPresent ==
  ASSUME NEW e \in Representative
  PROVE  ScalarKeys(e) \subseteq ScalarKey
<1>1. /\ e.title \in Title /\ e.url \in Url \cup {None}
      /\ e.date \in Nat /\ e.place \in Nat /\ OrganizerOf(e) \in Nat
  BY OrganizerIsNat DEF Representative, Event
<1>2. Normalized[e.title] \in Nat /\ \A u \in {e.url} \ {None} : CanonicalUrl[u] \in Nat
  BY <1>1, DedupAssumption
<1> QED BY <1>1, <1>2 DEF ScalarKeys, ScalarKey

\* Merging a representative with an extracted event gives a representative.
LEMMA MergedRepresents ==
  ASSUME NEW keep \in Representative, NEW e \in Inputs
  PROVE  Merged(keep, e) \in Representative
<1> DEFINE new == e.sources[1]
           page == PageOf[new]
<1>1. e \in Event /\ keep \in Event /\ new \in Evidence
  BY DedupAssumption, ElementOfSeq DEF Event, Representative
<1>2. WithoutPage(keep.sources, page) \in Seq(Evidence)
  <2>1. ASSUME NEW i \in 1..Len(keep.sources)
        PROVE  SubSeq(keep.sources, 1, i - 1) \o SubSeq(keep.sources, i + 1, Len(keep.sources))
                 \in Seq(Evidence)
    <3>1. Len(keep.sources) \in Nat /\ \A j \in 1..Len(keep.sources) : keep.sources[j] \in Evidence
      BY <1>1, LenProperties, ElementOfSeq DEF Event
    <3>2. SubSeq(keep.sources, 1, i - 1) \in Seq(Evidence)
      BY <3>1, SubSeqProperties
    <3>3. SubSeq(keep.sources, i + 1, Len(keep.sources)) \in Seq(Evidence)
      BY <3>1, SubSeqProperties
    <3> QED BY <3>2, <3>3, ConcatProperties
  <2> QED BY <1>1, <2>1 DEF WithoutPage, HasPage, Event
<1>3. <<new>> \o WithoutPage(keep.sources, page) \in Seq(Evidence) \ {<<>>}
  BY <1>1, <1>2
<1>4. Append(keep.sources, new) \in Seq(Evidence) \ {<<>>}
  <2>1. keep.sources \in Seq(Evidence)
    BY <1>1 DEF Event
  <2> HIDE DEF new
  <2>2. Append(keep.sources, new) \in Seq(Evidence) /\ Len(Append(keep.sources, new)) > 0
    BY <1>1, <2>1
  <2> QED BY <2>2, EmptySeq
<1>5. ASSUME NEW k \in Event, NEW o \in Event, NEW s \in Seq(Evidence) \ {<<>>}
      PROVE  Filled(k, o, s) \in Representative
  BY ZenonT(60) DEF Filled, Representative, Event, Or
<1>6. keep.sources \in Seq(Evidence) \ {<<>>}
  BY DEF Representative, Event
<1> QED
  BY <1>1, <1>3, <1>4, <1>5, <1>6 DEF Merged

\* A cluster keeps its sources unless its representative is replaced, and the
\* sources it gains stand behind them.
LEMMA MergedSources ==
  ASSUME NEW keep \in Representative, NEW e \in Inputs, ~ After(keep, e)
  PROVE  LET rep == Merged(keep, e)
         IN  /\ Len(keep.sources) <= Len(rep.sources)
             /\ \A i \in 1..Len(keep.sources) : rep.sources[i] = keep.sources[i]
<1> DEFINE new == e.sources[1]
<1>1. new \in Evidence /\ keep.sources \in Seq(Evidence)
  BY DedupAssumption, ElementOfSeq DEF Event, Representative
<1>2. Merged(keep, e).sources \in {keep.sources, Append(keep.sources, new)}
  BY DEF Merged, Filled, Representative, Event
<1> QED
  BY <1>1, <1>2

\* Native keys are no scalar keys.
LEMMA KeysApart ==
  ASSUME NEW e, NEW f, NEW places
  PROVE  ScalarKeys(e) \cap NativeKeysAt(f, places) = {}
<1>1. \A k \in ScalarKeys(e) : k[1] # "Native"
  BY DEF ScalarKeys
<1>2. \A k \in NativeKeysAt(f, places) : k[1] = "Native"
  BY DEF NativeKeysAt
<1> QED BY <1>1, <1>2

\* The native keys of a merged cluster are those it had, unless its
\* representative is replaced, and those of the sources it gained.
LEMMA MergedNativeKeys ==
  ASSUME NEW keep \in Representative, NEW e \in Inputs
  PROVE  LET rep   == Merged(keep, e)
             start == IF After(keep, e) THEN 0 ELSE Len(keep.sources)
         IN  NativeKeys(rep) = (IF After(keep, e) THEN {} ELSE NativeKeys(keep))
                               \cup NativeKeysAt(rep, (start + 1)..Len(rep.sources))
<1> DEFINE rep == Merged(keep, e)
<1>1. CASE After(keep, e)
  BY <1>1 DEF NativeKeys
<1>2. CASE ~ After(keep, e)
  <2>1. /\ Len(keep.sources) \in Nat /\ Len(rep.sources) \in Nat
        /\ Len(keep.sources) <= Len(rep.sources)
        /\ \A i \in 1..Len(keep.sources) : rep.sources[i] = keep.sources[i]
    BY <1>2, MergedSources, MergedRepresents, LenProperties DEF Representative, Event
  <2>2. 1..Len(rep.sources) = 1..Len(keep.sources) \cup (Len(keep.sources) + 1)..Len(rep.sources)
    BY <2>1
  <2>3. NativeKeys(keep) = NativeKeysAt(rep, 1..Len(keep.sources))
    BY <2>1 DEF NativeKeys, NativeKeysAt
  <2>4. ASSUME NEW A, NEW B
        PROVE  NativeKeysAt(rep, A \cup B) = NativeKeysAt(rep, A) \cup NativeKeysAt(rep, B)
    BY DEF NativeKeysAt
  <2>5. NativeKeys(rep) = NativeKeysAt(rep, 1..Len(keep.sources))
                          \cup NativeKeysAt(rep, (Len(keep.sources) + 1)..Len(rep.sources))
    BY <2>2, <2>4 DEF NativeKeys
  <2> QED
    BY <1>2, <2>3, <2>5
<1> QED BY <1>1, <1>2

-----------------------------------------------------------------------------
(* The index.                                                              *)

\* Each cluster is in the index under its scalar keys of now.
KeysCached ==
  /\ Len(cluster_keys) = Len(clusters)
  /\ \A p \in 1..Len(clusters) : cluster_keys[p] = ScalarKeys(clusters[p])

IndexInv == DedupTypeOK /\ KeysCached /\ IndexExact

\* What the typing says of lengths and of single elements.
LEMMA Lengths ==
  ASSUME DedupTypeOK
  PROVE  /\ Len(clusters) \in Nat /\ Len(taken) \in Nat
         /\ \A p \in 1..Len(clusters) : clusters[p] \in Representative
         /\ \A n \in 1..Len(taken) : taken[n] \in Inputs
BY LenProperties, ElementOfSeq DEF DedupTypeOK

\* An exact index leads from a key to the clusters that have it.
LEMMA IndexedKeys ==
  ASSUME IndexExact, NEW k, NEW p \in 1..Len(clusters)
  PROVE  <<k, p>> \in index <=> k \in IdentityKeys(clusters[p])
BY DEF IndexExact, Entries

\* With an exact index the lookup finds what the linear search finds.
LEMMA CandidatesAreMatches ==
  ASSUME IndexExact, NEW e
  PROVE  Candidates(IdentityKeys(e)) = Matches(e)
BY IndexedKeys DEF Candidates, Matches

\* The first match is a cluster.
LEMMA FirstMatchIsCluster ==
  ASSUME DedupTypeOK, NEW e, Candidates(IdentityKeys(e)) # {}
  PROVE  FirstMatch(e) \in 1..Len(clusters)
<1>1. Candidates(IdentityKeys(e)) \in SUBSET Nat
  BY Lengths DEF Candidates
<1>2. FirstMatch(e) \in Candidates(IdentityKeys(e))
  BY <1>1, MinIsLeast DEF FirstMatch
<1> QED BY <1>2 DEF Candidates

\* Founding a cluster keeps the index exact.
LEMMA FoundKeepsIndex ==
  ASSUME IndexInv, NEW e \in Inputs, FoundCluster(e)
  PROVE  IndexInv'
<1> USE DEF IndexInv
<1> DEFINE n == Len(clusters)
<1>1. e \in Representative
  BY InputsRepresent
<1>2. /\ n \in Nat
      /\ Len(clusters') = n + 1
      /\ clusters'[n + 1] = e
      /\ \A p \in 1..n : clusters'[p] = clusters[p]
  BY <1>1, Lengths DEF FoundCluster, Found, DedupTypeOK
<1>3. /\ Len(cluster_keys') = n + 1
      /\ cluster_keys'[n + 1] = ScalarKeys(e)
      /\ \A p \in 1..n : cluster_keys'[p] = cluster_keys[p]
  <2>1. ScalarKeys(e) \in SUBSET ScalarKey
    BY <1>1, ScalarKeysPresent
  <2>2. cluster_keys \in Seq(SUBSET ScalarKey) /\ Len(cluster_keys) = n
    BY DEF DedupTypeOK, KeysCached
  <2> HIDE DEF n
  <2> QED BY <2>1, <2>2 DEF FoundCluster, n
<1>4. DedupTypeOK'
  <2>1. taken' \in Seq(Inputs)
    BY DEF FoundCluster, Take, DedupTypeOK
  <2>2. clusters' \in Seq(Representative)
    BY <1>1 DEF FoundCluster, Found, DedupTypeOK
  <2>3. cluster_keys' \in Seq(SUBSET ScalarKey)
    <3>1. ScalarKeys(e) \in SUBSET ScalarKey
      BY <1>1, ScalarKeysPresent
    <3> QED BY <3>1 DEF FoundCluster, DedupTypeOK
  <2> QED BY <2>1, <2>2, <2>3 DEF FoundCluster, DedupTypeOK
<1>5. KeysCached'
  BY <1>2, <1>3 DEF KeysCached
<1>6. IndexExact'
  <2>1. index' = index \cup Entries(IdentityKeys(e), n + 1)
    BY DEF FoundCluster
  <2>2. ASSUME NEW x
        PROVE  x \in index' <=> \E p \in 1..(n + 1) : x \in Entries(IdentityKeys(clusters'[p]), p)
    <3>1. x \in index <=> \E p \in 1..n : x \in Entries(IdentityKeys(clusters[p]), p)
      BY DEF IndexExact
    <3>2. \A p \in 1..(n + 1) : p \in 1..n \/ p = n + 1
      BY <1>2
    <3>3. n + 1 \in 1..(n + 1) /\ \A p \in 1..n : p \in 1..(n + 1)
      BY <1>2
    <3> QED BY <1>2, <2>1, <3>1, <3>2, <3>3
  <2>3. index' = UNION {Entries(IdentityKeys(clusters'[p]), p) : p \in 1..(n + 1)}
    BY <2>2
  <2> QED BY <1>2, <2>1, <2>3 DEF IndexExact
<1> QED BY <1>4, <1>5, <1>6

\* Merging an event into a cluster keeps the index exact.
LEMMA MergeKeepsIndex ==
  ASSUME IndexInv, NEW e \in Inputs, MergeCluster(e)
  PROVE  IndexInv'
<1> USE DEF IndexInv
<1> DEFINE n    == Len(clusters)
           p    == FirstMatch(e)
           keep == clusters[p]
           rep  == Merged(keep, e)
<1>1. p \in 1..n /\ n \in Nat /\ keep \in Representative /\ rep \in Representative
  <2>1. p \in 1..n /\ n \in Nat
    BY FirstMatchIsCluster, Lengths DEF MergeCluster
  <2>2. keep \in Representative
    BY <2>1, Lengths
  <2> QED BY <2>1, <2>2, MergedRepresents
<1> HIDE DEF p, keep, rep
<1>2. /\ clusters' = [clusters EXCEPT ![p] = rep]
      /\ cluster_keys' = [cluster_keys EXCEPT ![p] = ScalarKeys(rep)]
      /\ taken' = Append(taken, e)
      /\ id_aliases' = AliasesWith(keep, e)
      /\ index' = ((index \ StaleNative(p, keep, e)) \ StaleScalar(p, keep, e))
                  \cup NewScalar(p, keep, e) \cup NewNative(p, keep, e)
  BY DEF MergeCluster, MergeInto, Take, p, keep, rep
<1>3. /\ Len(clusters') = n
      /\ clusters'[p] = rep
      /\ \A q \in 1..n : q # p => clusters'[q] = clusters[q]
      /\ clusters' \in Seq(Representative)
  BY <1>1, <1>2, ExceptSeq DEF DedupTypeOK
<1>4. /\ Len(cluster_keys') = n
      /\ cluster_keys'[p] = ScalarKeys(rep)
      /\ \A q \in 1..n : q # p => cluster_keys'[q] = cluster_keys[q]
      /\ cluster_keys' \in Seq(SUBSET ScalarKey)
  <2>1. ScalarKeys(rep) \in SUBSET ScalarKey
    BY <1>1, ScalarKeysPresent
  <2>2. cluster_keys \in Seq(SUBSET ScalarKey) /\ Len(cluster_keys) = n
    BY DEF DedupTypeOK, KeysCached
  <2> QED BY <1>1, <1>2, <2>1, <2>2, ExceptSeq
<1>5. DedupTypeOK'
  <2>1. taken' \in Seq(Inputs)
    BY <1>2 DEF DedupTypeOK
  <2>2. /\ DOMAIN id_aliases' \subseteq Nat
        /\ \A i \in DOMAIN id_aliases' : id_aliases'[i] \in Nat
    <3>1. e.id \in Nat /\ keep.id \in Nat
      BY <1>1, DedupAssumption DEF Representative, Event
    <3> QED BY <1>2, <3>1 DEF AliasesWith, DedupTypeOK
  <2> QED BY <1>3, <1>4, <2>1, <2>2 DEF DedupTypeOK
<1>6. KeysCached'
  BY <1>3, <1>4 DEF KeysCached
<1>7. ASSUME NEW q \in 1..n, q # p, NEW k
      PROVE  <<k, q>> \in index' <=> k \in IdentityKeys(clusters'[q])
  <2>1. <<k, q>> \in index' <=> <<k, q>> \in index
    BY <1>2, <1>7 DEF StaleNative, StaleScalar, NewScalar, NewNative, Entries
  <2> QED BY <1>3, <1>7, <2>1, IndexedKeys
<1>8. ASSUME NEW k
      PROVE  <<k, p>> \in index' <=> k \in IdentityKeys(rep)
  <2> DEFINE start  == IF After(keep, e) THEN 0 ELSE Len(keep.sources)
             gained == NativeKeysAt(rep, (start + 1)..Len(rep.sources))
             lost   == IF After(keep, e) THEN NativeKeys(keep) ELSE {}
  <2>1. <<k, p>> \in index <=> k \in ScalarKeys(keep) \cup NativeKeys(keep)
    BY <1>1, IndexedKeys DEF IdentityKeys, keep
  <2>2. <<k, p>> \in StaleNative(p, keep, e) <=> k \in lost
    BY DEF StaleNative, Entries
  <2>3. cluster_keys[p] = ScalarKeys(keep)
    BY <1>1 DEF KeysCached, keep
  <2>4. <<k, p>> \in StaleScalar(p, keep, e) <=> k \in ScalarKeys(keep) \ ScalarKeys(rep)
    BY <2>3 DEF StaleScalar, Entries, rep
  <2>5. <<k, p>> \in NewScalar(p, keep, e) <=> k \in ScalarKeys(rep) \ ScalarKeys(keep)
    BY <2>3 DEF NewScalar, Entries, rep
  <2>6. <<k, p>> \in NewNative(p, keep, e) <=> k \in gained
    BY DEF NewNative, Entries, rep
  <2>7. NativeKeys(rep) = (IF After(keep, e) THEN {} ELSE NativeKeys(keep)) \cup gained
    BY <1>1, MergedNativeKeys DEF rep
  <2>8. /\ ScalarKeys(keep) \cap NativeKeys(keep) = {}
        /\ ScalarKeys(rep) \cap NativeKeys(keep) = {}
    BY KeysApart DEF NativeKeys
  <2> HIDE DEF gained
  <2>9. <<k, p>> \in index' <=>
          \/ k \in (ScalarKeys(keep) \cup NativeKeys(keep)) /\ k \notin lost
             /\ k \notin ScalarKeys(keep) \ ScalarKeys(rep)
          \/ k \in ScalarKeys(rep) \ ScalarKeys(keep)
          \/ k \in gained
    BY <1>2, <2>1, <2>2, <2>4, <2>5, <2>6
  <2> QED BY <2>7, <2>8, <2>9 DEF IdentityKeys
<1>9. ASSUME NEW x \in index'
      PROVE  \E q \in 1..n : \E k \in IdentityKeys(clusters'[q]) : x = <<k, q>>
  <2>1. \E q \in 1..n : \E k : x = <<k, q>>
    <3>1. CASE x \in index
      BY <3>1 DEF IndexExact, Entries
    <3>2. CASE x \notin index
      BY <1>1, <1>2, <3>2 DEF NewScalar, NewNative, Entries
    <3> QED BY <3>1, <3>2
  <2>2. PICK q \in 1..n : \E k : x = <<k, q>>
    BY <2>1
  <2>3. PICK k : x = <<k, q>>
    BY <2>2
  <2>4. k \in IdentityKeys(clusters'[q])
    BY <1>3, <1>7, <1>8, <2>3
  <2> QED BY <2>3, <2>4
<1>10. ASSUME NEW q \in 1..n, NEW k \in IdentityKeys(clusters'[q])
       PROVE  <<k, q>> \in index'
  BY <1>3, <1>7, <1>8
<1>11. index' = UNION {Entries(IdentityKeys(clusters'[q]), q) : q \in 1..n}
  BY <1>9, <1>10 DEF Entries
<1>12. IndexExact'
  BY <1>3, <1>11 DEF IndexExact
<1> QED BY <1>5, <1>6, <1>12

\* The empty index is exact for no clusters.
LEMMA InitIndex == DedupInit => IndexInv
<1> SUFFICES ASSUME DedupInit PROVE IndexInv
  OBVIOUS
<1>1. taken = <<>> /\ clusters = <<>> /\ cluster_keys = <<>> /\ id_aliases = <<>> /\ index = {}
  BY DEF DedupInit, RefInit
<1>2. Len(clusters) = 0 /\ Len(cluster_keys) = 0 /\ DOMAIN id_aliases = {}
  BY <1>1
<1>3. DedupTypeOK
  BY <1>1, <1>2, EmptySeq DEF DedupTypeOK
<1>4. KeysCached /\ IndexExact
  BY <1>1, <1>2 DEF KeysCached, IndexExact
<1> QED BY <1>3, <1>4 DEF IndexInv

\* The strengthened invariant holds of every pass.
THEOREM IndexInvHolds == DedupSpec => []IndexInv
<1>1. ASSUME IndexInv, [DedupNext]_dedupVars PROVE IndexInv'
  <2>1. CASE DedupNext
    BY <1>1, <2>1, FoundKeepsIndex, MergeKeepsIndex DEF DedupNext
  <2>2. CASE UNCHANGED dedupVars
    BY <1>1, <2>2 DEF dedupVars, IndexInv, DedupTypeOK, KeysCached, IndexExact
  <2> QED BY <1>1, <2>1, <2>2
<1> QED BY InitIndex, <1>1, PTL DEF DedupSpec

\* Type correctness, for any events and any order in which they are taken.
THEOREM DedupTypeCorrect == DedupSpec => []DedupTypeOK
BY IndexInvHolds, PTL DEF IndexInv

\* The incrementally maintained index of dedup_indexed never goes stale.
THEOREM IndexExactHolds == DedupSpec => []IndexExact
BY IndexInvHolds, PTL DEF IndexInv

\* dedup_indexed implements the linear reference: each pass of its loop is one of
\* the reference's, on the same events.
THEOREM Refinement == DedupSpec => MatchesReference
<1>1. DedupInit => RefInit
  BY DEF DedupInit
<1>2. ASSUME IndexInv, [DedupNext]_dedupVars PROVE [RefNext]_refVars
  <2>1. ASSUME NEW e \in Inputs, FoundCluster(e) \/ MergeCluster(e)
        PROVE  RefTake(e)
    <3>1. Candidates(IdentityKeys(e)) = Matches(e)
      BY <1>2, CandidatesAreMatches DEF IndexInv
    <3> QED
      BY <2>1, <3>1 DEF FoundCluster, MergeCluster, RefTake, FirstMatch
  <2>2. CASE DedupNext
    BY <2>1, <2>2 DEF DedupNext, RefNext
  <2>3. CASE UNCHANGED dedupVars
    BY <2>3 DEF dedupVars, refVars
  <2> QED BY <1>2, <2>2, <2>3
<1> QED BY <1>1, <1>2, IndexInvHolds, PTL DEF DedupSpec, MatchesReference, RefSpec

-----------------------------------------------------------------------------
(* Ids.                                                                    *)

\* No cluster's id comes after that of the event taken last.
IdsInOrder ==
  \A p \in 1..Len(clusters) : taken # <<>> /\ clusters[p].id <= taken[Len(taken)].id

\* Each cluster has the id and the URL of some event taken, if all have one.
FromAdapters ==
  AdapterBuilt =>
    \A p \in 1..Len(clusters) :
      /\ clusters[p].url # None
      /\ \E n \in 1..Len(taken) :
           /\ clusters[p].id = taken[n].id
           /\ CanonicalUrl[clusters[p].url] = CanonicalUrl[taken[n].url]

IdInv == IdsInOrder /\ AliasesResolve /\ FromAdapters /\ UniqueIds

\* Ids of inputs and of representatives are numbers.
LEMMA IdsAreNats ==
  /\ \A e \in Inputs : e.id \in Nat
  /\ \A e \in Representative : e.id \in Nat
BY DedupAssumption DEF Representative, Event

\* Taking an event in order puts it last, behind no cluster.
LEMMA TakenLast ==
  ASSUME DedupTypeOK, IdsInOrder, NEW e \in Inputs, Take(e)
  PROVE  /\ Len(taken') = Len(taken) + 1
         /\ taken'[Len(taken')] = e
         /\ taken' # <<>>
         /\ \A n \in 1..Len(taken) : taken'[n] = taken[n]
         /\ \A p \in 1..Len(clusters) : clusters[p].id <= e.id
<1>1. taken \in Seq(Inputs) /\ Len(taken) \in Nat /\ taken' = Append(taken, e)
  BY Lengths DEF DedupTypeOK, Take
<1>2. Len(taken') = Len(taken) + 1 /\ taken'[Len(taken) + 1] = e
      /\ \A n \in 1..Len(taken) : taken'[n] = taken[n]
  BY <1>1
<1>3. taken' # <<>>
  BY <1>1, <1>2
<1>4. ASSUME NEW p \in 1..Len(clusters)
      PROVE  clusters[p].id <= e.id
  <2> DEFINE last == taken[Len(taken)]
  <2>1. taken # <<>> /\ clusters[p].id <= last.id
    BY <1>4 DEF IdsInOrder
  <2>2. ~ After(last, e)
    BY <2>1 DEF Take, InOrder
  <2>3. last \in Inputs /\ clusters[p] \in Representative
    BY <1>1, <2>1, Lengths, EmptySeq
  <2>4. last.id \in Nat /\ e.id \in Nat /\ clusters[p].id \in Nat
    BY <2>3, IdsAreNats
  <2>5. ~ (last.id > e.id)
    BY <2>2 DEF After
  <2> QED BY <2>1, <2>4, <2>5
<1> QED BY <1>2, <1>3, <1>4

\* Merging an event that comes in order changes no cluster's id.
LEMMA MergedId ==
  ASSUME NEW keep \in Representative, NEW e \in Inputs, keep.id <= e.id
  PROVE  Merged(keep, e).id = keep.id
<1>1. e \in Event /\ keep \in Event /\ e.id \in Nat /\ keep.id \in Nat
  BY DedupAssumption, IdsAreNats DEF Representative
<1>2. CASE After(keep, e)
  <2>1. keep.id = e.id
    BY <1>1, <1>2 DEF After
  <2> QED BY <1>1, <1>2, <2>1 DEF Merged, Filled, Event
<1>3. CASE ~ After(keep, e)
  BY <1>1, <1>3 DEF Merged, Filled, Event
<1> QED BY <1>2, <1>3

\* The URL of a merged cluster is that of the cluster, or of the event that
\* replaced its representative.
LEMMA MergedUrl ==
  ASSUME NEW keep \in Representative, NEW e \in Inputs, keep.url # None, e.url # None
  PROVE  Merged(keep, e).url = IF After(keep, e) THEN e.url ELSE keep.url
<1>1. e \in Event /\ keep \in Event
  BY DedupAssumption DEF Representative
<1> QED BY <1>1 DEF Merged, Filled, Or, Event

\* A pass over more events was one over fewer.
LEMMA AdapterBuiltBefore ==
  ASSUME Len(taken) \in Nat, Len(taken') = Len(taken) + 1,
         \A n \in 1..Len(taken) : taken'[n] = taken[n],
         AdapterBuilt'
  PROVE  AdapterBuilt
<1>1. \A n \in 1..Len(taken) : n \in 1..Len(taken')
  OBVIOUS
<1> QED BY <1>1 DEF AdapterBuilt

\* Founding a cluster keeps ids in order, resolved and unique.
LEMMA FoundKeepsIds ==
  ASSUME IndexInv, IdInv, NEW e \in Inputs, FoundCluster(e)
  PROVE  IdInv'
<1> USE DEF IndexInv, IdInv
<1> DEFINE n == Len(clusters)
           t == Len(taken)
<1>1. /\ n \in Nat /\ t \in Nat
      /\ Len(clusters') = n + 1
      /\ clusters'[n + 1] = e
      /\ \A p \in 1..n : clusters'[p] = clusters[p]
  BY InputsRepresent, Lengths DEF FoundCluster, Found, DedupTypeOK
<1>2. /\ Len(taken') = t + 1 /\ taken'[t + 1] = e /\ taken' # <<>>
      /\ \A m \in 1..t : taken'[m] = taken[m]
      /\ \A p \in 1..n : clusters[p].id <= e.id
  BY TakenLast DEF FoundCluster
<1>3. /\ \A p \in 1..(n + 1) : p \in 1..n \/ p = n + 1
      /\ \A m \in 1..(t + 1) : m \in 1..t \/ m = t + 1
      /\ n + 1 \in 1..(n + 1) /\ \A p \in 1..n : p \in 1..(n + 1)
      /\ t + 1 \in 1..(t + 1) /\ \A m \in 1..t : m \in 1..(t + 1)
  BY <1>1
<1>4. IdsInOrder'
  <2>1. e.id <= e.id
    BY IdsAreNats
  <2> QED BY <1>1, <1>2, <1>3, <2>1 DEF IdsInOrder
<1>5. AliasesResolve'
  <2>1. ClusterIds' = ClusterIds \cup {e.id}
    <3>1. \A i : i \in ClusterIds' <=> \E p \in 1..(n + 1) : clusters'[p].id = i
      BY <1>1 DEF ClusterIds
    <3>2. \A i : i \in ClusterIds <=> \E p \in 1..n : clusters[p].id = i
      BY DEF ClusterIds
    <3> QED BY <1>1, <1>3, <3>1, <3>2
  <2>2. id_aliases' = id_aliases
    BY DEF FoundCluster
  <2> QED BY <1>2, <1>3, <2>1, <2>2 DEF AliasesResolve
<1>6. ASSUME AdapterBuilt' PROVE AdapterBuilt
  BY <1>1, <1>2, <1>6, AdapterBuiltBefore
<1>7. FromAdapters'
  <2> SUFFICES ASSUME AdapterBuilt', NEW p \in 1..(n + 1)
               PROVE  /\ clusters'[p].url # None
                      /\ \E m \in 1..(t + 1) :
                           /\ clusters'[p].id = taken'[m].id
                           /\ CanonicalUrl[clusters'[p].url] = CanonicalUrl[taken'[m].url]
    BY <1>1, <1>2 DEF FromAdapters
  <2>1. CASE p = n + 1
    <3>1. e.url # None
      BY <1>2, <1>3 DEF AdapterBuilt
    <3> QED BY <1>1, <1>2, <1>3, <2>1, <3>1
  <2>2. CASE p \in 1..n
    <3>1. clusters[p].url # None
      BY <1>6, <2>2 DEF FromAdapters
    <3>2. PICK m \in 1..t : /\ clusters[p].id = taken[m].id
                            /\ CanonicalUrl[clusters[p].url] = CanonicalUrl[taken[m].url]
      BY <1>6, <2>2 DEF FromAdapters
    <3> QED BY <1>1, <1>2, <1>3, <2>2, <3>1, <3>2
  <2> QED BY <1>3, <2>1, <2>2
<1>8. UniqueIds'
  <2> SUFFICES ASSUME AdapterBuilt'
               PROVE  \A p, q \in 1..(n + 1) : clusters'[p].id = clusters'[q].id => p = q
    BY <1>1 DEF UniqueIds
  <2>1. ASSUME NEW p \in 1..n, clusters[p].id = e.id
        PROVE  FALSE
    <3>1. PICK m \in 1..t : /\ clusters[p].id = taken[m].id
                            /\ CanonicalUrl[clusters[p].url] = CanonicalUrl[taken[m].url]
      BY <1>6 DEF FromAdapters
    <3>2. clusters[p].url # None
      BY <1>6 DEF FromAdapters
    <3>3. e.url # None /\ CanonicalUrl[taken[m].url] = CanonicalUrl[e.url]
      <4>1. taken'[m] = taken[m] /\ m \in 1..Len(taken') /\ t + 1 \in 1..Len(taken')
        BY <1>2, <1>3
      <4> QED BY <1>2, <2>1, <3>1, <4>1, ZenonT(60) DEF AdapterBuilt
    <3> DEFINE key == <<"Url", CanonicalUrl[e.url]>>
    <3>4. key \in IdentityKeys(e) /\ key \in IdentityKeys(clusters[p])
      BY <3>1, <3>2, <3>3 DEF IdentityKeys, ScalarKeys
    <3>5. p \in Matches(e)
      BY <3>4 DEF Matches
    <3> QED BY <3>5, CandidatesAreMatches DEF FoundCluster
  <2>2. \A p, q \in 1..n : clusters[p].id = clusters[q].id => p = q
    BY <1>6 DEF UniqueIds
  <2> QED BY <1>1, <1>3, <2>1, <2>2
<1> QED BY <1>4, <1>5, <1>7, <1>8

\* Merging an event into a cluster keeps ids in order, resolved and unique.
LEMMA MergeKeepsIds ==
  ASSUME IndexInv, IdInv, NEW e \in Inputs, MergeCluster(e)
  PROVE  IdInv'
<1> USE DEF IndexInv, IdInv
<1> DEFINE n    == Len(clusters)
           t    == Len(taken)
           p    == FirstMatch(e)
           keep == clusters[p]
           rep  == Merged(keep, e)
<1>1. p \in 1..n /\ n \in Nat /\ t \in Nat /\ keep \in Representative
  BY FirstMatchIsCluster, Lengths DEF MergeCluster
<1>2. /\ Len(taken') = t + 1 /\ taken'[t + 1] = e /\ taken' # <<>>
      /\ \A m \in 1..t : taken'[m] = taken[m]
      /\ \A q \in 1..n : clusters[q].id <= e.id
  BY TakenLast DEF MergeCluster
<1>3. rep.id = keep.id
  BY <1>1, <1>2, MergedId
<1>4. clusters' = [clusters EXCEPT ![p] = rep] /\ id_aliases' = AliasesWith(keep, e)
  BY DEF MergeCluster, MergeInto
<1> HIDE DEF p, keep, rep
<1>5. /\ Len(clusters') = n /\ clusters'[p] = rep
      /\ \A q \in 1..n : q # p => clusters'[q] = clusters[q]
  BY <1>1, <1>4, MergedRepresents, ExceptSeq DEF DedupTypeOK, rep
<1>6. \A q \in 1..n : clusters'[q].id = clusters[q].id
  BY <1>3, <1>5 DEF keep
<1>7. /\ \A m \in 1..(t + 1) : m \in 1..t \/ m = t + 1
      /\ t + 1 \in 1..(t + 1) /\ \A m \in 1..t : m \in 1..(t + 1)
  BY <1>1
<1>8. IdsInOrder'
  BY <1>2, <1>5, <1>6 DEF IdsInOrder
<1>9. AliasesResolve'
  <2>1. ClusterIds' = ClusterIds
    BY <1>5, <1>6 DEF ClusterIds
  <2>2. keep.id \in ClusterIds /\ keep.id <= e.id /\ keep.id \in Nat /\ e.id \in Nat
    BY <1>1, <1>2, IdsAreNats DEF ClusterIds, keep
  <2>3. CASE e.id = keep.id
    <3>1. id_aliases' = id_aliases
      BY <1>4, <2>3 DEF AliasesWith
    <3> QED BY <1>2, <1>7, <2>1, <2>2, <2>3, <3>1 DEF AliasesResolve
  <2>4. CASE e.id # keep.id
    <3>1. /\ DOMAIN id_aliases' = DOMAIN id_aliases \cup {e.id}
          /\ id_aliases'[e.id] = keep.id
          /\ \A i \in DOMAIN id_aliases : i # e.id => id_aliases'[i] = id_aliases[i]
      BY <1>4, <2>4 DEF AliasesWith
    <3>2. keep.id < e.id
      BY <2>2, <2>4
    <3> QED BY <1>2, <1>7, <2>1, <2>2, <3>1, <3>2 DEF AliasesResolve
  <2> QED BY <2>3, <2>4
<1>10. ASSUME AdapterBuilt' PROVE AdapterBuilt
  BY <1>1, <1>2, <1>10, AdapterBuiltBefore
<1>11. FromAdapters'
  <2> SUFFICES ASSUME AdapterBuilt', NEW q \in 1..n
               PROVE  /\ clusters'[q].url # None
                      /\ \E m \in 1..(t + 1) :
                           /\ clusters'[q].id = taken'[m].id
                           /\ CanonicalUrl[clusters'[q].url] = CanonicalUrl[taken'[m].url]
    BY <1>2, <1>5 DEF FromAdapters
  <2>1. clusters[q].url # None
    BY <1>10 DEF FromAdapters
  <2>2. PICK m \in 1..t : /\ clusters[q].id = taken[m].id
                          /\ CanonicalUrl[clusters[q].url] = CanonicalUrl[taken[m].url]
    BY <1>10 DEF FromAdapters
  <2>3. CASE clusters'[q].url = clusters[q].url
    BY <1>2, <1>6, <1>7, <2>1, <2>2, <2>3
  <2>4. CASE clusters'[q].url # clusters[q].url
    <3>1. q = p
      BY <1>5, <2>4
    <3>2. e.url # None
      BY <1>2, <1>7 DEF AdapterBuilt
    <3>3. After(keep, e) /\ rep.url = e.url
      BY <1>1, <1>5, <2>1, <2>4, <3>1, <3>2, MergedUrl DEF keep, rep
    <3>4. keep.id = e.id
      <4>1. keep.id <= e.id /\ keep.id \in Nat /\ e.id \in Nat
        BY <1>1, <1>2, IdsAreNats DEF keep
      <4> QED BY <3>3, <4>1 DEF After
    <3> QED BY <1>2, <1>3, <1>5, <1>7, <3>1, <3>2, <3>3, <3>4, ZenonT(60)
  <2> QED BY <2>3, <2>4
<1>12. UniqueIds'
  BY <1>5, <1>6, <1>10 DEF UniqueIds
<1> QED BY <1>8, <1>9, <1>11, <1>12

\* The invariant about ids holds of every pass.
THEOREM IdInvHolds == DedupSpec => []IdInv
<1>1. ASSUME DedupInit PROVE IdInv
  <2>1. taken = <<>> /\ clusters = <<>> /\ id_aliases = <<>>
    BY <1>1 DEF DedupInit, RefInit
  <2>2. Len(taken) = 0 /\ Len(clusters) = 0 /\ DOMAIN id_aliases = {}
    BY <2>1
  <2>3. 1..Len(taken) = {} /\ 1..Len(clusters) = {}
    BY <2>2
  <2> QED BY <2>2, <2>3 DEF IdInv, IdsInOrder, AliasesResolve, FromAdapters, UniqueIds
<1>2. ASSUME IndexInv, IdInv, [DedupNext]_dedupVars PROVE IdInv'
  <2>1. CASE DedupNext
    BY <1>2, <2>1, FoundKeepsIds, MergeKeepsIds DEF DedupNext
  <2>2. CASE UNCHANGED dedupVars
    BY <1>2, <2>2 DEF dedupVars, IdInv, IdsInOrder, AliasesResolve, ClusterIds, FromAdapters,
                      UniqueIds, AdapterBuilt
  <2> QED BY <1>2, <2>1, <2>2
<1> QED BY <1>1, <1>2, IndexInvHolds, PTL DEF DedupSpec

\* Whatever the events, in whatever clusters they end up, one step along an alias
\* leads from an event's id to that of a cluster, as canonical_id of the scan
\* transaction asks of a target.
THEOREM AliasesResolveHolds == DedupSpec => []AliasesResolve
BY IdInvHolds, PTL DEF IdInv

\* Events that adapters build never leave two clusters under one id.
THEOREM UniqueIdsHolds == DedupSpec => []UniqueIds
BY IdInvHolds, PTL DEF IdInv

=============================================================================
