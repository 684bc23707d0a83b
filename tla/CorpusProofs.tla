----------------------------- MODULE CorpusProofs -----------------------------
(***************************************************************************)
(* Proofs about the corpus under ScanPipeline, for every set of scenarios, *)
(* every registry and every cap: what is stored as Ok is stored in full,   *)
(* each topic is credited once and at its best, laureates lift the rank of *)
(* where they speak, and the output shows all that is due.                 *)
(***************************************************************************)
EXTENDS ScanPipelineProofs, OrderLemmas

USE DEF inputs

-----------------------------------------------------------------------------
(* The corpus: enrichment and merging keep what identifies an event.      *)

IsRecord(event) == event = [f \in EventFields |-> event[f]]

\* A sequence of events.
IsCorpus(corpus, n) ==
  /\ n \in Nat /\ corpus = [i \in 1..n |-> corpus[i]]
  /\ \A i \in 1..n : IsRecord(corpus[i]) /\ corpus[i].id \in Nat

\* Enrichment keeps what identifies an event.
LEMMA EnrichmentKeeps ==
  ASSUME NEW e, IsRecord(e)
  PROVE  LET x == EnrichScholars(EnrichTopics(e))
         IN  IsRecord(x) /\ x.id = e.id /\ x.url = e.url /\ x.sources = e.sources
<1> DEFINE t == EnrichTopics(e)
           x == EnrichScholars(t)
<1>1. IsRecord(t) /\ t.id = e.id /\ t.url = e.url /\ t.sources = e.sources
  <2>1. CASE Topics = <<>>
    <3>1. t = e
      BY <2>1, Zenon DEF EnrichTopics
    <3> QED BY <3>1
  <2>2. CASE Topics # <<>>
    <3>1. PICK b, c : t = [e EXCEPT !.talks = b, !.topics = c]
      BY <2>2, Zenon DEF EnrichTopics
    <3> HIDE DEF t
    <3> QED BY <3>1 DEF IsRecord, EventFields
  <2> QED BY <2>1, <2>2
<1> HIDE DEF t
<1>2. IsRecord(x) /\ x.id = t.id /\ x.url = t.url /\ x.sources = t.sources
  <2>1. CASE Scholars = <<>>
    <3>1. x = t
      BY <2>1, Zenon DEF EnrichScholars
    <3> QED BY <1>1, <3>1
  <2>2. CASE Scholars # <<>>
    <3>1. PICK b, c : x = [t EXCEPT !.talks = b, !.people = c]
      BY <2>2, Zenon DEF EnrichScholars
    <3> HIDE DEF x
    <3> QED BY <1>1, <3>1 DEF IsRecord, EventFields
  <2> QED BY <2>1, <2>2
<1> QED BY <1>1, <1>2 DEF t

\* The union of two events of a URL is one of it.
LEMMA MergeKeepsUrl ==
  ASSUME NEW a, NEW b, IsRecord(a), IsRecord(b), a.url = b.url
  PROVE  IsRecord(MergeEvents(a, b)) /\ MergeEvents(a, b).url = a.url
         /\ MergeEvents(a, b).id \in {a.id, b.id}
<1> DEFINE keep  == IF a.id <= b.id THEN a ELSE b
           x == MergeEvents(a, b)
<1>1. IsRecord(keep) /\ keep.url = a.url /\ keep.id \in {a.id, b.id}
  OBVIOUS
<1>2. PICK s, m, t, p, o, l, d, w :
        x = [keep EXCEPT !.sources = s, !.media = m, !.talks = t, !.people = p, !.topics = o,
                         !.location = l, !.description = d, !.date = w]
  <2> DEFINE s == UnionBy(LAMBDA y : y, keep.sources, (IF a.id <= b.id THEN b ELSE a).sources)
             other == IF a.id <= b.id THEN b ELSE a
             m == UnionMedia(keep.media, other.media)
             t == FoldLeft(AddTalk, keep.talks, other.talks)
             p == UnionPeople(keep.people, other.people)
             o == UnionTopics(keep.topics, other.topics)
             l == IF keep.location = Blank THEN other.location ELSE keep.location
             d == IF keep.description = Blank THEN other.description ELSE keep.description
             w == IF keep.date.start = None THEN other.date ELSE keep.date
  <2>1. x = [keep EXCEPT !.sources = s, !.media = m, !.talks = t, !.people = p, !.topics = o,
                         !.location = l, !.description = d, !.date = w]
    BY Zenon DEF MergeEvents
  <2> HIDE DEF x, keep, s, m, t, p, o, l, d, w
  <2> QED BY <2>1, ZenonT(60)
<1> HIDE DEF x, keep
<1>3. IsRecord(x) /\ x.url = keep.url /\ x.id = keep.id
  BY <1>1, <1>2 DEF IsRecord, EventFields
<1> QED BY <1>1, <1>3 DEF x

\* The first n elements of one sequence are all in another.
AllIn(some, others, n) == \A i \in 1..n : \E k \in 1..n : others[k] = some[i]

\* The canonical order has the same events.
LEMMA SameInIdOrder ==
  ASSUME NEW corpus, NEW n, IsCorpus(corpus, n)
  PROVE  /\ IsCorpus(InIdOrder(corpus), n)
         /\ AllIn(corpus, InIdOrder(corpus), n) /\ AllIn(InIdOrder(corpus), corpus, n)
<1> DEFINE D == 1..n
           R == {p \in D \X D : Sooner(corpus, p)}
           at == Arranged(D, R)
<1>0. /\ n \in Nat /\ DOMAIN corpus = D
      /\ \A i \in D : IsRecord(corpus[i]) /\ corpus[i].id \in Nat
  <2>1. corpus = [i \in D |-> corpus[i]]
    BY DEF IsCorpus
  <2> QED BY <2>1 DEF IsCorpus
<1>1. ASSUME NEW i \in D, NEW j \in D
      PROVE  <<i, j>> \in R <=> (corpus[i].id < corpus[j].id \/ (corpus[i].id = corpus[j].id /\ i < j))
  <2> DEFINE p == <<i, j>>
  <2>1. p[1] = i /\ p[2] = j /\ p \in D \X D
    OBVIOUS
  <2> HIDE DEF p, D
  <2>2. Sooner(corpus, p) <=> (corpus[i].id < corpus[j].id \/ (corpus[i].id = corpus[j].id /\ i < j))
    BY <2>1 DEF Sooner
  <2>3. p \in R <=> Sooner(corpus, p)
    BY <2>1
  <2> HIDE DEF R
  <2> QED BY <2>2, <2>3 DEF p
<1>2. StrictOrder(D, R)
  <2> DEFINE id(i) == corpus[i].id
  <2>1. \A i \in D : id(i) \in Nat /\ i \in Nat
    BY <1>0
  <2> HIDE DEF R
  <2>2. \A i, j \in D : <<i, j>> \in R <=> id(i) < id(j) \/ (id(i) = id(j) /\ i < j)
    BY <1>1
  <2> HIDE DEF id
  <2> SUFFICES ASSUME NEW i \in D, NEW j \in D
               PROVE  /\ <<i, i>> \notin R
                      /\ i = j \/ <<i, j>> \in R \/ <<j, i>> \in R
                      /\ \A k \in D : <<i, j>> \in R /\ <<j, k>> \in R => <<i, k>> \in R
    BY DEF StrictOrder
  <2>3. <<i, i>> \notin R /\ (i = j \/ <<i, j>> \in R \/ <<j, i>> \in R)
    <3>1. id(i) \in Nat /\ id(j) \in Nat /\ i \in Nat /\ j \in Nat
      BY <2>1
    <3>2. /\ (id(i) < id(j) \/ id(i) = id(j) \/ id(j) < id(i)) /\ (i < j \/ i = j \/ j < i)
          /\ ~ (id(i) < id(i)) /\ ~ (i < i)
      BY <3>1
    <3> QED BY <2>2, <3>2
  <2>4. ASSUME NEW k \in D, <<i, j>> \in R, <<j, k>> \in R
        PROVE  <<i, k>> \in R
    <3>1. /\ id(i) \in Nat /\ id(j) \in Nat /\ id(k) \in Nat
          /\ i \in Nat /\ j \in Nat /\ k \in Nat
      BY <2>1
    <3>2. /\ id(i) < id(j) \/ (id(i) = id(j) /\ i < j)
          /\ id(j) < id(k) \/ (id(j) = id(k) /\ j < k)
      BY <2>2, <2>4
    <3>3. id(i) < id(k) \/ (id(i) = id(k) /\ i < k)
      BY <3>1, <3>2
    <3> QED BY <2>2, <3>3
  <2> QED BY <2>3, <2>4
<1>3. IsFiniteSet(D) /\ Cardinality(D) = n
  BY <1>0, FS_Interval
<1>4. at \in [D -> D] /\ \A i \in D : \E k \in D : at[k] = i
  <2> HIDE DEF R
  <2> QED BY <1>2, <1>3, ArrangedInOrder
<1>5. InIdOrder(corpus) = [k \in D |-> corpus[at[k]]]
  BY <1>0 DEF InIdOrder
<1> HIDE DEF at
<1>6. \A k \in D : at[k] \in D /\ InIdOrder(corpus)[k] = corpus[at[k]]
  BY <1>4, <1>5
<1>7. IsCorpus(InIdOrder(corpus), n)
  BY <1>0, <1>5, <1>6 DEF IsCorpus
<1> HIDE DEF D
<1>8. \A i \in D : \E k \in D : InIdOrder(corpus)[k] = corpus[i]
  BY <1>4, <1>6
<1>9. \A i \in D : \E k \in D : corpus[k] = InIdOrder(corpus)[i]
  BY <1>4, <1>6
<1> QED BY <1>7, <1>8, <1>9 DEF D, AllIn

\* Merging goes from left to right.
LEMMA MergeSteps ==
  ASSUME NEW seq, NEW n \in Nat, DOMAIN seq = 1..n
  PROVE  \E acc : /\ acc[0] = <<>> /\ acc[n] = FoldLeft(MergeInto, <<>>, seq)
                  /\ \A k \in 1..n : acc[k] = MergeInto(acc[k - 1], seq[k])
<1> DEFINE Iter(f, m) ==
             f = [s \in SUBSET (1..m) |-> IF s = {} THEN <<>>
                                          ELSE MergeInto(f[s \ {Max(s)}], seq[Max(s)])]
           G == {m \in 0..n : \E f : Iter(f, m)}
<1>1. 0 \in G
  <2> DEFINE f == [s \in SUBSET (1..0) |-> <<>>]
  <2>1. \A s \in SUBSET (1..0) : s = {}
    OBVIOUS
  <2>2. Iter(f, 0)
    BY <2>1, Zenon
  <2> HIDE DEF Iter, f
  <2> QED BY <2>2
<1>2. ASSUME NEW m \in 1..n, m - 1 \in G PROVE m \in G
  <2>0. m \in 0..n /\ m - 1 \in Nat /\ m \in Nat
    OBVIOUS
  <2>1. PICK f : Iter(f, m - 1)
    BY <1>2
  <2> DEFINE g == [s \in SUBSET (1..m) |-> IF m \in s THEN MergeInto(f[s \ {m}], seq[m]) ELSE f[s]]
             old == SUBSET (1..(m - 1))
  <2>2. \A s \in SUBSET (1..m) : m \notin s => s \in old
    BY <2>0
  <2>3. ASSUME NEW s \in SUBSET (1..m)
        PROVE  g[s] = IF s = {} THEN <<>> ELSE MergeInto(g[s \ {Max(s)}], seq[Max(s)])
    <3>1. CASE s = {}
      <4>1. s \in old /\ m \notin s
        BY <3>1
      <4>2. f[s] = <<>>
        BY <2>1, <3>1, <4>1
      <4> QED BY <3>1, <4>1, <4>2
    <3>2. CASE m \in s
      <4>1. Max(s) \in s /\ m <= Max(s) /\ Max(s) \in 1..m
        BY <2>0, <3>2, MaxIsGreatest
      <4>2. Max(s) = m
        BY <2>0, <4>1
      <4>3. g[s \ {m}] = f[s \ {m}]
        OBVIOUS
      <4> QED BY <3>2, <4>2, <4>3
    <3>3. CASE s # {} /\ m \notin s
      <4>1. s \in old
        BY <2>2, <3>3
      <4>2. f[s] = MergeInto(f[s \ {Max(s)}], seq[Max(s)])
        BY <2>1, <3>3, <4>1
      <4>3. g[s \ {Max(s)}] = f[s \ {Max(s)}]
        BY <3>3
      <4> QED BY <3>3, <4>2, <4>3
    <3> QED BY <3>1, <3>2, <3>3
  <2>4. Iter(g, m)
    BY <2>3
  <2> HIDE DEF Iter, g
  <2> QED BY <2>0, <2>4
<1>3. n \in G
  <2>1. \A k \in 1..n : k - 1 \in G => k \in G
    BY <1>2
  <2>2. n \in 0..n
    OBVIOUS
  <2> HIDE DEF G
  <2> QED BY <1>1, <2>1, <2>2, InductTo
<1> DEFINE iter == CHOOSE f : Iter(f, n)
           acc == [k \in 0..n |-> iter[1..k]]
<1>4. Iter(iter, n)
  BY <1>3
<1>5. FoldLeft(MergeInto, <<>>, seq) = iter[1..n]
  BY Zenon DEF FoldLeft, MapThenFoldSet
<1> HIDE DEF iter
<1>6. acc[0] = <<>>
  <2>1. 1..0 = {} /\ {} \in SUBSET (1..n)
    OBVIOUS
  <2> QED BY <1>4, <2>1
<1>7. ASSUME NEW k \in 1..n
      PROVE  acc[k] = MergeInto(acc[k - 1], seq[k])
  <2>1. k \in 0..n /\ k - 1 \in 0..n
    OBVIOUS
  <2>2. 1..k \in SUBSET (1..n) /\ 1..k # {} /\ Max(1..k) = k /\ (1..k) \ {k} = 1..(k - 1)
    BY LastPosition
  <2>3. iter[1..k] = MergeInto(iter[(1..k) \ {Max(1..k)}], seq[Max(1..k)])
    BY <1>4, <2>2
  <2> QED BY <2>1, <2>2, <2>3
<1>8. acc[n] = iter[1..n]
  OBVIOUS
<1> HIDE DEF acc
<1> QED BY <1>5, <1>6, <1>7, <1>8

OfUrl(clusters, url) == SelectInSeq(clusters, LAMBDA c : c.url = url)

\* The first cluster of a URL.
LEMMA FirstOfUrl ==
  ASSUME NEW clusters, NEW n, IsCorpus(clusters, n), NEW url
  PROVE  /\ OfUrl(clusters, url) = 0 => \A k \in 1..n : clusters[k].url # url
         /\ OfUrl(clusters, url) # 0 => /\ OfUrl(clusters, url) \in 1..n
                                        /\ clusters[OfUrl(clusters, url)].url = url
<1> DEFINE P == {i \in 1..n : clusters[i].url = url}
<1>1. n \in Nat /\ Len(clusters) = n
  BY IndexedSeq DEF IsCorpus
<1>2. OfUrl(clusters, url) = IF P # {} THEN Min(P) ELSE 0
  BY <1>1 DEF OfUrl, SelectInSeq
<1>3. P \in SUBSET (1..n)
  OBVIOUS
<1>4. /\ OfUrl(clusters, url) = 0 => P = {}
      /\ OfUrl(clusters, url) # 0 => OfUrl(clusters, url) \in P
  <2> HIDE DEF P
  <2> QED BY <1>1, <1>2, <1>3, FirstPosition
<1> QED BY <1>4

\* An event that is merged into the clusters has its URL among theirs.
LEMMA MergeIntoKeeps ==
  ASSUME NEW clusters, NEW n, IsCorpus(clusters, n), NEW event, IsRecord(event), event.id \in Nat
  PROVE  \E m \in Nat : /\ IsCorpus(MergeInto(clusters, event), m)
                        /\ \E k \in 1..m : MergeInto(clusters, event)[k].url = event.url
                        /\ \A i \in 1..n : \E k \in 1..m :
                             MergeInto(clusters, event)[k].url = clusters[i].url
<1> DEFINE same == OfUrl(clusters, event.url)
           next == MergeInto(clusters, event)
<1>0. /\ n \in Nat /\ clusters = [i \in 1..n |-> clusters[i]]
      /\ \A i \in 1..n : IsRecord(clusters[i]) /\ clusters[i].id \in Nat
  BY DEF IsCorpus
<1>1. next = IF same = 0 THEN Append(clusters, event)
             ELSE [clusters EXCEPT ![same] = MergeEvents(clusters[same], event)]
  BY Zenon DEF MergeInto, OfUrl
<1>2. same # 0 => same \in 1..n /\ clusters[same].url = event.url
  BY FirstOfUrl
<1> HIDE DEF same, next
<1>3. CASE same = 0
  <2>1. next = Append(clusters, event)
    BY <1>1, <1>3
  <2>2. /\ next = [i \in 1..(n + 1) |-> next[i]] /\ next[n + 1] = event
        /\ \A i \in 1..n : next[i] = clusters[i]
    BY <1>0, <2>1, IndexedSeq
  <2>3. /\ n + 1 \in Nat /\ n + 1 \in 1..(n + 1)
        /\ \A i \in 1..(n + 1) : i \in 1..n \/ i = n + 1
        /\ \A i \in 1..n : i \in 1..(n + 1)
    BY <1>0
  <2>4. IsCorpus(next, n + 1)
    BY <1>0, <2>2, <2>3 DEF IsCorpus
  <2> QED BY <2>2, <2>3, <2>4 DEF next
<1>4. CASE same # 0
  <2> DEFINE merged == MergeEvents(clusters[same], event)
  <2>0. same \in 1..n /\ clusters[same].url = event.url
    BY <1>2, <1>4
  <2>1. IsRecord(merged) /\ merged.url = event.url /\ merged.id \in Nat
    BY <1>0, <2>0, MergeKeepsUrl
  <2> HIDE DEF merged
  <2>2. next = [clusters EXCEPT ![same] = merged]
    BY <1>1, <1>4 DEF merged
  <2>3. /\ next = [i \in 1..n |-> next[i]] /\ next[same] = merged
        /\ \A i \in 1..n : i # same => next[i] = clusters[i]
    BY <1>0, <2>0, <2>2
  <2>4. IsCorpus(next, n)
    BY <1>0, <2>1, <2>3 DEF IsCorpus
  <2>5. \A i \in 1..n : next[i].url = clusters[i].url
    BY <2>0, <2>1, <2>3
  <2>6. next[same].url = event.url
    BY <2>1, <2>3
  <2> QED BY <1>0, <2>0, <2>4, <2>5, <2>6 DEF next
<1> QED BY <1>3, <1>4

\* Of each URL of the corpus there is a cluster.
LEMMA MergeCovers ==
  ASSUME NEW corpus, NEW n, IsCorpus(corpus, n)
  PROVE  \E m \in Nat : /\ IsCorpus(MergeDuplicates(corpus), m)
                        /\ \A i \in 1..n : \E k \in 1..m :
                             MergeDuplicates(corpus)[k].url = corpus[i].url
<1> DEFINE seq == InIdOrder(corpus)
<1>1. /\ n \in Nat /\ IsCorpus(seq, n)
      /\ \A i \in 1..n : \E k \in 1..n : seq[k] = corpus[i]
  <2>1. n \in Nat
    BY DEF IsCorpus
  <2>2. IsCorpus(seq, n) /\ AllIn(corpus, seq, n)
    BY SameInIdOrder
  <2> HIDE DEF seq
  <2>3. \A i \in 1..n : \E k \in 1..n : seq[k] = corpus[i]
    BY <2>2 DEF AllIn
  <2> QED BY <2>1, <2>2, <2>3
<1> HIDE DEF seq
<1>2. /\ DOMAIN seq = 1..n
      /\ \A k \in 1..n : IsRecord(seq[k]) /\ seq[k].id \in Nat
  <2>1. seq = [i \in 1..n |-> seq[i]]
    BY <1>1 DEF IsCorpus
  <2> QED BY <1>1, <2>1 DEF IsCorpus
<1>3. PICK acc : /\ acc[0] = <<>> /\ acc[n] = FoldLeft(MergeInto, <<>>, seq)
                 /\ \A k \in 1..n : acc[k] = MergeInto(acc[k - 1], seq[k])
  BY <1>1, <1>2, MergeSteps
<1> DEFINE Covers(k) == \E m \in Nat : /\ IsCorpus(acc[k], m)
                                       /\ \A i \in 1..k : \E j \in 1..m : acc[k][j].url = seq[i].url
           G == {k \in 0..n : Covers(k)}
<1>4. 0 \in G
  <2>1. IsCorpus(<<>>, 0)
    BY DEF IsCorpus
  <2>2. IsCorpus(acc[0], 0) /\ 0 \in 0..n /\ 1..0 = {} /\ 0 \in Nat
    BY <1>1, <1>3, <2>1
  <2> QED BY <2>2
<1>5. ASSUME NEW k \in 1..n, k - 1 \in G PROVE k \in G
  <2>1. k \in 0..n /\ \A i \in 1..k : i \in 1..(k - 1) \/ i = k
    BY <1>1
  <2>2. PICK m \in Nat : /\ IsCorpus(acc[k - 1], m)
                         /\ \A i \in 1..(k - 1) : \E j \in 1..m : acc[k - 1][j].url = seq[i].url
    BY <1>5
  <2> DEFINE before == acc[k - 1]
             event == seq[k]
  <2>3. acc[k] = MergeInto(before, event) /\ IsRecord(event) /\ event.id \in Nat
    BY <1>2, <1>3
  <2> HIDE DEF before, event
  <2>4. PICK c \in Nat : /\ IsCorpus(acc[k], c) /\ \E j \in 1..c : acc[k][j].url = event.url
                         /\ \A i \in 1..m : \E j \in 1..c : acc[k][j].url = before[i].url
    <3>1. IsCorpus(before, m)
      BY <2>2 DEF before
    <3> QED BY <2>3, <3>1, MergeIntoKeeps, SMTT(30)
  <2>5. \A i \in 1..k : \E j \in 1..c : acc[k][j].url = seq[i].url
    <3> SUFFICES ASSUME NEW i \in 1..k PROVE \E j \in 1..c : acc[k][j].url = seq[i].url
      OBVIOUS
    <3>1. CASE i = k
      BY <2>4, <3>1 DEF event
    <3>2. CASE i \in 1..(k - 1)
      <4>1. PICK j \in 1..m : before[j].url = seq[i].url
        BY <2>2, <3>2 DEF before
      <4> QED BY <2>4, <4>1
    <3> QED BY <2>1, <3>1, <3>2
  <2> QED BY <2>1, <2>4, <2>5
<1>6. n \in 0..n /\ \A k \in 1..n : k - 1 \in G => k \in G
  BY <1>1, <1>5
<1>7. n \in G
  <2> HIDE DEF G
  <2> QED BY <1>1, <1>4, <1>6, InductTo
<1>8. MergeDuplicates(corpus) = acc[n]
  BY <1>3 DEF MergeDuplicates, seq
<1>9. PICK m \in Nat : /\ IsCorpus(acc[n], m)
                       /\ \A i \in 1..n : \E j \in 1..m : acc[n][j].url = seq[i].url
  BY <1>7
<1>10. \A i \in 1..n : \E j \in 1..m : acc[n][j].url = corpus[i].url
  BY <1>1, <1>9
<1> QED BY <1>8, <1>9, <1>10

\* Every event of the corpus is in the clusters, under its id or the one it went into.
Accounted(id, clusters, names) ==
  LET ids == {clusters[k].id : k \in DOMAIN clusters}
  IN  IF id \in DOMAIN names THEN names[id] \in ids ELSE id \in ids

\* The merge accounts for every event of the corpus.
LEMMA AllAccounted ==
  ASSUME NEW corpus, NEW n, IsCorpus(corpus, n)
  PROVE  LET clusters == MergeDuplicates(corpus)
         IN  \A i \in 1..n : Accounted(corpus[i].id, clusters, AliasesOf(corpus, clusters))
<1> DEFINE clusters == MergeDuplicates(corpus)
           rep(e) == clusters[OfUrl(clusters, e.url)].id
           gone == {e \in ToSet(corpus) : rep(e) # e.id}
           names == AliasesOf(corpus, clusters)
           ids == {clusters[k].id : k \in DOMAIN clusters}
<1>1. PICK m \in Nat : /\ IsCorpus(clusters, m)
                       /\ \A i \in 1..n : \E k \in 1..m : clusters[k].url = corpus[i].url
  BY MergeCovers
<1>2. names = [id \in {e.id : e \in gone} |-> rep(CHOOSE e \in gone : e.id = id)]
  BY Zenon DEF AliasesOf, OfUrl
<1> HIDE DEF clusters, names
<1>3. DOMAIN clusters = 1..m
  <2>1. clusters = [i \in 1..m |-> clusters[i]]
    BY <1>1 DEF IsCorpus
  <2> QED BY <2>1
<1>4. DOMAIN corpus = 1..n
  <2>1. corpus = [i \in 1..n |-> corpus[i]]
    BY DEF IsCorpus
  <2> QED BY <2>1
<1>5. \A e \in ToSet(corpus) : rep(e) \in ids
  <2> SUFFICES ASSUME NEW i \in 1..n PROVE rep(corpus[i]) \in ids
    BY <1>4 DEF ToSet
  <2>1. OfUrl(clusters, corpus[i].url) \in 1..m
    BY <1>1, FirstOfUrl
  <2> QED BY <1>3, <2>1
<1> HIDE DEF ids, rep
<1>6. ASSUME NEW i \in 1..n PROVE Accounted(corpus[i].id, clusters, names)
  <2> DEFINE e == corpus[i]
  <2>1. e \in ToSet(corpus)
    BY <1>4 DEF ToSet
  <2> HIDE DEF e
  <2>2. CASE e.id \in {x.id : x \in gone}
    <3> DEFINE y == CHOOSE x \in gone : x.id = e.id
    <3>1. y \in gone
      BY <2>2
    <3>2. names[e.id] = rep(y) /\ e.id \in DOMAIN names
      BY <1>2, <2>2
    <3> HIDE DEF y
    <3>3. names[e.id] \in ids
      BY <1>5, <3>1, <3>2
    <3> QED BY <3>2, <3>3 DEF Accounted, ids, e
  <2>3. CASE e.id \notin {x.id : x \in gone}
    <3>1. e \notin gone
      BY <2>3
    <3>2. rep(e) = e.id
      BY <2>1, <3>1
    <3>3. e.id \in ids /\ e.id \notin DOMAIN names
      BY <1>2, <1>5, <2>1, <2>3, <3>2
    <3> QED BY <3>3 DEF Accounted, ids, e
  <2> QED BY <2>2, <2>3
<1> QED BY <1>6 DEF clusters, names

-----------------------------------------------------------------------------
(* The cap: what it leaves to be reported as Ok it has not touched.       *)

\* The candidates of the first r - 1 results stand before those of result r.
Offset(seqs, r) == Total(LengthsOf(seqs), r - 1)

\* A prefix of all candidates in which one of a source is missing has fewer of that
\* source than it found.
LEMMA FewerSurvive ==
  ASSUME NEW E, NEW seqs \in Seq(Seq(E)), NEW n \in Nat, n = Len(seqs), NEW srcs,
         \A r \in 1..n : \A i \in 1..Len(seqs[r]) : seqs[r][i].sources = <<srcs[r]>>,
         \A r, t \in 1..n : srcs[r] = srcs[t] => r = t,
         NEW c \in Nat, c <= Len(FlattenSeq(seqs)),
         NEW prefix, prefix = [p \in 1..c |-> FlattenSeq(seqs)[p]],
         NEW r \in 1..n, NEW i \in 1..Len(seqs[r]), ~ (Offset(seqs, r) + i <= c)
  PROVE  Survivors(prefix, srcs[r]) \in Nat /\ Survivors(prefix, srcs[r]) < Len(seqs[r])
<1> DEFINE o == Offset(seqs, r)
           found(p) == {k \in DOMAIN prefix[p].sources : prefix[p].sources[k] = srcs[r]}
           left == UNION {{<<p, k>> : k \in found(p)} : p \in DOMAIN prefix}
<1>0. o \in Nat /\ i \in Nat /\ Len(seqs[r]) \in Nat /\ i >= 1 /\ i <= Len(seqs[r])
  <2>1. \A k \in 1..n : seqs[k] \in Seq(E) /\ Len(seqs[k]) \in Nat
    OBVIOUS
  <2>2. \A k \in 1..n : LengthsOf(seqs)[k] \in Nat
    BY <2>1 DEF LengthsOf
  <2>3. \A k \in 0..n : Total(LengthsOf(seqs), k) \in Nat
    BY <2>2, TotalAdds
  <2>4. r - 1 \in 0..n
    OBVIOUS
  <2> QED BY <2>1, <2>3, <2>4 DEF Offset
<1>c. ~ (o + i <= c)
  BY DEF Offset
<1>f. /\ Len(FlattenSeq(seqs)) \in Nat
      /\ \A p \in 1..Len(FlattenSeq(seqs)) : Placed(seqs, n, p)
  <2> HIDE DEF o, left
  <2>1. FlattenSeq(seqs) \in Seq(E)
    BY Flattened
  <2>2. \A p \in 1..Len(FlattenSeq(seqs)) : Placed(seqs, n, p)
    BY FlattenedFrom
  <2> QED BY <2>1, <2>2
<1>1. ASSUME NEW a \in left
      PROVE  a = <<a[1], 1>> /\ a[1] - o \in 1..(i - 1) /\ a[1] \in Nat
  <2>1. PICK p \in 1..c : \E k \in found(p) : a = <<p, k>>
    OBVIOUS
  <2>k. PICK k \in found(p) : a = <<p, k>>
    BY <2>1
  <2>2. PICK t \in 1..n : \E j \in 1..Len(seqs[t]) :
          p = Total(LengthsOf(seqs), t - 1) + j /\ FlattenSeq(seqs)[p] = seqs[t][j]
    <3>1. p \in 1..Len(FlattenSeq(seqs))
      BY <1>f
    <3> HIDE DEF o, left, found
    <3> QED BY <1>f, <3>1 DEF Placed
  <2>j. PICK j \in 1..Len(seqs[t]) :
          p = Total(LengthsOf(seqs), t - 1) + j /\ FlattenSeq(seqs)[p] = seqs[t][j]
    BY <2>2
  <2>3. prefix[p].sources = <<srcs[t]>>
    BY <2>j, SMTT(30)
  <2>4. k = 1 /\ srcs[t] = srcs[r]
    BY <2>3, SMTT(30)
  <2>5. t = r
    BY <2>4
  <2>6. p = o + j /\ j \in Nat /\ j >= 1 /\ p \in Nat /\ p <= c
    BY <1>0, <2>j, <2>5 DEF Offset
  <2> HIDE DEF o
  <2>7. p - o \in 1..(i - 1)
    BY <1>0, <1>c, <2>6
  <2> QED BY <2>k, <2>4, <2>6, <2>7
<1> DEFINE image == [a \in left |-> a[1] - o]
<1>2. image \in Injection(left, 1..(i - 1))
  <2> HIDE DEF left, o
  <2>1. image \in [left -> 1..(i - 1)]
    BY <1>1
  <2>2. \A a, b \in left : image[a] = image[b] => a = b
    <3> SUFFICES ASSUME NEW a \in left, NEW b \in left, image[a] = image[b]
                 PROVE  a = b
      OBVIOUS
    <3>1. a[1] - o = b[1] - o /\ a[1] \in Nat /\ b[1] \in Nat
      BY <1>1
    <3>2. a[1] = b[1]
      BY <1>0, <3>1
    <3> QED BY <1>1, <3>2
  <2> QED BY <2>1, <2>2 DEF Injection, IsInjective
<1>3. IsFiniteSet(1..(i - 1)) /\ Cardinality(1..(i - 1)) = i - 1
  <2> DEFINE m == i - 1
  <2>1. m \in Nat
    BY <1>0
  <2> HIDE DEF m
  <2>2. IsFiniteSet(1..m) /\ Cardinality(1..m) = m
    <3>1. 1 \in Int /\ m \in Int /\ m >= 0 /\ (m >= 1 => m - 1 + 1 = m) /\ (~ (m >= 1) => m = 0)
      BY <2>1
    <3>2. /\ IsFiniteSet(1..m)
          /\ Cardinality(1..m) = IF 1 > m THEN 0 ELSE m - 1 + 1
      BY <3>1, FS_Interval
    <3> QED BY <3>1, <3>2
  <2> QED BY <2>2 DEF m
<1> HIDE DEF left, image
<1>4. Cardinality(left) <= i - 1 /\ Cardinality(left) \in Nat
  BY <1>2, <1>3, FS_Injection, FS_CardinalityType
<1>5. Survivors(prefix, srcs[r]) = Cardinality(left)
  BY DEF Survivors, left
<1> QED BY <1>0, <1>4, <1>5

\* What the sources found, and what is reported of them.
Candidates == [r \in DOMAIN results |-> results[r].events]
AllCandidates == UNION {ToSet(results[r].events) : r \in DOMAIN results}
Reports == [r \in DOMAIN results |->
              [source |-> results[r].source, status |-> results[r].status,
               events |-> Len(results[r].events)]]

\* What the results are, of every scenario.
LEMMA ResultsTyped ==
  ASSUME scenario \in Scenarios, results \in scenario.runs
  PROVE  /\ Len(results) \in Nat /\ DOMAIN results = 1..Len(results)
         /\ Len(Candidates) = Len(results)
         /\ Candidates \in Seq(Seq(AllCandidates))
         /\ \A r \in 1..Len(results) : \A i \in 1..Len(Candidates[r]) :
              /\ Candidates[r] = results[r].events
              /\ IsCandidate(Candidates[r][i], results[r].source)
         /\ \A r, t \in 1..Len(results) : results[r].source = results[t].source => r = t
<1> DEFINE n == Len(results)
<1>1. /\ results \in Seq(ToSet(results))
      /\ \A r, t \in DOMAIN results : results[r].source = results[t].source => r = t
      /\ \A r \in DOMAIN results : /\ results[r].events \in Seq(ToSet(results[r].events))
                                   /\ \A e \in ToSet(results[r].events) :
                                        IsCandidate(e, results[r].source)
  BY ResultAssumption DEF AreResults
<1>2. n \in Nat /\ DOMAIN results = 1..n
  BY <1>1, LenProperties
<1>3. \A r \in 1..n : results[r].events \in Seq(AllCandidates)
  <2> TAKE r \in 1..n
  <2>1. ToSet(results[r].events) \subseteq AllCandidates
    BY <1>2 DEF AllCandidates
  <2> QED BY <1>1, <1>2, <2>1, SeqMonotonic
<1>4. Candidates \in [1..n -> Seq(AllCandidates)]
  BY <1>2, <1>3 DEF Candidates
<1>5. Candidates \in Seq(Seq(AllCandidates)) /\ Len(Candidates) = n
  BY <1>2, <1>4
<1>6. ASSUME NEW r \in 1..n, NEW i \in 1..Len(Candidates[r])
      PROVE  /\ Candidates[r] = results[r].events
             /\ IsCandidate(Candidates[r][i], results[r].source)
  <2> DEFINE found == results[r].events
  <2>1. Candidates[r] = found
    BY <1>2 DEF Candidates
  <2>2. found \in Seq(ToSet(found)) /\ \A e \in ToSet(found) : IsCandidate(e, results[r].source)
    BY <1>1, <1>2
  <2> HIDE DEF found
  <2>3. found[i] \in ToSet(found)
    BY <2>1, <2>2, ElementOfSeq
  <2> QED BY <2>1, <2>2, <2>3 DEF found
<1> QED BY <1>1, <1>2, <1>5, <1>6

Found == FlattenSeq(Candidates)

\* Events that are as some source found them.
AsFound(corpus, n) ==
  /\ IsCorpus(corpus, n)
  /\ \A i \in 1..n : \E source : IsCandidate(corpus[i], source)

\* A report of Ok vouches for everything that its source found.
Vouched(corpus, reports) ==
  \A r \in 1..Len(results) : \A h \in DOMAIN reports :
    reports[h].source = results[r].source /\ reports[h].status = "Ok" =>
      \A i \in 1..Len(Candidates[r]) : \E k \in DOMAIN corpus : corpus[k].id = Candidates[r][i].id

\* Everything found.
LEMMA FoundTyped ==
  ASSUME scenario \in Scenarios, results \in scenario.runs
  PROVE  /\ Len(Found) \in Nat /\ Found = [p \in 1..Len(Found) |-> Found[p]]
         /\ \A p \in 1..Len(Found) : \E source : IsCandidate(Found[p], source)
         /\ \A r \in 1..Len(results) : \A i \in 1..Len(Candidates[r]) :
              /\ Offset(Candidates, r) + i \in 1..Len(Found)
              /\ Found[Offset(Candidates, r) + i] = Candidates[r][i]
<1> DEFINE n == Len(results)
           lens == LengthsOf(Candidates)
<1>1. /\ n \in Nat /\ Len(Candidates) = n /\ Candidates \in Seq(Seq(AllCandidates))
      /\ \A r \in 1..n : \A i \in 1..Len(Candidates[r]) :
           \E source : IsCandidate(Candidates[r][i], source)
  BY ResultsTyped
<1>2. /\ \A r \in 1..n : lens[r] = Len(Candidates[r])
      /\ Found \in Seq(AllCandidates) /\ Len(Found) = Total(lens, n)
      /\ \A r \in 1..n : \A i \in 1..Len(Candidates[r]) :
           Found[Total(lens, r - 1) + i] = Candidates[r][i]
  BY <1>1, Flattened DEF Found
<1>3. \A p \in 1..Len(Found) : Placed(Candidates, n, p)
  BY <1>1, FlattenedFrom DEF Found
<1>4. Len(Found) \in Nat /\ Found = [p \in 1..Len(Found) |-> Found[p]]
  BY <1>2, LenProperties
<1>5. \A p \in 1..Len(Found) : \E source : IsCandidate(Found[p], source)
  BY <1>1, <1>3 DEF Placed, Found
<1>6. ASSUME NEW r \in 1..n, NEW i \in 1..Len(Candidates[r])
      PROVE  Total(lens, r - 1) + i \in 1..Len(Found)
  <2>1. \A k \in 1..n : lens[k] \in Nat
    <3>1. \A k \in 1..n : Candidates[k] \in Seq(AllCandidates)
      BY <1>1
    <3> QED BY <1>2, <3>1
  <2> HIDE DEF lens, n
  <2>2. /\ r \in 0..n /\ r - 1 \in 0..n /\ n \in 0..n /\ n \in r..n /\ i \in Nat /\ i >= 1
        /\ i <= lens[r]
    BY <1>1, <1>2, <2>1
  <2>3. /\ \A k \in 0..n : Total(lens, k) \in Nat
        /\ \A k \in 1..n : Total(lens, k) = Total(lens, k - 1) + lens[k]
    BY <1>1, <2>1, TotalAdds
  <2>4. Total(lens, r) <= Total(lens, n)
    BY <1>1, <2>1, <2>2, TotalGrows
  <2>5. Total(lens, r) = Total(lens, r - 1) + lens[r]
    BY <2>3
  <2>6. Total(lens, r - 1) \in Nat /\ Total(lens, r) \in Nat /\ Total(lens, n) \in Nat /\ lens[r] \in Nat
    BY <2>1, <2>2, <2>3
  <2> QED BY <1>2, <2>2, <2>4, <2>5, <2>6, SMTT(30)
<1> QED BY <1>2, <1>4, <1>5, <1>6 DEF Offset

\* How many elements a cap leaves, and the first ones.
CutAt(n, cap) == IF cap = NoCap THEN n ELSE AtMost(n, cap)
Leading(s, c) == [i \in 1..c |-> s[i]]

\* The first elements of a sequence.
LEMMA FirstOfPrefix ==
  ASSUME NEW n \in Nat, NEW s, s = [i \in 1..n |-> s[i]], NEW cap, cap = NoCap \/ cap \in Nat
  PROVE  CutAt(n, cap) \in 0..n /\ FirstOf(s, cap) = Leading(s, CutAt(n, cap))
<1>1. s \in Seq(ToSet(s)) /\ Len(s) = n /\ DOMAIN s = 1..n
  BY IndexedSeq
<1>2. CASE cap = NoCap
  <2>1. FirstOf(s, cap) = s /\ n \in 0..n
    BY <1>2 DEF FirstOf
  <2> QED BY <1>2, <2>1 DEF CutAt, Leading
<1>3. CASE cap # NoCap
  <2> DEFINE c == AtMost(n, cap)
             t == SubSeq(s, 1, c)
  <2>1. c \in 0..n
    BY <1>3 DEF AtMost
  <2>2. FirstOf(s, cap) = t
    BY <1>1, <1>3 DEF FirstOf
  <2> HIDE DEF c
  <2>3. \A i \in 1..c : i \in 1..n /\ s[i] \in ToSet(s)
    BY <1>1, <2>1 DEF ToSet
  <2>4. /\ t \in Seq(ToSet(s)) /\ Len(t) = c /\ \A i \in 1..c : t[i] = s[i]
    <3>1. /\ c \in Int /\ 1 \in Int /\ c - 1 + 1 = c /\ (~ (1 <= c) => c = 0)
          /\ \A i \in 1..c : 1 + i - 1 = i
      BY <2>1
    <3>2. /\ t \in Seq(ToSet(s)) /\ Len(t) = IF 1 <= c THEN c - 1 + 1 ELSE 0
          /\ \A i \in 1..(c - 1 + 1) : t[i] = s[1 + i - 1]
      BY <2>3, <3>1, SubSeqProperties
    <3> QED BY <3>1, <3>2
  <2> HIDE DEF t
  <2>5. t = [i \in 1..c |-> s[i]]
    <3>1. t = [i \in 1..Len(t) |-> t[i]]
      BY <2>4, LenProperties
    <3> QED BY <2>4, <3>1
  <2> QED BY <1>3, <2>1, <2>2, <2>5 DEF c, CutAt, Leading
<1> QED BY <1>2, <1>3

\* The cap cuts candidates, and what it leaves to be reported as Ok it has not touched.
LEMMA CapVouches ==
  ASSUME scenario \in Scenarios, results \in scenario.runs, events = Found, health = Reports, Cap
  PROVE  Vouched(events', health') /\ \E c \in Nat : AsFound(events', c)
<1> DEFINE n == Len(results)
           f == Len(Found)
           M == MaxGlobalCandidates
           srcs == [r \in 1..n |-> results[r].source]
           prefix == events'
<1>1. /\ f \in Nat /\ Found = [p \in 1..f |-> Found[p]]
      /\ \A p \in 1..f : \E source : IsCandidate(Found[p], source)
      /\ \A r \in 1..n : \A i \in 1..Len(Candidates[r]) :
           /\ Offset(Candidates, r) + i \in 1..f
           /\ Found[Offset(Candidates, r) + i] = Candidates[r][i]
  BY FoundTyped
<1>2. M \in Nat
  BY ResultAssumption
<1> DEFINE c == CutAt(f, M)
<1>3. c \in 0..f /\ prefix = [i \in 1..c |-> Found[i]]
  <2> HIDE DEF f, c
  <2>1. CutAt(f, M) \in 0..f /\ FirstOf(Found, M) = Leading(Found, CutAt(f, M))
    BY <1>1, <1>2, FirstOfPrefix
  <2> QED BY <2>1 DEF Cap, c, Leading
<1>4. c \in Nat /\ c <= f /\ (f <= M => c = f)
  BY <1>1, <1>2, <1>3 DEF AtMost, CutAt
<1> HIDE DEF c
<1>5. AsFound(prefix, c)
  <2>1. \A i \in 1..c : prefix[i] = Found[i] /\ i \in 1..f
    BY <1>1, <1>3, <1>4
  <2>2. \A i \in 1..c : \E source : IsCandidate(prefix[i], source)
    BY <1>1, <2>1
  <2>3. \A i \in 1..c : IsRecord(prefix[i]) /\ prefix[i].id \in Nat
    BY <2>2 DEF IsCandidate, IsRecord
  <2> QED BY <1>3, <1>4, <2>2, <2>3 DEF AsFound, IsCorpus
<1>6. /\ n \in Nat /\ Len(Candidates) = n /\ Candidates \in Seq(Seq(AllCandidates))
      /\ DOMAIN results = 1..n
      /\ \A r \in 1..n : \A i \in 1..Len(Candidates[r]) :
              /\ Candidates[r] = results[r].events
              /\ IsCandidate(Candidates[r][i], results[r].source)
      /\ \A r, t \in 1..n : results[r].source = results[t].source => r = t
  BY ResultsTyped
<1>7. ASSUME NEW r \in 1..n, NEW h \in DOMAIN health',
             health'[h].source = results[r].source, health'[h].status = "Ok",
             NEW i \in 1..Len(Candidates[r])
      PROVE  Offset(Candidates, r) + i <= c
  <2>1. CASE f <= M
    BY <1>1, <1>4, <2>1
  <2>2. CASE ~ (f <= M)
    <3>1. SUFFICES ASSUME ~ (Offset(Candidates, r) + i <= c) PROVE FALSE
      OBVIOUS
    <3> DEFINE old == health[h]
               left == Survivors(prefix, old.source)
    <3>2. /\ DOMAIN health' = DOMAIN health
          /\ health'[h] = [old EXCEPT !.events = left,
                                      !.status = IF old.events > left THEN "Partial" ELSE old.status]
      <4>1. f > M
        BY <1>1, <1>2, <2>2
      <4>2. health' = [k \in DOMAIN health |-> Recount(prefix, health[k])]
        BY <4>1 DEF Cap
      <4> QED BY <4>2 DEF Recount
    <3>3. h \in 1..n /\ old = [source |-> results[h].source, status |-> results[h].status,
                               events |-> Len(results[h].events)]
      BY <1>6, <3>2 DEF Reports
    <3> HIDE DEF old
    <3>4. health'[h].source = results[h].source
      BY <3>2, <3>3
    <3>5. h = r
      BY <1>6, <1>7, <3>3, <3>4
    <3>6. old.source = srcs[r] /\ old.events = Len(Candidates[r])
      BY <1>6, <1>7, <3>3, <3>5
    <3>7. left < old.events /\ left \in Nat /\ old.events \in Nat
      <4>1. \A t \in 1..n : \A j \in 1..Len(Candidates[t]) : Candidates[t][j].sources = <<srcs[t]>>
        BY <1>6 DEF IsCandidate
      <4>2. \A t, u \in 1..n : srcs[t] = srcs[u] => t = u
        BY <1>6
      <4> HIDE DEF srcs, n
      <4>3. Survivors(prefix, srcs[r]) \in Nat /\ Survivors(prefix, srcs[r]) < Len(Candidates[r])
        BY <1>3, <1>4, <1>6, <1>7, <3>1, <4>1, <4>2, FewerSurvive DEF Found
      <4>4. Len(Candidates[r]) \in Nat
        BY <1>6, <1>7
      <4> QED BY <3>6, <4>3, <4>4
    <3>8. old.events > left => health'[h].status = "Partial"
      BY <3>2, <3>3
    <3> QED BY <1>7, <3>7, <3>8
  <2> QED BY <2>1, <2>2
<1>8. Vouched(prefix, health')
  <2> SUFFICES ASSUME NEW r \in 1..n, NEW h \in DOMAIN health',
                      health'[h].source = results[r].source, health'[h].status = "Ok",
                      NEW i \in 1..Len(Candidates[r])
               PROVE  \E k \in DOMAIN prefix : prefix[k].id = Candidates[r][i].id
    BY DEF Vouched
  <2> DEFINE k == Offset(Candidates, r) + i
  <2>1. k \in 1..c
    BY <1>1, <1>4, <1>7
  <2>2. prefix[k] = Candidates[r][i] /\ k \in DOMAIN prefix
    BY <1>1, <1>3, <2>1
  <2> QED BY <2>2
<1> QED BY <1>4, <1>5, <1>8

-----------------------------------------------------------------------------
(* From the fetch to the store.                                           *)

\* The same of the clusters, by the names that the candidates have now.
VouchedAs(clusters, reports, names) ==
  \A r \in 1..Len(results) : \A h \in DOMAIN reports :
    reports[h].source = results[r].source /\ reports[h].status = "Ok" =>
      \A i \in 1..Len(Candidates[r]) : Accounted(Candidates[r][i].id, clusters, names)

\* What the phases between the fetch and the store hand on.
HandedOn ==
  /\ scenario \in Scenarios /\ results \in scenario.runs
  /\ pc = "cap" => events = Found /\ health = Reports
  /\ pc \in {"enrich", "merge"} => Vouched(events, health) /\ \E n \in Nat : IsCorpus(events, n)
  /\ pc = "enrich" => \E n \in Nat : AsFound(events, n)
  /\ pc \in {"persist", "store"} /\ ~ args.no_state => VouchedAs(events, health, aliases)

OkInv == HandedOn /\ OkMeansAllStored

\* A phase that stores nothing keeps what was stored.
LEMMA StoredStays ==
  ASSUME OkInv, UNCHANGED inputs, stored' \in {stored, NotStored}
  PROVE  OkMeansAllStored' /\ scenario' \in Scenarios /\ results' \in scenario'.runs /\ args' = args
<1>1. args' = args
  BY DEF args
<1> QED BY <1>1 DEF OkInv, HandedOn, OkMeansAllStored

\* Nothing that is about the scenario changes.
LEMMA ResultsStay ==
  ASSUME UNCHANGED inputs
  PROVE  args' = args /\ Candidates' = Candidates /\ Found' = Found /\ Reports' = Reports
<1>1. args' = args /\ Candidates' = Candidates /\ Reports' = Reports
  BY DEF args, Candidates, Reports
<1>2. Found' = Found
  BY <1>1 DEF Found
<1> QED BY <1>1, <1>2

\* Enrichment changes no id.
LEMMA EnrichHandsOn ==
  ASSUME OkInv, Enrich
  PROVE  Vouched(events', health') /\ \E n \in Nat : IsCorpus(events', n)
<1>1. /\ Vouched(events, health) /\ health' = health
      /\ events' = [e \in DOMAIN events |-> EnrichScholars(EnrichTopics(events[e]))]
  BY DEF OkInv, HandedOn, Enrich
<1>2. PICK n \in Nat : IsCorpus(events, n)
  BY DEF OkInv, HandedOn, Enrich
<1>3. DOMAIN events = 1..n
  BY <1>2, IndexedSeq DEF IsCorpus
<1>4. \A e \in 1..n : IsRecord(events'[e]) /\ events'[e].id = events[e].id
  <2> TAKE e \in 1..n
  <2> DEFINE old == events[e]
             new == EnrichScholars(EnrichTopics(old))
  <2>1. IsRecord(old)
    BY <1>2 DEF IsCorpus
  <2>2. IsRecord(new) /\ new.id = old.id
    <3> HIDE DEF old
    <3> QED BY <2>1, EnrichmentKeeps
  <2>3. events'[e] = new
    BY <1>1, <1>3
  <2> QED BY <2>2, <2>3
<1>5. DOMAIN events' = 1..n /\ events' = [e \in 1..n |-> events'[e]]
  BY <1>1, <1>3
<1>6. IsCorpus(events', n)
  BY <1>2, <1>4, <1>5 DEF IsCorpus
<1>7. Vouched(events', health')
  <2>1. \A r \in 1..Len(results) : \A h \in DOMAIN health :
          health[h].source = results[r].source /\ health[h].status = "Ok" =>
            \A i \in 1..Len(Candidates[r]) : \E k \in 1..n : events[k].id = Candidates[r][i].id
    BY <1>1, <1>3 DEF Vouched
  <2>2. \A r \in 1..Len(results) : \A h \in DOMAIN health :
          health[h].source = results[r].source /\ health[h].status = "Ok" =>
            \A i \in 1..Len(Candidates[r]) : \E k \in 1..n : events'[k].id = Candidates[r][i].id
    BY <1>4, <2>1
  <2> QED BY <1>1, <1>5, <2>2 DEF Vouched
<1> QED BY <1>6, <1>7

\* Merging loses nothing that is vouched for.
LEMMA MergeHandsOn ==
  ASSUME OkInv, Merge, ~ args.no_state
  PROVE  VouchedAs(events', health', aliases')
<1>1. /\ Vouched(events, health) /\ health' = health
      /\ events' = MergeDuplicates(events) /\ aliases' = AliasesOf(events, events')
  BY DEF OkInv, HandedOn, Merge
<1>2. PICK n \in Nat : IsCorpus(events, n)
  BY DEF OkInv, HandedOn, Merge
<1>3. DOMAIN events = 1..n
  BY <1>2, IndexedSeq DEF IsCorpus
<1>4. \A k \in 1..n : Accounted(events[k].id, events', aliases')
  BY <1>1, <1>2, AllAccounted
<1> QED BY <1>1, <1>3, <1>4 DEF Vouched, VouchedAs

\* So the store is told of everything that is reported as Ok.
LEMMA StoreTellsAll ==
  ASSUME OkInv, ~ args.no_state, StoreBundle
  PROVE  OkMeansAllStored'
<1>1. /\ VouchedAs(events, health, aliases) /\ results' = results
      /\ stored' = [ids |-> {events[e].id : e \in DOMAIN events}, health |-> ToSet(health),
                    aliases |-> aliases, previous |-> Previous]
  BY DEF OkInv, HandedOn, StoreBundle
<1>2. /\ stored'.ids = {events[e].id : e \in DOMAIN events} /\ stored'.health = ToSet(health)
      /\ stored'.aliases = aliases
  BY <1>1
<1>3. DOMAIN results = 1..Len(results)
  BY ResultsTyped DEF OkInv, HandedOn
<1>4. ASSUME NEW r \in DOMAIN results, NEW h \in ToSet(health),
             h.source = results[r].source, h.status = "Ok",
             NEW e \in ToSet(results[r].events)
      PROVE  Accounted(e.id, events, aliases)
  <2>1. PICK k \in DOMAIN health : h = health[k]
    BY DEF ToSet
  <2>2. PICK i \in DOMAIN Candidates[r] : e = Candidates[r][i]
    BY DEF ToSet, Candidates
  <2>3. i \in 1..Len(Candidates[r])
    <3>1. /\ Len(results) \in Nat /\ Len(Candidates) = Len(results)
          /\ Candidates \in Seq(Seq(AllCandidates))
      BY ResultsTyped DEF OkInv, HandedOn
    <3>2. Candidates[r] \in Seq(AllCandidates)
      BY <1>3, <3>1
    <3> QED BY <2>2, <3>2, LenProperties
  <2> QED BY <1>1, <1>3, <1>4, <2>1, <2>2, <2>3 DEF VouchedAs
<1> QED BY <1>1, <1>2, <1>4, Zenon DEF OkMeansAllStored, Accounted

\* Every step of the scan hands on what was found.
LEMMA NextKeepsOkInv ==
  ASSUME OkInv, ExitInv, [Next]_vars
  PROVE  OkInv'
<1>1. CASE Load \/ ClientFails \/ NothingFetched \/ SkipState \/ OpenFails \/ OpenFailsHalfway
           \/ StoreFails \/ Present \/ Render \/ RenderFails \/ Kill \/ PowerLoss
  <2>1. /\ UNCHANGED inputs /\ stored' \in {stored, NotStored}
        /\ pc' \notin {"cap", "enrich", "merge", "persist", "store"}
    BY <1>1 DEF Load, ClientFails, NothingFetched, SkipState, OpenFails, OpenFailsHalfway,
                StoreFails, Present, Render, RenderFails, Kill, PowerLoss, Exit, Running
  <2> QED BY <2>1, StoredStays DEF OkInv, HandedOn
<1>2. CASE FetchAll
  <2>1. UNCHANGED inputs /\ stored' = stored /\ pc' = "cap"
    BY <1>2 DEF FetchAll
  <2>2. events' = Found /\ health' = Reports
    BY <1>2 DEF FetchAll, Found, Reports, Candidates
  <2>3. Found' = Found /\ Reports' = Reports
    BY <2>1, ResultsStay
  <2> QED BY <2>1, <2>2, <2>3, StoredStays DEF OkInv, HandedOn
<1>3. CASE Cap
  <2>1. UNCHANGED inputs /\ stored' = stored /\ pc' = "enrich"
    BY <1>3 DEF Cap
  <2>2. events = Found /\ health = Reports /\ scenario \in Scenarios /\ results \in scenario.runs
    BY <1>3 DEF OkInv, HandedOn, Cap
  <2>3. Vouched(events', health') /\ \E c \in Nat : AsFound(events', c)
    BY <1>3, <2>2, CapVouches
  <2>4. Vouched(events, health)'
    BY <2>1, <2>3, ResultsStay DEF Vouched
  <2> QED BY <2>1, <2>3, <2>4, StoredStays DEF OkInv, HandedOn, AsFound
<1>4. CASE Enrich
  <2>1. UNCHANGED inputs /\ stored' = stored /\ pc' = "merge"
    BY <1>4 DEF Enrich
  <2>2. Vouched(events', health') /\ \E n \in Nat : IsCorpus(events', n)
    BY <1>4, EnrichHandsOn
  <2>3. Vouched(events, health)'
    BY <2>1, <2>2, ResultsStay DEF Vouched
  <2> QED BY <2>1, <2>2, <2>3, StoredStays DEF OkInv, HandedOn
<1>5. CASE Merge
  <2>1. UNCHANGED inputs /\ stored' = stored /\ pc' = "persist"
    BY <1>5 DEF Merge
  <2>2. ~ args.no_state => VouchedAs(events', health', aliases')
    BY <1>5, MergeHandsOn
  <2>3. ~ args'.no_state => VouchedAs(events, health, aliases)'
    BY <2>1, <2>2, ResultsStay DEF VouchedAs
  <2> QED BY <2>1, <2>3, StoredStays DEF OkInv, HandedOn
<1>6. CASE OpenState
  <2>1. /\ UNCHANGED inputs /\ stored' = stored /\ pc' = "store"
        /\ pc = "persist" /\ UNCHANGED <<events, health, aliases>>
    BY <1>6 DEF OpenState
  <2>2. VouchedAs(events, health, aliases)' = VouchedAs(events, health, aliases)
    BY <2>1, ResultsStay DEF VouchedAs
  <2> QED BY <2>1, <2>2, StoredStays DEF OkInv, HandedOn
<1>7. CASE StoreBundle
  <2>1. UNCHANGED inputs /\ pc' = "present" /\ ~ args.no_state
    BY <1>7 DEF StoreBundle, ExitInv, PhasesInOrder
  <2>2. OkMeansAllStored'
    BY <1>7, <2>1, StoreTellsAll
  <2> QED BY <2>1, <2>2 DEF OkInv, HandedOn
<1>8. CASE UNCHANGED scanVars
  <2>1. UNCHANGED <<scenario, results, pc, events, health, aliases, stored>>
    BY <1>8 DEF scanVars
  <2>2. args' = args /\ Candidates' = Candidates /\ Found' = Found /\ Reports' = Reports
    BY <2>1, ResultsStay
  <2>3. /\ Vouched(events, health)' = Vouched(events, health)
        /\ VouchedAs(events, health, aliases)' = VouchedAs(events, health, aliases)
    BY <2>1, <2>2 DEF Vouched, VouchedAs
  <2> QED BY <2>1, <2>2, <2>3, StoredStays DEF OkInv, HandedOn
<1>9. CASE ScanAgain
  BY <1>9 DEF ScanAgain, OkInv, HandedOn, OkMeansAllStored
<1> QED BY <1>1, <1>2, <1>3, <1>4, <1>5, <1>6, <1>7, <1>8, <1>9 DEF Next, ScanNext, vars

\* Whatever the sources found, the cap cut and the merge joined: what is stored as Ok
\* is stored with everything that its source found.
THEOREM OkIsAllStored == Spec => []OkMeansAllStored
<1>1. Init => OkInv
  BY DEF Init, OkInv, HandedOn, OkMeansAllStored
<1>2. Init => ExitInv
  BY DEF Init, ExitInv, PhasesInOrder, ExitTellsWhatHappened
<1> QED BY <1>1, <1>2, NextKeepsOkInv, NextKeepsExitInv, PTL DEF Spec, OkInv

-----------------------------------------------------------------------------
(* Topics: lists of mentions, and how they are merged.                    *)

\* A list of mentions, and one in which a topic occurs once.
IsMentions(list) ==
  list \in Seq(ToSet(list)) /\ \A m \in ToSet(list) : m.confidence \in {8, 10}
OncePerTopic(list) ==
  IsMentions(list) /\ \A i, j \in DOMAIN list : list[i].topic = list[j].topic => i = j

\* Whether a list has a topic, and whether by its name.
Has(list, id) == \E m \in ToSet(list) : m.topic = id
HasName(list, id) == \E m \in ToSet(list) : m.topic = id /\ m.confidence = 10

\* One more mention.
LEMMA MentionAdded ==
  ASSUME NEW list, OncePerTopic(list), NEW match, match.confidence \in {8, 10}
  PROVE  /\ OncePerTopic(MergeTopic(list, match))
         /\ \A id : /\ Has(MergeTopic(list, match), id) <=> Has(list, id) \/ match.topic = id
                    /\ HasName(MergeTopic(list, match), id) <=>
                         HasName(list, id) \/ (match.topic = id /\ match.confidence = 10)
<1> DEFINE n == Len(list)
           P == {i \in 1..n : list[i].topic = match.topic}
           same == SelectInSeq(list, LAMBDA t : t.topic = match.topic)
           next == MergeTopic(list, match)
<1>1. /\ n \in Nat /\ DOMAIN list = 1..n /\ list = [i \in 1..n |-> list[i]]
      /\ \A i \in 1..n : list[i].confidence \in {8, 10}
      /\ \A i, j \in 1..n : list[i].topic = list[j].topic => i = j
  <2>1. list \in Seq(ToSet(list)) /\ DOMAIN list = 1..n
    BY LenProperties DEF OncePerTopic, IsMentions
  <2>2. list \in [1..n -> ToSet(list)] /\ n \in Nat
    BY <2>1, LenProperties
  <2> QED BY <2>1, <2>2 DEF OncePerTopic, IsMentions, ToSet
<1>d. \A i \in 1..n : list[i] \in ToSet(list)
  BY <1>1 DEF ToSet
<1>2. /\ same = 0 => P = {}
      /\ same # 0 => same \in P
  <2>1. same = IF P # {} THEN Min(P) ELSE 0
    BY DEF SelectInSeq
  <2>2. P \in SUBSET (1..n)
    OBVIOUS
  <2> HIDE DEF P, same, n
  <2> QED BY <1>1, <2>1, <2>2, FirstPosition
<1>3. next = IF same = 0 THEN Append(list, match)
             ELSE IF match.confidence > list[same].confidence THEN [list EXCEPT ![same] = match]
             ELSE list
  BY Zenon DEF MergeTopic
<1> HIDE DEF n, same, next
<1>4. CASE same = 0
  <2>1. next = Append(list, match) /\ \A i \in 1..n : list[i].topic # match.topic
    BY <1>2, <1>3, <1>4
  <2>2. /\ next = [i \in 1..(n + 1) |-> next[i]] /\ next[n + 1] = match
        /\ \A i \in 1..n : next[i] = list[i]
    BY <1>1, <2>1, IndexedSeq
  <2>3. /\ n + 1 \in Nat /\ n + 1 \in 1..(n + 1)
        /\ \A i \in 1..(n + 1) : i \in 1..n \/ i = n + 1
        /\ \A i \in 1..n : i \in 1..(n + 1)
    BY <1>1
  <2>4. next \in Seq(ToSet(next)) /\ DOMAIN next = 1..(n + 1)
    <3> DEFINE k == n + 1
    <3> HIDE DEF k
    <3>1. k \in Nat /\ next = [i \in 1..k |-> next[i]]
      BY <2>2, <2>3 DEF k
    <3> QED BY <3>1, IndexedSeq DEF k
  <2>5. ToSet(next) = ToSet(list) \cup {match}
    <3>1. ASSUME NEW x \in ToSet(next) PROVE x \in ToSet(list) \cup {match}
      <4>1. PICK i \in 1..(n + 1) : x = next[i]
        BY <2>4 DEF ToSet
      <4>2. i \in 1..n => next[i] \in ToSet(list)
        BY <1>d, <2>2
      <4> QED BY <2>2, <2>3, <4>1, <4>2
    <3>2. ASSUME NEW x \in ToSet(list) PROVE x \in ToSet(next)
      <4>1. PICK i \in 1..n : x = list[i]
        BY <1>1 DEF ToSet
      <4>2. next[i] = x /\ i \in DOMAIN next
        BY <2>2, <2>3, <2>4, <4>1
      <4> QED BY <4>2 DEF ToSet
    <3>3. match \in ToSet(next)
      BY <2>2, <2>3, <2>4 DEF ToSet
    <3> QED BY <3>1, <3>2, <3>3
  <2>6. \A i, j \in 1..(n + 1) : next[i].topic = next[j].topic => i = j
    BY <1>1, <2>1, <2>2, <2>3
  <2>7. OncePerTopic(next)
    BY <2>4, <2>5, <2>6 DEF OncePerTopic, IsMentions
  <2> QED BY <2>5, <2>7 DEF Has, HasName, next
<1>5. CASE same # 0 /\ match.confidence > list[same].confidence
  <2>1. same \in 1..n /\ list[same].topic = match.topic
    BY <1>2, <1>5
  <2>2. next = [list EXCEPT ![same] = match]
    BY <1>3, <1>5
  <2>3. /\ next = [i \in 1..n |-> next[i]] /\ DOMAIN next = 1..n /\ next[same] = match
        /\ \A i \in 1..n : i # same => next[i] = list[i]
    BY <1>1, <2>1, <2>2
  <2>4. next \in Seq(ToSet(next))
    BY <1>1, <2>3, IndexedSeq
  <2>5. match.confidence = 10 /\ list[same].confidence = 8
    <3>1. list[same].confidence \in {8, 10}
      BY <1>1, <2>1
    <3> QED BY <1>5, <3>1
  <2>6. OncePerTopic(next)
    <3>1. \A i, j \in DOMAIN next : next[i].topic = next[j].topic => i = j
      BY <1>1, <2>1, <2>3
    <3>2. \A m \in ToSet(next) : m.confidence \in {8, 10}
      BY <1>1, <2>3 DEF ToSet
    <3> QED BY <2>4, <3>1, <3>2 DEF OncePerTopic, IsMentions
  <2>7. ASSUME NEW id
        PROVE  /\ Has(next, id) <=> Has(list, id) \/ match.topic = id
               /\ HasName(next, id) <=> HasName(list, id) \/ (match.topic = id /\ match.confidence = 10)
    BY <1>1, <2>1, <2>3, <2>5 DEF Has, HasName, ToSet
  <2> QED BY <2>6, <2>7 DEF next
<1>6. CASE same # 0 /\ ~ (match.confidence > list[same].confidence)
  <2>1. same \in 1..n /\ list[same].topic = match.topic
    BY <1>2, <1>6
  <2>2. next = list
    BY <1>3, <1>6
  <2>3. match.confidence = 10 => list[same].confidence = 10
    <3>1. list[same].confidence \in {8, 10}
      BY <1>1, <2>1
    <3> QED BY <1>6, <3>1
  <2>4. list[same] \in ToSet(list)
    BY <1>1, <2>1 DEF ToSet
  <2>5. \A id : /\ match.topic = id => Has(list, id)
                /\ match.topic = id /\ match.confidence = 10 => HasName(list, id)
    BY <2>1, <2>3, <2>4 DEF Has, HasName
  <2> QED BY <2>2, <2>5 DEF next
<1> QED BY <1>4, <1>5, <1>6

MergesAlong(acc, base, seq, n) ==
  /\ acc[0] = base /\ acc[n] = MergeTopics(base, seq)
  /\ \A k \in 1..n : acc[k] = MergeTopic(acc[k - 1], seq[k])

\* Mentions are merged from left to right.
LEMMA MentionSteps ==
  ASSUME NEW base, NEW seq, NEW n \in Nat, DOMAIN seq = 1..n
  PROVE  \E acc : MergesAlong(acc, base, seq, n)
<1> DEFINE Iter(f, m) ==
             f = [s \in SUBSET (1..m) |-> IF s = {} THEN base
                                          ELSE MergeTopic(f[s \ {Max(s)}], seq[Max(s)])]
           G == {m \in 0..n : \E f : Iter(f, m)}
<1>1. 0 \in G
  <2> DEFINE f == [s \in SUBSET (1..0) |-> base]
  <2>1. \A s \in SUBSET (1..0) : s = {}
    OBVIOUS
  <2>2. Iter(f, 0)
    BY <2>1, Zenon
  <2> HIDE DEF Iter, f
  <2> QED BY <2>2
<1>2. ASSUME NEW m \in 1..n, m - 1 \in G PROVE m \in G
  <2>0. m \in 0..n /\ m - 1 \in Nat /\ m \in Nat
    OBVIOUS
  <2>1. PICK f : Iter(f, m - 1)
    BY <1>2
  <2> DEFINE g == [s \in SUBSET (1..m) |-> IF m \in s THEN MergeTopic(f[s \ {m}], seq[m]) ELSE f[s]]
             old == SUBSET (1..(m - 1))
  <2>2. \A s \in SUBSET (1..m) : m \notin s => s \in old
    BY <2>0
  <2>3. ASSUME NEW s \in SUBSET (1..m)
        PROVE  g[s] = IF s = {} THEN base ELSE MergeTopic(g[s \ {Max(s)}], seq[Max(s)])
    <3>1. CASE s = {}
      <4>1. s \in old /\ m \notin s
        BY <3>1
      <4>2. f[s] = base
        BY <2>1, <3>1, <4>1
      <4> QED BY <3>1, <4>1, <4>2
    <3>2. CASE m \in s
      <4>1. Max(s) \in s /\ m <= Max(s) /\ Max(s) \in 1..m
        BY <2>0, <3>2, MaxIsGreatest
      <4>2. Max(s) = m
        BY <2>0, <4>1
      <4>3. g[s \ {m}] = f[s \ {m}]
        OBVIOUS
      <4> QED BY <3>2, <4>2, <4>3
    <3>3. CASE s # {} /\ m \notin s
      <4>1. s \in old
        BY <2>2, <3>3
      <4>2. f[s] = MergeTopic(f[s \ {Max(s)}], seq[Max(s)])
        BY <2>1, <3>3, <4>1
      <4>3. g[s \ {Max(s)}] = f[s \ {Max(s)}]
        BY <3>3
      <4> QED BY <3>3, <4>2, <4>3
    <3> QED BY <3>1, <3>2, <3>3
  <2>4. Iter(g, m)
    BY <2>3
  <2> HIDE DEF Iter, g
  <2> QED BY <2>0, <2>4
<1>3. n \in G
  <2>1. \A k \in 1..n : k - 1 \in G => k \in G
    BY <1>2
  <2>2. n \in 0..n
    OBVIOUS
  <2> HIDE DEF G
  <2> QED BY <1>1, <2>1, <2>2, InductTo
<1> DEFINE iter == CHOOSE f : Iter(f, n)
           acc == [k \in 0..n |-> iter[1..k]]
<1>4. Iter(iter, n)
  BY <1>3
<1>5. MergeTopics(base, seq) = iter[1..n]
  BY Zenon DEF MergeTopics, FoldLeft, MapThenFoldSet
<1> HIDE DEF iter
<1>6. acc[0] = base
  <2>1. 1..0 = {} /\ {} \in SUBSET (1..n)
    OBVIOUS
  <2> QED BY <1>4, <2>1
<1>7. ASSUME NEW k \in 1..n
      PROVE  acc[k] = MergeTopic(acc[k - 1], seq[k])
  <2>1. k \in 0..n /\ k - 1 \in 0..n
    OBVIOUS
  <2>2. 1..k \in SUBSET (1..n) /\ 1..k # {} /\ Max(1..k) = k /\ (1..k) \ {k} = 1..(k - 1)
    BY LastPosition
  <2>3. iter[1..k] = MergeTopic(iter[(1..k) \ {Max(1..k)}], seq[Max(1..k)])
    BY <1>4, <2>2
  <2> QED BY <2>1, <2>2, <2>3
<1>8. acc[n] = iter[1..n]
  OBVIOUS
<1> HIDE DEF acc
<1> QED BY <1>5, <1>6, <1>7, <1>8 DEF MergesAlong

\* A list that mentions are merged into has what either had, each topic once.
MergedFrom(list, a, b) ==
  /\ OncePerTopic(list)
  /\ \A id : /\ Has(list, id) <=> Has(a, id) \/ Has(b, id)
             /\ HasName(list, id) <=> HasName(a, id) \/ HasName(b, id)

\* MergeTopics makes such a list.
LEMMA MentionsMerged ==
  ASSUME NEW list, OncePerTopic(list), NEW more, IsMentions(more)
  PROVE  MergedFrom(MergeTopics(list, more), list, more)
<1> DEFINE n == Len(more)
<1>1. n \in Nat /\ DOMAIN more = 1..n /\ \A k \in 1..n : more[k].confidence \in {8, 10}
  <2>1. n \in Nat /\ DOMAIN more = 1..n
    BY LenProperties DEF IsMentions
  <2> QED BY <2>1 DEF IsMentions, ToSet
<1> HIDE DEF n
<1>2. PICK acc : /\ acc[0] = list /\ acc[n] = MergeTopics(list, more)
                 /\ \A k \in 1..n : acc[k] = MergeTopic(acc[k - 1], more[k])
  <2>1. PICK acc : MergesAlong(acc, list, more, n)
    BY <1>1, MentionSteps
  <2> QED BY <2>1 DEF MergesAlong
<1> DEFINE HasOf(k, id) == \E i \in 1..k : more[i].topic = id
           HasNameOf(k, id) == \E i \in 1..k : more[i].topic = id /\ more[i].confidence = 10
           Right(k) == /\ OncePerTopic(acc[k])
                       /\ \A id : /\ Has(acc[k], id) <=> Has(list, id) \/ HasOf(k, id)
                                  /\ HasName(acc[k], id) <=> HasName(list, id) \/ HasNameOf(k, id)
           G == {k \in 0..n : Right(k)}
<1>3. 0 \in G
  <2>1. 0 \in 0..n /\ 1..0 = {}
    BY <1>1
  <2> QED BY <1>2, <2>1
<1>4. ASSUME NEW k \in 1..n, k - 1 \in G PROVE k \in G
  <2>1. k \in 0..n /\ \A i : i \in 1..k <=> i \in 1..(k - 1) \/ i = k
    BY <1>1
  <2>2. Right(k - 1)
    BY <1>4
  <2> DEFINE before == acc[k - 1]
             match == more[k]
  <2>3. acc[k] = MergeTopic(before, match) /\ match.confidence \in {8, 10} /\ OncePerTopic(before)
    BY <1>1, <1>2, <2>2
  <2>4. \A id : /\ HasOf(k, id) <=> HasOf(k - 1, id) \/ match.topic = id
                /\ HasNameOf(k, id) <=>
                     HasNameOf(k - 1, id) \/ (match.topic = id /\ match.confidence = 10)
    BY <2>1
  <2>5. \A id : /\ Has(before, id) <=> Has(list, id) \/ HasOf(k - 1, id)
                /\ HasName(before, id) <=> HasName(list, id) \/ HasNameOf(k - 1, id)
    BY <2>2
  <2> HIDE DEF before, match, HasOf, HasNameOf
  <2>6. /\ OncePerTopic(acc[k])
        /\ \A id : /\ Has(acc[k], id) <=> Has(before, id) \/ match.topic = id
                   /\ HasName(acc[k], id) <=>
                        HasName(before, id) \/ (match.topic = id /\ match.confidence = 10)
    BY <2>3, MentionAdded
  <2>7. Right(k)
    BY <2>4, <2>5, <2>6
  <2> QED BY <2>1, <2>7
<1>5. n \in 0..n
  BY <1>1
<1>6. n \in G
  <2>1. \A k \in 1..n : k - 1 \in G => k \in G
    <3> HIDE DEF G
    <3> QED BY <1>4
  <2> HIDE DEF G
  <2> QED BY <1>1, <1>3, <1>5, <2>1, InductTo
<1>7. \A id : (HasOf(n, id) <=> Has(more, id)) /\ (HasNameOf(n, id) <=> HasName(more, id))
  BY <1>1 DEF Has, HasName, ToSet
<1> HIDE DEF HasOf, HasNameOf
<1> QED BY <1>2, <1>6, <1>7 DEF MergedFrom

\* Nothing mentions nothing.
LEMMA NoMentions ==
  /\ OncePerTopic(<<>>) /\ IsMentions(<<>>)
  /\ \A id : ~ Has(<<>>, id) /\ ~ HasName(<<>>, id)
<1>1. ToSet(<<>>) = {}
  BY DEF ToSet
<1>2. <<>> \in Seq({})
  OBVIOUS
<1> QED BY <1>1, <1>2 DEF OncePerTopic, IsMentions, Has, HasName

\* Some name of a topic is named.
NamesSome(text, topic) ==
  Named(text, topic.name) \/ \E a \in ToSet(topic.aliases) : Named(text, a)

\* The names of a topic.
LEMMA NamesOfTopic ==
  ASSUME NEW topic, topic.aliases \in Seq(ToSet(topic.aliases))
  PROVE  /\ Surfaces(topic) \in Seq(ToSet(Surfaces(topic)))
         /\ ToSet(Surfaces(topic)) = {topic.name} \cup ToSet(topic.aliases)
<1> DEFINE T == {topic.name} \cup ToSet(topic.aliases)
           a == topic.aliases
           head == <<topic.name>>
           s == Surfaces(topic)
<1>1. a \in Seq(T) /\ head \in Seq(T) /\ Len(head) = 1 /\ head[1] = topic.name
  <2>1. ToSet(a) \subseteq T /\ topic.name \in T
    OBVIOUS
  <2>2. a \in Seq(T)
    <3> HIDE DEF T
    <3> QED BY <2>1, SeqMonotonic
  <2> HIDE DEF T
  <2> QED BY <2>1, <2>2
<1>2. s = head \o a
  BY DEF Surfaces
<1>3. DOMAIN a = 1..Len(a) /\ Len(a) \in Nat
  BY LenProperties
<1> HIDE DEF T, a, head
<1>4. /\ s \in Seq(T) /\ Len(s) = 1 + Len(a)
      /\ \A i \in 1..(1 + Len(a)) : s[i] = IF i <= 1 THEN head[i] ELSE a[i - 1]
  <2> DEFINE c == head \o a
  <2>1. /\ c \in Seq(T) /\ Len(c) = Len(head) + Len(a)
        /\ \A i \in 1..(Len(head) + Len(a)) : c[i] = IF i <= Len(head) THEN head[i] ELSE a[i - Len(head)]
    BY <1>1, ConcatProperties
  <2> HIDE DEF c
  <2>2. s = c
    BY <1>2 DEF c
  <2> QED BY <1>1, <2>1, <2>2
<1> HIDE DEF s
<1>5. DOMAIN s = 1..(1 + Len(a))
  BY <1>4, LenProperties
<1>6. topic.name \in ToSet(s)
  <2>1. 1 \in 1..(1 + Len(a))
    BY <1>3
  <2>2. s[1] = topic.name
    BY <1>1, <1>4, <2>1
  <2> QED BY <1>5, <2>1, <2>2 DEF ToSet
<1>7. ASSUME NEW x \in ToSet(a) PROVE x \in ToSet(s)
  <2>1. PICK j \in 1..Len(a) : x = a[j]
    BY <1>3 DEF ToSet
  <2>2. /\ j + 1 \in 1..(1 + Len(a)) /\ ~ (j + 1 <= 1) /\ (j + 1) - 1 = j
    BY <1>3
  <2>3. s[j + 1] = x
    BY <1>4, <2>1, <2>2
  <2> QED BY <1>5, <2>2, <2>3 DEF ToSet
<1>8. ToSet(s) \subseteq T
  <2> SUFFICES ASSUME NEW i \in 1..(1 + Len(a)) PROVE s[i] \in T
    BY <1>5 DEF ToSet
  <2> QED BY <1>4, ElementOfSeq
<1>9. ToSet(s) = T
  BY <1>6, <1>7, <1>8 DEF T, a
<1> QED BY <1>4, <1>9 DEF s, T, a

\* The best match of a topic is one of it, by its name if that occurs.
LEMMA BestMatchRight ==
  ASSUME NEW text, NEW topic, topic.aliases \in Seq(ToSet(topic.aliases))
  PROVE  /\ IsMentions(BestMatch(text, topic))
         /\ \A id : /\ Has(BestMatch(text, topic), id) <=> topic.id = id /\ NamesSome(text, topic)
                    /\ HasName(BestMatch(text, topic), id) <=> topic.id = id /\ Named(text, topic.name)
<1> DEFINE s == Surfaces(topic)
           n == Len(s)
           P == {i \in 1..n : Named(text, s[i])}
           first == SelectInSeq(s, LAMBDA x : Named(text, x))
           best == BestMatch(text, topic)
           match == [topic |-> topic.id, matched |-> s[first],
                     confidence |-> IF Named(text, topic.name) THEN 10 ELSE 8]
<1>1. s \in Seq(ToSet(s)) /\ ToSet(s) = {topic.name} \cup ToSet(topic.aliases)
  BY NamesOfTopic
<1>2. n \in Nat /\ DOMAIN s = 1..n
  BY <1>1, LenProperties
<1>3. P # {} <=> NamesSome(text, topic)
  <2>1. P # {} <=> \E x \in ToSet(s) : Named(text, x)
    BY <1>2 DEF ToSet
  <2> QED BY <1>1, <2>1 DEF NamesSome
<1>4. /\ first = 0 => P = {}
      /\ first # 0 => first \in P
  <2>1. first = IF P # {} THEN Min(P) ELSE 0
    BY DEF SelectInSeq
  <2>2. P \in SUBSET (1..n)
    OBVIOUS
  <2> HIDE DEF P, first, n
  <2> QED BY <1>2, <2>1, <2>2, FirstPosition
<1>5. best = IF first = 0 THEN <<>> ELSE <<match>>
  BY Zenon DEF BestMatch
<1>6. match.topic = topic.id /\ match.confidence = IF Named(text, topic.name) THEN 10 ELSE 8
  OBVIOUS
<1>7. Named(text, topic.name) => NamesSome(text, topic)
  BY DEF NamesSome
<1> HIDE DEF best, match, P, n
<1>8. CASE first = 0
  <2>1. best = <<>> /\ ~ NamesSome(text, topic)
    BY <1>3, <1>4, <1>5, <1>8
  <2> QED BY <1>7, <2>1, NoMentions DEF best
<1>9. CASE first # 0
  <2>1. best = <<match>> /\ NamesSome(text, topic)
    BY <1>3, <1>4, <1>5, <1>9
  <2>2. ToSet(<<match>>) = {match} /\ <<match>> \in Seq({match})
    BY DEF ToSet
  <2>3. best \in Seq(ToSet(best)) /\ ToSet(best) = {match}
    BY <2>1, <2>2
  <2>4. \A m \in ToSet(best) : m.confidence \in {8, 10}
    BY <1>6, <2>3
  <2>5. IsMentions(best)
    BY <2>3, <2>4 DEF IsMentions
  <2>6. \A id : (Has(best, id) <=> match.topic = id)
                /\ (HasName(best, id) <=> match.topic = id /\ match.confidence = 10)
    BY <2>3 DEF Has, HasName
  <2> QED BY <1>6, <2>1, <2>5, <2>6 DEF best
<1> QED BY <1>8, <1>9

\* A topic is named in a text, and named by its own name.
NamedIn(text, id) == \E t \in ToSet(Topics) : t.id = id /\ NamesSome(text, t)
ByName(text, id) == \E t \in ToSet(Topics) : t.id = id /\ Named(text, t.name)

\* What merging several lists into none has.
LEMMA ListsMerged ==
  ASSUME NEW n, NEW seqs, AreLists(seqs, n), \A i \in 1..n : IsMentions(seqs[i])
  PROVE  LET all == MergeTopics(<<>>, FlattenSeq(seqs))
         IN  /\ OncePerTopic(all)
             /\ \A id : /\ Has(all, id) <=> \E i \in 1..n : Has(seqs[i], id)
                        /\ HasName(all, id) <=> \E i \in 1..n : HasName(seqs[i], id)
<1> DEFINE flat == FlattenSeq(seqs)
           all == MergeTopics(<<>>, flat)
<1>1. flat \in Seq(ToSet(flat)) /\ ToSet(flat) = UNION {ToSet(seqs[i]) : i \in 1..n}
  BY FlatElements
<1> HIDE DEF flat
<1>2. IsMentions(flat)
  BY <1>1 DEF IsMentions
<1>3. \A id : /\ Has(flat, id) <=> \E i \in 1..n : Has(seqs[i], id)
              /\ HasName(flat, id) <=> \E i \in 1..n : HasName(seqs[i], id)
  BY <1>1 DEF Has, HasName
<1> DEFINE none == <<>>
<1>4. OncePerTopic(none) /\ \A id : ~ Has(none, id) /\ ~ HasName(none, id)
  BY NoMentions
<1> HIDE DEF none
<1>5. MergedFrom(MergeTopics(none, flat), none, flat)
  BY <1>2, <1>4, MentionsMerged
<1>6. MergeTopics(none, flat) = all
  BY DEF none
<1> QED BY <1>3, <1>4, <1>5, <1>6 DEF MergedFrom, flat

\* match_topics finds the topics that are named.
LEMMA MatchesRight ==
  ASSUME NEW text
  PROVE  /\ OncePerTopic(MatchTopics(text))
         /\ \A id : /\ Has(MatchTopics(text), id) <=> NamedIn(text, id)
                    /\ HasName(MatchTopics(text), id) <=> ByName(text, id)
<1> DEFINE n == Len(Topics)
           seqs == [i \in DOMAIN Topics |-> BestMatch(text, Topics[i])]
           all == MergeTopics(<<>>, FlattenSeq(seqs))
<1>1. n \in Nat /\ DOMAIN Topics = 1..n
  BY LenProperties, RegistryAssumption
<1>2. \A i \in 1..n : Topics[i].aliases \in Seq(ToSet(Topics[i].aliases))
  BY <1>1, RegistryAssumption DEF ToSet
<1> HIDE DEF n
<1>3. ASSUME NEW i \in 1..n
      PROVE  /\ IsMentions(seqs[i])
             /\ \A id : /\ Has(seqs[i], id) <=> Topics[i].id = id /\ NamesSome(text, Topics[i])
                        /\ HasName(seqs[i], id) <=> Topics[i].id = id /\ Named(text, Topics[i].name)
  <2> DEFINE topic == Topics[i]
  <2>1. topic.aliases \in Seq(ToSet(topic.aliases))
    BY <1>2
  <2>2. seqs[i] = BestMatch(text, topic)
    BY <1>1
  <2> HIDE DEF topic
  <2> QED BY <2>1, <2>2, BestMatchRight DEF topic
<1>4. AreLists(seqs, n)
  BY <1>1, <1>3 DEF AreLists, IsMentions
<1>5. \A id : /\ NamedIn(text, id) <=> \E i \in 1..n : Topics[i].id = id /\ NamesSome(text, Topics[i])
              /\ ByName(text, id) <=> \E i \in 1..n : Topics[i].id = id /\ Named(text, Topics[i].name)
  BY <1>1 DEF NamedIn, ByName, ToSet
<1> HIDE DEF seqs
<1>6. /\ OncePerTopic(all)
      /\ \A id : /\ Has(all, id) <=> \E i \in 1..n : Has(seqs[i], id)
                 /\ HasName(all, id) <=> \E i \in 1..n : HasName(seqs[i], id)
  BY <1>3, <1>4, ListsMerged
<1>7. MatchTopics(text) = all
  BY Zenon DEF MatchTopics, seqs
<1> HIDE DEF all
<1>8. ASSUME NEW id
      PROVE  /\ Has(all, id) <=> NamedIn(text, id)
             /\ HasName(all, id) <=> ByName(text, id)
  <2>1. /\ Has(all, id) <=> \E i \in 1..n : Has(seqs[i], id)
        /\ HasName(all, id) <=> \E i \in 1..n : HasName(seqs[i], id)
    BY <1>6
  <2>2. \A i \in 1..n : /\ Has(seqs[i], id) <=> Topics[i].id = id /\ NamesSome(text, Topics[i])
                        /\ HasName(seqs[i], id) <=> Topics[i].id = id /\ Named(text, Topics[i].name)
    BY <1>3
  <2> QED BY <1>5, <2>1, <2>2
<1> QED BY <1>6, <1>7, <1>8

-----------------------------------------------------------------------------
(* What an event and its talks say.                                       *)

\* A list has the topics that some texts name, each once.
SaysOf(list, texts) ==
  /\ OncePerTopic(list)
  /\ \A id : /\ Has(list, id) <=> \E t \in texts : NamedIn(t, id)
             /\ HasName(list, id) <=> \E t \in texts : ByName(t, id)

\* The topics that match a text say what it names.
LEMMA SaysMatch ==
  ASSUME NEW text
  PROVE  SaysOf(MatchTopics(text), {text})
BY MatchesRight DEF SaysOf

\* No topics say what no text names.
LEMMA SaysNone == SaysOf(<<>>, {})
BY NoMentions DEF SaysOf

\* Merged, lists say what the texts of both name.
LEMMA SaysMerged ==
  ASSUME NEW a, NEW b, NEW X, NEW Y, SaysOf(a, X), SaysOf(b, Y)
  PROVE  SaysOf(MergeTopics(a, b), X \cup Y)
<1> DEFINE all == MergeTopics(a, b)
<1>1. MergedFrom(all, a, b)
  BY MentionsMerged DEF SaysOf, OncePerTopic
<1> HIDE DEF all
<1> QED BY <1>1 DEF SaysOf, MergedFrom, all

\* So do the lists of all talks, flattened and merged.
LEMMA SaysAll ==
  ASSUME NEW n \in Nat, NEW seqs, NEW texts, seqs = [i \in 1..n |-> seqs[i]],
         \A i \in 1..n : SaysOf(seqs[i], texts[i])
  PROVE  SaysOf(MergeTopics(<<>>, FlattenSeq(seqs)), UNION {texts[i] : i \in 1..n})
<1> DEFINE all == MergeTopics(<<>>, FlattenSeq(seqs))
<1>1. AreLists(seqs, n) /\ \A i \in 1..n : IsMentions(seqs[i])
  BY DEF AreLists, SaysOf, OncePerTopic, IsMentions
<1>2. /\ OncePerTopic(all)
      /\ \A id : /\ Has(all, id) <=> \E i \in 1..n : Has(seqs[i], id)
                 /\ HasName(all, id) <=> \E i \in 1..n : HasName(seqs[i], id)
  BY <1>1, ListsMerged
<1> HIDE DEF all
<1>3. ASSUME NEW id
      PROVE  /\ Has(all, id) <=> \E t \in UNION {texts[i] : i \in 1..n} : NamedIn(t, id)
             /\ HasName(all, id) <=> \E t \in UNION {texts[i] : i \in 1..n} : ByName(t, id)
  <2>1. \A i \in 1..n : /\ Has(seqs[i], id) <=> \E t \in texts[i] : NamedIn(t, id)
                        /\ HasName(seqs[i], id) <=> \E t \in texts[i] : ByName(t, id)
    BY DEF SaysOf
  <2> QED BY <1>2, <2>1
<1> QED BY <1>2, <1>3 DEF SaysOf, all

\* A talk that comes without topics gets those of its title and abstract.
LEMMA TalkSays ==
  ASSUME NEW talk, talk.topics = <<>>
  PROVE  SaysOf(TalkTopics(talk), {talk.title, talk.abstract})
<1> DEFINE t == talk.title
           a == talk.abstract
           both == MergeTopics(MatchTopics(t), MatchTopics(a))
           none == <<>>
           empty == {}
<1> HIDE DEF t, a
<1>1. SaysOf(both, {t} \cup {a})
  BY SaysMatch, SaysMerged
<1>2. SaysOf(none, empty)
  BY SaysNone
<1>3. TalkTopics(talk) = MergeTopics(none, both)
  BY Zenon DEF TalkTopics, t, a
<1> HIDE DEF both, none, empty
<1>4. SaysOf(MergeTopics(none, both), empty \cup ({t} \cup {a}))
  BY <1>1, <1>2, SaysMerged
<1>5. empty \cup ({t} \cup {a}) = {t, a}
  BY DEF empty
<1> QED BY <1>3, <1>4, <1>5 DEF t, a

\* What scholars are added to keeps its topics and its texts.
LEMMA ScholarsKeepTopics ==
  ASSUME NEW e, IsRecord(e), \A i \in DOMAIN e.talks : e.talks[i] = [f \in TalkFields |-> e.talks[i][f]]
  PROVE  EnrichScholars(e).topics = e.topics /\ TextsOf(EnrichScholars(e)) = TextsOf(e)
<1> DEFINE x == EnrichScholars(e)
<1>1. CASE Scholars = <<>>
  <2>1. x = e
    BY <1>1, Zenon DEF EnrichScholars
  <2> QED BY <2>1
<1>2. CASE Scholars # <<>>
  <2> DEFINE talks == [i \in DOMAIN e.talks |->
                         [e.talks[i] EXCEPT !.speakers = EnrichPeople(e.talks[i].speakers)]]
  <2>1. PICK c : x = [e EXCEPT !.talks = talks, !.people = c]
    BY <1>2, Zenon DEF EnrichScholars
  <2>2. ASSUME NEW i \in DOMAIN e.talks
        PROVE  talks[i].title = e.talks[i].title /\ talks[i].abstract = e.talks[i].abstract
    <3> DEFINE t == e.talks[i]
               p == EnrichPeople(t.speakers)
               new == [t EXCEPT !.speakers = p]
    <3>1. t = [f \in TalkFields |-> t[f]] /\ talks[i] = new
      OBVIOUS
    <3> HIDE DEF t, p, talks
    <3>2. new.title = t.title /\ new.abstract = t.abstract
      BY <3>1 DEF TalkFields
    <3> QED BY <3>1, <3>2 DEF t
  <2>3. DOMAIN talks = DOMAIN e.talks
    OBVIOUS
  <2> HIDE DEF x, talks
  <2>4. /\ x.talks = talks /\ x.topics = e.topics /\ x.title = e.title
        /\ x.description = e.description
    BY <2>1 DEF IsRecord, EventFields
  <2>5. UNION {{x.talks[i].title, x.talks[i].abstract} : i \in DOMAIN x.talks}
          = UNION {{e.talks[i].title, e.talks[i].abstract} : i \in DOMAIN e.talks}
    BY <2>2, <2>3, <2>4
  <2> QED BY <2>4, <2>5 DEF TextsOf, x
<1> QED BY <1>1, <1>2

\* A candidate gets the topics that its texts and those of its talks name.
LEMMA EventSays ==
  ASSUME Topics # <<>>, NEW e, NEW source, IsCandidate(e, source)
  PROVE  SaysOf(EnrichTopics(e).topics, TextsOf(e)) /\ TextsOf(EnrichTopics(e)) = TextsOf(e)
         /\ \A i \in DOMAIN EnrichTopics(e).talks :
              EnrichTopics(e).talks[i] = [f \in TalkFields |-> EnrichTopics(e).talks[i][f]]
<1> DEFINE x == EnrichTopics(e)
           n == Len(e.talks)
           talks == [i \in DOMAIN e.talks |-> [e.talks[i] EXCEPT !.topics = TalkTopics(e.talks[i])]]
           title == e.title
           text == e.description
           own == MergeTopics(MatchTopics(title), MatchTopics(text))
           lists == [i \in DOMAIN talks |-> talks[i].topics]
           said == [i \in 1..n |-> {e.talks[i].title, e.talks[i].abstract}]
           rollup == MergeTopics(<<>>, FlattenSeq(lists))
           none == <<>>
           empty == {}
<1>1. /\ IsRecord(e) /\ e.topics = <<>> /\ e.talks \in Seq(ToSet(e.talks))
      /\ \A t \in ToSet(e.talks) : t = [f \in TalkFields |-> t[f]] /\ t.topics = <<>>
  BY DEF IsCandidate, IsRecord
<1>2. n \in Nat /\ DOMAIN e.talks = 1..n
  BY <1>1, LenProperties
<1>3. \A i \in 1..n : e.talks[i] = [f \in TalkFields |-> e.talks[i][f]] /\ e.talks[i].topics = <<>>
  BY <1>1, <1>2 DEF ToSet
<1>4. x = [e EXCEPT !.talks = talks, !.topics = MergeTopics(MergeTopics(e.topics, own), rollup)]
  BY Zenon DEF EnrichTopics
<1>5. MergeTopics(e.topics, own) = MergeTopics(none, own)
  BY <1>1
<1> HIDE DEF x, n, own, none, empty
<1>6. ASSUME NEW i \in 1..n
      PROVE  /\ talks[i].topics = TalkTopics(e.talks[i]) /\ talks[i] = [f \in TalkFields |-> talks[i][f]]
             /\ talks[i].title = e.talks[i].title /\ talks[i].abstract = e.talks[i].abstract
  <2> DEFINE t == e.talks[i]
             o == TalkTopics(t)
             new == [t EXCEPT !.topics = o]
  <2>1. t = [f \in TalkFields |-> t[f]] /\ talks[i] = new
    BY <1>2, <1>3
  <2> HIDE DEF t, o, talks
  <2>2. /\ new.title = t.title /\ new.abstract = t.abstract /\ new.topics = o
        /\ new = [f \in TalkFields |-> new[f]]
    BY <2>1 DEF TalkFields
  <2> QED BY <2>1, <2>2 DEF t, o
<1>7. DOMAIN talks = 1..n
  BY <1>2
<1> HIDE DEF talks
<1>8. \A i \in 1..n : SaysOf(lists[i], said[i])
  <2> TAKE i \in 1..n
  <2> DEFINE t == e.talks[i]
  <2>1. t.topics = <<>>
    BY <1>3
  <2>2. SaysOf(TalkTopics(t), {t.title, t.abstract})
    <3> HIDE DEF t
    <3> QED BY <2>1, TalkSays
  <2>3. lists[i] = TalkTopics(t) /\ said[i] = {t.title, t.abstract}
    BY <1>6, <1>7
  <2> QED BY <2>2, <2>3
<1>9. lists = [i \in 1..n |-> lists[i]]
  BY <1>7
<1> HIDE DEF lists, said
<1>10. SaysOf(rollup, UNION {said[i] : i \in 1..n})
  BY <1>2, <1>8, <1>9, SaysAll
<1> HIDE DEF rollup, title, text
<1>11. SaysOf(own, {title} \cup {text})
  BY SaysMatch, SaysMerged DEF own
<1>12. SaysOf(none, empty)
  BY SaysNone DEF none, empty
<1>13. SaysOf(MergeTopics(none, own), empty \cup ({title} \cup {text}))
  BY <1>11, <1>12, SaysMerged
<1> DEFINE mine == MergeTopics(none, own)
           parts == UNION {said[i] : i \in 1..n}
<1>14. SaysOf(MergeTopics(mine, rollup), (empty \cup ({title} \cup {text})) \cup parts)
  <2> HIDE DEF mine, parts
  <2> QED BY <1>10, <1>13, SaysMerged DEF mine, parts
<1>15. (empty \cup ({title} \cup {text})) \cup parts = TextsOf(e)
  <2>1. parts = UNION {{e.talks[i].title, e.talks[i].abstract} : i \in 1..n}
    BY DEF said
  <2> HIDE DEF parts
  <2> QED BY <1>2, <2>1 DEF TextsOf, title, text, empty
<1>16. x = [e EXCEPT !.talks = talks, !.topics = MergeTopics(mine, rollup)]
  BY <1>4, <1>5
<1> HIDE DEF mine, parts
<1> DEFINE o == MergeTopics(mine, rollup)
<1>17. x.talks = talks /\ x.topics = o /\ x.title = e.title /\ x.description = e.description
  <2> HIDE DEF o
  <2> QED BY <1>1, <1>16 DEF IsRecord, EventFields, o
<1>18. SaysOf(x.topics, TextsOf(e))
  BY <1>14, <1>15, <1>17
<1>19. TextsOf(x) = TextsOf(e)
  <2>1. UNION {{x.talks[i].title, x.talks[i].abstract} : i \in DOMAIN x.talks}
          = UNION {{e.talks[i].title, e.talks[i].abstract} : i \in DOMAIN e.talks}
    BY <1>2, <1>6, <1>7, <1>17
  <2> QED BY <1>17, <2>1 DEF TextsOf
<1>20. \A i \in DOMAIN x.talks : x.talks[i] = [f \in TalkFields |-> x.talks[i][f]]
  BY <1>6, <1>7, <1>17
<1> QED BY <1>18, <1>19, <1>20 DEF x

\* A list that says of the texts what they name credits each topic as it should.
LEMMA CreditsRight ==
  ASSUME NEW e, NEW id, SaysOf(e.topics, TextsOf(e))
  PROVE  LET entries == {t \in ToSet(Topics) : t.id = id}
             credits == {i \in DOMAIN e.topics : e.topics[i].topic = id}
             byName  == \E text \in TextsOf(e), t \in entries : Named(text, t.name)
             byAlias == \E text \in TextsOf(e), t \in entries :
                          \E a \in ToSet(t.aliases) : Named(text, a)
         IN  /\ Cardinality(credits) = (IF byName \/ byAlias THEN 1 ELSE 0)
             /\ \A i \in credits : e.topics[i].confidence = (IF byName THEN 10 ELSE 8)
<1> DEFINE list == e.topics
           texts == TextsOf(e)
           entries == {t \in ToSet(Topics) : t.id = id}
           credits == {i \in DOMAIN list : list[i].topic = id}
           byName  == \E text \in texts, t \in entries : Named(text, t.name)
           byAlias == \E text \in texts, t \in entries : \E a \in ToSet(t.aliases) : Named(text, a)
<1>1. /\ \A i, j \in DOMAIN list : list[i].topic = list[j].topic => i = j
      /\ \A i \in DOMAIN list : list[i].confidence \in {8, 10}
  BY DEF SaysOf, OncePerTopic, IsMentions, ToSet
<1>2. /\ Has(list, id) <=> byName \/ byAlias
      /\ HasName(list, id) <=> byName
  BY DEF SaysOf, NamedIn, NamesSome, ByName
<1>3. /\ Has(list, id) <=> credits # {}
      /\ HasName(list, id) <=> \E i \in credits : list[i].confidence = 10
  BY DEF Has, HasName, ToSet
<1> HIDE DEF list, texts, byName, byAlias
<1>4. CASE credits = {}
  <2>1. Cardinality(credits) = 0
    BY <1>4, FS_EmptySet
  <2> QED BY <1>2, <1>3, <1>4, <2>1 DEF list, byName, byAlias, texts
<1>5. CASE credits # {}
  <2>1. PICK i : credits = {i}
    BY <1>1, <1>5
  <2>2. Cardinality(credits) = 1
    <3> HIDE DEF credits
    <3> QED BY <2>1, FS_Singleton
  <2>3. \A k \in credits : list[k].confidence = IF byName THEN 10 ELSE 8
    BY <1>1, <1>2, <1>3, <2>1
  <2> QED BY <1>2, <1>3, <1>5, <2>2, <2>3 DEF list, byName, byAlias, texts
<1> QED BY <1>4, <1>5

\* The phase that credits topics credits them so.
LEMMA EnrichCredits ==
  ASSUME OkInv, Enrich
  PROVE  CreditedOnce'
<1>1. events' = [e \in DOMAIN events |-> EnrichScholars(EnrichTopics(events[e]))]
  BY DEF Enrich
<1>2. PICK n \in Nat : AsFound(events, n)
  BY DEF OkInv, HandedOn, Enrich
<1>3. DOMAIN events = 1..n
  BY <1>2, IndexedSeq DEF AsFound, IsCorpus
<1>4. ASSUME NEW i \in 1..n, Topics # <<>>
      PROVE  SaysOf(events'[i].topics, TextsOf(events'[i]))
  <2> DEFINE e == events[i]
             t == EnrichTopics(e)
             x == EnrichScholars(t)
  <2>1. PICK source : IsCandidate(e, source)
    BY <1>2 DEF AsFound
  <2>2. IsRecord(e)
    BY <2>1 DEF IsCandidate, IsRecord
  <2> HIDE DEF e
  <2>3. IsRecord(t)
    <3>1. CASE Topics = <<>>
      BY <1>4, <3>1
    <3>2. PICK b, c : t = [e EXCEPT !.talks = b, !.topics = c]
      BY <1>4, Zenon DEF EnrichTopics
    <3> HIDE DEF t
    <3> QED BY <2>2, <3>2 DEF IsRecord, EventFields
  <2>4. /\ SaysOf(t.topics, TextsOf(e)) /\ TextsOf(t) = TextsOf(e)
        /\ \A k \in DOMAIN t.talks : t.talks[k] = [f \in TalkFields |-> t.talks[k][f]]
    BY <1>4, <2>1, EventSays
  <2> HIDE DEF t
  <2>5. x.topics = t.topics /\ TextsOf(x) = TextsOf(t)
    BY <2>3, <2>4, ScholarsKeepTopics
  <2>6. events'[i] = x
    BY <1>1, <1>3 DEF t, e
  <2> QED BY <2>4, <2>5, <2>6
<1>5. DOMAIN events' = 1..n
  BY <1>1, <1>3
<1>6. ASSUME NEW e \in ToSet(events'), NEW id \in {t.id : t \in ToSet(Topics)}
      PROVE  SaysOf(e.topics, TextsOf(e))
  <2>1. PICK i \in 1..n : e = events'[i]
    BY <1>5 DEF ToSet
  <2>2. Topics # <<>>
    <3>1. Topics = <<>> => ToSet(Topics) = {}
      BY DEF ToSet
    <3> QED BY <1>6, <3>1
  <2> QED BY <1>4, <2>1, <2>2
<1>7. ASSUME NEW e \in ToSet(events'), NEW id \in {t.id : t \in ToSet(Topics)}
      PROVE  LET entries == {t \in ToSet(Topics) : t.id = id}
                 credits == {i \in DOMAIN e.topics : e.topics[i].topic = id}
                 byName  == \E text \in TextsOf(e), t \in entries : Named(text, t.name)
                 byAlias == \E text \in TextsOf(e), t \in entries :
                              \E a \in ToSet(t.aliases) : Named(text, a)
             IN  /\ Cardinality(credits) = (IF byName \/ byAlias THEN 1 ELSE 0)
                 /\ \A i \in credits : e.topics[i].confidence = (IF byName THEN 10 ELSE 8)
  <2>1. SaysOf(e.topics, TextsOf(e))
    BY <1>6, <1>7
  <2> QED BY <2>1, <1>7, CreditsRight
<1> QED BY <1>7, Zenon DEF CreditedOnce

\* In the other phases there is nothing to credit.
LEMMA NextKeepsCredit ==
  ASSUME OkInv, CreditedOnce, [Next]_vars
  PROVE  CreditedOnce'
<1>1. CASE Enrich
  BY <1>1, EnrichCredits
<1>2. CASE UNCHANGED scanVars
  BY <1>2 DEF scanVars, CreditedOnce
<1>3. CASE Next /\ ~ Enrich /\ ~ UNCHANGED scanVars
  <2>1. pc' # "merge"
    BY <1>3 DEF Next, ScanNext, Load, ClientFails, FetchAll, NothingFetched, Cap, Merge, SkipState,
                OpenState, OpenFails, OpenFailsHalfway, StoreBundle, StoreFails, Present, Render,
                RenderFails, Kill, PowerLoss, ScanAgain, Exit, Running
  <2> QED BY <2>1 DEF CreditedOnce
<1> QED BY <1>1, <1>2, <1>3 DEF vars

\* Whatever the registry and the texts: each topic is credited once, at its best.
THEOREM TopicsAreCreditedOnce == Spec => []CreditedOnce
<1>1. Init => OkInv
  BY DEF Init, OkInv, HandedOn, OkMeansAllStored
<1>2. Init => ExitInv
  BY DEF Init, ExitInv, PhasesInOrder, ExitTellsWhatHappened
<1>3. Init => CreditedOnce
  BY DEF Init, CreditedOnce
<1> QED BY <1>1, <1>2, <1>3, NextKeepsOkInv, NextKeepsExitInv, NextKeepsCredit, PTL DEF Spec

-----------------------------------------------------------------------------
(* Talks and topics of merged events remain sequences.                    *)

\* What is appended to a sequence.
LEMMA WithAppended ==
  ASSUME NEW s, IsList(s), NEW x
  PROVE  IsList(Append(s, x)) /\ ToSet(Append(s, x)) = ToSet(s) \cup {x}
<1> DEFINE n == Len(s)
           t == Append(s, x)
<1>1. n \in Nat /\ DOMAIN s = 1..n /\ s = [i \in 1..n |-> s[i]] /\ IsList(t)
  BY ListFacts
<1> HIDE DEF n
<1>2. t = [i \in 1..(n + 1) |-> t[i]] /\ t[n + 1] = x /\ \A i \in 1..n : t[i] = s[i]
  BY <1>1, IndexedSeq
<1> HIDE DEF t
<1>3. DOMAIN t = 1..(n + 1) /\ n + 1 \in 1..(n + 1) /\ 1..(n + 1) = (1..n) \cup {n + 1}
  BY <1>1, <1>2
<1>4. ToSet(t) = ToSet(s) \cup {x}
  <2>1. ToSet(t) = {t[i] : i \in 1..(n + 1)} /\ ToSet(s) = {s[i] : i \in 1..n}
    BY <1>1, <1>3 DEF ToSet
  <2>2. {t[i] : i \in 1..(n + 1)} = {t[i] : i \in 1..n} \cup {t[n + 1]}
    BY <1>3
  <2>3. {t[i] : i \in 1..n} = {s[i] : i \in 1..n}
    BY <1>2
  <2> QED BY <1>2, <2>1, <2>2, <2>3
<1> QED BY <1>1, <1>4 DEF t

\* One step of UnionTopics.
AddTopic(all, x) ==
  IF \E i \in DOMAIN all : all[i].topic = x.topic THEN all ELSE Append(all, x)

AddsAlong(acc, base, seq, n) ==
  /\ acc[0] = base /\ acc[n] = FoldLeft(AddTalk, base, seq)
  /\ \A k \in 1..n : acc[k] = AddTalk(acc[k - 1], seq[k])

\* Talks are added from left to right.
LEMMA TalkSteps ==
  ASSUME NEW base, NEW seq, NEW n \in Nat, DOMAIN seq = 1..n
  PROVE  \E acc : AddsAlong(acc, base, seq, n)
<1> DEFINE Iter(f, m) ==
             f = [s \in SUBSET (1..m) |-> IF s = {} THEN base
                                          ELSE AddTalk(f[s \ {Max(s)}], seq[Max(s)])]
           G == {m \in 0..n : \E f : Iter(f, m)}
<1>1. 0 \in G
  <2> DEFINE f == [s \in SUBSET (1..0) |-> base]
  <2>1. \A s \in SUBSET (1..0) : s = {}
    OBVIOUS
  <2>2. Iter(f, 0)
    BY <2>1, Zenon
  <2> HIDE DEF Iter, f
  <2> QED BY <2>2
<1>2. ASSUME NEW m \in 1..n, m - 1 \in G PROVE m \in G
  <2>0. m \in 0..n /\ m - 1 \in Nat /\ m \in Nat
    OBVIOUS
  <2>1. PICK f : Iter(f, m - 1)
    BY <1>2
  <2> DEFINE g == [s \in SUBSET (1..m) |-> IF m \in s THEN AddTalk(f[s \ {m}], seq[m]) ELSE f[s]]
             old == SUBSET (1..(m - 1))
  <2>2. \A s \in SUBSET (1..m) : m \notin s => s \in old
    BY <2>0
  <2>3. ASSUME NEW s \in SUBSET (1..m)
        PROVE  g[s] = IF s = {} THEN base ELSE AddTalk(g[s \ {Max(s)}], seq[Max(s)])
    <3>1. CASE s = {}
      <4>1. s \in old /\ m \notin s
        BY <3>1
      <4>2. f[s] = base
        BY <2>1, <3>1, <4>1
      <4> QED BY <3>1, <4>1, <4>2
    <3>2. CASE m \in s
      <4>1. Max(s) \in s /\ m <= Max(s) /\ Max(s) \in 1..m
        BY <2>0, <3>2, MaxIsGreatest
      <4>2. Max(s) = m
        BY <2>0, <4>1
      <4>3. g[s \ {m}] = f[s \ {m}]
        OBVIOUS
      <4> QED BY <3>2, <4>2, <4>3
    <3>3. CASE s # {} /\ m \notin s
      <4>1. s \in old
        BY <2>2, <3>3
      <4>2. f[s] = AddTalk(f[s \ {Max(s)}], seq[Max(s)])
        BY <2>1, <3>3, <4>1
      <4>3. g[s \ {Max(s)}] = f[s \ {Max(s)}]
        BY <3>3
      <4> QED BY <3>3, <4>2, <4>3
    <3> QED BY <3>1, <3>2, <3>3
  <2>4. Iter(g, m)
    BY <2>3
  <2> HIDE DEF Iter, g
  <2> QED BY <2>0, <2>4
<1>3. n \in G
  <2>1. \A k \in 1..n : k - 1 \in G => k \in G
    BY <1>2
  <2>2. n \in 0..n
    OBVIOUS
  <2> HIDE DEF G
  <2> QED BY <1>1, <2>1, <2>2, InductTo
<1> DEFINE iter == CHOOSE f : Iter(f, n)
           acc == [k \in 0..n |-> iter[1..k]]
<1>4. Iter(iter, n)
  BY <1>3
<1>5. FoldLeft(AddTalk, base, seq) = iter[1..n]
  BY Zenon DEF FoldLeft, MapThenFoldSet
<1> HIDE DEF iter
<1>6. acc[0] = base
  <2>1. 1..0 = {} /\ {} \in SUBSET (1..n)
    OBVIOUS
  <2> QED BY <1>4, <2>1
<1>7. ASSUME NEW k \in 1..n
      PROVE  acc[k] = AddTalk(acc[k - 1], seq[k])
  <2>1. k \in 0..n /\ k - 1 \in 0..n
    OBVIOUS
  <2>2. 1..k \in SUBSET (1..n) /\ 1..k # {} /\ Max(1..k) = k /\ (1..k) \ {k} = 1..(k - 1)
    BY LastPosition
  <2>3. iter[1..k] = AddTalk(iter[(1..k) \ {Max(1..k)}], seq[Max(1..k)])
    BY <1>4, <2>2
  <2> QED BY <2>1, <2>2, <2>3
<1>8. acc[n] = iter[1..n]
  OBVIOUS
<1> HIDE DEF acc
<1> QED BY <1>5, <1>6, <1>7, <1>8 DEF AddsAlong

\* Talks that are merged with others remain a sequence.
LEMMA TalksStayLists ==
  ASSUME NEW base, IsList(base), NEW seq, IsList(seq)
  PROVE  IsList(FoldLeft(AddTalk, base, seq))
<1> DEFINE n == Len(seq)
<1>1. n \in Nat /\ DOMAIN seq = 1..n
  BY ListFacts
<1> HIDE DEF n
<1>2. PICK acc : AddsAlong(acc, base, seq, n)
  BY <1>1, TalkSteps
<1> DEFINE G == {k \in 0..n : IsList(acc[k])}
<1>3. 0 \in G /\ n \in 0..n
  BY <1>1, <1>2 DEF AddsAlong
<1>4. ASSUME NEW k \in 1..n, k - 1 \in G PROVE k \in G
  <2> DEFINE before == acc[k - 1]
             x == seq[k]
  <2>1. IsList(before) /\ acc[k] = AddTalk(before, x) /\ k \in 0..n
    BY <1>1, <1>2, <1>4 DEF AddsAlong
  <2> HIDE DEF before, x
  <2>2. IsList(AddTalk(before, x))
    <3> DEFINE same == SelectInSeq(before, LAMBDA t : t.id = x.id)
    <3>1. AddTalk(before, x) = IF same = 0 THEN Append(before, x)
                               ELSE [before EXCEPT ![same] = MergeTalk(before[same], x)]
      BY Zenon DEF AddTalk
    <3> DEFINE merged == MergeTalk(before[same], x)
    <3> HIDE DEF same, merged
    <3>2. IsList(Append(before, x)) /\ IsList([before EXCEPT ![same] = merged])
      BY <2>1, ListFacts
    <3> QED BY <3>1, <3>2 DEF merged
  <2> QED BY <2>1, <2>2
<1>5. n \in G
  <2> HIDE DEF G
  <2> QED BY <1>1, <1>3, <1>4, InductTo
<1> QED BY <1>2, <1>5 DEF AddsAlong

GainsAlong(acc, base, seq, n) ==
  /\ acc[0] = base /\ acc[n] = UnionTopics(base, seq)
  /\ \A k \in 1..n : acc[k] = AddTopic(acc[k - 1], seq[k])

\* Topics are united from left to right.
LEMMA TopicSteps ==
  ASSUME NEW base, NEW seq, NEW n \in Nat, DOMAIN seq = 1..n
  PROVE  \E acc : GainsAlong(acc, base, seq, n)
<1> DEFINE Iter(f, m) ==
             f = [s \in SUBSET (1..m) |-> IF s = {} THEN base
                                          ELSE AddTopic(f[s \ {Max(s)}], seq[Max(s)])]
           G == {m \in 0..n : \E f : Iter(f, m)}
<1>1. 0 \in G
  <2> DEFINE f == [s \in SUBSET (1..0) |-> base]
  <2>1. \A s \in SUBSET (1..0) : s = {}
    OBVIOUS
  <2>2. Iter(f, 0)
    BY <2>1, Zenon
  <2> HIDE DEF Iter, f
  <2> QED BY <2>2
<1>2. ASSUME NEW m \in 1..n, m - 1 \in G PROVE m \in G
  <2>0. m \in 0..n /\ m - 1 \in Nat /\ m \in Nat
    OBVIOUS
  <2>1. PICK f : Iter(f, m - 1)
    BY <1>2
  <2> DEFINE g == [s \in SUBSET (1..m) |-> IF m \in s THEN AddTopic(f[s \ {m}], seq[m]) ELSE f[s]]
             old == SUBSET (1..(m - 1))
  <2>2. \A s \in SUBSET (1..m) : m \notin s => s \in old
    BY <2>0
  <2>3. ASSUME NEW s \in SUBSET (1..m)
        PROVE  g[s] = IF s = {} THEN base ELSE AddTopic(g[s \ {Max(s)}], seq[Max(s)])
    <3>1. CASE s = {}
      <4>1. s \in old /\ m \notin s
        BY <3>1
      <4>2. f[s] = base
        BY <2>1, <3>1, <4>1
      <4> QED BY <3>1, <4>1, <4>2
    <3>2. CASE m \in s
      <4>1. Max(s) \in s /\ m <= Max(s) /\ Max(s) \in 1..m
        BY <2>0, <3>2, MaxIsGreatest
      <4>2. Max(s) = m
        BY <2>0, <4>1
      <4>3. g[s \ {m}] = f[s \ {m}]
        OBVIOUS
      <4> QED BY <3>2, <4>2, <4>3
    <3>3. CASE s # {} /\ m \notin s
      <4>1. s \in old
        BY <2>2, <3>3
      <4>2. f[s] = AddTopic(f[s \ {Max(s)}], seq[Max(s)])
        BY <2>1, <3>3, <4>1
      <4>3. g[s \ {Max(s)}] = f[s \ {Max(s)}]
        BY <3>3
      <4> QED BY <3>3, <4>2, <4>3
    <3> QED BY <3>1, <3>2, <3>3
  <2>4. Iter(g, m)
    BY <2>3
  <2> HIDE DEF Iter, g
  <2> QED BY <2>0, <2>4
<1>3. n \in G
  <2>1. \A k \in 1..n : k - 1 \in G => k \in G
    BY <1>2
  <2>2. n \in 0..n
    OBVIOUS
  <2> HIDE DEF G
  <2> QED BY <1>1, <2>1, <2>2, InductTo
<1> DEFINE iter == CHOOSE f : Iter(f, n)
           acc == [k \in 0..n |-> iter[1..k]]
<1>4. Iter(iter, n)
  BY <1>3
<1>5. UnionTopics(base, seq) = iter[1..n]
  BY Zenon DEF UnionTopics, UnionBy, AddTopic, FoldLeft, MapThenFoldSet
<1> HIDE DEF iter
<1>6. acc[0] = base
  <2>1. 1..0 = {} /\ {} \in SUBSET (1..n)
    OBVIOUS
  <2> QED BY <1>4, <2>1
<1>7. ASSUME NEW k \in 1..n
      PROVE  acc[k] = AddTopic(acc[k - 1], seq[k])
  <2>1. k \in 0..n /\ k - 1 \in 0..n
    OBVIOUS
  <2>2. 1..k \in SUBSET (1..n) /\ 1..k # {} /\ Max(1..k) = k /\ (1..k) \ {k} = 1..(k - 1)
    BY LastPosition
  <2>3. iter[1..k] = AddTopic(iter[(1..k) \ {Max(1..k)}], seq[Max(1..k)])
    BY <1>4, <2>2
  <2> QED BY <2>1, <2>2, <2>3
<1>8. acc[n] = iter[1..n]
  OBVIOUS
<1> HIDE DEF acc
<1> QED BY <1>5, <1>6, <1>7, <1>8 DEF GainsAlong

\* Topics that are united with others remain a sequence.
LEMMA TopicsStayLists ==
  ASSUME NEW base, IsList(base), NEW seq, IsList(seq)
  PROVE  IsList(UnionTopics(base, seq))
<1> DEFINE n == Len(seq)
<1>1. n \in Nat /\ DOMAIN seq = 1..n
  BY ListFacts
<1> HIDE DEF n
<1>2. PICK acc : GainsAlong(acc, base, seq, n)
  BY <1>1, TopicSteps
<1> DEFINE G == {k \in 0..n : IsList(acc[k])}
<1>3. 0 \in G /\ n \in 0..n
  BY <1>1, <1>2 DEF GainsAlong
<1>4. ASSUME NEW k \in 1..n, k - 1 \in G PROVE k \in G
  <2> DEFINE before == acc[k - 1]
             x == seq[k]
  <2>1. IsList(before) /\ acc[k] = AddTopic(before, x) /\ k \in 0..n
    BY <1>1, <1>2, <1>4 DEF GainsAlong
  <2> HIDE DEF before, x
  <2>2. IsList(AddTopic(before, x))
    BY <2>1, ListFacts DEF AddTopic
  <2> QED BY <2>1, <2>2
<1>5. n \in G
  <2> HIDE DEF G
  <2> QED BY <1>1, <1>3, <1>4, InductTo
<1> QED BY <1>2, <1>5 DEF GainsAlong

\* An event whose talks and topics can be counted, and a corpus of such.
Countable(event) == IsRecord(event) /\ event.id \in Nat /\ IsList(event.talks) /\ IsList(event.topics)
AreCountable(corpus, n) == IsCorpus(corpus, n) /\ \A i \in 1..n : Countable(corpus[i])

\* Enrichment leaves sequences.
LEMMA EnrichmentCounts ==
  ASSUME NEW e, NEW source, IsCandidate(e, source)
  PROVE  Countable(EnrichScholars(EnrichTopics(e)))
<1> DEFINE t == EnrichTopics(e)
           x == EnrichScholars(t)
           n == Len(e.talks)
<1>1. /\ IsRecord(e) /\ e.topics = <<>> /\ e.id \in Nat
      /\ e.talks \in Seq(ToSet(e.talks)) /\ \A i \in ToSet(e.talks) : i = [f \in TalkFields |-> i[f]]
  BY DEF IsCandidate, IsRecord
<1>2. IsRecord(x) /\ x.id = e.id
  BY <1>1, EnrichmentKeeps
<1>3. n \in Nat /\ DOMAIN e.talks = 1..n /\ e.talks = [i \in 1..n |-> e.talks[i]]
  BY <1>1, LenProperties
<1>4. DOMAIN t.talks = 1..n /\ IsList(t.talks) /\ IsRecord(t) /\ IsList(t.topics)
  <2>1. CASE Topics = <<>>
    <3>1. t = e
      BY <2>1, Zenon DEF EnrichTopics
    <3>2. IsList(<<>>)
      <4>1. <<>> = [i \in 1..0 |-> <<>>[i]] /\ 0 \in Nat
        OBVIOUS
      <4> QED BY <4>1 DEF IsList
    <3> QED BY <1>1, <1>3, <3>1, <3>2 DEF IsList
  <2>2. CASE Topics # <<>>
    <3> DEFINE talks == [i \in DOMAIN e.talks |-> [e.talks[i] EXCEPT !.topics = TalkTopics(e.talks[i])]]
    <3>1. PICK c : t = [e EXCEPT !.talks = talks, !.topics = c]
      BY <2>2, Zenon DEF EnrichTopics
    <3>2. talks = [i \in 1..n |-> talks[i]] /\ DOMAIN talks = 1..n
      BY <1>3
    <3>3. SaysOf(t.topics, TextsOf(e))
      BY <2>2, EventSays
    <3>4. IsList(t.topics)
      <4>1. t.topics \in Seq(ToSet(t.topics))
        BY <3>3 DEF SaysOf, OncePerTopic, IsMentions
      <4> HIDE DEF t
      <4>2. Len(t.topics) \in Nat /\ t.topics = [i \in 1..Len(t.topics) |-> t.topics[i]]
        BY <4>1, LenProperties
      <4> QED BY <4>2 DEF IsList
    <3> HIDE DEF talks, t
    <3>5. IsRecord(t) /\ t.talks = talks
      BY <1>1, <3>1 DEF IsRecord, EventFields
    <3> QED BY <1>3, <3>2, <3>4, <3>5 DEF IsList
  <2> QED BY <2>1, <2>2
<1> HIDE DEF t
<1>5. IsList(x.talks) /\ x.topics = t.topics
  <2>1. CASE Scholars = <<>>
    <3>1. x = t
      BY <2>1, Zenon DEF EnrichScholars
    <3> QED BY <1>4, <3>1
  <2>2. CASE Scholars # <<>>
    <3> DEFINE talks == [i \in DOMAIN t.talks |->
                           [t.talks[i] EXCEPT !.speakers = EnrichPeople(t.talks[i].speakers)]]
    <3>1. PICK c : x = [t EXCEPT !.talks = talks, !.people = c]
      BY <2>2, Zenon DEF EnrichScholars
    <3>2. talks = [i \in 1..n |-> talks[i]]
      BY <1>4
    <3> HIDE DEF talks, x
    <3>3. x.talks = talks /\ x.topics = t.topics
      BY <1>4, <3>1 DEF IsRecord, EventFields
    <3> QED BY <1>3, <3>2, <3>3 DEF IsList
  <2> QED BY <2>1, <2>2
<1> QED BY <1>1, <1>2, <1>4, <1>5 DEF Countable, t

\* So does the union of two events.
LEMMA UnionCounts ==
  ASSUME NEW a, NEW b, Countable(a), Countable(b)
  PROVE  Countable(MergeEvents(a, b)) /\ (a.url = b.url => MergeEvents(a, b).url = a.url)
<1> DEFINE keep  == IF a.id <= b.id THEN a ELSE b
           other == IF a.id <= b.id THEN b ELSE a
           x == MergeEvents(a, b)
           t == FoldLeft(AddTalk, keep.talks, other.talks)
           o == UnionTopics(keep.topics, other.topics)
<1>1. /\ Countable(keep) /\ Countable(other) /\ keep.id \in {a.id, b.id}
      /\ a.url = b.url => keep.url = a.url
  OBVIOUS
<1>2. PICK s, m, p, l, d, w :
        x = [keep EXCEPT !.sources = s, !.media = m, !.talks = t, !.people = p, !.topics = o,
                         !.location = l, !.description = d, !.date = w]
  <2> DEFINE s == UnionBy(LAMBDA y : y, keep.sources, (IF a.id <= b.id THEN b ELSE a).sources)
             m == UnionMedia(keep.media, other.media)
             p == UnionPeople(keep.people, other.people)
             l == IF keep.location = Blank THEN other.location ELSE keep.location
             d == IF keep.description = Blank THEN other.description ELSE keep.description
             w == IF keep.date.start = None THEN other.date ELSE keep.date
  <2>1. x = [keep EXCEPT !.sources = s, !.media = m, !.talks = t, !.people = p, !.topics = o,
                         !.location = l, !.description = d, !.date = w]
    BY Zenon DEF MergeEvents
  <2> HIDE DEF x, keep, s, m, t, p, o, l, d, w
  <2> QED BY <2>1
<1> HIDE DEF keep, other
<1>3. IsList(t) /\ IsList(o)
  BY <1>1, TalksStayLists, TopicsStayLists DEF Countable
<1> HIDE DEF x, t, o
<1>4. IsRecord(x) /\ x.url = keep.url /\ x.id = keep.id /\ x.talks = t /\ x.topics = o
  BY <1>1, <1>2 DEF Countable, IsRecord, EventFields
<1>5. keep.id \in Nat
  BY <1>1 DEF Countable
<1> QED BY <1>1, <1>3, <1>4, <1>5 DEF x, Countable

\* So does merging an event into the clusters.
LEMMA ClusterCounts ==
  ASSUME NEW clusters, NEW n, AreCountable(clusters, n), NEW event, Countable(event)
  PROVE  \E m \in Nat : AreCountable(MergeInto(clusters, event), m)
<1> DEFINE same == OfUrl(clusters, event.url)
           next == MergeInto(clusters, event)
<1>0. /\ IsCorpus(clusters, n) /\ n \in Nat /\ clusters = [i \in 1..n |-> clusters[i]]
      /\ \A i \in 1..n : Countable(clusters[i])
  BY DEF AreCountable, IsCorpus
<1>1. next = IF same = 0 THEN Append(clusters, event)
             ELSE [clusters EXCEPT ![same] = MergeEvents(clusters[same], event)]
  BY Zenon DEF MergeInto, OfUrl
<1>2. same # 0 => same \in 1..n /\ clusters[same].url = event.url
  BY <1>0, FirstOfUrl
<1> HIDE DEF same, next
<1>3. CASE same = 0
  <2>1. next = Append(clusters, event)
    BY <1>1, <1>3
  <2>2. /\ next = [i \in 1..(n + 1) |-> next[i]] /\ next[n + 1] = event
        /\ \A i \in 1..n : next[i] = clusters[i]
    BY <1>0, <2>1, IndexedSeq
  <2>3. n + 1 \in Nat /\ \A i \in 1..(n + 1) : i \in 1..n \/ i = n + 1
    BY <1>0
  <2>4. \A i \in 1..(n + 1) : Countable(next[i])
    BY <1>0, <2>2, <2>3
  <2>5. AreCountable(next, n + 1)
    BY <2>2, <2>3, <2>4 DEF AreCountable, IsCorpus, Countable
  <2> QED BY <2>3, <2>5 DEF next
<1>4. CASE same # 0
  <2> DEFINE merged == MergeEvents(clusters[same], event)
  <2>0. same \in 1..n /\ clusters[same].url = event.url /\ Countable(clusters[same])
    BY <1>0, <1>2, <1>4
  <2>1. Countable(merged)
    BY <2>0, UnionCounts
  <2> HIDE DEF merged
  <2>2. next = [clusters EXCEPT ![same] = merged]
    BY <1>1, <1>4 DEF merged
  <2>3. /\ next = [i \in 1..n |-> next[i]] /\ next[same] = merged
        /\ \A i \in 1..n : i # same => next[i] = clusters[i]
    BY <1>0, <2>0, <2>2
  <2>4. \A i \in 1..n : Countable(next[i])
    BY <1>0, <2>1, <2>3
  <2>5. AreCountable(next, n)
    BY <1>0, <2>3, <2>4 DEF AreCountable, IsCorpus, Countable
  <2> QED BY <1>0, <2>5 DEF next
<1> QED BY <1>3, <1>4

\* So the merge leaves a corpus that can be counted.
LEMMA MergeCounts ==
  ASSUME NEW corpus, NEW n, AreCountable(corpus, n)
  PROVE  \E m \in Nat : AreCountable(MergeDuplicates(corpus), m)
<1> DEFINE seq == InIdOrder(corpus)
<1>1. n \in Nat /\ IsCorpus(seq, n) /\ AllIn(seq, corpus, n)
  <2>1. IsCorpus(corpus, n) /\ n \in Nat
    BY DEF IsCorpus, AreCountable
  <2> QED BY <2>1, SameInIdOrder
<1>2. DOMAIN seq = 1..n /\ \A k \in 1..n : Countable(seq[k])
  <2> HIDE DEF seq
  <2>1. seq = [i \in 1..n |-> seq[i]]
    BY <1>1 DEF IsCorpus
  <2>2. \A k \in 1..n : \E i \in 1..n : corpus[i] = seq[k]
    BY <1>1 DEF AllIn
  <2> QED BY <2>1, <2>2 DEF AreCountable
<1> HIDE DEF seq
<1>3. PICK acc : /\ acc[0] = <<>> /\ acc[n] = FoldLeft(MergeInto, <<>>, seq)
                 /\ \A k \in 1..n : acc[k] = MergeInto(acc[k - 1], seq[k])
  BY <1>1, <1>2, MergeSteps
<1> DEFINE G == {k \in 0..n : \E m \in Nat : AreCountable(acc[k], m)}
<1>4. 0 \in G
  <2>1. AreCountable(<<>>, 0)
    BY DEF AreCountable, IsCorpus
  <2>2. AreCountable(acc[0], 0) /\ 0 \in 0..n /\ 0 \in Nat
    BY <1>1, <1>3, <2>1
  <2> QED BY <2>2
<1>5. ASSUME NEW k \in 1..n, k - 1 \in G PROVE k \in G
  <2> DEFINE before == acc[k - 1]
             event == seq[k]
  <2>1. PICK m \in Nat : AreCountable(before, m)
    BY <1>5
  <2>2. acc[k] = MergeInto(before, event) /\ Countable(event) /\ k \in 0..n
    BY <1>1, <1>2, <1>3
  <2> HIDE DEF before, event
  <2>3. PICK c \in Nat : AreCountable(acc[k], c)
    BY <2>1, <2>2, ClusterCounts
  <2> QED BY <2>2, <2>3
<1>6. n \in 0..n /\ \A k \in 1..n : k - 1 \in G => k \in G
  BY <1>1, <1>5
<1>7. n \in G
  <2> HIDE DEF G
  <2> QED BY <1>1, <1>4, <1>6, InductTo
<1>8. MergeDuplicates(corpus) = acc[n]
  BY <1>3 DEF MergeDuplicates, seq
<1> QED BY <1>7, <1>8

-----------------------------------------------------------------------------
(* Talks that an event keeps of a previous row.                           *)

\* One step of UnionTalks.
KeepTalk(all, x) ==
  IF \E i \in DOMAIN all : all[i].id = x.id THEN all ELSE Append(all, x)

LearnsAlong(acc, base, seq, n) ==
  /\ acc[0] = base /\ acc[n] = UnionTalks(base, seq)
  /\ \A k \in 1..n : acc[k] = KeepTalk(acc[k - 1], seq[k])

\* Talks are kept from left to right.
LEMMA NewTalkSteps ==
  ASSUME NEW base, NEW seq, NEW n \in Nat, DOMAIN seq = 1..n
  PROVE  \E acc : LearnsAlong(acc, base, seq, n)
<1> DEFINE Iter(f, m) ==
             f = [s \in SUBSET (1..m) |-> IF s = {} THEN base
                                          ELSE KeepTalk(f[s \ {Max(s)}], seq[Max(s)])]
           G == {m \in 0..n : \E f : Iter(f, m)}
<1>1. 0 \in G
  <2> DEFINE f == [s \in SUBSET (1..0) |-> base]
  <2>1. \A s \in SUBSET (1..0) : s = {}
    OBVIOUS
  <2>2. Iter(f, 0)
    BY <2>1, Zenon
  <2> HIDE DEF Iter, f
  <2> QED BY <2>2
<1>2. ASSUME NEW m \in 1..n, m - 1 \in G PROVE m \in G
  <2>0. m \in 0..n /\ m - 1 \in Nat /\ m \in Nat
    OBVIOUS
  <2>1. PICK f : Iter(f, m - 1)
    BY <1>2
  <2> DEFINE g == [s \in SUBSET (1..m) |-> IF m \in s THEN KeepTalk(f[s \ {m}], seq[m]) ELSE f[s]]
             old == SUBSET (1..(m - 1))
  <2>2. \A s \in SUBSET (1..m) : m \notin s => s \in old
    BY <2>0
  <2>3. ASSUME NEW s \in SUBSET (1..m)
        PROVE  g[s] = IF s = {} THEN base ELSE KeepTalk(g[s \ {Max(s)}], seq[Max(s)])
    <3>1. CASE s = {}
      <4>1. s \in old /\ m \notin s
        BY <3>1
      <4>2. f[s] = base
        BY <2>1, <3>1, <4>1
      <4> QED BY <3>1, <4>1, <4>2
    <3>2. CASE m \in s
      <4>1. Max(s) \in s /\ m <= Max(s) /\ Max(s) \in 1..m
        BY <2>0, <3>2, MaxIsGreatest
      <4>2. Max(s) = m
        BY <2>0, <4>1
      <4>3. g[s \ {m}] = f[s \ {m}]
        OBVIOUS
      <4> QED BY <3>2, <4>2, <4>3
    <3>3. CASE s # {} /\ m \notin s
      <4>1. s \in old
        BY <2>2, <3>3
      <4>2. f[s] = KeepTalk(f[s \ {Max(s)}], seq[Max(s)])
        BY <2>1, <3>3, <4>1
      <4>3. g[s \ {Max(s)}] = f[s \ {Max(s)}]
        BY <3>3
      <4> QED BY <3>3, <4>2, <4>3
    <3> QED BY <3>1, <3>2, <3>3
  <2>4. Iter(g, m)
    BY <2>3
  <2> HIDE DEF Iter, g
  <2> QED BY <2>0, <2>4
<1>3. n \in G
  <2>1. \A k \in 1..n : k - 1 \in G => k \in G
    BY <1>2
  <2>2. n \in 0..n
    OBVIOUS
  <2> HIDE DEF G
  <2> QED BY <1>1, <2>1, <2>2, InductTo
<1> DEFINE iter == CHOOSE f : Iter(f, n)
           acc == [k \in 0..n |-> iter[1..k]]
<1>4. Iter(iter, n)
  BY <1>3
<1>5. UnionTalks(base, seq) = iter[1..n]
  BY Zenon DEF UnionTalks, UnionBy, KeepTalk, FoldLeft, MapThenFoldSet
<1> HIDE DEF iter
<1>6. acc[0] = base
  <2>1. 1..0 = {} /\ {} \in SUBSET (1..n)
    OBVIOUS
  <2> QED BY <1>4, <2>1
<1>7. ASSUME NEW k \in 1..n
      PROVE  acc[k] = KeepTalk(acc[k - 1], seq[k])
  <2>1. k \in 0..n /\ k - 1 \in 0..n
    OBVIOUS
  <2>2. 1..k \in SUBSET (1..n) /\ 1..k # {} /\ Max(1..k) = k /\ (1..k) \ {k} = 1..(k - 1)
    BY LastPosition
  <2>3. iter[1..k] = KeepTalk(iter[(1..k) \ {Max(1..k)}], seq[Max(1..k)])
    BY <1>4, <2>2
  <2> QED BY <2>1, <2>2, <2>3
<1>8. acc[n] = iter[1..n]
  OBVIOUS
<1> HIDE DEF acc
<1> QED BY <1>5, <1>6, <1>7, <1>8 DEF LearnsAlong

TalkIds(talks) == {talks[i].id : i \in DOMAIN talks}

\* Of the first n talks, those with an id that is neither among some nor one seen before.
NewIds(ids, talks, n) ==
  {i \in 1..n : talks[i].id \notin ids /\ \A j \in 1..(i - 1) : talks[j].id # talks[i].id}

\* A union has the talks of the first sequence and of the second one those with a new id.
LEMMA TalksUnited ==
  ASSUME NEW base, IsList(base), NEW seq, IsList(seq)
  PROVE  LET all == UnionTalks(base, seq)
         IN  /\ IsList(all)
             /\ ToSet(all) = ToSet(base)
                             \cup {seq[i] : i \in NewIds(TalkIds(base), seq, Len(seq))}
<1> DEFINE n == Len(seq)
           ids == TalkIds(base)
           all == UnionTalks(base, seq)
           Kept(k) == {seq[i] : i \in NewIds(ids, seq, k)}
           heard(k) == {seq[i].id : i \in 1..k}
<1>1. n \in Nat /\ DOMAIN seq = 1..n
  BY ListFacts
<1> HIDE DEF n, ids
<1>2. PICK acc : LearnsAlong(acc, base, seq, n)
  BY <1>1, NewTalkSteps
<1> DEFINE G == {k \in 0..n : /\ IsList(acc[k]) /\ ToSet(acc[k]) = ToSet(base) \cup Kept(k)
                              /\ TalkIds(acc[k]) = ids \cup heard(k)}
<1>3. \A s : TalkIds(s) = {t.id : t \in ToSet(s)}
  BY DEF TalkIds, ToSet
<1>4. 0 \in G
  <2>1. Kept(0) = {} /\ heard(0) = {} /\ acc[0] = base /\ 0 \in 0..n
    BY <1>1, <1>2 DEF NewIds, LearnsAlong
  <2> HIDE DEF Kept, heard
  <2> QED BY <2>1 DEF ids
<1>5. ASSUME NEW k \in 1..n, k - 1 \in G PROVE k \in G
  <2> DEFINE before == acc[k - 1]
             x == seq[k]
             after == acc[k]
  <2>0. k \in 0..n /\ k \in Nat /\ \A i : i \in 1..k <=> i \in 1..(k - 1) \/ i = k
    BY <1>1
  <2>1. /\ IsList(before) /\ ToSet(before) = ToSet(base) \cup Kept(k - 1)
        /\ TalkIds(before) = ids \cup heard(k - 1) /\ after = KeepTalk(before, x)
    BY <1>2, <1>5 DEF LearnsAlong
  <2>2. \A y : y \in heard(k) <=> y \in heard(k - 1) \/ y = x.id
    BY <2>0
  <2>3. \A y : y \in Kept(k) <=> y \in Kept(k - 1) \/ (y = x /\ x.id \notin ids \cup heard(k - 1))
    <3>1. \A i : i \in NewIds(ids, seq, k) <=>
                   \/ i \in NewIds(ids, seq, k - 1)
                   \/ i = k /\ x.id \notin ids /\ \A j \in 1..(k - 1) : seq[j].id # x.id
      BY <2>0 DEF NewIds
    <3>2. (x.id \notin ids /\ \A j \in 1..(k - 1) : seq[j].id # x.id) <=> x.id \notin ids \cup heard(k - 1)
      OBVIOUS
    <3>3. \A i : i \in NewIds(ids, seq, k) <=>
                   i \in NewIds(ids, seq, k - 1) \/ (i = k /\ x.id \notin ids \cup heard(k - 1))
      BY <3>1, <3>2
    <3> DEFINE old == NewIds(ids, seq, k - 1)
               now == NewIds(ids, seq, k)
    <3>4. \A i : i \in now <=> i \in old \/ (i = k /\ x.id \notin ids \cup heard(k - 1))
      BY <3>3
    <3>5. Kept(k) = {seq[i] : i \in now} /\ Kept(k - 1) = {seq[i] : i \in old}
      OBVIOUS
    <3> HIDE DEF old, now, heard, Kept
    <3> QED BY <3>4, <3>5
  <2> DEFINE C == Kept(k - 1)
             D == Kept(k)
             E == heard(k - 1)
             F == heard(k)
  <2>4. /\ ToSet(before) = ToSet(base) \cup C /\ TalkIds(before) = ids \cup E
        /\ \A y : y \in F <=> y \in E \/ y = x.id
        /\ \A y : y \in D <=> y \in C \/ (y = x /\ x.id \notin ids \cup E)
    BY <2>1, <2>2, <2>3
  <2>5. (\E i \in DOMAIN before : before[i].id = x.id) <=> x.id \in TalkIds(before)
    BY DEF TalkIds
  <2> HIDE DEF before, x, after, C, D, E, F, Kept, heard
  <2>6. IsList(after) /\ ToSet(after) = ToSet(base) \cup D /\ TalkIds(after) = ids \cup F
    <3>1. CASE x.id \in ids \cup E
      <4>1. after = before
        BY <2>1, <2>4, <2>5, <3>1 DEF KeepTalk
      <4>2. D = C /\ ids \cup F = ids \cup E
        BY <2>4, <3>1
      <4> QED BY <2>1, <2>4, <4>1, <4>2
    <3>2. CASE x.id \notin ids \cup E
      <4>1. after = Append(before, x)
        BY <2>1, <2>4, <2>5, <3>2 DEF KeepTalk
      <4>2. IsList(after) /\ ToSet(after) = ToSet(before) \cup {x}
        BY <2>1, <4>1, WithAppended
      <4>3. D = C \cup {x} /\ F = E \cup {x.id}
        BY <2>4, <3>2
      <4>4. TalkIds(after) = TalkIds(before) \cup {x.id}
        BY <1>3, <4>2
      <4> QED BY <2>4, <4>2, <4>3, <4>4
    <3> QED BY <3>1, <3>2
  <2> QED BY <2>0, <2>6 DEF after, D, F
<1>6. n \in 0..n
  BY <1>1
<1>7. n \in G
  <2> HIDE DEF G
  <2> QED BY <1>1, <1>4, <1>5, <1>6, InductTo
<1>8. acc[n] = all
  BY <1>2 DEF LearnsAlong
<1> QED BY <1>7, <1>8 DEF n, ids

-----------------------------------------------------------------------------
(* The table of events: the rows of it, and what a transaction gives back. *)

RowsAlong(acc, base, seq, n) ==
  /\ acc[0] = base /\ acc[n] = FoldLeft(MergeEvents, base, seq)
  /\ \A k \in 1..n : acc[k] = MergeEvents(acc[k - 1], seq[k])

\* Rows are merged from left to right.
LEMMA RowSteps ==
  ASSUME NEW base, NEW seq, NEW n \in Nat, DOMAIN seq = 1..n
  PROVE  \E acc : RowsAlong(acc, base, seq, n)
<1> DEFINE Iter(f, m) ==
             f = [s \in SUBSET (1..m) |-> IF s = {} THEN base
                                          ELSE MergeEvents(f[s \ {Max(s)}], seq[Max(s)])]
           G == {m \in 0..n : \E f : Iter(f, m)}
<1>1. 0 \in G
  <2> DEFINE f == [s \in SUBSET (1..0) |-> base]
  <2>1. \A s \in SUBSET (1..0) : s = {}
    OBVIOUS
  <2>2. Iter(f, 0)
    BY <2>1, Zenon
  <2> HIDE DEF Iter, f
  <2> QED BY <2>2
<1>2. ASSUME NEW m \in 1..n, m - 1 \in G PROVE m \in G
  <2>0. m \in 0..n /\ m - 1 \in Nat /\ m \in Nat
    OBVIOUS
  <2>1. PICK f : Iter(f, m - 1)
    BY <1>2
  <2> DEFINE g == [s \in SUBSET (1..m) |-> IF m \in s THEN MergeEvents(f[s \ {m}], seq[m]) ELSE f[s]]
             old == SUBSET (1..(m - 1))
  <2>2. \A s \in SUBSET (1..m) : m \notin s => s \in old
    BY <2>0
  <2>3. ASSUME NEW s \in SUBSET (1..m)
        PROVE  g[s] = IF s = {} THEN base ELSE MergeEvents(g[s \ {Max(s)}], seq[Max(s)])
    <3>1. CASE s = {}
      <4>1. s \in old /\ m \notin s
        BY <3>1
      <4>2. f[s] = base
        BY <2>1, <3>1, <4>1
      <4> QED BY <3>1, <4>1, <4>2
    <3>2. CASE m \in s
      <4>1. Max(s) \in s /\ m <= Max(s) /\ Max(s) \in 1..m
        BY <2>0, <3>2, MaxIsGreatest
      <4>2. Max(s) = m
        BY <2>0, <4>1
      <4>3. g[s \ {m}] = f[s \ {m}]
        OBVIOUS
      <4> QED BY <3>2, <4>2, <4>3
    <3>3. CASE s # {} /\ m \notin s
      <4>1. s \in old
        BY <2>2, <3>3
      <4>2. f[s] = MergeEvents(f[s \ {Max(s)}], seq[Max(s)])
        BY <2>1, <3>3, <4>1
      <4>3. g[s \ {Max(s)}] = f[s \ {Max(s)}]
        BY <3>3
      <4> QED BY <3>3, <4>2, <4>3
    <3> QED BY <3>1, <3>2, <3>3
  <2>4. Iter(g, m)
    BY <2>3
  <2> HIDE DEF Iter, g
  <2> QED BY <2>0, <2>4
<1>3. n \in G
  <2>1. \A k \in 1..n : k - 1 \in G => k \in G
    BY <1>2
  <2>2. n \in 0..n
    OBVIOUS
  <2> HIDE DEF G
  <2> QED BY <1>1, <2>1, <2>2, InductTo
<1> DEFINE iter == CHOOSE f : Iter(f, n)
           acc == [k \in 0..n |-> iter[1..k]]
<1>4. Iter(iter, n)
  BY <1>3
<1>5. FoldLeft(MergeEvents, base, seq) = iter[1..n]
  BY Zenon DEF FoldLeft, MapThenFoldSet
<1> HIDE DEF iter
<1>6. acc[0] = base
  <2>1. 1..0 = {} /\ {} \in SUBSET (1..n)
    OBVIOUS
  <2> QED BY <1>4, <2>1
<1>7. ASSUME NEW k \in 1..n
      PROVE  acc[k] = MergeEvents(acc[k - 1], seq[k])
  <2>1. k \in 0..n /\ k - 1 \in 0..n
    OBVIOUS
  <2>2. 1..k \in SUBSET (1..n) /\ 1..k # {} /\ Max(1..k) = k /\ (1..k) \ {k} = 1..(k - 1)
    BY LastPosition
  <2>3. iter[1..k] = MergeEvents(iter[(1..k) \ {Max(1..k)}], seq[Max(1..k)])
    BY <1>4, <2>2
  <2> QED BY <2>1, <2>2, <2>3
<1>8. acc[n] = iter[1..n]
  OBVIOUS
<1> HIDE DEF acc
<1> QED BY <1>5, <1>6, <1>7, <1>8 DEF RowsAlong

\* A table has finitely many rows, one of each id, each of an event that can be counted.
IsTable(rows) ==
  /\ IsFiniteSet(rows) /\ \A r \in rows : Countable(r)
  /\ \A r, t \in rows : r.id = t.id => r = t

\* A previous row can be counted too.
LEMMA PreviousCounts ==
  ASSUME NEW rows, IsTable(rows), NEW id \in Nat, NEW names, NEW ids
  PROVE  PreviousRow(id, rows, names, ids) = NoRow \/ Countable(PreviousRow(id, rows, names, ids))
<1> DEFINE same  == {r \in rows : CanonicalId(r.id, names, ids) = id}
           R     == {p \in same \X same : p[1].id < p[2].id}
           c     == Cardinality(same)
           at    == Arranged(same, R)
           named == [n \in DOMAIN at |-> [at[n] EXCEPT !.id = id]]
           rest  == Tail(named)
           all   == FoldLeft(MergeEvents, named[1], rest)
<1>1. PreviousRow(id, rows, names, ids) = IF same = {} THEN NoRow ELSE all
  BY Zenon DEF PreviousRow
<1>2. SUFFICES ASSUME same # {} PROVE Countable(all)
  BY <1>1
<1>3. /\ IsFiniteSet(same) /\ \A r \in same : Countable(r)
      /\ \A r, t \in same : r.id = t.id => r = t
  <2>1. same \subseteq rows
    OBVIOUS
  <2> QED BY <2>1, FS_Subset DEF IsTable
<1>4. StrictOrder(same, R)
  <2>1. \A r, t \in same : <<r, t>> \in R <=> r.id < t.id
    OBVIOUS
  <2>2. \A r \in same : r.id \in Nat
    BY <1>3 DEF Countable
  <2> HIDE DEF same, R
  <2> SUFFICES ASSUME NEW r \in same, NEW t \in same
               PROVE  /\ <<r, r>> \notin R /\ (r = t \/ <<r, t>> \in R \/ <<t, r>> \in R)
                      /\ \A y \in same : <<r, t>> \in R /\ <<t, y>> \in R => <<r, y>> \in R
    BY DEF StrictOrder
  <2>3. r.id \in Nat /\ t.id \in Nat /\ (r.id = t.id => r = t)
    BY <1>3, <2>2
  <2>4. <<r, r>> \notin R /\ (r = t \/ <<r, t>> \in R \/ <<t, r>> \in R)
    BY <2>1, <2>3
  <2>5. ASSUME NEW y \in same, <<r, t>> \in R, <<t, y>> \in R
        PROVE  <<r, y>> \in R
    <3>1. y.id \in Nat /\ r.id < t.id /\ t.id < y.id
      BY <2>1, <2>2, <2>5
    <3>2. r.id < y.id
      BY <2>3, <3>1
    <3> QED BY <2>1, <3>2
  <2> QED BY <2>4, <2>5
<1> HIDE DEF R
<1>5. c \in Nat /\ at \in [1..c -> same]
  <2> HIDE DEF same
  <2> QED BY <1>3, <1>4, ArrangedInOrder
<1>6. c # 0
  <2> HIDE DEF same
  <2> QED BY <1>2, <1>3, FS_EmptySet
<1> HIDE DEF same, c, at
<1>7. \A n \in 1..c : Countable(named[n])
  <2> SUFFICES ASSUME NEW n \in 1..c PROVE Countable(named[n])
    OBVIOUS
  <2> DEFINE r == at[n]
             new == [r EXCEPT !.id = id]
  <2>1. Countable(r) /\ named[n] = new
    BY <1>3, <1>5
  <2> HIDE DEF r, named
  <2>2. IsRecord(new) /\ new.id = id /\ new.talks = r.talks /\ new.topics = r.topics
    BY <2>1 DEF Countable, IsRecord, EventFields
  <2> QED BY <2>1, <2>2 DEF Countable
<1>8. named = [n \in 1..c |-> named[n]]
  BY <1>5
<1> HIDE DEF named
<1>9. DOMAIN rest = 1..(c - 1) /\ \A k \in 1..(c - 1) : rest[k] = named[k + 1]
  <2>1. named \in Seq({named[n] : n \in 1..c}) /\ Len(named) = c
    BY <1>5, <1>8
  <2> QED BY <1>6, <2>1
<1> HIDE DEF rest
<1>10. c - 1 \in Nat /\ 1 \in 1..c /\ \A k \in 1..(c - 1) : k + 1 \in 1..c
  BY <1>5, <1>6
<1>11. PICK acc : RowsAlong(acc, named[1], rest, c - 1)
  BY <1>9, <1>10, RowSteps
<1> DEFINE G == {k \in 0..(c - 1) : Countable(acc[k])}
<1>12. 0 \in G /\ c - 1 \in 0..(c - 1)
  BY <1>7, <1>10, <1>11 DEF RowsAlong
<1>13. ASSUME NEW k \in 1..(c - 1), k - 1 \in G PROVE k \in G
  <2> DEFINE before == acc[k - 1]
             x == rest[k]
  <2>1. /\ Countable(before) /\ Countable(x) /\ acc[k] = MergeEvents(before, x)
        /\ k \in 0..(c - 1)
    BY <1>7, <1>9, <1>10, <1>11, <1>13 DEF RowsAlong
  <2> HIDE DEF before, x
  <2> QED BY <2>1, UnionCounts
<1>14. c - 1 \in G
  <2> HIDE DEF G
  <2> QED BY <1>10, <1>12, <1>13, InductTo
<1> QED BY <1>11, <1>14 DEF RowsAlong

\* An event that no row adds anything to.
Alone(row, reports) ==
  AllAuthoritative(reports) \/ row = NoRow \/ ObservationComplete(row, Authorities(reports))

IsPrevious(row) == row = NoRow \/ Countable(row)

\* What the transaction gives back for an event is the event, with the talks of its row.
LEMMA ReturnedIs ==
  ASSUME NEW e, Countable(e), NEW row, IsPrevious(row), NEW reports
  PROVE  LET new == Returned(e, row, reports)
         IN  /\ Countable(new) /\ new.id = e.id /\ new.url = e.url /\ new.people = e.people
             /\ new.talks = IF Alone(row, reports) THEN e.talks ELSE UnionTalks(e.talks, row.talks)
<1> DEFINE new == Returned(e, row, reports)
           t == UnionTalks(e.talks, row.talks)
<1>1. CASE Alone(row, reports)
  <2>1. new = e
    BY <1>1, Zenon DEF Alone, Returned, RetainUncertainEvidence
  <2> QED BY <1>1, <2>1
<1>2. CASE ~ Alone(row, reports)
  <2>1. Countable(row) /\ new = WithEvidence(e, row, Authorities(reports))
    BY <1>2, Zenon DEF Alone, IsPrevious, Returned, RetainUncertainEvidence
  <2>2. PICK s, m : new = [e EXCEPT !.sources = s, !.media = m, !.talks = t]
    BY <2>1, Zenon DEF WithEvidence
  <2>3. IsList(t)
    BY <2>1, TalksUnited DEF Countable
  <2> HIDE DEF new, t
  <2>4. /\ IsRecord(new) /\ new.id = e.id /\ new.url = e.url /\ new.people = e.people
        /\ new.talks = t /\ new.topics = e.topics
    BY <2>2 DEF Countable, IsRecord, EventFields
  <2> QED BY <1>2, <2>3, <2>4 DEF Countable, new, t
<1> QED BY <1>1, <1>2

\* So the whole corpus that it gives back.
ReturnedAll(corpus, previous, reports) ==
  [e \in DOMAIN corpus |-> Returned(corpus[e], previous[e], reports)]

LEMMA ReturnedCounts ==
  ASSUME NEW corpus, NEW n, AreCountable(corpus, n), NEW previous, NEW reports,
         \A e \in 1..n : IsPrevious(previous[e])
  PROVE  AreCountable(ReturnedAll(corpus, previous, reports), n)
<1> DEFINE now == ReturnedAll(corpus, previous, reports)
<1>1. n \in Nat /\ DOMAIN corpus = 1..n /\ \A i \in 1..n : Countable(corpus[i])
  BY IndexedSeq DEF AreCountable, IsCorpus
<1>2. now = [i \in 1..n |-> Returned(corpus[i], previous[i], reports)]
  BY <1>1 DEF ReturnedAll
<1>3. \A i \in 1..n : Countable(Returned(corpus[i], previous[i], reports))
  BY <1>1, ReturnedIs
<1> HIDE DEF now
<1>4. now = [i \in 1..n |-> now[i]] /\ \A i \in 1..n : Countable(now[i])
  BY <1>2, <1>3
<1> QED BY <1>1, <1>4 DEF now, AreCountable, IsCorpus, Countable

\* And the table that it leaves.
LEMMA TableStays ==
  ASSUME NEW rows, IsTable(rows), NEW corpus, NEW n, AreCountable(corpus, n), NEW names, NEW reports
  PROVE  IsTable(TableAfter(rows, corpus, names, reports))
<1> DEFINE D == DOMAIN corpus
           ids == {corpus[e].id : e \in D}
           last == {e \in D : \A f \in D : corpus[f].id = corpus[e].id => f <= e}
           new == {corpus[e] : e \in last}
           old == {r \in rows : /\ r.id \notin ids /\ ~ AllAuthoritative(reports)
                                /\ CanonicalId(r.id, names, ids) = r.id}
<1>1. TableAfter(rows, corpus, names, reports) = new \cup old
  BY Zenon DEF TableAfter
<1>2. n \in Nat /\ D = 1..n /\ \A i \in 1..n : Countable(corpus[i])
  BY IndexedSeq DEF AreCountable, IsCorpus
<1> HIDE DEF D
<1>3. IsFiniteSet(new)
  <2>1. IsFiniteSet(last)
    <3>1. last \subseteq 1..n /\ IsFiniteSet(1..n)
      BY <1>2, FS_Interval
    <3> QED BY <3>1, FS_Subset
  <2> DEFINE f == [e \in last |-> corpus[e]]
  <2>2. f \in Surjection(last, new)
    BY DEF Surjection
  <2> HIDE DEF last, new, f
  <2> QED BY <2>1, <2>2, FS_Surjection
<1>4. IsFiniteSet(old)
  <2>1. old \subseteq rows
    OBVIOUS
  <2> QED BY <2>1, FS_Subset DEF IsTable
<1>5. /\ \A r \in new : Countable(r) /\ r.id \in ids
      /\ \A r \in old : Countable(r) /\ r.id \notin ids
  BY <1>2 DEF IsTable
<1>6. \A r, t \in new : r.id = t.id => r = t
  <2> SUFFICES ASSUME NEW r \in new, NEW t \in new, r.id = t.id PROVE r = t
    OBVIOUS
  <2>1. PICK e \in D : r = corpus[e] /\ \A f \in D : corpus[f].id = corpus[e].id => f <= e
    OBVIOUS
  <2>2. PICK g \in D : t = corpus[g] /\ \A f \in D : corpus[f].id = corpus[g].id => f <= g
    OBVIOUS
  <2>3. e <= g /\ g <= e
    BY <2>1, <2>2
  <2>4. e = g
    BY <1>2, <2>3
  <2> QED BY <2>1, <2>2, <2>4
<1>7. \A r, t \in old : r.id = t.id => r = t
  BY DEF IsTable
<1>8. IsFiniteSet(new \cup old)
  BY <1>3, <1>4, FS_Union
<1> HIDE DEF new, old, ids
<1> QED BY <1>1, <1>5, <1>6, <1>7, <1>8 DEF IsTable

\* The tables of all files.
TablesInv == \A p \in Paths : IsTable(RowsOf(files[p]))

LEMMA TablesInvInit == Init => TablesInv
<1> SUFFICES ASSUME Init, NEW p \in Paths PROVE IsTable(RowsOf(files[p]))
  BY DEF TablesInv
<1>1. /\ IsFiniteSet(RowsOf(files[p])) /\ \A r \in RowsOf(files[p]) : IsStored(r)
      /\ \A r, t \in RowsOf(files[p]) : r.id = t.id => r = t
  BY PipelineAssumption DEF Init, FilesInit
<1>2. \A s : s \in Seq(ToSet(s)) => IsList(s)
  <2> SUFFICES ASSUME NEW s, s \in Seq(ToSet(s)) PROVE IsList(s)
    OBVIOUS
  <2>1. Len(s) \in Nat /\ s = [i \in 1..Len(s) |-> s[i]]
    BY LenProperties
  <2> QED BY <2>1 DEF IsList
<1>3. \A r : IsStored(r) => Countable(r)
  BY <1>2 DEF IsStored, Countable, IsRecord
<1> QED BY <1>1, <1>3 DEF IsTable

-----------------------------------------------------------------------------
(* The ranking.                                                           *)

\* Weights that are numbers, where they are given.
AreWeights(interests) ==
  \A t \in DOMAIN interests : interests[t] = Neutral \/ interests[t] \in Int

\* The greatest of a few naturals and 0.
LEMMA HighestIsNatural ==
  ASSUME NEW n \in Nat, NEW S \in SUBSET (0..n)
  PROVE  Highest(S) \in Nat
<1> DEFINE T == {x + 1 : x \in S \cup {0}}
           U == S \cup {0}
<1>1. PICK m \in U : \A y \in U : y <= m
  <2>1. T \in SUBSET (1..(n + 1)) /\ T # {} /\ n + 1 \in Nat
    OBVIOUS
  <2>2. Max(T) \in T /\ \A y \in T : y <= Max(T)
    <3> HIDE DEF T
    <3> QED BY <2>1, MaxIsGreatest
  <2>3. PICK m \in U : Max(T) = m + 1
    BY <2>2
  <2>4. \A y \in U : y + 1 \in T /\ y \in Nat /\ m \in Nat
    OBVIOUS
  <2>5. \A y \in U : y + 1 <= m + 1
    BY <2>2, <2>3, <2>4
  <2>6. \A y \in U : y <= m
    BY <2>4, <2>5
  <2> QED BY <2>6
<1>2. Highest(S) = CHOOSE x \in U : \A y \in U : y <= x
  <2>1. \A x, y \in U : x >= y <=> y <= x
    OBVIOUS
  <2> QED BY DEF Highest, Max
<1>3. Highest(S) \in U
  BY <1>1, <1>2
<1>4. \A x \in U : x \in Nat
  OBVIOUS
<1> HIDE DEF U
<1> QED BY <1>3, <1>4

\* The score is a number.
LEMMA ScoreIsNumber ==
  ASSUME NEW e, IsList(e.topics), NEW tiers, NEW interests, AreWeights(interests)
  PROVE  ScoreEvent(e, tiers, interests) \in Nat
<1>1. TopicScore(e, interests) \in Nat
  <2> DEFINE n == Len(e.topics)
             f == [i \in DOMAIN e.topics |-> Contribution(Weight(interests, e.topics[i].topic))]
  <2>1. n \in Nat /\ DOMAIN e.topics = 1..n
    BY ListFacts
  <2>2. \A topic : Contribution(Weight(interests, topic)) \in Nat
    <3> TAKE topic
    <3> DEFINE w == Weight(interests, topic)
    <3>1. w \in 0..100
      BY DEF Weight, AreWeights
    <3> HIDE DEF w
    <3>2. (15 * (100 + w) + 100) \div 200 \in Nat
      BY <3>1
    <3> QED BY <3>2 DEF Contribution, w
  <2>3. \A k \in 1..n : f[k] \in Nat
    BY <2>1, <2>2
  <2> HIDE DEF f
  <2>4. Total(f, n) \in Nat
    <3> HIDE DEF n
    <3>1. n \in 0..n
      BY <2>1
    <3> QED BY <2>1, <2>3, <3>1, TotalAdds
  <2> QED BY <2>4 DEF TopicScore, AtMost, f
<1>2. Highest({MediaSignal(m) : m \in AllMedia(e)}) \in Nat
  <2>1. \A m : MediaSignal(m) \in 0..25
    BY DEF MediaSignal
  <2> QED BY <2>1, HighestIsNatural
<1>3. Highest({TierSignal(tiers, s) : s \in ToSet(e.sources)}) \in Nat
  <2>1. \A s : TierSignal(tiers, s) \in 0..25
    BY DEF TierSignal
  <2> QED BY <2>1, HighestIsNatural
<1>4. Highest({PersonSignal(p) : p \in AllPeople(e)}) \in Nat
  <2>1. \A p : PersonSignal(p) \in 0..25
    BY DEF PersonSignal
  <2> QED BY <2>1, HighestIsNatural
<1>5. AccessSignal(e.online) \in Nat /\ CompletenessScore(e) \in Nat
  BY DEF AccessSignal, CompletenessScore
<1> QED BY <1>1, <1>2, <1>3, <1>4, <1>5 DEF ScoreEvent, ScoreComponents

\* The ranking has the same events.
LEMMA RankedIsCountable ==
  ASSUME NEW corpus, NEW n, AreCountable(corpus, n), NEW tiers, NEW interests, AreWeights(interests)
  PROVE  AreCountable(Ranked(corpus, tiers, interests), n)
<1> DEFINE D == 1..n
           score == [i \in DOMAIN corpus |-> ScoreEvent(corpus[i], tiers, interests)]
           R == {p \in (DOMAIN corpus) \X (DOMAIN corpus) :
                    \/ score[p[1]] > score[p[2]]
                    \/ score[p[1]] = score[p[2]] /\ Sooner(corpus, p)}
           at == Arranged(D, R)
<1>0. /\ n \in Nat /\ DOMAIN corpus = D
      /\ \A i \in D : Countable(corpus[i]) /\ corpus[i].id \in Nat
  <2>1. corpus = [i \in D |-> corpus[i]]
    BY DEF AreCountable, IsCorpus
  <2> QED BY <2>1 DEF AreCountable, IsCorpus
<1>1. \A i \in D : score[i] \in Nat /\ corpus[i].id \in Nat /\ i \in Nat
  <2> SUFFICES ASSUME NEW i \in D PROVE score[i] \in Nat
    BY <1>0
  <2>1. ScoreEvent(corpus[i], tiers, interests) \in Nat
    BY <1>0, ScoreIsNumber DEF Countable
  <2> QED BY <1>0, <2>1
<1> DEFINE Before(i, j) ==
             \/ score[i] > score[j]
             \/ /\ score[i] = score[j]
                /\ corpus[i].id < corpus[j].id \/ (corpus[i].id = corpus[j].id /\ i < j)
<1>2. ASSUME NEW i \in D, NEW j \in D
      PROVE  <<i, j>> \in R <=> Before(i, j)
  <2> DEFINE p == <<i, j>>
  <2>1. p[1] = i /\ p[2] = j /\ p \in D \X D
    OBVIOUS
  <2> HIDE DEF p, D, score
  <2>2. Sooner(corpus, p) <=> (corpus[i].id < corpus[j].id \/ (corpus[i].id = corpus[j].id /\ i < j))
    BY <2>1 DEF Sooner
  <2>3. p \in R <=> score[i] > score[j] \/ (score[i] = score[j] /\ Sooner(corpus, p))
    BY <1>0, <2>1
  <2> HIDE DEF R
  <2> QED BY <2>2, <2>3 DEF p
<1>3. StrictOrder(D, R)
  <2> DEFINE s(i) == score[i]
             id(i) == corpus[i].id
  <2>1. \A i \in D : s(i) \in Nat /\ id(i) \in Nat /\ i \in Nat
    BY <1>1
  <2>2. \A i, j \in D : <<i, j>> \in R <=>
             (s(i) > s(j) \/ (s(i) = s(j) /\ (id(i) < id(j) \/ (id(i) = id(j) /\ i < j))))
    BY <1>2
  <2> HIDE DEF s, id, R, score, D, Before
  <2> SUFFICES ASSUME NEW i \in D, NEW j \in D
               PROVE  /\ <<i, i>> \notin R
                      /\ i = j \/ <<i, j>> \in R \/ <<j, i>> \in R
                      /\ \A k \in D : <<i, j>> \in R /\ <<j, k>> \in R => <<i, k>> \in R
    BY DEF StrictOrder
  <2>3. <<i, i>> \notin R /\ (i = j \/ <<i, j>> \in R \/ <<j, i>> \in R)
    <3>1. id(i) \in Nat /\ id(j) \in Nat /\ i \in Nat /\ j \in Nat /\ s(i) \in Nat /\ s(j) \in Nat
      BY <2>1
    <3>2. /\ (id(i) < id(j) \/ id(i) = id(j) \/ id(j) < id(i)) /\ (i < j \/ i = j \/ j < i)
          /\ s(i) > s(j) \/ s(i) = s(j) \/ s(j) > s(i)
          /\ ~ (id(i) < id(i)) /\ ~ (i < i) /\ ~ (s(i) > s(i))
      BY <3>1
    <3> QED BY <2>2, <3>2
  <2>4. ASSUME NEW k \in D, <<i, j>> \in R, <<j, k>> \in R
        PROVE  <<i, k>> \in R
    <3>1. /\ id(i) \in Nat /\ id(j) \in Nat /\ id(k) \in Nat
          /\ i \in Nat /\ j \in Nat /\ k \in Nat
          /\ s(i) \in Nat /\ s(j) \in Nat /\ s(k) \in Nat
      BY <2>1
    <3>2. /\ s(i) > s(j) \/ (s(i) = s(j) /\ (id(i) < id(j) \/ (id(i) = id(j) /\ i < j)))
          /\ s(j) > s(k) \/ (s(j) = s(k) /\ (id(j) < id(k) \/ (id(j) = id(k) /\ j < k)))
      BY <2>2, <2>4
    <3>3. s(i) > s(k) \/ (s(i) = s(k) /\ (id(i) < id(k) \/ (id(i) = id(k) /\ i < k)))
      BY <3>1, <3>2
    <3> QED BY <2>2, <3>3
  <2> QED BY <2>3, <2>4
<1>4. IsFiniteSet(D) /\ Cardinality(D) = n
  BY <1>0, FS_Interval
<1>5. at \in [D -> D]
  <2> HIDE DEF R
  <2> QED BY <1>3, <1>4, ArrangedInOrder
<1>6. Ranked(corpus, tiers, interests) = [k \in D |-> corpus[at[k]]]
  BY <1>0, Zenon DEF Ranked
<1> HIDE DEF at
<1>7. \A k \in D : at[k] \in D /\ Ranked(corpus, tiers, interests)[k] = corpus[at[k]]
  BY <1>5, <1>6
<1> HIDE DEF D, score
<1> QED BY <1>0, <1>6, <1>7 DEF AreCountable, IsCorpus, Countable, D

-----------------------------------------------------------------------------
(* The caps of the output.                                                *)

\* What an output owes to the head of what matches.
InFull(out, matching, head, budget) ==
  LET talks == TalksBefore(out, Len(out) + 1)
  IN  /\ \A i \in DOMAIN out : out[i].id = matching[i].id
      /\ talks <= budget
      /\ \/ Len(out) = Len(head)
         \/ budget > 0 /\ talks = budget
      /\ talks < budget => \A i \in DOMAIN out : out[i].talks = matching[i].talks

\* What is left of the budget when some talks are shown.
LeftOf(budget, used) == IF used < budget THEN budget - used ELSE 0

\* It is how the code computes it.
LEMMA HighestLeft ==
  ASSUME NEW budget \in Nat, NEW used \in Nat
  PROVE  Highest({budget - used}) = LeftOf(budget, used) /\ LeftOf(budget, used) \in Nat
<1> DEFINE U == {budget - used, 0}
           m == LeftOf(budget, used)
<1>1. m \in U /\ \A y \in U : m >= y /\ y \in Int
  BY DEF LeftOf
<1>2. {budget - used} \cup {0} = U
  OBVIOUS
<1>3. Highest({budget - used}) = CHOOSE x \in U : \A y \in U : x >= y
  BY <1>2 DEF Highest, Max
<1>4. m \in Nat
  BY DEF LeftOf
<1> HIDE DEF m, U
<1>5. /\ (CHOOSE x \in U : \A y \in U : x >= y) \in U
      /\ \A y \in U : (CHOOSE x \in U : \A y1 \in U : x >= y1) >= y
  BY <1>1
<1> DEFINE c == CHOOSE x \in U : \A y \in U : x >= y
<1>6. c >= m /\ m >= c /\ c \in Int /\ m \in Int
  BY <1>1, <1>5
<1>7. c = m
  <2> HIDE DEF c
  <2> QED BY <1>6
<1> QED BY <1>3, <1>4, <1>7 DEF m

\* A cut to the talk budget shows what is due.
LEMMA CutInFull ==
  ASSUME NEW head, NEW n, AreCountable(head, n), NEW budget \in Nat
  PROVE  InFull(CutTalks(head, budget), head, head, budget)
<1> DEFINE lens == [k \in DOMAIN head |-> Len(head[k].talks)]
           T(k) == Total(lens, k)
           left(i) == LeftOf(budget, T(i - 1))
           kept == {i \in DOMAIN head : left(i) > 0 \/ budget = 0}
           p == Cardinality(kept)
           out == CutTalks(head, budget)
           few(i) == AtMost(Len(head[i].talks), left(i))
<1>1. /\ n \in Nat /\ DOMAIN head = 1..n /\ Len(head) = n
      /\ \A i \in 1..n : IsRecord(head[i]) /\ IsList(head[i].talks)
  BY IndexedSeq DEF AreCountable, IsCorpus, Countable
<1>2. \A k \in 1..n : lens[k] = Len(head[k].talks) /\ lens[k] \in Nat
  BY <1>1, ListFacts
<1>3. /\ T(0) = 0 /\ \A k \in 0..n : T(k) \in Nat
      /\ \A k \in 1..n : T(k) = T(k - 1) + lens[k]
  <2> HIDE DEF lens
  <2> QED BY <1>1, <1>2, TotalAdds
<1>4. \A i \in 0..n : \A j \in i..n : T(i) <= T(j)
  <2> HIDE DEF lens
  <2> QED BY <1>1, <1>2, TotalGrows
<1>5. \A i \in 1..n : /\ left(i) \in Nat /\ i - 1 \in 0..n /\ i - 1 \in Nat
                      /\ Highest({budget - TalksBefore(head, i)}) = left(i)
  <2> TAKE i \in 1..n
  <2>1. i - 1 \in 0..n /\ i - 1 \in Nat
    BY <1>1
  <2>2. TalksBefore(head, i) = T(i - 1)
    BY DEF TalksBefore
  <2>3. T(i - 1) \in Nat
    BY <1>3, <2>1
  <2> DEFINE used == T(i - 1)
  <2> HIDE DEF used
  <2>4. Highest({budget - used}) = LeftOf(budget, used) /\ LeftOf(budget, used) \in Nat
    BY <2>3, HighestLeft DEF used
  <2> QED BY <2>1, <2>2, <2>4 DEF used
<1> HIDE DEF lens, T, left
<1>6. p \in 0..n /\ kept = 1..p
  <2>1. \A i \in 1..n : \A j \in 1..i : i \in kept => j \in kept
    <3> SUFFICES ASSUME NEW i \in 1..n, NEW j \in 1..i, i \in kept PROVE j \in kept
      OBVIOUS
    <3>1. j \in 1..n /\ i - 1 \in 0..n /\ j - 1 \in 0..n /\ i - 1 \in (j - 1)..n
      BY <1>1
    <3>2. T(j - 1) <= T(i - 1) /\ T(j - 1) \in Nat /\ T(i - 1) \in Nat
      BY <1>3, <1>4, <3>1
    <3>3. left(i) > 0 => left(j) > 0
      BY <3>2 DEF left, LeftOf
    <3> QED BY <1>1, <3>1, <3>3
  <2>2. kept \in SUBSET (1..n)
    BY <1>1
  <2> HIDE DEF kept
  <2>3. PICK q \in 0..n : kept = 1..q
    <3>1. CASE kept = {}
      <4>1. kept = 1..0 /\ 0 \in 0..n
        BY <1>1, <3>1
      <4> QED BY <4>1
    <3>2. CASE kept # {}
      <4>1. Max(kept) \in kept /\ \A y \in kept : y <= Max(kept)
        BY <1>1, <2>2, <3>2, MaxIsGreatest
      <4> DEFINE q == Max(kept)
      <4> HIDE DEF q
      <4>2. q \in 1..n /\ q \in kept /\ \A y \in kept : y <= q
        BY <2>2, <4>1 DEF q
      <4>3. \A y \in kept : y \in 1..q
        BY <2>2, <4>2
      <4>4. \A y \in 1..q : y \in kept
        BY <2>1, <4>2
      <4>5. kept = 1..q
        BY <4>3, <4>4
      <4> QED BY <1>1, <4>2, <4>5
    <3> QED BY <3>1, <3>2
  <2>4. Cardinality(1..q) = q
    BY <1>1, <2>3, FS_Interval
  <2> QED BY <2>3, <2>4
<1>7. out = [i \in 1..p |-> [head[i] EXCEPT !.talks = SubSeq(head[i].talks, 1, few(i))]]
  <2> DEFINE high(i) == Highest({budget - TalksBefore(head, i)})
             ks == {i \in DOMAIN head : high(i) > 0 \/ budget = 0}
  <2>1. out = [i \in 1..Cardinality(ks) |->
                 [head[i] EXCEPT
                    !.talks = SubSeq(head[i].talks, 1, AtMost(Len(head[i].talks), high(i)))]]
    BY Zenon DEF CutTalks
  <2>2. \A i \in 1..n : high(i) = left(i)
    BY <1>5
  <2> HIDE DEF high
  <2>3. ks = kept
    BY <1>1, <2>2
  <2> HIDE DEF kept, ks, out
  <2>4. \A i \in 1..p : i \in 1..n
    BY <1>1, <1>6
  <2> QED BY <2>1, <2>2, <2>3, <2>4
<1> HIDE DEF out, kept
<1> HIDE DEF p
<1>8. \A i \in 1..p : /\ i \in 1..n /\ i \in 0..n /\ few(i) \in 0..lens[i]
                      /\ few(i) = IF lens[i] <= left(i) THEN lens[i] ELSE left(i)
  <2> TAKE i \in 1..p
  <2>1. i \in 1..n /\ i \in 0..n
    BY <1>1, <1>6
  <2>2. lens[i] = Len(head[i].talks) /\ lens[i] \in Nat /\ left(i) \in Nat
    BY <1>2, <1>5, <2>1
  <2> QED BY <2>1, <2>2 DEF AtMost
<1> HIDE DEF few
<1>9. \A i \in 1..p : /\ out[i].id = head[i].id
                      /\ Len(out[i].talks) = few(i)
                      /\ few(i) = lens[i] => out[i].talks = head[i].talks
  <2> TAKE i \in 1..p
  <2> DEFINE talks == head[i].talks
             cut == SubSeq(talks, 1, few(i))
             e == head[i]
             x == out[i]
  <2>1. IsRecord(e) /\ IsList(talks) /\ few(i) \in 0..Len(talks) /\ lens[i] = Len(talks)
    BY <1>1, <1>2, <1>8
  <2>2. x = [e EXCEPT !.talks = cut]
    BY <1>7
  <2> HIDE DEF x, cut, e, talks
  <2>3. x.id = e.id /\ x.talks = cut
    BY <2>1, <2>2 DEF IsRecord, EventFields
  <2>4. Len(cut) = few(i) /\ (few(i) = Len(talks) => cut = talks)
    BY <2>1, HeadOfList DEF cut
  <2> QED BY <2>1, <2>3, <2>4 DEF x, e, talks
<1>10. p \in Nat /\ DOMAIN out = 1..p /\ Len(out) = p /\ out = [i \in 1..p |-> out[i]]
  <2>1. p \in Nat /\ out = [i \in 1..p |-> out[i]]
    BY <1>6, <1>7
  <2> QED BY <2>1, IndexedSeq
<1> DEFINE cuts == [k \in DOMAIN out |-> Len(out[k].talks)]
           U(k) == Total(cuts, k)
<1>11. \A k \in 1..p : cuts[k] = few(k) /\ cuts[k] \in Nat
  <2> TAKE k \in 1..p
  <2>1. cuts[k] = few(k)
    BY <1>9, <1>10
  <2>2. few(k) \in 0..lens[k] /\ lens[k] \in Nat
    BY <1>2, <1>8
  <2> QED BY <2>1, <2>2
<1>12. /\ U(0) = 0 /\ \A k \in 0..p : U(k) \in Nat
       /\ \A k \in 1..p : U(k) = U(k - 1) + cuts[k]
  <2> HIDE DEF cuts
  <2> QED BY <1>10, <1>11, TotalAdds
<1>13. TalksBefore(out, Len(out) + 1) = U(p)
  <2>1. Len(out) + 1 - 1 = p
    BY <1>10
  <2> QED BY <2>1 DEF TalksBefore
<1> HIDE DEF cuts, U
<1> DEFINE G == {k \in 0..p : U(k) = IF T(k) < budget THEN T(k) ELSE budget}
<1>14. 0 \in G
  <2>1. 0 \in 0..p /\ (0 < budget \/ budget = 0)
    BY <1>10
  <2> QED BY <1>3, <1>12, <2>1
<1>15. ASSUME NEW k \in 1..p, k - 1 \in G PROVE k \in G
  <2>1. k \in 1..n /\ k \in 0..p /\ k - 1 \in 0..n /\ k \in 0..n
    <3>1. k \in 1..n /\ n \in Nat /\ p \in Nat
      BY <1>1, <1>8, <1>10
    <3> QED BY <3>1
  <2>2. /\ T(k - 1) \in Nat /\ T(k) = T(k - 1) + lens[k] /\ lens[k] \in Nat
        /\ U(k) = U(k - 1) + few(k) /\ few(k) = IF lens[k] <= left(k) THEN lens[k] ELSE left(k)
    BY <1>2, <1>3, <1>8, <1>11, <1>12, <2>1
  <2>3. U(k - 1) = IF T(k - 1) < budget THEN T(k - 1) ELSE budget
    BY <1>15
  <2>4. left(k) = IF T(k - 1) < budget THEN budget - T(k - 1) ELSE 0
    BY DEF left, LeftOf
  <2>5. U(k) = IF T(k) < budget THEN T(k) ELSE budget
    BY <2>2, <2>3, <2>4
  <2> QED BY <2>1, <2>5
<1>16. \A k \in 0..p : k \in G
  <2> HIDE DEF G
  <2> QED BY <1>10, <1>14, <1>15, InductTo
<1>17. U(p) = (IF T(p) < budget THEN T(p) ELSE budget) /\ T(p) \in Nat /\ p \in 0..n
  <2>1. p \in 0..p /\ p \in 0..n
    BY <1>6, <1>10
  <2> QED BY <1>3, <1>16, <2>1
<1> HIDE DEF G
<1>18. p = n \/ (budget > 0 /\ U(p) = budget)
  <2> SUFFICES ASSUME p # n PROVE budget > 0 /\ U(p) = budget
    OBVIOUS
  <2>1. PICK q \in 1..n : q \notin 1..p /\ q - 1 = p
    <3>1. p \in Nat /\ n \in Nat /\ p < n
      BY <1>1, <1>17
    <3> HIDE DEF p
    <3> QED BY <3>1
  <2>2. ~ (left(q) > 0) /\ budget # 0
    BY <1>1, <1>6, <2>1 DEF kept
  <2>3. left(q) = LeftOf(budget, T(p))
    BY <2>1 DEF left
  <2>4. ~ (T(p) < budget)
    BY <1>17, <2>2, <2>3 DEF LeftOf
  <2> QED BY <1>17, <2>2, <2>4
<1>19. U(p) < budget => \A i \in 1..p : out[i].talks = head[i].talks
  <2> SUFFICES ASSUME U(p) < budget, NEW i \in 1..p PROVE out[i].talks = head[i].talks
    OBVIOUS
  <2>1. T(p) < budget
    BY <1>17
  <2>2. /\ i \in 1..n /\ i \in 0..n /\ p \in i..n /\ i - 1 \in 0..n
    BY <1>1, <1>8, <1>17
  <2>3. /\ T(i) <= T(p) /\ T(i) \in Nat /\ T(i - 1) \in Nat /\ T(i) = T(i - 1) + lens[i]
        /\ lens[i] \in Nat
    BY <1>2, <1>3, <1>4, <2>2
  <2>4. left(i) = IF T(i - 1) < budget THEN budget - T(i - 1) ELSE 0
    BY DEF left, LeftOf
  <2>5. T(i - 1) < budget /\ lens[i] <= left(i)
    BY <1>17, <2>1, <2>3, <2>4
  <2>6. few(i) = lens[i]
    BY <1>8, <2>5
  <2> QED BY <1>9, <2>6
<1>20. U(p) <= budget
  BY <1>17
<1>21. InFull(out, head, head, budget)
  <2> DEFINE talks == TalksBefore(out, Len(out) + 1)
  <2>1. talks = U(p)
    BY <1>13
  <2> HIDE DEF talks, U
  <2>2. /\ \A i \in DOMAIN out : out[i].id = head[i].id
        /\ talks <= budget
        /\ Len(out) = Len(head) \/ (budget > 0 /\ talks = budget)
        /\ talks < budget => \A i \in DOMAIN out : out[i].talks = head[i].talks
    BY <1>1, <1>9, <1>10, <1>18, <1>19, <1>20, <2>1
  <2> QED BY <2>2, Zenon DEF InFull, talks
<1> QED BY <1>21 DEF out

\* Of what matches, the output shows in full what the caps leave.
LEMMA OutputInFull ==
  ASSUME NEW corpus, NEW n, AreCountable(corpus, n), NEW a,
         a.max_events = NoCap \/ a.max_events \in Nat, a.max_talks = NoCap \/ a.max_talks \in Nat
  PROVE  InFull(FilterOutput(corpus, a), Matching(corpus, a),
                FirstOf(Matching(corpus, a), a.max_events), TalkBudget(a))
<1> DEFINE P == {i \in DOMAIN corpus : MatchesModeAndWindow(corpus[i], a)}
           m == Cardinality(P)
           matching == Matching(corpus, a)
           cap == a.max_events
           head == FirstOf(matching, cap)
           c == CutAt(m, cap)
           budget == TalkBudget(a)
           out == FilterOutput(corpus, a)
<1>1. /\ n \in Nat /\ DOMAIN corpus = 1..n /\ \A i \in 1..n : Countable(corpus[i])
  BY IndexedSeq DEF AreCountable, IsCorpus
<1>2. P \in SUBSET (1..n) /\ P \in SUBSET Nat /\ IsFiniteSet(P)
  <2>1. P \in SUBSET (1..n) /\ IsFiniteSet(1..n)
    BY <1>1, FS_Interval
  <2> HIDE DEF P
  <2>2. IsFiniteSet(P)
    BY <2>1, FS_Subset
  <2> QED BY <2>1, <2>2
<1>3. matching = Picked(corpus, P)
  BY DEF Matching
<1> HIDE DEF P, matching
<1>4. /\ m \in Nat /\ matching = [i \in 1..m |-> matching[i]]
      /\ \A i \in 1..m : \E k \in P : matching[i] = corpus[k]
  BY <1>2, <1>3, PickedSeq
<1>5. \A i \in 1..m : Countable(matching[i])
  BY <1>1, <1>2, <1>4
<1> HIDE DEF m
<1>6. c \in 0..m /\ head = Leading(matching, c)
  BY <1>4, FirstOfPrefix
<1> HIDE DEF c, head
<1>7. c \in Nat /\ \A i \in 1..c : i \in 1..m
  BY <1>4, <1>6
<1>8. DOMAIN head = 1..c /\ head = [i \in 1..c |-> head[i]] /\ \A i \in 1..c : head[i] = matching[i]
  BY <1>6 DEF Leading
<1>9. \A i \in 1..c : Countable(head[i])
  BY <1>5, <1>7, <1>8
<1>10. AreCountable(head, c)
  BY <1>7, <1>8, <1>9 DEF AreCountable, IsCorpus, Countable
<1>11. budget \in Nat
  BY DEF TalkBudget
<1>12. out = CutTalks(head, budget)
  BY DEF FilterOutput, head, matching
<1> HIDE DEF budget, out
<1>13. InFull(out, head, head, budget)
  BY <1>10, <1>11, <1>12, CutInFull
<1>14. DOMAIN out \subseteq 1..c
  <2>1. IsFiniteSet(1..c) /\ Cardinality(1..c) = c
    <3>1. c \in Nat
      BY <1>7
    <3> HIDE DEF c
    <3> QED BY <3>1, FS_Interval
  <2> DEFINE kept == {i \in DOMAIN head : Highest({budget - TalksBefore(head, i)}) > 0 \/ budget = 0}
  <2>2. DOMAIN out = 1..Cardinality(kept)
    BY <1>12 DEF CutTalks
  <2>3. kept \in SUBSET (1..c)
    BY <1>8
  <2> HIDE DEF kept
  <2>4. Cardinality(kept) <= c /\ Cardinality(kept) \in Nat
    BY <2>1, <2>3, FS_Subset, FS_CardinalityType
  <2> QED BY <1>7, <2>2, <2>4
<1>15. InFull(out, matching, head, budget)
  <2> DEFINE talks == TalksBefore(out, Len(out) + 1)
  <2>1. /\ \A i \in DOMAIN out : out[i].id = head[i].id
        /\ talks <= budget
        /\ Len(out) = Len(head) \/ (budget > 0 /\ talks = budget)
        /\ talks < budget => \A i \in DOMAIN out : out[i].talks = head[i].talks
    BY <1>13, Zenon DEF InFull
  <2>2. \A i \in DOMAIN out : head[i] = matching[i]
    BY <1>8, <1>14
  <2> HIDE DEF talks
  <2>3. /\ \A i \in DOMAIN out : out[i].id = matching[i].id
        /\ talks < budget => \A i \in DOMAIN out : out[i].talks = matching[i].talks
    BY <2>1, <2>2
  <2> QED BY <2>1, <2>3, Zenon DEF InFull, talks
<1> QED BY <1>15 DEF out, matching, head, budget

\* What ShownInFull needs to be inductive: a corpus that can be counted and weights that
\* were read, until the output is made.
OutputInv ==
  /\ pc = "merge" => \E n \in Nat : AreCountable(events, n)
  /\ pc \in {"persist", "store", "present", "render"} => \E n \in Nat : AreCountable(events, n)
  /\ pc \in {"fetch", "cap", "enrich", "merge", "persist", "store", "present", "render"} =>
       args.interests # Unreadable
  /\ pc = "render" => shown = FilterOutput(RankedEvents, args)

\* It is enough.
LEMMA OutputIsInFull ==
  ASSUME OkInv, OutputInv
  PROVE  ShownInFull
<1> SUFFICES ASSUME pc = "render" PROVE ShownInFull
  BY DEF ShownInFull
<1> DEFINE ranked == RankedEvents
<1>1. scenario \in Scenarios /\ args.interests # Unreadable /\ shown = FilterOutput(ranked, args)
  BY DEF OkInv, HandedOn, OutputInv
<1>2. PICK n \in Nat : AreCountable(events, n)
  BY DEF OutputInv
<1>3. /\ args.max_events = NoCap \/ args.max_events \in Nat
      /\ args.max_talks = NoCap \/ args.max_talks \in Nat
      /\ args.interests = NotGiven \/ AreWeights(args.interests)
  BY <1>1, ResultAssumption DEF args, AreWeights
<1>4. AreWeights(InterestsOf)
  BY <1>3 DEF InterestsOf, AreWeights
<1>5. AreCountable(ranked, n)
  BY <1>2, <1>4, RankedIsCountable DEF RankedEvents
<1> HIDE DEF ranked
<1>6. InFull(shown, Matching(ranked, args), FirstOf(Matching(ranked, args), args.max_events),
             TalkBudget(args))
  BY <1>1, <1>3, <1>5, OutputInFull
<1> QED BY <1>6, Zenon DEF ShownInFull, InFull, ranked

\* What the transaction makes of the corpus and of the table.
LEMMA StoreReturns ==
  ASSUME FilesInv, TablesInv, OutputInv, StoreBundle
  PROVE  /\ events' = ReturnedAll(events, Previous, health)
         /\ \A e \in DOMAIN events : IsPrevious(Previous[e])
         /\ \E n \in Nat : AreCountable(events, n) /\ AreCountable(events', n)
         /\ IsTable(TableAfter(Rows, events', aliases, health))
<1>1. pc = "store" /\ events' = ReturnedAll(events, Previous, health)
  BY DEF StoreBundle, ReturnedAll
<1>2. PICK n \in Nat : AreCountable(events, n)
  BY <1>1 DEF OutputInv
<1>3. DOMAIN events = 1..n /\ \A e \in 1..n : events[e].id \in Nat
  BY <1>2, IndexedSeq DEF AreCountable, IsCorpus
<1>4. IsTable(Rows)
  <2>1. StatePath \in Paths
    BY PipelineAssumption DEF FilesInv, FilesWellFormed, StatePath, args, Paths
  <2> QED BY <2>1 DEF TablesInv, Rows
<1>5. ASSUME NEW e \in 1..n PROVE IsPrevious(Previous[e])
  <2> DEFINE ids == {events[k].id : k \in DOMAIN events}
             id == events[e].id
  <2>1. Previous[e] = PreviousRow(id, Rows, aliases, ids)
    BY <1>3 DEF Previous
  <2>2. id \in Nat
    BY <1>3
  <2> HIDE DEF id, ids
  <2> QED BY <1>4, <2>1, <2>2, PreviousCounts DEF IsPrevious
<1>6. AreCountable(events', n)
  BY <1>1, <1>2, <1>5, ReturnedCounts
<1>7. IsTable(TableAfter(Rows, events', aliases, health))
  BY <1>4, <1>6, TableStays
<1> QED BY <1>1, <1>2, <1>3, <1>5, <1>6, <1>7

LEMMA NextKeepsTablesInv ==
  ASSUME FilesInv, OutputInv, TablesInv, [Next]_vars
  PROVE  TablesInv'
<1> SUFFICES ASSUME NEW p \in Paths PROVE IsTable(RowsOf(files'[p]))
  BY DEF TablesInv, Paths
<1>1. RowsFrom(p)
  BY RowsStep
<1>2. CASE \E q \in Paths : RowsOf(files'[p]) = RowsOf(files[q])
  BY <1>2 DEF TablesInv
<1>3. CASE RowsOf(files'[p]) = {}
  BY <1>3, FS_EmptySet DEF IsTable
<1>4. CASE StoreBundle /\ RowsOf(files'[p]) = TableAfter(Rows, events', aliases, health)
  BY <1>4, StoreReturns
<1> QED BY <1>1, <1>2, <1>3, <1>4 DEF RowsFrom

\* Every step keeps what the output needs.
LEMMA NextKeepsOutputInv ==
  ASSUME OkInv, FilesInv, TablesInv, OutputInv, [Next]_vars
  PROVE  OutputInv'
<1>1. CASE ClientFails \/ NothingFetched \/ StoreFails
           \/ Render \/ RenderFails \/ Kill \/ ScanAgain
  BY <1>1 DEF ClientFails, NothingFetched, StoreFails, Render, RenderFails, Kill,
              ScanAgain, Exit, Running, OutputInv
<1>2. CASE Load
  <2>1. UNCHANGED inputs /\ pc' \in {"fetch", "exited"}
    BY <1>2 DEF Load, Exit
  <2>2. pc' = "fetch" => LoadExit(args) = 0
    BY <1>2 DEF Load, Exit
  <2>3. LoadExit(args) = 0 => args.interests # Unreadable
    BY DEF LoadExit
  <2> QED BY <2>1, <2>2, <2>3, ResultsStay DEF OutputInv
<1>3. CASE FetchAll \/ Cap
  <2>1. UNCHANGED inputs /\ pc' \in {"cap", "enrich"} /\ pc \in {"fetch", "cap"}
    BY <1>3 DEF FetchAll, Cap
  <2> QED BY <2>1, ResultsStay DEF OutputInv
<1>4. CASE Enrich
  <2>1. /\ UNCHANGED inputs /\ pc = "enrich" /\ pc' = "merge"
        /\ events' = [e \in DOMAIN events |-> EnrichScholars(EnrichTopics(events[e]))]
    BY <1>4 DEF Enrich
  <2>2. PICK n \in Nat : AsFound(events, n)
    BY <2>1 DEF OkInv, HandedOn
  <2>3. DOMAIN events = 1..n
    BY <2>2, IndexedSeq DEF AsFound, IsCorpus
  <2>4. events' = [i \in 1..n |-> events'[i]]
    BY <2>1, <2>3
  <2>5. \A i \in 1..n : Countable(events'[i])
    <3> TAKE i \in 1..n
    <3> DEFINE e == events[i]
               x == EnrichScholars(EnrichTopics(e))
    <3>1. PICK source : IsCandidate(e, source)
      BY <2>2 DEF AsFound
    <3>2. Countable(x)
      <4> HIDE DEF e
      <4> QED BY <3>1, EnrichmentCounts
    <3> QED BY <2>1, <2>3, <3>2
  <2>6. AreCountable(events', n)
    BY <2>4, <2>5 DEF AreCountable, IsCorpus, Countable
  <2> QED BY <2>1, <2>6, ResultsStay DEF OutputInv
<1>5. CASE Merge
  <2>1. UNCHANGED inputs /\ pc = "merge" /\ pc' = "persist" /\ events' = MergeDuplicates(events)
    BY <1>5 DEF Merge
  <2>2. \E n \in Nat : AreCountable(events, n)
    BY <2>1 DEF OutputInv
  <2>3. \E n \in Nat : AreCountable(events', n)
    BY <2>1, <2>2, MergeCounts
  <2> QED BY <2>1, <2>3, ResultsStay DEF OutputInv
<1>6. CASE SkipState \/ OpenState \/ OpenFails \/ OpenFailsHalfway
  <2>1. /\ UNCHANGED inputs /\ pc = "persist" /\ pc' \in {"store", "present", "exited"}
        /\ events' = events
    BY <1>6 DEF SkipState, OpenState, OpenFails, OpenFailsHalfway, Exit
  <2> QED BY <2>1, ResultsStay DEF OutputInv
<1>10. CASE StoreBundle
  <2>1. UNCHANGED inputs /\ pc = "store" /\ pc' = "present"
    BY <1>10 DEF StoreBundle
  <2>2. \E n \in Nat : AreCountable(events', n)
    BY <1>10, StoreReturns
  <2> QED BY <2>1, <2>2, ResultsStay DEF OutputInv
<1>7. CASE Present
  <2>1. /\ UNCHANGED inputs /\ pc = "present" /\ pc' = "render"
        /\ events' = events /\ shown' = FilterOutput(RankedEvents, args)
    BY <1>7 DEF Present
  <2>2. RankedEvents' = RankedEvents /\ args' = args
    BY <2>1, ResultsStay DEF RankedEvents, InterestsOf
  <2> QED BY <2>1, <2>2 DEF OutputInv
<1>8. CASE PowerLoss
  <2>1. UNCHANGED <<scenario, results, events, shown>> /\ pc' \in {pc, "dead"}
    BY <1>8 DEF PowerLoss
  <2>2. RankedEvents' = RankedEvents /\ args' = args
    BY <2>1, ResultsStay DEF RankedEvents, InterestsOf
  <2> QED BY <2>1, <2>2 DEF OutputInv
<1>9. CASE UNCHANGED scanVars
  <2>1. UNCHANGED <<scenario, results, pc, events, shown>>
    BY <1>9 DEF scanVars
  <2>2. RankedEvents' = RankedEvents /\ args' = args
    BY <2>1, ResultsStay DEF RankedEvents, InterestsOf
  <2> QED BY <2>1, <2>2 DEF OutputInv
<1> QED BY <1>1, <1>2, <1>3, <1>4, <1>5, <1>6, <1>7, <1>8, <1>9, <1>10 DEF Next, ScanNext, vars

\* Whatever was found, however it scores and whatever the caps are: the output is the
\* head of the ranking, cut only where a cap says so.
THEOREM OutputShowsInFull == Spec => []ShownInFull
<1>1. Init => OkInv
  BY DEF Init, OkInv, HandedOn, OkMeansAllStored
<1>2. Init => ExitInv
  BY DEF Init, ExitInv, PhasesInOrder, ExitTellsWhatHappened
<1>3. Init => OutputInv
  BY DEF Init, OutputInv
<1> QED BY <1>1, <1>2, <1>3, TablesInvInit, FilesInvHolds, NextKeepsOkInv, NextKeepsExitInv,
           NextKeepsTablesInv, NextKeepsOutputInv, OutputIsInFull, PTL DEF Spec

-----------------------------------------------------------------------------
(* People: who speaks at an event, and which of them are laureates.        *)

\* A laureate goes by the name.
IsLaureate(name) == \E n \in LaureateNames : Fold[n] = Fold[name]

\* No name is that of a laureate and of another scholar.
NamesTellApart ==
  \A s, t \in ToSet(Scholars) : \A m \in ToSet(Surfaces(s)), n \in ToSet(Surfaces(t)) :
    Fold[m] = Fold[n] => (Laureate(s) <=> Laureate(t))

Speaks(person) == person.role \in {"Speaker", "Lecturer"}

\* Whoever speaks has the tags of a laureate exactly if a laureate goes by the name.
AreTagged(people) == \A p \in people : Speaks(p) => (Laureate(p) <=> IsLaureate(p.name))

\* Some people instead of others: among them, and one for each name and role.
StandFor(some, others) ==
  /\ some \subseteq others
  /\ \A p \in others : \E q \in some : q.name = p.name /\ q.role = p.role

\* The first scholar who goes by a name.
FirstScholar(name) == SelectInSeq(Scholars, LAMBDA s : GoesBy(s, name))

LEMMA FirstScholarGoesBy ==
  ASSUME NEW name
  PROVE  /\ FirstScholar(name) = 0 => \A s \in ToSet(Scholars) : ~ GoesBy(s, name)
         /\ FirstScholar(name) # 0 => /\ Scholars[FirstScholar(name)] \in ToSet(Scholars)
                                      /\ GoesBy(Scholars[FirstScholar(name)], name)
<1> DEFINE n == Len(Scholars)
           P == {i \in 1..n : GoesBy(Scholars[i], name)}
<1>1. n \in Nat /\ DOMAIN Scholars = 1..n
  BY RegistryAssumption, LenProperties
<1>2. FirstScholar(name) = IF P # {} THEN Min(P) ELSE 0
  BY DEF FirstScholar, SelectInSeq
<1>3. P \in SUBSET (1..n)
  OBVIOUS
<1>4. /\ FirstScholar(name) = 0 => P = {}
      /\ FirstScholar(name) # 0 => FirstScholar(name) \in P
  <2> HIDE DEF P, n
  <2> QED BY <1>1, <1>2, <1>3, FirstPosition
<1>5. \A s \in ToSet(Scholars) : \E i \in 1..n : s = Scholars[i]
  BY <1>1 DEF ToSet
<1>6. \A i \in 1..n : Scholars[i] \in ToSet(Scholars)
  BY <1>1 DEF ToSet
<1> QED BY <1>4, <1>5, <1>6

\* Enrichment gives a person the tags of a laureate exactly if a laureate goes by the name
\* that is listed, and then also by the name that it gives.
LEMMA PersonIsTagged ==
  ASSUME NamesTellApart, NEW p, p = [f \in PersonFields |-> p[f]], p.tags = {}
  PROVE  LET q == EnrichPerson(p)
         IN  /\ q.role = p.role
             /\ Laureate(q) <=> IsLaureate(q.name)
             /\ IsLaureate(q.name) <=> IsLaureate(p.name)
<1> DEFINE q == EnrichPerson(p)
           k == FirstScholar(p.name)
           s == Scholars[k]
<1>1. q = IF p.tags # {} \/ k = 0 THEN p ELSE [p EXCEPT !.tags = s.tags, !.name = s.name]
  BY Zenon DEF EnrichPerson, FirstScholar
<1>2. /\ k = 0 => \A x \in ToSet(Scholars) : ~ GoesBy(x, p.name)
      /\ k # 0 => s \in ToSet(Scholars) /\ GoesBy(s, p.name)
  BY FirstScholarGoesBy
<1>3. \A name : IsLaureate(name) <=> \E x \in ToSet(Scholars) : Laureate(x) /\ GoesBy(x, name)
  BY DEF IsLaureate, LaureateNames, GoesBy
<1> HIDE DEF q, k
<1>4. CASE k = 0
  <2>1. q = p
    BY <1>1, <1>4
  <2>2. ~ IsLaureate(p.name)
    BY <1>2, <1>3, <1>4
  <2>3. ~ Laureate(p)
    BY DEF Laureate
  <2> QED BY <2>1, <2>2, <2>3 DEF q
<1>5. CASE k # 0
  <2>1. s \in ToSet(Scholars) /\ GoesBy(s, p.name)
    BY <1>2, <1>5
  <2>2. q = [p EXCEPT !.tags = s.tags, !.name = s.name]
    BY <1>1, <1>5
  <2> HIDE DEF s
  <2>3. q.role = p.role /\ q.tags = s.tags /\ q.name = s.name
    BY <2>2 DEF PersonFields
  <2>4. Laureate(q) <=> Laureate(s)
    BY <2>3 DEF Laureate
  <2>5. ASSUME NEW name, GoesBy(s, name)
        PROVE  IsLaureate(name) <=> Laureate(s)
    <3>1. PICK m \in ToSet(Surfaces(s)) : Fold[m] = Fold[name]
      BY <2>5 DEF GoesBy
    <3>2. ASSUME NEW x \in ToSet(Scholars), Laureate(x), GoesBy(x, name)
          PROVE  Laureate(s)
      <4>1. PICK n \in ToSet(Surfaces(x)) : Fold[n] = Fold[name]
        BY <3>2 DEF GoesBy
      <4> QED BY <2>1, <3>1, <3>2, <4>1 DEF NamesTellApart
    <3> QED BY <1>3, <2>1, <2>5, <3>2
  <2>6. GoesBy(s, s.name)
    <3>1. s.name \in ToSet(Surfaces(s))
      <4>1. Surfaces(s) = <<s.name>> \o s.aliases
        BY DEF Surfaces
      <4> QED BY <4>1, RegistryAssumption, <2>1, NamesOfTopic
    <3> QED BY <3>1 DEF GoesBy
  <2> QED BY <2>1, <2>3, <2>4, <2>5, <2>6 DEF q
<1> QED BY <1>4, <1>5

\* A list to which elements of another are appended, or not, one after the other.
Grows(acc, base, seq, n) ==
  /\ acc[0] = base
  /\ \A k \in 1..n : acc[k] = acc[k - 1] \/ acc[k] = Append(acc[k - 1], seq[k])

\* It keeps what it has and gains nothing else.
LEMMA Grown ==
  ASSUME NEW base, IsList(base), NEW seq, NEW n \in Nat, DOMAIN seq = 1..n,
         NEW acc, Grows(acc, base, seq, n)
  PROVE  \A k \in 0..n : /\ IsList(acc[k]) /\ ToSet(base) \subseteq ToSet(acc[k])
                         /\ ToSet(acc[k]) \subseteq ToSet(base) \cup ToSet(seq)
<1> DEFINE G == {k \in 0..n : /\ IsList(acc[k]) /\ ToSet(base) \subseteq ToSet(acc[k])
                              /\ ToSet(acc[k]) \subseteq ToSet(base) \cup ToSet(seq)}
<1>1. 0 \in G
  BY DEF Grows
<1>2. ASSUME NEW k \in 1..n, k - 1 \in G PROVE k \in G
  <2> DEFINE before == acc[k - 1]
             x == seq[k]
             after == acc[k]
  <2>1. /\ IsList(before) /\ ToSet(base) \subseteq ToSet(before)
        /\ ToSet(before) \subseteq ToSet(base) \cup ToSet(seq)
        /\ after = before \/ after = Append(before, x)
        /\ x \in ToSet(seq) /\ k \in 0..n
    <3>1. x \in ToSet(seq) /\ k \in 0..n
      BY DEF ToSet
    <3> QED BY <1>2, <3>1 DEF Grows
  <2> HIDE DEF before, x, after
  <2>2. IsList(after) /\ (ToSet(after) = ToSet(before) \/ ToSet(after) = ToSet(before) \cup {x})
    BY <2>1, WithAppended
  <2> QED BY <2>1, <2>2 DEF after
<1> HIDE DEF G
<1>3. \A k \in 0..n : k \in G
  BY <1>1, <1>2, InductTo
<1> QED BY <1>3 DEF G

HitsAlong(acc, base, seq, n) ==
  /\ acc[0] = base /\ acc[n] = FoldLeft(AddHit, base, seq)
  /\ \A k \in 1..n : acc[k] = AddHit(acc[k - 1], seq[k])

\* Mentions in a title are added from left to right.
LEMMA HitSteps ==
  ASSUME NEW base, NEW seq, NEW n \in Nat, DOMAIN seq = 1..n
  PROVE  \E acc : HitsAlong(acc, base, seq, n)
<1> DEFINE Iter(f, m) ==
             f = [s \in SUBSET (1..m) |-> IF s = {} THEN base
                                          ELSE AddHit(f[s \ {Max(s)}], seq[Max(s)])]
           G == {m \in 0..n : \E f : Iter(f, m)}
<1>1. 0 \in G
  <2> DEFINE f == [s \in SUBSET (1..0) |-> base]
  <2>1. \A s \in SUBSET (1..0) : s = {}
    OBVIOUS
  <2>2. Iter(f, 0)
    BY <2>1, Zenon
  <2> HIDE DEF Iter, f
  <2> QED BY <2>2
<1>2. ASSUME NEW m \in 1..n, m - 1 \in G PROVE m \in G
  <2>0. m \in 0..n /\ m - 1 \in Nat /\ m \in Nat
    OBVIOUS
  <2>1. PICK f : Iter(f, m - 1)
    BY <1>2
  <2> DEFINE g == [s \in SUBSET (1..m) |-> IF m \in s THEN AddHit(f[s \ {m}], seq[m]) ELSE f[s]]
             old == SUBSET (1..(m - 1))
  <2>2. \A s \in SUBSET (1..m) : m \notin s => s \in old
    BY <2>0
  <2>3. ASSUME NEW s \in SUBSET (1..m)
        PROVE  g[s] = IF s = {} THEN base ELSE AddHit(g[s \ {Max(s)}], seq[Max(s)])
    <3>1. CASE s = {}
      <4>1. s \in old /\ m \notin s
        BY <3>1
      <4>2. f[s] = base
        BY <2>1, <3>1, <4>1
      <4> QED BY <3>1, <4>1, <4>2
    <3>2. CASE m \in s
      <4>1. Max(s) \in s /\ m <= Max(s) /\ Max(s) \in 1..m
        BY <2>0, <3>2, MaxIsGreatest
      <4>2. Max(s) = m
        BY <2>0, <4>1
      <4>3. g[s \ {m}] = f[s \ {m}]
        OBVIOUS
      <4> QED BY <3>2, <4>2, <4>3
    <3>3. CASE s # {} /\ m \notin s
      <4>1. s \in old
        BY <2>2, <3>3
      <4>2. f[s] = AddHit(f[s \ {Max(s)}], seq[Max(s)])
        BY <2>1, <3>3, <4>1
      <4>3. g[s \ {Max(s)}] = f[s \ {Max(s)}]
        BY <3>3
      <4> QED BY <3>3, <4>2, <4>3
    <3> QED BY <3>1, <3>2, <3>3
  <2>4. Iter(g, m)
    BY <2>3
  <2> HIDE DEF Iter, g
  <2> QED BY <2>0, <2>4
<1>3. n \in G
  <2>1. \A k \in 1..n : k - 1 \in G => k \in G
    BY <1>2
  <2>2. n \in 0..n
    OBVIOUS
  <2> HIDE DEF G
  <2> QED BY <1>1, <2>1, <2>2, InductTo
<1> DEFINE iter == CHOOSE f : Iter(f, n)
           acc == [k \in 0..n |-> iter[1..k]]
<1>4. Iter(iter, n)
  BY <1>3
<1>5. FoldLeft(AddHit, base, seq) = iter[1..n]
  BY Zenon DEF FoldLeft, MapThenFoldSet
<1> HIDE DEF iter
<1>6. acc[0] = base
  <2>1. 1..0 = {} /\ {} \in SUBSET (1..n)
    OBVIOUS
  <2> QED BY <1>4, <2>1
<1>7. ASSUME NEW k \in 1..n
      PROVE  acc[k] = AddHit(acc[k - 1], seq[k])
  <2>1. k \in 0..n /\ k - 1 \in 0..n
    OBVIOUS
  <2>2. 1..k \in SUBSET (1..n) /\ 1..k # {} /\ Max(1..k) = k /\ (1..k) \ {k} = 1..(k - 1)
    BY LastPosition
  <2>3. iter[1..k] = AddHit(iter[(1..k) \ {Max(1..k)}], seq[Max(1..k)])
    BY <1>4, <2>2
  <2> QED BY <2>1, <2>2, <2>3
<1>8. acc[n] = iter[1..n]
  OBVIOUS
<1> HIDE DEF acc
<1> QED BY <1>5, <1>6, <1>7, <1>8 DEF HitsAlong

\* A mention in a title makes nobody a speaker.
LEMMA HitsAreSilent ==
  ASSUME NEW people, IsList(people), NEW text
  PROVE  LET all == FoldLeft(AddHit, people, TitleHits(text))
         IN  /\ IsList(all) /\ ToSet(people) \subseteq ToSet(all)
             /\ \A p \in ToSet(all) : Speaks(p) => p \in ToSet(people)
<1> DEFINE hits == TitleHits(text)
           all == FoldLeft(AddHit, people, hits)
<1>1. PICK n \in Nat : DOMAIN hits = 1..n
  <2> DEFINE P == {i \in DOMAIN Scholars : \E x \in ToSet(Surfaces(Scholars[i])) : Named(text, x)}
             hit == Picked(Scholars, P)
  <2>1. Len(Scholars) \in Nat /\ DOMAIN Scholars = 1..Len(Scholars)
    BY RegistryAssumption, LenProperties
  <2>2. P \in SUBSET Nat /\ IsFiniteSet(P)
    <3>1. P \subseteq 1..Len(Scholars) /\ IsFiniteSet(1..Len(Scholars))
      BY <2>1, FS_Interval
    <3> HIDE DEF P
    <3>2. \A i \in 1..Len(Scholars) : i \in Nat
      BY <2>1
    <3> QED BY <3>1, <3>2, FS_Subset
  <2>3. hits = [i \in DOMAIN hit |-> [name |-> hit[i].name, matched |-> LongestNamed(text, hit[i]),
                                      role |-> "TitleMention", tags |-> hit[i].tags]]
    BY Zenon DEF TitleHits, Filtered
  <2>4. DOMAIN hits = DOMAIN hit
    BY <2>3
  <2> HIDE DEF P, hits
  <2>5. hit = [i \in 1..Cardinality(P) |-> hit[i]] /\ Cardinality(P) \in Nat
    BY <2>2, PickedSeq
  <2> HIDE DEF hit
  <2>6. DOMAIN hit = 1..Cardinality(P)
    BY <2>5
  <2> QED BY <2>4, <2>5, <2>6
<1>2. \A h \in ToSet(hits) : ~ Speaks(h)
  <2>1. PICK hit : hits = [i \in DOMAIN hit |-> [name |-> hit[i].name, matched |-> LongestNamed(text, hit[i]),
                                                 role |-> "TitleMention", tags |-> hit[i].tags]]
    BY Zenon DEF TitleHits
  <2> HIDE DEF hits
  <2>2. \A i \in DOMAIN hits : hits[i].role = "TitleMention"
    BY <2>1
  <2> QED BY <2>2 DEF ToSet, Speaks
<1> HIDE DEF hits
<1>3. PICK acc : HitsAlong(acc, people, hits, n)
  BY <1>1, HitSteps
<1>4. Grows(acc, people, hits, n)
  BY <1>3 DEF HitsAlong, Grows, AddHit
<1>5. n \in 0..n /\ acc[n] = all
  BY <1>3 DEF HitsAlong
<1> HIDE DEF all
<1>6. /\ IsList(acc[n]) /\ ToSet(people) \subseteq ToSet(acc[n])
      /\ ToSet(acc[n]) \subseteq ToSet(people) \cup ToSet(hits)
  BY <1>1, <1>4, <1>5, Grown
<1> QED BY <1>2, <1>5, <1>6 DEF all, hits

\* One step of UnionPeople.
AddPerson(all, x) ==
  IF \E i \in DOMAIN all : <<all[i].name, all[i].role>> = <<x.name, x.role>> THEN all
  ELSE Append(all, x)

JoinsAlong(acc, base, seq, n) ==
  /\ acc[0] = base /\ acc[n] = UnionPeople(base, seq)
  /\ \A k \in 1..n : acc[k] = AddPerson(acc[k - 1], seq[k])

\* People are united from left to right.
LEMMA PersonSteps ==
  ASSUME NEW base, NEW seq, NEW n \in Nat, DOMAIN seq = 1..n
  PROVE  \E acc : JoinsAlong(acc, base, seq, n)
<1> DEFINE Iter(f, m) ==
             f = [s \in SUBSET (1..m) |-> IF s = {} THEN base
                                          ELSE AddPerson(f[s \ {Max(s)}], seq[Max(s)])]
           G == {m \in 0..n : \E f : Iter(f, m)}
<1>1. 0 \in G
  <2> DEFINE f == [s \in SUBSET (1..0) |-> base]
  <2>1. \A s \in SUBSET (1..0) : s = {}
    OBVIOUS
  <2>2. Iter(f, 0)
    BY <2>1, Zenon
  <2> HIDE DEF Iter, f
  <2> QED BY <2>2
<1>2. ASSUME NEW m \in 1..n, m - 1 \in G PROVE m \in G
  <2>0. m \in 0..n /\ m - 1 \in Nat /\ m \in Nat
    OBVIOUS
  <2>1. PICK f : Iter(f, m - 1)
    BY <1>2
  <2> DEFINE g == [s \in SUBSET (1..m) |-> IF m \in s THEN AddPerson(f[s \ {m}], seq[m]) ELSE f[s]]
             old == SUBSET (1..(m - 1))
  <2>2. \A s \in SUBSET (1..m) : m \notin s => s \in old
    BY <2>0
  <2>3. ASSUME NEW s \in SUBSET (1..m)
        PROVE  g[s] = IF s = {} THEN base ELSE AddPerson(g[s \ {Max(s)}], seq[Max(s)])
    <3>1. CASE s = {}
      <4>1. s \in old /\ m \notin s
        BY <3>1
      <4>2. f[s] = base
        BY <2>1, <3>1, <4>1
      <4> QED BY <3>1, <4>1, <4>2
    <3>2. CASE m \in s
      <4>1. Max(s) \in s /\ m <= Max(s) /\ Max(s) \in 1..m
        BY <2>0, <3>2, MaxIsGreatest
      <4>2. Max(s) = m
        BY <2>0, <4>1
      <4>3. g[s \ {m}] = f[s \ {m}]
        OBVIOUS
      <4> QED BY <3>2, <4>2, <4>3
    <3>3. CASE s # {} /\ m \notin s
      <4>1. s \in old
        BY <2>2, <3>3
      <4>2. f[s] = AddPerson(f[s \ {Max(s)}], seq[Max(s)])
        BY <2>1, <3>3, <4>1
      <4>3. g[s \ {Max(s)}] = f[s \ {Max(s)}]
        BY <3>3
      <4> QED BY <3>3, <4>2, <4>3
    <3> QED BY <3>1, <3>2, <3>3
  <2>4. Iter(g, m)
    BY <2>3
  <2> HIDE DEF Iter, g
  <2> QED BY <2>0, <2>4
<1>3. n \in G
  <2>1. \A k \in 1..n : k - 1 \in G => k \in G
    BY <1>2
  <2>2. n \in 0..n
    OBVIOUS
  <2> HIDE DEF G
  <2> QED BY <1>1, <2>1, <2>2, InductTo
<1> DEFINE iter == CHOOSE f : Iter(f, n)
           acc == [k \in 0..n |-> iter[1..k]]
<1>4. Iter(iter, n)
  BY <1>3
<1>5. UnionPeople(base, seq) = iter[1..n]
  BY Zenon DEF UnionPeople, UnionBy, AddPerson, FoldLeft, MapThenFoldSet
<1> HIDE DEF iter
<1>6. acc[0] = base
  <2>1. 1..0 = {} /\ {} \in SUBSET (1..n)
    OBVIOUS
  <2> QED BY <1>4, <2>1
<1>7. ASSUME NEW k \in 1..n
      PROVE  acc[k] = AddPerson(acc[k - 1], seq[k])
  <2>1. k \in 0..n /\ k - 1 \in 0..n
    OBVIOUS
  <2>2. 1..k \in SUBSET (1..n) /\ 1..k # {} /\ Max(1..k) = k /\ (1..k) \ {k} = 1..(k - 1)
    BY LastPosition
  <2>3. iter[1..k] = AddPerson(iter[(1..k) \ {Max(1..k)}], seq[Max(1..k)])
    BY <1>4, <2>2
  <2> QED BY <2>1, <2>2, <2>3
<1>8. acc[n] = iter[1..n]
  OBVIOUS
<1> HIDE DEF acc
<1> QED BY <1>5, <1>6, <1>7, <1>8 DEF JoinsAlong

\* People that are united with others stand for both.
LEMMA UnitedStand ==
  ASSUME NEW base, IsList(base), NEW seq, IsList(seq)
  PROVE  /\ IsList(UnionPeople(base, seq))
         /\ StandFor(ToSet(UnionPeople(base, seq)), ToSet(base) \cup ToSet(seq))
<1> DEFINE n == Len(seq)
           all == UnionPeople(base, seq)
           SameAs(q, p) == q.name = p.name /\ q.role = p.role
<1>1. n \in Nat /\ DOMAIN seq = 1..n
  BY ListFacts
<1> HIDE DEF n
<1>2. PICK acc : JoinsAlong(acc, base, seq, n)
  BY <1>1, PersonSteps
<1>3. Grows(acc, base, seq, n)
  BY <1>2 DEF JoinsAlong, Grows, AddPerson
<1>4. \A k \in 0..n : /\ IsList(acc[k]) /\ ToSet(base) \subseteq ToSet(acc[k])
                      /\ ToSet(acc[k]) \subseteq ToSet(base) \cup ToSet(seq)
  BY <1>1, <1>3, Grown
<1> DEFINE G == {k \in 0..n : \A j \in 1..k : \E q \in ToSet(acc[k]) : SameAs(q, seq[j])}
<1>5. 0 \in G
  BY <1>1
<1>6. ASSUME NEW k \in 1..n, k - 1 \in G PROVE k \in G
  <2> DEFINE before == acc[k - 1]
             x == seq[k]
             after == acc[k]
  <2>1. k \in 0..n /\ k - 1 \in 0..n /\ \A j \in 1..k : j \in 1..(k - 1) \/ j = k
    BY <1>1
  <2>2. /\ IsList(before) /\ after = AddPerson(before, x)
        /\ \A j \in 1..(k - 1) : \E q \in ToSet(before) : SameAs(q, seq[j])
    BY <1>2, <1>4, <1>6, <2>1 DEF JoinsAlong
  <2> HIDE DEF before, after, x
  <2>3. ToSet(before) \subseteq ToSet(after) /\ \E q \in ToSet(after) : SameAs(q, x)
    <3>1. CASE \E i \in DOMAIN before : <<before[i].name, before[i].role>> = <<x.name, x.role>>
      <4>1. after = before
        BY <2>2, <3>1 DEF AddPerson
      <4> QED BY <3>1, <4>1 DEF ToSet
    <3>2. CASE ~ \E i \in DOMAIN before : <<before[i].name, before[i].role>> = <<x.name, x.role>>
      <4>1. after = Append(before, x)
        BY <2>2, <3>2 DEF AddPerson
      <4>2. ToSet(after) = ToSet(before) \cup {x}
        BY <2>2, <4>1, WithAppended
      <4> QED BY <4>2
    <3> QED BY <3>1, <3>2
  <2>4. \A j \in 1..k : \E q \in ToSet(after) : SameAs(q, seq[j])
    <3> TAKE j \in 1..k
    <3>1. CASE j = k
      BY <2>3, <3>1 DEF x
    <3>2. CASE j \in 1..(k - 1)
      <4>1. PICK q \in ToSet(before) : SameAs(q, seq[j])
        BY <2>2, <3>2
      <4> QED BY <2>3, <4>1
    <3> QED BY <2>1, <3>1, <3>2
  <2> QED BY <2>1, <2>4 DEF after
<1>7. n \in 0..n
  BY <1>1
<1>8. n \in G
  <2> HIDE DEF G
  <2> QED BY <1>1, <1>5, <1>6, <1>7, InductTo
<1>9. acc[n] = all
  BY <1>2 DEF JoinsAlong
<1> HIDE DEF all
<1>10. \A p \in ToSet(seq) : \E q \in ToSet(all) : SameAs(q, p)
  BY <1>1, <1>8, <1>9 DEF ToSet
<1>11. IsList(all) /\ ToSet(base) \subseteq ToSet(all) /\ ToSet(all) \subseteq ToSet(base) \cup ToSet(seq)
  BY <1>4, <1>7, <1>9
<1> QED BY <1>10, <1>11 DEF StandFor, all

\* People who stand for others, of whom some stand for more.
LEMMA StandTogether ==
  ASSUME NEW A, NEW B, NEW C, NEW D, StandFor(A, C), StandFor(B, D)
  PROVE  StandFor(A \cup B, C \cup D)
BY DEF StandFor

LEMMA StandInTurn ==
  ASSUME NEW A, NEW B, NEW C, StandFor(A, B), StandFor(B, C)
  PROVE  StandFor(A, C)
<1> SUFFICES ASSUME NEW p \in C PROVE \E q \in A : q.name = p.name /\ q.role = p.role
  BY DEF StandFor
<1>1. PICK r \in B : r.name = p.name /\ r.role = p.role
  BY DEF StandFor
<1>2. PICK q \in A : q.name = r.name /\ q.role = r.role
  BY DEF StandFor
<1> QED BY <1>1, <1>2

\* Talks with their speakers, and an event with all its people.
HasSpeakers(talk) == talk = [f \in TalkFields |-> talk[f]] /\ IsList(talk.speakers)
AreTalks(talks) == IsList(talks) /\ \A i \in DOMAIN talks : HasSpeakers(talks[i])
Speakers(talks) == UNION {ToSet(talks[i].speakers) : i \in DOMAIN talks}
Peopled(event) ==
  IsRecord(event) /\ event.id \in Nat /\ IsList(event.people) /\ AreTalks(event.talks)

\* The speakers of a merged talk stand for those of both.
LEMMA TalkStands ==
  ASSUME NEW a, HasSpeakers(a), NEW b, HasSpeakers(b)
  PROVE  /\ HasSpeakers(MergeTalk(a, b)) /\ MergeTalk(a, b).id = a.id
         /\ StandFor(ToSet(MergeTalk(a, b).speakers), ToSet(a.speakers) \cup ToSet(b.speakers))
<1> DEFINE u == UnionPeople(a.speakers, b.speakers)
           m == MergeTalk(a, b)
<1>1. IsList(u) /\ StandFor(ToSet(u), ToSet(a.speakers) \cup ToSet(b.speakers))
  BY UnitedStand DEF HasSpeakers
<1>2. PICK x, y, z : m = [a EXCEPT !.speakers = u, !.media = x, !.topics = y, !.abstract = z]
  <2> DEFINE x == UnionMedia(a.media, b.media)
             y == UnionTopics(a.topics, b.topics)
             z == IF a.abstract = Blank THEN b.abstract ELSE a.abstract
  <2>1. m = [a EXCEPT !.speakers = u, !.media = x, !.topics = y, !.abstract = z]
    BY Zenon DEF MergeTalk
  <2> HIDE DEF m, u, x, y, z
  <2> QED BY <2>1
<1> HIDE DEF m, u
<1>3. m = [f \in TalkFields |-> m[f]] /\ m.speakers = u /\ m.id = a.id
  BY <1>2 DEF HasSpeakers, TalkFields
<1> QED BY <1>1, <1>3 DEF HasSpeakers, m

\* The speakers of the talks stand for those there were and those of a talk that is added.
LEMMA AddedStand ==
  ASSUME NEW talks, AreTalks(talks), NEW talk, HasSpeakers(talk)
  PROVE  /\ AreTalks(AddTalk(talks, talk))
         /\ TalkIds(AddTalk(talks, talk)) = TalkIds(talks) \cup {talk.id}
         /\ StandFor(Speakers(AddTalk(talks, talk)), Speakers(talks) \cup ToSet(talk.speakers))
<1> DEFINE n == Len(talks)
           P == {i \in 1..n : talks[i].id = talk.id}
           same == SelectInSeq(talks, LAMBDA t : t.id = talk.id)
           next == AddTalk(talks, talk)
           merged == MergeTalk(talks[same], talk)
           now == ToSet(talk.speakers)
<1>1. /\ n \in Nat /\ DOMAIN talks = 1..n /\ talks = [i \in 1..n |-> talks[i]] /\ IsList(talks)
      /\ \A i \in 1..n : HasSpeakers(talks[i])
  BY ListFacts DEF AreTalks
<1>2. same # 0 => same \in 1..n /\ talks[same].id = talk.id
  <2>1. same = IF P # {} THEN Min(P) ELSE 0
    BY DEF SelectInSeq
  <2>2. P \in SUBSET (1..n) /\ \A i \in P : i \in 1..n /\ talks[i].id = talk.id
    OBVIOUS
  <2> HIDE DEF P, same, n
  <2>3. same # 0 => same \in P
    BY <1>1, <2>1, <2>2, FirstPosition
  <2> QED BY <2>2, <2>3
<1>3. next = IF same = 0 THEN Append(talks, talk) ELSE [talks EXCEPT ![same] = merged]
  BY Zenon DEF AddTalk
<1> HIDE DEF same, next, n
<1>4. CASE same = 0
  <2>1. next = Append(talks, talk)
    BY <1>3, <1>4
  <2>2. IsList(next)
    BY <1>1, <2>1, WithAppended
  <2>3. /\ next = [i \in 1..(n + 1) |-> next[i]] /\ next[n + 1] = talk
        /\ \A i \in 1..n : next[i] = talks[i]
    BY <1>1, <2>1, IndexedSeq
  <2>4. DOMAIN next = 1..(n + 1) /\ 1..(n + 1) = (1..n) \cup {n + 1}
    BY <1>1, <2>3
  <2>5. AreTalks(next)
    BY <1>1, <2>2, <2>3, <2>4 DEF AreTalks
  <2>6. \A p : p \in Speakers(next) <=> p \in Speakers(talks) \cup now
    <3> TAKE p
    <3>1. p \in Speakers(next) <=> \E i \in 1..(n + 1) : p \in ToSet(next[i].speakers)
      BY <2>4 DEF Speakers
    <3>2. p \in Speakers(talks) <=> \E i \in 1..n : p \in ToSet(talks[i].speakers)
      BY <1>1 DEF Speakers
    <3> QED BY <2>3, <2>4, <3>1, <3>2
  <2>7. Speakers(next) = Speakers(talks) \cup now
    <3> HIDE DEF now
    <3> QED BY <2>6
  <2>8. TalkIds(next) = TalkIds(talks) \cup {talk.id}
    <3>1. \A y : y \in TalkIds(next) <=> \E i \in 1..(n + 1) : y = next[i].id
      BY <2>4 DEF TalkIds
    <3>2. \A y : y \in TalkIds(talks) <=> \E i \in 1..n : y = talks[i].id
      BY <1>1 DEF TalkIds
    <3>3. \A i \in 1..(n + 1) : i \in 1..n \/ i = n + 1
      BY <1>1
    <3>4. \A i \in 1..n : next[i].id = talks[i].id
      BY <2>3
    <3>5. n + 1 \in 1..(n + 1) /\ next[n + 1].id = talk.id /\ \A i \in 1..n : i \in 1..(n + 1)
      <4>1. n \in Nat
        BY <1>1
      <4>2. n + 1 \in 1..(n + 1) /\ \A i \in 1..n : i \in 1..(n + 1)
        BY <4>1
      <4> QED BY <2>3, <4>2
    <3> HIDE DEF next, n
    <3> SUFFICES ASSUME NEW y PROVE y \in TalkIds(next) <=> y \in TalkIds(talks) \cup {talk.id}
      OBVIOUS
    <3> QED BY <3>1, <3>2, <3>3, <3>4, <3>5
  <2> QED BY <2>5, <2>7, <2>8 DEF StandFor, next
<1>5. CASE same # 0
  <2> DEFINE old == talks[same]
  <2>1. same \in 1..n /\ HasSpeakers(old) /\ old.id = talk.id
    BY <1>1, <1>2, <1>5
  <2>2. HasSpeakers(merged) /\ merged.id = old.id /\ StandFor(ToSet(merged.speakers), ToSet(old.speakers) \cup now)
    <3> HIDE DEF old
    <3>1. merged = MergeTalk(old, talk)
      BY DEF old
    <3> QED BY <2>1, <3>1, TalkStands
  <2> HIDE DEF merged
  <2>3. next = [talks EXCEPT ![same] = merged]
    BY <1>3, <1>5
  <2>4. /\ IsList(next) /\ DOMAIN next = 1..n /\ next[same] = merged
        /\ \A i \in 1..n : i # same => next[i] = talks[i]
    BY <1>1, <2>1, <2>3, ListFacts
  <2>5. AreTalks(next)
    BY <1>1, <2>2, <2>4 DEF AreTalks
  <2>6. ASSUME NEW p \in Speakers(next)
        PROVE  p \in Speakers(talks) \cup now
    <3>1. PICK i \in 1..n : p \in ToSet(next[i].speakers)
      BY <2>4 DEF Speakers
    <3>2. CASE i = same
      BY <1>1, <2>1, <2>2, <2>4, <3>1, <3>2 DEF StandFor, Speakers
    <3>3. CASE i # same
      BY <1>1, <2>4, <3>1, <3>3 DEF Speakers
    <3> QED BY <3>2, <3>3
  <2>7. ASSUME NEW p \in Speakers(talks) \cup now
        PROVE  \E q \in Speakers(next) : q.name = p.name /\ q.role = p.role
    <3>1. CASE p \in ToSet(old.speakers) \cup now
      <4>1. PICK q \in ToSet(merged.speakers) : q.name = p.name /\ q.role = p.role
        BY <2>2, <3>1 DEF StandFor
      <4>2. q \in Speakers(next)
        BY <2>1, <2>4, <4>1 DEF Speakers
      <4> QED BY <4>1, <4>2
    <3>2. CASE p \notin ToSet(old.speakers) \cup now
      <4>1. PICK i \in 1..n : p \in ToSet(talks[i].speakers)
        BY <1>1, <2>7, <3>2 DEF Speakers
      <4>2. i # same
        BY <3>2, <4>1
      <4>3. p \in Speakers(next)
        BY <2>4, <4>1, <4>2 DEF Speakers
      <4> QED BY <4>3
    <3> QED BY <3>1, <3>2
  <2>8. TalkIds(next) = TalkIds(talks) \cup {talk.id}
    <3>1. \A i \in 1..n : next[i].id = talks[i].id
      BY <2>1, <2>2, <2>4
    <3>2. TalkIds(next) = {talks[i].id : i \in 1..n}
      BY <2>4, <3>1 DEF TalkIds
    <3>3. TalkIds(talks) = {talks[i].id : i \in 1..n} /\ talk.id \in TalkIds(talks)
      BY <1>1, <2>1 DEF TalkIds
    <3> QED BY <3>2, <3>3
  <2> QED BY <2>5, <2>6, <2>7, <2>8 DEF StandFor, next
<1> QED BY <1>4, <1>5

\* So it is when several are added.
LEMMA AllAddedStand ==
  ASSUME NEW base, AreTalks(base), NEW seq, AreTalks(seq)
  PROVE  LET all == FoldLeft(AddTalk, base, seq)
         IN  /\ AreTalks(all) /\ TalkIds(all) = TalkIds(base) \cup TalkIds(seq)
             /\ StandFor(Speakers(all), Speakers(base) \cup Speakers(seq))
<1> DEFINE n == Len(seq)
           all == FoldLeft(AddTalk, base, seq)
           upto(k) == UNION {ToSet(seq[j].speakers) : j \in 1..k}
           ids(k) == {seq[j].id : j \in 1..k}
<1>1. n \in Nat /\ DOMAIN seq = 1..n /\ \A k \in 1..n : HasSpeakers(seq[k])
  BY ListFacts DEF AreTalks
<1> HIDE DEF n
<1>2. PICK acc : AddsAlong(acc, base, seq, n)
  BY <1>1, TalkSteps
<1> DEFINE G == {k \in 0..n : /\ AreTalks(acc[k]) /\ TalkIds(acc[k]) = TalkIds(base) \cup ids(k)
                              /\ StandFor(Speakers(acc[k]), Speakers(base) \cup upto(k))}
<1>3. 0 \in G
  <2>1. upto(0) = {} /\ ids(0) = {} /\ 0 \in 0..n
    BY <1>1
  <2>2. acc[0] = base
    BY <1>2 DEF AddsAlong
  <2> HIDE DEF upto, ids
  <2> QED BY <2>1, <2>2 DEF StandFor
<1>4. ASSUME NEW k \in 1..n, k - 1 \in G PROVE k \in G
  <2> DEFINE before == acc[k - 1]
             x == seq[k]
             after == acc[k]
             B == Speakers(base) \cup upto(k - 1)
             now == ToSet(x.speakers)
  <2>1. /\ k \in 0..n /\ AreTalks(before) /\ StandFor(Speakers(before), B) /\ HasSpeakers(x)
        /\ TalkIds(before) = TalkIds(base) \cup ids(k - 1)
    BY <1>1, <1>4
  <2>2. after = AddTalk(before, x)
    BY <1>2 DEF AddsAlong
  <2>3. upto(k) = upto(k - 1) \cup now
    <3>1. 1..k = (1..(k - 1)) \cup {k}
      BY <1>1
    <3> QED BY <3>1
  <2>8. ids(k) = ids(k - 1) \cup {x.id}
    <3>1. 1..k = (1..(k - 1)) \cup {k}
      BY <1>1
    <3> QED BY <3>1
  <2>4. Speakers(base) \cup upto(k) = B \cup now
    <3> HIDE DEF upto
    <3> QED BY <2>3
  <2> HIDE DEF before, after, x, B, now, upto, ids
  <2>5. /\ AreTalks(after) /\ StandFor(Speakers(after), Speakers(before) \cup now)
        /\ TalkIds(after) = TalkIds(before) \cup {x.id}
    BY <2>1, <2>2, AddedStand DEF now
  <2>6. StandFor(Speakers(before) \cup now, B \cup now)
    BY <2>1 DEF StandFor
  <2>7. StandFor(Speakers(after), B \cup now)
    BY <2>5, <2>6, StandInTurn
  <2>9. TalkIds(after) = TalkIds(base) \cup ids(k)
    BY <2>1, <2>5, <2>8
  <2> QED BY <2>1, <2>4, <2>5, <2>7, <2>9 DEF after
<1>5. n \in 0..n
  BY <1>1
<1>6. n \in G
  <2> HIDE DEF G
  <2> QED BY <1>1, <1>3, <1>4, <1>5, InductTo
<1>7. upto(n) = Speakers(seq) /\ ids(n) = TalkIds(seq)
  BY <1>1 DEF Speakers, TalkIds
<1>8. acc[n] = all
  BY <1>2 DEF AddsAlong
<1> HIDE DEF upto, ids
<1> QED BY <1>6, <1>7, <1>8

\* The people of a merged event stand for those of both.
LEMMA EventStands ==
  ASSUME NEW a, Peopled(a), NEW b, Peopled(b), a.url = b.url
  PROVE  /\ Peopled(MergeEvents(a, b)) /\ MergeEvents(a, b).url = a.url
         /\ TalkIds(MergeEvents(a, b).talks) = TalkIds(a.talks) \cup TalkIds(b.talks)
         /\ StandFor(AllPeople(MergeEvents(a, b)), AllPeople(a) \cup AllPeople(b))
<1> DEFINE keep  == IF a.id <= b.id THEN a ELSE b
           other == IF a.id <= b.id THEN b ELSE a
           x == MergeEvents(a, b)
           t == FoldLeft(AddTalk, keep.talks, other.talks)
           p == UnionPeople(keep.people, other.people)
<1>1. /\ Peopled(keep) /\ Peopled(other) /\ keep.url = a.url
      /\ AllPeople(keep) \cup AllPeople(other) = AllPeople(a) \cup AllPeople(b)
      /\ TalkIds(keep.talks) \cup TalkIds(other.talks) = TalkIds(a.talks) \cup TalkIds(b.talks)
  <2>1. (keep = a /\ other = b) \/ (keep = b /\ other = a)
    OBVIOUS
  <2> HIDE DEF keep, other
  <2> QED BY <2>1
<1>2. PICK s, m, o, l, d, w :
        x = [keep EXCEPT !.sources = s, !.media = m, !.talks = t, !.people = p, !.topics = o,
                         !.location = l, !.description = d, !.date = w]
  <2> DEFINE s == UnionBy(LAMBDA y : y, keep.sources, (IF a.id <= b.id THEN b ELSE a).sources)
             m == UnionMedia(keep.media, other.media)
             o == UnionTopics(keep.topics, other.topics)
             l == IF keep.location = Blank THEN other.location ELSE keep.location
             d == IF keep.description = Blank THEN other.description ELSE keep.description
             w == IF keep.date.start = None THEN other.date ELSE keep.date
  <2>1. x = [keep EXCEPT !.sources = s, !.media = m, !.talks = t, !.people = p, !.topics = o,
                         !.location = l, !.description = d, !.date = w]
    BY Zenon DEF MergeEvents
  <2> HIDE DEF x, keep, s, m, t, p, o, l, d, w
  <2> QED BY <2>1
<1> HIDE DEF keep, other
<1>3. /\ IsList(p) /\ StandFor(ToSet(p), ToSet(keep.people) \cup ToSet(other.people))
      /\ AreTalks(t) /\ StandFor(Speakers(t), Speakers(keep.talks) \cup Speakers(other.talks))
      /\ TalkIds(t) = TalkIds(keep.talks) \cup TalkIds(other.talks)
  BY <1>1, UnitedStand, AllAddedStand DEF Peopled
<1> HIDE DEF x, t, p
<1>4. IsRecord(x) /\ x.url = keep.url /\ x.id = keep.id /\ x.talks = t /\ x.people = p
  BY <1>1, <1>2 DEF Peopled, IsRecord, EventFields
<1>5. Peopled(x)
  BY <1>1, <1>3, <1>4 DEF Peopled
<1>6. \A e : AllPeople(e) = ToSet(e.people) \cup Speakers(e.talks)
  BY DEF AllPeople, Speakers
<1>7. StandFor(ToSet(p) \cup Speakers(t),
               (ToSet(keep.people) \cup ToSet(other.people))
               \cup (Speakers(keep.talks) \cup Speakers(other.talks)))
  BY <1>3, StandTogether
<1>8. AllPeople(x) = ToSet(p) \cup Speakers(t)
  BY <1>4, <1>6
<1>9. (ToSet(keep.people) \cup ToSet(other.people)) \cup (Speakers(keep.talks) \cup Speakers(other.talks))
        = AllPeople(a) \cup AllPeople(b)
  BY <1>1, <1>6
<1> QED BY <1>1, <1>3, <1>4, <1>5, <1>7, <1>8, <1>9 DEF x

\* The people of the first k events that have a URL.
Attending(seq, k, url) == UNION {AllPeople(seq[j]) : j \in {j \in 1..k : seq[j].url = url}}

\* The ids of their talks.
Announced(seq, k, url) == UNION {TalkIds(seq[j].talks) : j \in {j \in 1..k : seq[j].url = url}}

\* An event that has what the first k events of its URL have.
Sums(event, seq, k) ==
  /\ StandFor(AllPeople(event), Attending(seq, k, event.url))
  /\ TalkIds(event.talks) = Announced(seq, k, event.url)

\* Clusters of the first k events: one for each URL, with people who stand for theirs and
\* with their talks.
Gathered(clusters, m, seq, k) ==
  /\ IsCorpus(clusters, m) /\ \A i \in 1..m : Peopled(clusters[i])
  /\ \A i, j \in 1..m : clusters[i].url = clusters[j].url => i = j
  /\ \A j \in 1..k : \E i \in 1..m : clusters[i].url = seq[j].url
  /\ \A i \in 1..m : Sums(clusters[i], seq, k)

\* The people who attend an event more.
LEMMA OneMoreAttends ==
  ASSUME NEW seq, NEW k \in Nat \ {0}, NEW url
  PROVE  Attending(seq, k, url) = Attending(seq, k - 1, url)
                                  \cup (IF seq[k].url = url THEN AllPeople(seq[k]) ELSE {})
<1>1. \A j : j \in 1..k <=> j \in 1..(k - 1) \/ j = k
  OBVIOUS
<1>2. {j \in 1..k : seq[j].url = url}
        = {j \in 1..(k - 1) : seq[j].url = url} \cup (IF seq[k].url = url THEN {k} ELSE {})
  BY <1>1
<1>3. \A p : p \in Attending(seq, k, url)
               <=> p \in Attending(seq, k - 1, url)
                         \cup (IF seq[k].url = url THEN AllPeople(seq[k]) ELSE {})
  <2> TAKE p
  <2>1. p \in Attending(seq, k, url) <=> \E j \in 1..k : seq[j].url = url /\ p \in AllPeople(seq[j])
    BY DEF Attending
  <2>2. p \in Attending(seq, k - 1, url)
          <=> \E j \in 1..(k - 1) : seq[j].url = url /\ p \in AllPeople(seq[j])
    BY DEF Attending
  <2> QED BY <1>1, <2>1, <2>2
<1> DEFINE A == Attending(seq, k, url)
           B == Attending(seq, k - 1, url) \cup (IF seq[k].url = url THEN AllPeople(seq[k]) ELSE {})
<1>4. A = B
  <2>1. \A p : p \in A <=> p \in B
    BY <1>3
  <2> HIDE DEF A, B
  <2> QED BY <2>1
<1> QED BY <1>4

\* And their talks.
LEMMA OneMoreAnnounces ==
  ASSUME NEW seq, NEW k \in Nat \ {0}, NEW url
  PROVE  Announced(seq, k, url) = Announced(seq, k - 1, url)
                                  \cup (IF seq[k].url = url THEN TalkIds(seq[k].talks) ELSE {})
<1>1. \A j : j \in 1..k <=> j \in 1..(k - 1) \/ j = k
  OBVIOUS
<1>2. \A p : p \in Announced(seq, k, url)
               <=> p \in Announced(seq, k - 1, url)
                         \cup (IF seq[k].url = url THEN TalkIds(seq[k].talks) ELSE {})
  <2> TAKE p
  <2>1. p \in Announced(seq, k, url)
          <=> \E j \in 1..k : seq[j].url = url /\ p \in TalkIds(seq[j].talks)
    BY DEF Announced
  <2>2. p \in Announced(seq, k - 1, url)
          <=> \E j \in 1..(k - 1) : seq[j].url = url /\ p \in TalkIds(seq[j].talks)
    BY DEF Announced
  <2> QED BY <1>1, <2>1, <2>2
<1> DEFINE A == Announced(seq, k, url)
           B == Announced(seq, k - 1, url)
                \cup (IF seq[k].url = url THEN TalkIds(seq[k].talks) ELSE {})
<1>3. A = B
  <2>1. \A p : p \in A <=> p \in B
    BY <1>2
  <2> HIDE DEF A, B
  <2> QED BY <2>1
<1> QED BY <1>3

\* An event that is merged into clusters is gathered with them.
LEMMA MergeGathers ==
  ASSUME NEW seq, NEW k \in Nat \ {0}, NEW clusters, NEW m \in Nat,
         Gathered(clusters, m, seq, k - 1), Peopled(seq[k])
  PROVE  \E c \in Nat : Gathered(MergeInto(clusters, seq[k]), c, seq, k)
<1> DEFINE event == seq[k]
           same == OfUrl(clusters, event.url)
           next == MergeInto(clusters, event)
<1>0. /\ IsCorpus(clusters, m) /\ clusters = [i \in 1..m |-> clusters[i]] /\ Peopled(event)
      /\ \A i \in 1..m : Peopled(clusters[i])
      /\ \A i, j \in 1..m : clusters[i].url = clusters[j].url => i = j
      /\ \A j \in 1..(k - 1) : \E i \in 1..m : clusters[i].url = seq[j].url
      /\ \A i \in 1..m : Sums(clusters[i], seq, k - 1)
  BY DEF Gathered, IsCorpus
<1>1. next = IF same = 0 THEN Append(clusters, event)
             ELSE [clusters EXCEPT ![same] = MergeEvents(clusters[same], event)]
  BY Zenon DEF MergeInto, OfUrl
<1>2. /\ same = 0 => \A i \in 1..m : clusters[i].url # event.url
      /\ same # 0 => same \in 1..m /\ clusters[same].url = event.url
  BY <1>0, FirstOfUrl
<1>3. /\ \A url : url # event.url => /\ Attending(seq, k, url) = Attending(seq, k - 1, url)
                                      /\ Announced(seq, k, url) = Announced(seq, k - 1, url)
      /\ Attending(seq, k, event.url) = Attending(seq, k - 1, event.url) \cup AllPeople(event)
      /\ Announced(seq, k, event.url) = Announced(seq, k - 1, event.url) \cup TalkIds(event.talks)
  <2>1. \A url : Attending(seq, k, url) = Attending(seq, k - 1, url)
                                          \cup (IF event.url = url THEN AllPeople(event) ELSE {})
    BY OneMoreAttends
  <2>2. \A url : Announced(seq, k, url) = Announced(seq, k - 1, url)
                                          \cup (IF event.url = url THEN TalkIds(event.talks) ELSE {})
    BY OneMoreAnnounces
  <2> HIDE DEF event
  <2> QED BY <2>1, <2>2
<1>4. \A j \in 1..k : j \in 1..(k - 1) \/ seq[j] = event
  OBVIOUS
<1> HIDE DEF same, next, event
<1>5. CASE same = 0
  <2>1. next = Append(clusters, event)
    BY <1>1, <1>5
  <2>2. /\ next = [i \in 1..(m + 1) |-> next[i]] /\ next[m + 1] = event
        /\ \A i \in 1..m : next[i] = clusters[i]
    BY <1>0, <2>1, IndexedSeq
  <2>3. /\ m + 1 \in Nat /\ m + 1 \in 1..(m + 1) /\ \A i \in 1..m : i \in 1..(m + 1)
        /\ \A i \in 1..(m + 1) : i \in 1..m \/ i = m + 1
    OBVIOUS
  <2>4. \A i \in 1..m : clusters[i].url # event.url
    BY <1>2, <1>5
  <2>5. /\ \A i \in 1..(m + 1) : Peopled(next[i])
        /\ \A i, j \in 1..(m + 1) : next[i].url = next[j].url => i = j
    BY <1>0, <2>2, <2>3, <2>4
  <2>6. IsCorpus(next, m + 1)
    BY <2>2, <2>3, <2>5 DEF IsCorpus, Peopled
  <2>7. \A j \in 1..k : \E i \in 1..(m + 1) : next[i].url = seq[j].url
    <3> TAKE j \in 1..k
    <3>1. CASE j \in 1..(k - 1)
      BY <1>0, <2>2, <2>3, <3>1
    <3>2. CASE seq[j] = event
      BY <2>2, <2>3, <3>2
    <3> QED BY <1>4, <3>1, <3>2
  <2>8. /\ Attending(seq, k, event.url) = AllPeople(event)
        /\ Announced(seq, k, event.url) = TalkIds(event.talks)
    <3>1. Attending(seq, k - 1, event.url) = {} /\ Announced(seq, k - 1, event.url) = {}
      <4>1. \A j \in 1..(k - 1) : seq[j].url # event.url
        BY <1>0, <2>4
      <4> QED BY <4>1 DEF Attending, Announced
    <3> QED BY <1>3, <3>1
  <2>9. ASSUME NEW i \in 1..(m + 1)
        PROVE  Sums(next[i], seq, k)
    <3>1. CASE i \in 1..m
      BY <1>0, <1>3, <2>2, <2>4, <3>1 DEF Sums
    <3>2. CASE i = m + 1
      BY <2>2, <2>8, <3>2 DEF StandFor, Sums
    <3> QED BY <2>3, <3>1, <3>2
  <2>10. Gathered(next, m + 1, seq, k)
    BY <2>5, <2>6, <2>7, <2>9 DEF Gathered
  <2> QED BY <2>3, <2>10 DEF next, event
<1>6. CASE same # 0
  <2> DEFINE old == clusters[same]
             merged == MergeEvents(old, event)
  <2>1. same \in 1..m /\ old.url = event.url /\ Peopled(old)
    BY <1>0, <1>2, <1>6
  <2>2. /\ Peopled(merged) /\ merged.url = event.url
        /\ StandFor(AllPeople(merged), AllPeople(old) \cup AllPeople(event))
        /\ TalkIds(merged.talks) = TalkIds(old.talks) \cup TalkIds(event.talks)
    <3> HIDE DEF old
    <3> QED BY <1>0, <2>1, EventStands
  <2>3. /\ StandFor(AllPeople(old), Attending(seq, k - 1, event.url))
        /\ TalkIds(old.talks) = Announced(seq, k - 1, event.url)
    BY <1>0, <2>1 DEF Sums
  <2> HIDE DEF merged
  <2>4. next = [clusters EXCEPT ![same] = merged]
    BY <1>1, <1>6 DEF merged
  <2> HIDE DEF old
  <2>5. /\ next = [i \in 1..m |-> next[i]] /\ next[same] = merged
        /\ \A i \in 1..m : i # same => next[i] = clusters[i]
    BY <1>0, <2>1, <2>4
  <2>6. \A i \in 1..m : Peopled(next[i]) /\ next[i].url = clusters[i].url
    BY <1>0, <2>1, <2>2, <2>5 DEF old
  <2>7. IsCorpus(next, m) /\ \A i, j \in 1..m : next[i].url = next[j].url => i = j
    BY <1>0, <2>5, <2>6 DEF IsCorpus, Peopled
  <2>8. \A j \in 1..k : \E i \in 1..m : next[i].url = seq[j].url
    <3> TAKE j \in 1..k
    <3>1. CASE j \in 1..(k - 1)
      BY <1>0, <2>6, <3>1
    <3>2. CASE seq[j] = event
      BY <2>1, <2>2, <2>5, <3>2
    <3> QED BY <1>4, <3>1, <3>2
  <2>9. ASSUME NEW i \in 1..m
        PROVE  Sums(next[i], seq, k)
    <3>1. CASE i # same
      <4>1. next[i] = clusters[i] /\ clusters[i].url # event.url
        BY <1>0, <2>1, <2>5, <3>1 DEF old
      <4> QED BY <1>0, <1>3, <4>1 DEF Sums
    <3>2. CASE i = same
      <4> DEFINE A == AllPeople(old)
                 B == Attending(seq, k - 1, event.url)
                 C == AllPeople(event)
                 D == AllPeople(merged)
      <4>1. StandFor(D, A \cup C) /\ StandFor(A, B)
        BY <2>2, <2>3
      <4>2. StandFor(D, B \cup C)
        <5> HIDE DEF A, B, C, D
        <5>1. StandFor(C, C)
          BY DEF StandFor
        <5>2. StandFor(A \cup C, B \cup C)
          BY <4>1, <5>1, StandTogether
        <5> QED BY <4>1, <5>2, StandInTurn
      <4>3. next[i] = merged /\ Attending(seq, k, merged.url) = B \cup C
        BY <1>3, <2>2, <2>5, <3>2
      <4>4. TalkIds(merged.talks) = Announced(seq, k, merged.url)
        BY <1>3, <2>2, <2>3
      <4> HIDE DEF A, B, C, D
      <4>5. StandFor(D, Attending(seq, k, merged.url))
        BY <4>2, <4>3
      <4> QED BY <4>3, <4>4, <4>5 DEF D, Sums
    <3> QED BY <3>1, <3>2
  <2>10. Gathered(next, m, seq, k)
    BY <2>6, <2>7, <2>8, <2>9 DEF Gathered
  <2> QED BY <2>10 DEF next, event
<1> QED BY <1>5, <1>6

\* So the people of a merged event stand for those of all that it was merged from, and it
\* has their talks.
LEMMA MergeStandsForAll ==
  ASSUME NEW corpus, NEW n, IsCorpus(corpus, n), \A i \in 1..n : Peopled(corpus[i])
  PROVE  LET all == MergeDuplicates(corpus)
         IN  \A e \in ToSet(all) : Sums(e, corpus, n)
<1> DEFINE seq == InIdOrder(corpus)
           all == MergeDuplicates(corpus)
<1>1. /\ n \in Nat /\ IsCorpus(seq, n)
      /\ AllIn(corpus, seq, n) /\ AllIn(seq, corpus, n)
  <2>1. n \in Nat
    BY DEF IsCorpus
  <2> QED BY <2>1, SameInIdOrder
<1> HIDE DEF seq
<1>2. DOMAIN seq = 1..n /\ \A k \in 1..n : Peopled(seq[k])
  <2>1. seq = [i \in 1..n |-> seq[i]]
    BY <1>1 DEF IsCorpus
  <2>2. \A k \in 1..n : \E i \in 1..n : corpus[i] = seq[k]
    BY <1>1 DEF AllIn
  <2> QED BY <2>1, <2>2
<1>3. PICK acc : /\ acc[0] = <<>> /\ acc[n] = FoldLeft(MergeInto, <<>>, seq)
                 /\ \A k \in 1..n : acc[k] = MergeInto(acc[k - 1], seq[k])
  BY <1>1, <1>2, MergeSteps
<1> DEFINE G == {k \in 0..n : \E m \in Nat : Gathered(acc[k], m, seq, k)}
<1>4. 0 \in G
  <2>1. Gathered(<<>>, 0, seq, 0)
    BY DEF Gathered, IsCorpus
  <2>2. Gathered(acc[0], 0, seq, 0) /\ 0 \in 0..n /\ 0 \in Nat
    BY <1>1, <1>3, <2>1
  <2> QED BY <2>2
<1>5. ASSUME NEW k \in 1..n, k - 1 \in G PROVE k \in G
  <2> DEFINE before == acc[k - 1]
  <2>1. PICK m \in Nat : Gathered(before, m, seq, k - 1)
    BY <1>5
  <2>2. /\ acc[k] = MergeInto(before, seq[k]) /\ Peopled(seq[k]) /\ k \in 0..n
        /\ k \in Nat \ {0}
    BY <1>1, <1>2, <1>3
  <2> HIDE DEF before
  <2>3. PICK c \in Nat : Gathered(acc[k], c, seq, k)
    BY <2>1, <2>2, MergeGathers
  <2> QED BY <2>2, <2>3
<1>6. n \in 0..n
  BY <1>1
<1>7. n \in G
  <2> HIDE DEF G
  <2> QED BY <1>1, <1>4, <1>5, <1>6, InductTo
<1>8. all = acc[n]
  BY <1>3 DEF MergeDuplicates, seq
<1> HIDE DEF all
<1>9. PICK m \in Nat : Gathered(all, m, seq, n)
  BY <1>7, <1>8
<1>10. DOMAIN all = 1..m
  BY <1>9, IndexedSeq DEF Gathered, IsCorpus
<1>11. ASSUME NEW url PROVE Attending(seq, n, url) = Attending(corpus, n, url)
  <2>1. \A p : p \in Attending(seq, n, url) <=> \E j \in 1..n : seq[j].url = url /\ p \in AllPeople(seq[j])
    BY DEF Attending
  <2>2. \A p : p \in Attending(corpus, n, url)
                 <=> \E j \in 1..n : corpus[j].url = url /\ p \in AllPeople(corpus[j])
    BY DEF Attending
  <2>3. \A p : p \in Attending(seq, n, url) <=> p \in Attending(corpus, n, url)
    <3> TAKE p
    <3>1. ASSUME NEW j \in 1..n, seq[j].url = url, p \in AllPeople(seq[j])
          PROVE  \E i \in 1..n : corpus[i].url = url /\ p \in AllPeople(corpus[i])
      <4>1. PICK i \in 1..n : corpus[i] = seq[j]
        BY <1>1 DEF AllIn
      <4> QED BY <3>1, <4>1
    <3>2. ASSUME NEW i \in 1..n, corpus[i].url = url, p \in AllPeople(corpus[i])
          PROVE  \E j \in 1..n : seq[j].url = url /\ p \in AllPeople(seq[j])
      <4>1. PICK j \in 1..n : seq[j] = corpus[i]
        BY <1>1 DEF AllIn
      <4> QED BY <3>2, <4>1
    <3> QED BY <2>1, <2>2, <3>1, <3>2
  <2> DEFINE A == Attending(seq, n, url)
             B == Attending(corpus, n, url)
  <2>4. \A p : p \in A <=> p \in B
    BY <2>3
  <2>5. A = B
    <3> HIDE DEF A, B
    <3> QED BY <2>4
  <2> QED BY <2>5
<1>12. ASSUME NEW url PROVE Announced(seq, n, url) = Announced(corpus, n, url)
  <2>1. \A p : p \in Announced(seq, n, url)
                 <=> \E j \in 1..n : seq[j].url = url /\ p \in TalkIds(seq[j].talks)
    BY DEF Announced
  <2>2. \A p : p \in Announced(corpus, n, url)
                 <=> \E j \in 1..n : corpus[j].url = url /\ p \in TalkIds(corpus[j].talks)
    BY DEF Announced
  <2>3. \A p : p \in Announced(seq, n, url) <=> p \in Announced(corpus, n, url)
    <3> TAKE p
    <3>1. ASSUME NEW j \in 1..n, seq[j].url = url, p \in TalkIds(seq[j].talks)
          PROVE  \E i \in 1..n : corpus[i].url = url /\ p \in TalkIds(corpus[i].talks)
      <4>1. PICK i \in 1..n : corpus[i] = seq[j]
        BY <1>1 DEF AllIn
      <4> QED BY <3>1, <4>1
    <3>2. ASSUME NEW i \in 1..n, corpus[i].url = url, p \in TalkIds(corpus[i].talks)
          PROVE  \E j \in 1..n : seq[j].url = url /\ p \in TalkIds(seq[j].talks)
      <4>1. PICK j \in 1..n : seq[j] = corpus[i]
        BY <1>1 DEF AllIn
      <4> QED BY <3>2, <4>1
    <3> QED BY <2>1, <2>2, <3>1, <3>2
  <2> DEFINE A == Announced(seq, n, url)
             B == Announced(corpus, n, url)
  <2>4. \A p : p \in A <=> p \in B
    BY <2>3
  <2>5. A = B
    <3> HIDE DEF A, B
    <3> QED BY <2>4
  <2> QED BY <2>5
<1>13. \A i \in 1..m : Sums(all[i], seq, n)
  BY <1>9 DEF Gathered
<1>14. \A i \in 1..m : Sums(all[i], corpus, n)
  BY <1>11, <1>12, <1>13 DEF Sums
<1> QED BY <1>10, <1>14 DEF ToSet, all

\* A laureate is among those who speak.
Billed(people) == \E p \in people : Speaks(p) /\ IsLaureate(p.name)

\* Of one role, and laureates or not by their names.
Alike(q, p) == q.role = p.role /\ (IsLaureate(q.name) <=> IsLaureate(p.name))

\* An event whose people are as an adapter listed them.
Listed(event) ==
  /\ IsRecord(event) /\ event.id \in Nat /\ AreListed(event.people) /\ IsList(event.talks)
  /\ \A i \in DOMAIN event.talks : /\ event.talks[i] = [f \in TalkFields |-> event.talks[i][f]]
                                   /\ AreListed(event.talks[i].speakers)

LEMMA AllPeopleOf ==
  ASSUME NEW e
  PROVE  AllPeople(e) = ToSet(e.people) \cup Speakers(e.talks)
BY DEF AllPeople, Speakers

LEMMA ListedIsList ==
  ASSUME NEW people, AreListed(people)
  PROVE  IsList(people)
<1>1. people \in Seq(ToSet(people))
  BY DEF AreListed
<1>2. Len(people) \in Nat /\ people = [i \in 1..Len(people) |-> people[i]]
  BY <1>1, LenProperties
<1> QED BY <1>2 DEF IsList

\* The topics leave the people alone.
LEMMA TopicsKeepPeople ==
  ASSUME NEW e, NEW source, IsCandidate(e, source)
  PROVE  LET t == EnrichTopics(e)
         IN  /\ Listed(t) /\ t.url = e.url /\ AllPeople(t) = AllPeople(e)
             /\ TalkIds(t.talks) = TalkIds(e.talks)
<1> DEFINE t == EnrichTopics(e)
           n == Len(e.talks)
<1>1. /\ IsRecord(e) /\ e.id \in Nat /\ AreListed(e.people)
      /\ e.talks \in Seq(ToSet(e.talks))
      /\ \A k \in ToSet(e.talks) : k = [f \in TalkFields |-> k[f]] /\ AreListed(k.speakers)
  BY DEF IsCandidate, IsRecord
<1>2. n \in Nat /\ DOMAIN e.talks = 1..n /\ e.talks = [i \in 1..n |-> e.talks[i]]
  BY <1>1, LenProperties
<1> HIDE DEF n
<1>3. \A i \in 1..n : e.talks[i] = [f \in TalkFields |-> e.talks[i][f]] /\ AreListed(e.talks[i].speakers)
  <2>1. \A i \in 1..n : e.talks[i] \in ToSet(e.talks)
    BY <1>2 DEF ToSet
  <2> QED BY <1>1, <2>1
<1>4. CASE Topics = <<>>
  <2>1. t = e
    BY <1>4, Zenon DEF EnrichTopics
  <2>2. Listed(e)
    BY <1>1, <1>2, <1>3 DEF Listed, IsList
  <2> QED BY <2>1, <2>2
<1>5. CASE Topics # <<>>
  <2> DEFINE talks == [i \in DOMAIN e.talks |-> [e.talks[i] EXCEPT !.topics = TalkTopics(e.talks[i])]]
  <2>1. PICK c : t = [e EXCEPT !.talks = talks, !.topics = c]
    BY <1>5, Zenon DEF EnrichTopics
  <2>2. talks = [i \in 1..n |-> talks[i]] /\ DOMAIN talks = 1..n
    BY <1>2
  <2>3. ASSUME NEW i \in 1..n
        PROVE  /\ talks[i] = [f \in TalkFields |-> talks[i][f]]
               /\ talks[i].speakers = e.talks[i].speakers /\ talks[i].id = e.talks[i].id
    <3> DEFINE k == e.talks[i]
               y == TalkTopics(k)
               new == [k EXCEPT !.topics = y]
    <3>1. k = [f \in TalkFields |-> k[f]] /\ talks[i] = new
      BY <1>2, <1>3
    <3> HIDE DEF k, y, talks
    <3>2. new = [f \in TalkFields |-> new[f]] /\ new.speakers = k.speakers /\ new.id = k.id
      BY <3>1 DEF TalkFields
    <3> QED BY <3>1, <3>2 DEF k
  <2> HIDE DEF talks, t
  <2>4. /\ IsRecord(t) /\ t.talks = talks /\ t.people = e.people /\ t.url = e.url /\ t.id = e.id
    BY <1>1, <2>1 DEF IsRecord, EventFields
  <2>5. Listed(t)
    BY <1>1, <1>2, <1>3, <2>2, <2>3, <2>4 DEF Listed, IsList
  <2>6. \A p : p \in Speakers(talks) <=> p \in Speakers(e.talks)
    <3> TAKE p
    <3>1. p \in Speakers(talks) <=> \E i \in 1..n : p \in ToSet(talks[i].speakers)
      BY <2>2 DEF Speakers
    <3>2. p \in Speakers(e.talks) <=> \E i \in 1..n : p \in ToSet(e.talks[i].speakers)
      BY <1>2 DEF Speakers
    <3> QED BY <2>3, <3>1, <3>2
  <2>7. Speakers(talks) = Speakers(e.talks)
    BY <2>6
  <2>8. AllPeople(t) = AllPeople(e)
    BY <2>4, <2>7, AllPeopleOf
  <2>9. TalkIds(t.talks) = TalkIds(e.talks)
    <3>2. TalkIds(talks) = {talks[i].id : i \in 1..n} /\ TalkIds(e.talks) = {e.talks[i].id : i \in 1..n}
      BY <1>2, <2>2 DEF TalkIds
    <3>3. \A i \in 1..n : talks[i].id = e.talks[i].id
      BY <2>3
    <3>1. TalkIds(talks) = TalkIds(e.talks)
      BY <3>2, <3>3
    <3> QED BY <2>4, <3>1
  <2> QED BY <2>4, <2>5, <2>8, <2>9 DEF t
<1> QED BY <1>4, <1>5

\* A list that is enriched has the tags, and the same speakers.
LEMMA ListIsTagged ==
  ASSUME NamesTellApart, NEW people, AreListed(people)
  PROVE  LET now == EnrichPeople(people)
         IN  /\ IsList(now) /\ AreTagged(ToSet(now))
             /\ \A p \in ToSet(people) : \E q \in ToSet(now) : Alike(q, p)
             /\ \A q \in ToSet(now) : \E p \in ToSet(people) : Alike(q, p)
<1> DEFINE n == Len(people)
           now == EnrichPeople(people)
<1>1. n \in Nat /\ DOMAIN people = 1..n /\ \A i \in 1..n : people[i] \in ToSet(people)
  BY ListedIsList, ListFacts DEF ToSet
<1>2. now = [i \in 1..n |-> EnrichPerson(people[i])]
  BY <1>1 DEF EnrichPeople
<1> HIDE DEF n, now
<1>3. DOMAIN now = 1..n /\ IsList(now)
  BY <1>1, <1>2 DEF IsList
<1>4. ASSUME NEW i \in 1..n
      PROVE  Alike(now[i], people[i]) /\ (Laureate(now[i]) <=> IsLaureate(now[i].name))
  <2> DEFINE p == people[i]
             q == EnrichPerson(p)
  <2>1. p = [f \in PersonFields |-> p[f]] /\ p.tags = {} /\ now[i] = q
    BY <1>1, <1>2 DEF AreListed
  <2> HIDE DEF p
  <2>2. /\ q.role = p.role
        /\ Laureate(q) <=> IsLaureate(q.name)
        /\ IsLaureate(q.name) <=> IsLaureate(p.name)
    BY <2>1, PersonIsTagged
  <2> HIDE DEF q
  <2> QED BY <2>1, <2>2 DEF Alike, p
<1>5. AreTagged(ToSet(now))
  BY <1>3, <1>4 DEF AreTagged, ToSet
<1>6. \A p \in ToSet(people) : \E q \in ToSet(now) : Alike(q, p)
  BY <1>1, <1>3, <1>4 DEF ToSet
<1>7. \A q \in ToSet(now) : \E p \in ToSet(people) : Alike(q, p)
  BY <1>1, <1>3, <1>4 DEF ToSet
<1> QED BY <1>3, <1>5, <1>6, <1>7 DEF now

\* Without scholars nobody is a laureate.
LEMMA NoLaureates ==
  ASSUME Scholars = <<>>
  PROVE  /\ \A name : ~ IsLaureate(name)
         /\ \A people : AreListed(people) => AreTagged(ToSet(people))
<1>1. LaureateNames = {}
  BY DEF LaureateNames, ToSet
<1>2. \A name : ~ IsLaureate(name)
  BY <1>1 DEF IsLaureate
<1>3. \A p : p.tags = {} => ~ Laureate(p)
  BY DEF Laureate
<1> QED BY <1>2, <1>3 DEF AreListed, AreTagged

\* Scholars are found among the people of an event, and no laureate comes or goes.
LEMMA ScholarsAreTagged ==
  ASSUME NamesTellApart, NEW e, Listed(e)
  PROVE  LET x == EnrichScholars(e)
         IN  /\ Peopled(x) /\ x.url = e.url /\ AreTagged(AllPeople(x))
             /\ TalkIds(x.talks) = TalkIds(e.talks)
             /\ Billed(AllPeople(x)) <=> Billed(AllPeople(e))
<1> DEFINE x == EnrichScholars(e)
           n == Len(e.talks)
<1>1. /\ IsRecord(e) /\ e.id \in Nat /\ AreListed(e.people) /\ IsList(e.talks)
      /\ n \in Nat /\ DOMAIN e.talks = 1..n
      /\ \A i \in 1..n : e.talks[i] = [f \in TalkFields |-> e.talks[i][f]] /\ AreListed(e.talks[i].speakers)
  BY ListFacts DEF Listed
<1> HIDE DEF n
<1>2. CASE Scholars = <<>>
  <2>1. x = e
    BY <1>2, Zenon DEF EnrichScholars
  <2>2. Peopled(e)
    BY <1>1, ListedIsList DEF Peopled, AreTalks, HasSpeakers
  <2>3. AreTagged(ToSet(e.people)) /\ \A i \in 1..n : AreTagged(ToSet(e.talks[i].speakers))
    BY <1>1, <1>2, NoLaureates
  <2>4. AreTagged(AllPeople(e))
    <3>1. \A p \in AllPeople(e) : p \in ToSet(e.people) \/ \E i \in 1..n : p \in ToSet(e.talks[i].speakers)
      BY <1>1 DEF AllPeople
    <3> QED BY <2>3, <3>1 DEF AreTagged
  <2> HIDE DEF x
  <2> QED BY <2>1, <2>2, <2>4 DEF x
<1>3. CASE Scholars # <<>>
  <2> DEFINE talks == [i \in DOMAIN e.talks |->
                         [e.talks[i] EXCEPT !.speakers = EnrichPeople(e.talks[i].speakers)]]
             now == EnrichPeople(e.people)
             all == FoldLeft(AddHit, now, TitleHits(e.title))
  <2>1. x = [e EXCEPT !.talks = talks, !.people = all]
    BY <1>3, Zenon DEF EnrichScholars
  <2>2. /\ IsList(now) /\ AreTagged(ToSet(now))
        /\ \A p \in ToSet(e.people) : \E q \in ToSet(now) : Alike(q, p)
        /\ \A q \in ToSet(now) : \E p \in ToSet(e.people) : Alike(q, p)
    BY <1>1, ListIsTagged
  <2> HIDE DEF now
  <2>3. /\ IsList(all) /\ ToSet(now) \subseteq ToSet(all)
        /\ \A p \in ToSet(all) : Speaks(p) => p \in ToSet(now)
    BY <2>2, HitsAreSilent
  <2> HIDE DEF all
  <2>4. talks = [i \in 1..n |-> talks[i]] /\ DOMAIN talks = 1..n
    BY <1>1
  <2>5. ASSUME NEW i \in 1..n
        PROVE  /\ HasSpeakers(talks[i]) /\ AreTagged(ToSet(talks[i].speakers))
               /\ talks[i].id = e.talks[i].id
               /\ \A p \in ToSet(e.talks[i].speakers) : \E q \in ToSet(talks[i].speakers) : Alike(q, p)
               /\ \A q \in ToSet(talks[i].speakers) : \E p \in ToSet(e.talks[i].speakers) : Alike(q, p)
    <3> DEFINE k == e.talks[i]
               y == EnrichPeople(k.speakers)
               new == [k EXCEPT !.speakers = y]
    <3>1. k = [f \in TalkFields |-> k[f]] /\ AreListed(k.speakers) /\ talks[i] = new
      BY <1>1
    <3> HIDE DEF k, talks
    <3>2. /\ IsList(y) /\ AreTagged(ToSet(y))
          /\ \A p \in ToSet(k.speakers) : \E q \in ToSet(y) : Alike(q, p)
          /\ \A q \in ToSet(y) : \E p \in ToSet(k.speakers) : Alike(q, p)
      BY <3>1, ListIsTagged
    <3> HIDE DEF y
    <3>3. new = [f \in TalkFields |-> new[f]] /\ new.speakers = y /\ new.id = k.id
      BY <3>1 DEF TalkFields
    <3> HIDE DEF new
    <3> QED BY <3>1, <3>2, <3>3 DEF HasSpeakers, k
  <2> HIDE DEF talks, x
  <2>6. IsRecord(x) /\ x.talks = talks /\ x.people = all /\ x.url = e.url /\ x.id = e.id
    BY <1>1, <2>1 DEF IsRecord, EventFields
  <2>7. Peopled(x)
    BY <1>1, <2>3, <2>4, <2>5, <2>6 DEF Peopled, AreTalks, IsList
  <2>8. \A p : p \in AllPeople(x) <=> p \in ToSet(all) \/ \E i \in 1..n : p \in ToSet(talks[i].speakers)
    BY <2>4, <2>6 DEF AllPeople
  <2>9. \A p : p \in AllPeople(e) <=> p \in ToSet(e.people) \/ \E i \in 1..n : p \in ToSet(e.talks[i].speakers)
    BY <1>1 DEF AllPeople
  <2>10. ASSUME NEW q \in AllPeople(x), Speaks(q)
         PROVE  /\ Laureate(q) <=> IsLaureate(q.name)
                /\ \E p \in AllPeople(e) : Alike(q, p)
    <3>1. CASE q \in ToSet(now)
      BY <2>2, <2>9, <2>10, <3>1 DEF AreTagged
    <3>2. CASE \E i \in 1..n : q \in ToSet(talks[i].speakers)
      <4>1. PICK i \in 1..n : q \in ToSet(talks[i].speakers)
        BY <3>2
      <4> QED BY <2>5, <2>9, <2>10, <4>1 DEF AreTagged
    <3> QED BY <2>3, <2>8, <2>10, <3>1, <3>2
  <2>11. ASSUME NEW p \in AllPeople(e)
         PROVE  \E q \in AllPeople(x) : Alike(q, p)
    <3>1. CASE p \in ToSet(e.people)
      BY <2>2, <2>3, <2>8, <3>1
    <3>2. CASE \E i \in 1..n : p \in ToSet(e.talks[i].speakers)
      <4>1. PICK i \in 1..n : p \in ToSet(e.talks[i].speakers)
        BY <3>2
      <4> QED BY <2>5, <2>8, <4>1
    <3> QED BY <2>9, <3>1, <3>2
  <2>12. AreTagged(AllPeople(x))
    BY <2>10 DEF AreTagged
  <2>13. Billed(AllPeople(x)) <=> Billed(AllPeople(e))
    BY <2>10, <2>11 DEF Billed, Alike, Speaks
  <2>14. TalkIds(x.talks) = TalkIds(e.talks)
    <3>1. TalkIds(talks) = {e.talks[i].id : i \in 1..n} /\ TalkIds(e.talks) = {e.talks[i].id : i \in 1..n}
      BY <1>1, <2>4, <2>5 DEF TalkIds
    <3> QED BY <2>6, <3>1
  <2> QED BY <2>6, <2>7, <2>12, <2>13, <2>14 DEF x
<1> QED BY <1>2, <1>3

\* So it is for a candidate that is enriched.
LEMMA CandidateIsTagged ==
  ASSUME NamesTellApart, NEW e, NEW source, IsCandidate(e, source)
  PROVE  LET x == EnrichScholars(EnrichTopics(e))
         IN  /\ Peopled(x) /\ x.url = e.url /\ AreTagged(AllPeople(x))
             /\ TalkIds(x.talks) = TalkIds(e.talks)
             /\ Billed(AllPeople(x)) <=> Billed(AllPeople(e))
<1> DEFINE t == EnrichTopics(e)
<1>1. /\ Listed(t) /\ t.url = e.url /\ AllPeople(t) = AllPeople(e)
      /\ TalkIds(t.talks) = TalkIds(e.talks)
  BY TopicsKeepPeople
<1> HIDE DEF t
<1>2. /\ Peopled(EnrichScholars(t)) /\ EnrichScholars(t).url = t.url
      /\ AreTagged(AllPeople(EnrichScholars(t))) /\ TalkIds(EnrichScholars(t).talks) = TalkIds(t.talks)
      /\ Billed(AllPeople(EnrichScholars(t))) <=> Billed(AllPeople(t))
  BY <1>1, ScholarsAreTagged
<1> QED BY <1>1, <1>2 DEF t

\* The greatest signal is that of a laureate who speaks.
LEMMA LaureatesSignal ==
  ASSUME NEW people
  PROVE  Highest({PersonSignal(p) : p \in people}) = 10 <=> \E p \in people : Speaks(p) /\ Laureate(p)
<1> DEFINE S == {PersonSignal(p) : p \in people} \cup {0}
           top == Highest({PersonSignal(p) : p \in people})
<1>1. \A p : /\ PersonSignal(p) \in {0, 3, 5, 10}
             /\ PersonSignal(p) = 10 <=> Speaks(p) /\ Laureate(p)
  BY DEF PersonSignal, Speaks
<1>2. S \subseteq {0, 3, 5, 10} /\ 0 \in S
  BY <1>1
<1>3. 10 \in S <=> \E p \in people : Speaks(p) /\ Laureate(p)
  BY <1>1
<1>4. top = CHOOSE y \in S : \A z \in S : y >= z
  BY DEF Highest, Max
<1> HIDE DEF S, top
<1>5. \E y \in S : \A z \in S : y >= z
  <2>1. CASE 10 \in S
    BY <1>2, <2>1
  <2>2. CASE 10 \notin S /\ 5 \in S
    BY <1>2, <2>2
  <2>3. CASE 10 \notin S /\ 5 \notin S /\ 3 \in S
    BY <1>2, <2>3
  <2>4. CASE 10 \notin S /\ 5 \notin S /\ 3 \notin S
    BY <1>2, <2>4
  <2> QED BY <2>1, <2>2, <2>3, <2>4
<1>6. top \in S /\ \A z \in S : top >= z
  BY <1>4, <1>5
<1>7. top = 10 <=> 10 \in S
  BY <1>2, <1>6
<1> QED BY <1>3, <1>7 DEF top

-----------------------------------------------------------------------------
(* The corpus from phase to phase.                                         *)

\* Candidates, enriched.
Enriched(corpus) == [i \in DOMAIN corpus |-> EnrichScholars(EnrichTopics(corpus[i]))]

Joined == MergeDuplicates(Enriched(Fetched))

\* What the corpus is in each phase: from the merge on it changes once, when the state
\* gives it back.
CorpusInv ==
  /\ scenario \in Scenarios /\ results \in scenario.runs
  /\ pc = "cap" => events = Found
  /\ pc = "enrich" => events = Fetched
  /\ pc = "merge" => events = Enriched(Fetched)
  /\ pc \in {"persist", "store"} => events = Joined
  /\ pc \in {"present", "render"} =>
       \/ stored = NotStored /\ events = Joined
       \/ /\ stored # NotStored /\ events = ReturnedAll(Joined, stored.previous, health)
          /\ \A e \in DOMAIN events : IsPrevious(stored.previous[e])

LEMMA CorpusStays ==
  ASSUME UNCHANGED inputs
  PROVE  Found' = Found /\ Fetched' = Fetched /\ Enriched(Fetched)' = Enriched(Fetched) /\ Joined' = Joined
<1>1. Found' = Found /\ Fetched' = Fetched
  BY ResultsStay DEF Fetched
<1>2. Enriched(Fetched)' = Enriched(Fetched)
  BY <1>1 DEF Enriched
<1> QED BY <1>1, <1>2 DEF Joined

LEMMA NextKeepsCorpusInv ==
  ASSUME CorpusInv, ExitInv, FilesInv, TablesInv, OutputInv, [Next]_vars
  PROVE  CorpusInv'
<1>1. CASE UNCHANGED scanVars
  <2>1. UNCHANGED <<scenario, results, pc, events, stored, health>>
    BY <1>1 DEF scanVars
  <2> QED BY <2>1, CorpusStays DEF CorpusInv, ReturnedAll
<1>2. Fetched = FirstOf(Found, MaxGlobalCandidates)
  BY DEF Fetched, Found, Candidates
<1>3. CASE FetchAll
  <2>1. UNCHANGED inputs /\ events' = Found /\ pc' = "cap"
    BY <1>3 DEF FetchAll, Found, Candidates
  <2> QED BY <2>1, CorpusStays DEF CorpusInv
<1>4. CASE Cap
  <2>1. UNCHANGED inputs /\ events' = Fetched /\ pc' = "enrich"
    BY <1>2, <1>4 DEF Cap, CorpusInv
  <2> QED BY <2>1, CorpusStays DEF CorpusInv
<1>5. CASE Enrich
  <2>1. UNCHANGED inputs /\ events' = Enriched(Fetched) /\ pc' = "merge"
    BY <1>5 DEF Enrich, CorpusInv, Enriched
  <2> QED BY <2>1, CorpusStays DEF CorpusInv
<1>6. CASE Merge
  <2>1. UNCHANGED inputs /\ events' = Joined /\ pc' = "persist"
    BY <1>6 DEF Merge, CorpusInv, Joined
  <2> QED BY <2>1, CorpusStays DEF CorpusInv
<1>7. CASE SkipState \/ OpenState \/ OpenFails \/ OpenFailsHalfway
  <2>1. /\ UNCHANGED inputs /\ pc = "persist" /\ pc' \in {"store", "present", "exited"}
        /\ UNCHANGED <<events, stored>>
    BY <1>7 DEF SkipState, OpenState, OpenFails, OpenFailsHalfway, Exit
  <2>2. stored = NotStored
    BY <2>1 DEF ExitInv, PhasesInOrder
  <2> QED BY <2>1, <2>2, CorpusStays DEF CorpusInv
<1>8. CASE StoreBundle
  <2>1. /\ UNCHANGED inputs /\ pc = "store" /\ pc' = "present" /\ health' = health
        /\ stored' = [ids |-> {events[e].id : e \in DOMAIN events}, health |-> ToSet(health),
                      aliases |-> aliases, previous |-> Previous]
    BY <1>8 DEF StoreBundle
  <2>2. stored'.previous = Previous /\ stored' # NotStored
    BY <2>1 DEF NotStored
  <2>3. events = Joined
    BY <2>1 DEF CorpusInv
  <2>4. /\ events' = ReturnedAll(events, Previous, health)
        /\ \A e \in DOMAIN events : IsPrevious(Previous[e])
    BY <1>8, StoreReturns
  <2>5. DOMAIN events' = DOMAIN events
    BY <2>4 DEF ReturnedAll
  <2>6. events' = ReturnedAll(Joined', stored'.previous, health')
    BY <2>1, <2>2, <2>3, <2>4, CorpusStays
  <2>7. \A e \in DOMAIN events' : IsPrevious(stored'.previous[e])
    BY <2>2, <2>4, <2>5
  <2> QED BY <2>1, <2>2, <2>6, <2>7 DEF CorpusInv, ReturnedAll
<1>9. CASE Present
  <2>1. /\ UNCHANGED inputs /\ pc = "present" /\ pc' = "render"
        /\ UNCHANGED <<events, stored, health>>
    BY <1>9 DEF Present
  <2> QED BY <2>1, CorpusStays DEF CorpusInv, ReturnedAll
<1>10. CASE PowerLoss
  <2>1. UNCHANGED <<scenario, results, events, stored, health>> /\ pc' \in {pc, "dead"}
    BY <1>10 DEF PowerLoss
  <2> QED BY <2>1, CorpusStays DEF CorpusInv, ReturnedAll
<1>11. CASE Load \/ ClientFails \/ NothingFetched \/ StoreFails \/ Render \/ RenderFails \/ Kill
            \/ ScanAgain
  <2>1. /\ pc' \in {"load", "fetch", "exited", "dead"}
        /\ scenario' = scenario /\ results' \in scenario.runs
    BY <1>11 DEF Load, ClientFails, NothingFetched, StoreFails, Render, RenderFails, Kill, ScanAgain,
                 Exit, Running, CorpusInv
  <2> QED BY <2>1 DEF CorpusInv
<1> QED BY <1>1, <1>3, <1>4, <1>5, <1>6, <1>7, <1>8, <1>9, <1>10, <1>11 DEF Next, ScanNext, vars

\* What is fetched are candidates.
LEMMA FetchedTyped ==
  ASSUME scenario \in Scenarios, results \in scenario.runs
  PROVE  \E n \in Nat : /\ Fetched = [i \in 1..n |-> Fetched[i]]
                        /\ \A i \in 1..n : \E source : IsCandidate(Fetched[i], source)
<1> DEFINE cap == MaxGlobalCandidates
           f == Len(Found)
           n == CutAt(f, cap)
<1>1. /\ f \in Nat /\ Found = [p \in 1..f |-> Found[p]]
      /\ \A p \in 1..f : \E source : IsCandidate(Found[p], source)
  BY FoundTyped
<1>2. cap \in Nat
  BY ResultAssumption
<1>3. Fetched = FirstOf(Found, cap)
  BY DEF Fetched, Found, Candidates
<1> HIDE DEF f, cap
<1>4. n \in 0..f /\ Fetched = Leading(Found, n)
  BY <1>1, <1>2, <1>3, FirstOfPrefix
<1> HIDE DEF n
<1>5. n \in Nat /\ Fetched = [i \in 1..n |-> Found[i]] /\ \A i \in 1..n : i \in 1..f
  BY <1>1, <1>4 DEF Leading
<1>6. Fetched = [i \in 1..n |-> Fetched[i]]
  BY <1>5
<1>7. ASSUME NEW i \in 1..n PROVE \E source : IsCandidate(Fetched[i], source)
  <2>1. i \in 1..f /\ Fetched[i] = Found[i]
    BY <1>5
  <2> HIDE DEF Fetched, Found, IsCandidate
  <2> QED BY <1>1, <2>1
<1> QED BY <1>5, <1>6, <1>7

\* The parts of an event.
PartsOf(url) == {c \in ToSet(Fetched) : c.url = url}

Listing(parts) == UNION {TalkIds(c.talks) : c \in parts}

HasLaureate(people) == \E p \in people : Speaks(p) /\ Laureate(p)

\* A merged event has been credited with the laureates of its parts, and has their talks.
LEMMA JoinedOfParts ==
  ASSUME NamesTellApart, scenario \in Scenarios, results \in scenario.runs
  PROVE  /\ \E m \in Nat : AreCountable(Joined, m)
         /\ \A e \in ToSet(Joined) :
              /\ HasLaureate(AllPeople(e)) <=> \E c \in PartsOf(e.url) : Billed(AllPeople(c))
              /\ TalkIds(e.talks) = Listing(PartsOf(e.url))
<1> DEFINE rich == Enriched(Fetched)
<1>1. PICK n \in Nat : /\ Fetched = [i \in 1..n |-> Fetched[i]]
                       /\ \A i \in 1..n : \E source : IsCandidate(Fetched[i], source)
  BY FetchedTyped
<1>2. rich = [i \in 1..n |-> EnrichScholars(EnrichTopics(Fetched[i]))]
  <2>1. DOMAIN Fetched = 1..n
    BY <1>1
  <2> QED BY <2>1 DEF Enriched
<1> HIDE DEF rich
<1>3. ASSUME NEW i \in 1..n
      PROVE  /\ Peopled(rich[i]) /\ rich[i].url = Fetched[i].url /\ AreTagged(AllPeople(rich[i]))
             /\ TalkIds(rich[i].talks) = TalkIds(Fetched[i].talks)
             /\ Billed(AllPeople(rich[i])) <=> Billed(AllPeople(Fetched[i]))
             /\ Countable(rich[i])
  <2> DEFINE c == Fetched[i]
  <2>1. PICK source : IsCandidate(c, source)
    BY <1>1
  <2>2. rich[i] = EnrichScholars(EnrichTopics(c))
    BY <1>2
  <2> HIDE DEF c
  <2>3. Countable(EnrichScholars(EnrichTopics(c)))
    BY <2>1, EnrichmentCounts
  <2> QED BY <2>1, <2>2, <2>3, CandidateIsTagged DEF c
<1>4. IsCorpus(rich, n) /\ AreCountable(rich, n)
  BY <1>1, <1>2, <1>3 DEF IsCorpus, AreCountable, Peopled
<1>5. \E m \in Nat : AreCountable(Joined, m)
  BY <1>4, MergeCounts DEF Joined, rich
<1>6. \A e \in ToSet(Joined) : Sums(e, rich, n)
  BY <1>3, <1>4, MergeStandsForAll DEF Joined, rich
<1>7. ToSet(Fetched) = {Fetched[i] : i \in 1..n}
  BY <1>1 DEF ToSet
<1>8. ASSUME NEW e, Sums(e, rich, n)
      PROVE  HasLaureate(AllPeople(e)) <=> \E c \in PartsOf(e.url) : Billed(AllPeople(c))
  <2> DEFINE all == Attending(rich, n, e.url)
             some == AllPeople(e)
  <2>1. \A p : p \in all <=> \E i \in 1..n : rich[i].url = e.url /\ p \in AllPeople(rich[i])
    BY DEF Attending
  <2>2. AreTagged(all)
    BY <1>3, <2>1 DEF AreTagged
  <2>3. Billed(all) <=> \E i \in 1..n : rich[i].url = e.url /\ Billed(AllPeople(rich[i]))
    BY <2>1 DEF Billed
  <2>4. Billed(all) <=> \E i \in 1..n : Fetched[i].url = e.url /\ Billed(AllPeople(Fetched[i]))
    BY <1>3, <2>3
  <2>5. Billed(all) <=> \E c \in PartsOf(e.url) : Billed(AllPeople(c))
    BY <1>7, <2>4 DEF PartsOf
  <2> HIDE DEF all, some
  <2>6. StandFor(some, all)
    BY <1>8 DEF some, all, Sums
  <2>7. HasLaureate(some) <=> Billed(all)
    BY <2>2, <2>6 DEF StandFor, AreTagged, Billed, Speaks, HasLaureate
  <2> QED BY <2>5, <2>7 DEF some
<1>9. ASSUME NEW e, Sums(e, rich, n)
      PROVE  TalkIds(e.talks) = Listing(PartsOf(e.url))
  <2>1. TalkIds(e.talks) = Announced(rich, n, e.url)
    BY <1>9 DEF Sums
  <2>2. \A p : p \in Announced(rich, n, e.url)
                 <=> \E i \in 1..n : rich[i].url = e.url /\ p \in TalkIds(rich[i].talks)
    BY DEF Announced
  <2>3. \A p : p \in Announced(rich, n, e.url)
                 <=> \E i \in 1..n : Fetched[i].url = e.url /\ p \in TalkIds(Fetched[i].talks)
    BY <1>3, <2>2
  <2>4. \A p : p \in Listing(PartsOf(e.url))
                 <=> \E i \in 1..n : Fetched[i].url = e.url /\ p \in TalkIds(Fetched[i].talks)
    BY <1>7 DEF Listing, PartsOf
  <2> DEFINE A == Announced(rich, n, e.url)
             B == Listing(PartsOf(e.url))
  <2>5. A = B
    <3>1. \A p : p \in A <=> p \in B
      BY <2>3, <2>4
    <3> HIDE DEF A, B
    <3> QED BY <3>1
  <2> QED BY <2>1, <2>5
<1> QED BY <1>5, <1>6, <1>8, <1>9

\* The talks that are remembered are those that the state adds.
LEMMA RememberedAre ==
  ASSUME NEW e, stored # NotStored, IsPrevious(stored.previous[e]), NEW parts
  PROVE  LET row == stored.previous[e]
         IN  Remembered(e, parts) =
               IF Alone(row, health) THEN {}
               ELSE {row.talks[i] : i \in NewIds(Listing(parts), row.talks, Len(row.talks))}
<1> DEFINE row == stored.previous[e]
           heard == {r.source : r \in {h \in ToSet(health) : h.status = "Ok"}}
           talks == row.talks
           m == Len(talks)
           ids == Listing(parts)
           R == {i \in DOMAIN talks : /\ talks[i].id \notin ids
                                      /\ \A k \in DOMAIN talks : talks[k].id = talks[i].id => i <= k}
           C == \/ stored = NotStored
                \/ \A h \in ToSet(health) : h.status = "Ok"
                \/ row = NoRow
                \/ row.sources # <<>> /\ \A s \in ToSet(row.sources) : s \in heard
<1>1. Remembered(e, parts) = IF C THEN {} ELSE {talks[i] : i \in R}
  BY Zenon DEF Remembered, Listing, TalkIds
<1>2. C <=> Alone(row, health)
  <2>1. AllAuthoritative(health) <=> \A h \in ToSet(health) : h.status = "Ok"
    BY DEF AllAuthoritative, ToSet
  <2>2. \A s : s \in Authorities(health) <=> s \in heard
    BY DEF Authorities, ToSet
  <2> HIDE DEF row, heard
  <2>3. ObservationComplete(row, Authorities(health))
          <=> row.sources # <<>> /\ \A s \in ToSet(row.sources) : s \in heard
    BY <2>2 DEF ObservationComplete
  <2> QED BY <2>1, <2>3 DEF Alone
<1>3. ASSUME ~ Alone(row, health)
      PROVE  R = NewIds(ids, talks, m)
  <2>1. IsList(talks)
    BY <1>3 DEF IsPrevious, Alone, Countable
  <2> HIDE DEF row, talks, ids
  <2>2. DOMAIN talks = 1..m /\ m \in Nat
    BY <2>1, ListFacts
  <2> HIDE DEF m
  <2>3. ASSUME NEW i \in 1..m
        PROVE  (\A k \in 1..m : talks[k].id = talks[i].id => i <= k)
                 <=> \A j \in 1..(i - 1) : talks[j].id # talks[i].id
    BY <2>2
  <2> QED BY <2>2, <2>3 DEF NewIds
<1> HIDE DEF C, R, talks, m, ids
<1> QED BY <1>1, <1>2, <1>3 DEF talks, m, ids

\* What is ranked has been credited with the laureates of its parts and of the talks that
\* are remembered.
LEMMA CorpusIsLifted ==
  ASSUME NamesTellApart, CorpusInv
  PROVE  LaureatesLiftRank
<1>1. ASSUME pc \in {"present", "render"}, NEW e \in DOMAIN events
      PROVE  LET parts == PartsOf(events[e].url)
             IN  (ScoreComponents(events[e], <<>>, <<>>).people = 10) <=>
                   \/ \E c \in parts : Billed(AllPeople(c))
                   \/ \E t \in Remembered(e, parts) : HasLaureate(ToSet(t.speakers))
  <2> DEFINE now == events[e]
             old == Joined[e]
             row == stored.previous[e]
             parts == PartsOf(old.url)
             more == Remembered(e, parts)
  <2>1. /\ \E m \in Nat : AreCountable(Joined, m)
        /\ \A x \in ToSet(Joined) :
             /\ HasLaureate(AllPeople(x)) <=> \E c \in PartsOf(x.url) : Billed(AllPeople(c))
             /\ TalkIds(x.talks) = Listing(PartsOf(x.url))
    BY JoinedOfParts DEF CorpusInv
  <2>2. \/ stored = NotStored /\ events = Joined
        \/ /\ stored # NotStored /\ events = ReturnedAll(Joined, stored.previous, health)
           /\ \A x \in DOMAIN events : IsPrevious(stored.previous[x])
    BY <1>1 DEF CorpusInv
  <2>3. e \in DOMAIN Joined
    BY <2>2 DEF ReturnedAll
  <2>4. Countable(old)
    <3>1. PICK m \in Nat : AreCountable(Joined, m)
      BY <2>1
    <3>2. DOMAIN Joined = 1..m
      BY <3>1, IndexedSeq DEF AreCountable, IsCorpus
    <3> QED BY <2>3, <3>1, <3>2 DEF AreCountable
  <2>5. /\ HasLaureate(AllPeople(old)) <=> \E c \in parts : Billed(AllPeople(c))
        /\ TalkIds(old.talks) = Listing(parts)
    <3>1. old \in ToSet(Joined)
      BY <2>3 DEF ToSet
    <3> HIDE DEF old
    <3> QED BY <2>1, <3>1
  <2>6. /\ now.url = old.url /\ now.people = old.people
        /\ HasLaureate(Speakers(now.talks))
             <=> HasLaureate(Speakers(old.talks)) \/ \E t \in more : HasLaureate(ToSet(t.speakers))
    <3>1. \A talks : HasLaureate(Speakers(talks)) <=> \E t \in ToSet(talks) : HasLaureate(ToSet(t.speakers))
      BY DEF HasLaureate, Speakers, ToSet
    <3>2. CASE stored = NotStored
      <4>1. now = old
        BY <2>2, <3>2
      <4>2. more = {}
        BY <3>2, Zenon DEF Remembered
      <4> QED BY <4>1, <4>2
    <3>3. CASE stored # NotStored
      <4>1. now = Returned(old, row, health) /\ IsPrevious(row)
        BY <1>1, <2>2, <2>3, <3>3 DEF ReturnedAll
      <4>2. more = IF Alone(row, health) THEN {}
                   ELSE {row.talks[i] : i \in NewIds(Listing(parts), row.talks, Len(row.talks))}
        <5> HIDE DEF parts
        <5> QED BY <3>3, <4>1, RememberedAre DEF row, more
      <4> HIDE DEF now, old, row, more, parts
      <4>3. /\ now.url = old.url /\ now.people = old.people
            /\ now.talks = IF Alone(row, health) THEN old.talks ELSE UnionTalks(old.talks, row.talks)
        BY <2>4, <4>1, ReturnedIs
      <4>4. CASE Alone(row, health)
        BY <4>2, <4>3, <4>4
      <4>5. CASE ~ Alone(row, health)
        <5>1. IsList(old.talks) /\ IsList(row.talks)
          BY <2>4, <4>1, <4>5 DEF Countable, IsPrevious, Alone
        <5>2. ToSet(now.talks) = ToSet(old.talks) \cup more
          BY <2>5, <4>2, <4>3, <4>5, <5>1, TalksUnited
        <5> QED BY <3>1, <4>3, <5>2
      <4> QED BY <4>4, <4>5
    <3> QED BY <3>2, <3>3
  <2> HIDE DEF now, old, more
  <2>7. \A x : HasLaureate(AllPeople(x)) <=> HasLaureate(ToSet(x.people)) \/ HasLaureate(Speakers(x.talks))
    BY AllPeopleOf DEF HasLaureate
  <2>8. HasLaureate(AllPeople(now))
          <=> HasLaureate(AllPeople(old)) \/ \E t \in more : HasLaureate(ToSet(t.speakers))
    BY <2>6, <2>7
  <2>9. (ScoreComponents(now, <<>>, <<>>).people = 10) <=> HasLaureate(AllPeople(now))
    <3>1. ScoreComponents(now, <<>>, <<>>).people = Highest({PersonSignal(p) : p \in AllPeople(now)})
      BY DEF ScoreComponents
    <3> QED BY <3>1, LaureatesSignal DEF HasLaureate
  <2>10. PartsOf(now.url) = parts
    BY <2>6
  <2> HIDE DEF parts
  <2>11. (ScoreComponents(now, <<>>, <<>>).people = 10) <=>
           \/ \E c \in parts : Billed(AllPeople(c))
           \/ \E t \in more : HasLaureate(ToSet(t.speakers))
    BY <2>5, <2>8, <2>9
  <2> QED BY <2>10, <2>11 DEF now, more
<1>2. \A c : Billed(AllPeople(c)) <=>
               \E p \in SpeaksAt(c) : \E n \in LaureateNames : Fold[n] = Fold[p.name]
  BY DEF Billed, SpeaksAt, Speaks, IsLaureate
<1>3. ASSUME pc \in {"present", "render"}, NEW e \in DOMAIN events
      PROVE  LET parts == {c \in ToSet(Fetched) : c.url = events[e].url}
             IN  (ScoreComponents(events[e], <<>>, <<>>).people = 10) <=>
                   \/ \E c \in parts : \E p \in SpeaksAt(c) :
                        \E n \in LaureateNames : Fold[n] = Fold[p.name]
                   \/ \E t \in Remembered(e, parts) : \E p \in ToSet(t.speakers) :
                        p.role \in {"Speaker", "Lecturer"} /\ Laureate(p)
  <2> DEFINE parts == {c \in ToSet(Fetched) : c.url = events[e].url}
             now == ScoreComponents(events[e], <<>>, <<>>).people
             more == Remembered(e, parts)
  <2>1. (now = 10) <=> \/ \E c \in parts : Billed(AllPeople(c))
                       \/ \E t \in more : HasLaureate(ToSet(t.speakers))
    BY <1>1, <1>3 DEF PartsOf
  <2> HIDE DEF parts, now, more
  <2>2. (now = 10) <=>
          \/ \E c \in parts : \E p \in SpeaksAt(c) : \E n \in LaureateNames : Fold[n] = Fold[p.name]
          \/ \E t \in more : \E p \in ToSet(t.speakers) :
               p.role \in {"Speaker", "Lecturer"} /\ Laureate(p)
    BY <1>2, <2>1 DEF HasLaureate, Speaks
  <2> QED BY <2>2 DEF parts, now, more
<1> QED BY <1>3, Zenon DEF LaureatesLiftRank

\* Whatever the candidates and whatever was stored before, in a registry of scholars whose
\* names tell laureates from others: a laureate lifts an event exactly if one speaks at a
\* part of it or in a talk that is remembered.
THEOREM LaureatesLift == NamesTellApart => (Spec => []LaureatesLiftRank)
<1> SUFFICES ASSUME NamesTellApart PROVE Spec => []LaureatesLiftRank
  OBVIOUS
<1>1. Init => OkInv /\ ExitInv /\ OutputInv /\ CorpusInv
  BY DEF Init, OkInv, HandedOn, OkMeansAllStored, ExitInv, PhasesInOrder, ExitTellsWhatHappened,
         OutputInv, CorpusInv
<1>2. CorpusInv => LaureatesLiftRank
  BY CorpusIsLifted
<1> QED BY <1>1, <1>2, TablesInvInit, FilesInvHolds, NextKeepsOkInv, NextKeepsExitInv,
           NextKeepsTablesInv, NextKeepsOutputInv, NextKeepsCorpusInv, PTL DEF Spec

================================================================================
