------------------------------ MODULE OrderLemmas ------------------------------
(***************************************************************************)
(* Lemmas about what the models of this project compute with: least and    *)
(* greatest elements, sorted arrangements, sums, recursive definitions and *)
(* sequences.  They are about no part of the program.                      *)
(***************************************************************************)
EXTENDS Arrangement, Integers, SequencesExt, FiniteSetTheorems, SequenceTheorems,
        WellFoundedInduction, TLAPS

\* Min of any nonempty set of naturals, finite or not, is a least element of it.
\* The code takes minima of first-seen times and of cluster positions.
LEMMA MinIsLeast ==
  ASSUME NEW S \in SUBSET Nat, S # {}
  PROVE  Min(S) \in S /\ \A y \in S : Min(S) <= y
<1> DEFINE below(x) == {k \in S : k < x}
           belows == {below(x) : x \in S}
<1>0. \A x \in S : x \in Nat
  OBVIOUS
<1>1. \A x \in S : below(x) \in FiniteSubsetsOf(Nat)
  <2>. SUFFICES ASSUME NEW x \in S PROVE below(x) \in FiniteSubsetsOf(Nat)
    OBVIOUS
  <2>1. x \in Nat
    BY <1>0
  <2>2. below(x) \in SUBSET Nat
    BY <1>0
  <2>3. \A k \in below(x) : k <= x
    BY <1>0
  <2>4. IsFiniteSet(below(x))
    BY <2>1, <2>2, <2>3, FS_BoundedSetOfNaturals
  <2>. QED BY <2>2, <2>4 DEF FiniteSubsetsOf
<1>2. belows \subseteq FiniteSubsetsOf(Nat) /\ belows # {}
  BY <1>1
<1>3. PICK least \in belows : \A b \in belows : <<b, least>> \notin StrictSubsetOrdering(Nat)
  BY <1>2, WFMin, FS_StrictSubsetOrderingWellFounded
<1>4. PICK x \in S : least = below(x)
  OBVIOUS
<1>5. \A y \in S : x <= y
  <2>. SUFFICES ASSUME NEW y \in S, y < x PROVE FALSE
    OBVIOUS
  <2>0. x \in Nat /\ y \in Nat
    BY <1>0
  <2>1. /\ \A k \in below(y) : k \in below(x)
        /\ y \in below(x)
        /\ y \notin below(y)
    BY <1>0, <2>0
  <2>2. <<below(y), below(x)>> \in StrictSubsetOrdering(Nat)
    BY <1>0, <2>1 DEF StrictSubsetOrdering
  <2>. QED BY <2>2, <1>3, <1>4
<1>. QED BY <1>5 DEF Min

\* A strict total order.
StrictOrder(S, R) ==
  \A x, y \in S : /\ <<x, x>> \notin R
                  /\ x = y \/ <<x, y>> \in R \/ <<y, x>> \in R
                  /\ \A z \in S : <<x, y>> \in R /\ <<y, z>> \in R => <<x, z>> \in R

\* An arrangement has each element once, in its order.
LEMMA ArrangedInOrder ==
  ASSUME NEW S, IsFiniteSet(S), NEW R, StrictOrder(S, R)
  PROVE  /\ Cardinality(S) \in Nat /\ Arranged(S, R) \in [1..Cardinality(S) -> S]
         /\ \A x \in S : \E n \in 1..Cardinality(S) : Arranged(S, R)[n] = x
         /\ \A m, n \in 1..Cardinality(S) : m < n => <<Arranged(S, R)[m], Arranged(S, R)[n]>> \in R
<1> DEFINE c == Cardinality(S)
           below(x) == {y \in S : <<y, x>> \in R}
           rank == [x \in S |-> Cardinality(below(x)) + 1]
           a == Arranged(S, R)
<1>0. c \in Nat
  BY FS_CardinalityType
<1>1. \A x \in S : IsFiniteSet(below(x)) /\ Cardinality(below(x)) \in Nat
  <2> TAKE x \in S
  <2>1. below(x) \in SUBSET S
    OBVIOUS
  <2> QED BY <2>1, FS_Subset, FS_CardinalityType
<1>2. \A x, y \in S : <<x, y>> \in R => rank[x] < rank[y]
  <2> SUFFICES ASSUME NEW x \in S, NEW y \in S, <<x, y>> \in R
               PROVE  rank[x] < rank[y]
    OBVIOUS
  <2>1. below(x) \in SUBSET below(y) /\ x \in below(y) /\ x \notin below(x)
    BY DEF StrictOrder
  <2>2. Cardinality(below(x)) <= Cardinality(below(y)) /\ Cardinality(below(x)) # Cardinality(below(y))
    BY <1>1, <2>1, FS_Subset
  <2> HIDE DEF below
  <2>3. /\ rank[x] = Cardinality(below(x)) + 1 /\ rank[y] = Cardinality(below(y)) + 1
        /\ Cardinality(below(x)) \in Nat /\ Cardinality(below(y)) \in Nat
    BY <1>1
  <2> QED BY <2>2, <2>3
<1>3. \A x \in S : rank[x] \in 1..c
  <2> TAKE x \in S
  <2>1. below(x) \in SUBSET S /\ x \notin below(x)
    BY DEF StrictOrder
  <2>2. Cardinality(below(x)) <= c /\ Cardinality(below(x)) # c
    BY <1>1, <2>1, FS_Subset
  <2> HIDE DEF below, c
  <2>3. rank[x] = Cardinality(below(x)) + 1 /\ Cardinality(below(x)) \in Nat
    BY <1>1
  <2> QED BY <1>0, <2>2, <2>3
<1>4. rank \in Injection(S, 1..c)
  <2>1. rank \in [S -> 1..c]
    BY <1>3
  <2>2. \A x, y \in S : rank[x] = rank[y] => x = y
    <3> SUFFICES ASSUME NEW x \in S, NEW y \in S, rank[x] = rank[y], x # y
                 PROVE  FALSE
      OBVIOUS
    <3>1. rank[x] \in Nat /\ rank[y] \in Nat
      BY <1>0, <1>3
    <3>2. rank[x] < rank[y] \/ rank[y] < rank[x]
      BY <1>2 DEF StrictOrder
    <3> QED BY <3>1, <3>2
  <2> QED BY <2>1, <2>2 DEF Injection, IsInjective
<1>5. rank \in Surjection(S, 1..c)
  <2>1. IsFiniteSet(1..c) /\ Cardinality(1..c) = c
    BY <1>0, FS_Interval
  <2> QED BY <1>4, <2>1, FS_Injection
<1>6. \A n \in 1..c : a[n] \in S /\ rank[a[n]] = n
  <2> SUFFICES ASSUME NEW n \in 1..c
               PROVE  a[n] \in S /\ rank[a[n]] = n
    OBVIOUS
  <2> DEFINE Test(x) == Cardinality(below(x)) = n - 1
  <2>0. a[n] = CHOOSE x \in S : Test(x)
    BY DEF Arranged
  <2>1. PICK x \in S : rank[x] = n
    BY <1>5 DEF Surjection
  <2>2. \A y \in S : Test(y) <=> rank[y] = n
    <3> TAKE y \in S
    <3> HIDE DEF below
    <3>1. rank[y] = Cardinality(below(y)) + 1 /\ Cardinality(below(y)) \in Nat /\ n \in Nat
      BY <1>0, <1>1
    <3> QED BY <3>1
  <2> HIDE DEF Test, rank, a
  <2> QED BY <2>0, <2>1, <2>2
<1>7. a \in [1..c -> S]
  BY <1>6 DEF Arranged
<1>8. \A x \in S : \E n \in 1..c : a[n] = x
  <2> SUFFICES ASSUME NEW x \in S
               PROVE  a[rank[x]] = x
    BY <1>3
  <2> HIDE DEF a
  <2> QED BY <1>3, <1>4, <1>6 DEF Injection, IsInjective
<1>9. \A m, n \in 1..c : m < n => <<a[m], a[n]>> \in R
  <2> SUFFICES ASSUME NEW m \in 1..c, NEW n \in 1..c, m < n
               PROVE  <<a[m], a[n]>> \in R
    OBVIOUS
  <2>1. m \in Nat /\ n \in Nat
    BY <1>0
  <2>2. a[m] \in S /\ a[n] \in S /\ rank[a[m]] = m /\ rank[a[n]] = n
    BY <1>6
  <2> HIDE DEF rank, a
  <2>3. a[m] # a[n] /\ <<a[n], a[m]>> \notin R
    BY <1>2, <2>1, <2>2
  <2> QED BY <2>2, <2>3 DEF StrictOrder
<1> QED BY <1>0, <1>7, <1>8, <1>9

\* What is picked at some positions is what stands there.
LEMMA PickedSeq ==
  ASSUME NEW seq, NEW P \in SUBSET Nat, IsFiniteSet(P)
  PROVE  /\ Picked(seq, P) = [n \in 1..Cardinality(P) |-> Picked(seq, P)[n]]
         /\ Cardinality(P) \in Nat
         /\ \A n \in 1..Cardinality(P) : \E i \in P : Picked(seq, P)[n] = seq[i]
         /\ \A i \in P : \E n \in 1..Cardinality(P) : Picked(seq, P)[n] = seq[i]
<1> DEFINE R == {p \in P \X P : p[1] < p[2]}
           a == Arranged(P, R)
<1>0. \A x, y \in P : <<x, y>> \in R <=> x < y
  OBVIOUS
<1> HIDE DEF R
<1>1. StrictOrder(P, R)
  <2> SUFFICES ASSUME NEW x \in P, NEW y \in P
               PROVE  /\ <<x, x>> \notin R
                      /\ x = y \/ <<x, y>> \in R \/ <<y, x>> \in R
                      /\ \A z \in P : <<x, y>> \in R /\ <<y, z>> \in R => <<x, z>> \in R
    BY DEF StrictOrder
  <2>1. /\ ~ (x < x) /\ (x = y \/ x < y \/ y < x)
        /\ \A z \in P : x < y /\ y < z => x < z
    OBVIOUS
  <2> QED BY <1>0, <2>1
<1>2. /\ Cardinality(P) \in Nat /\ a \in [1..Cardinality(P) -> P]
      /\ \A x \in P : \E n \in 1..Cardinality(P) : a[n] = x
  BY <1>1, ArrangedInOrder
<1>3. Picked(seq, P) = [n \in DOMAIN a |-> seq[a[n]]]
  BY DEF Picked, R
<1> HIDE DEF a
<1> QED BY <1>2, <1>3

\* Induction from 0 to n, for a property given by the set where it holds.
LEMMA InductTo ==
  ASSUME NEW n \in Nat, NEW G, 0 \in G, \A k \in 1..n : k - 1 \in G => k \in G
  PROVE  \A k \in 0..n : k \in G
<1> DEFINE bad == (0..n) \ G
<1> SUFFICES ASSUME bad # {} PROVE FALSE
  OBVIOUS
<1>1. bad \in SUBSET Nat
  OBVIOUS
<1>2. PICK m \in bad : \A y \in bad : m <= y
  BY <1>1, MinIsLeast
<1>3. m \in 0..n /\ m \notin G /\ m # 0
  BY <1>2
<1>4. m \in 1..n /\ m - 1 \in 0..n /\ ~ (m <= m - 1)
  BY <1>3
<1>5. m - 1 \in G
  BY <1>2, <1>4
<1> QED BY <1>3, <1>4, <1>5

\* A recursive definition over 0..n and its solution.
Recursion(S, base, n, step) == n \in Nat /\ base \in S /\ step \in [(1..n) \X S -> S]
Solution(h, S, base, n, step) ==
  /\ h \in [0..n -> S] /\ h[0] = base
  /\ \A k \in 1..n : h[k] = step[<<k, h[k - 1]>>]

\* There is one.
LEMMA RecursionSolved ==
  ASSUME NEW S, NEW base, NEW n, NEW step, Recursion(S, base, n, step)
  PROVE  \E h : Solution(h, S, base, n, step)
<1>0. n \in Nat /\ base \in S /\ step \in [(1..n) \X S -> S]
  BY DEF Recursion
<1> DEFINE Solves(h, m) == /\ h \in [0..m -> S] /\ h[0] = base
                           /\ \A k \in 1..m : h[k] = step[<<k, h[k - 1]>>]
           G == {m \in 0..n : \E h : Solves(h, m)}
<1>1. 0 \in G
  <2>1. Solves([k \in 0..0 |-> base], 0)
    BY <1>0
  <2> HIDE DEF Solves
  <2> QED BY <1>0, <2>1
<1>2. ASSUME NEW m \in 1..n, m - 1 \in G PROVE m \in G
  <2>0. m \in 0..n
    BY <1>0
  <2>1. PICK h : Solves(h, m - 1)
    BY <1>2
  <2> DEFINE g == [k \in 0..m |-> IF k = m THEN step[<<m, h[m - 1]>>] ELSE h[k]]
  <2>2. /\ m \in Nat /\ \A k \in 0..m : k = m \/ k \in 0..(m - 1)
        /\ m - 1 \in 0..(m - 1) /\ m - 1 \in 0..m /\ 0 \in 0..(m - 1) /\ m \in 0..m /\ 0 # m
    BY <1>0
  <2>3. step[<<m, h[m - 1]>>] \in S
    BY <1>0, <2>1, <2>2
  <2>4. g \in [0..m -> S] /\ g[0] = base
    BY <2>1, <2>2, <2>3
  <2>5. ASSUME NEW k \in 1..m PROVE g[k] = step[<<k, g[k - 1]>>]
    <3>1. k - 1 \in 0..m /\ k - 1 # m /\ k \in 0..m /\ (k # m => k \in 1..(m - 1))
      BY <2>2
    <3>2. g[k - 1] = h[k - 1]
      BY <3>1
    <3>3. CASE k = m
      BY <3>1, <3>2, <3>3
    <3>4. CASE k # m
      BY <2>1, <3>1, <3>2, <3>4
    <3> QED BY <3>3, <3>4
  <2>6. Solves(g, m)
    BY <2>4, <2>5
  <2> HIDE DEF Solves, g
  <2> QED BY <2>0, <2>6
<1>3. n \in G
  <2>1. \A k \in 1..n : k - 1 \in G => k \in G
    BY <1>2
  <2>2. n \in 0..n
    BY <1>0
  <2> HIDE DEF G
  <2> QED BY <1>0, <1>1, <2>1, <2>2, InductTo
<1> QED BY <1>3 DEF Solution

\* Partial sums.
LEMMA TotalAdds ==
  ASSUME NEW f, NEW n \in Nat, \A k \in 1..n : f[k] \in Nat
  PROVE  /\ Total(f, 0) = 0
         /\ \A k \in 0..n : Total(f, k) \in Nat
         /\ \A k \in 1..n : Total(f, k) = Total(f, k - 1) + f[k]
<1> DEFINE step == [p \in (1..n) \X Nat |-> p[2] + f[p[1]]]
<1>1. step \in [(1..n) \X Nat -> Nat]
  OBVIOUS
<1>2. PICK h \in [0..n -> Nat] : h[0] = 0 /\ \A k \in 1..n : h[k] = step[<<k, h[k - 1]>>]
  <2>1. Recursion(Nat, 0, n, step)
    BY <1>1 DEF Recursion
  <2>2. PICK h : Solution(h, Nat, 0, n, step)
    <3> HIDE DEF step
    <3> QED BY <2>1, RecursionSolved
  <2> HIDE DEF step
  <2> QED BY <2>2 DEF Solution
<1>3. \A k \in 1..n : h[k] = h[k - 1] + f[k]
  <2> TAKE k \in 1..n
  <2>1. k - 1 \in 0..n
    OBVIOUS
  <2>2. <<k, h[k - 1]>> \in (1..n) \X Nat
    BY <2>1
  <2> QED BY <1>2, <2>2
<1>4. \A m \in 0..n : Total(f, m) = h[m]
  <2> SUFFICES ASSUME NEW m \in 0..n
               PROVE  Total(f, m) = h[m]
    OBVIOUS
  <2> DEFINE Sum(g) == g = [k \in 0..m |-> IF k = 0 THEN 0 ELSE g[k - 1] + f[k]]
             sum == CHOOSE g : Sum(g)
  <2>1. Total(f, m) = sum[m]
    BY DEF Total
  <2>2. Sum([k \in 0..m |-> h[k]])
    <3> DEFINE g == [k \in 0..m |-> h[k]]
    <3> SUFFICES ASSUME NEW k \in 0..m
                 PROVE  h[k] = IF k = 0 THEN 0 ELSE g[k - 1] + f[k]
      OBVIOUS
    <3>1. k # 0 => k \in 1..n /\ k - 1 \in 0..m
      OBVIOUS
    <3> QED BY <1>2, <1>3, <3>1
  <2>3. Sum(sum)
    BY <2>2
  <2> HIDE DEF sum
  <2> DEFINE G == {k \in 0..m : sum[k] = h[k]}
  <2>4. 0 \in G
    BY <1>2, <2>3
  <2>5. ASSUME NEW k \in 1..m, k - 1 \in G PROVE k \in G
    <3>1. k \in 0..m /\ k # 0 /\ k \in 1..n
      OBVIOUS
    <3>2. sum[k] = sum[k - 1] + f[k]
      BY <2>3, <3>1
    <3> QED BY <1>3, <2>5, <3>1, <3>2
  <2>6. m \in Nat /\ m \in 0..m /\ \A k \in 1..m : k - 1 \in G => k \in G
    BY <2>5
  <2>7. m \in G
    <3> HIDE DEF G
    <3> QED BY <2>4, <2>6, InductTo
  <2> QED BY <2>1, <2>7
<1>5. \A k \in 1..n : k \in 0..n /\ k - 1 \in 0..n
  OBVIOUS
<1>6. 0 \in 0..n
  OBVIOUS
<1> QED BY <1>2, <1>3, <1>4, <1>5, <1>6

\* Partial sums grow.
LEMMA TotalGrows ==
  ASSUME NEW f, NEW n \in Nat, \A k \in 1..n : f[k] \in Nat, NEW i \in 0..n, NEW j \in i..n
  PROVE  Total(f, i) <= Total(f, j)
<1> DEFINE G == {k \in 0..(n - i) : Total(f, i) <= Total(f, i + k)}
<1>1. /\ \A k \in 0..n : Total(f, k) \in Nat
      /\ \A k \in 1..n : Total(f, k) = Total(f, k - 1) + f[k]
  BY TotalAdds
<1>2. /\ n - i \in Nat /\ j - i \in 0..(n - i) /\ i + 0 = i /\ i + (j - i) = j /\ 0 \in 0..(n - i)
      /\ i \in Int /\ j \in Int
  OBVIOUS
<1>3. 0 \in G
  BY <1>1, <1>2
<1>4. ASSUME NEW k \in 1..(n - i), k - 1 \in G PROVE k \in G
  <2>1. /\ k \in 0..(n - i) /\ i + k \in 1..n /\ (i + k) - 1 = i + (k - 1)
        /\ i + (k - 1) \in 0..n
    OBVIOUS
  <2>2. Total(f, i + k) = Total(f, i + (k - 1)) + f[i + k] /\ f[i + k] \in Nat
    BY <1>1, <2>1
  <2>3. Total(f, i) <= Total(f, i + (k - 1))
    BY <1>4
  <2>4. Total(f, i) \in Nat /\ Total(f, i + (k - 1)) \in Nat
    BY <1>1, <2>1
  <2>5. Total(f, i) <= Total(f, i + k)
    BY <2>2, <2>3, <2>4
  <2> QED BY <2>1, <2>5
<1>5. j - i \in G
  <2>1. \A k \in 1..(n - i) : k - 1 \in G => k \in G
    BY <1>4
  <2> HIDE DEF G
  <2> QED BY <1>2, <1>3, <2>1, InductTo
<1> QED BY <1>2, <1>5

\* The lengths of some sequences.
LengthsOf(seqs) == [r \in DOMAIN seqs |-> Len(seqs[r])]

\* Where the elements of a sequence of sequences come to stand.
LEMMA Flattened ==
  ASSUME NEW E, NEW seqs \in Seq(Seq(E)), NEW n \in Nat, n = Len(seqs)
  PROVE  /\ \A r \in 1..n : LengthsOf(seqs)[r] = Len(seqs[r])
         /\ FlattenSeq(seqs) \in Seq(E)
         /\ Len(FlattenSeq(seqs)) = Total(LengthsOf(seqs), n)
         /\ \A r \in 1..n : \A i \in 1..Len(seqs[r]) :
              FlattenSeq(seqs)[Total(LengthsOf(seqs), r - 1) + i] = seqs[r][i]
<1> DEFINE lens == LengthsOf(seqs)
           S == Seq(E)
           step == [p \in (1..n) \X S |-> p[2] \o seqs[p[1]]]
<1>0. n \in Nat /\ \A r \in 1..n : seqs[r] \in Seq(E) /\ Len(seqs[r]) \in Nat
  OBVIOUS
<1>1. step \in [(1..n) \X S -> S] /\ <<>> \in S
  BY <1>0
<1>t. /\ Total(lens, 0) = 0
      /\ \A k \in 0..n : Total(lens, k) \in Nat
      /\ \A k \in 1..n : Total(lens, k) = Total(lens, k - 1) + Len(seqs[k])
      /\ \A i \in 0..n : \A j \in i..n : Total(lens, i) <= Total(lens, j)
  <2>1. \A k \in 1..n : lens[k] \in Nat /\ lens[k] = Len(seqs[k])
    BY <1>0 DEF LengthsOf
  <2> HIDE DEF lens
  <2> QED BY <1>0, <2>1, TotalAdds, TotalGrows
<1>r. \A k \in 1..n : k \in 0..n /\ k - 1 \in 0..n
  BY <1>0
<1>2. PICK h \in [0..n -> S] : h[0] = <<>> /\ \A k \in 1..n : h[k] = step[<<k, h[k - 1]>>]
  <2> HIDE DEF step, S
  <2>1. Recursion(S, <<>>, n, step)
    BY <1>1 DEF Recursion
  <2>2. PICK h : Solution(h, S, <<>>, n, step)
    BY <2>1, RecursionSolved
  <2> QED BY <2>2 DEF Solution
<1>3. \A k \in 1..n : h[k] = h[k - 1] \o seqs[k]
  <2> TAKE k \in 1..n
  <2>1. <<k, h[k - 1]>> \in (1..n) \X S
    BY <1>r
  <2> QED BY <1>2, <2>1
<1>4. \A k \in 0..n : h[k] \in Seq(E)
  BY <1>2
<1> HIDE DEF S, step, lens
<1>5. FlattenSeq(seqs) = h[n]
  <2>1. CASE n = 0
    <3>0. Len(seqs) = 0
      BY <2>1
    <3>1. Len(seqs) = 0 /\ seqs = <<>>
      BY <3>0, EmptySeq
    <3>2. FlattenSeq(seqs) = seqs
      BY <3>1, Zenon DEF FlattenSeq
    <3> QED BY <1>2, <2>1, <3>1, <3>2
  <2>2. CASE n # 0
    <3> DEFINE Flat(g) == g = [k \in 1..n |-> IF k = 1 THEN seqs[k] ELSE g[k - 1] \o seqs[k]]
               flat == CHOOSE g : Flat(g)
    <3>1. FlattenSeq(seqs) = flat[n]
      BY <2>2 DEF FlattenSeq
    <3>h. n \in 1..n /\ 1 \in 1..n
      BY <1>0, <2>2
    <3>f. h[1] = seqs[1]
      <4>0. h[1 - 1] = <<>>
        BY <1>2
      <4>1. h[1] = <<>> \o seqs[1]
        BY <1>3, <3>h, <4>0
      <4> QED BY <1>0, <3>h, <4>1
    <3>2. Flat([k \in 1..n |-> h[k]])
      <4> DEFINE g == [k \in 1..n |-> h[k]]
      <4> SUFFICES ASSUME NEW k \in 1..n
                   PROVE  h[k] = IF k = 1 THEN seqs[k] ELSE g[k - 1] \o seqs[k]
        OBVIOUS
      <4>1. k # 1 => k - 1 \in 1..n
        BY <1>0
      <4> QED BY <1>3, <3>f, <4>1
    <3>3. Flat(flat)
      BY <3>2
    <3> HIDE DEF flat
    <3> DEFINE G == {k \in 0..n : k # 0 => flat[k] = h[k]}
    <3>4. 0 \in G
      BY <1>0
    <3>5. ASSUME NEW k \in 1..n, k - 1 \in G PROVE k \in G
      <4>1. flat[k] = IF k = 1 THEN seqs[k] ELSE flat[k - 1] \o seqs[k]
        BY <3>3
      <4>2. k # 1 => k - 1 # 0
        BY <1>0
      <4>3. flat[k] = h[k]
        BY <1>3, <3>5, <3>f, <4>1, <4>2
      <4> QED BY <1>r, <4>3
    <3>6. n \in 0..n /\ \A k \in 1..n : k - 1 \in G => k \in G
      BY <1>0, <3>5
    <3>7. n \in G
      <4> HIDE DEF G
      <4> QED BY <1>0, <3>4, <3>6, InductTo
    <3> QED BY <2>2, <3>1, <3>7
  <2> QED BY <2>1, <2>2
<1>6. ASSUME NEW k \in 1..n
      PROVE  Len(h[k]) = Len(h[k - 1]) + Len(seqs[k])
  <2> DEFINE a == h[k - 1]
             b == seqs[k]
  <2>1. h[k] = a \o b /\ a \in Seq(E) /\ b \in Seq(E)
    BY <1>0, <1>3, <1>4, <1>r
  <2> HIDE DEF a, b
  <2>2. Len(h[k]) = Len(a) + Len(b)
    BY <2>1
  <2> QED BY <2>2 DEF a, b
<1>7. \A k \in 0..n : Len(h[k]) = Total(lens, k)
  <2> DEFINE G == {k \in 0..n : Len(h[k]) = Total(lens, k)}
  <2>1. 0 \in G
    BY <1>0, <1>2, <1>t
  <2>2. \A k \in 1..n : k - 1 \in G => k \in G
    BY <1>6, <1>r, <1>t
  <2>3. \A k \in 0..n : k \in G
    <3> HIDE DEF G
    <3> QED BY <1>0, <2>1, <2>2, InductTo
  <2> QED BY <2>3
<1>8. \A k \in 0..n : \A r \in 1..k : \A i \in 1..Len(seqs[r]) :
        h[k][Total(lens, r - 1) + i] = seqs[r][i]
  <2> DEFINE Right(k) == \A r \in 1..k : \A i \in 1..Len(seqs[r]) :
                           h[k][Total(lens, r - 1) + i] = seqs[r][i]
             G == {k \in 0..n : Right(k)}
  <2>1. 0 \in G
    BY <1>0
  <2>2. ASSUME NEW k \in 1..n, k - 1 \in G PROVE k \in G
    <3>1. Right(k - 1) /\ k \in 0..n
      BY <1>r, <2>2
    <3>2. ASSUME NEW r \in 1..k, NEW i \in 1..Len(seqs[r])
          PROVE  h[k][Total(lens, r - 1) + i] = seqs[r][i]
      <4> DEFINE a == h[k - 1]
                 b == seqs[k]
                 o == Total(lens, r - 1)
      <4>1. h[k] = a \o b /\ a \in Seq(E) /\ b \in Seq(E)
        BY <1>0, <1>3, <1>4, <1>r
      <4>2. /\ r \in 1..n /\ r \in 0..n /\ r - 1 \in 0..n /\ k - 1 \in 0..n /\ k \in Nat
            /\ r # k => r \in 1..(k - 1) /\ k - 1 \in r..n
        BY <1>0
      <4>3. /\ o \in Nat /\ Len(a) \in Nat /\ Len(seqs[r]) \in Nat
            /\ Len(a) = Total(lens, k - 1)
        BY <1>0, <1>t, <1>7, <4>1, <4>2
      <4>4. CASE r = k
        <5>1. Len(a) = o /\ b = seqs[r]
          BY <4>3, <4>4
        <5> HIDE DEF a, b, o
        <5>2. i \in 1..Len(b)
          BY <5>1
        <5>3. (a \o b)[o + i] = b[i]
          <6> DEFINE j == o + i
          <6>1. /\ j \in 1..(Len(a) + Len(b)) /\ ~ (j <= Len(a)) /\ j - Len(a) = i
            BY <4>3, <5>1, <5>2
          <6> HIDE DEF j
          <6>2. (a \o b)[j] = IF j <= Len(a) THEN a[j] ELSE b[j - Len(a)]
            BY <4>1, <6>1, ConcatProperties
          <6> QED BY <6>1, <6>2 DEF j
        <5> QED BY <4>1, <5>1, <5>3 DEF o
      <4>5. CASE r # k
        <5>1. a[o + i] = seqs[r][i]
          BY <3>1, <4>2, <4>5
        <5>2. Total(lens, r) = o + Len(seqs[r])
          BY <1>t, <4>2
        <5>3. Total(lens, r) <= Len(a)
          BY <1>t, <4>2, <4>3, <4>5
        <5>4. o + i \in 1..Len(a)
          <6> HIDE DEF a, o
          <6> QED BY <4>3, <5>2, <5>3, SMTT(30)
        <5>5. (a \o b)[o + i] = a[o + i]
          <6> HIDE DEF a, b, o
          <6> QED BY <4>1, <5>4
        <5> QED BY <4>1, <5>1, <5>5
      <4> QED BY <4>4, <4>5
    <3> QED BY <3>1, <3>2
  <2>3. \A k \in 1..n : k - 1 \in G => k \in G
    BY <2>2
  <2>4. \A k \in 0..n : k \in G
    <3> HIDE DEF G
    <3> QED BY <1>0, <2>1, <2>3, InductTo
  <2> QED BY <2>4
<1>9. n \in 0..n
  BY <1>0
<1>10. /\ FlattenSeq(seqs) \in Seq(E)
       /\ Len(FlattenSeq(seqs)) = Total(lens, n)
       /\ \A r \in 1..n : \A i \in 1..Len(seqs[r]) :
            FlattenSeq(seqs)[Total(lens, r - 1) + i] = seqs[r][i]
  BY <1>4, <1>5, <1>7, <1>8, <1>9, SMTT(30)
<1>11. \A r \in 1..n : LengthsOf(seqs)[r] = Len(seqs[r])
  BY DEF LengthsOf
<1> QED BY <1>10, <1>11 DEF lens

\* Every position below the sum lies in one of its parts.
LEMMA TotalCovers ==
  ASSUME NEW f, NEW n \in Nat, \A k \in 1..n : f[k] \in Nat, NEW p \in 1..Total(f, n)
  PROVE  \E r \in 1..n : \E i \in 1..f[r] : p = Total(f, r - 1) + i
<1> DEFINE G == {k \in 0..n : p <= Total(f, k) =>
                   \E r \in 1..n : \E i \in 1..f[r] : p = Total(f, r - 1) + i}
<1>1. /\ Total(f, 0) = 0
      /\ \A k \in 0..n : Total(f, k) \in Nat
      /\ \A k \in 1..n : Total(f, k) = Total(f, k - 1) + f[k]
  BY TotalAdds
<1>2. n \in 0..n /\ 0 \in 0..n /\ p \in Nat /\ p >= 1 /\ p <= Total(f, n)
  BY <1>1
<1>3. 0 \in G
  BY <1>1, <1>2
<1>4. ASSUME NEW k \in 1..n, k - 1 \in G PROVE k \in G
  <2>1. k \in 0..n /\ k - 1 \in 0..n
    OBVIOUS
  <2>2. CASE p <= Total(f, k - 1)
    BY <1>4, <2>1, <2>2
  <2>3. CASE ~ (p <= Total(f, k - 1))
    <3> DEFINE o == Total(f, k - 1)
               i == p - o
    <3>1. Total(f, k) = o + f[k] /\ o \in Nat /\ f[k] \in Nat
      BY <1>1, <2>1
    <3>2. ~ (p <= o)
      BY <2>3
    <3>3. p <= Total(f, k) => i \in 1..f[k] /\ p = o + i
      <4> HIDE DEF o
      <4> QED BY <1>2, <3>1, <3>2
    <3> HIDE DEF o, i
    <3> QED BY <2>1, <3>3 DEF o
  <2> QED BY <2>2, <2>3
<1>5. n \in G
  <2>1. \A k \in 1..n : k - 1 \in G => k \in G
    BY <1>4
  <2> HIDE DEF G
  <2> QED BY <1>2, <1>3, <2>1, InductTo
<1> QED BY <1>2, <1>5

\* A position of the flat sequence is one in some sequence.
Placed(seqs, n, p) ==
  \E r \in 1..n : \E i \in 1..Len(seqs[r]) :
    p = Total(LengthsOf(seqs), r - 1) + i /\ FlattenSeq(seqs)[p] = seqs[r][i]

\* A sequence of sequences has the elements of its sequences.
LEMMA FlattenedFrom ==
  ASSUME NEW E, NEW seqs \in Seq(Seq(E)), NEW n \in Nat, n = Len(seqs)
  PROVE  \A p \in 1..Len(FlattenSeq(seqs)) : Placed(seqs, n, p)
<1> DEFINE lens == LengthsOf(seqs)
<1> SUFFICES ASSUME NEW p \in 1..Len(FlattenSeq(seqs))
             PROVE  \E r \in 1..n : \E i \in 1..Len(seqs[r]) :
                      p = Total(lens, r - 1) + i /\ FlattenSeq(seqs)[p] = seqs[r][i]
  BY DEF Placed
<1>1. /\ Len(FlattenSeq(seqs)) = Total(lens, n)
      /\ \A r \in 1..n : \A i \in 1..Len(seqs[r]) :
            FlattenSeq(seqs)[Total(lens, r - 1) + i] = seqs[r][i]
  BY Flattened, SMTT(30)
<1>2. \A k \in 1..n : lens[k] \in Nat /\ lens[k] = Len(seqs[k])
  BY Flattened
<1> HIDE DEF lens
<1>3. PICK r \in 1..n : \E i \in 1..lens[r] : p = Total(lens, r - 1) + i
  BY <1>1, <1>2, TotalCovers, SMTT(30)
<1> QED BY <1>1, <1>2, <1>3

\* Max of a nonempty set of positions is its greatest element.
LEMMA MaxIsGreatest ==
  ASSUME NEW n \in Nat, NEW S \in SUBSET (1..n), S # {}
  PROVE  Max(S) \in S /\ \A y \in S : y <= Max(S)
<1> DEFINE T == {n - x : x \in S}
<1>0. \A x \in S : x \in 1..n /\ x \in Int /\ n - x \in Nat
  OBVIOUS
<1>1. T \in SUBSET Nat /\ T # {}
  BY <1>0
<1>2. PICK t \in T : \A y \in T : t <= y
  BY <1>1, MinIsLeast
<1>3. PICK x \in S : t = n - x
  BY <1>2
<1>4. \A y \in S : x >= y
  <2> TAKE y \in S
  <2>1. n - x <= n - y
    BY <1>2, <1>3
  <2> QED BY <1>0, <2>1
<1>5. Max(S) \in S /\ \A y \in S : Max(S) >= y
  BY <1>4 DEF Max
<1>6. Max(S) \in Int /\ \A y \in S : y \in Int
  BY <1>0, <1>5
<1> QED BY <1>5, <1>6

\* The greatest of the first positions, and the others.
LEMMA LastPosition ==
  ASSUME NEW n \in Nat, NEW k \in 1..n
  PROVE  /\ 1..k \in SUBSET (1..n) /\ 1..k # {} /\ Max(1..k) = k
         /\ (1..k) \ {k} = 1..(k - 1) /\ 1..0 = {}
<1>1. k \in Nat /\ 1..k \in SUBSET (1..n) /\ k \in 1..k /\ 1..k # {}
  OBVIOUS
<1>2. Max(1..k) \in 1..k /\ \A y \in 1..k : y <= Max(1..k)
  BY <1>1, MaxIsGreatest
<1>3. Max(1..k) = k
  BY <1>1, <1>2
<1>4. (1..k) \ {k} = 1..(k - 1)
  OBVIOUS
<1> QED BY <1>1, <1>3, <1>4

\* A function on positions is a sequence.
LEMMA IndexedSeq ==
  ASSUME NEW n \in Nat, NEW s, s = [i \in 1..n |-> s[i]]
  PROVE  /\ s \in Seq(ToSet(s)) /\ Len(s) = n /\ DOMAIN s = 1..n
         /\ \A x : /\ Append(s, x) = [i \in 1..(n + 1) |-> Append(s, x)[i]]
                   /\ Append(s, x)[n + 1] = x
                   /\ \A i \in 1..n : Append(s, x)[i] = s[i]
<1>1. DOMAIN s = 1..n
  OBVIOUS
<1>2. s \in [1..n -> ToSet(s)]
  BY <1>1 DEF ToSet
<1>3. s \in Seq(ToSet(s)) /\ Len(s) = n
  BY <1>2
<1>4. ASSUME NEW x
      PROVE  /\ Append(s, x) = [i \in 1..(n + 1) |-> Append(s, x)[i]]
             /\ Append(s, x)[n + 1] = x
             /\ \A i \in 1..n : Append(s, x)[i] = s[i]
  <2> DEFINE T == ToSet(s) \cup {x}
             a == Append(s, x)
  <2>1. s \in Seq(T) /\ x \in T
    BY <1>3, SeqMonotonic
  <2>2. a \in Seq(T) /\ Len(a) = n + 1 /\ a[n + 1] = x /\ \A i \in 1..n : a[i] = s[i]
    <3> HIDE DEF T
    <3> QED BY <1>3, <2>1
  <2>3. a = [i \in 1..Len(a) |-> a[i]]
    <3> HIDE DEF T, a
    <3> QED BY <2>2, LenProperties
  <2> QED BY <2>2, <2>3
<1> QED BY <1>1, <1>3, <1>4

\* The first position of a match.
LEMMA FirstPosition ==
  ASSUME NEW n \in Nat, NEW P \in SUBSET (1..n)
  PROVE  LET first == IF P # {} THEN Min(P) ELSE 0
         IN  /\ first = 0 => P = {}
             /\ first # 0 => first \in P /\ \A i \in P : first <= i
<1>1. P \in SUBSET Nat
  OBVIOUS
<1>2. P # {} => Min(P) \in P /\ \A i \in P : Min(P) <= i
  BY <1>1, MinIsLeast
<1> QED BY <1>2

\* A sequence, whatever its elements are.
IsList(s) == \E n \in Nat : s = [i \in 1..n |-> s[i]]

\* What is added to a list, or replaced in it, leaves a list.
LEMMA ListFacts ==
  ASSUME NEW s, IsList(s)
  PROVE  /\ s \in Seq(ToSet(s)) /\ Len(s) \in Nat /\ DOMAIN s = 1..Len(s)
         /\ s = [i \in 1..Len(s) |-> s[i]]
         /\ \A x : IsList(Append(s, x)) /\ \A k : IsList([s EXCEPT ![k] = x])
<1>1. PICK n \in Nat : s = [i \in 1..n |-> s[i]]
  BY DEF IsList
<1>2. s \in Seq(ToSet(s)) /\ Len(s) = n /\ DOMAIN s = 1..n
  BY <1>1, IndexedSeq
<1>3. ASSUME NEW x PROVE IsList(Append(s, x))
  <2>1. n + 1 \in Nat /\ Append(s, x) = [i \in 1..(n + 1) |-> Append(s, x)[i]]
    BY <1>1, IndexedSeq
  <2> QED BY <2>1 DEF IsList
<1>4. ASSUME NEW x, NEW k PROVE IsList([s EXCEPT ![k] = x])
  <2>1. DOMAIN [s EXCEPT ![k] = x] = 1..n
    BY <1>2
  <2>2. [s EXCEPT ![k] = x] = [i \in 1..n |-> [s EXCEPT ![k] = x][i]]
    BY <2>1
  <2> QED BY <2>2 DEF IsList
<1> QED BY <1>1, <1>2, <1>3, <1>4

\* The first elements of a list.
LEMMA HeadOfList ==
  ASSUME NEW t, IsList(t), NEW k \in 0..Len(t)
  PROVE  /\ Len(SubSeq(t, 1, k)) = k
         /\ k = Len(t) => SubSeq(t, 1, k) = t
<1> DEFINE n == Len(t)
           u == SubSeq(t, 1, k)
<1>1. t \in Seq(ToSet(t)) /\ n \in Nat /\ DOMAIN t = 1..n /\ t = [i \in 1..n |-> t[i]]
  BY ListFacts
<1>2. /\ k \in Int /\ 1 \in Int /\ k - 1 + 1 = k /\ (~ (1 <= k) => k = 0)
      /\ \A i \in 1..k : 1 + i - 1 = i /\ i \in 1..n
  BY <1>1
<1>3. \A i \in 1..k : t[i] \in ToSet(t)
  BY <1>1, <1>2 DEF ToSet
<1>4. /\ u \in Seq(ToSet(t)) /\ Len(u) = IF 1 <= k THEN k - 1 + 1 ELSE 0
      /\ \A i \in 1..(k - 1 + 1) : u[i] = t[1 + i - 1]
  BY <1>2, <1>3, SubSeqProperties
<1> HIDE DEF u
<1>5. Len(u) = k /\ \A i \in 1..k : u[i] = t[i]
  BY <1>2, <1>4
<1>6. k = n => u = t
  <2>1. u = [i \in 1..Len(u) |-> u[i]]
    BY <1>4, LenProperties
  <2> HIDE DEF n
  <2> QED BY <1>1, <1>5, <2>1
<1> QED BY <1>5, <1>6 DEF u

\* n sequences.
AreLists(seqs, n) ==
  /\ n \in Nat /\ seqs = [i \in 1..n |-> seqs[i]]
  /\ \A i \in 1..n : seqs[i] \in Seq(ToSet(seqs[i]))

\* The elements of a flat sequence are those of its parts.
LEMMA FlatElements ==
  ASSUME NEW n, NEW seqs, AreLists(seqs, n)
  PROVE  /\ FlattenSeq(seqs) \in Seq(ToSet(FlattenSeq(seqs)))
         /\ ToSet(FlattenSeq(seqs)) = UNION {ToSet(seqs[i]) : i \in 1..n}
<1> DEFINE E == UNION {ToSet(seqs[i]) : i \in 1..n}
           flat == FlattenSeq(seqs)
<1>0. n \in Nat
  BY DEF AreLists
<1>1. \A i \in 1..n : seqs[i] \in Seq(E)
  <2> TAKE i \in 1..n
  <2>0. seqs[i] \in Seq(ToSet(seqs[i]))
    BY DEF AreLists
  <2>1. ToSet(seqs[i]) \subseteq E
    OBVIOUS
  <2> HIDE DEF E
  <2> QED BY <2>0, <2>1, SeqMonotonic
<1>2. seqs \in Seq(Seq(E)) /\ n = Len(seqs)
  <2> HIDE DEF E
  <2>1. seqs \in [1..n -> Seq(E)]
    BY <1>1 DEF AreLists
  <2> QED BY <1>0, <2>1
<1>3. /\ flat \in Seq(E)
      /\ \A r \in 1..n : \A i \in 1..Len(seqs[r]) : flat[Total(LengthsOf(seqs), r - 1) + i] = seqs[r][i]
      /\ Len(flat) = Total(LengthsOf(seqs), n)
      /\ \A r \in 1..n : LengthsOf(seqs)[r] = Len(seqs[r])
  <2> HIDE DEF E
  <2> QED BY <1>0, <1>2, Flattened, SMTT(30)
<1>4. \A p \in 1..Len(flat) : Placed(seqs, n, p)
  <2> HIDE DEF E
  <2> QED BY <1>0, <1>2, FlattenedFrom
<1>5. DOMAIN flat = 1..Len(flat) /\ Len(flat) \in Nat /\ \A i \in 1..n : DOMAIN seqs[i] = 1..Len(seqs[i])
  <2> HIDE DEF E
  <2> QED BY <1>1, <1>3, LenProperties
<1>6. ToSet(flat) \subseteq E
  <2> SUFFICES ASSUME NEW p \in 1..Len(flat) PROVE flat[p] \in E
    BY <1>5 DEF ToSet
  <2> HIDE DEF E
  <2> QED BY <1>3, ElementOfSeq
<1>7. ASSUME NEW r \in 1..n, NEW i \in 1..Len(seqs[r])
      PROVE  seqs[r][i] \in ToSet(flat)
  <2> DEFINE lens == LengthsOf(seqs)
             p == Total(lens, r - 1) + i
  <2>1. \A k \in 1..n : lens[k] \in Nat /\ lens[k] = Len(seqs[k])
    <3> HIDE DEF E
    <3> QED BY <1>1, <1>3
  <2> HIDE DEF lens
  <2>2. /\ \A k \in 0..n : Total(lens, k) \in Nat
        /\ \A k \in 1..n : Total(lens, k) = Total(lens, k - 1) + lens[k]
    BY <1>0, <2>1, TotalAdds
  <2>3. r \in 0..n /\ r - 1 \in 0..n /\ n \in r..n /\ i \in Nat /\ i >= 1 /\ i <= lens[r] /\ n \in 0..n
    BY <1>0, <2>1
  <2>4. Total(lens, r) <= Total(lens, n)
    BY <1>0, <2>1, <2>3, TotalGrows
  <2>5. p \in 1..Len(flat)
    <3>1. /\ Total(lens, r) = Total(lens, r - 1) + lens[r] /\ Len(flat) = Total(lens, n)
          /\ Total(lens, r - 1) \in Nat /\ Total(lens, r) \in Nat /\ Total(lens, n) \in Nat
          /\ lens[r] \in Nat
      BY <1>3, <2>1, <2>2, <2>3 DEF lens
    <3> HIDE DEF flat
    <3> QED BY <2>3, <2>4, <3>1, SMTT(30)
  <2>6. flat[p] = seqs[r][i]
    BY <1>3 DEF lens
  <2> HIDE DEF flat, p
  <2> QED BY <1>5, <2>5, <2>6 DEF ToSet
<1>8. E \subseteq ToSet(flat)
  <2> SUFFICES ASSUME NEW r \in 1..n, NEW x \in ToSet(seqs[r]) PROVE x \in ToSet(flat)
    OBVIOUS
  <2>1. PICK i \in 1..Len(seqs[r]) : x = seqs[r][i]
    BY <1>5 DEF ToSet
  <2> HIDE DEF flat
  <2> QED BY <1>7, <2>1
<1>9. flat \in Seq(ToSet(flat))
  <2>1. E = ToSet(flat)
    BY <1>6, <1>8
  <2> QED BY <1>3, <2>1
<1> QED BY <1>6, <1>8, <1>9

================================================================================
