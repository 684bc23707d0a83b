----------------------------- MODULE Arrangement -----------------------------
(***************************************************************************)
(* Sorting, filtering and adding up sequences, by definitions that proofs  *)
(* can use: the prover knows nothing of SortSeq and SelectSeq.             *)
(***************************************************************************)
EXTENDS Naturals, Sequences, FiniteSets

\* The elements of a finite set in the strict total order R, a set of pairs.
Arranged(S, R) ==
  [n \in 1..Cardinality(S) |->
     CHOOSE x \in S : Cardinality({y \in S : <<y, x>> \in R}) = n - 1]

\* A pair of positions in the order of ids; elements of one id stay as they are.
Sooner(seq, p) ==
  \/ seq[p[1]].id < seq[p[2]].id
  \/ seq[p[1]].id = seq[p[2]].id /\ p[1] < p[2]

\* What a sequence has at some positions, from left to right.
Picked(seq, positions) ==
  LET at == Arranged(positions, {p \in positions \X positions : p[1] < p[2]})
  IN  [n \in DOMAIN at |-> seq[at[n]]]

\* The elements of a sequence that pass a test.
Filtered(seq, Test(_)) == Picked(seq, {i \in DOMAIN seq : Test(seq[i])})

\* The sum of the first n numbers of a sequence.
Total(numbers, n) ==
  LET sum[k \in 0..n] == IF k = 0 THEN 0 ELSE sum[k - 1] + numbers[k]
  IN  sum[n]

=============================================================================
