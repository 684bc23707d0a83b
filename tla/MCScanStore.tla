----------------------------- MODULE MCScanStore -----------------------------
(* Instances of ScanStore for TLC: ids, sources, media and talks are model  *)
(* values and interchangeable.                                              *)
EXTENDS ScanStore, TLC

Symmetry == Permutations(EventIds) \cup Permutations(Sources)

=============================================================================
