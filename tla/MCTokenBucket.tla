--------------------------- MODULE MCTokenBucket ---------------------------
(* Instances of TokenBucket for TLC. *)
EXTENDS TokenBucket, TLC

Symmetry == Permutations(Callers)
=============================================================================
