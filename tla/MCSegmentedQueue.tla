-------------------------- MODULE MCSegmentedQueue --------------------------
(* Instances of SegmentedQueue for TLC. *)
EXTENDS SegmentedQueue, TLC

Symmetry == Permutations(Producers) \cup Permutations(Consumers)
=============================================================================
