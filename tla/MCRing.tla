------------------------------- MODULE MCRing -------------------------------
(* Instances of Ring for TLC. *)
EXTENDS Ring, TLC

Symmetry == Permutations(Producers) \cup Permutations(Consumers)
            \cup Permutations(Values)
=============================================================================
