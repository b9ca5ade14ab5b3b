----------------------------- MODULE MCMailbox -----------------------------
(* Instances of Mailbox for TLC. *)
EXTENDS Mailbox, TLC

Symmetry == Permutations(Pushers) \cup Permutations(Closers)
=============================================================================
