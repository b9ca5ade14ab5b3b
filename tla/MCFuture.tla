------------------------------ MODULE MCFuture ------------------------------
(* Instances of Future for TLC. *)
EXTENDS Future, TLC
=============================================================================
