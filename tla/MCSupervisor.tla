---------------------------- MODULE MCSupervisor ----------------------------
(* Instances of Supervisor for TLC. *)
EXTENDS Supervisor

\* Three failures under one-for-one, one that restarts several children.
FewPanics == [st \in Strategies |-> IF st = "one" THEN 3 ELSE 1]

\* Two failures.
TwoPanics == [st \in Strategies |-> 2]
=============================================================================
