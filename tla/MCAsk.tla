------------------------------- MODULE MCAsk -------------------------------
(* Instances of Ask for TLC: a goroutine that only sends requests, one that
   waits, and a handler that waits. *)
EXTENDS Ask, TLC

CONSTANTS o1, o2, b

MCModes == o1 :> {"async"} @@ o2 :> {"sync", "degrade"} @@ b :> {"sync"}
MCTimers == o1 :> {"armed"} @@ o2 :> {"armed", "never"} @@ b :> {"armed"}
=============================================================================
