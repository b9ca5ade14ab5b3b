------------------------------ MODULE MCRemote ------------------------------
(* Instances of Remote for TLC. *)
EXTENDS Remote, TLC

CONSTANTS s1, s2

MCCalls == s1 :> 2 @@ s2 :> 1
=============================================================================
