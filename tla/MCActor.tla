------------------------------ MODULE MCActor ------------------------------
(* Instances of Actor for TLC: payloads of one and two bytes, among them a
   zero byte, which a reader out of step takes for part of a length. *)
EXTENDS Actor, TLC

CONSTANTS m1, m2

MCMarshal == m1 :> <<0>> @@ m2 :> <<2, 3>>
=============================================================================
