----------------------------- MODULE MCUdpRelay -----------------------------
(* Bounds for model-checking UdpRelay. *)
EXTENDS UdpRelay

CONSTANTS a1, a2

OneEach == [a \in App |-> 1]
TwoOne == [a \in App |-> IF a = a1 THEN 2 ELSE 1]
=============================================================================
