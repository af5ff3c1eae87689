------------------------------ MODULE MCTunnel ------------------------------
(* Bounds of the runs of Tunnel: the client and its applications.         *)
EXTENDS Tunnel, TLC

CONSTANTS c1, a1, a2

AppSymmetry == Permutations({a1, a2})

OneHome == [a \in App |-> c1]
=============================================================================
