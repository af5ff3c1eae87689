----------------------------- MODULE MCTcpRelay -----------------------------
(* Bounds of the runs of TcpRelay: how many bytes each end sends.          *)
EXTENDS TcpRelayInv

OneEach == [app |-> 1, service |-> 1]
AppOne  == [app |-> 1, service |-> 0]
AppTwo  == [app |-> 2, service |-> 0]
TwoOne  == [app |-> 2, service |-> 1]
=============================================================================
