----------------------------- MODULE TunnelBook -----------------------------
(***************************************************************************)
(* What the configuration file promises to whoever issues one command      *)
(* after the other: it is two sets of tunnels, a command adds or removes   *)
(* one of them or changes nothing, no two tunnels of a set have the same   *)
(* place, and the secret of a host tunnel is its own.  The promise holds   *)
(* while the commands are calm: none overlaps another, and none is cut off *)
(* in the middle of a save.                                                *)
(***************************************************************************)
VARIABLES
  hosts,    \* the host tunnels
  clients,  \* the client tunnels
  calm      \* no two commands overlapped and no save was cut off

vars == <<hosts, clients, calm>>

Free(place, tunnels) == \A t \in tunnels : t.place # place

Lawful(tunnels) == \A t, u \in tunnels : t.place = u.place => t = u

Init ==
  /\ Lawful(hosts)
  /\ Lawful(clients)
  /\ calm = TRUE

AddHost ==
  /\ \E t \in hosts' \ hosts :
       /\ Free(t.place, hosts)
       /\ \A u \in hosts : u.secret # t.secret
       /\ hosts' = hosts \cup {t}
  /\ UNCHANGED <<clients, calm>>

AddClient ==
  /\ \E t \in clients' \ clients :
       Free(t.place, clients) /\ clients' = clients \cup {t}
  /\ UNCHANGED <<hosts, calm>>

RemoveHost ==
  /\ \E t \in hosts : hosts' = hosts \ {t}
  /\ UNCHANGED <<clients, calm>>

\* A host tunnel of the name goes first.
RemoveClient ==
  /\ \E t \in clients :
       /\ clients' = clients \ {t}
       /\ \A u \in hosts : u.name # t.name
  /\ UNCHANGED <<hosts, calm>>

Spoil == ~calm'

Next == AddHost \/ AddClient \/ RemoveHost \/ RemoveClient \/ Spoil

Spec == Init /\ [][Next]_vars
=============================================================================
