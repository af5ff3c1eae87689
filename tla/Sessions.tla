------------------------------ MODULE Sessions ------------------------------
(***************************************************************************)
(* What a tunnel promises the applications that connect to it, connection  *)
(* of a client to the host by connection: the service is connected to once *)
(* for each application at most, in the order in which they came, and      *)
(* under the address each of them came from.                               *)
(***************************************************************************)
EXTENDS Naturals, SequencesExt

CONSTANTS
  Conn,  \* the connections of the clients to the host
  App    \* the applications, named by their local address

VARIABLES
  opened,  \* connection -> applications given a stream, in order
  served   \* connection -> addresses the service was connected for, in order

vars == <<opened, served>>

Init == opened = [k \in Conn |-> <<>>] /\ served = [k \in Conn |-> <<>>]

\* An application that has been given a stream is not given another.
Open(k, a) ==
  /\ \A j \in Conn : ~Contains(opened[j], a)
  /\ opened' = [opened EXCEPT ![k] = Append(@, a)]
  /\ UNCHANGED served

\* The service is connected to for the n-th application; neither it nor one
\* that came after it has been served.
Serve(k) ==
  /\ \E n \in DOMAIN opened[k] :
       /\ \A m \in n..Len(opened[k]) : ~Contains(served[k], opened[k][m])
       /\ served' = [served EXCEPT ![k] = Append(@, opened[k][n])]
  /\ UNCHANGED opened

Next == \E k \in Conn : Serve(k) \/ \E a \in App : Open(k, a)

Spec == Init /\ [][Next]_vars
=============================================================================
