--------------------------- MODULE SessionsProofs ---------------------------
(***************************************************************************)
(* Proof that Tunnel implements Sessions, for every instance: the service  *)
(* is connected to once at most for each application, in order.            *)
(***************************************************************************)
EXTENDS TunnelProofs

-----------------------------------------------------------------------------
(* The applications, from the backlog to their stream.                     *)

\* What a step does to the backlogs: some are closed, an application joins
\* one, or the first of one is given a stream.
Drops ==
  /\ UNCHANGED <<came, streams>>
  /\ \A j \in Conn : queue'[j] = queue[j] \/ queue'[j] = <<>>
Joins(a, k) ==
  /\ a \notin came /\ came' = came \cup {a}
  /\ queue' = [queue EXCEPT ![k] = Append(queue[k], a)]
  /\ UNCHANGED streams
IsGiven(k) ==
  /\ queue[k] # <<>>
  /\ streams' = [streams EXCEPT ![k] = Append(streams[k], Head(queue[k]))]
  /\ queue' = [queue EXCEPT ![k] = Tail(queue[k])]
  /\ UNCHANGED came

\* Every step is one of these (the listener in connect, and its socket).
LEMMA BacklogKinds ==
  ASSUME TypeOK, Next \/ UNCHANGED vars
  PROVE  \/ Drops
         \/ \E k \in Conn : IsGiven(k) \/ \E a \in App : Joins(a, k)
<1>1. CASE HostNext \/ UNCHANGED vars
  BY <1>1, HostFrame DEF Drops, clientVars, wire, vars
<1>2. ASSUME NEW c \in Client,
             \/ Dial(c) \/ Connected(c) \/ DialFails(c)
             \/ Disconnect(c) \/ DisconnectReturns(c)
      PROVE  Drops
  BY <1>2 DEF Dial, Connected, DialFails, Disconnect, DisconnectReturns, Drops, wire
<1>3. ASSUME NEW c \in Client, DisconnectPanics(c) \/ ClientCrash(c)
      PROVE  Drops
  BY <1>3 DEF DisconnectPanics, ClientCrash, ClientDies, Drops, wire
<1>4. ASSUME NEW k \in Conn, Bind(k) \/ ListenerStops(k) \/ SendReq(k)
      PROVE  Drops
  <2>1. UNCHANGED <<came, streams>>
    BY <1>4 DEF Bind, ListenerStops, SendReq, wire
  <2>2. UNCHANGED queue \/ queue' = [queue EXCEPT ![k] = <<>>]
    BY <1>4 DEF Bind, ListenerStops, SendReq, ListenerEnds
  <2> QED
    BY <2>1, <2>2 DEF Drops, TypeOK
<1>5. ASSUME NEW k \in Conn,
             AcceptErrs(k) \/ Speak(k) \/ ClientForwardEnds(k) \/ Lose(k) \/ Notices(k)
      PROVE  Drops
  BY <1>5 DEF AcceptErrs, Speak, ClientForwardEnds, Lose, Notices, Drops, clientVars, wire
<1>6. ASSUME NEW k \in Conn, AcceptApp(k)
      PROVE  Drops \/ IsGiven(k)
  <2>1. CASE "client" \notin net[k]
    <3>1. UNCHANGED <<came, streams>> /\ queue' = [queue EXCEPT ![k] = <<>>]
      BY <1>6, <2>1 DEF AcceptApp, ListenerEnds
    <3> QED
      BY <3>1 DEF Drops, TypeOK
  <2>2. CASE "client" \in net[k]
    BY <1>6, <2>2 DEF AcceptApp, IsGiven, TypeOK
  <2> QED
    BY <2>1, <2>2
<1>7. ASSUME NEW k \in Conn, NEW a \in App, AppConnects(a, k)
      PROVE  Joins(a, k)
  BY <1>7 DEF AppConnects, Joins, wire, TypeOK
<1> QED
  BY <1>1, <1>2, <1>3, <1>4, <1>5, <1>6, <1>7 DEF Next, ClientNext, Environment, Listener

\* The parts of the invariant that are about the applications.
Order == Come /\ WaitsOnce /\ OpenedOnce /\ WaitsOrOpened

\* Closing backlogs keeps the order of the others.
LEMMA DropsStep ==
  ASSUME TypeOK, Order, Drops
  PROVE  Order'
<1>1. \A k \in Conn : \A i \in 1..Len(queue'[k]) : i \in 1..Len(queue[k]) /\ queue'[k][i] = queue[k][i]
  BY DEF Drops
<1>2. UNCHANGED <<came, streams>>
  BY DEF Drops
<1>3. Come'
  BY <1>1, <1>2 DEF Order, Come
<1>4. WaitsOnce'
  BY <1>1 DEF Order, WaitsOnce
<1>5. OpenedOnce' /\ WaitsOrOpened'
  BY <1>1, <1>2 DEF Order, OpenedOnce, WaitsOrOpened
<1> QED
  BY <1>3, <1>4, <1>5 DEF Order

\* An application that joins a backlog has not come before.
LEMMA JoinsStep ==
  ASSUME TypeOK, Order, NEW k \in Conn, NEW a \in App, Joins(a, k)
  PROVE  Order'
<1>1. \A j \in Conn : \A i \in 1..Len(queue'[j]) :
        \/ i \in 1..Len(queue[j]) /\ queue'[j][i] = queue[j][i]
        \/ j = k /\ i = Len(queue[k]) + 1 /\ queue'[j][i] = a
  <2>1. ASSUME NEW j \in Conn, NEW i \in 1..Len(queue'[j])
        PROVE  \/ i \in 1..Len(queue[j]) /\ queue'[j][i] = queue[j][i]
               \/ j = k /\ i = Len(queue[k]) + 1 /\ queue'[j][i] = a
    <3>1. queue[j] \in Seq(App) /\ queue'[j] = (IF j = k THEN Append(queue[j], a) ELSE queue[j])
      BY DEF Joins, TypeOK
    <3> QED
      BY <3>1
  <2> QED
    BY <2>1
<1>2. a \notin came /\ came' = came \cup {a} /\ UNCHANGED streams
  BY DEF Joins
<1>3. /\ \A j \in Conn : \A i \in 1..Len(queue[j]) : queue[j][i] # a
      /\ \A j \in Conn : \A i \in 1..Len(streams[j]) : streams[j][i] # a
  BY <1>2 DEF Order, Come
<1>4. Come'
  BY <1>1, <1>2 DEF Order, Come
<1>5. WaitsOnce'
  <2>1. ASSUME NEW j \in Conn, NEW l \in Conn,
               NEW i \in 1..Len(queue'[j]), NEW m \in 1..Len(queue'[l]),
               queue'[j][i] = queue'[l][m]
        PROVE  j = l /\ i = m
    <3>1. \/ i \in 1..Len(queue[j]) /\ queue'[j][i] = queue[j][i]
          \/ j = k /\ i = Len(queue[k]) + 1 /\ queue'[j][i] = a
      BY <1>1
    <3>2. \/ m \in 1..Len(queue[l]) /\ queue'[l][m] = queue[l][m]
          \/ l = k /\ m = Len(queue[k]) + 1 /\ queue'[l][m] = a
      BY <1>1
    <3> QED
      BY <1>3, <2>1, <3>1, <3>2 DEF Order, WaitsOnce
  <2> QED
    BY <2>1 DEF WaitsOnce
<1>6. OpenedOnce' /\ WaitsOrOpened'
  BY <1>1, <1>2, <1>3 DEF Order, OpenedOnce, WaitsOrOpened
<1> QED
  BY <1>4, <1>5, <1>6 DEF Order

\* The application that is given a stream has left its backlog, and had none.
LEMMA IsGivenStep ==
  ASSUME TypeOK, Order, NEW k \in Conn, IsGiven(k)
  PROVE  Order'
<1> DEFINE a == Head(queue[k])
<1>1. queue[k] \in Seq(App) /\ queue[k] # <<>> /\ streams[k] \in Seq(App)
  BY DEF IsGiven, TypeOK
<1>2. a = queue[k][1] /\ 1 \in 1..Len(queue[k]) /\ a \in App
  BY <1>1
<1>3. \A j \in Conn : /\ queue'[j] = IF j = k THEN Tail(queue[k]) ELSE queue[j]
                      /\ streams'[j] = IF j = k THEN Append(streams[k], a) ELSE streams[j]
  BY DEF IsGiven, TypeOK
<1> HIDE DEF a
<1>4. ASSUME NEW j \in Conn, NEW i \in 1..Len(queue'[j])
      PROVE  \/ j # k /\ i \in 1..Len(queue[j]) /\ queue'[j][i] = queue[j][i]
             \/ j = k /\ i + 1 \in 1..Len(queue[k]) /\ queue'[j][i] = queue[k][i + 1]
  <2>1. CASE j # k
    BY <1>3, <2>1
  <2>2. CASE j = k
    <3>1. queue'[j] = Tail(queue[k]) /\ i \in 1..Len(Tail(queue[k]))
      BY <1>3, <2>2
    <3>2. i + 1 \in 1..Len(queue[k]) /\ Tail(queue[k])[i] = queue[k][i + 1]
      BY <1>1, <3>1
    <3> QED
      BY <2>2, <3>1, <3>2
  <2> QED
    BY <2>1, <2>2
<1>5. ASSUME NEW j \in Conn, NEW i \in 1..Len(streams'[j])
      PROVE  \/ i \in 1..Len(streams[j]) /\ streams'[j][i] = streams[j][i]
             \/ j = k /\ i = Len(streams[k]) + 1 /\ streams'[j][i] = a
  <2>1. CASE j # k
    BY <1>3, <2>1
  <2>2. CASE j = k
    <3>1. streams'[j] = Append(streams[k], a) /\ i \in 1..Len(Append(streams[k], a))
      BY <1>3, <2>2
    <3> QED
      BY <1>1, <1>2, <2>2, <3>1
  <2> QED
    BY <2>1, <2>2
<1>6. \A j \in Conn : \A i \in 1..Len(streams[j]) : streams[j][i] # a
  BY <1>2 DEF Order, WaitsOrOpened
<1>7. ASSUME NEW j \in Conn, NEW i \in 1..Len(queue'[j])
      PROVE  queue'[j][i] # a
  <2>1. CASE j # k
    BY <1>2, <1>4, <2>1 DEF Order, WaitsOnce
  <2>2. CASE j = k
    <3>1. i + 1 \in 1..Len(queue[k]) /\ queue'[j][i] = queue[k][i + 1] /\ i + 1 # 1
      BY <1>4, <2>2
    <3> QED
      BY <1>2, <3>1 DEF Order, WaitsOnce
  <2> QED
    BY <2>1, <2>2
<1>8. Come'
  <2>1. UNCHANGED came /\ a \in came
    BY <1>2 DEF IsGiven, Order, Come
  <2>2. \A j \in Conn : \A i \in 1..Len(queue'[j]) :
          \E n \in 1..Len(queue[j]) : queue'[j][i] = queue[j][n]
    BY <1>4
  <2>3. \A j \in Conn : \A i \in 1..Len(streams'[j]) :
          \/ i \in 1..Len(streams[j]) /\ streams'[j][i] = streams[j][i]
          \/ streams'[j][i] = a
    BY <1>5
  <2>4. /\ \A j \in Conn : \A i \in 1..Len(queue[j]) : queue[j][i] \in came
        /\ \A j \in Conn : \A i \in 1..Len(streams[j]) : streams[j][i] \in came
    BY DEF Order, Come
  <2>5. \A j \in Conn : \A i \in 1..Len(queue'[j]) : queue'[j][i] \in came
    BY <2>2, <2>4
  <2>6. \A j \in Conn : \A i \in 1..Len(streams'[j]) : streams'[j][i] \in came
    BY <2>1, <2>3, <2>4
  <2> QED
    BY <2>1, <2>5, <2>6 DEF Come
<1>9. WaitsOnce'
  <2>1. ASSUME NEW j \in Conn, NEW l \in Conn,
               NEW i \in 1..Len(queue'[j]), NEW m \in 1..Len(queue'[l]),
               queue'[j][i] = queue'[l][m]
        PROVE  j = l /\ i = m
    <3>1. \/ j # k /\ i \in 1..Len(queue[j]) /\ queue'[j][i] = queue[j][i]
          \/ j = k /\ i + 1 \in 1..Len(queue[k]) /\ queue'[j][i] = queue[k][i + 1]
      BY <1>4
    <3>2. \/ l # k /\ m \in 1..Len(queue[l]) /\ queue'[l][m] = queue[l][m]
          \/ l = k /\ m + 1 \in 1..Len(queue[k]) /\ queue'[l][m] = queue[k][m + 1]
      BY <1>4
    <3>3. i + 1 = m + 1 => i = m
      OBVIOUS
    <3>4. WaitsOnce
      BY DEF Order
    <3>5. CASE j = k /\ l = k
      <4>1. i + 1 = m + 1
        BY <2>1, <3>1, <3>2, <3>4, <3>5 DEF WaitsOnce
      <4> QED
        BY <3>3, <3>5, <4>1
    <3>6. CASE j # k /\ l # k
      BY <2>1, <3>1, <3>2, <3>4, <3>6 DEF WaitsOnce
    <3>7. CASE j = k /\ l # k
      BY <2>1, <3>1, <3>2, <3>4, <3>7 DEF WaitsOnce
    <3>8. CASE j # k /\ l = k
      BY <2>1, <3>1, <3>2, <3>4, <3>8 DEF WaitsOnce
    <3> QED
      BY <3>5, <3>6, <3>7, <3>8
  <2> QED
    BY <2>1 DEF WaitsOnce
<1>10. OpenedOnce'
  BY <1>5, <1>6 DEF Order, OpenedOnce
<1>11. WaitsOrOpened'
  <2>1. ASSUME NEW j \in Conn, NEW l \in Conn,
               NEW i \in 1..Len(queue'[j]), NEW m \in 1..Len(streams'[l])
        PROVE  queue'[j][i] # streams'[l][m]
    <3>1. \E n \in 1..Len(queue[j]) : queue'[j][i] = queue[j][n]
      BY <1>4
    <3>2. \/ m \in 1..Len(streams[l]) /\ streams'[l][m] = streams[l][m]
          \/ streams'[l][m] = a
      BY <1>5
    <3> QED
      BY <1>7, <3>1, <3>2 DEF Order, WaitsOrOpened
  <2> QED
    BY <2>1 DEF WaitsOrOpened
<1> QED
  BY <1>8, <1>9, <1>10, <1>11 DEF Order

\* So every step keeps the applications in their places.
LEMMA OrderStep ==
  ASSUME TypeOK, Order, Next \/ UNCHANGED vars
  PROVE  Order'
BY BacklogKinds, DropsStep, JoinsStep, IsGivenStep

-----------------------------------------------------------------------------
(* The service, from the ConnReq to the connection to it.                  *)

\* Every step but these two leaves what was counted and served, and no loop
\* comes to answer by another (ReceiveReq and DialService).
LEMMA ServedBy ==
  ASSUME TypeOK, Next \/ UNCHANGED vars,
         ~ \E g \in Gen : ReceiveReq(g) \/ DialService(g)
  PROVE  /\ UNCHANGED <<got, served>>
         /\ \A h \in Gen : loop'[h] = "dial" => loop[h] = "dial" /\ cur'[h] = cur[h]
<1>1. CASE Start \/ StopSends \/ StopCloses
  BY <1>1 DEF Start, StopSends, StopCloses, handled, TypeOK, Gen
<1>2. CASE HostCrash
  BY <1>2 DEF HostCrash, TypeOK
<1>3. ASSUME NEW g \in Gen, NEW k \in Conn, AcceptConn(g, k)
      PROVE  /\ UNCHANGED <<got, served>>
             /\ \A h \in Gen : loop'[h] = "dial" => loop[h] = "dial" /\ cur'[h] = cur[h]
  BY <1>3 DEF AcceptConn, handled, TypeOK
<1>4. ASSUME NEW g \in Gen, AcceptNone(g) \/ Continue(g) \/ Register(g)
      PROVE  /\ UNCHANGED <<got, served>>
             /\ \A h \in Gen : loop'[h] = "dial" => loop[h] = "dial" /\ cur'[h] = cur[h]
  BY <1>4 DEF AcceptNone, Continue, Register, handled, TypeOK
<1>5. ASSUME NEW g \in Gen, HandshakeFails(g) \/ HandlerFails(g) \/ DialRefused(g)
      PROVE  /\ UNCHANGED <<got, served>>
             /\ \A h \in Gen : loop'[h] = "dial" => loop[h] = "dial" /\ cur'[h] = cur[h]
  BY <1>5 DEF HandshakeFails, HandlerFails, DialRefused, NextConn, handled, TypeOK
<1>6. ASSUME NEW g \in Gen, AcceptBi(g) \/ HostForwardEnds(g)
      PROVE  /\ UNCHANGED <<got, served>>
             /\ \A h \in Gen : loop'[h] = "dial" => loop[h] = "dial" /\ cur'[h] = cur[h]
  <2>1. UNCHANGED <<cur, got, served>>
    BY <1>6 DEF AcceptBi, HostForwardEnds
  <2>2. loop' = [loop EXCEPT ![g] = "receive"] \/ loop' = [loop EXCEPT ![g] = "accept_bi"]
    BY <1>6 DEF AcceptBi, HostForwardEnds
  <2> QED
    BY <2>1, <2>2 DEF TypeOK
<1>7. CASE ClientNext \/ Environment \/ UNCHANGED vars
  BY <1>7, ClientFrame DEF hostVars, handled
<1> QED
  BY <1>1, <1>2, <1>3, <1>4, <1>5, <1>6, <1>7 DEF Next, HostNext, AcceptLoop

\* The ConnReq the service is dialled for, and what DialService does with it.
LEMMA Dials ==
  ASSUME IInv, NEW g \in Gen, loop[g] = "dial"
  PROVE  /\ cur[g] \in Conn /\ got[cur[g]] \in 1..Len(reqs[cur[g]])
         /\ taken[cur[g]] = got[cur[g]]
         /\ got[cur[g]] \in 1..Len(streams[cur[g]])
         /\ reqs[cur[g]][got[cur[g]]] = streams[cur[g]][got[cur[g]]]
         /\ reqs[cur[g]][got[cur[g]]] \in App
         /\ \A h \in Gen : h # g /\ loop[h] = "dial" => cur[h] # cur[g]
<1>1. cur[g] \in Conn /\ \A h \in Gen : h # g /\ loop[h] = "dial" => cur[h] # cur[g]
  BY DEF IInv, HasConn, Busy, Serving
<1>2. taken[cur[g]] > 0 /\ taken[cur[g]] = got[cur[g]] /\ got[cur[g]] <= Len(reqs[cur[g]])
  BY <1>1 DEF IInv, Answers, OneByOne, Behind, Busy, Serving
<1>3. /\ reqs[cur[g]] \in Seq(App) /\ got[cur[g]] \in Nat
      /\ Len(reqs[cur[g]]) <= Len(streams[cur[g]]) /\ streams[cur[g]] \in Seq(App)
  BY <1>1 DEF IInv, TypeOK, SentInOrder
<1>4. got[cur[g]] \in 1..Len(reqs[cur[g]])
  BY <1>2, <1>3
<1>5. got[cur[g]] \in 1..Len(streams[cur[g]]) /\ reqs[cur[g]][got[cur[g]]] \in App
  BY <1>3, <1>4
<1>6. reqs[cur[g]][got[cur[g]]] = streams[cur[g]][got[cur[g]]]
  BY <1>1, <1>4 DEF IInv, SentInOrder
<1> QED
  BY <1>1, <1>2, <1>4, <1>5, <1>6

\* The service is connected to for ConnReqs that were received, and for the
\* one in hand not yet.
LEMMA ServedStep ==
  ASSUME IInv, ServedAsked, Next \/ UNCHANGED vars
  PROVE  ServedAsked'
<1> SUFFICES ASSUME NEW k \in Conn, NEW i \in 1..Len(served'[k])
             PROVE  \E n \in 1..got'[k] :
                      /\ served'[k][i] = reqs'[k][n]
                      /\ \A g \in Gen : loop'[g] = "dial" /\ cur'[g] = k => n # got'[k]
  BY DEF ServedAsked
<1>0. TypeOK /\ HasConn /\ got \in [Conn -> Nat] /\ got[k] \in Nat /\ Len(reqs[k]) \in Nat
      /\ got[k] <= Len(reqs[k])
  <2>1. TypeOK /\ HasConn /\ Behind
    BY DEF IInv
  <2>2. got \in [Conn -> Nat] /\ reqs[k] \in Seq(App)
    BY <2>1 DEF TypeOK
  <2> QED
    BY <2>1, <2>2 DEF Behind
<1>1. ASSUME NEW n \in 1..got[k]
      PROVE  reqs'[k][n] = reqs[k][n]
  <2>1. reqs[k] \in Seq(App) /\ n \in 1..Len(reqs[k])
    BY <1>0 DEF TypeOK
  <2>2. reqs'[k] = reqs[k] \/ \E a \in App : reqs'[k] = Append(reqs[k], a)
    BY Grows DEF IInv
  <2> QED
    BY <2>1, <2>2
<1>2. CASE ~ \E g \in Gen : ReceiveReq(g) \/ DialService(g)
  <2>1. /\ UNCHANGED <<got, served>>
        /\ \A h \in Gen : loop'[h] = "dial" => loop[h] = "dial" /\ cur'[h] = cur[h]
    BY <1>0, <1>2, ServedBy
  <2>2. PICK n \in 1..got[k] : /\ served[k][i] = reqs[k][n]
                               /\ \A h \in Gen : loop[h] = "dial" /\ cur[h] = k => n # got[k]
    BY <2>1 DEF ServedAsked
  <2> QED
    BY <1>1, <2>1, <2>2
<1>3. ASSUME NEW g \in Gen, ReceiveReq(g)
      PROVE  \E n \in 1..got'[k] :
               /\ served'[k][i] = reqs'[k][n]
               /\ \A h \in Gen : loop'[h] = "dial" /\ cur'[h] = k => n # got'[k]
  <2>1. cur[g] \in Conn
    BY <1>0, <1>3 DEF ReceiveReq, HasConn, Busy, Serving
  <2>2. /\ loop' = [loop EXCEPT ![g] = "dial"] /\ UNCHANGED <<cur, served, reqs>>
        /\ got' = [got EXCEPT ![cur[g]] = got[cur[g]] + 1]
    BY <1>0, <1>3, <2>1 DEF ReceiveReq, wire
  <2>3. PICK n \in 1..got[k] : /\ served[k][i] = reqs[k][n]
                               /\ \A h \in Gen : loop[h] = "dial" /\ cur[h] = k => n # got[k]
    BY <2>2 DEF ServedAsked
  <2>4. CASE cur[g] = k
    BY <1>0, <2>2, <2>3, <2>4
  <2>5. CASE cur[g] # k
    BY <1>0, <2>2, <2>3, <2>5 DEF TypeOK
  <2> QED
    BY <2>4, <2>5
<1>4. ASSUME NEW g \in Gen, DialService(g)
      PROVE  \E n \in 1..got'[k] :
               /\ served'[k][i] = reqs'[k][n]
               /\ \A h \in Gen : loop'[h] = "dial" /\ cur'[h] = k => n # got'[k]
  <2> DEFINE j == cur[g]
             a == reqs[j][got[j]]
  <2>1. /\ loop[g] = "dial" /\ loop' = [loop EXCEPT ![g] = "forward"]
        /\ UNCHANGED <<cur, got, reqs>>
    BY <1>4 DEF DialService, wire
  <2>2. /\ j \in Conn /\ got[j] \in 1..Len(reqs[j]) /\ a \in App
        /\ \A h \in Gen : h # g /\ loop[h] = "dial" => cur[h] # j
    BY <2>1, Dials
  <2>3. served' = [served EXCEPT ![j] = Append(served[j], a)]
    BY <1>0, <1>4, <2>2 DEF DialService, TypeOK
  <2>4. \A h \in Gen : loop'[h] = "dial" => h # g /\ loop[h] = "dial" /\ cur[h] # j
    BY <1>0, <2>1, <2>2 DEF TypeOK
  <2>5. served \in [Conn -> Seq(App)] /\ served[k] \in Seq(App)
    BY <1>0 DEF TypeOK
  <2> HIDE DEF j
  <2>6. CASE i \in 1..Len(served[k])
    <3>1. served'[k][i] = served[k][i]
      BY <2>2, <2>3, <2>5, <2>6
    <3>2. PICK n \in 1..got[k] :
             /\ served[k][i] = reqs[k][n]
             /\ \A h \in Gen : loop[h] = "dial" /\ cur[h] = k => n # got[k]
      BY <2>6 DEF ServedAsked
    <3> QED
      BY <2>1, <2>4, <3>1, <3>2
  <2>7. CASE i \notin 1..Len(served[k])
    <3>1. k = j /\ served'[k][i] = a
      BY <2>2, <2>3, <2>5, <2>7
    <3>2. got[k] \in 1..got[k]
      BY <2>2, <3>1, <1>0
    <3> QED
      BY <2>1, <2>4, <3>1, <3>2
  <2> QED
    BY <2>6, <2>7
<1> QED
  BY <1>2, <1>3, <1>4

-----------------------------------------------------------------------------
(* The refinement.                                                         *)

\* A step of Tunnel leaves what was opened and served, gives the first of a
\* backlog a stream, or connects to the service.
LEMMA SessionKinds ==
  ASSUME TypeOK, Next \/ UNCHANGED vars
  PROVE  \/ UNCHANGED <<streams, served>>
         \/ \E k \in Conn : IsGiven(k) /\ UNCHANGED served
         \/ \E g \in Gen : DialService(g)
<1>1. CASE \E g \in Gen : ReceiveReq(g)
  BY <1>1 DEF ReceiveReq, wire
<1>2. CASE ~ \E g \in Gen : ReceiveReq(g) \/ DialService(g)
  <2>1. UNCHANGED served
    BY <1>2, ServedBy
  <2>2. ASSUME NEW k \in Conn, NEW a \in App, Joins(a, k)
        PROVE  UNCHANGED streams
    BY <2>2 DEF Joins
  <2> QED
    BY <2>1, <2>2, BacklogKinds DEF Drops
<1> QED
  BY <1>1, <1>2

\* A stream is opened for an application that had none: Sessions' Open.
LEMMA OpenImplements ==
  ASSUME TypeOK, Order, NEW k \in Conn, IsGiven(k), UNCHANGED served
  PROVE  \E a \in App : S!Open(k, a)
<1> DEFINE a == Head(queue[k])
<1>1. queue[k] \in Seq(App) /\ queue[k] # <<>>
  BY DEF IsGiven, TypeOK
<1>2. a = queue[k][1] /\ 1 \in 1..Len(queue[k]) /\ a \in App
  BY <1>1
<1>3. streams' = [streams EXCEPT ![k] = Append(streams[k], a)]
  BY DEF IsGiven
<1> HIDE DEF a
<1>4. \A j \in Conn : ~Contains(streams[j], a)
  BY <1>2 DEF Contains, Order, WaitsOrOpened
<1>5. S!Open(k, a)
  BY <1>3, <1>4 DEF S!Open, S!Contains, Contains
<1> QED
  BY <1>2, <1>5

\* The service is connected to for a stream, after those before it and once:
\* Sessions' Serve.
LEMMA ServeImplements ==
  ASSUME SInv, NEW g \in Gen, DialService(g)
  PROVE  \E k \in Conn : S!Serve(k)
<1> DEFINE k == cur[g]
           n == got[k]
<1>1. loop[g] = "dial" /\ UNCHANGED streams
  BY DEF DialService, wire
<1>2. /\ k \in Conn /\ n \in 1..Len(reqs[k]) /\ n \in 1..Len(streams[k])
      /\ reqs[k][n] = streams[k][n]
  BY <1>1, Dials DEF SInv
<1>3. served' = [served EXCEPT ![k] = Append(served[k], streams[k][n])]
  BY <1>2 DEF DialService, SInv, IInv, TypeOK
<1>4. TypeOK /\ Order /\ SentInOrder /\ cur[g] = k /\ got[k] = n
  BY DEF SInv, IInv, Order
<1>5. /\ streams[k] \in Seq(App) /\ reqs[k] \in Seq(App) /\ served[k] \in Seq(App)
      /\ n \in Nat
  BY <1>2, <1>4 DEF TypeOK
<1>6. \A i \in 1..Len(served[k]) :
        \E m \in 1..n : served[k][i] = reqs[k][m] /\ m # n
  BY <1>1, <1>2 DEF SInv, ServedAsked
<1> HIDE DEF k, n
<1>7. ASSUME NEW m \in n..Len(streams[k])
      PROVE  ~Contains(served[k], streams[k][m])
  <2>1. SUFFICES ASSUME NEW i \in 1..Len(served[k]), served[k][i] = streams[k][m]
                 PROVE  FALSE
    BY DEF Contains
  <2>2. PICK l \in 1..n : served[k][i] = reqs[k][l] /\ l # n
    BY <1>6
  <2>3. l \in 1..Len(reqs[k]) /\ l \in 1..Len(streams[k]) /\ m \in 1..Len(streams[k]) /\ l # m
    BY <1>2, <1>5, <2>2
  <2>4. streams[k][l] = streams[k][m]
    BY <1>2, <1>4, <2>1, <2>2, <2>3 DEF SentInOrder
  <2> QED
    BY <1>2, <1>4, <2>3, <2>4 DEF Order, OpenedOnce
<1>8. n \in DOMAIN streams[k]
  BY <1>2, <1>5
<1>9. S!Serve(k)
  BY <1>1, <1>3, <1>7, <1>8 DEF S!Serve, S!Contains, Contains
<1> QED
  BY <1>2, <1>9

\* The strengthened invariant is inductive too.
LEMMA SInductive == Spec => []SInv
<1>1. Init => SInv
  <2> SUFFICES ASSUME Init
               PROVE  SInv
    OBVIOUS
  <2>1. IInv
    BY InitImplies
  <2> QED
    BY <2>1 DEF SInv, Init, Come, WaitsOnce, OpenedOnce, WaitsOrOpened, ServedAsked
<1>2. SInv /\ [Next]_vars => SInv'
  <2> SUFFICES ASSUME SInv, Next \/ UNCHANGED vars
               PROVE  SInv'
    OBVIOUS
  <2>1. IInv'
    BY NextPreserves DEF SInv
  <2>2. TypeOK /\ Order
    BY DEF SInv, IInv, Order
  <2>3. Order' /\ ServedAsked'
    BY <2>2, OrderStep, ServedStep DEF SInv
  <2> QED
    BY <2>1, <2>3 DEF SInv, Order
<1> QED
  BY <1>1, <1>2, PTL DEF Spec

\* Tunnel implements Sessions: over all starts, connects, losses and crashes
\* the service is connected to once at most for each application, in the order
\* of the streams and under its address (handle_connection).
THEOREM Implements == Spec => ServesInOrder
<1>1. Init => S!Init
  BY DEF Init, S!Init
<1>2. SInv /\ [Next]_vars => [S!Next]_<<streams, served>>
  <2> SUFFICES ASSUME SInv, Next \/ UNCHANGED vars
               PROVE  S!Next \/ UNCHANGED <<streams, served>>
    OBVIOUS
  <2>1. TypeOK /\ Order
    BY DEF SInv, IInv, Order
  <2>2. ASSUME NEW k \in Conn, IsGiven(k), UNCHANGED served
        PROVE  S!Next
    BY <2>1, <2>2, OpenImplements DEF S!Next
  <2>3. ASSUME NEW g \in Gen, DialService(g)
        PROVE  S!Next
    BY <2>3, ServeImplements DEF S!Next
  <2> QED
    BY <2>1, <2>2, <2>3, SessionKinds
<1> QED
  BY <1>1, <1>2, SInductive, PTL DEF Spec, ServesInOrder, S!Spec, S!vars
=============================================================================
