---------------------------- MODULE TunnelProofs ----------------------------
(***************************************************************************)
(* Proofs that the safety properties of Tunnel hold of every instance: any *)
(* number of clients, applications, starts and connects, and any set of    *)
(* hazards.                                                                *)
(***************************************************************************)
EXTENDS TunnelInv, TLAPS

-----------------------------------------------------------------------------
(* What the steps leave alone.                                             *)

\* What it is for one side to close connections (Closes).
LEMMA ClosesShrinks ==
  ASSUME NEW s, NEW K, Closes(s, K)
  PROVE  \A k \in Conn : net'[k] = (IF k \in K THEN net[k] \ {s} ELSE net[k])
BY DEF Closes

\* Steps of the host tunnel do not touch the clients or what they sent, and
\* give connections up at most.
LEMMA HostFrame ==
  ASSUME HostNext
  PROVE  /\ UNCHANGED <<clientVars, wire>>
         /\ \A k \in Conn : net'[k] \subseteq net[k]
<1>1. CASE Start \/ StopSends
  BY <1>1 DEF Start, StopSends
<1>2. CASE StopCloses \/ HostCrash
  <2>1. UNCHANGED <<clientVars, wire>>
    BY <1>2 DEF StopCloses, HostCrash
  <2>2. PICK K : Closes("host", K)
    BY <1>2, Zenon DEF StopCloses, HostCrash
  <2> QED
    BY <2>1, <2>2, ClosesShrinks
<1>3. ASSUME NEW g \in Gen, AcceptLoop(g) \/ DialRefused(g) \/ HostForwardEnds(g)
      PROVE  UNCHANGED <<clientVars, wire, net>>
  BY <1>3 DEF AcceptLoop, AcceptConn, AcceptNone, Continue, HandshakeFails, Register,
     AcceptBi, ReceiveReq, HandlerFails, DialService, DialRefused, HostForwardEnds
<1> QED
  BY <1>1, <1>2, <1>3 DEF HostNext

\* All other steps leave the host tunnel and its handlers alone.
LEMMA ClientFrame ==
  ASSUME ClientNext \/ Environment \/ UNCHANGED vars
  PROVE  UNCHANGED <<hostVars, by, handled>>
<1>1. ASSUME NEW c \in Client,
             \/ Dial(c) \/ Connected(c) \/ DialFails(c)
             \/ Disconnect(c) \/ DisconnectReturns(c) \/ DisconnectPanics(c)
             \/ ClientCrash(c)
      PROVE  UNCHANGED <<hostVars, by, handled>>
  BY <1>1 DEF Dial, Connected, DialFails, Disconnect, DisconnectReturns,
     DisconnectPanics, ClientCrash, ClientDies
<1>2. ASSUME NEW k \in Conn,
             \/ Listener(k) \/ AcceptErrs(k) \/ Speak(k) \/ ClientForwardEnds(k)
             \/ Lose(k) \/ Notices(k) \/ \E a \in App : AppConnects(a, k)
      PROVE  UNCHANGED <<hostVars, by, handled>>
  BY <1>2 DEF Listener, Bind, ListenerStops, AcceptApp, SendReq, AcceptErrs, Speak,
     ClientForwardEnds, Lose, Notices, AppConnects
<1> QED
  BY <1>1, <1>2 DEF ClientNext, Environment, vars

\* The clients' steps and the network close no connection up to the host but
\* that of connect(), whose handshake the host awaits.
LEMMA ClientHears ==
  ASSUME TypeOK, ClientNext \/ Environment \/ UNCHANGED vars, NEW k \in Conn, Hears(k)'
  PROVE  Hears(k) \/ Shaking(k)
<1>1. ASSUME NEW c \in Client, Connected(c)
      PROVE  Hears(k) \/ Shaking(k)
  BY <1>1 DEF Connected, Hears, TypeOK
<1>2. ASSUME NEW c \in Client,
             Disconnect(c) \/ DisconnectPanics(c) \/ ClientCrash(c)
      PROVE  Hears(k)
  BY <1>2 DEF Disconnect, DisconnectPanics, ClientCrash, ClientDies, Closes, Hears
<1>3. ASSUME NEW c \in Client, Dial(c) \/ DialFails(c) \/ DisconnectReturns(c)
      PROVE  Hears(k)
  BY <1>3 DEF Dial, DialFails, DisconnectReturns, Hears
<1>4. ASSUME NEW j \in Conn, Lose(j) \/ Notices(j)
      PROVE  Hears(k)
  BY <1>4 DEF Lose, Notices, Closes, Hears, TypeOK
<1>5. ASSUME NEW j \in Conn,
             \/ Listener(j) \/ AcceptErrs(j) \/ Speak(j) \/ ClientForwardEnds(j)
             \/ \E a \in App : AppConnects(a, j)
      PROVE  Hears(k)
  BY <1>5 DEF Listener, Bind, ListenerStops, AcceptApp, SendReq, AcceptErrs, Speak,
     ClientForwardEnds, AppConnects, Hears
<1> QED
  BY <1>1, <1>2, <1>3, <1>4, <1>5 DEF ClientNext, Environment, vars, Hears

-----------------------------------------------------------------------------
(* The host tunnel: its endpoint, its loops and its maps.                  *)

\* The part of the host's steps that is about one loop.
LoopStep(g) == AcceptLoop(g) \/ DialRefused(g) \/ HostForwardEnds(g)

\* A loop's step leaves the tunnel it belongs to as it is.
LEMMA LoopFrame ==
  ASSUME NEW g \in Gen, LoopStep(g)
  PROVE  UNCHANGED <<host, gen, open, stopped>>
BY DEF LoopStep, AcceptLoop, AcceptConn, AcceptNone, Continue, NextConn, HandshakeFails,
   Register, AcceptBi, ReceiveReq, HandlerFails, DialService, DialRefused,
   HostForwardEnds

\* Only the last generation has an open endpoint (start, stop).
LEMMA OpenStep ==
  ASSUME TypeOK, OpenIsCurrent, Next \/ UNCHANGED vars
  PROVE  OpenIsCurrent'
<1> USE TunnelAssumption DEF Gen
<1>1. CASE Start
  BY <1>1 DEF Start, OpenIsCurrent, TypeOK
<1>2. CASE StopSends
  BY <1>2 DEF StopSends, OpenIsCurrent, TypeOK
<1>3. CASE StopCloses
  BY <1>3 DEF StopCloses, OpenIsCurrent, TypeOK
<1>4. CASE HostCrash
  BY <1>4 DEF HostCrash, OpenIsCurrent, TypeOK
<1>5. ASSUME NEW g \in Gen, LoopStep(g)
      PROVE  OpenIsCurrent'
  BY <1>5, LoopFrame DEF OpenIsCurrent
<1>6. CASE ClientNext \/ Environment \/ UNCHANGED vars
  BY <1>6, ClientFrame DEF OpenIsCurrent, hostVars
<1> QED
  BY <1>1, <1>2, <1>3, <1>4, <1>5, <1>6 DEF Next, HostNext, LoopStep

\* What a loop does to itself: it takes a connection that no loop took, goes
\* on with the one it has, registers it, or is done with it.
Takes(g, k) ==
  /\ loop[g] = "accept" /\ open[g] /\ Dialing(k) /\ by[k] = 0
  /\ loop' = [loop EXCEPT ![g] = "handshake"]
  /\ cur' = [cur EXCEPT ![g] = k]
  /\ by' = [by EXCEPT ![k] = g]
  /\ UNCHANGED clients
GoesOn(g) ==
  /\ UNCHANGED <<cur, by, clients>>
  /\ \/ loop[g] \in Serving /\ \E l \in Serving : loop' = [loop EXCEPT ![g] = l]
     \/ loop[g] \in {"accept", "none"}
        /\ \E l \in {"accept", "none"} : loop' = [loop EXCEPT ![g] = l]
Registers(g) ==
  /\ loop[g] = "handshake"
  /\ loop' = [loop EXCEPT ![g] = "accept_bi"]
  /\ clients' = [clients EXCEPT ![g] = @ \cup {cur[g]}]
  /\ UNCHANGED <<cur, by>>
IsDone(g) ==
  /\ loop[g] \in Busy
  /\ loop' = [loop EXCEPT ![g] = "accept"]
  /\ cur' = [cur EXCEPT ![g] = NoConn]
  /\ UNCHANGED <<by, clients>>

\* The nine steps of a loop are of these four kinds.
LEMMA LoopKinds ==
  ASSUME NEW g \in Gen, LoopStep(g)
  PROVE  (\E k \in Conn : Takes(g, k)) \/ GoesOn(g) \/ Registers(g) \/ IsDone(g)
<1> USE DEF Serving, Busy
<1>1. ASSUME NEW k \in Conn, AcceptConn(g, k)
      PROVE  Takes(g, k)
  BY <1>1 DEF AcceptConn, Takes
<1>2. CASE AcceptNone(g) \/ Continue(g)
  BY <1>2 DEF AcceptNone, Continue, GoesOn
<1>3. CASE AcceptBi(g)
  BY <1>3 DEF AcceptBi, GoesOn
<1>4. CASE ReceiveReq(g)
  BY <1>4 DEF ReceiveReq, GoesOn
<1>5. CASE DialService(g) \/ HostForwardEnds(g)
  BY <1>5 DEF DialService, HostForwardEnds, GoesOn
<1>6. CASE Register(g)
  BY <1>6 DEF Register, Registers
<1>7. CASE HandshakeFails(g) \/ HandlerFails(g) \/ DialRefused(g)
  BY <1>7 DEF HandshakeFails, HandlerFails, DialRefused, NextConn, IsDone
<1> QED
  BY <1>1, <1>2, <1>3, <1>4, <1>5, <1>6, <1>7 DEF LoopStep, AcceptLoop

\* A busy loop has a connection of its own.
LEMMA ConnStep ==
  ASSUME TypeOK, HasConn, Next \/ UNCHANGED vars
  PROVE  HasConn'
<1> USE TunnelAssumption DEF Gen, Busy, Serving
<1>1. CASE Start
  BY <1>1 DEF Start, HasConn, TypeOK
<1>2. CASE StopSends \/ StopCloses
  BY <1>2 DEF StopSends, StopCloses, HasConn
<1>3. CASE HostCrash
  BY <1>3 DEF HostCrash, HasConn, TypeOK
<1>4. ASSUME NEW g \in Gen, NEW k \in Conn, Takes(g, k), UNCHANGED gen
      PROVE  HasConn'
  <2>1. g <= gen
    BY <1>4 DEF Takes, HasConn, TypeOK
  <2>2. loop'[g] = "handshake" /\ cur'[g] = k /\ by'[k] = g
    BY <1>4 DEF Takes, TypeOK
  <2>3. ASSUME NEW h \in Gen, h # g
        PROVE  /\ loop'[h] = loop[h] /\ cur'[h] = cur[h]
               /\ cur[h] \in Conn /\ by[cur[h]] = h => by'[cur[h]] = h
    BY <1>4, <2>3 DEF Takes, TypeOK
  <2>4. ASSUME NEW h \in Gen
        PROVE  /\ h > gen' => loop'[h] = "unborn"
               /\ loop'[h] \in Busy => cur'[h] \in Conn /\ by'[cur'[h]] = h
               /\ loop'[h] \notin Busy => cur'[h] = NoConn
    <3>1. CASE h = g
      BY <3>1, <1>4, <2>1, <2>2 DEF HasConn, TypeOK
    <3>2. CASE h # g
      BY <3>2, <1>4, <2>1, <2>3 DEF HasConn, TypeOK
    <3> QED
      BY <3>1, <3>2
  <2> QED
    BY <2>4 DEF HasConn
<1>5. ASSUME NEW g \in Gen, GoesOn(g) \/ Registers(g) \/ IsDone(g), UNCHANGED gen
      PROVE  HasConn'
  <2>1. UNCHANGED by /\ g <= gen
    BY <1>5 DEF GoesOn, Registers, IsDone, HasConn, TypeOK
  <2>2. ASSUME NEW h \in Gen, h # g
        PROVE  loop'[h] = loop[h] /\ cur'[h] = cur[h]
    BY <1>5, <2>2 DEF GoesOn, Registers, IsDone, TypeOK
  <2>3. \/ loop[g] \in Busy /\ loop'[g] \in Busy /\ cur'[g] = cur[g]
        \/ loop[g] \notin Busy /\ loop'[g] \notin Busy /\ cur'[g] = cur[g]
        \/ loop'[g] = "accept" /\ cur'[g] = NoConn
    BY <1>5 DEF GoesOn, Registers, IsDone, TypeOK
  <2>4. ASSUME NEW h \in Gen
        PROVE  /\ h > gen' => loop'[h] = "unborn"
               /\ loop'[h] \in Busy => cur'[h] \in Conn /\ by'[cur'[h]] = h
               /\ loop'[h] \notin Busy => cur'[h] = NoConn
    <3>1. CASE h = g
      BY <3>1, <1>5, <2>1, <2>3 DEF HasConn, TypeOK
    <3>2. CASE h # g
      BY <3>2, <1>5, <2>1, <2>2 DEF HasConn, TypeOK
    <3> QED
      BY <3>1, <3>2
  <2> QED
    BY <2>4 DEF HasConn
<1>6. CASE ClientNext \/ Environment \/ UNCHANGED vars
  BY <1>6, ClientFrame DEF HasConn, hostVars
<1> QED
  BY <1>1, <1>2, <1>3, <1>4, <1>5, <1>6, LoopKinds, LoopFrame DEF Next, HostNext, LoopStep

\* The map of a generation and the keys in it (insert in the accept loop).
LEMMA MapStep ==
  ASSUME TypeOK, HasConn, Registered, Next \/ UNCHANGED vars
  PROVE  Registered'
<1> USE TunnelAssumption DEF Gen, Busy, Serving
<1>1. CASE Start
  BY <1>1 DEF Start, Registered, TypeOK
<1>2. CASE StopSends \/ StopCloses
  BY <1>2 DEF StopSends, StopCloses, Registered
<1>3. CASE HostCrash
  BY <1>3 DEF HostCrash, Registered
<1>4. ASSUME NEW g \in Gen, NEW k \in Conn, Takes(g, k)
      PROVE  Registered'
  <2>1. \A h \in Gen : k \notin clients[h]
    BY <1>4 DEF Takes, Registered
  <2>2. loop'[g] = "handshake" /\ cur'[g] = k /\ UNCHANGED clients
    BY <1>4 DEF Takes, TypeOK
  <2>3. ASSUME NEW h \in Gen, h # g
        PROVE  loop'[h] = loop[h] /\ cur'[h] = cur[h]
    BY <1>4, <2>3 DEF Takes, TypeOK
  <2>4. \A j \in Conn : j # k => by'[j] = by[j]
    BY <1>4 DEF Takes, TypeOK
  <2> QED
    BY <2>1, <2>2, <2>3, <2>4 DEF Registered, TypeOK
<1>5. ASSUME NEW g \in Gen, GoesOn(g) \/ IsDone(g)
      PROVE  Registered'
  <2>1. UNCHANGED <<by, clients>>
    BY <1>5 DEF GoesOn, IsDone
  <2>2. loop'[g] # "handshake"
    BY <1>5 DEF GoesOn, IsDone, TypeOK
  <2>3. loop'[g] \in Serving => loop[g] \in Serving /\ cur'[g] = cur[g]
    BY <1>5 DEF GoesOn, IsDone, TypeOK
  <2>4. ASSUME NEW h \in Gen, h # g
        PROVE  loop'[h] = loop[h] /\ cur'[h] = cur[h]
    BY <1>5, <2>4 DEF GoesOn, IsDone, TypeOK
  <2> QED
    BY <2>1, <2>2, <2>3, <2>4 DEF Registered
<1>6. ASSUME NEW g \in Gen, Registers(g)
      PROVE  Registered'
  <2>1. cur[g] \in Conn /\ by[cur[g]] = g
    BY <1>6 DEF Registers, HasConn
  <2>2. loop'[g] = "accept_bi" /\ clients'[g] = clients[g] \cup {cur[g]}
    BY <1>6 DEF Registers, TypeOK
  <2>3. ASSUME NEW h \in Gen, h # g
        PROVE  loop'[h] = loop[h] /\ clients'[h] = clients[h]
    BY <1>6, <2>3 DEF Registers, TypeOK
  <2>4. UNCHANGED <<cur, by>>
    BY <1>6 DEF Registers
  <2> QED
    BY <2>1, <2>2, <2>3, <2>4 DEF Registered
<1>7. CASE ClientNext \/ Environment \/ UNCHANGED vars
  BY <1>7, ClientFrame DEF Registered, hostVars
<1> QED
  BY <1>1, <1>2, <1>3, <1>4, <1>5, <1>6, <1>7, LoopKinds DEF Next, HostNext, LoopStep

\* The host holds up connections of the open generation only, also when a
\* stop falls into a handshake.
LEMMA HeardStep ==
  ASSUME TypeOK, OpenIsCurrent, HasConn, HeardByCurrent, Next \/ UNCHANGED vars
  PROVE  HeardByCurrent'
<1> USE TunnelAssumption DEF Gen, Busy, Serving
<1>1. CASE Start
  BY <1>1 DEF Start, OpenIsCurrent, HeardByCurrent, Hears, TypeOK
<1>2. CASE StopSends
  BY <1>2 DEF StopSends, HeardByCurrent, Hears
<1>3. CASE StopCloses
  BY <1>3 DEF StopCloses, Closes, OpenIsCurrent, HeardByCurrent, Hears, TypeOK
<1>4. CASE HostCrash
  BY <1>4 DEF HostCrash, Closes, HeardByCurrent, Hears
<1>5. ASSUME NEW g \in Gen, LoopStep(g)
      PROVE  HeardByCurrent'
  <2>1. UNCHANGED <<host, gen, open>> /\ \A k \in Conn : net'[k] \subseteq net[k]
    BY <1>5, LoopFrame, HostFrame DEF HostNext, LoopStep
  <2>2. \A k \in Conn : by[k] = 0 \/ by'[k] = by[k]
    <3>1. UNCHANGED by \/ \E j \in Conn : by[j] = 0 /\ by' = [by EXCEPT ![j] = g]
      BY <1>5, LoopKinds DEF Takes, GoesOn, Registers, IsDone
    <3>2. by \in [Conn -> 0..MaxStarts]
      BY DEF TypeOK
    <3> QED
      BY <3>1, <3>2
  <2> QED
    BY <2>1, <2>2 DEF HeardByCurrent, Hears, TypeOK
<1>6. CASE ClientNext \/ Environment \/ UNCHANGED vars
  <2>1. UNCHANGED <<gen, by, open>>
    BY <1>6, ClientFrame DEF hostVars
  <2>2. ASSUME NEW k \in Conn, Shaking(k)
        PROVE  gen > 0 /\ by[k] = gen /\ open[gen]
    BY <2>2 DEF Shaking, OpenIsCurrent, HasConn, TypeOK
  <2> QED
    BY <1>6, <2>1, <2>2, ClientHears DEF HeardByCurrent
<1> QED
  BY <1>1, <1>2, <1>3, <1>4, <1>5, <1>6 DEF Next, HostNext, LoopStep

-----------------------------------------------------------------------------
(* The clients: their connections, and what they sent on them.             *)

\* A listener opens a stream and a request follows it: what AcceptApp and
\* SendReq add to a connection (open_bi and send_packet in connect).
LEMMA Opens ==
  ASSUME TypeOK, NEW k \in Conn, AcceptApp(k), NEW j \in Conn
  PROVE  /\ UNCHANGED <<reqs, net>> /\ lis[k] = "accept"
         /\ j # k => lis'[j] = lis[j] /\ streams'[j] = streams[j]
         /\ \/ lis'[k] = "failed" /\ streams'[k] = streams[k]
            \/ /\ lis'[k] = "request"
               /\ \E a \in App : streams'[k] = Append(streams[k], a)
<1>1. queue[k] \in Seq(App) /\ streams[k] \in Seq(App)
  BY DEF TypeOK
<1>2. Head(queue[k]) \in App
  BY <1>1 DEF AcceptApp
<1> QED
  BY <1>1, <1>2 DEF AcceptApp, ListenerEnds, TypeOK

\* And the request: lost if the host gave the connection up.
LEMMA Requests ==
  ASSUME TypeOK, NEW k \in Conn, SendReq(k), NEW j \in Conn
  PROVE  /\ UNCHANGED <<streams, net>> /\ lis[k] = "request"
         /\ j # k => lis'[j] = lis[j] /\ reqs'[j] = reqs[j]
         /\ \/ lis'[k] = "failed" /\ reqs'[k] = reqs[k]
            \/ lis'[k] = "forward" /\ ~Hears(k) /\ reqs'[k] = reqs[k]
            \/ /\ lis'[k] = "forward" /\ Hears(k)
               /\ reqs'[k] = Append(reqs[k], Last(streams[k]))
BY DEF SendReq, ListenerEnds, TypeOK

\* What every step but those of connect() does to connections that are not
\* there, and to calls of connect().
Unborn(k) ==
  /\ lis[k] = "unborn" => lis'[k] = "unborn"
  /\ lis'[k] = "unborn" =>
       /\ lis[k] = "unborn"
       /\ net[k] = {} => net'[k] = {}
       /\ streams'[k] = streams[k] /\ reqs'[k] = reqs[k]
NoDial ==
  /\ UNCHANGED dials
  /\ \A c \in Client : tun'[c] = "dialing" => tun[c] = "dialing"

\* No step but connect() makes a connection (Dial, Connected).
LEMMA UnbornStays ==
  ASSUME TypeOK, Next \/ UNCHANGED vars,
         ~ \E c \in Client : Dial(c) \/ Connected(c)
  PROVE  NoDial /\ \A k \in Conn : Unborn(k)
<1> USE DEF Alive, Bound, Unborn, NoDial
<1>1. CASE HostNext \/ UNCHANGED vars
  BY <1>1, HostFrame DEF clientVars, wire, vars
<1>2. ASSUME NEW c \in Client, DialFails(c) \/ DisconnectReturns(c)
      PROVE  NoDial /\ \A k \in Conn : Unborn(k)
  BY <1>2 DEF DialFails, DisconnectReturns, TypeOK, wire
<1>3. ASSUME NEW c \in Client, Disconnect(c)
      PROVE  NoDial /\ \A k \in Conn : Unborn(k)
  <2>1. UNCHANGED <<dials, lis, wire>> /\ tun' = [tun EXCEPT ![c] = "closing"]
    BY <1>3 DEF Disconnect
  <2>2. \A k \in Conn : net[k] = {} => net'[k] = {}
    BY <1>3 DEF Disconnect, Closes
  <2> QED
    BY <2>1, <2>2 DEF TypeOK, wire
<1>4. ASSUME NEW c \in Client, DisconnectPanics(c) \/ ClientCrash(c)
      PROVE  NoDial /\ \A k \in Conn : Unborn(k)
  <2>1. UNCHANGED <<dials, wire>>
    BY <1>4 DEF DisconnectPanics, ClientCrash, ClientDies
  <2>2. \A d \in Client : tun'[d] = "dialing" => tun[d] = "dialing"
    BY <1>4 DEF DisconnectPanics, ClientCrash, ClientDies, TypeOK
  <2>3. \A k \in Conn : net[k] = {} => net'[k] = {}
    BY <1>4 DEF DisconnectPanics, ClientCrash, ClientDies, Closes
  <2>4. \A k \in Conn : lis[k] = "unborn" <=> lis'[k] = "unborn"
    BY <1>4 DEF DisconnectPanics, ClientCrash, ClientDies
  <2> QED
    BY <2>1, <2>2, <2>3, <2>4 DEF wire
<1>5. ASSUME NEW j \in Conn, Bind(j) \/ ListenerStops(j) \/ AcceptErrs(j) \/ Speak(j)
      PROVE  NoDial /\ \A k \in Conn : Unborn(k)
  BY <1>5 DEF Bind, ListenerStops, ListenerEnds, AcceptErrs, Speak, TypeOK, wire, clientVars
<1>6. ASSUME NEW j \in Conn, AcceptApp(j) \/ SendReq(j) \/ ClientForwardEnds(j)
      PROVE  NoDial /\ \A k \in Conn : Unborn(k)
  <2>1. UNCHANGED <<dials, tun, net>>
    BY <1>6 DEF AcceptApp, SendReq, ClientForwardEnds
  <2>2. /\ lis[j] # "unborn"
        /\ \E l \in {"request", "forward", "accept", "failed"} : lis' = [lis EXCEPT ![j] = l]
    BY <1>6 DEF AcceptApp, ListenerEnds, SendReq, ClientForwardEnds
  <2>3. \A k \in Conn : lis[k] = "unborn" <=> lis'[k] = "unborn"
    BY <2>2 DEF TypeOK
  <2>4. ASSUME NEW k \in Conn, k # j
        PROVE  streams'[k] = streams[k] /\ reqs'[k] = reqs[k]
    <3>1. CASE AcceptApp(j)
      BY <2>4, <3>1, Opens
    <3>2. CASE SendReq(j)
      BY <2>4, <3>2, Requests
    <3>3. CASE ClientForwardEnds(j)
      BY <3>3 DEF ClientForwardEnds
    <3> QED
      BY <1>6, <3>1, <3>2, <3>3
  <2> QED
    BY <2>1, <2>2, <2>3, <2>4
<1>7. ASSUME NEW j \in Conn, Lose(j) \/ Notices(j)
      PROVE  NoDial /\ \A k \in Conn : Unborn(k)
  <2>1. UNCHANGED <<clientVars, wire>>
    BY <1>7 DEF Lose, Notices
  <2>2. \A k \in Conn : net[k] = {} => net'[k] = {}
    BY <1>7 DEF Lose, Notices, Closes, TypeOK
  <2> QED
    BY <2>1, <2>2 DEF clientVars, wire
<1>8. ASSUME NEW j \in Conn, NEW a \in App, AppConnects(a, j)
      PROVE  NoDial /\ \A k \in Conn : Unborn(k)
  BY <1>8 DEF AppConnects, TypeOK, wire
<1> QED
  BY <1>1, <1>2, <1>3, <1>4, <1>5, <1>6, <1>7, <1>8
     DEF Next, ClientNext, Environment, Listener

\* Where there was no connection, nothing was sent (connect and the listener).
LEMMA NotYetStep ==
  ASSUME TypeOK, NotYet, Next \/ UNCHANGED vars
  PROVE  NotYet'
<1>1. CASE ~ \E c \in Client : Dial(c) \/ Connected(c)
  BY <1>1, UnbornStays DEF NotYet, ConnOf, NoDial, Unborn
<1>2. ASSUME NEW c \in Client, Dial(c)
      PROVE  NotYet'
  <2>1. UNCHANGED <<lis, net, streams, reqs>>
    BY <1>2 DEF Dial, wire
  <2>2. dials[c] < MaxDials /\ dials'[c] = dials[c] + 1 /\ dials'[c] \in 1..MaxDials
    BY <1>2, TunnelAssumption DEF Dial, TypeOK
  <2>3. ASSUME NEW d \in Client, d # c
        PROVE  tun'[d] = tun[d] /\ dials'[d] = dials[d]
    BY <1>2, <2>3 DEF Dial, TypeOK
  <2>4. ConnOf(c)' \in Conn /\ lis[ConnOf(c)'] = "unborn"
    BY <2>2, TunnelAssumption DEF ConnOf, Conn, NotYet, TypeOK
  <2>5. \A d \in Client : tun'[d] = "dialing" =>
          ConnOf(d)' \in Conn /\ lis[ConnOf(d)'] = "unborn"
    BY <2>3, <2>4 DEF ConnOf, NotYet
  <2>6. \A d \in Client, n \in Nat : n > dials'[d] => n > dials[d]
    <3>1. ASSUME NEW n \in Nat, n > dials'[c]
          PROVE  n > dials[c]
      BY <3>1, <2>2 DEF TypeOK
    <3> QED
      BY <3>1, <2>3
  <2>7. \A k \in Conn : k[2] > dials'[k[1]] => k[2] > dials[k[1]]
    <3>1. ASSUME NEW k \in Conn
          PROVE  k[1] \in Client /\ k[2] \in Nat
      BY <3>1, TunnelAssumption DEF Conn
    <3> QED
      BY <3>1, <2>6
  <2> QED
    BY <2>1, <2>5, <2>7 DEF NotYet
<1>3. ASSUME NEW c \in Client, Connected(c)
      PROVE  NotYet'
  <2> DEFINE k == ConnOf(c)
  <2>1. k \in Conn /\ lis[k] = "unborn"
    BY <1>3 DEF Connected, NotYet
  <2>2. lis'[k] = "bind" /\ \A j \in Conn : j # k => lis'[j] = lis[j] /\ net'[j] = net[j]
    BY <1>3, <2>1 DEF Connected, TypeOK
  <2>3. UNCHANGED <<dials, streams, reqs>>
    BY <1>3 DEF Connected, wire
  <2>4. \A d \in Client : tun'[d] = "dialing" => d # c /\ tun[d] = "dialing"
    BY <1>3 DEF Connected, TypeOK
  <2>5. \A d \in Client : d # c => ConnOf(d) # k /\ ConnOf(d)' = ConnOf(d)
    BY <2>3 DEF ConnOf
  <2>6. k[1] = c /\ k[2] = dials[c] /\ dials[c] \in Nat
    BY DEF ConnOf, TypeOK
  <2>7. \A j \in Conn : j[2] > dials[j[1]] => j # k
    BY <2>6
  <2> HIDE DEF k
  <2> QED
    BY <2>1, <2>2, <2>3, <2>4, <2>5, <2>7 DEF NotYet
<1> QED
  BY <1>1, <1>2, <1>3

\* Streams and ConnReqs are sent by the listener alone.
LEMMA SentBy ==
  ASSUME Next \/ UNCHANGED vars
  PROVE  \/ UNCHANGED <<streams, reqs>>
         \/ \E k \in Conn : AcceptApp(k) \/ SendReq(k)
<1>1. CASE HostNext
  BY <1>1, HostFrame DEF wire
<1>2. ASSUME NEW c \in Client,
             \/ Dial(c) \/ Connected(c) \/ DialFails(c)
             \/ Disconnect(c) \/ DisconnectReturns(c) \/ DisconnectPanics(c)
             \/ ClientCrash(c)
      PROVE  UNCHANGED <<streams, reqs>>
  BY <1>2 DEF Dial, Connected, DialFails, Disconnect, DisconnectReturns,
     DisconnectPanics, ClientCrash, ClientDies, wire
<1>3. ASSUME NEW k \in Conn,
             \/ Bind(k) \/ ListenerStops(k) \/ AcceptErrs(k) \/ Speak(k)
             \/ ClientForwardEnds(k) \/ Lose(k) \/ Notices(k)
             \/ \E a \in App : AppConnects(a, k)
      PROVE  UNCHANGED <<streams, reqs>>
  BY <1>3 DEF Bind, ListenerStops, AcceptErrs, Speak, ClientForwardEnds, Lose, Notices,
     AppConnects, wire
<1>4. CASE UNCHANGED vars
  BY <1>4 DEF vars, wire
<1> QED
  BY <1>1, <1>2, <1>3, <1>4 DEF Next, ClientNext, Environment, Listener

\* The ConnReqs are those of the streams, in order, and in step with them
\* while the host hears.
LEMMA SentStep ==
  ASSUME TypeOK, SentInOrder, InStep, Next \/ UNCHANGED vars
  PROVE  SentInOrder'
<1> USE DEF Alive, Bound
<1>1. CASE UNCHANGED <<streams, reqs>>
  BY <1>1 DEF SentInOrder
<1>2. ASSUME NEW k \in Conn, AcceptApp(k)
      PROVE  SentInOrder'
  <2>1. ASSUME NEW j \in Conn
        PROVE  /\ Len(reqs'[j]) <= Len(streams'[j])
               /\ \A i \in 1..Len(reqs'[j]) : reqs'[j][i] = streams'[j][i]
    <3>1. streams[j] \in Seq(App) /\ reqs[j] \in Seq(App)
      BY DEF TypeOK
    <3>2. reqs'[j] = reqs[j]
      BY <1>2, Opens
    <3>3. streams'[j] = streams[j] \/ \E a \in App : streams'[j] = Append(streams[j], a)
      BY <1>2, Opens
    <3> QED
      BY <3>1, <3>2, <3>3 DEF SentInOrder
  <2> QED
    BY <2>1 DEF SentInOrder
<1>3. ASSUME NEW k \in Conn, SendReq(k)
      PROVE  SentInOrder'
  <2>1. ASSUME NEW j \in Conn
        PROVE  /\ Len(reqs'[j]) <= Len(streams'[j])
               /\ \A i \in 1..Len(reqs'[j]) : reqs'[j][i] = streams'[j][i]
    <3>1. streams[j] \in Seq(App) /\ reqs[j] \in Seq(App)
      BY DEF TypeOK
    <3>2. streams'[j] = streams[j]
      BY <1>3, Requests
    <3>3. CASE reqs'[j] = reqs[j]
      BY <3>1, <3>2, <3>3 DEF SentInOrder
    <3>4. CASE reqs'[j] # reqs[j]
      <4>1. /\ j = k /\ Hears(k) /\ lis[k] = "request"
            /\ reqs'[k] = Append(reqs[k], Last(streams[k]))
        BY <1>3, <3>4, Requests
      <4>2. Len(reqs[k]) + 1 = Len(streams[k])
        BY <4>1 DEF InStep
      <4>3. Last(streams[k]) = streams[k][Len(reqs[k]) + 1] /\ Last(streams[k]) \in App
        BY <3>1, <4>1, <4>2 DEF Last
      <4> QED
        BY <3>1, <3>2, <4>1, <4>2, <4>3 DEF SentInOrder
    <3> QED
      BY <3>3, <3>4
  <2> QED
    BY <2>1 DEF SentInOrder
<1> QED
  BY <1>1, <1>2, <1>3, SentBy

\* Where the listener is, seen from the connection.
Talks(k) ==
  \/ lis'[k] = lis[k]
  \/ lis[k] \in Alive \ {"request"} /\ lis'[k] \in Alive \ {"request"}
  \/ lis'[k] \notin Alive

\* Every step but connect()'s and the listener's two keeps the listener
\* talking, or ends it.
LEMMA TalksOn ==
  ASSUME TypeOK, Next \/ UNCHANGED vars, NEW k \in Conn,
         ~ \E c \in Client : Connected(c),
         ~ \E j \in Conn : AcceptApp(j) \/ SendReq(j)
  PROVE  Talks(k) /\ (Hears(k)' => Hears(k)) /\ UNCHANGED <<streams, reqs>>
<1> USE DEF Alive, Bound, Talks
<1>1. UNCHANGED <<streams, reqs>>
  BY SentBy
<1>2. CASE HostNext \/ UNCHANGED vars
  BY <1>1, <1>2, HostFrame DEF clientVars, vars, Hears
<1>3. ASSUME NEW c \in Client, Dial(c) \/ DialFails(c) \/ DisconnectReturns(c)
      PROVE  UNCHANGED <<lis, net>>
  BY <1>3 DEF Dial, DialFails, DisconnectReturns
<1>4. ASSUME NEW c \in Client, Disconnect(c)
      PROVE  UNCHANGED lis /\ (Hears(k)' => Hears(k))
  BY <1>4 DEF Disconnect, Closes, Hears
<1>5. ASSUME NEW c \in Client, DisconnectPanics(c) \/ ClientCrash(c)
      PROVE  Talks(k) /\ (Hears(k)' => Hears(k))
  BY <1>5 DEF DisconnectPanics, ClientCrash, ClientDies, Closes, Hears
<1>6. ASSUME NEW j \in Conn,
             \/ Bind(j) \/ ListenerStops(j) \/ AcceptErrs(j) \/ Speak(j)
             \/ ClientForwardEnds(j) \/ \E a \in App : AppConnects(a, j)
      PROVE  Talks(k) /\ UNCHANGED net
  BY <1>6 DEF Bind, ListenerStops, ListenerEnds, AcceptErrs, Speak, ClientForwardEnds,
     AppConnects, clientVars, TypeOK
<1>7. ASSUME NEW j \in Conn, Lose(j) \/ Notices(j)
      PROVE  UNCHANGED lis /\ (Hears(k)' => Hears(k))
  BY <1>7 DEF Lose, Notices, Closes, Hears, clientVars, TypeOK
<1> QED
  BY <1>1, <1>2, <1>3, <1>4, <1>5, <1>6, <1>7
     DEF Next, ClientNext, Environment, Listener, Hears, Talks

\* While the host hears, only a stream whose ConnReq is being sent is ahead.
LEMMA InStepStep ==
  ASSUME TypeOK, NotYet, InStep, Next \/ UNCHANGED vars
  PROVE  InStep'
<1> USE DEF Alive, Bound
<1>1. CASE ~ (\E c \in Client : Connected(c)) /\ ~ \E j \in Conn : AcceptApp(j) \/ SendReq(j)
  BY <1>1, TalksOn DEF InStep, Talks
<1>2. ASSUME NEW c \in Client, Connected(c)
      PROVE  InStep'
  <2> DEFINE k == ConnOf(c)
  <2>1. k \in Conn /\ lis[k] = "unborn"
    BY <1>2 DEF Connected, NotYet
  <2>2. lis'[k] = "bind" /\ \A j \in Conn : j # k => lis'[j] = lis[j] /\ net'[j] = net[j]
    BY <1>2, <2>1 DEF Connected, TypeOK
  <2>3. UNCHANGED <<streams, reqs>> /\ streams[k] = <<>> /\ reqs[k] = <<>>
    BY <1>2, <2>1 DEF Connected, NotYet, wire
  <2> HIDE DEF k
  <2> QED
    BY <2>1, <2>2, <2>3 DEF InStep, Hears
<1>3. ASSUME NEW k \in Conn, AcceptApp(k)
      PROVE  InStep'
  <2>1. ASSUME NEW j \in Conn, Hears(j)'
        PROVE  /\ lis'[j] \in Alive \ {"request"} => Len(reqs'[j]) = Len(streams'[j])
               /\ lis'[j] = "request" => Len(reqs'[j]) + 1 = Len(streams'[j])
    <3>1. Hears(j) /\ reqs'[j] = reqs[j] /\ streams[j] \in Seq(App)
      BY <1>3, <2>1, Opens DEF Hears, TypeOK
    <3>2. CASE j # k
      BY <1>3, <3>1, <3>2, Opens DEF InStep
    <3>3. CASE j = k
      BY <1>3, <3>1, <3>3, Opens DEF InStep
    <3> QED
      BY <3>2, <3>3
  <2> QED
    BY <2>1 DEF InStep
<1>4. ASSUME NEW k \in Conn, SendReq(k)
      PROVE  InStep'
  <2>1. ASSUME NEW j \in Conn, Hears(j)'
        PROVE  /\ lis'[j] \in Alive \ {"request"} => Len(reqs'[j]) = Len(streams'[j])
               /\ lis'[j] = "request" => Len(reqs'[j]) + 1 = Len(streams'[j])
    <3>1. Hears(j) /\ streams'[j] = streams[j] /\ reqs[j] \in Seq(App)
      BY <1>4, <2>1, Requests DEF Hears, TypeOK
    <3>2. CASE j # k
      BY <1>4, <3>1, <3>2, Requests DEF InStep
    <3>3. CASE j = k
      BY <1>4, <3>1, <3>3, Requests DEF InStep
    <3> QED
      BY <3>2, <3>3
  <2> QED
    BY <2>1 DEF InStep
<1> QED
  BY <1>1, <1>2, <1>3, <1>4

-----------------------------------------------------------------------------
(* The handlers: what a loop took of what was sent.                        *)

\* Nobody but a loop that accepts a stream or receives a ConnReq counts.
LEMMA CountedBy ==
  ASSUME Next \/ UNCHANGED vars
  PROVE  UNCHANGED <<taken, got>> \/ \E g \in Gen : AcceptBi(g) \/ ReceiveReq(g)
<1>1. CASE Start \/ StopSends \/ StopCloses \/ HostCrash
  BY <1>1 DEF Start, StopSends, StopCloses, HostCrash, handled
<1>2. ASSUME NEW g \in Gen,
             \/ \E k \in Conn : AcceptConn(g, k)
             \/ AcceptNone(g) \/ Continue(g) \/ HandshakeFails(g) \/ Register(g)
             \/ HandlerFails(g) \/ DialService(g) \/ DialRefused(g)
             \/ HostForwardEnds(g)
      PROVE  UNCHANGED <<taken, got>>
  BY <1>2 DEF AcceptConn, AcceptNone, Continue, HandshakeFails, Register, HandlerFails,
     DialService, DialRefused, HostForwardEnds, handled
<1>3. CASE ClientNext \/ Environment \/ UNCHANGED vars
  BY <1>3, ClientFrame DEF handled
<1> QED
  BY <1>1, <1>2, <1>3 DEF Next, HostNext, AcceptLoop

\* What is sent on a connection is only added to.
LEMMA Grows ==
  ASSUME TypeOK, InStep, Next \/ UNCHANGED vars, NEW k \in Conn
  PROVE  /\ \/ streams'[k] = streams[k]
            \/ \E a \in App : streams'[k] = Append(streams[k], a)
         /\ \/ reqs'[k] = reqs[k]
            \/ \E a \in App : reqs'[k] = Append(reqs[k], a)
<1>1. CASE UNCHANGED <<streams, reqs>>
  BY <1>1
<1>2. ASSUME NEW j \in Conn, AcceptApp(j)
      PROVE  /\ reqs'[k] = reqs[k]
             /\ \/ streams'[k] = streams[k]
                \/ \E a \in App : streams'[k] = Append(streams[k], a)
  BY <1>2, Opens
<1>3. ASSUME NEW j \in Conn, SendReq(j)
      PROVE  /\ streams'[k] = streams[k]
             /\ \/ reqs'[k] = reqs[k]
                \/ \E a \in App : reqs'[k] = Append(reqs[k], a)
  <2>1. CASE reqs'[k] = reqs[k]
    BY <1>3, <2>1, Requests
  <2>2. CASE reqs'[k] # reqs[k]
    <3>1. /\ j = k /\ Hears(k) /\ lis[k] = "request" /\ streams'[k] = streams[k]
          /\ reqs'[k] = Append(reqs[k], Last(streams[k]))
      BY <1>3, <2>2, Requests
    <3>2. streams[k] \in Seq(App) /\ Len(streams[k]) > 0
      BY <3>1 DEF InStep, TypeOK
    <3> QED
      BY <3>1, <3>2 DEF Last
  <2> QED
    BY <2>1, <2>2
<1> QED
  BY <1>1, <1>2, <1>3, SentBy

\* The host can know of a stream only once it was opened.
LEMMA ShownStep ==
  ASSUME TypeOK, Next \/ UNCHANGED vars, NEW k \in Conn
  PROVE  shown'[k] = shown[k] \/ (shown'[k] = Len(streams[k]) /\ UNCHANGED streams)
<1>1. CASE HostNext \/ UNCHANGED vars
  BY <1>1, HostFrame DEF wire, vars
<1>2. ASSUME NEW c \in Client,
             \/ Dial(c) \/ Connected(c) \/ DialFails(c)
             \/ Disconnect(c) \/ DisconnectReturns(c) \/ DisconnectPanics(c)
             \/ ClientCrash(c)
      PROVE  UNCHANGED shown
  BY <1>2 DEF Dial, Connected, DialFails, Disconnect, DisconnectReturns,
     DisconnectPanics, ClientCrash, ClientDies, wire
<1>3. ASSUME NEW j \in Conn,
             \/ Bind(j) \/ ListenerStops(j) \/ AcceptErrs(j) \/ AcceptApp(j) \/ SendReq(j)
             \/ Lose(j) \/ Notices(j) \/ \E a \in App : AppConnects(a, j)
      PROVE  UNCHANGED shown
  BY <1>3 DEF Bind, ListenerStops, AcceptErrs, AcceptApp, SendReq, Lose, Notices,
     AppConnects, wire
<1>4. ASSUME NEW j \in Conn, Speak(j) \/ ClientForwardEnds(j)
      PROVE  shown'[k] = shown[k] \/ (shown'[k] = Len(streams[k]) /\ UNCHANGED streams)
  <2>1. /\ shown' = [shown EXCEPT ![j] = IF Hears(j) THEN Len(streams[j]) ELSE shown[j]]
        /\ UNCHANGED streams
    BY <1>4 DEF Speak, ClientForwardEnds, Show
  <2>2. shown \in [Conn -> Nat]
    BY DEF TypeOK
  <2> QED
    BY <2>1, <2>2
<1> QED
  BY <1>1, <1>2, <1>3, <1>4 DEF Next, ClientNext, Environment, Listener

\* What a loop counts when it takes a stream, and a ConnReq.
LEMMA Takings ==
  ASSUME TypeOK, NEW g \in Gen, cur[g] \in Conn
  PROVE  /\ AcceptBi(g) =>
              /\ taken' = [taken EXCEPT ![cur[g]] = @ + 1]
              /\ taken[cur[g]] < shown[cur[g]] /\ UNCHANGED <<got, wire, by, cur, entry>>
              /\ loop[g] = "accept_bi" /\ loop' = [loop EXCEPT ![g] = "receive"]
         /\ ReceiveReq(g) =>
              /\ got' = [got EXCEPT ![cur[g]] = @ + 1]
              /\ got[cur[g]] < Len(reqs[cur[g]]) /\ UNCHANGED <<taken, wire, by, cur>>
              /\ loop[g] = "receive" /\ loop' = [loop EXCEPT ![g] = "dial"]
              /\ entry' = [entry EXCEPT ![cur[g]] = {reqs[cur[g]][got[cur[g]] + 1]}]
BY DEF AcceptBi, ReceiveReq

\* The host takes no more than was sent (accept_bi and receive_packet).
LEMMA BehindStep ==
  ASSUME TypeOK, HasConn, InStep, Behind, Next \/ UNCHANGED vars
  PROVE  Behind'
<1> SUFFICES ASSUME NEW k \in Conn
             PROVE  /\ got'[k] <= Len(reqs'[k])
                    /\ taken'[k] <= shown'[k] /\ shown'[k] <= Len(streams'[k])
  BY DEF Behind
<1>1. /\ streams[k] \in Seq(App) /\ reqs[k] \in Seq(App)
      /\ shown[k] \in Nat /\ taken[k] \in Nat /\ got[k] \in Nat
  BY DEF TypeOK
<1>2. /\ Len(streams[k]) \in Nat /\ Len(reqs[k]) \in Nat
      /\ got[k] <= Len(reqs[k]) /\ taken[k] <= shown[k] /\ shown[k] <= Len(streams[k])
  BY <1>1 DEF Behind
<1>3. /\ \E d \in {0, 1} : Len(streams'[k]) = Len(streams[k]) + d
      /\ \E d \in {0, 1} : Len(reqs'[k]) = Len(reqs[k]) + d
  <2>2. ASSUME NEW q \in Seq(App), NEW a \in App
        PROVE  Len(Append(q, a)) = Len(q) + 1
    OBVIOUS
  <2>3. \/ streams'[k] = streams[k]
        \/ \E a \in App : streams'[k] = Append(streams[k], a)
    BY Grows
  <2>4. \/ reqs'[k] = reqs[k]
        \/ \E a \in App : reqs'[k] = Append(reqs[k], a)
    BY Grows
  <2>5. \E d \in {0, 1} : Len(streams'[k]) = Len(streams[k]) + d
    BY <1>1, <1>2, <2>2, <2>3
  <2>6. \E d \in {0, 1} : Len(reqs'[k]) = Len(reqs[k]) + d
    BY <1>1, <1>2, <2>2, <2>4
  <2> QED
    BY <2>5, <2>6
<1>4. shown'[k] = shown[k] \/ (shown'[k] = Len(streams[k]) /\ UNCHANGED streams)
  BY ShownStep
<1>5. CASE UNCHANGED <<taken, got>>
  BY <1>1, <1>2, <1>3, <1>4, <1>5
<1>6. ASSUME NEW g \in Gen, AcceptBi(g)
      PROVE  /\ got'[k] <= Len(reqs'[k])
             /\ taken'[k] <= shown'[k] /\ shown'[k] <= Len(streams'[k])
  <2>1. cur[g] \in Conn
    BY <1>6 DEF AcceptBi, HasConn, Busy, Serving
  <2>2. UNCHANGED <<got, reqs, shown, streams>>
    BY <1>6, <2>1, Takings DEF wire
  <2>3. taken'[k] = taken[k] \/ (taken'[k] = taken[k] + 1 /\ taken[k] < shown[k])
    <3>1. taken' = [taken EXCEPT ![cur[g]] = @ + 1] /\ taken[cur[g]] < shown[cur[g]]
      BY <1>6, <2>1, Takings
    <3>2. taken \in [Conn -> Nat]
      BY DEF TypeOK
    <3> QED
      BY <2>1, <3>1, <3>2
  <2> QED
    BY <1>1, <1>2, <2>2, <2>3
<1>7. ASSUME NEW g \in Gen, ReceiveReq(g)
      PROVE  /\ got'[k] <= Len(reqs'[k])
             /\ taken'[k] <= shown'[k] /\ shown'[k] <= Len(streams'[k])
  <2>1. cur[g] \in Conn
    BY <1>7 DEF ReceiveReq, HasConn, Busy, Serving
  <2>2. UNCHANGED <<taken, reqs, shown, streams>>
    BY <1>7, <2>1, Takings DEF wire
  <2>3. got'[k] = got[k] \/ (got'[k] = got[k] + 1 /\ got[k] < Len(reqs[k]))
    <3>1. got' = [got EXCEPT ![cur[g]] = @ + 1] /\ got[cur[g]] < Len(reqs[cur[g]])
      BY <1>7, <2>1, Takings
    <3>2. got \in [Conn -> Nat]
      BY DEF TypeOK
    <3> QED
      BY <2>1, <3>1, <3>2
  <2> QED
    BY <1>1, <1>2, <2>2, <2>3
<1> QED
  BY <1>5, <1>6, <1>7, CountedBy

\* A loop that takes no stream and no ConnReq: it takes a new connection, goes
\* on where it was, or gets away from where a ConnReq is due.
LEMMA Uncounted ==
  ASSUME TypeOK, HasConn, OneByOne, NEW g \in Gen, LoopStep(g), UNCHANGED <<taken, got>>,
         NEW h \in Gen
  PROVE  /\ by[cur'[h]] = 0 \/ cur'[h] = cur[h] \/ loop'[h] \notin Busy
         /\ loop'[h] = "receive" => loop[h] = "receive" /\ cur'[h] = cur[h]
         /\ loop'[h] \in Busy \ {"receive"} =>
              \/ by[cur'[h]] = 0 /\ cur'[h] \in Conn
              \/ loop[h] \in Busy \ {"receive"} /\ cur'[h] = cur[h]
<1> USE DEF Busy, Serving
<1>1. ASSUME NEW k \in Conn, AcceptConn(g, k)
      PROVE  /\ loop' = [loop EXCEPT ![g] = "handshake"]
             /\ cur' = [cur EXCEPT ![g] = k] /\ by[k] = 0
  BY <1>1 DEF AcceptConn
<1>2. CASE AcceptNone(g) \/ Continue(g)
  BY <1>2 DEF AcceptNone, Continue, TypeOK
<1>3. CASE Register(g) \/ DialService(g) \/ HostForwardEnds(g)
  BY <1>3 DEF Register, DialService, HostForwardEnds, TypeOK
<1>4. CASE HandshakeFails(g) \/ HandlerFails(g) \/ DialRefused(g)
  BY <1>4 DEF HandshakeFails, HandlerFails, DialRefused, NextConn, TypeOK
<1>5. ~AcceptBi(g) /\ ~ReceiveReq(g)
  <2>1. cur[g] \in Conn \/ loop[g] \notin Busy
    BY DEF HasConn
  <2>2. CASE AcceptBi(g)
    BY <2>1, <2>2, Takings DEF AcceptBi, TypeOK
  <2>3. CASE ReceiveReq(g)
    BY <2>1, <2>3, Takings DEF ReceiveReq, TypeOK
  <2> QED
    BY <2>2, <2>3
<1>6. ASSUME NEW k \in Conn, AcceptConn(g, k)
      PROVE  /\ h = g => cur'[h] = k /\ loop'[h] = "handshake" /\ by[k] = 0
             /\ h # g => cur'[h] = cur[h] /\ loop'[h] = loop[h]
  BY <1>1, <1>6 DEF TypeOK
<1> QED
  BY <1>2, <1>3, <1>4, <1>5, <1>6 DEF LoopStep, AcceptLoop

\* A loop takes one ConnReq for each stream, and no other loop does so for its
\* connection (handle_connection, awaited by the accept loop).
LEMMA OneByOneStep ==
  ASSUME TypeOK, HasConn, OneByOne, Next \/ UNCHANGED vars
  PROVE  OneByOne'
<1> USE DEF Busy, Serving
<1>1. CASE Start \/ StopSends \/ StopCloses \/ HostCrash
  <2>1. UNCHANGED <<by, taken, got>>
    BY <1>1 DEF Start, StopSends, StopCloses, HostCrash, handled
  <2>2. \A g \in Gen : loop'[g] \in Busy => loop'[g] = loop[g] /\ cur'[g] = cur[g]
    BY <1>1 DEF Start, StopSends, StopCloses, HostCrash, TypeOK, Gen
  <2> QED
    BY <2>1, <2>2 DEF OneByOne
<1>2. CASE ClientNext \/ Environment \/ UNCHANGED vars
  BY <1>2, ClientFrame DEF OneByOne, hostVars, handled
<1>3. ASSUME NEW g \in Gen, LoopStep(g), UNCHANGED <<taken, got>>
      PROVE  OneByOne'
  <2>1. \A k \in Conn : by'[k] = 0 => by[k] = 0
    <3>1. UNCHANGED by \/ \E k \in Conn : by' = [by EXCEPT ![k] = g]
      BY <1>3, LoopKinds DEF Takes, GoesOn, Registers, IsDone
    <3>2. by \in [Conn -> 0..MaxStarts] /\ g # 0
      BY DEF TypeOK, Gen
    <3> QED
      BY <3>1, <3>2
  <2>2. \A h \in Gen : loop'[h] \in Busy \ {"receive"} => taken[cur'[h]] = got[cur'[h]]
    BY <1>3, Uncounted DEF OneByOne
  <2>3. \A h \in Gen : loop'[h] = "receive" => taken[cur'[h]] = got[cur'[h]] + 1
    BY <1>3, Uncounted DEF OneByOne
  <2> QED
    BY <1>3, <2>1, <2>2, <2>3 DEF OneByOne
<1>4. ASSUME NEW g \in Gen, AcceptBi(g) \/ ReceiveReq(g)
      PROVE  OneByOne'
  <2> DEFINE k == cur[g]
  <2>1. k \in Conn /\ by[k] = g /\ g # 0
    BY <1>4 DEF AcceptBi, ReceiveReq, HasConn, Gen
  <2>2. \A h \in Gen : h # g /\ loop[h] \in Busy => cur[h] # k /\ cur[h] \in Conn
    BY <2>1 DEF HasConn
  <2>3. UNCHANGED <<by, cur>>
    BY <1>4, <2>1, Takings
  <2>4. \A j \in Conn : j # k => taken'[j] = taken[j] /\ got'[j] = got[j]
    <3>1. /\ UNCHANGED taken \/ taken' = [taken EXCEPT ![k] = @ + 1]
          /\ UNCHANGED got \/ got' = [got EXCEPT ![k] = @ + 1]
      BY <1>4, <2>1, Takings
    <3>2. taken \in [Conn -> Nat] /\ got \in [Conn -> Nat]
      BY DEF TypeOK
    <3> HIDE DEF k
    <3> QED
      BY <3>1, <3>2
  <2>5. \A h \in Gen : h # g => loop'[h] = loop[h]
    <3>1. loop' = [loop EXCEPT ![g] = "receive"] \/ loop' = [loop EXCEPT ![g] = "dial"]
      BY <1>4, <2>1, Takings
    <3> QED
      BY <3>1 DEF TypeOK
  <2>6. /\ AcceptBi(g) => loop[g] = "accept_bi" /\ loop'[g] = "receive"
                          /\ taken'[k] = taken[k] + 1 /\ got'[k] = got[k]
        /\ ReceiveReq(g) => loop[g] = "receive" /\ loop'[g] = "dial"
                            /\ got'[k] = got[k] + 1 /\ taken'[k] = taken[k]
    <3>1. taken \in [Conn -> Nat] /\ got \in [Conn -> Nat]
      BY DEF TypeOK
    <3>2. ASSUME AcceptBi(g)
          PROVE  /\ loop[g] = "accept_bi" /\ loop'[g] = "receive"
                 /\ taken'[k] = taken[k] + 1 /\ got'[k] = got[k]
      <4>1. /\ taken' = [taken EXCEPT ![k] = taken[k] + 1] /\ UNCHANGED got
            /\ loop[g] = "accept_bi" /\ loop' = [loop EXCEPT ![g] = "receive"]
        BY <2>1, <3>2, Takings
      <4> HIDE DEF k
      <4> QED
        BY <2>1, <3>1, <4>1 DEF TypeOK
    <3>3. ASSUME ReceiveReq(g)
          PROVE  /\ loop[g] = "receive" /\ loop'[g] = "dial"
                 /\ got'[k] = got[k] + 1 /\ taken'[k] = taken[k]
      <4>1. /\ got' = [got EXCEPT ![k] = got[k] + 1] /\ UNCHANGED taken
            /\ loop[g] = "receive" /\ loop' = [loop EXCEPT ![g] = "dial"]
        BY <2>1, <3>3, Takings
      <4> HIDE DEF k
      <4> QED
        BY <2>1, <3>1, <4>1 DEF TypeOK
    <3> QED
      BY <3>2, <3>3
  <2>7. taken[k] \in Nat /\ got[k] \in Nat
    BY <2>1 DEF TypeOK
  <2> HIDE DEF k
  <2>8. /\ loop'[g] \in Busy \ {"receive"} => taken'[k] = got'[k]
        /\ loop'[g] = "receive" => taken'[k] = got'[k] + 1
    BY <1>4, <2>6, <2>7 DEF OneByOne, k
  <2>9. \A j \in Conn : by[j] = 0 => taken'[j] = 0 /\ got'[j] = 0
    BY <2>1, <2>4 DEF OneByOne
  <2>10. cur[g] = k
    BY DEF k
  <2> QED
    BY <2>2, <2>3, <2>4, <2>5, <2>8, <2>9, <2>10 DEF OneByOne
<1>5. ASSUME NEW g \in Gen, LoopStep(g)
      PROVE  UNCHANGED <<taken, got>> \/ AcceptBi(g) \/ ReceiveReq(g)
  BY <1>5 DEF LoopStep, AcceptLoop, AcceptConn, AcceptNone, Continue, HandshakeFails,
     Register, HandlerFails, DialService, DialRefused, HostForwardEnds, handled
<1> QED
  BY <1>1, <1>2, <1>3, <1>4, <1>5 DEF Next, HostNext, LoopStep

\* What a loop that answers found where it is: it received the ConnReq just
\* now, or was answering before and its entry and its stream stayed.
LEMMA Answering ==
  ASSUME TypeOK, HasConn, NEW g \in Gen, LoopStep(g), NEW h \in Gen,
         loop'[h] \in {"dial", "forward"}, ~ReceiveReq(g)
  PROVE  /\ loop[h] \in {"dial", "forward"} /\ cur'[h] = cur[h]
         /\ entry'[cur[h]] = entry[cur[h]] /\ taken'[cur[h]] = taken[cur[h]]
<1> USE DEF Busy, Serving
<1>1. ASSUME NEW k \in Conn, AcceptConn(g, k)
      PROVE  h # g /\ loop'[h] = loop[h] /\ cur'[h] = cur[h] /\ UNCHANGED <<taken, entry>>
  BY <1>1 DEF AcceptConn, TypeOK, handled
<1>2. CASE AcceptNone(g) \/ Continue(g) \/ Register(g)
  BY <1>2 DEF AcceptNone, Continue, Register, TypeOK, handled
<1>3. CASE HandshakeFails(g) \/ HandlerFails(g) \/ DialRefused(g)
  BY <1>3 DEF HandshakeFails, HandlerFails, DialRefused, NextConn, TypeOK, handled
<1>4. CASE DialService(g)
  BY <1>4 DEF DialService, TypeOK
<1>5. ASSUME loop[g] \in Busy
      PROVE  cur[g] \in Conn /\ (h # g => (loop[h] \in {"dial", "forward"} => cur[h] # cur[g]))
  BY <1>5 DEF HasConn
<1>6. CASE AcceptBi(g)
  <2>1. /\ loop[g] = "accept_bi" /\ loop' = [loop EXCEPT ![g] = "receive"]
        /\ taken' = [taken EXCEPT ![cur[g]] = @ + 1] /\ UNCHANGED <<cur, entry>>
    BY <1>6 DEF AcceptBi
  <2>2. h # g /\ loop'[h] = loop[h] /\ cur[h] \in Conn
    BY <2>1 DEF TypeOK, HasConn
  <2>3. cur[h] # cur[g] /\ cur[g] \in Conn /\ taken \in [Conn -> Nat]
    BY <1>5, <2>1, <2>2 DEF TypeOK
  <2> QED
    BY <2>1, <2>2, <2>3
<1>7. CASE HostForwardEnds(g)
  <2>1. /\ loop[g] = "forward" /\ loop' = [loop EXCEPT ![g] = "accept_bi"]
        /\ entry' = [entry EXCEPT ![cur[g]] = {}] /\ UNCHANGED <<cur, taken>>
    BY <1>7 DEF HostForwardEnds
  <2>2. h # g /\ loop'[h] = loop[h] /\ cur[h] \in Conn
    BY <2>1 DEF TypeOK, HasConn
  <2>3. cur[h] # cur[g] /\ cur[g] \in Conn /\ entry \in [Conn -> SUBSET App]
    BY <1>5, <2>1, <2>2 DEF TypeOK
  <2> QED
    BY <2>1, <2>2, <2>3
<1> QED
  BY <1>1, <1>2, <1>3, <1>4, <1>6, <1>7 DEF LoopStep, AcceptLoop

\* The entry of a loop that answers is that of the stream it accepted, and of
\* no other (ReceiveReq).
LEMMA AnswersStep ==
  ASSUME TypeOK, HasConn, SentInOrder, InStep, Behind, OneByOne, Answers,
         Next \/ UNCHANGED vars
  PROVE  Answers'
<1> USE DEF Busy, Serving
<1>1. ASSUME NEW k \in Conn, taken[k] > 0
      PROVE  streams'[k][taken[k]] = streams[k][taken[k]]
  <2>1. streams[k] \in Seq(App) /\ taken[k] \in 1..Len(streams[k])
    BY <1>1 DEF Behind, TypeOK
  <2>2. streams'[k] = streams[k] \/ \E a \in App : streams'[k] = Append(streams[k], a)
    BY Grows
  <2> QED
    BY <2>1, <2>2
<1>2. ASSUME NEW h \in Gen, loop[h] \in {"dial", "forward"}, cur'[h] = cur[h],
             entry'[cur[h]] = entry[cur[h]], taken'[cur[h]] = taken[cur[h]]
      PROVE  taken'[cur'[h]] > 0 /\ entry'[cur'[h]] = {streams'[cur'[h]][taken'[cur'[h]]]}
  <2>1. cur[h] \in Conn /\ taken[cur[h]] > 0
    BY <1>2 DEF HasConn, Answers
  <2> QED
    BY <1>1, <1>2, <2>1 DEF Answers
<1>3. CASE HostCrash
  BY <1>3 DEF HostCrash, Answers, TypeOK, Gen
<1>4. CASE Start \/ StopSends \/ StopCloses
  <2>1. UNCHANGED <<cur, handled>>
    BY <1>4 DEF Start, StopSends, StopCloses
  <2>2. \A h \in Gen : loop'[h] \in {"dial", "forward"} => loop'[h] = loop[h]
    BY <1>4 DEF Start, StopSends, StopCloses, TypeOK, Gen
  <2> QED
    BY <1>2, <2>1, <2>2 DEF Answers, handled
<1>5. CASE ClientNext \/ Environment \/ UNCHANGED vars
  BY <1>2, <1>5, ClientFrame DEF Answers, hostVars, handled
<1>6. ASSUME NEW g \in Gen, LoopStep(g), ~ReceiveReq(g)
      PROVE  Answers'
  BY <1>2, <1>6, Answering DEF Answers
<1>7. ASSUME NEW g \in Gen, ReceiveReq(g)
      PROVE  Answers'
  <2> DEFINE k == cur[g]
  <2>1. k \in Conn /\ by[k] = g
    BY <1>7 DEF ReceiveReq, HasConn
  <2>2. /\ loop[g] = "receive" /\ loop' = [loop EXCEPT ![g] = "dial"]
        /\ entry' = [entry EXCEPT ![k] = {reqs[k][got[k] + 1]}]
        /\ got[k] < Len(reqs[k]) /\ UNCHANGED <<cur, taken, streams>>
    BY <1>7, <2>1, Takings DEF wire
  <2>3. /\ taken[k] = got[k] + 1 /\ got[k] \in Nat /\ Len(reqs[k]) \in Nat
    BY <2>1, <2>2 DEF OneByOne, TypeOK
  <2>4. taken[k] \in 1..Len(reqs[k])
    BY <2>2, <2>3
  <2>5. entry'[k] = {streams[k][taken[k]]}
    BY <2>1, <2>2, <2>3, <2>4 DEF SentInOrder, TypeOK
  <2>6. ASSUME NEW h \in Gen, h # g, loop'[h] \in {"dial", "forward"}
        PROVE  loop[h] = loop'[h] /\ cur[h] \in Conn /\ cur[h] # k
    BY <2>1, <2>2, <2>6 DEF HasConn, TypeOK
  <2>7. ASSUME NEW h \in Gen, h # g, loop'[h] \in {"dial", "forward"}
        PROVE  entry'[cur[h]] = entry[cur[h]]
    BY <2>2, <2>6, <2>7 DEF TypeOK
  <2>8. taken[k] > 0
    BY <2>3
  <2> QED
    BY <1>2, <2>2, <2>5, <2>6, <2>7, <2>8 DEF Answers
<1> QED
  BY <1>3, <1>4, <1>5, <1>6, <1>7 DEF Next, HostNext, LoopStep

\* Only the listener that opens a stream comes to be about to send a ConnReq.
LEMMA AskedStep ==
  ASSUME TypeOK, NotYet, Asked, Next \/ UNCHANGED vars
  PROVE  Asked'
<1> USE DEF Alive, Bound
<1>1. CASE ~ (\E c \in Client : Connected(c)) /\ ~ \E j \in Conn : AcceptApp(j) \/ SendReq(j)
  BY <1>1, TalksOn DEF Asked, Talks
<1>2. ASSUME NEW c \in Client, Connected(c)
      PROVE  Asked'
  <2>1. UNCHANGED streams /\ \A j \in Conn : lis'[j] = "request" => lis[j] = "request"
    BY <1>2 DEF Connected, TypeOK, wire
  <2> QED
    BY <2>1 DEF Asked
<1>3. ASSUME NEW k \in Conn, AcceptApp(k), NEW j \in Conn, lis'[j] = "request"
      PROVE  streams'[j] # <<>>
  <2>1. streams[j] \in Seq(App)
    BY DEF TypeOK
  <2>2. CASE j # k
    BY <1>3, <2>2, Opens DEF Asked
  <2>3. CASE j = k
    BY <1>3, <2>1, <2>3, Opens
  <2> QED
    BY <2>2, <2>3
<1>4. ASSUME NEW k \in Conn, SendReq(k), NEW j \in Conn, lis'[j] = "request"
      PROVE  streams'[j] # <<>>
  BY <1>4, Requests DEF Asked
<1> QED
  BY <1>1, <1>2, <1>3, <1>4 DEF Asked

-----------------------------------------------------------------------------
(* Types.                                                                  *)

\* The types of the host tunnel's state, and of what it knows of the clients.
HostTypes ==
  /\ host \in {"off", "on", "closing"}
  /\ gen \in 0..MaxStarts
  /\ open \in [Gen -> BOOLEAN]
  /\ stopped \in [Gen -> BOOLEAN]
  /\ loop \in [Gen -> Serving \cup {"unborn", "accept", "none", "handshake", "dead"}]
  /\ cur \in [Gen -> Conn \cup {NoConn}]
  /\ clients \in [Gen -> SUBSET Conn]
  /\ by \in [Conn -> 0..MaxStarts]
  /\ taken \in [Conn -> Nat]
  /\ got \in [Conn -> Nat]
  /\ entry \in [Conn -> SUBSET App]
  /\ served \in [Conn -> Seq(App)]

\* The types of the clients' state and of what they sent.
ClientTypes ==
  /\ tun \in [Client -> {"off", "dialing", "on", "closing", "panicked"}]
  /\ dials \in [Client -> 0..MaxDials]
  /\ lis \in [Conn -> Alive \cup {"unborn", "done", "failed", "dead"}]
  /\ halted \in [Conn -> BOOLEAN]
  /\ queue \in [Conn -> Seq(App)]
  /\ local \in [Conn -> SUBSET App]
  /\ came \subseteq App
  /\ streams \in [Conn -> Seq(App)]
  /\ reqs \in [Conn -> Seq(App)]
  /\ shown \in [Conn -> Nat]

\* Closing connections leaves a set of sides for each.
LEMMA ClosesTypes ==
  ASSUME NEW s, NEW K, Closes(s, K), net \in [Conn -> SUBSET Side]
  PROVE  net' \in [Conn -> SUBSET Side]
BY DEF Closes

\* A function changed at a point.
LEMMA Updated ==
  ASSUME NEW A, NEW T, NEW f \in [A -> T], NEW x \in A, NEW v \in T
  PROVE  [f EXCEPT ![x] = v] \in [A -> T]
OBVIOUS

\* The host's steps keep the host's types.
LEMMA HostTypeStep ==
  ASSUME TypeOK, HasConn, Behind, OneByOne, Answers, HostNext
  PROVE  HostTypes' /\ net' \in [Conn -> SUBSET Side]
<1> USE TunnelAssumption DEF Gen, HostTypes, Serving
<1>1. CASE Start
  BY <1>1 DEF Start, TypeOK, handled
<1>2. CASE StopSends
  BY <1>2 DEF StopSends, TypeOK, handled
<1>3. CASE StopCloses
  BY <1>3, ClosesTypes DEF StopCloses, TypeOK, handled
<1>4. CASE HostCrash
  BY <1>4, ClosesTypes DEF HostCrash, TypeOK, handled
<1>5. ASSUME NEW g \in Gen, NEW k \in Conn, AcceptConn(g, k)
      PROVE  HostTypes' /\ UNCHANGED net
  <2>1. /\ UNCHANGED <<host, gen, open, stopped, clients, net, handled>>
        /\ loop' = [loop EXCEPT ![g] = "handshake"]
        /\ cur' = [cur EXCEPT ![g] = k]
        /\ by' = [by EXCEPT ![k] = g]
    BY <1>5 DEF AcceptConn
  <2>2. by' \in [Conn -> 0..MaxStarts]
    BY <2>1 DEF TypeOK
  <2>3. cur' \in [Gen -> Conn \cup {NoConn}]
    BY <2>1 DEF TypeOK
  <2> QED
    BY <2>1, <2>2, <2>3 DEF TypeOK, handled
<1>6. ASSUME NEW g \in Gen, AcceptNone(g) \/ Continue(g)
      PROVE  HostTypes' /\ UNCHANGED net
  BY <1>6 DEF AcceptNone, Continue, TypeOK, handled
<1>7. ASSUME NEW g \in Gen, HandshakeFails(g) \/ HandlerFails(g) \/ DialRefused(g)
      PROVE  HostTypes' /\ UNCHANGED net
  BY <1>7 DEF HandshakeFails, HandlerFails, DialRefused, NextConn, TypeOK, handled
<1>8. ASSUME NEW g \in Gen, loop[g] \in Busy
      PROVE  cur[g] \in Conn
  BY <1>8 DEF HasConn
<1>9. ASSUME NEW g \in Gen, Register(g)
      PROVE  HostTypes' /\ UNCHANGED net
  BY <1>8, <1>9 DEF Register, TypeOK, handled, Busy
<1>10. ASSUME NEW g \in Gen, AcceptBi(g)
       PROVE  HostTypes' /\ UNCHANGED net
  <2>1. cur[g] \in Conn
    BY <1>8, <1>10 DEF AcceptBi, Busy
  <2>2. /\ UNCHANGED <<host, gen, open, stopped, cur, clients, by, net, got, entry, served>>
        /\ loop' = [loop EXCEPT ![g] = "receive"]
        /\ taken' = [taken EXCEPT ![cur[g]] = taken[cur[g]] + 1]
    BY <1>10 DEF AcceptBi
  <2>3. taken \in [Conn -> Nat] /\ taken[cur[g]] + 1 \in Nat
    BY <2>1 DEF TypeOK
  <2>4. taken' \in [Conn -> Nat]
    BY <2>1, <2>2, <2>3, Updated
  <2> QED
    BY <2>2, <2>4 DEF TypeOK
<1>11. ASSUME NEW g \in Gen, ReceiveReq(g)
       PROVE  HostTypes' /\ UNCHANGED net
  <2>1. cur[g] \in Conn
    BY <1>8, <1>11 DEF ReceiveReq, Busy
  <2>2. reqs[cur[g]] \in Seq(App) /\ got[cur[g]] \in Nat
    BY <2>1 DEF TypeOK
  <2>3. reqs[cur[g]][got[cur[g]] + 1] \in App
    BY <1>11, <2>2 DEF ReceiveReq
  <2> QED
    <3>1. /\ UNCHANGED <<host, gen, open, stopped, cur, clients, by, net, taken, served>>
          /\ loop' = [loop EXCEPT ![g] = "dial"]
          /\ got' = [got EXCEPT ![cur[g]] = @ + 1]
          /\ entry' = [entry EXCEPT ![cur[g]] = {reqs[cur[g]][got[cur[g]] + 1]}]
      BY <1>11 DEF ReceiveReq
    <3>2. entry' \in [Conn -> SUBSET App]
      BY <2>3, <3>1 DEF TypeOK
    <3>3. got' \in [Conn -> Nat]
      <4>1. got' = [got EXCEPT ![cur[g]] = got[cur[g]] + 1]
        BY <2>1, <3>1 DEF TypeOK
      <4>2. got \in [Conn -> Nat] /\ got[cur[g]] + 1 \in Nat
        BY <2>1, <2>2 DEF TypeOK
      <4> QED
        BY <2>1, <4>1, <4>2, Updated
    <3> QED
      BY <3>1, <3>2, <3>3 DEF TypeOK
<1>12. ASSUME NEW g \in Gen, DialService(g)
       PROVE  HostTypes' /\ UNCHANGED net
  <2>1. cur[g] \in Conn /\ loop[g] = "dial"
    BY <1>8, <1>12 DEF DialService, Busy
  <2>2. taken[cur[g]] > 0 /\ taken[cur[g]] = got[cur[g]] /\ got[cur[g]] <= Len(reqs[cur[g]])
    BY <2>1 DEF Answers, OneByOne, Behind, Busy
  <2>3. reqs[cur[g]] \in Seq(App) /\ got[cur[g]] \in Nat
    BY <2>1 DEF TypeOK
  <2>4. reqs[cur[g]][got[cur[g]]] \in App
    BY <2>2, <2>3
  <2>5. served' \in [Conn -> Seq(App)]
    BY <1>12, <2>1, <2>4 DEF DialService, TypeOK
  <2> QED
    BY <1>12, <2>5 DEF DialService, TypeOK
<1>13. ASSUME NEW g \in Gen, HostForwardEnds(g)
       PROVE  HostTypes' /\ UNCHANGED net
  BY <1>13 DEF HostForwardEnds, TypeOK
<1> QED
  BY <1>1, <1>2, <1>3, <1>4, <1>5, <1>6, <1>7, <1>9, <1>10, <1>11, <1>12, <1>13
     DEF HostNext, AcceptLoop, TypeOK

\* The clients' steps and the network's keep the clients' types.
LEMMA ClientTypeStep ==
  ASSUME TypeOK, NotYet, Asked, ClientNext \/ Environment \/ UNCHANGED vars
  PROVE  ClientTypes' /\ net' \in [Conn -> SUBSET Side]
<1> USE TunnelAssumption DEF ClientTypes, Alive, Bound
<1>0. /\ lis \in [Conn -> Alive \cup {"unborn", "done", "failed", "dead"}]
      /\ queue \in [Conn -> Seq(App)] /\ <<>> \in Seq(App)
      /\ local \in [Conn -> SUBSET App]
      /\ streams \in [Conn -> Seq(App)] /\ reqs \in [Conn -> Seq(App)]
  BY DEF TypeOK
<1>1. ASSUME NEW c \in Client, Dial(c)
      PROVE  ClientTypes' /\ UNCHANGED net
  BY <1>1 DEF Dial, TypeOK, wire
<1>2. ASSUME NEW c \in Client, Connected(c)
      PROVE  ClientTypes' /\ net' \in [Conn -> SUBSET Side]
  <2>1. UNCHANGED <<dials, halted, queue, local, came, wire>>
    BY <1>2 DEF Connected
  <2>2. tun' \in [Client -> {"off", "dialing", "on", "closing", "panicked"}]
    BY <1>2 DEF Connected, TypeOK
  <2>3. lis' \in [Conn -> Alive \cup {"unborn", "done", "failed", "dead"}]
    BY <1>2 DEF Connected, TypeOK
  <2>4. net' \in [Conn -> SUBSET Side]
    BY <1>2 DEF Connected, TypeOK
  <2> QED
    BY <2>1, <2>2, <2>3, <2>4 DEF TypeOK, wire
<1>3. ASSUME NEW c \in Client, DialFails(c) \/ DisconnectReturns(c)
      PROVE  ClientTypes' /\ UNCHANGED net
  BY <1>3 DEF DialFails, DisconnectReturns, TypeOK, wire
<1>4. ASSUME NEW c \in Client, Disconnect(c)
      PROVE  ClientTypes' /\ net' \in [Conn -> SUBSET Side]
  <2>1. UNCHANGED <<dials, lis, queue, local, came, wire>>
    BY <1>4 DEF Disconnect
  <2>2. tun' \in [Client -> {"off", "dialing", "on", "closing", "panicked"}]
    BY <1>4 DEF Disconnect, TypeOK
  <2>3. halted' \in [Conn -> BOOLEAN]
    BY <1>4 DEF Disconnect, TypeOK
  <2>4. net' \in [Conn -> SUBSET Side]
    BY <1>4, ClosesTypes DEF Disconnect, TypeOK
  <2> QED
    BY <2>1, <2>2, <2>3, <2>4 DEF TypeOK, wire
<1>5. ASSUME NEW c \in Client, NEW then \in {"off", "panicked"}, ClientDies(c, then)
      PROVE  ClientTypes' /\ net' \in [Conn -> SUBSET Side]
  <2>1. UNCHANGED <<dials, halted, came, wire>>
    BY <1>5 DEF ClientDies
  <2>2. tun' \in [Client -> {"off", "dialing", "on", "closing", "panicked"}]
    BY <1>5 DEF ClientDies, TypeOK
  <2>3. lis' \in [Conn -> Alive \cup {"unborn", "done", "failed", "dead"}]
    BY <1>5 DEF ClientDies, TypeOK
  <2>4. queue' \in [Conn -> Seq(App)] /\ local' \in [Conn -> SUBSET App]
    BY <1>5 DEF ClientDies, TypeOK
  <2>5. net' \in [Conn -> SUBSET Side]
    BY <1>5, ClosesTypes DEF ClientDies, TypeOK
  <2> QED
    BY <2>1, <2>2, <2>3, <2>4, <2>5 DEF TypeOK, wire
<1>6. ASSUME NEW k \in Conn, Bind(k) \/ ListenerStops(k) \/ AcceptErrs(k)
      PROVE  ClientTypes' /\ UNCHANGED net
  <2>1. UNCHANGED <<tun, dials, halted, local, came, net, wire>>
    BY <1>6 DEF Bind, ListenerStops, AcceptErrs
  <2>2. lis' \in [Conn -> Alive \cup {"unborn", "done", "failed", "dead"}]
    <3>1. \E l \in {"accept", "failed", "done", "deaf"} : lis' = [lis EXCEPT ![k] = l]
      BY <1>6 DEF Bind, ListenerStops, ListenerEnds, AcceptErrs
    <3> QED
      BY <1>0, <3>1, Updated
  <2>3. queue' \in [Conn -> Seq(App)]
    <3>1. UNCHANGED queue \/ queue' = [queue EXCEPT ![k] = <<>>]
      BY <1>6 DEF Bind, ListenerStops, ListenerEnds, AcceptErrs
    <3> QED
      BY <1>0, <3>1, Updated
  <2> QED
    BY <2>1, <2>2, <2>3 DEF TypeOK, wire
<1>7. ASSUME NEW k \in Conn, AcceptApp(k)
      PROVE  ClientTypes' /\ UNCHANGED net
  <2>1. queue[k] \in Seq(App) /\ queue[k] # <<>>
    BY <1>7 DEF AcceptApp, TypeOK
  <2>2. Head(queue[k]) \in App /\ Tail(queue[k]) \in Seq(App)
    BY <2>1
  <2>3. UNCHANGED <<tun, dials, halted, local, came, net, reqs, shown>>
    BY <1>7 DEF AcceptApp
  <2>4. lis' \in [Conn -> Alive \cup {"unborn", "done", "failed", "dead"}]
    <3>1. lis' = [lis EXCEPT ![k] = "request"] \/ lis' = [lis EXCEPT ![k] = "failed"]
      BY <1>7 DEF AcceptApp, ListenerEnds
    <3> QED
      BY <1>0, <3>1
  <2>5. queue' \in [Conn -> Seq(App)]
    <3>1. queue' = [queue EXCEPT ![k] = Tail(queue[k])] \/ queue' = [queue EXCEPT ![k] = <<>>]
      BY <1>0, <1>7 DEF AcceptApp, ListenerEnds
    <3> QED
      BY <1>0, <2>2, <3>1, Updated
  <2>6. streams' \in [Conn -> Seq(App)]
    <3>1. \/ UNCHANGED streams
          \/ streams' = [streams EXCEPT ![k] = Append(streams[k], Head(queue[k]))]
      BY <1>0, <1>7 DEF AcceptApp
    <3>2. Append(streams[k], Head(queue[k])) \in Seq(App)
      BY <1>0, <2>2
    <3> QED
      BY <1>0, <3>1, <3>2, Updated
  <2> QED
    BY <2>3, <2>4, <2>5, <2>6 DEF TypeOK
<1>8. ASSUME NEW k \in Conn, SendReq(k)
      PROVE  ClientTypes' /\ UNCHANGED net
  <2>1. streams[k] \in Seq(App) /\ streams[k] # <<>>
    BY <1>8 DEF SendReq, Asked, TypeOK
  <2>2. Last(streams[k]) \in App
    BY <2>1 DEF Last
  <2>3. UNCHANGED <<tun, dials, halted, came, net, streams, shown>>
    BY <1>8 DEF SendReq
  <2>4. lis' \in [Conn -> Alive \cup {"unborn", "done", "failed", "dead"}]
    <3>1. lis' = [lis EXCEPT ![k] = "forward"] \/ lis' = [lis EXCEPT ![k] = "failed"]
      BY <1>8 DEF SendReq, ListenerEnds
    <3> QED
      BY <1>0, <3>1
  <2>5. queue' \in [Conn -> Seq(App)]
    <3>1. UNCHANGED queue \/ queue' = [queue EXCEPT ![k] = <<>>]
      BY <1>8 DEF SendReq, ListenerEnds
    <3> QED
      BY <1>0, <3>1, Updated
  <2>6. local' \in [Conn -> SUBSET App]
    <3>1. \/ UNCHANGED local
          \/ local' = [local EXCEPT ![k] = local[k] \cup {Last(streams[k])}]
      BY <1>8, Zenon DEF SendReq
    <3> DEFINE more == local[k] \cup {Last(streams[k])}
    <3>2. more \in SUBSET App
      BY <1>0, <2>2
    <3>3. UNCHANGED local \/ local' = [local EXCEPT ![k] = more]
      BY <3>1
    <3> HIDE DEF more
    <3>5. local \in [Conn -> SUBSET App]
      BY <1>0
    <3>6. [local EXCEPT ![k] = more] \in [Conn -> SUBSET App]
      BY <3>2, <3>5
    <3> QED
      BY <3>3, <3>5, <3>6
  <2>7. reqs' \in [Conn -> Seq(App)]
    <3>1. \/ reqs' = [reqs EXCEPT ![k] = Append(reqs[k], Last(streams[k]))]
          \/ reqs' = [reqs EXCEPT ![k] = reqs[k]]
          \/ UNCHANGED reqs
      BY <1>0, <1>8 DEF SendReq
    <3>2. Append(reqs[k], Last(streams[k])) \in Seq(App)
      BY <1>0, <2>2
    <3> QED
      BY <1>0, <3>1, <3>2, Updated
  <2> QED
    BY <2>3, <2>4, <2>5, <2>6, <2>7 DEF TypeOK
<1>9. ASSUME NEW k \in Conn, Speak(k) \/ ClientForwardEnds(k)
      PROVE  ClientTypes' /\ UNCHANGED net
  <2>1. Len(streams[k]) \in Nat
    BY DEF TypeOK
  <2>2. UNCHANGED <<tun, dials, halted, queue, came, net, streams, reqs>>
    BY <1>9 DEF Speak, ClientForwardEnds, clientVars
  <2>3. lis' \in [Conn -> Alive \cup {"unborn", "done", "failed", "dead"}]
    <3>1. UNCHANGED lis \/ lis' = [lis EXCEPT ![k] = "accept"]
      BY <1>9 DEF Speak, ClientForwardEnds, clientVars
    <3> QED
      BY <1>0, <3>1, Updated
  <2>4. local' \in [Conn -> SUBSET App]
    <3>1. \/ UNCHANGED local
          \/ local' = [local EXCEPT ![k] = local[k] \ {Last(streams[k])}]
      <4>1. CASE Speak(k)
        BY <4>1 DEF Speak, clientVars
      <4>2. CASE ClientForwardEnds(k)
        BY <4>2 DEF ClientForwardEnds
      <4> QED
        BY <1>9, <4>1, <4>2
    <3>2. local[k] \in SUBSET App
      BY <1>0
    <3> DEFINE rest == local[k] \ {Last(streams[k])}
    <3>3. rest \in SUBSET App
      BY <3>2
    <3>4. UNCHANGED local \/ local' = [local EXCEPT ![k] = rest]
      BY <3>1
    <3> HIDE DEF rest
    <3>5. local \in [Conn -> SUBSET App]
      BY <1>0
    <3>6. [local EXCEPT ![k] = rest] \in [Conn -> SUBSET App]
      BY <3>3, <3>5
    <3> QED
      BY <3>4, <3>5, <3>6
  <2>5. shown' \in [Conn -> Nat]
    <3>1. shown' = [shown EXCEPT ![k] = IF Hears(k) THEN Len(streams[k]) ELSE shown[k]]
      BY <1>9 DEF Speak, ClientForwardEnds, Show
    <3>2. shown \in [Conn -> Nat]
      BY DEF TypeOK
    <3>3. (IF Hears(k) THEN Len(streams[k]) ELSE shown[k]) \in Nat
      BY <2>1, <3>2
    <3> QED
      BY <3>1, <3>2, <3>3, Updated
  <2> QED
    BY <2>2, <2>3, <2>4, <2>5 DEF TypeOK
<1>10. ASSUME NEW k \in Conn, Lose(k) \/ Notices(k)
       PROVE  ClientTypes' /\ net' \in [Conn -> SUBSET Side]
  BY <1>10, ClosesTypes DEF Lose, Notices, TypeOK, clientVars, wire
<1>11. ASSUME NEW k \in Conn, NEW a \in App, AppConnects(a, k)
       PROVE  ClientTypes' /\ UNCHANGED net
  BY <1>11 DEF AppConnects, TypeOK, wire
<1>12. CASE UNCHANGED vars
  BY <1>12 DEF vars, clientVars, wire, TypeOK
<1> QED
  BY <1>1, <1>2, <1>3, <1>4, <1>5, <1>6, <1>7, <1>8, <1>9, <1>10, <1>11, <1>12
     DEF ClientNext, Environment, Listener, DisconnectPanics, ClientCrash, TypeOK

\* Every step keeps the types.
LEMMA TypeStep ==
  ASSUME TypeOK, HasConn, NotYet, Asked, Behind, OneByOne, Answers, Next \/ UNCHANGED vars
  PROVE  TypeOK'
<1>1. HostTypes /\ ClientTypes
  BY DEF TypeOK, HostTypes, ClientTypes
<1>2. CASE HostNext
  <2>1. ClientTypes'
    BY <1>1, <1>2, HostFrame DEF ClientTypes, clientVars, wire
  <2> QED
    BY <1>2, <2>1, HostTypeStep DEF TypeOK, HostTypes, ClientTypes
<1>3. CASE ClientNext \/ Environment \/ UNCHANGED vars
  <2>1. HostTypes'
    BY <1>1, <1>3, ClientFrame DEF HostTypes, hostVars, handled
  <2> QED
    BY <1>3, <2>1, ClientTypeStep DEF TypeOK, HostTypes, ClientTypes
<1> QED
  BY <1>2, <1>3 DEF Next

-----------------------------------------------------------------------------
(* The invariant, and what it says.                                        *)

\* The invariant holds at first, every step preserves it, and so it is always
\* true.
LEMMA InitImplies == Init => IInv
<1> SUFFICES ASSUME Init
             PROVE  IInv
  OBVIOUS
<1> USE TunnelAssumption DEF Init, Gen
<1>1. TypeOK
  BY DEF TypeOK, Serving, Alive, Bound
<1>2. OpenIsCurrent /\ HasConn /\ Registered /\ HeardByCurrent
  BY DEF OpenIsCurrent, HasConn, Registered, HeardByCurrent, Hears, Busy, Serving
<1>3. NotYet /\ SentInOrder /\ Asked /\ InStep
  BY DEF NotYet, SentInOrder, Asked, InStep, Hears
<1>4. Behind /\ OneByOne /\ Answers
  BY DEF Behind, OneByOne, Answers, Busy, Serving
<1> QED
  BY <1>1, <1>2, <1>3, <1>4 DEF IInv

\* Every operation of a tunnel preserves the invariant, part by part.
LEMMA NextPreserves == IInv /\ [Next]_vars => IInv'
<1> SUFFICES ASSUME IInv, Next \/ UNCHANGED vars
             PROVE  IInv'
  OBVIOUS
<1>1. TypeOK'
  BY TypeStep DEF IInv
<1>2. OpenIsCurrent' /\ HasConn' /\ Registered' /\ HeardByCurrent'
  BY OpenStep, ConnStep, MapStep, HeardStep DEF IInv
<1>3. NotYet' /\ SentInOrder' /\ Asked' /\ InStep'
  BY NotYetStep, SentStep, AskedStep, InStepStep DEF IInv
<1>4. Behind' /\ OneByOne' /\ Answers'
  BY BehindStep, OneByOneStep, AnswersStep DEF IInv
<1> QED
  BY <1>1, <1>2, <1>3, <1>4 DEF IInv

\* The invariant holds of every tunnel at every moment.
LEMMA Inductive == Spec => []IInv
BY InitImplies, NextPreserves, PTL DEF Spec

\* The types of Tunnel's state, for every instance.
THEOREM TypeCorrect == Spec => []TypeOK
<1>1. IInv => TypeOK
  BY DEF IInv
<1> QED
  BY Inductive, <1>1, PTL

\* A connection has one handler and its client is in that loop's map, so that
\* the unwrap of get_mut in handle_connection cannot fail.
THEOREM Handled == Spec => []OneHandler
<1>1. NoConn \notin Conn
  BY DEF NoConn, Conn
<1>2. ASSUME IInv, NEW g \in Gen, loop[g] \in Serving, NEW h \in Gen \ {g}
      PROVE  cur[h] # cur[g]
  BY <1>1, <1>2 DEF IInv, HasConn, Busy
<1>3. IInv => OneHandler
  BY <1>2 DEF IInv, OneHandler, HasConn, Registered, Busy
<1> QED
  BY Inductive, <1>3, PTL

\* No connection stays up with a generation that was stopped or crashed.
THEOREM Attached == Spec => []AttachedToCurrent
<1>1. IInv => AttachedToCurrent
  BY DEF IInv, AttachedToCurrent, HeardByCurrent
<1> QED
  BY Inductive, <1>1, PTL

\* The n-th stream meets the n-th ConnReq, for every loss, stop and restart
\* (accept_bi and receive_packet in handle_connection).
THEOREM Paired == Spec => []PairedRequest
<1>1. IInv => PairedRequest
  BY DEF IInv, PairedRequest, Answers
<1> QED
  BY Inductive, <1>1, PTL
=============================================================================
