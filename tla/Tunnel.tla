------------------------------- MODULE Tunnel -------------------------------
(***************************************************************************)
(* The control plane of one TCP tunnel: the host tunnel of host.rs with    *)
(* its accept loop, the client tunnels of client.rs with their listeners,  *)
(* and the QUIC connections between them, over several starts of the host  *)
(* and several connects of each client.                                    *)
(*                                                                         *)
(* Every start of the host tunnel is a generation: an endpoint, a stop     *)
(* channel, a map of clients, and an accept loop that is never joined.     *)
(* Every connect of a client tunnel is a connection with a listener task   *)
(* of its own; the client's endpoint gets a fresh key each time, so the    *)
(* connection stands for the PublicKey the host knows the client by.       *)
(*                                                                         *)
(* A local connection takes one bidirectional stream, and one control      *)
(* message (ConnReq) on a unidirectional stream; nothing but their order   *)
(* ties the two together.  The relaying itself is module TcpRelay: here a  *)
(* forwarder is a state that may end.                                      *)
(***************************************************************************)
EXTENDS Naturals, FiniteSets, SequencesExt

CONSTANTS
  Client,     \* client tunnels
  App,        \* local applications, named by their address
  HomeOf,     \* application -> the client tunnel it connects to
  MaxStarts,  \* bound: starts of the host tunnel
  MaxDials,   \* bound: connects of a client tunnel
  Hazards     \* what may happen, a subset of HazardKinds

HazardKinds == {"stop", "disconnect", "refuse", "loss", "impatient",
                "accept_error", "host_crash", "client_crash"}

ASSUME TunnelAssumption ==
  /\ HomeOf \in [App -> Client]
  /\ MaxStarts \in Nat
  /\ MaxDials \in Nat
  /\ Hazards \subseteq HazardKinds

Side == {"client", "host"}
Gen  == 1..MaxStarts
Conn == Client \X (1..MaxDials)
NoConn == <<>>

VARIABLES
  host,     \* the HostTunnel: is_open, and whether stop() is under way
  gen,      \* how many times it was started
  open,     \* generation -> its endpoint is open
  stopped,  \* generation -> true was sent on its stop_tx
  loop,     \* generation -> where its accept loop is
  cur,      \* generation -> the connection it is handling
  clients,  \* generation -> keys of tunnel_clients
  tun,      \* client -> the ClientTunnel: is_connected, and calls under way
  dials,    \* client -> how many times it called connect()
  lis,      \* connection -> where its listener task is
  halted,   \* connection -> true was sent on its stop_tx
  queue,    \* connection -> applications in the listener's backlog
  local,    \* connection -> keys of the client's local_connections
  came,     \* applications that have connected
  by,       \* connection -> the generation that took it, 0 before
  net,      \* connection -> the sides that hold it to be up
  streams,  \* connection -> applications given a stream, in order
  reqs,     \* connection -> ConnReqs sent, in order
  shown,    \* connection -> streams the host can know of
  taken,    \* connection -> streams the host has accepted
  got,      \* connection -> ConnReqs the host has received
  entry,    \* connection -> client_local_addr of the host's local_connections
  served    \* connection -> addresses the service was connected for

hostVars   == <<host, gen, open, stopped, loop, cur, clients>>
clientVars == <<tun, dials, lis, halted, queue, local, came>>
wire       == <<streams, reqs, shown>>
handled    == <<taken, got, entry, served>>
vars       == <<hostVars, clientVars, by, net, wire, handled>>

Serving == {"accept_bi", "receive", "dial", "forward"}
Bound   == {"accept", "deaf", "request", "forward"}
Alive   == Bound \cup {"bind"}

TypeOK ==
  /\ host \in {"off", "on", "closing"}
  /\ gen \in 0..MaxStarts
  /\ open \in [Gen -> BOOLEAN]
  /\ stopped \in [Gen -> BOOLEAN]
  /\ loop \in [Gen -> Serving \cup {"unborn", "accept", "none", "handshake", "dead"}]
  /\ cur \in [Gen -> Conn \cup {NoConn}]
  /\ clients \in [Gen -> SUBSET Conn]
  /\ tun \in [Client -> {"off", "dialing", "on", "closing", "panicked"}]
  /\ dials \in [Client -> 0..MaxDials]
  /\ lis \in [Conn -> Alive \cup {"unborn", "done", "failed", "dead"}]
  /\ halted \in [Conn -> BOOLEAN]
  /\ queue \in [Conn -> Seq(App)]
  /\ local \in [Conn -> SUBSET App]
  /\ came \subseteq App
  /\ by \in [Conn -> 0..MaxStarts]
  /\ net \in [Conn -> SUBSET Side]
  /\ streams \in [Conn -> Seq(App)]
  /\ reqs \in [Conn -> Seq(App)]
  /\ shown \in [Conn -> Nat]
  /\ taken \in [Conn -> Nat]
  /\ got \in [Conn -> Nat]
  /\ entry \in [Conn -> SUBSET App]
  /\ served \in [Conn -> Seq(App)]

Init ==
  /\ host = "off" /\ gen = 0
  /\ open = [g \in Gen |-> FALSE]
  /\ stopped = [g \in Gen |-> FALSE]
  /\ loop = [g \in Gen |-> "unborn"]
  /\ cur = [g \in Gen |-> NoConn]
  /\ clients = [g \in Gen |-> {}]
  /\ tun = [c \in Client |-> "off"]
  /\ dials = [c \in Client |-> 0]
  /\ lis = [k \in Conn |-> "unborn"]
  /\ halted = [k \in Conn |-> FALSE]
  /\ queue = [k \in Conn |-> <<>>]
  /\ local = [k \in Conn |-> {}]
  /\ came = {}
  /\ by = [k \in Conn |-> 0]
  /\ net = [k \in Conn |-> {}]
  /\ streams = [k \in Conn |-> <<>>]
  /\ reqs = [k \in Conn |-> <<>>]
  /\ shown = [k \in Conn |-> 0]
  /\ taken = [k \in Conn |-> 0]
  /\ got = [k \in Conn |-> 0]
  /\ entry = [k \in Conn |-> {}]
  /\ served = [k \in Conn |-> <<>>]

-----------------------------------------------------------------------------
(* The connection.                                                         *)

Dialing(k) == tun[k[1]] = "dialing" /\ dials[k[1]] = k[2]

\* The handshake goes on: the accept loop awaits it and the client has not
\* given up.
Shaking(k) == \E g \in Gen : loop[g] = "handshake" /\ cur[g] = k /\ open[g]

\* Frames sent on k reach a host that has not given the connection up.
Hears(k) == "host" \in net[k]

Closes(s, K) == net' = [k \in Conn |-> IF k \in K THEN net[k] \ {s} ELSE net[k]]

\* The network fails: one side notices before the other.
Lose(k) ==
  /\ "loss" \in Hazards
  /\ net[k] = Side
  /\ \E s \in Side : Closes(s, {k})
  /\ UNCHANGED <<hostVars, clientVars, by, wire, handled>>

\* A close arrives, or the idle timeout of QUIC notices a silent peer.
Notices(k) ==
  /\ Cardinality(net[k]) = 1
  /\ net' = [net EXCEPT ![k] = {}]
  /\ UNCHANGED <<hostVars, clientVars, by, wire, handled>>

-----------------------------------------------------------------------------
(* The host tunnel.                                                        *)

\* start: a fresh endpoint, map and stop channel, and the loop is spawned.
Start ==
  /\ host = "off"
  /\ gen < MaxStarts
  /\ host' = "on"
  /\ gen' = gen + 1
  /\ open' = [open EXCEPT ![gen + 1] = TRUE]
  /\ loop' = [loop EXCEPT ![gen + 1] = "accept"]
  /\ UNCHANGED <<stopped, cur, clients, clientVars, by, net, wire, handled>>

\* stop, up to its await.
StopSends ==
  /\ "stop" \in Hazards
  /\ host = "on"
  /\ host' = "closing"
  /\ stopped' = [stopped EXCEPT ![gen] = TRUE]
  /\ UNCHANGED <<gen, open, loop, cur, clients, clientVars, by, net, wire, handled>>

\* The close reaches only the clients of the map, or nothing is closed.
StopCloses_Map ==
  /\ host = "closing"
  /\ host' = "off"
  /\ open' = [open EXCEPT ![gen] = FALSE]
  /\ Closes("host", clients[gen])
  /\ UNCHANGED <<gen, stopped, loop, cur, clients, clientVars, by, wire, handled>>

StopCloses_Not ==
  /\ host = "closing"
  /\ host' = "off"
  /\ UNCHANGED <<gen, open, stopped, loop, cur, clients, clientVars, by, net, wire, handled>>

\* stop, from its await: the endpoint closes with every connection it took.
StopCloses ==
  /\ host = "closing"
  /\ host' = "off"
  /\ open' = [open EXCEPT ![gen] = FALSE]
  /\ Closes("host", {k \in Conn : by[k] = gen})
  /\ UNCHANGED <<gen, stopped, loop, cur, clients, clientVars, by, wire, handled>>

\* The host's process dies; its owner may start it again.
HostCrash ==
  /\ "host_crash" \in Hazards
  /\ gen > 0
  /\ loop[gen] # "dead"
  /\ host' = "off"
  /\ open' = [g \in Gen |-> FALSE]
  /\ loop' = [g \in Gen |-> IF g <= gen THEN "dead" ELSE "unborn"]
  /\ cur' = [g \in Gen |-> NoConn]
  /\ clients' = [g \in Gen |-> {}]
  /\ entry' = [k \in Conn |-> {}]
  /\ Closes("host", Conn)
  /\ UNCHANGED <<gen, stopped, clientVars, by, wire, taken, got, served>>

\* A connection is taken once more.
AcceptConn_Again(g, k) ==
  /\ loop[g] = "accept"
  /\ open[g]
  /\ Dialing(k)
  /\ loop' = [loop EXCEPT ![g] = "handshake"]
  /\ cur' = [cur EXCEPT ![g] = k]
  /\ by' = [by EXCEPT ![k] = g]
  /\ UNCHANGED <<host, gen, open, stopped, clients, clientVars, net, wire, handled>>

\* endpoint.accept() yields a connection, whose handshake the loop awaits.
AcceptConn(g, k) ==
  /\ loop[g] = "accept"
  /\ open[g]
  /\ Dialing(k)
  /\ by[k] = 0
  /\ loop' = [loop EXCEPT ![g] = "handshake"]
  /\ cur' = [cur EXCEPT ![g] = k]
  /\ by' = [by EXCEPT ![k] = g]
  /\ UNCHANGED <<host, gen, open, stopped, clients, clientVars, net, wire, handled>>

\* endpoint.accept() yields None once the endpoint is closed; the loop goes
\* round.
AcceptNone(g) ==
  /\ loop[g] = "accept" /\ ~open[g]
  /\ loop' = [loop EXCEPT ![g] = "none"]
  /\ UNCHANGED <<host, gen, open, stopped, cur, clients, clientVars, by, net, wire, handled>>

Continue(g) ==
  /\ loop[g] = "none"
  /\ loop' = [loop EXCEPT ![g] = "accept"]
  /\ UNCHANGED <<host, gen, open, stopped, cur, clients, clientVars, by, net, wire, handled>>

\* The handler or the handshake returns, whatever it returns: the loop takes
\* the next connection, and the client stays in the map.
NextConn(g) ==
  /\ loop' = [loop EXCEPT ![g] = "accept"]
  /\ cur' = [cur EXCEPT ![g] = NoConn]
  /\ UNCHANGED <<host, gen, open, stopped, clients>>

HandshakeFails(g) ==
  /\ loop[g] = "handshake"
  /\ ~Hears(cur[g])
  /\ ~Dialing(cur[g]) \/ ~open[g]
  /\ NextConn(g)
  /\ UNCHANGED <<clientVars, by, net, wire, handled>>

\* The client is inserted under its key, and handle_connection is called and
\* awaited by the loop.  The key is that of an endpoint made for this connect
\* alone, so the branch for a key that is in the map is left out.
Register(g) ==
  /\ loop[g] = "handshake"
  /\ lis[cur[g]] # "unborn"
  /\ loop' = [loop EXCEPT ![g] = "accept_bi"]
  /\ clients' = [clients EXCEPT ![g] = @ \cup {cur[g]}]
  /\ UNCHANGED <<host, gen, open, stopped, cur, clientVars, by, net, wire, handled>>

\* The newest stream is taken.
AcceptBi_Newest(g) ==
  LET k == cur[g] IN
  /\ loop[g] = "accept_bi"
  /\ taken[k] < shown[k]
  /\ loop' = [loop EXCEPT ![g] = "receive"]
  /\ taken' = [taken EXCEPT ![k] = shown[k]]
  /\ UNCHANGED <<host, gen, open, stopped, cur, clients, clientVars, by, net, wire,
                 got, entry, served>>

\* handle_connection: accept_bi.
AcceptBi(g) ==
  LET k == cur[g] IN
  /\ loop[g] = "accept_bi"
  /\ taken[k] < shown[k]
  /\ loop' = [loop EXCEPT ![g] = "receive"]
  /\ taken' = [taken EXCEPT ![k] = @ + 1]
  /\ UNCHANGED <<host, gen, open, stopped, cur, clients, clientVars, by, net, wire,
                 got, entry, served>>

\* An answered request is not consumed.
ReceiveReq_Stale(g) ==
  LET k == cur[g] IN
  /\ loop[g] = "receive"
  /\ got[k] < Len(reqs[k])
  /\ loop' = [loop EXCEPT ![g] = "dial"]
  /\ got' = [got EXCEPT ![k] = 1]
  /\ entry' = [entry EXCEPT ![k] = {reqs[k][1]}]
  /\ UNCHANGED <<host, gen, open, stopped, cur, clients, clientVars, by, net, wire,
                 taken, served>>

\* receive_packet, and the entry under get_unspecified(..), the same key for
\* every local connection of a client: an older entry is replaced.
ReceiveReq(g) ==
  LET k == cur[g] IN
  /\ loop[g] = "receive"
  /\ got[k] < Len(reqs[k])
  /\ loop' = [loop EXCEPT ![g] = "dial"]
  /\ got' = [got EXCEPT ![k] = @ + 1]
  /\ entry' = [entry EXCEPT ![k] = {reqs[k][got[k] + 1]}]
  /\ UNCHANGED <<host, gen, open, stopped, cur, clients, clientVars, by, net, wire,
                 taken, served>>

\* The handler does not return its error.
HandlerFails_Loops(g) ==
  /\ loop[g] \in {"accept_bi", "receive"}
  /\ ~Hears(cur[g])
  /\ loop' = [loop EXCEPT ![g] = "accept_bi"]
  /\ UNCHANGED <<host, gen, open, stopped, cur, clients, clientVars, by, net, wire, handled>>

\* accept_bi or receive_packet fails with the connection.  What arrived
\* before may be taken first.
HandlerFails(g) ==
  /\ loop[g] \in {"accept_bi", "receive"}
  /\ ~Hears(cur[g])
  /\ NextConn(g)
  /\ UNCHANGED <<clientVars, by, net, wire, handled>>

\* The service is connected to for the address in the entry.
DialService(g) ==
  LET k == cur[g] IN
  /\ loop[g] = "dial"
  /\ loop' = [loop EXCEPT ![g] = "forward"]
  /\ served' = [served EXCEPT ![k] = Append(@, reqs[k][got[k]])]
  /\ UNCHANGED <<host, gen, open, stopped, cur, clients, clientVars, by, net, wire,
                 taken, got, entry>>

\* The service cannot be reached: the handler returns the error, and leaves
\* the entry and the connection as they are.
DialRefused(g) ==
  /\ "refuse" \in Hazards
  /\ loop[g] = "dial"
  /\ NextConn(g)
  /\ UNCHANGED <<clientVars, by, net, wire, handled>>

\* bi_tcp_stream_host returns, its entry removed.
HostForwardEnds(g) ==
  /\ loop[g] = "forward"
  /\ loop' = [loop EXCEPT ![g] = "accept_bi"]
  /\ entry' = [entry EXCEPT ![cur[g]] = {}]
  /\ UNCHANGED <<host, gen, open, stopped, cur, clients, clientVars, by, net, wire,
                 taken, got, served>>

AcceptLoop(g) ==
  \/ \E k \in Conn : AcceptConn(g, k)
  \/ AcceptNone(g) \/ Continue(g)
  \/ HandshakeFails(g) \/ Register(g)
  \/ AcceptBi(g) \/ ReceiveReq(g) \/ HandlerFails(g)
  \/ DialService(g)

-----------------------------------------------------------------------------
(* The client tunnels.                                                     *)

ConnOf(c) == <<c, dials[c]>>

\* is_running is not asked.
Dial_Unchecked(c) ==
  /\ tun' = [tun EXCEPT ![c] = "dialing"]
  /\ dials' = [dials EXCEPT ![c] = @ + 1]
  /\ UNCHANGED <<hostVars, lis, halted, queue, local, came, by, net, wire, handled>>

\* connect, up to its await of the connection.
Dial(c) ==
  /\ tun[c] = "off"
  /\ dials[c] < MaxDials
  /\ tun' = [tun EXCEPT ![c] = "dialing"]
  /\ dials' = [dials EXCEPT ![c] = @ + 1]
  /\ UNCHANGED <<hostVars, lis, halted, queue, local, came, by, net, wire, handled>>

\* connect returns Ok: the listener is spawned.
Connected(c) ==
  LET k == ConnOf(c) IN
  /\ tun[c] = "dialing"
  /\ Shaking(k)
  /\ tun' = [tun EXCEPT ![c] = "on"]
  /\ net' = [net EXCEPT ![k] = Side]
  /\ lis' = [lis EXCEPT ![k] = "bind"]
  /\ UNCHANGED <<hostVars, dials, halted, queue, local, came, by, wire, handled>>

\* connect returns an error: the handshake was cut off, or nobody answered
\* in time.
DialFails(c) ==
  /\ tun[c] = "dialing"
  /\ "impatient" \in Hazards \/ (by[ConnOf(c)] # 0 /\ ~Shaking(ConnOf(c)))
  /\ tun' = [tun EXCEPT ![c] = "off"]
  /\ UNCHANGED <<hostVars, dials, lis, halted, queue, local, came, by, net, wire, handled>>

\* The listener task ends: its socket closes, and with it the backlog.
ListenerEnds(k, why) ==
  /\ lis' = [lis EXCEPT ![k] = why]
  /\ queue' = [queue EXCEPT ![k] = <<>>]

\* An older listener of the same tunnel may still hold the address.
AddressInUse(k) == \E j \in Conn : j[1] = k[1] /\ j # k /\ lis[j] \in Bound

Bind(k) ==
  /\ lis[k] = "bind"
  /\ \/ /\ ~AddressInUse(k)
        /\ lis' = [lis EXCEPT ![k] = "accept"]
        /\ UNCHANGED queue
     \/ AddressInUse(k) /\ ListenerEnds(k, "failed")
  /\ UNCHANGED <<hostVars, tun, dials, halted, local, came, by, net, wire, handled>>

\* First arm of the biased select.
ListenerStops(k) ==
  /\ lis[k] \in {"accept", "deaf"}
  /\ halted[k]
  /\ ListenerEnds(k, "done")
  /\ UNCHANGED <<hostVars, tun, dials, halted, local, came, by, net, wire, handled>>

\* Second arm: accept, then open_bi, which fails with the connection.
AcceptApp(k) ==
  /\ lis[k] = "accept"
  /\ ~halted[k]
  /\ queue[k] # <<>>
  /\ \/ /\ "client" \in net[k]
        /\ lis' = [lis EXCEPT ![k] = "request"]
        /\ streams' = [streams EXCEPT ![k] = Append(@, Head(queue[k]))]
        /\ queue' = [queue EXCEPT ![k] = Tail(@)]
     \/ /\ "client" \notin net[k]
        /\ ListenerEnds(k, "failed")
        /\ UNCHANGED streams
  /\ UNCHANGED <<hostVars, tun, dials, halted, local, came, by, net, reqs, shown, handled>>

\* Second arm: an error of accept does not match Ok(..), and this select
\* waits on for the stop alone.
AcceptErrs(k) ==
  /\ "accept_error" \in Hazards
  /\ lis[k] = "accept"
  /\ ~halted[k]
  /\ lis' = [lis EXCEPT ![k] = "deaf"]
  /\ UNCHANGED <<hostVars, tun, dials, halted, queue, local, came, by, net, wire, handled>>

\* send_packet, then the entry, then the forwarder.
SendReq(k) ==
  LET a == Last(streams[k]) IN
  /\ lis[k] = "request"
  /\ \/ /\ "client" \in net[k]
        /\ lis' = [lis EXCEPT ![k] = "forward"]
        /\ local' = [local EXCEPT ![k] = @ \cup {a}]
        /\ reqs' = [reqs EXCEPT ![k] = IF Hears(k) THEN Append(@, a) ELSE @]
        /\ UNCHANGED queue
     \/ /\ "client" \notin net[k]
        /\ ListenerEnds(k, "failed")
        /\ UNCHANGED <<local, reqs>>
  /\ UNCHANGED <<hostVars, tun, dials, halted, came, by, net, streams, shown, handled>>

\* The host learns of a stream, and of those before it, by the first frame
\* on it.
Show(k) ==
  shown' = [shown EXCEPT ![k] = IF Hears(k) THEN Len(streams[k]) ELSE @]

\* The application's first bytes are forwarded.
Speak(k) ==
  /\ lis[k] = "forward"
  /\ "client" \in net[k]
  /\ shown[k] < Len(streams[k])
  /\ Show(k)
  /\ UNCHANGED <<hostVars, clientVars, by, net, streams, reqs, handled>>

\* The listener ends with its first forwarder.
ClientForwardEnds_Last(k) ==
  /\ lis[k] = "forward"
  /\ ListenerEnds(k, "done")
  /\ local' = [local EXCEPT ![k] = @ \ {Last(streams[k])}]
  /\ Show(k)
  /\ UNCHANGED <<hostVars, tun, dials, halted, came, by, net, streams, reqs, handled>>

\* bi_tcp_stream_client returns, its entry removed and its stream closed.
ClientForwardEnds(k) ==
  /\ lis[k] = "forward"
  /\ lis' = [lis EXCEPT ![k] = "accept"]
  /\ local' = [local EXCEPT ![k] = @ \ {Last(streams[k])}]
  /\ Show(k)
  /\ UNCHANGED <<hostVars, tun, dials, halted, queue, came, by, net, streams, reqs, handled>>

Listener(k) ==
  Bind(k) \/ ListenerStops(k) \/ AcceptApp(k) \/ SendReq(k)

\* The connection is not closed.
Disconnect_Keeps(c) ==
  LET k == ConnOf(c) IN
  /\ "disconnect" \in Hazards
  /\ tun[c] = "on"
  /\ lis[k] \in Alive
  /\ tun' = [tun EXCEPT ![c] = "closing"]
  /\ halted' = [halted EXCEPT ![k] = TRUE]
  /\ UNCHANGED <<hostVars, dials, lis, queue, local, came, by, net, wire, handled>>

\* disconnect, up to its await.
Disconnect(c) ==
  LET k == ConnOf(c) IN
  /\ "disconnect" \in Hazards
  /\ tun[c] = "on"
  /\ lis[k] \in Alive
  /\ tun' = [tun EXCEPT ![c] = "closing"]
  /\ halted' = [halted EXCEPT ![k] = TRUE]
  /\ Closes("client", {k})
  /\ UNCHANGED <<hostVars, dials, lis, queue, local, came, by, wire, handled>>

DisconnectReturns(c) ==
  /\ tun[c] = "closing"
  /\ tun' = [tun EXCEPT ![c] = "off"]
  /\ UNCHANGED <<hostVars, dials, lis, halted, queue, local, came, by, net, wire, handled>>

\* The client's process dies, with every listener it still has.
ClientDies(c, then) ==
  /\ tun' = [tun EXCEPT ![c] = then]
  /\ lis' = [k \in Conn |-> IF k[1] = c /\ lis[k] \in Alive THEN "dead" ELSE lis[k]]
  /\ queue' = [k \in Conn |-> IF k[1] = c THEN <<>> ELSE queue[k]]
  /\ local' = [k \in Conn |-> IF k[1] = c THEN {} ELSE local[k]]
  /\ Closes("client", {k \in Conn : k[1] = c})
  /\ UNCHANGED <<hostVars, dials, halted, came, by, wire, handled>>

\* stop_tx.send(true).unwrap() with no receiver left: the listener, which
\* held them, has returned.
DisconnectPanics(c) ==
  /\ "disconnect" \in Hazards
  /\ tun[c] = "on"
  /\ lis[ConnOf(c)] \notin Alive
  /\ ClientDies(c, "panicked")

ClientCrash(c) ==
  /\ "client_crash" \in Hazards
  /\ tun[c] \in {"dialing", "on", "closing"}
  /\ ClientDies(c, "off")

\* An application connects to the tunnel's address.
AppConnects(a, k) ==
  /\ a \notin came
  /\ k[1] = HomeOf[a]
  /\ lis[k] \in Bound
  /\ came' = came \cup {a}
  /\ queue' = [queue EXCEPT ![k] = Append(@, a)]
  /\ UNCHANGED <<hostVars, tun, dials, lis, halted, local, by, net, wire, handled>>

-----------------------------------------------------------------------------
HostNext ==
  \/ Start \/ StopSends \/ StopCloses \/ HostCrash
  \/ \E g \in Gen : AcceptLoop(g) \/ DialRefused(g) \/ HostForwardEnds(g)

ClientNext ==
  \/ \E c \in Client :
       \/ Dial(c) \/ Connected(c) \/ DialFails(c)
       \/ Disconnect(c) \/ DisconnectReturns(c) \/ DisconnectPanics(c)
       \/ ClientCrash(c)
  \/ \E k \in Conn :
       \/ Listener(k) \/ AcceptErrs(k) \/ Speak(k) \/ ClientForwardEnds(k)

Environment ==
  \/ \E k \in Conn : Lose(k) \/ Notices(k)
  \/ \E a \in App, k \in Conn : AppConnects(a, k)

Next == HostNext \/ ClientNext \/ Environment

Spec == Init /\ [][Next]_vars

\* The forwarder of a side has nothing left to wait for: a stop, a lost
\* connection, or the other side's end of the stream (what module TcpRelay
\* shows of it).
HostReleased(g) ==
  LET k == cur[g] IN
  stopped[g] \/ ~Hears(k) \/ taken[k] < Len(streams[k]) \/ lis[k] # "forward"

ClientReleased(k) ==
  \/ halted[k]
  \/ "client" \notin net[k]
  \/ \A g \in Gen : cur[g] = k => /\ taken[k] = Len(streams[k])
                                 /\ loop[g] = "accept_bi"

\* The runtime polls every task that can go on, calls that were made are
\* carried through, a lost peer is noticed, and an application speaks.
\* Nothing makes an owner start, stop, connect or disconnect a tunnel.
Fairness ==
  /\ WF_vars(StopCloses)
  /\ \A g \in Gen :
       /\ WF_vars(AcceptLoop(g))
       /\ WF_vars(HostForwardEnds(g) /\ HostReleased(g))
  /\ \A c \in Client :
       WF_vars(Connected(c)) /\ WF_vars(DialFails(c)) /\ WF_vars(DisconnectReturns(c))
  /\ \A k \in Conn :
       /\ WF_vars(Listener(k)) /\ WF_vars(Speak(k)) /\ WF_vars(Notices(k))
       /\ WF_vars(ClientForwardEnds(k) /\ ClientReleased(k))

FairSpec == Spec /\ Fairness

-----------------------------------------------------------------------------
(* Safety.                                                                 *)

\* The local_addr a handler works with is that of the application whose
\* stream it accepted: the n-th stream meets the n-th ConnReq, though only
\* their order ties them together and either can be lost with the connection
\* (accept_bi and receive_packet in handle_connection).
PairedRequest ==
  \A g \in Gen : loop[g] \in {"dial", "forward"} =>
    LET k == cur[g] IN entry[k] = {streams[k][taken[k]]}

\* A connection is handled by one loop, of the generation that took it, and
\* its client is in that generation's map: the unwrap of get_mut in
\* handle_connection cannot fail, whatever was stopped or restarted.
OneHandler ==
  \A g \in Gen : loop[g] \in Serving =>
    /\ cur[g] \in clients[g]
    /\ by[cur[g]] = g
    /\ \A h \in Gen \ {g} : cur[h] # cur[g]

\* No connection stays up, on the host, with a generation that was stopped
\* or crashed, whatever the loop was awaiting then: a restarted tunnel has
\* no client of an earlier start (start, stop and the handshake in between).
AttachedToCurrent ==
  \A k \in Conn : Hears(k) => by[k] = gen /\ open[gen]

\* The send of disconnect finds a receiver: stop_tx.send(true).unwrap(),
\* client.rs:348.
NoDisconnectPanic == \A c \in Client : tun[c] # "panicked"

\* The service is connected to once for each application, in order and under
\* its address, over all starts and connects.
S == INSTANCE Sessions WITH opened <- streams
ServesInOrder == S!Spec

-----------------------------------------------------------------------------
(* Liveness.                                                               *)

\* A stopped tunnel lets go of all its clients, on both sides, and its loop
\* of what it was doing ("This will disconnect all clients and stop the
\* tunnel", host.rs:378).
StopDisconnects ==
  \A g \in Gen : stopped[g] ~>
    /\ loop[g] \in {"accept", "none", "dead"}
    /\ \A k \in Conn : by[k] = g => net[k] = {}

\* A disconnected client tunnel ends its listener, and the host lets go of
\* the connection ("Terminates all connections and stops the client tunnel",
\* client.rs:337).
DisconnectEnds ==
  \A k \in Conn : halted[k] ~>
    /\ lis[k] \notin Alive
    /\ \A g \in Gen : cur[g] # k

\* The loops come to a moment, again and again, at which they serve no other
\* client: they handle one client at a time and await its handler
\* (host.rs:248).
OthersLeave(c) == []<>(\A g \in Gen : loop[g] \in Serving => cur[g][1] = c)

\* If so, a client that connects to a tunnel that stays on gets connected,
\* whatever became of its earlier connections and of the other clients: no
\* connection that was given up keeps the loop (handle_connection returns, and
\* the accept loop of host.rs comes back for the next one).  The run has one
\* client, which disconnects and comes back.
Connects ==
  \A c \in Client : OthersLeave(c) =>
    (tun[c] = "dialing" /\ by[ConnOf(c)] \in {0, gen} ~> tun[c] = "on" \/ host # "on")

\* Applications finish, or fall silent until the idle timeout.
Finishing == \A k \in Conn : []<>(lis[k] # "forward")

\* If so, every application in the backlog of a listener gets the service,
\* unless the connection is lost ("will relay traffic to and from the
\* `host_addr` to the connected clients", host.rs:115).
AppServed ==
  Finishing => \A k \in Conn, a \in App :
    Contains(queue[k], a) ~> Contains(served[k], a) \/ net[k] # Side
=============================================================================
