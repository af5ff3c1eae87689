------------------------------ MODULE UdpRelay ------------------------------
(***************************************************************************)
(* The UDP side of a tunnel between one client and the host: the UDP       *)
(* listener of lantun-core/src/client.rs, the forwarders bi_udp_client and *)
(* bi_udp_host of net/udp.rs, and the part of handle_connection (host.rs)  *)
(* that runs them, in the release build, where a panic ends the process.   *)
(*                                                                         *)
(* All applications send to one socket of the client.  The listener peeks  *)
(* at the first datagram and opens a session, a QUIC stream, for the       *)
(* application it came from; the forwarder of that session then peeks at   *)
(* the same socket and takes what its own application sent.  Sessions come *)
(* one after the other on each side, but the host may lag behind.          *)
(*                                                                         *)
(*    sock --client_udp_to_tunnel--> <<n, "up">> --host_tunnel_to_udp-->   *)
(*    <--client_tunnel_to_udp-- <<n, "down">> <--host_udp_to_tunnel-- wire *)
(*                                                                         *)
(* A datagram is known by its sender, its number and its size, its bytes   *)
(* by those and their place, so that a byte that is repeated, overtaken or *)
(* sent to the wrong address shows.  The datagrams' borders are not kept   *)
(* on a stream: a read there takes any part of what has arrived.           *)
(***************************************************************************)
EXTENDS Naturals, SequencesExt

CONSTANTS
  App,          \* the applications, by their local address
  Timeout,      \* CONNECTION_TIMEOUT_SECONDS, in ticks
  BufferSize,   \* TUNNEL_FORWARDER_BUFFER_SIZE: a longer datagram is cut
  Window,       \* bytes a stream holds before a write has to wait
  Sizes,        \* the sizes datagrams may have
  Room,         \* bound: datagrams a socket holds before it drops more
  MaxSends,     \* bound: datagrams each application sends
  MaxReplies,   \* bound: datagrams the service sends
  MaxSessions,  \* bound: sessions the client opens
  Hazards       \* what the environment may do, a subset of HazardKinds

HazardKinds == {"idle", "loss", "stop", "disconnect", "service_down"}

ASSUME UdpAssumption ==
  /\ {Timeout, BufferSize, Window, Room, MaxSessions} \subseteq Nat \ {0}
  /\ BufferSize <= Window
  /\ Sizes \subseteq Nat
  /\ MaxSends \in [App -> Nat] /\ MaxReplies \in Nat
  /\ Hazards \subseteq HazardKinds

Side    == {"client", "host"}
Session == 1..MaxSessions
Stream  == Session \X {"up", "down"}

\* The two tasks of each side's forwarder: one reads a stream and writes to a
\* socket, the other reads the socket and writes to a stream.
Readers == {"client_tunnel_to_udp", "host_tunnel_to_udp"}
Writers == {"client_udp_to_tunnel", "host_udp_to_tunnel"}
Task    == Readers \cup Writers
TasksOf == [client |-> {"client_udp_to_tunnel", "client_tunnel_to_udp"},
            host   |-> {"host_tunnel_to_udp", "host_udp_to_tunnel"}]
Place(t) == IF t \in TasksOf["client"] THEN "client" ELSE "host"
Way(t) == IF t \in {"client_udp_to_tunnel", "host_tunnel_to_udp"} THEN "up" ELSE "down"

Sender == App \cup Session
Datagram == [from : Sender, n : Nat, size : Sizes]
Byte == [from : Sender, n : Nat, i : Nat]

VARIABLES
  sock,    \* datagrams that wait at the client's socket
  wire,    \* datagrams that wait at the virtual socket of the host's session
  refused, \* an ICMP error waits at that socket
  sent,    \* application -> how many datagrams it has sent
  replies, \* how many the service has sent
  seen,    \* session -> the bytes the service has received from it
  got,     \* application -> the bytes it has received
  service, \* the service listens
  data,    \* stream -> every byte written to it
  rd,      \* stream -> how many of them were read
  fin,     \* stream -> its writer has closed it
  dropped, \* stream -> its reader is gone
  link,    \* the QUIC connection is up
  owner,   \* the applications the sessions were opened for
  local,   \* the keys of the client's local_connections
  turn,    \* side -> the last session it has taken up
  parent,  \* side -> the loop that awaits the forwarders
  pc,      \* task -> where its loop is, or why it ended
  held,    \* task -> bytes received and not yet written
  timer,   \* task -> ticks left of the sleep it waits on
  idle,    \* side -> ticks since last_active, up to Timeout
  stop     \* side -> the tunnel's owner has sent true on stop_tx

ends    == <<sent, replies, seen, got, service>>
sockets == <<sock, wire, refused>>
streams == <<data, rd, fin, dropped>>
loops   == <<owner, local, turn, parent>>
vars == <<ends, sockets, streams, link, loops, pc, held, timer, idle, stop>>

Waiting == {"select", "deaf"}
Active  == {"top", "write"} \cup Waiting
Ended   == {"none", "eof", "stopped", "timedout", "panicked", "killed"}

TypeOK ==
  /\ sock \in Seq(Datagram) /\ wire \in Seq(Datagram) /\ refused \in BOOLEAN
  /\ sent \in [App -> Nat] /\ replies \in Nat
  /\ seen \in [Session -> Seq(Byte)] /\ got \in [App -> Seq(Byte)]
  /\ service \in BOOLEAN
  /\ data \in [Stream -> Seq(Byte)] /\ rd \in [Stream -> Nat]
  /\ fin \in [Stream -> BOOLEAN] /\ dropped \in [Stream -> BOOLEAN]
  /\ link \in BOOLEAN
  /\ owner \in Seq(App) /\ local \subseteq App
  /\ turn \in [Side -> 0..MaxSessions]
  /\ parent \in [Side -> {"listen", "forward", "left", "failed", "aborted"}]
  /\ pc \in [Task -> Active \cup Ended]
  /\ held \in [Task -> Seq(Byte)]
  /\ timer \in [Task -> 0..Timeout]
  /\ idle \in [Side -> 0..Timeout]
  /\ stop \in [Side -> BOOLEAN]

Init ==
  /\ sock = <<>> /\ wire = <<>> /\ refused = FALSE
  /\ sent = [a \in App |-> 0] /\ replies = 0
  /\ seen = [n \in Session |-> <<>>] /\ got = [a \in App |-> <<>>]
  /\ service = TRUE
  /\ data = [c \in Stream |-> <<>>] /\ rd = [c \in Stream |-> 0]
  /\ fin = [c \in Stream |-> FALSE] /\ dropped = [c \in Stream |-> FALSE]
  /\ link = TRUE
  /\ owner = <<>> /\ local = {}
  /\ turn = [s \in Side |-> 0]
  /\ parent = [s \in Side |-> "listen"]
  /\ pc = [t \in Task |-> "none"]
  /\ held = [t \in Task |-> <<>>]
  /\ timer = [t \in Task |-> 0]
  /\ idle = [s \in Side |-> 0]
  /\ stop = [s \in Side |-> FALSE]

-----------------------------------------------------------------------------
(* The sessions.                                                           *)

\* A forwarder begins: last_active is stamped and its two tasks are spawned.
Begin(s) ==
  /\ turn' = [turn EXCEPT ![s] = @ + 1]
  /\ parent' = [parent EXCEPT ![s] = "forward"]
  /\ pc' = [t \in Task |-> IF t \in TasksOf[s] THEN "top" ELSE pc[t]]
  /\ idle' = [idle EXCEPT ![s] = 0]

\* The listener peeks at a datagram, which stays where it is, and opens a
\* session for an application that has none.
ListenerOpens ==
  /\ parent["client"] = "listen"
  /\ ~stop["client"]
  /\ sock # <<>>
  /\ Head(sock).from \notin local
  /\ link
  /\ turn["client"] < MaxSessions
  /\ owner' = Append(owner, Head(sock).from)
  /\ local' = local \cup {Head(sock).from}
  /\ Begin("client")
  /\ UNCHANGED <<ends, sockets, streams, link, held, timer, stop>>

\* open_bi or send_packet fails on a lost connection, and the error ends the
\* listener.
ListenerFails ==
  /\ parent["client"] = "listen"
  /\ ~stop["client"]
  /\ sock # <<>>
  /\ Head(sock).from \notin local
  /\ ~link
  /\ parent' = [parent EXCEPT !["client"] = "failed"]
  /\ UNCHANGED <<ends, sockets, streams, link, owner, local, turn, pc, held, timer, idle, stop>>

ListenerStops ==
  /\ parent["client"] = "listen"
  /\ stop["client"]
  /\ parent' = [parent EXCEPT !["client"] = "left"]
  /\ UNCHANGED <<ends, sockets, streams, link, owner, local, turn, pc, held, timer, idle, stop>>

\* A stream is known to the host once a frame of it, or of a later one, has
\* been sent.
Known(n) ==
  \E m \in n..MaxSessions :
    data[<<m, "up">>] # <<>> \/ fin[<<m, "up">>] \/ dropped[<<m, "down">>]

\* One virtual socket serves all sessions.
HostAccepts_OneSocket ==
  /\ parent["host"] = "listen"
  /\ turn["host"] < turn["client"]
  /\ Known(turn["host"] + 1)
  /\ Begin("host")
  /\ UNCHANGED <<ends, sockets, streams, link, owner, local, held, timer, stop>>

\* handle_connection takes up the next stream, with a virtual socket of its
\* own for it.
HostAccepts ==
  /\ parent["host"] = "listen"
  /\ turn["host"] < turn["client"]
  /\ Known(turn["host"] + 1)
  /\ Begin("host")
  /\ wire' = <<>>
  /\ refused' = FALSE
  /\ UNCHANGED <<ends, sock, streams, link, owner, local, held, timer, stop>>

\* accept_bi or receive_packet fails on a lost connection.
HostAcceptFails ==
  /\ parent["host"] = "listen"
  /\ ~link
  /\ parent' = [parent EXCEPT !["host"] = "failed"]
  /\ UNCHANGED <<ends, sockets, streams, link, owner, local, turn, pc, held, timer, idle, stop>>

\* try_join!: both tasks have ended; the client's entry is removed and the
\* loop goes on to the next session.
JoinReturns(s) ==
  /\ parent[s] = "forward"
  /\ \A t \in TasksOf[s] : pc[t] \in Ended
  /\ parent' = [parent EXCEPT ![s] = "listen"]
  /\ local' = IF s = "client" THEN local \ {owner[turn[s]]} ELSE local
  /\ UNCHANGED <<ends, sockets, streams, link, owner, turn, pc, held, timer, idle, stop>>

-----------------------------------------------------------------------------
(* The loop of a forwarding task.                                          *)

Own(t) == <<turn[Place(t)], Way(t)>>
Unread(c) == SubSeq(data[c], rd[c] + 1, Len(data[c]))
Theirs == sock # <<>> /\ Head(sock).from # owner[turn["client"]]

\* The bytes of a datagram that fit the buffer.
Min2(a, b) == IF a < b THEN a ELSE b
Contents(d) ==
  [i \in 1..Min2(d.size, BufferSize) |-> [from |-> d.from, n |-> d.n, i |-> i]]

\* The second arm of the select is ready.
Ready(t) ==
  CASE t \in Readers               -> Unread(Own(t)) # <<>> \/ fin[Own(t)]
    [] t = "client_udp_to_tunnel" -> sock # <<>>
    [] t = "host_udp_to_tunnel"   -> wire # <<>> \/ refused

\* Broken loops the runs have to tell from the real ones.
LoopTop_Adds(t) ==
  /\ pc[t] = "top"
  /\ pc' = [pc EXCEPT ![t] = "select"]
  /\ timer' = [timer EXCEPT ![t] = Timeout + idle[Place(t)]]
  /\ UNCHANGED <<ends, sockets, streams, link, loops, held, idle, stop>>

LoopTop_Full(t) ==
  /\ pc[t] = "top"
  /\ pc' = [pc EXCEPT ![t] = "select"]
  /\ timer' = [timer EXCEPT ![t] = Timeout]
  /\ UNCHANGED <<ends, sockets, streams, link, loops, held, idle, stop>>

LoopTop_Stamps(t) ==
  /\ pc[t] = "top"
  /\ pc' = [pc EXCEPT ![t] = "select"]
  /\ timer' = [timer EXCEPT ![t] = Timeout]
  /\ idle' = [idle EXCEPT ![Place(t)] = 0]
  /\ UNCHANGED <<ends, sockets, streams, link, loops, held, stop>>

\* The timeout of this round is what is left since last_active.
LoopTop(t) ==
  /\ pc[t] = "top"
  /\ pc' = [pc EXCEPT ![t] = "select"]
  /\ timer' = [timer EXCEPT ![t] = Timeout - idle[Place(t)]]
  /\ UNCHANGED <<ends, sockets, streams, link, loops, held, idle, stop>>

\* The stream is let go in both directions by the first task to end.
Break_Both(t, why) ==
  /\ pc' = [pc EXCEPT ![t] = why]
  /\ timer' = [timer EXCEPT ![t] = 0]
  /\ fin' = [fin EXCEPT ![Own(t)] = @ \/ (t \in Writers /\ link)]
  /\ dropped' = [c \in Stream |-> dropped[c] \/ (c[1] = turn[Place(t)] /\ link
                    /\ c[2] # (IF Place(t) = "client" THEN "up" ELSE "down"))]

\* The task ends and drops its half of the stream: a writer closes it behind
\* what it wrote, a reader asks the peer to stop.
Break(t, why) ==
  /\ pc' = [pc EXCEPT ![t] = why]
  /\ timer' = [timer EXCEPT ![t] = 0]
  /\ fin' = [fin EXCEPT ![Own(t)] = @ \/ (t \in Writers /\ link)]
  /\ dropped' = [dropped EXCEPT ![Own(t)] = @ \/ (t \in Readers /\ link)]

\* The two tasks share one receiver, and the first to see the change takes it.
StopArm_Shared(t) ==
  /\ pc[t] \in Waiting
  /\ stop[Place(t)]
  /\ \A u \in TasksOf[Place(t)] : pc[u] # "stopped"
  /\ Break(t, "stopped")
  /\ UNCHANGED <<ends, sockets, data, rd, link, loops, held, idle, stop>>

\* First arm of the biased select.
StopArm(t) ==
  /\ pc[t] \in Waiting
  /\ stop[Place(t)]
  /\ Break(t, "stopped")
  /\ UNCHANGED <<ends, sockets, data, rd, link, loops, held, idle, stop>>

\* Third arm.  Being last of a biased select, it is not polled while the
\* second is ready.
SleepArm(t) ==
  /\ pc[t] \in Waiting
  /\ ~stop[Place(t)]
  /\ timer[t] = 0
  /\ pc[t] = "select" => ~Ready(t)
  /\ \/ /\ idle[Place(t)] >= Timeout
        /\ Break(t, "timedout")
     \/ /\ idle[Place(t)] < Timeout
        /\ pc' = [pc EXCEPT ![t] = "top"]
        /\ UNCHANGED <<fin, dropped, timer>>
  /\ UNCHANGED <<ends, sockets, data, rd, link, loops, held, idle, stop>>

\* Second arm, a reader: None, the stream was closed.
EofArm(t) ==
  /\ t \in Readers
  /\ pc[t] = "select"
  /\ ~stop[Place(t)]
  /\ Unread(Own(t)) = <<>>
  /\ fin[Own(t)]
  /\ Break(t, "eof")
  /\ UNCHANGED <<ends, sockets, data, rd, link, loops, held, idle, stop>>

\* Second arm: an error does not match Ok(n), so this select goes on without
\* the arm.  A lost connection keeps failing; the error of a socket is taken.
ReadFails(t) ==
  /\ pc[t] = "select"
  /\ ~stop[Place(t)]
  /\ \/ t \in Readers /\ ~link /\ ~Ready(t) /\ UNCHANGED refused
     \/ t = "host_udp_to_tunnel" /\ refused /\ refused' = FALSE
  /\ pc' = [pc EXCEPT ![t] = "deaf"]
  /\ UNCHANGED <<ends, sock, wire, streams, link, loops, held, timer, idle, stop>>

\* A panic ends the process: its tasks, its sockets, and in time, for the
\* peer, the connection.
Abort(t) ==
  /\ pc' = [u \in Task |->
              IF u = t THEN "panicked"
              ELSE IF u \in TasksOf[Place(t)] /\ pc[u] \in Active THEN "killed" ELSE pc[u]]
  /\ timer' = [u \in Task |-> IF u \in TasksOf[Place(t)] THEN 0 ELSE timer[u]]
  /\ parent' = [parent EXCEPT ![Place(t)] = "aborted"]
  /\ UNCHANGED <<owner, local, turn>>

-----------------------------------------------------------------------------
(* Second arm, a writer: a datagram is taken from the socket.              *)

\* A datagram of no bytes is taken for the end of the stream; another is
\* stamped in last_active before it is written.
Take(t, d) ==
  IF d.size = 0
  THEN Break(t, "eof") /\ UNCHANGED <<held, idle>>
  ELSE /\ pc' = [pc EXCEPT ![t] = "write"]
       /\ held' = [held EXCEPT ![t] = Contents(d)]
       /\ timer' = [timer EXCEPT ![t] = 0]
       /\ idle' = [idle EXCEPT ![Place(t)] = 0]
       /\ UNCHANGED <<fin, dropped>>

\* What was peeked at is forwarded and left where it is, or the address is
\* not compared.
ClientTakes_Peeks ==
  LET t == "client_udp_to_tunnel" IN
  /\ pc[t] = "select"
  /\ ~stop["client"]
  /\ sock # <<>> /\ ~Theirs
  /\ Take(t, Head(sock))
  /\ UNCHANGED <<ends, sockets, data, rd, link, loops, stop>>

ClientTakes_Any ==
  LET t == "client_udp_to_tunnel" IN
  /\ pc[t] = "select"
  /\ ~stop["client"]
  /\ sock # <<>>
  /\ Take(t, Head(sock))
  /\ sock' = Tail(sock)
  /\ UNCHANGED <<ends, wire, refused, data, rd, link, loops, stop>>

\* peek_from shows a datagram of the session's application, recv takes it.
ClientTakes ==
  LET t == "client_udp_to_tunnel" IN
  /\ pc[t] = "select"
  /\ ~stop["client"]
  /\ sock # <<>> /\ ~Theirs
  /\ Take(t, Head(sock))
  /\ sock' = Tail(sock)
  /\ UNCHANGED <<ends, wire, refused, data, rd, link, loops, stop>>

\* peek_from shows a datagram of another application: it stays, and the loop
\* starts over.
ClientSkips ==
  LET t == "client_udp_to_tunnel" IN
  /\ pc[t] = "select"
  /\ ~stop["client"]
  /\ Theirs
  /\ pc' = [pc EXCEPT ![t] = "top"]
  /\ timer' = [timer EXCEPT ![t] = 0]
  /\ UNCHANGED <<ends, sockets, streams, link, loops, held, idle, stop>>

HostTakes ==
  LET t == "host_udp_to_tunnel" IN
  /\ pc[t] = "select"
  /\ ~stop["host"]
  /\ wire # <<>> /\ ~refused
  /\ Take(t, Head(wire))
  /\ wire' = Tail(wire)
  /\ UNCHANGED <<ends, sock, refused, data, rd, link, loops, stop>>

\* write_all, once there is room for what is held.
WriteOut(t) ==
  /\ pc[t] = "write"
  /\ link /\ ~dropped[Own(t)]
  /\ Len(Unread(Own(t))) + Len(held[t]) <= Window
  /\ data' = [data EXCEPT ![Own(t)] = @ \o held[t]]
  /\ held' = [held EXCEPT ![t] = <<>>]
  /\ pc' = [pc EXCEPT ![t] = "top"]
  /\ UNCHANGED <<ends, sockets, rd, fin, dropped, link, loops, timer, idle, stop>>

\* write_all(..).await.unwrap() on a stream that is lost or no longer read.
WritePanics(t) ==
  /\ pc[t] = "write"
  /\ ~link \/ dropped[Own(t)]
  /\ Abort(t)
  /\ UNCHANGED <<ends, sockets, streams, link, held, idle, stop>>

-----------------------------------------------------------------------------
(* Second arm, a reader: bytes of the stream become a datagram.            *)

\* Up to a buffer of what has arrived is read and last_active is stamped.
Chunk(t, n) == SubSeq(data[Own(t)], rd[Own(t)] + 1, rd[Own(t)] + n)

Reads(t, n) ==
  /\ pc[t] = "select"
  /\ ~stop[Place(t)]
  /\ n <= Len(Unread(Own(t)))
  /\ rd' = [rd EXCEPT ![Own(t)] = @ + n]
  /\ idle' = [idle EXCEPT ![Place(t)] = 0]

Again(t) ==
  /\ pc' = [pc EXCEPT ![t] = "top"]
  /\ timer' = [timer EXCEPT ![t] = 0]

\* send_to the session's application.
ClientDelivers ==
  \E n \in 1..BufferSize :
    LET t == "client_tunnel_to_udp"
        a == owner[turn["client"]]
    IN /\ Reads(t, n)
       /\ got' = [got EXCEPT ![a] = @ \o Chunk(t, n)]
       /\ Again(t)
       /\ UNCHANGED <<sent, replies, seen, service, sockets, data, fin, dropped,
                      link, loops, held, stop>>

\* send on the connected socket; if the service does not listen the datagram
\* is lost, and an error comes back to the socket.
HostDelivers ==
  \E n \in 1..BufferSize :
    LET t == "host_tunnel_to_udp" IN
    /\ Reads(t, n)
    /\ ~refused
    /\ refused' = ~service
    /\ seen' = [seen EXCEPT ![turn["host"]] = IF service THEN @ \o Chunk(t, n) ELSE @]
    /\ Again(t)
    /\ UNCHANGED <<sent, replies, got, service, sock, wire, data, fin, dropped,
                   link, loops, held, stop>>

\* send(..).await.unwrap() meets the error of an earlier datagram.
HostSendPanics ==
  \E n \in 1..BufferSize :
    LET t == "host_tunnel_to_udp" IN
    /\ Reads(t, n)
    /\ refused
    /\ refused' = FALSE
    /\ held' = [held EXCEPT ![t] = Chunk(t, n)]
    /\ Abort(t)
    /\ UNCHANGED <<ends, sock, wire, data, fin, dropped, link, stop>>

TaskStep(t) ==
  \/ LoopTop(t) \/ StopArm(t) \/ SleepArm(t) \/ EofArm(t) \/ ReadFails(t)
  \/ WriteOut(t) \/ WritePanics(t)

ClientUdpToTunnel == TaskStep("client_udp_to_tunnel") \/ ClientTakes \/ ClientSkips
ClientTunnelToUdp == TaskStep("client_tunnel_to_udp") \/ ClientDelivers
HostTunnelToUdp == TaskStep("host_tunnel_to_udp") \/ HostDelivers \/ HostSendPanics
HostUdpToTunnel == TaskStep("host_udp_to_tunnel") \/ HostTakes

-----------------------------------------------------------------------------
(* The owners of the tunnels, the network, time, and the two ends.         *)

\* HostTunnel::stop and ClientTunnel::disconnect, first half.
SendStop(s) ==
  /\ (IF s = "host" THEN "stop" ELSE "disconnect") \in Hazards
  /\ ~stop[s]
  /\ parent[s] # "aborted"
  /\ stop' = [stop EXCEPT ![s] = TRUE]
  /\ UNCHANGED <<ends, sockets, streams, link, loops, pc, held, timer, idle>>

\* The connection ends.  What has reached a reader can still be read; the
\* rest, and the close behind it, is lost.
LoseLink ==
  /\ link
  /\ link' = FALSE
  /\ \E kept \in [Stream -> 0..Window] :
       /\ \A c \in Stream : kept[c] <= Len(Unread(c))
       /\ data' = [c \in Stream |-> SubSeq(data[c], 1, rd[c] + kept[c])]
  /\ \E closed \in SUBSET {c \in Stream : fin[c] /\ data'[c] = data[c]} :
       fin' = [c \in Stream |-> c \in closed]
  /\ UNCHANGED <<ends, sockets, rd, dropped, loops, pc, held, timer, idle, stop>>

\* stop and disconnect close the connection; it fails; a dead peer is noticed.
CloseLink(s) == stop[s] /\ parent[s] # "aborted" /\ LoseLink
NetworkFails == "loss" \in Hazards /\ LoseLink
PeerTimesOut == (\E s \in Side : parent[s] = "aborted") /\ LoseLink

Tick ==
  /\ "idle" \in Hazards
  /\ idle' = [s \in Side |-> IF parent[s] = "forward" /\ idle[s] < Timeout
                             THEN idle[s] + 1 ELSE idle[s]]
  /\ timer' = [t \in Task |-> IF pc[t] \in Waiting /\ timer[t] > 0
                              THEN timer[t] - 1 ELSE timer[t]]
  /\ UNCHANGED <<ends, sockets, streams, link, loops, pc, held, stop>>

\* A socket that is full drops what comes.
Arrive(queue, d) == IF Len(queue) < Room THEN Append(queue, d) ELSE queue

AppSends(a) ==
  /\ parent["client"] \in {"listen", "forward"}
  /\ sent[a] < MaxSends[a]
  /\ sent' = [sent EXCEPT ![a] = @ + 1]
  /\ \E size \in Sizes :
       sock' = Arrive(sock, [from |-> a, n |-> sent[a] + 1, size |-> size])
  /\ UNCHANGED <<replies, seen, got, service, wire, refused, streams, link, loops,
                 pc, held, timer, idle, stop>>

\* The service replies to a session it has heard of.
ServiceReplies ==
  /\ service
  /\ parent["host"] = "forward"
  /\ seen[turn["host"]] # <<>>
  /\ replies < MaxReplies
  /\ replies' = replies + 1
  /\ \E size \in Sizes :
       wire' = Arrive(wire, [from |-> turn["host"], n |-> replies + 1, size |-> size])
  /\ UNCHANGED <<sent, seen, got, service, sock, refused, streams, link, loops,
                 pc, held, timer, idle, stop>>

ServiceChanges ==
  /\ "service_down" \in Hazards
  /\ service' = ~service
  /\ UNCHANGED <<sent, replies, seen, got, sockets, streams, link, loops,
                 pc, held, timer, idle, stop>>

-----------------------------------------------------------------------------
Listener == ListenerOpens \/ ListenerFails \/ ListenerStops
Handler  == HostAccepts \/ HostAcceptFails

Next ==
  \/ Listener \/ Handler
  \/ ClientUdpToTunnel \/ ClientTunnelToUdp \/ HostTunnelToUdp \/ HostUdpToTunnel
  \/ \E s \in Side : JoinReturns(s) \/ SendStop(s) \/ CloseLink(s)
  \/ NetworkFails \/ PeerTimesOut \/ Tick
  \/ ServiceReplies \/ ServiceChanges
  \/ \E a \in App : AppSends(a)

Spec == Init /\ [][Next]_vars

\* The runtime polls every loop that can go on, a stop is carried through, a
\* lost peer is noticed, and time passes.  Nobody has to send or to stop.
FairSpec ==
  /\ Spec
  /\ WF_vars(Listener) /\ WF_vars(Handler)
  /\ WF_vars(ClientUdpToTunnel) /\ WF_vars(ClientTunnelToUdp)
  /\ WF_vars(HostTunnelToUdp) /\ WF_vars(HostUdpToTunnel)
  /\ \A s \in Side : WF_vars(JoinReturns(s)) /\ WF_vars(CloseLink(s))
  /\ WF_vars(PeerTimesOut) /\ WF_vars(Tick)

-----------------------------------------------------------------------------
(* Safety.                                                                 *)

\* Every byte goes where it belongs, although all applications share a socket
\* and sessions follow each other on both sides: the service sees in a
\* session only bytes of the application it was opened for, and an
\* application only replies to its own sessions (the comparison of the peeked
\* address, client_local_addr, and the serial loops of both sides).
RightAddress ==
  /\ \A n \in Session : \A i \in DOMAIN seen[n] :
       n <= Len(owner) /\ seen[n][i].from = owner[n]
  /\ \A a \in App : \A i \in DOMAIN got[a] : owner[got[a][i].from] = a

\* No byte is made up, shown twice or out of order, nor taken back, even where
\* one session of an application follows another: what the listener peeks at
\* to open a session is taken once, by its forwarder (peek_from and recv of
\* client.rs and udp.rs; the reads and sends of both readers).
P == INSTANCE Post
ImplementsPost == P!Spec

\* No task sleeps past the moment its session has been idle for Timeout, the
\* stamp being moved by its sibling (the timeout at the top of each loop).
NoOversleep ==
  \A t \in Task : pc[t] \in Waiting => timer[t] + idle[Place(t)] <= Timeout

\* A write panics only if the connection is lost or the peer's task has given
\* the session up by a stop or a timeout, a send only if the service has
\* missed a datagram: a session that its ends leave alone does not bring the
\* process down, and no error of one session breaks into the next (the unwraps
\* of udp.rs; each session's virtual socket, host.rs:333).
PanicHasCause ==
  \A t \in Task : pc[t] = "panicked" =>
    \/ t \in Writers /\ ~link
    \/ t \in Writers /\ \E u \in Readers :
         /\ Way(u) = Way(t)
         /\ \/ turn[Place(u)] > turn[Place(t)]
            \/ Own(u) = Own(t) /\ pc[u] \in {"stopped", "timedout"}
    \/ t = "host_tunnel_to_udp" /\ Len(seen[turn["host"]]) + Len(held[t]) < rd[Own(t)]

-----------------------------------------------------------------------------
(* Liveness.                                                               *)

Running(s) == parent[s] = "forward"

\* A client tunnel that is disconnected ends its forwarder, also one that a
\* datagram of another application keeps from its sleep (client.rs:337,
\* "Terminates all connections").  The host's forwarder ends anyway (Reaped).
DisconnectEnds == stop["client"] ~> ~Running("client")

\* A session that falls silent is let go of by both sides.  The client's may
\* be held up by a datagram of another application, which keeps the peek, the
\* earlier arm of the biased select, ready for ever (udp.rs:249-252).
Reaped ==
  /\ Running("client") ~> ~Running("client") \/ Theirs
  /\ Running("host") ~> ~Running("host")

\* A datagram the forwarder leaves alone because of its address is read by
\* somebody else ("the thread corresponding to the unknown IP will read the
\* data", udp.rs:255-256, where the loop gives up on a failed recv).
OthersRead == Running("client") /\ Theirs ~> ~(Running("client") /\ Theirs)
=============================================================================
