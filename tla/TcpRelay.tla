------------------------------ MODULE TcpRelay ------------------------------
(***************************************************************************)
(* One relayed TCP connection, end to end: an application connected to the *)
(* client tunnel, the two forwarders of lantun-core/src/net/tcp.rs         *)
(* (bi_tcp_stream_client on the client, bi_tcp_stream_host on the host),   *)
(* the QUIC bidirectional stream between them, and the service behind the  *)
(* host tunnel.                                                            *)
(*                                                                         *)
(*             client side                        host side                *)
(*   app --from_app--> tcp_to_tunnel --up--> tunnel_to_tcp --to_service--> *)
(*   app <--to_app--- tunnel_to_tcp <--down-- tcp_to_tunnel <-from_service-*)
(*                                                                         *)
(* Each side runs two spawned tasks that share the side's last_active      *)
(* stamp, and a parent that joins them.  The four task loops are the same  *)
(* code up to the halves they own, so one set of actions, parameterised by *)
(* the task, models all four.                                              *)
(*                                                                         *)
(* A hop is one of the six byte streams of the picture.  The i-th byte an  *)
(* end sends is the number i, so that any loss, duplication or reordering  *)
(* inside the relay shows in the value of a byte.                          *)
(***************************************************************************)
EXTENDS Naturals, SequencesExt

CONSTANTS
  Timeout,     \* CONNECTION_TIMEOUT_SECONDS, in ticks
  BufferSize,  \* TUNNEL_FORWARDER_BUFFER_SIZE: most bytes one read returns
  Window,      \* bytes a hop holds before a write has to wait
  MaxBytes,    \* bound: bytes each end sends, a function of the end
  Hazards,     \* what the environment may do, a subset of HazardKinds
  PanicAborts  \* panic = "abort" (the release profile) or unwinding

HazardKinds == {"idle", "vanish", "loss", "stop", "refuse"}

ASSUME RelayAssumption ==
  /\ Timeout \in Nat \ {0}
  /\ BufferSize \in Nat \ {0}
  /\ Window \in Nat \ {0}
  /\ MaxBytes \in [{"app", "service"} -> Nat]
  /\ Hazards \subseteq HazardKinds
  /\ PanicAborts \in BOOLEAN

Side == {"client", "host"}
End  == {"app", "service"}
Tunnel == {"up", "down"}
Hop  == {"from_app", "up", "to_service", "from_service", "down", "to_app"}
Task == {"client_tcp_to_tunnel", "host_tunnel_to_tcp",
         "host_tcp_to_tunnel", "client_tunnel_to_tcp"}

\* The half a task reads, the half it writes, and the side it runs on.
Src == [client_tcp_to_tunnel |-> "from_app", host_tunnel_to_tcp |-> "up",
        host_tcp_to_tunnel |-> "from_service", client_tunnel_to_tcp |-> "down"]
Dst == [client_tcp_to_tunnel |-> "up", host_tunnel_to_tcp |-> "to_service",
        host_tcp_to_tunnel |-> "down", client_tunnel_to_tcp |-> "to_app"]
Place == [client_tcp_to_tunnel |-> "client", host_tunnel_to_tcp |-> "host",
          host_tcp_to_tunnel |-> "host", client_tunnel_to_tcp |-> "client"]

\* The sockets of the two ends.
SendsOn    == [app |-> "from_app", service |-> "from_service"]
ReceivesOn == [app |-> "to_app", service |-> "to_service"]

TasksOf(s) == {t \in Task : Place[t] = s}

VARIABLES
  data,     \* hop -> every byte put on it so far
  rd,       \* hop -> how many of them its reader has taken
  fin,      \* hop -> its writer has closed it, after the last byte
  dropped,  \* hop -> its reader is gone
  link,     \* the QUIC connection is up
  pc,       \* task -> where its loop is, or why it ended
  held,     \* task -> bytes read and not yet written
  timer,    \* task -> ticks left of the sleep it waits on
  idle,     \* side -> ticks since last_active, up to Timeout
  stop,     \* side -> the tunnel's owner has sent true on stop_tx
  session   \* side -> the parent of the two tasks

hops  == <<data, rd, fin, dropped>>
tasks == <<pc, held, timer>>
sides == <<idle, stop, session>>
vars  == <<hops, link, tasks, sides>>

Waiting == {"select", "deaf"}
Active  == {"top", "write"} \cup Waiting
Ended   == {"eof", "stopped", "timedout", "panicked", "killed"}

TypeOK ==
  /\ data \in [Hop -> Seq(Nat)]
  /\ rd \in [Hop -> Nat]
  /\ fin \in [Hop -> BOOLEAN]
  /\ dropped \in [Hop -> BOOLEAN]
  /\ link \in BOOLEAN
  /\ pc \in [Task -> Active \cup Ended \cup {"unborn"}]
  /\ held \in [Task -> Seq(Nat)]
  /\ timer \in [Task -> 0..Timeout]
  /\ idle \in [Side -> 0..Timeout]
  /\ stop \in [Side -> BOOLEAN]
  /\ session \in [Side -> {"waiting", "joining", "left", "failed", "aborted"}]

\* The client's forwarder runs as soon as its application is accepted; the
\* host's is created when the stream reaches it.
Init ==
  /\ data = [h \in Hop |-> <<>>]
  /\ rd = [h \in Hop |-> 0]
  /\ fin = [h \in Hop |-> FALSE]
  /\ dropped = [h \in Hop |-> FALSE]
  /\ link = TRUE
  /\ pc = [t \in Task |-> IF Place[t] = "client" THEN "top" ELSE "unborn"]
  /\ held = [t \in Task |-> <<>>]
  /\ timer = [t \in Task |-> 0]
  /\ idle = [s \in Side |-> 0]
  /\ stop = [s \in Side |-> FALSE]
  /\ session = [s \in Side |-> IF s = "client" THEN "joining" ELSE "waiting"]

-----------------------------------------------------------------------------
(* Hops.                                                                   *)

Available(h) == Len(data[h]) - rd[h]
Drained(h) == rd[h] = Len(data[h])
AtEof_Early(h) == fin[h]      \* does not empty the hop first
AtEof_Empty(h) == Drained(h)  \* takes a pause for the end
AtEof(h) == fin[h] /\ Drained(h)

\* A close or a stop request travels on a QUIC stream only while the
\* connection is up; a socket always carries it.
Carries(h) == h \in Tunnel => link

\* Reading a hop that is out of bytes fails: the connection is lost, or the
\* end whose socket it is has gone.
Broken(h) ==
  CASE h \in Tunnel        -> ~link
    [] h = "from_app"      -> dropped["to_app"]
    [] h = "from_service"  -> dropped["to_service"]
    [] OTHER               -> FALSE

\* Writing to a hop fails once the reader is gone or the connection is lost.
Refused(h) == dropped[h] \/ ~Carries(h)

-----------------------------------------------------------------------------
(* The loop of a forwarding task.                                          *)

\* Broken loops the runs have to tell from the real ones: the elapsed time is
\* added, or left out, or the stamp is taken on every round.
LoopTop_Adds(t) ==
  /\ pc[t] = "top"
  /\ pc' = [pc EXCEPT ![t] = "select"]
  /\ timer' = [timer EXCEPT ![t] = Timeout + idle[Place[t]]]
  /\ UNCHANGED <<hops, link, held, sides>>

LoopTop_Full(t) ==
  /\ pc[t] = "top"
  /\ pc' = [pc EXCEPT ![t] = "select"]
  /\ timer' = [timer EXCEPT ![t] = Timeout]
  /\ UNCHANGED <<hops, link, held, sides>>

LoopTop_Stamps(t) ==
  /\ pc[t] = "top"
  /\ pc' = [pc EXCEPT ![t] = "select"]
  /\ timer' = [timer EXCEPT ![t] = Timeout]
  /\ idle' = [idle EXCEPT ![Place[t]] = 0]
  /\ UNCHANGED <<hops, link, held, stop, session>>

\* The top of the loop: the timeout of this round is what is left of
\* CONNECTION_TIMEOUT_SECONDS since last_active.
LoopTop(t) ==
  /\ pc[t] = "top"
  /\ pc' = [pc EXCEPT ![t] = "select"]
  /\ timer' = [timer EXCEPT ![t] = Timeout - idle[Place[t]]]
  /\ UNCHANGED <<hops, link, held, sides>>

\* The whole tunnel stream is let go with the task, or nothing is closed.
Break_Both(t, why) ==
  /\ pc' = [pc EXCEPT ![t] = why]
  /\ timer' = [timer EXCEPT ![t] = 0]
  /\ dropped' = [h \in Hop |-> dropped[h] \/ h \in {Src[u] : u \in TasksOf(Place[t])}]
  /\ fin' = [fin EXCEPT ![Dst[t]] = @ \/ Carries(Dst[t])]

Break_Open(t, why) ==
  /\ pc' = [pc EXCEPT ![t] = why]
  /\ timer' = [timer EXCEPT ![t] = 0]
  /\ dropped' = [dropped EXCEPT ![Src[t]] = @ \/ Carries(Src[t])]
  /\ UNCHANGED fin

\* The task ends and drops its two halves: the read half asks the peer to
\* stop sending, the write half closes the stream or socket it feeds.
Break(t, why) ==
  /\ pc' = [pc EXCEPT ![t] = why]
  /\ timer' = [timer EXCEPT ![t] = 0]
  /\ dropped' = [dropped EXCEPT ![Src[t]] = @ \/ Carries(Src[t])]
  /\ fin' = [fin EXCEPT ![Dst[t]] = @ \/ Carries(Dst[t])]

\* The tasks share one receiver, and the first to see the change takes it.
StopArm_Shared(t) ==
  /\ pc[t] \in Waiting
  /\ stop[Place[t]]
  /\ \A u \in TasksOf(Place[t]) : pc[u] # "stopped"
  /\ Break(t, "stopped")
  /\ UNCHANGED <<data, rd, link, held, sides>>

\* First arm of the biased select.
StopArm(t) ==
  /\ pc[t] \in Waiting
  /\ stop[Place[t]]
  /\ Break(t, "stopped")
  /\ UNCHANGED <<data, rd, link, held, sides>>

\* The whole buffer is written, not the n bytes read into it.
ReadArm_Whole(t) ==
  /\ pc[t] = "select"
  /\ ~stop[Place[t]]
  /\ \E n \in 1..BufferSize :
       /\ n <= Available(Src[t])
       /\ held' = [held EXCEPT ![t] =
                     SubSeq(data[Src[t]], rd[Src[t]] + 1, rd[Src[t]] + n)
                       \o [i \in 1..(BufferSize - n) |-> 0]]
       /\ rd' = [rd EXCEPT ![Src[t]] = @ + n]
  /\ idle' = [idle EXCEPT ![Place[t]] = 0]
  /\ pc' = [pc EXCEPT ![t] = "write"]
  /\ timer' = [timer EXCEPT ![t] = 0]
  /\ UNCHANGED <<data, fin, dropped, link, stop, session>>

\* Second arm: bytes were read; last_active is stamped before they are
\* written.
ReadArm(t) ==
  /\ pc[t] = "select"
  /\ ~stop[Place[t]]
  /\ \E n \in 1..BufferSize :
       /\ n <= Available(Src[t])
       /\ held' = [held EXCEPT ![t] =
                     SubSeq(data[Src[t]], rd[Src[t]] + 1, rd[Src[t]] + n)]
       /\ rd' = [rd EXCEPT ![Src[t]] = @ + n]
  /\ idle' = [idle EXCEPT ![Place[t]] = 0]
  /\ pc' = [pc EXCEPT ![t] = "write"]
  /\ timer' = [timer EXCEPT ![t] = 0]
  /\ UNCHANGED <<data, fin, dropped, link, stop, session>>

\* An error is taken for the end of the stream.
EofArm_Errors(t) ==
  /\ pc[t] = "select"
  /\ ~stop[Place[t]]
  /\ AtEof(Src[t]) \/ (Drained(Src[t]) /\ Broken(Src[t]))
  /\ Break(t, "eof")
  /\ UNCHANGED <<data, rd, link, held, sides>>

\* Second arm: None or a read of zero bytes.
EofArm(t) ==
  /\ pc[t] = "select"
  /\ ~stop[Place[t]]
  /\ AtEof(Src[t])
  /\ Break(t, "eof")
  /\ UNCHANGED <<data, rd, link, held, sides>>

\* Second arm: an error does not match Ok(n), so this select goes on without
\* the arm.
ReadError(t) ==
  /\ pc[t] = "select"
  /\ ~stop[Place[t]]
  /\ Drained(Src[t])
  /\ Broken(Src[t])
  /\ pc' = [pc EXCEPT ![t] = "deaf"]
  /\ UNCHANGED <<hops, link, held, timer, sides>>

\* Third arm: the sleep is over and the stamp is read again.
SleepArm(t) ==
  /\ pc[t] \in Waiting
  /\ ~stop[Place[t]]
  /\ timer[t] = 0
  /\ pc[t] = "select" => Drained(Src[t]) /\ ~fin[Src[t]]
  /\ \/ /\ idle[Place[t]] >= Timeout
        /\ Break(t, "timedout")
     \/ /\ idle[Place[t]] < Timeout
        /\ pc' = [pc EXCEPT ![t] = "top"]
        /\ UNCHANGED <<fin, dropped, timer>>
  /\ UNCHANGED <<data, rd, link, held, sides>>

\* write in place of write_all, and a write repeated from its start.
WriteByte_NotAll(t) ==
  /\ pc[t] = "write"
  /\ Carries(Dst[t])
  /\ Available(Dst[t]) < Window
  /\ data' = [data EXCEPT ![Dst[t]] = Append(@, Head(held[t]))]
  /\ held' = [held EXCEPT ![t] = <<>>]
  /\ pc' = [pc EXCEPT ![t] = "top"]
  /\ UNCHANGED <<rd, fin, dropped, link, timer, sides>>

WriteByte_Again(t) ==
  /\ pc[t] = "write"
  /\ Carries(Dst[t])
  /\ Available(Dst[t]) < Window
  /\ data' = [data EXCEPT ![Dst[t]] = Append(@, Head(held[t]))]
  /\ \E done \in BOOLEAN :
       /\ held' = [held EXCEPT ![t] = IF done THEN <<>> ELSE @]
       /\ pc' = [pc EXCEPT ![t] = IF done THEN "top" ELSE "write"]
  /\ UNCHANGED <<rd, fin, dropped, link, timer, sides>>

\* write_all, one byte at a time: it waits for room, and no arm of the
\* select is polled meanwhile.
WriteByte(t) ==
  /\ pc[t] = "write"
  /\ Carries(Dst[t])
  /\ Available(Dst[t]) < Window
  /\ data' = [data EXCEPT ![Dst[t]] = Append(@, Head(held[t]))]
  /\ held' = [held EXCEPT ![t] = Tail(@)]
  /\ pc' = [pc EXCEPT ![t] = IF Len(held[t]) = 1 THEN "top" ELSE "write"]
  /\ UNCHANGED <<rd, fin, dropped, link, timer, sides>>

\* A panic that unwinds ends the task, which drops its halves; one that
\* aborts takes the process, and the system closes its sockets.
Abort(t) ==
  /\ pc' = [u \in Task |-> IF u = t THEN "panicked"
                           ELSE IF Place[u] = Place[t] /\ pc[u] \in Active
                           THEN "killed" ELSE pc[u]]
  /\ session' = [session EXCEPT ![Place[t]] = "aborted"]
  /\ fin' = [h \in Hop |-> fin[h] \/ h \in {Dst[u] : u \in TasksOf(Place[t])} \ Tunnel]
  /\ timer' = [u \in Task |-> IF Place[u] = Place[t] THEN 0 ELSE timer[u]]
  /\ UNCHANGED dropped

\* write_all(..).await.unwrap() on a write that fails.
WritePanics(t) ==
  /\ pc[t] = "write"
  /\ Refused(Dst[t])
  /\ IF PanicAborts THEN Abort(t)
                    ELSE Break(t, "panicked") /\ UNCHANGED session
  /\ UNCHANGED <<data, rd, link, held, idle, stop>>

TaskStep(t) ==
  \/ LoopTop(t) \/ StopArm(t) \/ ReadArm(t) \/ EofArm(t)
  \/ ReadError(t) \/ SleepArm(t) \/ WriteByte(t) \/ WritePanics(t)

-----------------------------------------------------------------------------
(* The parents of the tasks and the tunnels' owners.                       *)

\* try_join!: both tasks returned, or one of them panicked; the entry in
\* local_connections is removed and the forwarder returns.
JoinReturns(s) ==
  /\ session[s] = "joining"
  /\ \/ \A t \in TasksOf(s) : pc[t] \in Ended
     \/ \E t \in TasksOf(s) : pc[t] = "panicked"
  /\ session' = [session EXCEPT ![s] = "left"]
  /\ UNCHANGED <<hops, link, tasks, idle, stop>>

\* A bidirectional stream is made known to the peer by the first frame on
\* it: a byte, a close, or a request to stop sending.
Visible == data["up"] # <<>> \/ fin["up"] \/ dropped["down"]

\* handle_connection: the stream is accepted and the service connected, then
\* last_active is stamped and the two tasks are spawned.
HostAccepts ==
  /\ session["host"] = "waiting"
  /\ Visible
  /\ session' = [session EXCEPT !["host"] = "joining"]
  /\ idle' = [idle EXCEPT !["host"] = 0]
  /\ pc' = [t \in Task |-> IF Place[t] = "host" THEN "top" ELSE pc[t]]
  /\ UNCHANGED <<hops, link, held, timer, stop>>

\* The service cannot be reached: the error drops both halves of the stream.
HostRefuses ==
  /\ "refuse" \in Hazards
  /\ session["host"] = "waiting"
  /\ Visible
  /\ session' = [session EXCEPT !["host"] = "failed"]
  /\ dropped' = [dropped EXCEPT !["up"] = link]
  /\ fin' = [fin EXCEPT !["down"] = link]
  /\ UNCHANGED <<data, rd, link, tasks, idle, stop>>

\* accept_bi or receive_packet fails: the connection ended before the stream,
\* or the request that goes with it, reached the host.
HostAcceptFails ==
  /\ session["host"] = "waiting"
  /\ ~link
  /\ session' = [session EXCEPT !["host"] = "failed"]
  /\ UNCHANGED <<hops, link, tasks, idle, stop>>

\* HostTunnel::stop and ClientTunnel::disconnect, first half: the value is
\* sent to every receiver.
SendStop(s) ==
  /\ "stop" \in Hazards
  /\ ~stop[s]
  /\ session[s] # "aborted"
  /\ stop' = [stop EXCEPT ![s] = TRUE]
  /\ UNCHANGED <<hops, link, tasks, idle, session>>

\* The connection ends.  What has reached a reader can still be read; the
\* rest, and the close behind it, is lost.
Arrived(h) == {SubSeq(data[h], 1, n) : n \in rd[h]..Len(data[h])}

LoseLink ==
  /\ link
  /\ link' = FALSE
  /\ \E u \in Arrived("up"), d \in Arrived("down") :
       data' = [data EXCEPT !["up"] = u, !["down"] = d]
  /\ \E u, d \in BOOLEAN :
       /\ u => fin["up"] /\ data'["up"] = data["up"]
       /\ d => fin["down"] /\ data'["down"] = data["down"]
       /\ fin' = [fin EXCEPT !["up"] = u, !["down"] = d]
  /\ UNCHANGED <<rd, dropped, tasks, sides>>

\* Second half of stop and disconnect: the connection and endpoint close.
CloseLink(s) == stop[s] /\ session[s] # "aborted" /\ LoseLink

\* The network fails, or the process at one end is dead: the connection
\* times out.
NetworkFails == "loss" \in Hazards /\ LoseLink
PeerTimesOut == (\E s \in Side : session[s] = "aborted") /\ LoseLink

-----------------------------------------------------------------------------
(* The application and the service.                                        *)

\* The service is spoken to once the host has connected to it.
MayAct(e) == e = "service" => session["host"] \notin {"waiting", "failed"}

Send(e) ==
  /\ MayAct(e)
  /\ ~fin[SendsOn[e]]
  /\ Len(data[SendsOn[e]]) < MaxBytes[e]
  /\ data' = [data EXCEPT ![SendsOn[e]] = Append(@, Len(@) + 1)]
  /\ UNCHANGED <<rd, fin, dropped, link, tasks, sides>>

Receive(e) ==
  /\ ~dropped[ReceivesOn[e]]
  /\ Available(ReceivesOn[e]) > 0
  /\ rd' = [rd EXCEPT ![ReceivesOn[e]] = @ + 1]
  /\ UNCHANGED <<data, fin, dropped, link, tasks, sides>>

\* The end closes its sending direction and goes on reading.
Shut(e) ==
  /\ MayAct(e)
  /\ ~fin[SendsOn[e]]
  /\ fin' = [fin EXCEPT ![SendsOn[e]] = TRUE]
  /\ UNCHANGED <<data, rd, dropped, link, tasks, sides>>

\* The end closes its socket altogether, or dies.
Vanish(e) ==
  /\ "vanish" \in Hazards
  /\ MayAct(e)
  /\ ~dropped[ReceivesOn[e]]
  /\ fin' = [fin EXCEPT ![SendsOn[e]] = TRUE]
  /\ dropped' = [dropped EXCEPT ![ReceivesOn[e]] = TRUE]
  /\ UNCHANGED <<data, rd, link, tasks, sides>>

\* A second passes for every task that is waiting; last_active is only read
\* while a task of its side runs.
Busy(s) == \E t \in TasksOf(s) : pc[t] \in Active

Tick ==
  /\ "idle" \in Hazards
  /\ idle' = [s \in Side |-> IF Busy(s) /\ idle[s] < Timeout
                             THEN idle[s] + 1 ELSE idle[s]]
  /\ timer' = [t \in Task |-> IF pc[t] \in Waiting /\ timer[t] > 0
                              THEN timer[t] - 1 ELSE timer[t]]
  /\ UNCHANGED <<hops, link, pc, held, stop, session>>

-----------------------------------------------------------------------------
ClientTcpToTunnel == TaskStep("client_tcp_to_tunnel")
HostTunnelToTcp   == TaskStep("host_tunnel_to_tcp")
HostTcpToTunnel   == TaskStep("host_tcp_to_tunnel")
ClientTunnelToTcp == TaskStep("client_tunnel_to_tcp")

Environment ==
  \/ NetworkFails \/ PeerTimesOut \/ Tick
  \/ \E e \in End : Send(e) \/ Receive(e) \/ Shut(e) \/ Vanish(e)

Next ==
  \/ ClientTcpToTunnel \/ HostTunnelToTcp
  \/ HostTcpToTunnel \/ ClientTunnelToTcp
  \/ HostAccepts \/ HostRefuses \/ HostAcceptFails
  \/ \E s \in Side : JoinReturns(s) \/ SendStop(s) \/ CloseLink(s)
  \/ Environment

Spec == Init /\ [][Next]_vars

\* The runtime polls every task that can go on, the owner of a tunnel carries
\* its stop through, a lost peer is noticed, time passes, and the two ends
\* read what reaches them.  Nothing makes an end send, close or vanish, the
\* network fail, or an owner stop a tunnel.
Fairness ==
  /\ WF_vars(ClientTcpToTunnel) /\ WF_vars(HostTunnelToTcp)
  /\ WF_vars(HostTcpToTunnel) /\ WF_vars(ClientTunnelToTcp)
  /\ WF_vars(HostAccepts \/ HostAcceptFails)
  /\ WF_vars(PeerTimesOut) /\ WF_vars(Tick)
  /\ \A s \in Side : WF_vars(JoinReturns(s)) /\ WF_vars(CloseLink(s))

ReaderFairness == \A e \in End : WF_vars(Receive(e))

FairSpec == Spec /\ Fairness /\ ReaderFairness

-----------------------------------------------------------------------------
(* Safety.                                                                 *)

\* Each end's socket carries a prefix of what the other end sent: whatever
\* the interleaving of the four loops, partial writes, timeouts, a stop, a
\* panic or a lost connection, no byte is dropped from the middle, repeated
\* or overtaken (the read, write_all pairs of net/tcp.rs).
InOrder ==
  /\ IsPrefix(data["to_service"], data["from_app"])
  /\ IsPrefix(data["to_app"], data["from_service"])

\* A chain of closes that no fault cut short loses nothing: when both tasks
\* of a direction ended because their source did, every byte sent has been
\* written to the far socket (the n == 0 and None branches of net/tcp.rs, and
\* the implicit finish of a dropped SendStream).
Relayed(t, u) ==
  pc[t] = "eof" /\ pc[u] = "eof" => fin[Src[t]] /\ data[Dst[u]] = data[Src[t]]

EofIsComplete ==
  /\ Relayed("client_tcp_to_tunnel", "host_tunnel_to_tcp")
  /\ Relayed("host_tcp_to_tunnel", "client_tunnel_to_tcp")

\* No task sleeps past the moment its side has been idle for Timeout, though
\* the stamp it computed its sleep from is shared with the other task and is
\* moved under it (the timeout computed at the top of each loop).
NoOversleep ==
  \A t \in Task : pc[t] \in Waiting => timer[t] + idle[Place[t]] <= Timeout

\* The unwrap of a write fails only after somebody gave up: the connection is
\* lost, the end whose socket it is has gone, the reader at the other side
\* stopped, timed out or panicked, or the host never reached the service.
\* A connection on which both ends finish by themselves never panics
\* (write_all(..).await.unwrap() in net/tcp.rs).
PanicHasCause ==
  \A t \in Task : pc[t] = "panicked" =>
    \/ Dst[t] \in Tunnel /\ ~link
    \/ Dst[t] \notin Tunnel /\ dropped[Dst[t]]
    \/ \E u \in Task : Src[u] = Dst[t] /\ pc[u] \in {"stopped", "timedout", "panicked"}
    \/ Dst[t] = "up" /\ session["host"] = "failed"

-----------------------------------------------------------------------------
(* Each direction implements the abstract pipe.                            *)

GaveUp(t) == pc[t] \in {"stopped", "timedout", "panicked", "killed"}
CutOff(t, u) ==
  GaveUp(t) \/ GaveUp(u) \/ ~link \/ session["host"] = "failed"

Up == INSTANCE Pipe WITH
  sent <- data["from_app"], got <- data["to_service"],
  closed <- fin["from_app"], ended <- fin["to_service"],
  cut <- CutOff("client_tcp_to_tunnel", "host_tunnel_to_tcp")

Down == INSTANCE Pipe WITH
  sent <- data["from_service"], got <- data["to_app"],
  closed <- fin["from_service"], ended <- fin["to_app"],
  cut <- CutOff("host_tcp_to_tunnel", "client_tunnel_to_tcp")

\* The relay is a pair of pipes: an end is shown the end of its stream only
\* after all of it, unless the relay gave up.
ImplementsPipes == Up!Spec /\ Down!Spec

-----------------------------------------------------------------------------
(* Liveness.                                                               *)

Over(s) == session[s] \notin {"waiting", "joining"}

\* Every connection on which nothing more is sent is reaped on both sides,
\* whatever was lost, and none of its tasks stays behind, also not one whose
\* sibling panicked and whose try_join! has returned (net/tcp.rs:137): a
\* failed read only disables an arm of the select, and it is the idle sleep
\* that has to end the task.  This needs ReaderFairness: a write to an end
\* that does not read is not timed out.  A process that aborted is over.
Reaped == \A s \in Side : <>(Over(s) /\ ~Busy(s))

\* A stopped tunnel ends its forwarders, without waiting for the idle timeout
\* ("Terminates all connections", client.rs:337): the stop is sent once and
\* every task has to see it.  A task that is writing does not, so this needs
\* ReaderFairness, by which every write comes to an end.
StopEnds == \A s \in Side : stop[s] ~> Over(s)

\* What an end sends arrives, and a close arrives after it, unless the relay
\* gave up or an end vanished: no byte is stuck in a forwarder or a hop,
\* whatever the two directions do to each other (the loops of net/tcp.rs).  In
\* the run the application sends bytes, the service only closes.
Excused(t, u) == CutOff(t, u) \/ \E e \in End : dropped[ReceivesOn[e]]

Arrives(from, to, t, u) ==
  /\ \A n \in 1..MaxBytes[from] :
       Len(data[SendsOn[from]]) >= n ~>
         Len(data[ReceivesOn[to]]) >= n \/ Excused(t, u)
  /\ fin[SendsOn[from]] ~>
       \/ fin[ReceivesOn[to]] /\ data[ReceivesOn[to]] = data[SendsOn[from]]
       \/ Excused(t, u)

Delivery ==
  /\ Arrives("app", "service", "client_tcp_to_tunnel", "host_tunnel_to_tcp")
  /\ Arrives("service", "app", "host_tcp_to_tunnel", "client_tunnel_to_tcp")

\* An application that connects to the client tunnel is connected to the
\* service before the client's side gives up on it, whichever of the two
\* speaks first ("So the client can now essentially access the hosts
\* service", README.md:18).
ServiceReached ==
  \A t \in TasksOf("client") : pc[t] = "timedout" => session["host"] # "waiting"
=============================================================================
