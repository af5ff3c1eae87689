---------------------------- MODULE UdpRelayInv ----------------------------
(***************************************************************************)
(* Why the safety properties of UdpRelay hold: an invariant every step of  *)
(* the relay preserves, in parts, each about one mechanism of the code.    *)
(* UdpRelayProofs proves that it is inductive.                             *)
(***************************************************************************)
EXTENDS UdpRelay

\* Sessions come one after the other, the host's never before the client's,
\* and a side's tasks run only inside a session of that side.
Serial ==
  /\ Len(owner) = turn["client"]
  /\ turn["host"] <= turn["client"]
  /\ \A s \in Side : parent[s] = "forward" => turn[s] >= 1
  /\ \A t \in Task : pc[t] # "none" => turn[Place(t)] >= 1
  /\ \A t \in Task : pc[t] \in Active => parent[Place(t)] = "forward"

\* Only a write in progress, or one cut short, holds bytes; the process of a
\* task that panicked is gone.
HeldWhileWriting ==
  \A t \in Task :
    /\ pc[t] = "write" => t \in Writers
    /\ pc[t] \in {"panicked", "killed"} => parent[Place(t)] = "aborted"
    /\ pc[t] \notin {"write", "panicked", "killed"} => held[t] = <<>>

\* A reader is never ahead of its writer.
Reading == \A c \in Stream : rd[c] <= Len(data[c])

\* All bytes of a sequence come from one sender.
AllFrom(bytes, x) == \A i \in 1..Len(bytes) : bytes[i].from = x

\* The bytes of a session keep their sender from the socket to the far end:
\* the session's application upwards, the session itself downwards.
AtSockets ==
  /\ \A i \in 1..Len(sock) : sock[i].from \in App
  /\ \A i \in 1..Len(wire) : wire[i].from = turn["host"]

InHand ==
  /\ held["client_udp_to_tunnel"] # <<>> => turn["client"] >= 1
  /\ AllFrom(held["client_udp_to_tunnel"], owner[turn["client"]])
  /\ AllFrom(held["host_udp_to_tunnel"], turn["host"])

OnStreams ==
  \A n \in Session :
    /\ AllFrom(data[<<n, "down">>], n)
    /\ data[<<n, "up">>] # <<>> => n <= Len(owner)
    /\ AllFrom(data[<<n, "up">>], owner[n])

AtEnds ==
  /\ \A n \in Session :
       /\ seen[n] # <<>> => n <= Len(owner)
       /\ AllFrom(seen[n], owner[n])
  /\ \A a \in App : \A i \in 1..Len(got[a]) :
       got[a][i].from \in 1..Len(owner) /\ owner[got[a][i].from] = a

Routed == AtSockets /\ InHand /\ OnStreams /\ AtEnds

\* A task is done with a stream: its side is at a later session, or the task
\* ended for one of the reasons given.
DoneWith(t, c, reasons) ==
  \/ turn[Place(t)] > c[1]
  \/ turn[Place(t)] = c[1] /\ pc[t] \in reasons

\* A stream is closed only by the end of its writer, and let go of only by
\* the end of its reader, who saw the end of the stream, was stopped, or
\* waited too long.
GivenUp ==
  \A c \in Stream :
    /\ fin[c] => \A t \in Writers : Way(t) = c[2] => DoneWith(t, c, Ended)
    /\ dropped[c] => \A u \in Readers : Way(u) = c[2] =>
         \/ DoneWith(u, c, {"stopped", "timedout"})
         \/ DoneWith(u, c, {"eof"})
            /\ \A t \in Writers : Way(t) = c[2] => DoneWith(t, c, Ended)

\* What the service was shown was read before; an error waits at a session's
\* socket only behind a datagram the service has missed.
Missed ==
  /\ \A n \in Session : Len(seen[n]) <= rd[<<n, "up">>]
  /\ refused => /\ turn["host"] >= 1
                /\ Len(seen[turn["host"]]) < rd[<<turn["host"], "up">>]

IInv ==
  /\ TypeOK /\ Serial /\ HeldWhileWriting /\ Reading /\ Routed
  /\ GivenUp /\ Missed /\ NoOversleep /\ PanicHasCause

-----------------------------------------------------------------------------
(* The order of the bytes, the same for both ways through the tunnel.      *)

Ways == {"up", "down"}
Queue(w)   == IF w = "up" THEN sock ELSE wire
Taker(w)   == IF w = "up" THEN "client_udp_to_tunnel" ELSE "host_udp_to_tunnel"
Current(w) == turn[Place(Taker(w))]
Carried(w, n) == data[<<n, w>>]

\* Upwards the datagrams of each application are numbered, downwards those of
\* the service, whatever their session.
Lines(w)     == IF w = "up" THEN App ELSE {"service"}
LineOf(w, d) == IF w = "up" THEN d.from ELSE "service"
Line(w)      == IF w = "up" THEN owner ELSE [n \in Session |-> "service"]
Count(w)     == IF w = "up" THEN sent ELSE [l \in {"service"} |-> replies]

\* The datagrams at a socket wait in the order they were sent in.
Queued ==
  \A w \in Ways : \A j \in 1..Len(Queue(w)) :
    /\ Queue(w)[j].n \in 1..Count(w)[LineOf(w, Queue(w)[j])]
    /\ \A i \in 1..(j - 1) :
         LineOf(w, Queue(w)[i]) = LineOf(w, Queue(w)[j]) => Queue(w)[i].n < Queue(w)[j].n

\* Bytes ascend, are of a line's datagrams up to a number, and were sent before
\* what a queue still holds of that line.
Fit(w, bytes, queue, line, number) ==
  \A i \in 1..Len(bytes) :
    /\ \A j \in 1..(i - 1) : P!Before(bytes[j], bytes[i])
    /\ bytes[i].n \in 1..number
    /\ \A j \in 1..Len(queue) : LineOf(w, queue[j]) = line => bytes[i].n < queue[j].n

Sound(w, bytes, n) == Fit(w, bytes, Queue(w), Line(w)[n], Count(w)[Line(w)[n]])

\* What session m carries comes before these bytes of session n.
AllBefore(s, r) == \A i \in 1..Len(s), j \in 1..Len(r) : P!Before(s[i], r[j])
Precedes(w, m, bytes, n) ==
  AllBefore(Carried(w, m), bytes) \/ Line(w)[m] # Line(w)[n]

\* A stream carries what comes before that of a later session's stream, and
\* before what the writer holds.
InOrder ==
  \A w \in Ways :
    /\ Sound(w, held[Taker(w)], Current(w))
    /\ \A n \in Session :
         /\ Carried(w, n) # <<>> => n <= Current(w)
         /\ Sound(w, Carried(w, n), n)
         /\ Precedes(w, n, held[Taker(w)], Current(w))
         /\ \A m \in 1..(n - 1) : Precedes(w, m, Carried(w, n), n)

\* What was shown to an end ascends, and was read from its stream.
Rising(s) == \A i \in 1..Len(s) : \A j \in 1..(i - 1) : P!Before(s[j], s[i])

ShownWasRead ==
  /\ \A n \in Session :
       /\ Rising(seen[n])
       /\ \A i \in 1..Len(seen[n]) :
            \E k \in 1..rd[<<n, "up">>] : seen[n][i] = Carried("up", n)[k]
  /\ \A a \in App :
       /\ Rising(got[a])
       /\ \A i \in 1..Len(got[a]) :
            \E k \in 1..rd[<<got[a][i].from, "down">>] :
              got[a][i] = Carried("down", got[a][i].from)[k]

OrderInv == IInv /\ Queued /\ InOrder /\ ShownWasRead
=============================================================================
