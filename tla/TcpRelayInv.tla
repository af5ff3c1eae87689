---------------------------- MODULE TcpRelayInv ----------------------------
(***************************************************************************)
(* Why the safety properties of TcpRelay hold: an invariant every step of  *)
(* the relay preserves, in parts, each about one mechanism of the code.    *)
(* TcpRelayProofs proves that it is inductive; a run of MCTcpRelay checks  *)
(* it on the bounded instances.                                            *)
(***************************************************************************)
EXTENDS TcpRelay

\* Every hop carries the first bytes of the stream, in order, and a reader
\* is never ahead of its writer.
Counts(s) == \A i \in 1..Len(s) : s[i] = i

Counting == \A h \in Hop : Counts(data[h]) /\ rd[h] <= Len(data[h])

\* What a task has read is on its destination or in its buffer.  Once a
\* tunnel hop is lost it may hold less than was written to it.
Accounted ==
  \A t \in Task :
    IF Carries(Dst[t])
    THEN /\ rd[Src[t]] = Len(data[Dst[t]]) + Len(held[t])
         /\ \A i \in 1..Len(held[t]) : held[t][i] = Len(data[Dst[t]]) + i
    ELSE Len(data[Dst[t]]) <= rd[Src[t]]

\* Only a write in progress, or one cut short, holds bytes.
HeldWhileWriting ==
  \A t \in Task :
    /\ pc[t] = "write" => held[t] # <<>>
    /\ pc[t] \notin {"write", "panicked", "killed"} => held[t] = <<>>

\* The host's tasks exist once its parent has spawned them.
Spawned ==
  /\ \A t \in Task : pc[t] = "unborn" =>
       Place[t] = "host" /\ session["host"] \in {"waiting", "failed"}
  /\ session["host"] \in {"waiting", "failed"} =>
       \A t \in TasksOf("host") : pc[t] = "unborn"

\* A tunnel stream is closed, or its reader gone, only because the task at
\* that side ended or the host never reached the service.  A killed process
\* sends neither.
ClosedByEnding ==
  \A t \in Task :
    /\ Dst[t] \in Tunnel /\ fin[Dst[t]] =>
         \/ pc[t] \in Ended
         \/ Dst[t] = "down" /\ session["host"] = "failed"
    /\ Src[t] \in Tunnel /\ dropped[Src[t]] =>
         \/ pc[t] \in Ended \ {"killed"}
         \/ Src[t] = "up" /\ session["host"] = "failed"

\* A task that saw the end of its source has emptied it, and nothing is
\* added to it: an end that closed does not send, a feeding task has ended.
EofIsFinal ==
  \A t \in Task : pc[t] = "eof" =>
    /\ Drained(Src[t])
    /\ Src[t] \notin Tunnel => fin[Src[t]]
    /\ \A u \in Task : Dst[u] = Src[t] =>
         \/ pc[u] \in Ended
         \/ Src[t] = "down" /\ session["host"] = "failed"

\* A close follows the last byte from hop to hop.
CloseFollows ==
  \A t, u \in Task : Dst[t] = Src[u] /\ pc[t] = "eof" =>
    /\ fin[Dst[t]] => Len(data[Dst[t]]) = Len(data[Src[t]])
    /\ pc[u] = "eof" => Len(data[Dst[u]]) = Len(data[Src[t]])

IInv ==
  /\ TypeOK /\ Counting /\ Accounted /\ HeldWhileWriting /\ Spawned
  /\ ClosedByEnding /\ EofIsFinal /\ CloseFollows
  /\ NoOversleep /\ PanicHasCause

\* The socket of an end is closed by the task that writes to it, as that task
\* ends, and by nobody else: the write half dropped at the end of the task in
\* net/tcp.rs is the only one.
ClosedWithTask ==
  \A t \in Task : Dst[t] \notin Tunnel => (fin[Dst[t]] <=> pc[t] \in Ended)
=============================================================================
