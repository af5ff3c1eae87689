----------------------------- MODULE TunnelInv ------------------------------
(***************************************************************************)
(* The inductive invariant of Tunnel, in named parts.                      *)
(***************************************************************************)
EXTENDS Tunnel

Busy == Serving \cup {"handshake"}

\* Only the last generation has an endpoint that is open, while the tunnel is
\* on or closing.
OpenIsCurrent ==
  /\ host # "off" => gen > 0 /\ open[gen]
  /\ \A g \in Gen : open[g] => g = gen /\ host # "off"

\* A loop that is busy has a connection, which it took itself; another has
\* none.  The loops to come are not there.
HasConn ==
  \A g \in Gen :
    /\ g > gen => loop[g] = "unborn"
    /\ loop[g] \in Busy => cur[g] \in Conn /\ by[cur[g]] = g
    /\ loop[g] \notin Busy => cur[g] = NoConn

\* The clients of a map came to its generation, and the one being served is
\* among them.
Registered ==
  \A g \in Gen :
    /\ \A k \in clients[g] : by[k] = g
    /\ loop[g] \in Serving => cur[g] \in clients[g]

\* The host holds up connections of the open generation only.
HeardByCurrent == \A k \in Conn : Hears(k) => gen > 0 /\ by[k] = gen /\ open[gen]

\* A connect() under way has no listener yet, nor have those to come; where
\* there was none, there is no connection and nothing was sent.
NotYet ==
  /\ \A c \in Client : tun[c] = "dialing" =>
       ConnOf(c) \in Conn /\ lis[ConnOf(c)] = "unborn"
  /\ \A k \in Conn : k[2] > dials[k[1]] => lis[k] = "unborn"
  /\ \A k \in Conn : lis[k] = "unborn" =>
       net[k] = {} /\ streams[k] = <<>> /\ reqs[k] = <<>>

\* The ConnReqs were sent for the streams, in their order.
SentInOrder ==
  \A k \in Conn :
    /\ Len(reqs[k]) <= Len(streams[k])
    /\ \A i \in 1..Len(reqs[k]) : reqs[k][i] = streams[k][i]

\* A listener that is about to send a ConnReq has opened the stream.
Asked == \A k \in Conn : lis[k] = "request" => streams[k] # <<>>

\* While the host hears, the ConnReqs are in step with the streams.
InStep ==
  \A k \in Conn : Hears(k) =>
    /\ lis[k] \in Alive \ {"request"} => Len(reqs[k]) = Len(streams[k])
    /\ lis[k] = "request" => Len(reqs[k]) + 1 = Len(streams[k])

\* The host is behind the client, and takes as many ConnReqs as streams.
Behind ==
  \A k \in Conn :
    /\ got[k] <= Len(reqs[k])
    /\ taken[k] <= shown[k] /\ shown[k] <= Len(streams[k])

OneByOne ==
  /\ \A k \in Conn : by[k] = 0 => taken[k] = 0 /\ got[k] = 0
  /\ \A g \in Gen :
       /\ loop[g] \in Busy \ {"receive"} => taken[cur[g]] = got[cur[g]]
       /\ loop[g] = "receive" => taken[cur[g]] = got[cur[g]] + 1

\* PairedRequest, where there is a stream and a ConnReq to speak of.
Answers ==
  \A g \in Gen : loop[g] \in {"dial", "forward"} =>
    LET k == cur[g] IN taken[k] > 0 /\ entry[k] = {streams[k][taken[k]]}

IInv ==
  /\ TypeOK
  /\ OpenIsCurrent /\ HasConn /\ Registered /\ HeardByCurrent
  /\ NotYet /\ SentInOrder /\ Asked /\ InStep /\ Behind /\ OneByOne /\ Answers

-----------------------------------------------------------------------------
(* What it takes besides to implement Sessions.                            *)

\* An application waits in one backlog at one place, or has been given one
\* stream; one that has not come has neither.
Come ==
  \A k \in Conn :
    /\ \A i \in 1..Len(queue[k]) : queue[k][i] \in came
    /\ \A i \in 1..Len(streams[k]) : streams[k][i] \in came

WaitsOnce ==
  \A k, l \in Conn : \A i \in 1..Len(queue[k]), j \in 1..Len(queue[l]) :
    queue[k][i] = queue[l][j] => k = l /\ i = j

OpenedOnce ==
  \A k \in Conn : \A i, j \in 1..Len(streams[k]) : streams[k][i] = streams[k][j] => i = j

WaitsOrOpened ==
  \A k, l \in Conn : \A i \in 1..Len(queue[k]), j \in 1..Len(streams[l]) :
    queue[k][i] # streams[l][j]

\* What the service was connected for was asked for before, the ConnReq in
\* hand excepted.
ServedAsked ==
  \A k \in Conn : \A i \in 1..Len(served[k]) :
    \E n \in 1..got[k] :
      /\ served[k][i] = reqs[k][n]
      /\ \A g \in Gen : loop[g] = "dial" /\ cur[g] = k => n # got[k]

SInv == IInv /\ Come /\ WaitsOnce /\ OpenedOnce /\ WaitsOrOpened /\ ServedAsked
=============================================================================
