--------------------------- MODULE UdpRelayProofs ---------------------------
(***************************************************************************)
(* Proofs that the safety properties of UdpRelay hold of every instance:   *)
(* any applications, timeout, buffer, window, sizes of datagrams, number   *)
(* of sessions, and any set of hazards.                                    *)
(***************************************************************************)
EXTENDS UdpRelayInv, TLAPS, SequenceTheorems

\* What the proofs need of the constants.
LEMMA Bounds ==
  /\ Timeout \in Nat /\ BufferSize \in Nat \ {0} /\ Window \in Nat /\ Room \in Nat
  /\ MaxSessions \in Nat /\ Sizes \subseteq Nat /\ 0 \in 0..Timeout
BY UdpAssumption

\* The four tasks: what the proofs need of Place, Way and Own (bi_udp_client
\* and bi_udp_host spawn two tasks each).
LEMMA Tasks ==
  /\ \A t \in Task : Place(t) \in Side /\ Way(t) \in {"up", "down"}
  /\ \A t \in Task, s \in Side : t \in TasksOf[s] <=> Place(t) = s
  /\ \A t \in Task : t \in Readers <=> t \notin Writers
  /\ \A t, u \in Writers : Way(t) = Way(u) => t = u
  /\ \A t, u \in Readers : Way(t) = Way(u) => t = u
  /\ Readers \subseteq Task /\ Writers \subseteq Task
  /\ "client_udp_to_tunnel" \in Writers /\ "host_udp_to_tunnel" \in Writers
  /\ "client_tunnel_to_udp" \in Readers /\ "host_tunnel_to_udp" \in Readers
  /\ Place("client_udp_to_tunnel") = "client" /\ Way("client_udp_to_tunnel") = "up"
  /\ Place("client_tunnel_to_udp") = "client" /\ Way("client_tunnel_to_udp") = "down"
  /\ Place("host_tunnel_to_udp") = "host" /\ Way("host_tunnel_to_udp") = "up"
  /\ Place("host_udp_to_tunnel") = "host" /\ Way("host_udp_to_tunnel") = "down"
  /\ "client" \in Side /\ "host" \in Side
BY DEF Task, Readers, Writers, Side, Place, Way, TasksOf

\* A task inside a session works on a stream of that session.
LEMMA OwnStream ==
  ASSUME TypeOK, Serial, NEW t \in Task, pc[t] # "none"
  PROVE  /\ Own(t) \in Stream /\ Own(t)[1] = turn[Place(t)] /\ Own(t)[2] = Way(t)
         /\ turn[Place(t)] \in Session
<1>1. turn[Place(t)] \in 0..MaxSessions /\ turn[Place(t)] >= 1
  BY Tasks DEF TypeOK, Serial
<1>2. turn[Place(t)] \in Session
  BY <1>1, Bounds DEF Session
<1> QED
  BY <1>2, Tasks DEF Own, Stream

\* The steps of the relay.
LEMMA Steps ==
  ASSUME [Next]_vars
  PROVE  \/ \E t \in Task : TaskStep(t)
         \/ ClientTakes \/ ClientSkips \/ ClientDelivers
         \/ HostDelivers \/ HostSendPanics \/ HostTakes
         \/ ListenerOpens \/ ListenerFails \/ ListenerStops
         \/ HostAccepts \/ HostAcceptFails
         \/ \E s \in Side : JoinReturns(s) \/ SendStop(s)
         \/ LoseLink \/ Tick \/ ServiceReplies \/ ServiceChanges
         \/ \E a \in App : AppSends(a)
         \/ UNCHANGED vars
<1>1. /\ "client_udp_to_tunnel" \in Task /\ "client_tunnel_to_udp" \in Task
      /\ "host_tunnel_to_udp" \in Task /\ "host_udp_to_tunnel" \in Task
  BY Tasks
<1> QED
  BY <1>1, Zenon DEF Next, Listener, Handler, ClientUdpToTunnel, ClientTunnelToUdp,
     HostTunnelToUdp, HostUdpToTunnel, CloseLink, NetworkFails, PeerTimesOut

\* A function changed at one place keeps its type.
LEMMA Updated ==
  ASSUME NEW A, NEW T, NEW f \in [A -> T], NEW x \in A, NEW v \in T
  PROVE  [f EXCEPT ![x] = v] \in [A -> T]
OBVIOUS

\* n elements after the first m.
LEMMA Slice ==
  ASSUME NEW S, NEW s \in Seq(S), NEW m \in Nat, NEW n \in Nat, m + n <= Len(s)
  PROVE  /\ SubSeq(s, m + 1, m + n) \in Seq(S)
         /\ Len(SubSeq(s, m + 1, m + n)) = n
         /\ \A i \in 1..n : SubSeq(s, m + 1, m + n)[i] = s[m + i]
<1> DEFINE p == m + 1
           q == m + n
<1>1. /\ p \in Int /\ q \in Int
      /\ \A i \in p..q : s[i] \in S
  OBVIOUS
<1>2. /\ (IF p <= q THEN q - p + 1 ELSE 0) = n
      /\ q - p + 1 = n
      /\ \A i \in 1..n : p + i - 1 = m + i
  OBVIOUS
<1> HIDE DEF p, q
<1>3. /\ SubSeq(s, p, q) \in Seq(S)
      /\ Len(SubSeq(s, p, q)) = IF p <= q THEN q - p + 1 ELSE 0
      /\ \A i \in 1..(q - p + 1) : SubSeq(s, p, q)[i] = s[p + i - 1]
  BY <1>1, SubSeqProperties, SMTT(30)
<1>4. /\ SubSeq(s, p, q) \in Seq(S)
      /\ Len(SubSeq(s, p, q)) = n
      /\ \A i \in 1..n : SubSeq(s, p, q)[i] = s[m + i]
  BY <1>2, <1>3
<1> QED
  BY <1>4 DEF p, q

\* What is unread is the end of the stream.
LEMMA UnreadIs ==
  ASSUME TypeOK, Reading, NEW c \in Stream
  PROVE  Unread(c) \in Seq(Byte) /\ Len(Unread(c)) = Len(data[c]) - rd[c]
<1> DEFINE s == data[c]
           m == rd[c]
           n == Len(s) - m
<1>1. s \in Seq(Byte) /\ m \in Nat /\ m <= Len(s)
  BY DEF TypeOK, Reading
<1>2. Unread(c) = SubSeq(s, m + 1, Len(s))
  BY DEF Unread
<1> HIDE DEF s, m
<1>3. n \in Nat /\ m + n <= Len(s) /\ m + n = Len(s)
  BY <1>1
<1>4. SubSeq(s, m + 1, m + n) \in Seq(Byte) /\ Len(SubSeq(s, m + 1, m + n)) = n
  BY <1>1, <1>3, Slice, Zenon
<1> QED
  BY <1>2, <1>3, <1>4 DEF s, m

\* The bytes of a datagram that a task takes from a socket.
LEMMA ContentsOf ==
  ASSUME NEW d \in Datagram
  PROVE  /\ Contents(d) \in Seq(Byte)
         /\ \A i \in 1..Len(Contents(d)) :
              Contents(d)[i] = [from |-> d.from, n |-> d.n, i |-> i]
         /\ d.size # 0 => Contents(d) # <<>>
<1> DEFINE k == Min2(d.size, BufferSize)
<1>1. /\ d.size \in Nat /\ d.n \in Nat /\ d.from \in Sender
      /\ BufferSize \in Nat \ {0}
  BY Bounds DEF Datagram
<1>2. k \in Nat /\ (d.size # 0 => k >= 1)
  BY <1>1 DEF Min2
<1>3. Contents(d) = [i \in 1..k |-> [from |-> d.from, n |-> d.n, i |-> i]]
  BY DEF Contents
<1> HIDE DEF k
<1>4. \A i \in 1..k : [from |-> d.from, n |-> d.n, i |-> i] \in Byte
  BY <1>1, <1>2 DEF Byte
<1>5. Contents(d) \in Seq(Byte) /\ Len(Contents(d)) = k
  BY <1>2, <1>3, <1>4
<1> QED
  BY <1>2, <1>3, <1>5

\* They name the datagram's sender.
LEMMA ContentsFrom ==
  ASSUME NEW d \in Datagram
  PROVE  AllFrom(Contents(d), d.from)
<1>1. ASSUME NEW i \in 1..Len(Contents(d))
      PROVE  Contents(d)[i].from = d.from
  <2>1. Contents(d)[i] = [from |-> d.from, n |-> d.n, i |-> i]
    BY ContentsOf
  <2> QED
    BY <2>1
<1> QED
  BY <1>1 DEF AllFrom

\* A read takes the next bytes of the task's stream, in order.
LEMMA ReadTakes ==
  ASSUME TypeOK, Serial, Reading, NEW t \in Task, NEW n \in 1..BufferSize, Reads(t, n)
  PROVE  /\ Own(t) \in Stream /\ pc[t] = "select" /\ n \in Nat \ {0}
         /\ Chunk(t, n) \in Seq(Byte) /\ Len(Chunk(t, n)) = n
         /\ rd[Own(t)] \in Nat /\ rd[Own(t)] + n \in Nat
         /\ rd[Own(t)] + n <= Len(data[Own(t)])
         /\ \A i \in 1..n : Chunk(t, n)[i] = data[Own(t)][rd[Own(t)] + i]
         /\ rd' = [rd EXCEPT ![Own(t)] = rd[Own(t)] + n]
         /\ idle' = [idle EXCEPT ![Place(t)] = 0]
<1>1. pc[t] = "select" /\ n <= Len(Unread(Own(t)))
  BY DEF Reads
<1>2. Own(t) \in Stream
  BY <1>1, OwnStream
<1> DEFINE s == data[Own(t)]
           m == rd[Own(t)]
<1>3. s \in Seq(Byte) /\ m \in Nat
  BY <1>2 DEF TypeOK
<1>4. n \in Nat \ {0}
  BY Bounds
<1>5. Len(Unread(Own(t))) = Len(s) - m
  BY <1>2, UnreadIs
<1>6. /\ Chunk(t, n) = SubSeq(s, m + 1, m + n)
      /\ rd' = [rd EXCEPT ![Own(t)] = m + n]
      /\ idle' = [idle EXCEPT ![Place(t)] = 0]
  BY DEF Chunk, Reads
<1> HIDE DEF s, m
<1>7. m + n <= Len(s)
  BY <1>1, <1>3, <1>4, <1>5
<1>9. m + n \in Nat
  BY <1>3, <1>4
<1>8. /\ SubSeq(s, m + 1, m + n) \in Seq(Byte)
      /\ Len(SubSeq(s, m + 1, m + n)) = n
      /\ \A i \in 1..n : SubSeq(s, m + 1, m + n)[i] = s[m + i]
  BY <1>3, <1>4, <1>7, Slice, ZenonT(30)
<1> QED
  BY <1>1, <1>2, <1>3, <1>4, <1>6, <1>7, <1>8, <1>9 DEF s, m

-----------------------------------------------------------------------------
(* Types.                                                                  *)

\* A task that ends writes only to its own places.
LEMMA BreakTypes ==
  ASSUME TypeOK, Serial, NEW t \in Task, pc[t] # "none", NEW why \in Ended, Break(t, why)
  PROVE  /\ pc' \in [Task -> Active \cup Ended] /\ timer' \in [Task -> 0..Timeout]
         /\ fin' \in [Stream -> BOOLEAN] /\ dropped' \in [Stream -> BOOLEAN]
<1>1. Own(t) \in Stream
  BY OwnStream
<1>2. /\ pc' = [pc EXCEPT ![t] = why] /\ timer' = [timer EXCEPT ![t] = 0]
      /\ fin' = [fin EXCEPT ![Own(t)] = @ \/ (t \in Writers /\ link)]
      /\ dropped' = [dropped EXCEPT ![Own(t)] = @ \/ (t \in Readers /\ link)]
  BY DEF Break
<1>3. /\ pc \in [Task -> Active \cup Ended] /\ timer \in [Task -> 0..Timeout]
      /\ fin \in [Stream -> BOOLEAN] /\ dropped \in [Stream -> BOOLEAN]
  BY DEF TypeOK
<1>4. why \in Active \cup Ended
  OBVIOUS
<1>5. pc' \in [Task -> Active \cup Ended] /\ timer' \in [Task -> 0..Timeout]
  BY <1>2, <1>3, <1>4, Updated, Bounds, Zenon
<1>6. fin' \in [Stream -> BOOLEAN] /\ dropped' \in [Stream -> BOOLEAN]
  BY <1>1, <1>2, <1>3
<1> QED
  BY <1>5, <1>6

\* A panic ends tasks of its own side only.
LEMMA AbortTypes ==
  ASSUME TypeOK, NEW t \in Task, Abort(t)
  PROVE  /\ pc' \in [Task -> Active \cup Ended] /\ timer' \in [Task -> 0..Timeout]
         /\ parent' \in [Side -> {"listen", "forward", "left", "failed", "aborted"}]
<1>1. /\ pc' = [u \in Task |->
              IF u = t THEN "panicked"
              ELSE IF u \in TasksOf[Place(t)] /\ pc[u] \in Active THEN "killed" ELSE pc[u]]
      /\ timer' = [u \in Task |-> IF u \in TasksOf[Place(t)] THEN 0 ELSE timer[u]]
      /\ parent' = [parent EXCEPT ![Place(t)] = "aborted"]
  BY DEF Abort
<1>2. "panicked" \in Ended /\ "killed" \in Ended /\ 0 \in 0..Timeout
  BY Bounds DEF Ended
<1>3. /\ pc \in [Task -> Active \cup Ended] /\ timer \in [Task -> 0..Timeout]
      /\ parent \in [Side -> {"listen", "forward", "left", "failed", "aborted"}]
  BY DEF TypeOK
<1> QED
  BY <1>1, <1>2, <1>3

\* A datagram taken from a socket is held whole, or ends the loop if it is
\* empty (recv returning 0, udp.rs).
LEMMA TakeTypes ==
  ASSUME TypeOK, Serial, NEW t \in Task, pc[t] # "none", NEW d \in Datagram, Take(t, d)
  PROVE  /\ pc' \in [Task -> Active \cup Ended] /\ timer' \in [Task -> 0..Timeout]
         /\ fin' \in [Stream -> BOOLEAN] /\ dropped' \in [Stream -> BOOLEAN]
         /\ held' \in [Task -> Seq(Byte)] /\ idle' \in [Side -> 0..Timeout]
<1>1. CASE d.size = 0
  <2>1. Break(t, "eof") /\ "eof" \in Ended /\ UNCHANGED <<held, idle>>
    BY <1>1 DEF Take, Ended
  <2>2. held' \in [Task -> Seq(Byte)] /\ idle' \in [Side -> 0..Timeout]
    BY <2>1 DEF TypeOK
  <2> QED
    BY <2>1, <2>2, BreakTypes, Zenon
<1>2. CASE d.size # 0
  <2>1. /\ pc' = [pc EXCEPT ![t] = "write"] /\ held' = [held EXCEPT ![t] = Contents(d)]
        /\ timer' = [timer EXCEPT ![t] = 0] /\ idle' = [idle EXCEPT ![Place(t)] = 0]
        /\ UNCHANGED <<fin, dropped>>
    BY <1>2 DEF Take
  <2>2. /\ pc \in [Task -> Active \cup Ended] /\ timer \in [Task -> 0..Timeout]
        /\ held \in [Task -> Seq(Byte)] /\ idle \in [Side -> 0..Timeout]
        /\ fin \in [Stream -> BOOLEAN] /\ dropped \in [Stream -> BOOLEAN]
    BY DEF TypeOK
  <2>3. "write" \in Active \cup Ended /\ Place(t) \in Side /\ Contents(d) \in Seq(Byte)
    BY Tasks, ContentsOf DEF Active
  <2> QED
    BY <2>1, <2>2, <2>3, Updated, Bounds, Zenon
<1> QED
  BY <1>1, <1>2

\* A forwarder begins with a session of its own.
LEMMA BeginTypes ==
  ASSUME TypeOK, NEW s \in Side, turn[s] < MaxSessions, Begin(s)
  PROVE  /\ turn' \in [Side -> 0..MaxSessions] /\ idle' \in [Side -> 0..Timeout]
         /\ parent' \in [Side -> {"listen", "forward", "left", "failed", "aborted"}]
         /\ pc' \in [Task -> Active \cup Ended]
<1>1. /\ turn' = [turn EXCEPT ![s] = turn[s] + 1]
      /\ parent' = [parent EXCEPT ![s] = "forward"]
      /\ pc' = [t \in Task |-> IF t \in TasksOf[s] THEN "top" ELSE pc[t]]
      /\ idle' = [idle EXCEPT ![s] = 0]
  BY DEF Begin
<1>2. /\ turn \in [Side -> 0..MaxSessions] /\ idle \in [Side -> 0..Timeout]
      /\ parent \in [Side -> {"listen", "forward", "left", "failed", "aborted"}]
      /\ pc \in [Task -> Active \cup Ended]
  BY DEF TypeOK
<1>3. turn[s] + 1 \in 0..MaxSessions /\ 0 \in 0..Timeout /\ "top" \in Active
  BY <1>2, Bounds DEF Active
<1> QED
  BY <1>1, <1>2, <1>3, Updated

\* Loss takes the ends of streams, never below what was read.
LEMMA LossCuts ==
  ASSUME TypeOK, Reading, LoseLink
  PROVE  /\ data' \in [Stream -> Seq(Byte)] /\ fin' \in [Stream -> BOOLEAN]
         /\ \A c \in Stream :
              /\ rd[c] <= Len(data'[c]) /\ Len(data'[c]) <= Len(data[c])
              /\ \A i \in 1..Len(data'[c]) : data'[c][i] = data[c][i]
              /\ fin'[c] => fin[c]
<1>1. PICK kept \in [Stream -> 0..Window] :
        /\ \A c \in Stream : kept[c] <= Len(Unread(c))
        /\ data' = [c \in Stream |-> SubSeq(data[c], 1, rd[c] + kept[c])]
  BY DEF LoseLink
<1>2. ASSUME NEW c \in Stream
      PROVE  /\ data'[c] \in Seq(Byte)
             /\ rd[c] <= Len(data'[c]) /\ Len(data'[c]) <= Len(data[c])
             /\ \A i \in 1..Len(data'[c]) : data'[c][i] = data[c][i]
  <2> DEFINE s == data[c]
             m == rd[c]
             k == kept[c]
  <2>1. /\ s \in Seq(Byte) /\ m \in Nat /\ k \in Nat
    BY <1>1, Bounds DEF TypeOK
  <2>2. k <= Len(s) - m
    BY <1>1, UnreadIs
  <2>3. data'[c] = SubSeq(s, 1, m + k)
    BY <1>1
  <2> HIDE DEF s, m, k
  <2> DEFINE q == m + k
  <2>4. q \in Nat /\ 0 + q <= Len(s) /\ m <= q /\ 0 + 1 = 1 /\ 0 + q = q
    BY <2>1, <2>2
  <2> HIDE DEF q
  <2>5. /\ SubSeq(s, 1, q) \in Seq(Byte) /\ Len(SubSeq(s, 1, q)) = q
        /\ \A i \in 1..q : SubSeq(s, 1, q)[i] = s[0 + i]
    BY <2>1, <2>4, Slice, SMTT(20)
  <2>6. \A i \in 1..q : 0 + i = i
    BY <2>4
  <2>7. data'[c] = SubSeq(s, 1, q)
    BY <2>3 DEF q
  <2> QED
    BY <2>4, <2>5, <2>6, <2>7 DEF s, m
<1>3. data' \in [Stream -> Seq(Byte)]
  BY <1>1, <1>2
<1>4. PICK closed \in SUBSET {c \in Stream : fin[c] /\ data'[c] = data[c]} :
        fin' = [c \in Stream |-> c \in closed]
  BY DEF LoseLink
<1>5. fin' \in [Stream -> BOOLEAN]
  <2> DEFINE f == [c \in Stream |-> c \in closed]
  <2>1. f \in [Stream -> BOOLEAN]
    OBVIOUS
  <2>2. fin' = f
    BY <1>4
  <2> QED
    BY <2>1, <2>2
<1>6. \A c \in Stream : fin'[c] => fin[c]
  BY <1>4
<1> QED
  BY <1>2, <1>3, <1>5, <1>6

\* Every step keeps the types.
LEMMA TypeStep ==
  ASSUME TypeOK, Serial, Reading, Routed, [Next]_vars
  PROVE  TypeOK'
<1> USE DEF TypeOK, ends, sockets, streams, loops
<1>0. 0 \in 0..Timeout /\ Timeout \in Nat /\ MaxSessions \in Nat
  BY Bounds
<1>1. ASSUME NEW t \in Task, TaskStep(t)
      PROVE  TypeOK'
  <2> Place(t) \in Side
    BY Tasks
  <2>0. "top" \in Active /\ "select" \in Active /\ "deaf" \in Active
        /\ Waiting \subseteq Active /\ "none" \notin Active
    BY DEF Active, Waiting
  <2>1. CASE LoopTop(t)
    <3>1. Timeout - idle[Place(t)] \in 0..Timeout
      BY <1>0
    <3> QED
      BY <2>0, <2>1, <3>1 DEF LoopTop
  <2>2. CASE StopArm(t)
    <3>1. Break(t, "stopped") /\ "stopped" \in Ended /\ pc[t] # "none"
      BY <2>0, <2>2 DEF StopArm, Ended
    <3> QED
      BY <2>2, <3>1, BreakTypes DEF StopArm
  <2>3. CASE SleepArm(t)
    <3>1. CASE Break(t, "timedout")
      <4>1. "timedout" \in Ended /\ pc[t] # "none"
        BY <2>0, <2>3 DEF SleepArm, Ended
      <4> QED
        BY <2>3, <3>1, <4>1, BreakTypes DEF SleepArm
    <3>2. CASE pc' = [pc EXCEPT ![t] = "top"] /\ UNCHANGED <<fin, dropped, timer>>
      BY <2>0, <2>3, <3>2 DEF SleepArm
    <3> QED
      BY <2>3, <3>1, <3>2 DEF SleepArm
  <2>4. CASE EofArm(t)
    <3>1. Break(t, "eof") /\ "eof" \in Ended /\ pc[t] # "none"
      BY <2>0, <2>4 DEF EofArm, Ended
    <3> QED
      BY <2>4, <3>1, BreakTypes DEF EofArm
  <2>5. CASE ReadFails(t)
    BY <2>0, <2>5 DEF ReadFails
  <2>6. CASE WriteOut(t)
    <3>1. Own(t) \in Stream
      BY <2>6, OwnStream DEF WriteOut
    <3>2. data[Own(t)] \o held[t] \in Seq(Byte) /\ <<>> \in Seq(Byte)
      BY <3>1
    <3>3. data' = [data EXCEPT ![Own(t)] = data[Own(t)] \o held[t]]
          /\ held' = [held EXCEPT ![t] = <<>>]
      BY <2>6 DEF WriteOut
    <3>4. data' \in [Stream -> Seq(Byte)] /\ held' \in [Task -> Seq(Byte)]
      BY <3>1, <3>2, <3>3, Updated, Zenon
    <3> QED
      BY <2>0, <2>6, <3>4 DEF WriteOut
  <2>7. CASE WritePanics(t)
    <3>1. Abort(t)
      BY <2>7 DEF WritePanics
    <3> QED
      BY <2>7, <3>1, AbortTypes DEF WritePanics, Abort
  <2> QED
    BY <1>1, <2>1, <2>2, <2>3, <2>4, <2>5, <2>6, <2>7 DEF TaskStep
<1>2. CASE ClientTakes
  <2> DEFINE t == "client_udp_to_tunnel"
  <2>1. t \in Task /\ pc[t] # "none"
    BY <1>2, Tasks DEF ClientTakes
  <2>2. Head(sock) \in Datagram /\ Tail(sock) \in Seq(Datagram)
    BY <1>2 DEF ClientTakes
  <2>3. Take(t, Head(sock)) /\ sock' = Tail(sock)
        /\ UNCHANGED <<ends, wire, refused, data, rd, link, loops, stop>>
    BY <1>2 DEF ClientTakes
  <2> HIDE DEF t
  <2> QED
    BY <2>1, <2>2, <2>3, TakeTypes
<1>3. CASE HostTakes
  <2> DEFINE t == "host_udp_to_tunnel"
  <2>1. t \in Task /\ pc[t] # "none"
    BY <1>3, Tasks DEF HostTakes
  <2>2. Head(wire) \in Datagram /\ Tail(wire) \in Seq(Datagram)
    BY <1>3 DEF HostTakes
  <2>3. Take(t, Head(wire)) /\ wire' = Tail(wire)
        /\ UNCHANGED <<ends, sock, refused, data, rd, link, loops, stop>>
    BY <1>3 DEF HostTakes
  <2> HIDE DEF t
  <2> QED
    BY <2>1, <2>2, <2>3, TakeTypes
<1>4. CASE ClientSkips
  BY <1>0, <1>4 DEF ClientSkips, Active
<1>5. CASE ClientDelivers
  <2> DEFINE t == "client_tunnel_to_udp"
             a == owner[turn["client"]]
  <2>1. PICK n \in 1..BufferSize :
          /\ Reads(t, n) /\ Again(t)
          /\ got' = [got EXCEPT ![a] = got[a] \o Chunk(t, n)]
          /\ UNCHANGED <<sent, replies, seen, service, sockets, data, fin, dropped,
                         link, loops, held, stop>>
    BY <1>5 DEF ClientDelivers
  <2>2. t \in Task /\ Place(t) = "client"
    BY Tasks
  <2>3. Chunk(t, n) \in Seq(Byte) /\ Own(t) \in Stream /\ rd[Own(t)] + n \in Nat
        /\ rd' = [rd EXCEPT ![Own(t)] = rd[Own(t)] + n]
        /\ idle' = [idle EXCEPT ![Place(t)] = 0] /\ pc[t] = "select"
    BY <2>1, <2>2, ReadTakes, Zenon
  <2>4. turn["client"] \in 1..Len(owner)
    BY <2>2, <2>3 DEF Serial
  <2>9. a \in App
    BY <2>4
  <2>5. got[a] \o Chunk(t, n) \in Seq(Byte) /\ a \in App
    <3>1. got[a] \in Seq(Byte)
      BY <2>9
    <3> QED
      BY <2>3, <2>9, <3>1, ConcatProperties, Zenon
  <2>6. /\ got' \in [App -> Seq(Byte)] /\ rd' \in [Stream -> Nat]
        /\ idle' \in [Side -> 0..Timeout]
    BY <1>0, <2>1, <2>2, <2>3, <2>5, Tasks, Updated
  <2> HIDE DEF a
  <2>7. "top" \in Active \cup Ended
    BY DEF Active
  <2>8. pc' \in [Task -> Active \cup Ended] /\ timer' \in [Task -> 0..Timeout]
    BY <1>0, <2>1, <2>2, <2>7, Updated DEF Again
  <2> HIDE DEF t
  <2> QED
    BY <2>1, <2>6, <2>8
<1>6. CASE HostDelivers
  <2> DEFINE t == "host_tunnel_to_udp"
             m == turn["host"]
  <2>1. PICK n \in 1..BufferSize :
          /\ Reads(t, n) /\ Again(t)
          /\ refused' = ~service
          /\ seen' = [seen EXCEPT ![m] = IF service THEN seen[m] \o Chunk(t, n) ELSE seen[m]]
          /\ UNCHANGED <<sent, replies, got, service, sock, wire, data, fin, dropped,
                         link, loops, held, stop>>
    BY <1>6 DEF HostDelivers
  <2>2. t \in Task /\ Place(t) = "host"
    BY Tasks
  <2>3. Chunk(t, n) \in Seq(Byte) /\ Own(t) \in Stream /\ rd[Own(t)] + n \in Nat
        /\ rd' = [rd EXCEPT ![Own(t)] = rd[Own(t)] + n]
        /\ idle' = [idle EXCEPT ![Place(t)] = 0] /\ pc[t] = "select"
    BY <2>1, <2>2, ReadTakes, Zenon
  <2>4. m \in Session
    BY <2>2, <2>3, OwnStream
  <2>5. (IF service THEN seen[m] \o Chunk(t, n) ELSE seen[m]) \in Seq(Byte)
    BY <2>3, <2>4
  <2>6. /\ seen' \in [Session -> Seq(Byte)] /\ rd' \in [Stream -> Nat]
        /\ idle' \in [Side -> 0..Timeout]
    BY <1>0, <2>1, <2>2, <2>3, <2>4, <2>5, Tasks, Updated
  <2>7. "top" \in Active \cup Ended
    BY DEF Active
  <2>8. pc' \in [Task -> Active \cup Ended] /\ timer' \in [Task -> 0..Timeout]
    BY <1>0, <2>1, <2>2, <2>7, Updated DEF Again
  <2>9. refused' \in BOOLEAN
    BY <2>1
  <2> HIDE DEF t, m
  <2> QED
    BY <2>1, <2>6, <2>8, <2>9
<1>7. CASE HostSendPanics
  <2> DEFINE t == "host_tunnel_to_udp"
  <2>1. PICK n \in 1..BufferSize :
          /\ Reads(t, n) /\ Abort(t)
          /\ refused' = FALSE
          /\ held' = [held EXCEPT ![t] = Chunk(t, n)]
          /\ UNCHANGED <<ends, sock, wire, data, fin, dropped, link, stop>>
    BY <1>7 DEF HostSendPanics
  <2>2. t \in Task /\ Place(t) = "host"
    BY Tasks
  <2>3. Chunk(t, n) \in Seq(Byte) /\ Own(t) \in Stream /\ rd[Own(t)] + n \in Nat
        /\ rd' = [rd EXCEPT ![Own(t)] = rd[Own(t)] + n]
        /\ idle' = [idle EXCEPT ![Place(t)] = 0]
    BY <2>1, <2>2, ReadTakes, Zenon
  <2>4. /\ held' \in [Task -> Seq(Byte)] /\ rd' \in [Stream -> Nat]
        /\ idle' \in [Side -> 0..Timeout]
    BY <1>0, <2>1, <2>2, <2>3, Tasks, Updated
  <2>5. /\ pc' \in [Task -> Active \cup Ended] /\ timer' \in [Task -> 0..Timeout]
        /\ parent' \in [Side -> {"listen", "forward", "left", "failed", "aborted"}]
    BY <2>1, <2>2, AbortTypes
  <2>6. UNCHANGED <<owner, local, turn>>
    BY <2>1 DEF Abort
  <2> HIDE DEF t
  <2> QED
    BY <2>1, <2>4, <2>5, <2>6
<1>8. CASE ListenerOpens
  <2>1. "client" \in Side /\ turn["client"] < MaxSessions /\ Begin("client")
    BY <1>8, Tasks DEF ListenerOpens
  <2>2. sock # <<>> /\ owner' = Append(owner, Head(sock).from)
        /\ local' = local \cup {Head(sock).from}
        /\ UNCHANGED <<ends, sockets, streams, link, held, timer, stop>>
    BY <1>8 DEF ListenerOpens
  <2>3. Head(sock).from \in App
    BY <2>2 DEF Routed, AtSockets
  <2>4. owner' \in Seq(App) /\ local' \subseteq App
    BY <2>2, <2>3
  <2>5. /\ turn' \in [Side -> 0..MaxSessions] /\ idle' \in [Side -> 0..Timeout]
        /\ parent' \in [Side -> {"listen", "forward", "left", "failed", "aborted"}]
        /\ pc' \in [Task -> Active \cup Ended]
    BY <2>1, BeginTypes, Zenon
  <2> QED
    BY <2>2, <2>4, <2>5
<1>9. CASE ListenerFails \/ ListenerStops \/ HostAcceptFails
  BY <1>9 DEF ListenerFails, ListenerStops, HostAcceptFails, Side
<1>10. CASE HostAccepts
  <2>1. "host" \in Side /\ turn["host"] < MaxSessions /\ Begin("host")
    BY <1>0, <1>10, Tasks DEF HostAccepts
  <2>2. wire' = <<>> /\ refused' = FALSE
        /\ UNCHANGED <<ends, sock, streams, link, owner, local, held, timer, stop>>
    BY <1>10 DEF HostAccepts
  <2>3. /\ turn' \in [Side -> 0..MaxSessions] /\ idle' \in [Side -> 0..Timeout]
        /\ parent' \in [Side -> {"listen", "forward", "left", "failed", "aborted"}]
        /\ pc' \in [Task -> Active \cup Ended]
    BY <2>1, BeginTypes, Zenon
  <2>4. wire' \in Seq(Datagram) /\ refused' \in BOOLEAN
    <3>1. <<>> \in Seq(Datagram) /\ FALSE \in BOOLEAN
      BY EmptySeq
    <3> QED
      BY <2>2, <3>1, Zenon
  <2> QED
    BY <2>2, <2>3, <2>4
<1>11. ASSUME NEW s \in Side, JoinReturns(s) \/ SendStop(s)
       PROVE  TypeOK'
  BY <1>11 DEF JoinReturns, SendStop
<1>12. CASE LoseLink
  BY <1>12, LossCuts DEF LoseLink
<1>13. CASE Tick
  BY <1>0, <1>13 DEF Tick
<1>14. CASE ServiceReplies
  <2>1. turn["host"] \in Session
    BY <1>0, <1>14, Tasks DEF ServiceReplies, Serial, Session
  <2>2. PICK size \in Sizes :
          wire' = Arrive(wire, [from |-> turn["host"], n |-> replies + 1, size |-> size])
    BY <1>14 DEF ServiceReplies
  <2>3. [from |-> turn["host"], n |-> replies + 1, size |-> size] \in Datagram
    BY <2>1 DEF Datagram, Sender
  <2>4. wire' \in Seq(Datagram)
    BY <2>2, <2>3 DEF Arrive
  <2> QED
    BY <1>14, <2>4 DEF ServiceReplies
<1>15. CASE ServiceChanges
  BY <1>15 DEF ServiceChanges
<1>16. ASSUME NEW a \in App, AppSends(a)
       PROVE  TypeOK'
  <2>1. PICK size \in Sizes :
          sock' = Arrive(sock, [from |-> a, n |-> sent[a] + 1, size |-> size])
    BY <1>16 DEF AppSends
  <2>2. [from |-> a, n |-> sent[a] + 1, size |-> size] \in Datagram
    BY DEF Datagram, Sender
  <2>3. sock' \in Seq(Datagram)
    BY <2>1, <2>2 DEF Arrive
  <2>4. sent' \in [App -> Nat]
    BY <1>16 DEF AppSends
  <2> QED
    BY <1>16, <2>3, <2>4 DEF AppSends
<1>17. CASE UNCHANGED vars
  BY <1>17 DEF vars
<1> QED
  BY <1>1, <1>2, <1>3, <1>4, <1>5, <1>6, <1>7, <1>8, <1>9, <1>10, <1>11, <1>12,
     <1>13, <1>14, <1>15, <1>16, <1>17, Steps


-----------------------------------------------------------------------------
(* The steps, by what they do to the loops of the two sides.               *)

\* A task goes on, or ends alone.
Moves(t) ==
  /\ pc[t] \in Active
  /\ UNCHANGED <<turn, parent, owner>>
  /\ \E x \in {"top", "select", "deaf", "stopped", "timedout", "eof", "write"} :
       /\ pc' = [pc EXCEPT ![t] = x]
       /\ \/ x # "write" /\ held' = [held EXCEPT ![t] = <<>>]
          \/ x # "write" /\ pc[t] # "write" /\ held' = held
          \/ x = "write" /\ t \in Writers
             /\ \E bytes \in Seq(Byte) : held' = [held EXCEPT ![t] = bytes]

\* A task takes its process with it.
Panics(t) ==
  /\ \/ WritePanics(t)
     \/ t = "host_tunnel_to_udp" /\ HostSendPanics
  /\ pc[t] \in Active
  /\ Abort(t)
  /\ \E bytes \in Seq(Byte) : held' = [held EXCEPT ![t] = bytes]

\* No task moves; a loop may end, or go on to the next session.
Settles ==
  /\ UNCHANGED <<turn, owner, pc, held>>
  /\ \/ parent' = parent
     \/ \E s \in Side :
          /\ parent[s] = "listen"
          /\ \E x \in {"failed", "left"} : parent' = [parent EXCEPT ![s] = x]
     \/ \E s \in Side :
          /\ parent[s] = "forward" /\ \A t \in TasksOf[s] : pc[t] \in Ended
          /\ parent' = [parent EXCEPT ![s] = "listen"]

\* A turn of a loop moves its task or panics.
LEMMA TaskKinds ==
  ASSUME TypeOK, NEW t \in Task, TaskStep(t)
  PROVE  Moves(t) \/ Panics(t)
<1> USE DEF loops, Moves, Active, Waiting, Break
<1>1. CASE LoopTop(t)
  BY <1>1 DEF LoopTop
<1>2. CASE StopArm(t)
  BY <1>2 DEF StopArm
<1>3. CASE SleepArm(t)
  BY <1>3 DEF SleepArm
<1>4. CASE EofArm(t)
  BY <1>4 DEF EofArm
<1>5. CASE ReadFails(t)
  BY <1>5 DEF ReadFails
<1>6. CASE WriteOut(t)
  BY <1>6 DEF WriteOut
<1>7. CASE WritePanics(t)
  <2>1. held[t] \in Seq(Byte) /\ held' = [held EXCEPT ![t] = held[t]]
    BY <1>7 DEF WritePanics, TypeOK
  <2> QED
    BY <1>7, <2>1 DEF Panics, WritePanics
<1> QED
  BY <1>1, <1>2, <1>3, <1>4, <1>5, <1>6, <1>7 DEF TaskStep

\* A step moves a task, starts a session, or leaves all tasks where they are.
LEMMA Kinds ==
  ASSUME TypeOK, Serial, Reading, [Next]_vars
  PROVE  \/ \E t \in Task : Moves(t) \/ Panics(t)
         \/ ListenerOpens \/ HostAccepts
         \/ Settles
<1> USE DEF loops
<1>1. CASE ClientTakes \/ HostTakes
  <2>1. PICK t \in Writers, d \in Datagram :
          pc[t] = "select" /\ Take(t, d) /\ UNCHANGED loops
    <3>1. CASE ClientTakes
      <4>1. Head(sock) \in Datagram
        BY <3>1 DEF ClientTakes, TypeOK
      <4> QED
        BY <3>1, <4>1, Tasks DEF ClientTakes
    <3>2. CASE HostTakes
      <4>1. Head(wire) \in Datagram
        BY <3>2 DEF HostTakes, TypeOK
      <4> QED
        BY <3>2, <4>1, Tasks DEF HostTakes
    <3> QED
      BY <1>1, <3>1, <3>2
  <2>2. Moves(t)
    BY <2>1, ContentsOf DEF Take, Break, Moves, Active, Waiting
  <2> QED
    BY <2>1, <2>2, Tasks
<1>2. CASE ClientSkips
  <2>1. Moves("client_udp_to_tunnel")
    BY <1>2 DEF ClientSkips, Moves, Active, Waiting
  <2> QED
    BY <2>1, Tasks
<1>3. CASE ClientDelivers \/ HostDelivers
  <2>1. PICK t \in Readers : pc[t] = "select" /\ Again(t) /\ UNCHANGED <<loops, held>>
    BY <1>3, Tasks DEF ClientDelivers, HostDelivers, Reads
  <2>2. Moves(t)
    BY <2>1 DEF Again, Moves, Active, Waiting
  <2> QED
    BY <2>1, <2>2, Tasks
<1>4. CASE HostSendPanics
  <2> DEFINE t == "host_tunnel_to_udp"
  <2>1. PICK n \in 1..BufferSize :
          Reads(t, n) /\ Abort(t) /\ held' = [held EXCEPT ![t] = Chunk(t, n)]
    BY <1>4 DEF HostSendPanics
  <2>2. t \in Task
    BY Tasks
  <2>3. pc[t] = "select" /\ Chunk(t, n) \in Seq(Byte)
    BY <2>1, <2>2, ReadTakes, Zenon
  <2>4. Panics(t)
    BY <1>4, <2>1, <2>3 DEF Panics, Active, Waiting
  <2> QED
    BY <2>2, <2>4
<1>5. CASE ListenerFails \/ ListenerStops \/ HostAcceptFails
  BY <1>5, Tasks DEF ListenerFails, ListenerStops, HostAcceptFails, Settles
<1>6. ASSUME NEW s \in Side, JoinReturns(s) \/ SendStop(s)
      PROVE  Settles
  BY <1>6 DEF JoinReturns, SendStop, Settles
<1>7. CASE LoseLink \/ Tick \/ ServiceReplies \/ ServiceChanges
  BY <1>7 DEF LoseLink, Tick, ServiceReplies, ServiceChanges, Settles
<1>8. ASSUME NEW a \in App, AppSends(a)
      PROVE  Settles
  BY <1>8 DEF AppSends, Settles
<1>9. CASE UNCHANGED vars
  BY <1>9 DEF vars, Settles
<1> QED
  BY <1>1, <1>2, <1>3, <1>4, <1>5, <1>6, <1>7, <1>8, <1>9, TaskKinds, Steps

\* The two sides begin sessions alike.
LEMMA Begins ==
  ASSUME ListenerOpens \/ HostAccepts
  PROVE  \E s \in Side :
           /\ s = "client" => ListenerOpens
           /\ s = "host" => HostAccepts /\ owner' = owner
           /\ parent[s] = "listen" /\ held' = held
           /\ turn' = [turn EXCEPT ![s] = turn[s] + 1]
           /\ parent' = [parent EXCEPT ![s] = "forward"]
           /\ pc' = [t \in Task |-> IF t \in TasksOf[s] THEN "top" ELSE pc[t]]
<1>1. CASE ListenerOpens
  BY <1>1, Tasks DEF ListenerOpens, Begin
<1>2. CASE HostAccepts
  BY <1>2, Tasks DEF HostAccepts, Begin
<1> QED
  BY <1>1, <1>2

\* A panic ends its own task and kills the other of its process.
LEMMA AbortIs ==
  ASSUME TypeOK, NEW t \in Task, Abort(t)
  PROVE  /\ pc'[t] = "panicked"
         /\ parent' = [parent EXCEPT ![Place(t)] = "aborted"]
         /\ UNCHANGED <<owner, local, turn>>
         /\ \A u \in Task : u # t =>
              \/ Place(u) = Place(t) /\ pc[u] \in Active /\ pc'[u] = "killed"
              \/ Place(u) # Place(t) /\ pc'[u] = pc[u]
              \/ pc[u] \notin Active /\ pc'[u] = pc[u]
BY Tasks DEF Abort, TypeOK

\* Each side opens one session after the other, and runs tasks in it alone:
\* listener and handler await both tasks before their next turn.
LEMMA SerialStep ==
  ASSUME TypeOK, Serial, Reading, [Next]_vars
  PROVE  Serial'
<1>0. /\ turn \in [Side -> 0..MaxSessions] /\ owner \in Seq(App)
      /\ parent \in [Side -> {"listen", "forward", "left", "failed", "aborted"}]
      /\ pc \in [Task -> Active \cup Ended] /\ MaxSessions \in Nat
  BY Bounds DEF TypeOK
<1>1. ASSUME NEW t \in Task, Moves(t)
      PROVE  Serial'
  <2>1. /\ \A u \in Task : pc'[u] # pc[u] => pc[u] \in Active
        /\ UNCHANGED <<turn, parent, owner>>
    BY <1>0, <1>1 DEF Moves
  <2>2. "none" \notin Active
    BY DEF Active, Waiting
  <2> QED
    BY <2>1, <2>2 DEF Serial
<1>2. ASSUME NEW t \in Task, Panics(t)
      PROVE  Serial'
  <2>1. /\ UNCHANGED <<turn, owner>>
        /\ parent' = [parent EXCEPT ![Place(t)] = "aborted"]
        /\ pc[t] \in Active /\ pc'[t] = "panicked"
        /\ \A u \in Task : u # t =>
              \/ Place(u) = Place(t) /\ pc[u] \in Active /\ pc'[u] = "killed"
              \/ Place(u) # Place(t) /\ pc'[u] = pc[u]
              \/ pc[u] \notin Active /\ pc'[u] = pc[u]
    BY <1>2, AbortIs DEF Panics
  <2>2. "none" \notin Active /\ "panicked" \notin Active /\ "killed" \notin Active
    BY DEF Active, Waiting
  <2>3. \A s \in Side : parent'[s] = "forward" => parent[s] = "forward"
    BY <1>0, <2>1
  <2>4. \A u \in Task : pc'[u] \in Active =>
          pc[u] \in Active /\ Place(u) # Place(t)
    BY <2>1, <2>2
  <2>5. \A u \in Task : pc'[u] # "none" => pc[u] # "none"
    BY <2>1, <2>2
  <2>6. \A u \in Task : pc'[u] \in Active => parent'[Place(u)] = "forward"
    BY <1>0, <2>1, <2>4, Tasks DEF Serial
  <2> QED
    BY <2>1, <2>3, <2>5, <2>6 DEF Serial
<1>3. CASE ListenerOpens \/ HostAccepts
  <2>1. PICK s \in Side :
           /\ s = "client" => ListenerOpens
           /\ s = "host" => HostAccepts /\ owner' = owner
           /\ parent[s] = "listen" /\ held' = held
           /\ turn' = [turn EXCEPT ![s] = turn[s] + 1]
           /\ parent' = [parent EXCEPT ![s] = "forward"]
           /\ pc' = [t \in Task |-> IF t \in TasksOf[s] THEN "top" ELSE pc[t]]
    BY <1>3, Begins
  <2>2. \A r \in Side : turn'[r] = IF r = s THEN turn[r] + 1 ELSE turn[r]
    BY <1>0, <2>1
  <2>3. s = "client" \/ s = "host"
    BY DEF Side
  <2>4. Len(owner') = turn'["client"]
    <3>1. CASE s = "client"
      <4>1. owner' = Append(owner, Head(sock).from)
        BY <2>1, <3>1 DEF ListenerOpens
      <4>2. Len(owner') = Len(owner) + 1
        BY <1>0, <4>1
      <4> QED
        BY <2>2, <3>1, <4>2, Tasks DEF Serial
    <3>2. CASE s = "host"
      BY <2>1, <2>2, <3>2, Tasks DEF Serial
    <3> QED
      BY <2>3, <3>1, <3>2
  <2>5. turn'["host"] <= turn'["client"]
    <3>1. CASE s = "client"
      BY <1>0, <2>2, <3>1, Tasks DEF Serial
    <3>2. CASE s = "host"
      <4>1. turn["host"] < turn["client"]
        BY <2>1, <3>2 DEF HostAccepts
      <4> QED
        BY <1>0, <2>2, <3>2, <4>1, Tasks
    <3> QED
      BY <2>3, <3>1, <3>2
  <2>6. \A r \in Side : turn[r] \in Nat /\ (turn[r] >= 1 => turn'[r] >= 1)
                        /\ (r = s => turn'[r] >= 1)
    BY <1>0, <2>2
  <2>7. \A r \in Side : r # s => parent'[r] = parent[r]
    BY <1>0, <2>1
  <2>8. parent'[s] = "forward"
    BY <1>0, <2>1
  <2>9. \A t \in Task : Place(t) # s => pc'[t] = pc[t]
    BY <2>1, Tasks
  <2>10. \A r \in Side : parent'[r] = "forward" => turn'[r] >= 1
    BY <2>6, <2>7 DEF Serial
  <2>11. \A t \in Task : pc'[t] # "none" => turn'[Place(t)] >= 1
    BY <2>6, <2>9, Tasks DEF Serial
  <2>12. \A t \in Task : pc'[t] \in Active => parent'[Place(t)] = "forward"
    BY <2>7, <2>8, <2>9, Tasks DEF Serial
  <2> QED
    BY <2>4, <2>5, <2>10, <2>11, <2>12 DEF Serial
<1>4. CASE Settles
  <2>1. UNCHANGED <<turn, owner, pc>>
    BY <1>4 DEF Settles
  <2>2. \A s \in Side : parent'[s] = "forward" => parent[s] = "forward"
    BY <1>0, <1>4 DEF Settles
  <2>3. Active \cap Ended = {}
    BY DEF Active, Waiting, Ended
  <2>4. \A t \in Task : pc[t] \in Active => parent'[Place(t)] = "forward"
    <3> SUFFICES ASSUME NEW t \in Task, pc[t] \in Active
                 PROVE  parent'[Place(t)] = "forward"
      OBVIOUS
    <3>1. parent[Place(t)] = "forward" /\ Place(t) \in Side /\ t \in TasksOf[Place(t)]
      BY Tasks DEF Serial
    <3> QED
      BY <1>0, <1>4, <2>3, <3>1 DEF Settles
  <2> QED
    BY <2>1, <2>2, <2>4 DEF Serial
<1> QED
  BY <1>1, <1>2, <1>3, <1>4, Kinds

\* A task holds a datagram from its receive to the end of its write.
LEMMA HeldWhileWritingStep ==
  ASSUME TypeOK, Serial, Reading, HeldWhileWriting, [Next]_vars
  PROVE  HeldWhileWriting'
<1>0. /\ parent \in [Side -> {"listen", "forward", "left", "failed", "aborted"}]
      /\ pc \in [Task -> Active \cup Ended] /\ held \in [Task -> Seq(Byte)]
  BY DEF TypeOK
<1>1. ASSUME NEW t \in Task, Moves(t)
      PROVE  HeldWhileWriting'
  <2>1. PICK x \in {"top", "select", "deaf", "stopped", "timedout", "eof", "write"} :
          /\ pc' = [pc EXCEPT ![t] = x]
          /\ \/ x # "write" /\ held' = [held EXCEPT ![t] = <<>>]
             \/ x # "write" /\ pc[t] # "write" /\ held' = held
             \/ x = "write" /\ t \in Writers
                /\ \E bytes \in Seq(Byte) : held' = [held EXCEPT ![t] = bytes]
    BY <1>1 DEF Moves
  <2>2. parent' = parent /\ pc[t] \in Active
    BY <1>1 DEF Moves
  <2>3. \A u \in Task : u # t => pc'[u] = pc[u]
    BY <1>0, <2>1
  <2>4. \A u \in Task : u # t => held'[u] = held[u]
    BY <1>0, <2>1
  <2>5. pc'[t] = x /\ (held'[t] = <<>> \/ (x = "write" /\ t \in Writers))
    <3>1. pc[t] # "write" => held[t] = <<>>
      BY <2>2 DEF HeldWhileWriting, Active, Waiting
    <3>2. pc'[t] = x
      BY <1>0, <2>1
    <3>3. CASE x = "write"
      BY <2>1, <3>2, <3>3
    <3>4. CASE x # "write" /\ held' = [held EXCEPT ![t] = <<>>]
      BY <1>0, <3>2, <3>4
    <3>5. CASE x # "write" /\ pc[t] # "write" /\ held' = held
      BY <3>1, <3>2, <3>5
    <3> QED
      BY <2>1, <3>3, <3>4, <3>5
  <2> QED
    BY <2>1, <2>2, <2>3, <2>4, <2>5 DEF HeldWhileWriting
<1>2. ASSUME NEW t \in Task, Panics(t)
      PROVE  HeldWhileWriting'
  <2>1. /\ parent' = [parent EXCEPT ![Place(t)] = "aborted"]
        /\ pc[t] \in Active /\ pc'[t] = "panicked"
        /\ \A u \in Task : u # t =>
              \/ Place(u) = Place(t) /\ pc[u] \in Active /\ pc'[u] = "killed"
              \/ Place(u) # Place(t) /\ pc'[u] = pc[u]
              \/ pc[u] \notin Active /\ pc'[u] = pc[u]
    BY <1>2, AbortIs DEF Panics
  <2>2. \A u \in Task : u # t => held'[u] = held[u]
    BY <1>0, <1>2 DEF Panics
  <2>3. \A s \in Side : parent[s] = "aborted" \/ s = Place(t) => parent'[s] = "aborted"
    BY <1>0, <2>1
  <2> QED
    BY <2>1, <2>2, <2>3, Tasks DEF HeldWhileWriting
<1>3. CASE ListenerOpens \/ HostAccepts
  <2>1. PICK s \in Side :
           /\ parent[s] = "listen" /\ held' = held
           /\ parent' = [parent EXCEPT ![s] = "forward"]
           /\ pc' = [t \in Task |-> IF t \in TasksOf[s] THEN "top" ELSE pc[t]]
    BY <1>3, Begins
  <2>2. ASSUME NEW u \in Task, Place(u) = s
        PROVE  pc'[u] = "top" /\ held'[u] = <<>>
    <3>1. pc'[u] = "top"
      BY <2>1, <2>2, Tasks
    <3>2. pc[u] \notin Active /\ pc[u] \notin {"panicked", "killed"}
      BY <2>1, <2>2 DEF Serial, HeldWhileWriting
    <3> QED
      BY <2>1, <3>1, <3>2 DEF HeldWhileWriting, Active
  <2>3. ASSUME NEW u \in Task, Place(u) # s
        PROVE  pc'[u] = pc[u] /\ parent'[Place(u)] = parent[Place(u)]
    BY <1>0, <2>1, <2>3, Tasks
  <2> QED
    BY <2>1, <2>2, <2>3 DEF HeldWhileWriting
<1>4. CASE Settles
  <2>1. pc' = pc /\ held' = held
    BY <1>4 DEF Settles
  <2>2. \A s \in Side : parent[s] = "aborted" => parent'[s] = "aborted"
    BY <1>0, <1>4 DEF Settles
  <2> QED
    BY <2>1, <2>2, Tasks DEF HeldWhileWriting
<1> QED
  BY <1>1, <1>2, <1>3, <1>4, Kinds


-----------------------------------------------------------------------------
(* The bytes.                                                              *)

\* A write puts what is held behind what the stream has.
LEMMA WriteAdds ==
  ASSUME TypeOK, Serial, NEW t \in Task, WriteOut(t)
  PROVE  /\ Own(t) \in Stream
         /\ \E s \in Seq(Byte) :
              /\ Len(s) = Len(data[Own(t)]) + Len(held[t])
              /\ \A i \in 1..Len(data[Own(t)]) : s[i] = data[Own(t)][i]
              /\ \A i \in 1..Len(held[t]) : s[Len(data[Own(t)]) + i] = held[t][i]
              /\ data' = [data EXCEPT ![Own(t)] = s]
<1> DEFINE b == data[Own(t)]
           h == held[t]
<1>1. Own(t) \in Stream /\ pc[t] = "write"
  BY OwnStream DEF WriteOut
<1>2. b \in Seq(Byte) /\ h \in Seq(Byte)
  BY <1>1 DEF TypeOK
<1>3. data' = [data EXCEPT ![Own(t)] = b \o h]
  BY DEF WriteOut
<1> HIDE DEF b, h
<1>4. /\ b \o h \in Seq(Byte) /\ Len(b \o h) = Len(b) + Len(h)
      /\ \A i \in 1..Len(b) : (b \o h)[i] = b[i]
      /\ \A i \in 1..Len(h) : (b \o h)[Len(b) + i] = h[i]
  BY <1>2
<1> QED
  BY <1>1, <1>3, <1>4 DEF b, h

\* Only these steps move bytes on the streams.
LEMMA StreamSteps ==
  ASSUME [Next]_vars
  PROVE  \/ \E t \in Task : WriteOut(t) /\ rd' = rd
         \/ \E t \in Readers : \E n \in 1..BufferSize : Reads(t, n) /\ data' = data
         \/ LoseLink /\ rd' = rd
         \/ UNCHANGED <<data, rd>>
<1> USE DEF streams
<1>1. ASSUME NEW t \in Task, TaskStep(t)
      PROVE  (WriteOut(t) /\ rd' = rd) \/ UNCHANGED <<data, rd>>
  BY <1>1 DEF TaskStep, LoopTop, StopArm, SleepArm, EofArm, ReadFails, WriteOut, WritePanics
<1>2. CASE ClientTakes \/ HostTakes \/ ClientSkips
  BY <1>2 DEF ClientTakes, HostTakes, ClientSkips
<1>3. CASE ClientDelivers \/ HostDelivers \/ HostSendPanics
  BY <1>3, Tasks DEF ClientDelivers, HostDelivers, HostSendPanics
<1>4. CASE ListenerOpens \/ ListenerFails \/ ListenerStops \/ HostAccepts \/ HostAcceptFails
  BY <1>4 DEF ListenerOpens, ListenerFails, ListenerStops, HostAccepts, HostAcceptFails
<1>5. ASSUME NEW s \in Side, JoinReturns(s) \/ SendStop(s)
      PROVE  UNCHANGED <<data, rd>>
  BY <1>5 DEF JoinReturns, SendStop
<1>6. CASE LoseLink
  BY <1>6 DEF LoseLink
<1>7. CASE Tick \/ ServiceReplies \/ ServiceChanges
  BY <1>7 DEF Tick, ServiceReplies, ServiceChanges
<1>8. ASSUME NEW a \in App, AppSends(a)
      PROVE  UNCHANGED <<data, rd>>
  BY <1>8 DEF AppSends
<1>9. CASE UNCHANGED vars
  BY <1>9 DEF vars
<1> QED
  BY <1>1, <1>2, <1>3, <1>4, <1>5, <1>6, <1>7, <1>8, <1>9, Steps

\* A reader takes at most what its stream holds.
LEMMA ReadingStep ==
  ASSUME TypeOK, Serial, Reading, [Next]_vars
  PROVE  Reading'
<1>0. data \in [Stream -> Seq(Byte)] /\ rd \in [Stream -> Nat]
  BY DEF TypeOK
<1>1. ASSUME NEW t \in Task, WriteOut(t), rd' = rd
      PROVE  Reading'
  <2>1. PICK s \in Seq(Byte) :
          /\ Len(s) = Len(data[Own(t)]) + Len(held[t])
          /\ data' = [data EXCEPT ![Own(t)] = s]
    BY <1>1, WriteAdds
  <2>2. Len(s) \in Nat /\ Len(held[t]) \in Nat
    BY DEF TypeOK
  <2>3. \A c \in Stream : c # Own(t) => data'[c] = data[c]
    BY <1>0, <2>1
  <2>4. Own(t) \in Stream /\ data'[Own(t)] = s
    BY <1>0, <1>1, <2>1, WriteAdds
  <2>5. Len(data[Own(t)]) \in Nat /\ rd[Own(t)] \in Nat /\ rd[Own(t)] <= Len(data[Own(t)])
    BY <1>0, <2>4 DEF Reading
  <2>6. rd'[Own(t)] <= Len(data'[Own(t)])
    <3>1. rd[Own(t)] <= Len(s)
      <4> DEFINE k == Len(data[Own(t)])
                 h == Len(held[t])
                 r == rd[Own(t)]
      <4>1. k \in Nat /\ h \in Nat /\ r \in Nat /\ r <= k /\ Len(s) = k + h
        BY <2>1, <2>2, <2>5
      <4> HIDE DEF k, h, r
      <4>2. r <= Len(s)
        BY <4>1
      <4> QED
        BY <4>2 DEF r
    <3> QED
      BY <1>1, <2>4, <3>1, Zenon
  <2> QED
    BY <1>1, <2>3, <2>6 DEF Reading
<1>2. ASSUME NEW t \in Readers, NEW n \in 1..BufferSize, Reads(t, n), data' = data
      PROVE  Reading'
  <2>0. t \in Task
    BY Tasks
  <2>1. /\ Own(t) \in Stream /\ rd[Own(t)] + n <= Len(data[Own(t)])
        /\ rd' = [rd EXCEPT ![Own(t)] = rd[Own(t)] + n]
    BY <1>2, <2>0, ReadTakes, Zenon
  <2> QED
    BY <1>0, <1>2, <2>1 DEF Reading
<1>3. CASE LoseLink /\ rd' = rd
  BY <1>3, LossCuts DEF Reading
<1>4. CASE UNCHANGED <<data, rd>>
  BY <1>4 DEF Reading
<1> QED
  BY <1>1, <1>2, <1>3, <1>4, StreamSteps

-----------------------------------------------------------------------------
(* The ends of the tasks.                                                  *)

\* A task that is done with a stream stays so.
LEMMA DoneStays ==
  ASSUME TypeOK, Serial, Reading, [Next]_vars,
         NEW t \in Task, NEW c \in Stream, NEW reasons \in SUBSET Ended,
         DoneWith(t, c, reasons)
  PROVE  DoneWith(t, c, reasons)'
<1>0. /\ turn \in [Side -> 0..MaxSessions] /\ pc \in [Task -> Active \cup Ended]
      /\ Place(t) \in Side /\ MaxSessions \in Nat /\ c[1] \in Nat
      /\ turn[Place(t)] \in Nat
  <2>1. Place(t) \in Side /\ MaxSessions \in Nat
    BY Bounds, Tasks
  <2>2. c[1] \in 1..MaxSessions
    BY DEF Stream, Session
  <2> QED
    BY <2>1, <2>2 DEF TypeOK
<1>1. \A u \in Task : pc[u] \in reasons => pc[u] \notin Active
  BY DEF Ended, Active, Waiting
<1>2. ASSUME NEW u \in Task, Moves(u)
      PROVE  DoneWith(t, c, reasons)'
  <2>1. pc[u] \in Active /\ turn' = turn /\ \A v \in Task : v # u => pc'[v] = pc[v]
    BY <1>0, <1>2 DEF Moves
  <2> QED
    BY <1>1, <2>1 DEF DoneWith
<1>3. ASSUME NEW u \in Task, Panics(u)
      PROVE  DoneWith(t, c, reasons)'
  <2>1. /\ pc[u] \in Active /\ turn' = turn
        /\ \A v \in Task : pc[v] \notin Active => pc'[v] = pc[v]
    BY <1>3, AbortIs DEF Panics
  <2> QED
    BY <1>1, <2>1 DEF DoneWith
<1>4. CASE ListenerOpens \/ HostAccepts
  <2>1. PICK s \in Side :
           /\ turn' = [turn EXCEPT ![s] = turn[s] + 1]
           /\ pc' = [v \in Task |-> IF v \in TasksOf[s] THEN "top" ELSE pc[v]]
    BY <1>4, Begins
  <2>2. CASE Place(t) = s
    <3>1. turn'[Place(t)] = turn[Place(t)] + 1
      BY <1>0, <2>1, <2>2
    <3>2. turn[Place(t)] >= c[1]
      BY <1>0 DEF DoneWith
    <3>3. turn'[Place(t)] > c[1]
      BY <1>0, <3>1, <3>2
    <3> QED
      BY <3>3 DEF DoneWith
  <2>3. CASE Place(t) # s
    <3>1. turn'[Place(t)] = turn[Place(t)] /\ pc'[t] = pc[t]
      BY <1>0, <2>1, <2>3, Tasks
    <3> QED
      BY <3>1 DEF DoneWith
  <2> QED
    BY <2>2, <2>3
<1>5. CASE Settles
  BY <1>5 DEF Settles, DoneWith
<1> QED
  BY <1>2, <1>3, <1>4, <1>5, Kinds

\* A task that ends outside a panic is done with its stream.
Breaks(t, why) ==
  /\ pc[t] \in Active /\ why \in Ended
  /\ Break(t, why)
  /\ turn' = turn

\* Only the end of a task, or of the connection, touches the ends of streams.
LEMMA EndSteps ==
  ASSUME TypeOK, [Next]_vars
  PROVE  \/ \E t \in Task : \E why \in {"stopped", "timedout"} : Breaks(t, why)
         \/ \E t \in Writers : Breaks(t, "eof")
         \/ \E t \in Readers : fin[Own(t)] /\ Breaks(t, "eof")
         \/ LoseLink
         \/ UNCHANGED <<fin, dropped>>
<1> USE DEF streams, loops, Breaks, Active, Waiting, Ended
<1>1. ASSUME NEW t \in Task, TaskStep(t)
      PROVE  \/ \E why \in {"stopped", "timedout"} : Breaks(t, why)
             \/ t \in Readers /\ fin[Own(t)] /\ Breaks(t, "eof")
             \/ UNCHANGED <<fin, dropped>>
  <2>1. CASE StopArm(t)
    BY <2>1 DEF StopArm
  <2>2. CASE SleepArm(t)
    BY <2>2 DEF SleepArm
  <2>3. CASE EofArm(t)
    BY <2>3 DEF EofArm
  <2>4. CASE LoopTop(t) \/ ReadFails(t) \/ WriteOut(t) \/ WritePanics(t)
    BY <2>4 DEF LoopTop, ReadFails, WriteOut, WritePanics
  <2> QED
    BY <1>1, <2>1, <2>2, <2>3, <2>4 DEF TaskStep
<1>2. CASE ClientTakes \/ HostTakes
  <2>1. PICK t \in Writers, d \in {Head(sock), Head(wire)} :
          pc[t] = "select" /\ Take(t, d) /\ UNCHANGED loops
    BY <1>2, Tasks DEF ClientTakes, HostTakes
  <2>2. Breaks(t, "eof") \/ UNCHANGED <<fin, dropped>>
    BY <2>1 DEF Take
  <2> QED
    BY <2>2
<1>3. CASE ClientSkips \/ ClientDelivers \/ HostDelivers \/ HostSendPanics
  BY <1>3 DEF ClientSkips, ClientDelivers, HostDelivers, HostSendPanics
<1>4. CASE ListenerOpens \/ ListenerFails \/ ListenerStops \/ HostAccepts \/ HostAcceptFails
  BY <1>4 DEF ListenerOpens, ListenerFails, ListenerStops, HostAccepts, HostAcceptFails
<1>5. ASSUME NEW s \in Side, JoinReturns(s) \/ SendStop(s)
      PROVE  UNCHANGED <<fin, dropped>>
  BY <1>5 DEF JoinReturns, SendStop
<1>6. CASE Tick \/ ServiceReplies \/ ServiceChanges
  BY <1>6 DEF Tick, ServiceReplies, ServiceChanges
<1>7. ASSUME NEW a \in App, AppSends(a)
      PROVE  UNCHANGED <<fin, dropped>>
  BY <1>7 DEF AppSends
<1>8. CASE UNCHANGED vars
  BY <1>8 DEF vars
<1> QED
  BY <1>1, <1>2, <1>3, <1>4, <1>5, <1>6, <1>7, <1>8, Steps

\* A stream is closed by its writer and left by its reader, as they end.
LEMMA GivenUpStep ==
  ASSUME TypeOK, Serial, Reading, GivenUp, [Next]_vars
  PROVE  GivenUp'
<1>0. /\ fin \in [Stream -> BOOLEAN] /\ dropped \in [Stream -> BOOLEAN]
      /\ pc \in [Task -> Active \cup Ended]
  BY DEF TypeOK
<1>1. ASSUME NEW t \in Task, NEW why \in Ended, Breaks(t, why)
      PROVE  /\ Own(t) \in Stream /\ Own(t)[2] = Way(t)
             /\ \A c \in Stream : c = Own(t) => DoneWith(t, c, {why})'
             /\ \A c \in Stream : c # Own(t) =>
                  fin'[c] = fin[c] /\ dropped'[c] = dropped[c]
             /\ t \in Readers => fin'[Own(t)] = fin[Own(t)]
             /\ t \in Writers => dropped'[Own(t)] = dropped[Own(t)]
  <2>1. pc[t] # "none"
    BY <1>1 DEF Breaks, Active, Waiting
  <2>2. /\ Own(t) \in Stream /\ Own(t)[1] = turn[Place(t)] /\ Own(t)[2] = Way(t)
    BY <2>1, OwnStream
  <2>3. /\ pc' = [pc EXCEPT ![t] = why] /\ turn' = turn
        /\ fin' = [fin EXCEPT ![Own(t)] = fin[Own(t)] \/ (t \in Writers /\ link)]
        /\ dropped' = [dropped EXCEPT ![Own(t)] = dropped[Own(t)] \/ (t \in Readers /\ link)]
    BY <1>1 DEF Breaks, Break
  <2>4. pc'[t] = why
    BY <1>0, <2>3
  <2>5. turn'[Place(t)] = Own(t)[1]
    BY <2>2, <2>3
  <2>6. \A c \in Stream : c = Own(t) => DoneWith(t, c, {why})'
    BY <2>4, <2>5 DEF DoneWith
  <2>7. \A c \in Stream : c # Own(t) => fin'[c] = fin[c] /\ dropped'[c] = dropped[c]
    BY <1>0, <2>3
  <2>8. /\ t \in Readers => fin'[Own(t)] = fin[Own(t)]
        /\ t \in Writers => dropped'[Own(t)] = dropped[Own(t)]
    BY <1>0, <2>2, <2>3, Tasks
  <2> QED
    BY <2>2, <2>6, <2>7, <2>8
<1>2. ASSUME NEW c \in Stream, fin'[c], NEW t \in Writers, Way(t) = c[2]
      PROVE  DoneWith(t, c, Ended)'
  <2> t \in Task
    BY Tasks
  <2>1. CASE fin[c]
    <3>1. DoneWith(t, c, Ended)
      BY <1>2, <2>1 DEF GivenUp
    <3> QED
      BY <3>1, DoneStays
  <2>2. CASE ~fin[c]
    <3>1. PICK u \in Task, why \in Ended : Breaks(u, why)
      <4>1. ~LoseLink
        BY <1>2, <2>2, LossCuts
      <4>2. {"stopped", "timedout", "eof"} \subseteq Ended
        BY DEF Ended
      <4> QED
        BY <1>2, <2>2, <4>1, <4>2, EndSteps, Tasks
    <3>2. c = Own(u) /\ u \in Writers
      BY <1>1, <1>2, <2>2, <3>1, Tasks
    <3>5. Own(u)[2] = Way(u)
      BY <1>1, <3>1
    <3>3. t = u
      BY <1>2, <3>2, <3>5, Tasks
    <3>4. DoneWith(t, c, {why})'
      BY <1>1, <3>1, <3>2, <3>3
    <3> QED
      BY <3>4 DEF DoneWith
  <2> QED
    BY <2>1, <2>2
<1>3. ASSUME NEW c \in Stream, dropped'[c], NEW u \in Readers, Way(u) = c[2]
      PROVE  \/ DoneWith(u, c, {"stopped", "timedout"})'
             \/ /\ DoneWith(u, c, {"eof"})'
                /\ \A t \in Writers : Way(t) = c[2] => DoneWith(t, c, Ended)'
  <2> /\ u \in Task /\ Writers \subseteq Task
      /\ {"stopped", "timedout"} \in SUBSET Ended /\ {"eof"} \in SUBSET Ended
    BY Tasks DEF Ended
  <2>1. CASE dropped[c]
    <3>1. \/ DoneWith(u, c, {"stopped", "timedout"})
          \/ DoneWith(u, c, {"eof"})
             /\ \A t \in Writers : Way(t) = c[2] => DoneWith(t, c, Ended)
      BY <1>3, <2>1 DEF GivenUp
    <3>2. CASE DoneWith(u, c, {"stopped", "timedout"})
      BY <3>2, DoneStays
    <3>3. CASE /\ DoneWith(u, c, {"eof"})
               /\ \A t \in Writers : Way(t) = c[2] => DoneWith(t, c, Ended)
      BY <3>3, DoneStays
    <3> QED
      BY <3>1, <3>2, <3>3
  <2>2. CASE ~dropped[c]
    <3>0. dropped' # dropped /\ ~LoseLink
      BY <1>3, <2>2 DEF LoseLink
    <3>1. ASSUME NEW t \in Task, NEW why \in Ended, Breaks(t, why)
          PROVE  t = u /\ c = Own(u) /\ DoneWith(u, c, {why})'
      <4>1. c = Own(t) /\ t \in Readers
        BY <1>1, <1>3, <2>2, <3>1, Tasks
      <4>2. Own(t)[2] = Way(t) /\ DoneWith(t, c, {why})'
        BY <1>1, <3>1, <4>1
      <4>3. t = u
        BY <1>3, <4>1, <4>2, Tasks
      <4> QED
        BY <4>1, <4>2, <4>3
    <3>2. CASE \E t \in Task : \E why \in {"stopped", "timedout"} : Breaks(t, why)
      <4>1. PICK t \in Task, why \in {"stopped", "timedout"} : Breaks(t, why)
        BY <3>2
      <4>2. DoneWith(u, c, {why})'
        BY <3>1, <4>1
      <4> QED
        BY <4>2 DEF DoneWith
    <3>3. CASE \E t \in Writers : Breaks(t, "eof")
      BY <3>1, <3>3, Tasks
    <3>4. CASE \E t \in Readers : fin[Own(t)] /\ Breaks(t, "eof")
      <4>1. fin[c] /\ DoneWith(u, c, {"eof"})'
        BY <3>1, <3>4, Tasks
      <4>2. \A t \in Writers : Way(t) = c[2] => DoneWith(t, c, Ended)
        BY <4>1 DEF GivenUp
      <4>3. \A t \in Writers : Way(t) = c[2] => DoneWith(t, c, Ended)'
        BY <4>2, DoneStays
      <4> QED
        BY <4>1, <4>3
    <3> QED
      BY <3>0, <3>2, <3>3, <3>4, EndSteps
  <2> QED
    BY <2>1, <2>2
<1> QED
  BY <1>2, <1>3 DEF GivenUp


-----------------------------------------------------------------------------
(* The timers.                                                             *)

\* Only the top of a loop sets a sleep, only Tick lets time pass.
LEMMA ClockSteps ==
  ASSUME TypeOK, Serial, Reading, [Next]_vars, NEW t \in Task, pc'[t] \in Waiting
  PROVE  \/ LoopTop(t)
         \/ Tick
         \/ /\ pc[t] \in Waiting /\ timer'[t] = timer[t]
            /\ idle'[Place(t)] \in {0, idle[Place(t)]}
<1>0. /\ pc \in [Task -> Active \cup Ended] /\ timer \in [Task -> 0..Timeout]
      /\ idle \in [Side -> 0..Timeout] /\ Place(t) \in Side
  BY Tasks DEF TypeOK
<1> DEFINE Keeps(u) == /\ pc[u] \in Waiting /\ timer'[u] = timer[u]
                       /\ idle'[Place(u)] \in {0, idle[Place(u)]}
<1> USE DEF Waiting
<1>13. ASSUME NEW u \in Task, Abort(u)
       PROVE  pc[t] \in Waiting /\ timer'[t] = timer[t] /\ Place(t) # Place(u)
  <2>1. /\ pc'[u] = "panicked"
        /\ t # u => \/ Place(t) = Place(u) /\ pc[t] \in Active /\ pc'[t] = "killed"
                    \/ Place(t) # Place(u) /\ pc'[t] = pc[t]
                    \/ pc[t] \notin Active /\ pc'[t] = pc[t]
    BY <1>13, AbortIs
  <2>2. Place(t) # Place(u) /\ pc'[t] = pc[t]
    BY <2>1 DEF Active
  <2>3. t \notin TasksOf[Place(u)]
    BY <2>2, Tasks
  <2>4. timer'[t] = timer[t]
    BY <1>13, <2>3 DEF Abort
  <2> QED
    BY <2>2, <2>4
<1>1. ASSUME NEW u \in Task, TaskStep(u), ~LoopTop(t)
      PROVE  Keeps(t)
  <2>1. CASE LoopTop(u)
    BY <1>0, <1>1, <2>1 DEF LoopTop
  <2>2. CASE StopArm(u)
    BY <1>0, <2>2 DEF StopArm, Break
  <2>3. CASE SleepArm(u)
    BY <1>0, <2>3 DEF SleepArm, Break
  <2>4. CASE EofArm(u)
    BY <1>0, <2>4 DEF EofArm, Break
  <2>5. CASE ReadFails(u)
    BY <1>0, <2>5 DEF ReadFails
  <2>6. CASE WriteOut(u)
    BY <1>0, <2>6 DEF WriteOut
  <2>7. CASE WritePanics(u)
    BY <1>13, <2>7 DEF WritePanics
  <2> QED
    BY <1>1, <2>1, <2>2, <2>3, <2>4, <2>5, <2>6, <2>7 DEF TaskStep
<1>2. CASE ClientTakes \/ HostTakes
  <2>1. PICK u \in Task, d \in {Head(sock), Head(wire)} :
          pc[u] = "select" /\ Take(u, d)
    BY <1>2, Tasks DEF ClientTakes, HostTakes
  <2> QED
    BY <1>0, <2>1, Tasks DEF Take, Break
<1>3. CASE ClientSkips
  BY <1>0, <1>3, Tasks DEF ClientSkips
<1>4. CASE ClientDelivers \/ HostDelivers
  <2>1. PICK u \in Task, n \in 1..BufferSize : Reads(u, n) /\ Again(u)
    BY <1>4, Tasks DEF ClientDelivers, HostDelivers
  <2> QED
    BY <1>0, <2>1, Tasks DEF Reads, Again
<1>5. CASE HostSendPanics
  <2>1. PICK u \in Task, n \in 1..BufferSize : Reads(u, n) /\ Abort(u)
    BY <1>5, Tasks DEF HostSendPanics
  <2> QED
    BY <1>0, <1>13, <2>1, Tasks DEF Reads
<1>6. CASE ListenerOpens
  BY <1>0, <1>6, Tasks DEF ListenerOpens, Begin
<1>7. CASE HostAccepts
  BY <1>0, <1>7, Tasks DEF HostAccepts, Begin
<1>8. CASE ListenerFails \/ ListenerStops \/ HostAcceptFails
  BY <1>8 DEF ListenerFails, ListenerStops, HostAcceptFails
<1>9. ASSUME NEW s \in Side, JoinReturns(s) \/ SendStop(s)
      PROVE  Keeps(t)
  BY <1>9 DEF JoinReturns, SendStop
<1>10. CASE LoseLink \/ ServiceReplies \/ ServiceChanges
  BY <1>10 DEF LoseLink, ServiceReplies, ServiceChanges
<1>11. ASSUME NEW a \in App, AppSends(a)
       PROVE  Keeps(t)
  BY <1>11 DEF AppSends
<1>12. CASE UNCHANGED vars
  BY <1>12 DEF vars
<1> QED
  BY <1>1, <1>2, <1>3, <1>4, <1>5, <1>6, <1>7, <1>8, <1>9, <1>10, <1>11, <1>12, Steps

\* A sleep is set to what is left of Timeout, and a datagram of either way
\* only makes the session less idle.
LEMMA NoOversleepStep ==
  ASSUME TypeOK, Serial, Reading, NoOversleep, [Next]_vars
  PROVE  NoOversleep'
<1> SUFFICES ASSUME NEW t \in Task, pc'[t] \in Waiting
             PROVE  timer'[t] + idle'[Place(t)] <= Timeout
  BY DEF NoOversleep
<1>0. /\ pc \in [Task -> Active \cup Ended] /\ timer \in [Task -> 0..Timeout]
      /\ idle \in [Side -> 0..Timeout] /\ Place(t) \in Side /\ Timeout \in Nat
  BY Tasks, Bounds DEF TypeOK
<1>1. CASE LoopTop(t)
  BY <1>0, <1>1 DEF LoopTop
<1>2. CASE Tick
  <2>1. pc[t] \in Waiting /\ timer[t] + idle[Place(t)] <= Timeout
    BY <1>2 DEF Tick, NoOversleep
  <2>2. /\ timer'[t] = IF timer[t] > 0 THEN timer[t] - 1 ELSE timer[t]
        /\ idle'[Place(t)] = IF parent[Place(t)] = "forward" /\ idle[Place(t)] < Timeout
                             THEN idle[Place(t)] + 1 ELSE idle[Place(t)]
    BY <1>0, <1>2, <2>1 DEF Tick
  <2> QED
    BY <1>0, <2>1, <2>2
<1>3. CASE /\ pc[t] \in Waiting /\ timer'[t] = timer[t]
           /\ idle'[Place(t)] \in {0, idle[Place(t)]}
  <2>1. timer[t] + idle[Place(t)] <= Timeout
    BY <1>3 DEF NoOversleep
  <2>2. timer[t] \in 0..Timeout /\ idle[Place(t)] \in 0..Timeout
    BY <1>0
  <2> QED
    BY <1>0, <1>3, <2>1, <2>2
<1> QED
  BY <1>1, <1>2, <1>3, ClockSteps


-----------------------------------------------------------------------------
(* The panics.                                                             *)

\* Nothing is unread, and a lost connection does not come back.
LEMMA Onwards ==
  ASSUME TypeOK, Serial, Reading, [Next]_vars
  PROVE  /\ \A c \in Stream : rd'[c] >= rd[c]
         /\ link' => link
<1>0. rd \in [Stream -> Nat]
  BY DEF TypeOK
<1>1. \A c \in Stream : rd'[c] >= rd[c]
  <2>1. ASSUME NEW t \in Readers, NEW n \in 1..BufferSize, Reads(t, n)
        PROVE  \A c \in Stream : rd'[c] >= rd[c]
    <3>0. t \in Task
      BY Tasks
    <3>1. /\ rd' = [rd EXCEPT ![Own(t)] = rd[Own(t)] + n] /\ n \in Nat
          /\ Own(t) \in Stream
      BY <2>1, <3>0, ReadTakes, Zenon
    <3>2. rd[Own(t)] \in Nat /\ rd[Own(t)] + n >= rd[Own(t)]
      BY <1>0, <3>1
    <3>3. \A c \in Stream : rd[c] \in Nat /\ rd[c] >= rd[c]
      BY <1>0
    <3> QED
      BY <1>0, <3>1, <3>2, <3>3
  <2>2. CASE rd' = rd
    BY <1>0, <2>2
  <2> QED
    BY <2>1, <2>2, StreamSteps
<1>2. link' => link
  <2> USE DEF loops
  <2>1. ASSUME NEW t \in Task, TaskStep(t)
        PROVE  link' = link
    BY <2>1 DEF TaskStep, LoopTop, StopArm, SleepArm, EofArm, ReadFails, WriteOut, WritePanics
  <2>2. CASE \/ ClientTakes \/ ClientSkips \/ ClientDelivers
             \/ HostDelivers \/ HostSendPanics \/ HostTakes
    BY <2>2 DEF ClientTakes, ClientSkips, ClientDelivers, HostDelivers, HostSendPanics, HostTakes
  <2>3. CASE ListenerOpens \/ ListenerFails \/ ListenerStops \/ HostAccepts \/ HostAcceptFails
    BY <2>3 DEF ListenerOpens, ListenerFails, ListenerStops, HostAccepts, HostAcceptFails
  <2>4. ASSUME NEW s \in Side, JoinReturns(s) \/ SendStop(s)
        PROVE  link' = link
    BY <2>4 DEF JoinReturns, SendStop
  <2>5. CASE LoseLink \/ Tick \/ ServiceReplies \/ ServiceChanges
    BY <2>5 DEF LoseLink, Tick, ServiceReplies, ServiceChanges
  <2>6. ASSUME NEW a \in App, AppSends(a)
        PROVE  link' = link
    BY <2>6 DEF AppSends
  <2>7. CASE UNCHANGED vars
    BY <2>7 DEF vars
  <2> QED
    BY <2>1, <2>2, <2>3, <2>4, <2>5, <2>6, <2>7, Steps
<1> QED
  BY <1>1, <1>2

\* A side takes up a session only from its listening loop.
LEMMA TurnStays ==
  ASSUME TypeOK, Serial, Reading, [Next]_vars, NEW s \in Side
  PROVE  /\ parent[s] # "listen" => turn'[s] = turn[s]
         /\ turn'[s] = turn[s] \/ turn'[s] = turn[s] + 1
         /\ s = "host" => turn'[s] = turn[s] \/ HostAccepts
<1>0. turn \in [Side -> 0..MaxSessions]
  BY DEF TypeOK
<1>1. CASE ListenerOpens \/ HostAccepts
  BY <1>0, <1>1, Begins
<1>2. ASSUME NEW t \in Task, Moves(t) \/ Panics(t)
      PROVE  turn' = turn
  BY <1>2, AbortIs DEF Moves, Panics
<1>3. CASE Settles
  BY <1>3 DEF Settles
<1> QED
  BY <1>1, <1>2, <1>3, Kinds

\* What the service was shown, and the error that may wait at the session's
\* socket.
LEMMA ServiceSteps ==
  ASSUME TypeOK, [Next]_vars
  PROVE  \/ HostDelivers
         \/ seen' = seen /\ (refused' => refused)
<1> USE DEF ends, sockets, loops
<1>1. ASSUME NEW t \in Task, TaskStep(t)
      PROVE  seen' = seen /\ (refused' => refused)
  <2>1. seen' = seen
    BY <1>1 DEF TaskStep, LoopTop, StopArm, SleepArm, EofArm, ReadFails, WriteOut, WritePanics
  <2>2. CASE ReadFails(t)
    <3>1. CASE UNCHANGED refused
      BY <2>1, <3>1
    <3>2. CASE refused' = FALSE
      BY <2>1, <3>2
    <3> QED
      BY <2>2, <3>1, <3>2 DEF ReadFails
  <2>3. CASE ~ReadFails(t)
    <3>1. UNCHANGED refused
      BY <1>1, <2>3 DEF TaskStep, LoopTop, StopArm, SleepArm, EofArm, WriteOut, WritePanics
    <3> QED
      BY <2>1, <3>1
  <2> QED
    BY <2>2, <2>3
<1>2. CASE ClientTakes \/ ClientSkips \/ ClientDelivers \/ HostSendPanics \/ HostTakes
  BY <1>2 DEF ClientTakes, ClientSkips, ClientDelivers, HostSendPanics, HostTakes
<1>3. CASE ListenerOpens \/ ListenerFails \/ ListenerStops \/ HostAccepts \/ HostAcceptFails
  BY <1>3 DEF ListenerOpens, ListenerFails, ListenerStops, HostAccepts, HostAcceptFails
<1>4. ASSUME NEW s \in Side, JoinReturns(s) \/ SendStop(s)
      PROVE  seen' = seen /\ (refused' => refused)
  BY <1>4 DEF JoinReturns, SendStop
<1>5. CASE LoseLink \/ Tick \/ ServiceReplies \/ ServiceChanges
  BY <1>5 DEF LoseLink, Tick, ServiceReplies, ServiceChanges
<1>6. ASSUME NEW a \in App, AppSends(a)
      PROVE  seen' = seen /\ (refused' => refused)
  BY <1>6 DEF AppSends
<1>7. CASE UNCHANGED vars
  BY <1>7 DEF vars
<1> QED
  BY <1>1, <1>2, <1>3, <1>4, <1>5, <1>6, <1>7, Steps

\* The host's reader hands on what it read, or the service misses it.
LEMMA HostHands ==
  ASSUME TypeOK, Serial, Reading, HostDelivers
  PROVE  \E n \in Nat \ {0} :
           LET m == turn["host"]
               c == <<turn["host"], "up">>
               r == Chunk("host_tunnel_to_udp", n)
           IN /\ m \in Session /\ c \in Stream
              /\ r \in Seq(Byte) /\ Len(r) = n
              /\ rd[c] + n <= Len(data[c])
              /\ \A i \in 1..n : r[i] = data[c][rd[c] + i]
              /\ rd' = [rd EXCEPT ![c] = rd[c] + n]
              /\ \/ service /\ ~refused' /\ seen' = [seen EXCEPT ![m] = seen[m] \o r]
                 \/ ~service /\ refused' /\ seen' = seen
              /\ turn' = turn /\ owner' = owner /\ pc["host_tunnel_to_udp"] = "select"
<1> DEFINE t == "host_tunnel_to_udp"
           m == turn["host"]
<1>1. PICK n \in 1..BufferSize :
        /\ Reads(t, n)
        /\ refused' = ~service
        /\ seen' = [seen EXCEPT ![m] = IF service THEN seen[m] \o Chunk(t, n) ELSE seen[m]]
        /\ UNCHANGED loops
  BY DEF HostDelivers
<1>2. t \in Task /\ Own(t) = <<m, "up">>
  BY Tasks DEF Own
<1>3. /\ Own(t) \in Stream /\ pc[t] = "select" /\ n \in Nat \ {0}
      /\ Chunk(t, n) \in Seq(Byte) /\ Len(Chunk(t, n)) = n
      /\ rd[Own(t)] + n <= Len(data[Own(t)])
      /\ \A i \in 1..n : Chunk(t, n)[i] = data[Own(t)][rd[Own(t)] + i]
      /\ rd' = [rd EXCEPT ![Own(t)] = rd[Own(t)] + n]
  BY <1>1, <1>2, ReadTakes, Zenon
<1>4. m \in Session
  BY <1>2, <1>3, OwnStream, Tasks
<1>5. turn' = turn /\ owner' = owner
  BY <1>1 DEF loops
<1>6. \/ service /\ ~refused' /\ seen' = [seen EXCEPT ![m] = seen[m] \o Chunk(t, n)]
      \/ ~service /\ refused' /\ seen' = seen
  <2>1. CASE service
    BY <1>1, <2>1
  <2>2. CASE ~service
    <3>1. seen \in [Session -> Seq(Byte)]
      BY DEF TypeOK
    <3> QED
      BY <1>1, <2>2, <3>1
  <2> QED
    BY <2>1, <2>2
<1> HIDE DEF t, m
<1>7. /\ <<m, "up">> \in Stream /\ rd[<<m, "up">>] + n <= Len(data[<<m, "up">>])
      /\ \A i \in 1..n : Chunk(t, n)[i] = data[<<m, "up">>][rd[<<m, "up">>] + i]
      /\ rd' = [rd EXCEPT ![<<m, "up">>] = rd[<<m, "up">>] + n]
  BY <1>2, <1>3
<1> QED
  BY <1>3, <1>4, <1>5, <1>6, <1>7, Zenon DEF t, m

\* The service is shown what was read, and an error is queued at a session's
\* socket by a datagram it has missed.
LEMMA MissedStep ==
  ASSUME TypeOK, Serial, Reading, Missed, [Next]_vars
  PROVE  Missed'
<1>0. /\ rd \in [Stream -> Nat] /\ seen \in [Session -> Seq(Byte)]
      /\ turn \in [Side -> 0..MaxSessions] /\ MaxSessions \in Nat
      /\ \A n \in Session : <<n, "up">> \in Stream
      /\ \A n \in Session : Len(seen[n]) \in Nat
  BY Bounds DEF TypeOK, Stream
<1>1. CASE HostDelivers
  <2> DEFINE m == turn["host"]
             c == <<turn["host"], "up">>
  <2>1. PICK n \in Nat \ {0}, r \in Seq(Byte) :
           /\ m \in Session /\ c \in Stream /\ Len(r) = n
           /\ rd' = [rd EXCEPT ![c] = rd[c] + n]
           /\ \/ ~refused' /\ seen' = [seen EXCEPT ![m] = seen[m] \o r]
              \/ refused' /\ seen' = seen
           /\ turn' = turn
    BY <1>1, HostHands
  <2>2. rd'[c] = rd[c] + n /\ Len(seen[m]) <= rd[c] /\ Len(seen[m]) \in Nat /\ rd[c] \in Nat
    BY <1>0, <2>1 DEF Missed
  <2>3. \A k \in Session : k # m =>
          Len(seen'[k]) = Len(seen[k]) /\ rd'[<<k, "up">>] = rd[<<k, "up">>]
    BY <1>0, <2>1
  <2>4. Len(seen'[m]) <= rd'[c]
    <3>1. seen[m] \in Seq(Byte)
      BY <1>0, <2>1
    <3>2. Len(seen[m] \o r) = Len(seen[m]) + n
      <4>1. Len(r) = n /\ r \in Seq(Byte)
        BY <2>1
      <4> QED
        BY <3>1, <4>1, ConcatProperties
    <3>3. seen'[m] = seen[m] \o r \/ seen'[m] = seen[m]
      BY <1>0, <2>1
    <3>4. Len(seen'[m]) = Len(seen[m]) + n \/ Len(seen'[m]) = Len(seen[m])
      BY <3>2, <3>3
    <3> QED
      BY <2>1, <2>2, <3>4
  <2>5. refused' => Len(seen'[m]) < rd'[c]
    <3> SUFFICES ASSUME refused' PROVE Len(seen'[m]) < rd'[c]
      OBVIOUS
    <3>1. seen' = seen
      BY <2>1
    <3> QED
      BY <2>1, <2>2, <3>1
  <2>6. m >= 1 /\ turn' = turn
    BY <2>1 DEF Session
  <2> QED
    BY <2>3, <2>4, <2>5, <2>6 DEF Missed
<1>2. CASE seen' = seen /\ (refused' => refused) /\ ~HostDelivers
  <2>1. \A n \in Session : Len(seen'[n]) <= rd'[<<n, "up">>]
    <3> SUFFICES ASSUME NEW n \in Session PROVE Len(seen'[n]) <= rd'[<<n, "up">>]
      OBVIOUS
    <3>1. /\ Len(seen[n]) \in Nat /\ rd[<<n, "up">>] \in Nat
          /\ rd'[<<n, "up">>] \in Nat
          /\ rd'[<<n, "up">>] >= rd[<<n, "up">>]
          /\ Len(seen[n]) <= rd[<<n, "up">>]
      <4>1. rd' \in [Stream -> Nat]
        BY StreamSteps, <1>0, ReadTakes, Tasks
      <4> QED
        BY <1>0, <4>1, Onwards DEF Missed
    <3> QED
      BY <1>2, <3>1
  <2>2. ASSUME refused'
        PROVE  turn'["host"] >= 1 /\ Len(seen'[turn'["host"]]) < rd'[<<turn'["host"], "up">>]
    <3> DEFINE m == turn["host"]
               c == <<turn["host"], "up">>
    <3>1. ~HostAccepts /\ refused
      BY <1>2, <2>2 DEF HostAccepts
    <3>2. m >= 1 /\ Len(seen[m]) < rd[c]
      BY <3>1 DEF Missed
    <3>3. turn'["host"] = m
      BY <3>1, TurnStays, Tasks
    <3>4. m \in Session /\ c \in Stream
      BY <1>0, <3>2, Tasks DEF Session
    <3>5. rd'[c] >= rd[c]
      BY <3>4, Onwards
    <3>6. rd' \in [Stream -> Nat]
      BY StreamSteps, <1>0, ReadTakes, Tasks
    <3>7. Len(seen[m]) \in Nat /\ rd[c] \in Nat /\ rd'[c] \in Nat
      BY <1>0, <3>4, <3>6
    <3>8. Len(seen[m]) < rd'[c]
      BY <3>2, <3>5, <3>7
    <3> QED
      BY <1>2, <3>2, <3>3, <3>8
  <2> QED
    BY <2>1, <2>2 DEF Missed
<1> QED
  BY <1>1, <1>2, ServiceSteps

\* Who panics does so by its own unwrap, and nothing else changes with it.
LEMMA PanicSteps ==
  ASSUME TypeOK, Serial, Reading, [Next]_vars,
         NEW t \in Task, pc'[t] = "panicked", pc[t] # "panicked"
  PROVE  Panics(t)
<1>0. pc \in [Task -> Active \cup Ended]
  BY DEF TypeOK
<1>1. ASSUME NEW u \in Task, Moves(u)
      PROVE  FALSE
  BY <1>0, <1>1 DEF Moves
<1>2. ASSUME NEW u \in Task, Panics(u)
      PROVE  u = t
  BY <1>2, AbortIs DEF Panics
<1>3. CASE ListenerOpens \/ HostAccepts
  BY <1>0, <1>3, Begins
<1>4. CASE Settles
  BY <1>4 DEF Settles
<1> QED
  BY <1>1, <1>2, <1>3, <1>4, Kinds

\* What a task holds that has ended it keeps, while its side is gone.
LEMMA HeldStays ==
  ASSUME TypeOK, Serial, Reading, [Next]_vars, NEW t \in Task, pc[t] = "panicked"
  PROVE  held'[t] = held[t]
<1>0. held \in [Task -> Seq(Byte)] /\ "panicked" \notin Active
  BY DEF TypeOK, Active, Waiting
<1>1. ASSUME NEW u \in Task, Moves(u)
      PROVE  held'[t] = held[t]
  <2>1. u # t
    BY <1>0, <1>1 DEF Moves
  <2> QED
    BY <1>0, <1>1, <2>1 DEF Moves
<1>2. ASSUME NEW u \in Task, Panics(u)
      PROVE  held'[t] = held[t]
  BY <1>0, <1>2 DEF Panics
<1>3. CASE ListenerOpens \/ HostAccepts
  BY <1>3, Begins
<1>4. CASE Settles
  BY <1>4 DEF Settles
<1> QED
  BY <1>1, <1>2, <1>3, <1>4, Kinds

\* What makes a write or a send fail stays true: a lost connection, a reader
\* that gave up, a datagram missed.
LEMMA PanicHasCauseStep ==
  ASSUME TypeOK, Serial, Reading, HeldWhileWriting, GivenUp, Missed,
         PanicHasCause, [Next]_vars
  PROVE  PanicHasCause'
<1> DEFINE
      Lost(t) == t \in Writers /\ ~link
      Left(t) == t \in Writers /\ \E u \in Readers :
                   /\ Way(u) = Way(t)
                   /\ \/ turn[Place(u)] > turn[Place(t)]
                      \/ Own(u) = Own(t) /\ pc[u] \in {"stopped", "timedout"}
      Short(t) == t = "host_tunnel_to_udp"
                  /\ Len(seen[turn["host"]]) + Len(held[t]) < rd[Own(t)]
<1> SUFFICES ASSUME NEW t \in Task, pc'[t] = "panicked"
             PROVE  Lost(t)' \/ Left(t)' \/ Short(t)'
  BY DEF PanicHasCause
<1>0. /\ turn \in [Side -> 0..MaxSessions] /\ MaxSessions \in Nat
      /\ pc \in [Task -> Active \cup Ended]
      /\ seen \in [Session -> Seq(Byte)] /\ held \in [Task -> Seq(Byte)]
      /\ rd \in [Stream -> Nat]
  BY Bounds DEF TypeOK
\* The second cause, in the words of GivenUp.
<1>1. ASSUME NEW u \in Readers, Way(u) = Way(t), pc[t] # "none"
      PROVE  /\ DoneWith(u, Own(t), {"stopped", "timedout"}) <=>
                  \/ turn[Place(u)] > turn[Place(t)]
                  \/ Own(u) = Own(t) /\ pc[u] \in {"stopped", "timedout"}
             /\ Own(t) \in Stream
  <2>1. Own(t) = <<turn[Place(t)], Way(t)>> /\ Own(u) = <<turn[Place(u)], Way(t)>>
    BY <1>1 DEF Own
  <2>2. Own(u) = Own(t) <=> turn[Place(u)] = turn[Place(t)]
    BY <2>1
  <2>3. Own(t) \in Stream /\ Own(t)[1] = turn[Place(t)]
    BY <1>1, OwnStream
  <2> QED
    BY <2>2, <2>3 DEF DoneWith
<1>2. ASSUME pc[t] # "none", turn'[Place(t)] = turn[Place(t)],
             NEW u \in Readers, Way(u) = Way(t),
             DoneWith(u, Own(t), {"stopped", "timedout"})
      PROVE  \/ turn'[Place(u)] > turn'[Place(t)]
             \/ Own(u)' = Own(t)' /\ pc'[u] \in {"stopped", "timedout"}
  <2>1. PICK c \in Stream : c = Own(t)
    BY <1>1, <1>2
  <2>2. u \in Task /\ {"stopped", "timedout"} \in SUBSET Ended
    BY Tasks DEF Ended
  <2>3. DoneWith(u, c, {"stopped", "timedout"})
    BY <1>2, <2>1
  <2>4. DoneWith(u, c, {"stopped", "timedout"})'
    BY <2>2, <2>3, DoneStays
  <2>5. c = <<turn'[Place(t)], Way(t)>> /\ c[1] = turn'[Place(t)]
    BY <1>2, <2>1 DEF Own
  <2>6. Own(t)' = <<turn'[Place(t)], Way(t)>> /\ Own(u)' = <<turn'[Place(u)], Way(t)>>
    BY <1>2 DEF Own
  <2> QED
    BY <2>4, <2>5, <2>6 DEF DoneWith
<1>3. CASE pc[t] = "panicked"
  <2>0. parent[Place(t)] = "aborted" /\ Place(t) \in Side /\ pc[t] # "none"
    BY <1>3, Tasks DEF HeldWhileWriting
  <2>1. turn'[Place(t)] = turn[Place(t)]
    BY <2>0, TurnStays
  <2>2. Lost(t) \/ Left(t) \/ Short(t)
    BY <1>3 DEF PanicHasCause
  <2>3. CASE Lost(t)
    BY <2>3, Onwards
  <2>4. CASE Left(t)
    <3>1. PICK u \in Readers :
            /\ Way(u) = Way(t)
            /\ \/ turn[Place(u)] > turn[Place(t)]
               \/ Own(u) = Own(t) /\ pc[u] \in {"stopped", "timedout"}
      BY <2>4
    <3>2. \/ turn'[Place(u)] > turn'[Place(t)]
          \/ Own(u)' = Own(t)' /\ pc'[u] \in {"stopped", "timedout"}
      BY <1>1, <1>2, <2>0, <2>1, <3>1
    <3> QED
      BY <2>4, <3>1, <3>2
  <2>5. CASE Short(t)
    <3> DEFINE m == turn["host"]
               c == <<turn["host"], "up">>
    <3>1. Own(t) = c /\ Own(t)' = <<turn'["host"], "up">> /\ turn'["host"] = m
      BY <2>1, <2>5, Tasks DEF Own
    <3>2. ~HostDelivers
      BY <1>3, <2>5 DEF HostDelivers, Reads
    <3>3. seen' = seen
      BY <3>2, ServiceSteps
    <3>4. held'[t] = held[t]
      BY <1>3, HeldStays
    <3>5. c \in Stream /\ m \in Session
      BY <2>0, <2>5, <3>1, OwnStream, Tasks
    <3>6. rd'[c] >= rd[c]
      BY <3>5, Onwards
    <3>7. rd'[c] \in Nat
      BY <1>0, <3>5, StreamSteps, ReadTakes, Tasks
    <3>8. /\ Len(seen[m]) \in Nat /\ Len(held[t]) \in Nat /\ rd[c] \in Nat
      BY <1>0, <3>5
    <3>11. Len(seen[m]) + Len(held[t]) < rd[c]
      BY <2>5, <3>1
    <3>9. Len(seen[m]) + Len(held[t]) < rd'[c]
      <4> DEFINE k == Len(seen[m])
                 h == Len(held[t])
                 r == rd[c]
                 q == rd'[c]
      <4>1. k \in Nat /\ h \in Nat /\ r \in Nat /\ q \in Nat /\ q >= r /\ k + h < r
        BY <3>6, <3>7, <3>8, <3>11
      <4> HIDE DEF k, h, r, q
      <4>2. k + h < q
        BY <4>1
      <4> QED
        BY <4>2 DEF k, h, q
    <3>10. Len(seen'[turn'["host"]]) + Len(held'[t]) < rd'[Own(t)']
      BY <3>1, <3>3, <3>4, <3>9
    <3> QED
      BY <2>5, <3>10
  <2> QED
    BY <2>2, <2>3, <2>4, <2>5
<1>4. CASE pc[t] # "panicked"
  <2>0. Panics(t)
    BY <1>4, PanicSteps
  <2>1. pc[t] \in Active /\ turn' = turn
        /\ (WritePanics(t) \/ (t = "host_tunnel_to_udp" /\ HostSendPanics))
    BY <2>0, AbortIs DEF Panics
  <2>2. pc[t] # "none" /\ pc[t] \notin Ended
    BY <2>1 DEF Active, Waiting, Ended
  <2>3. CASE WritePanics(t)
    <3>1. t \in Writers /\ pc[t] = "write"
      BY <2>3 DEF WritePanics, HeldWhileWriting
    <3>2. CASE ~link
      BY <3>1, <3>2, Onwards
    <3>3. CASE link
      <4>1. dropped[Own(t)]
        BY <2>3, <3>3 DEF WritePanics
      <4>2. PICK u \in Readers : Way(u) = Way(t)
        BY Tasks DEF Way, Readers, Writers
      <4>3. Own(t) \in Stream /\ Own(t)[2] = Way(t) /\ Own(t)[1] = turn[Place(t)]
        BY <2>2, OwnStream
      <4>4. ~DoneWith(t, Own(t), Ended)
        <5>1. turn[Place(t)] \in 0..MaxSessions
          BY <1>0, Tasks
        <5> QED
          BY <1>0, <2>2, <4>3, <5>1 DEF DoneWith
      <4>5. DoneWith(u, Own(t), {"stopped", "timedout"})
        BY <3>1, <4>1, <4>2, <4>3, <4>4 DEF GivenUp
      <4>6. turn'[Place(t)] = turn[Place(t)]
        BY <2>1
      <4> QED
        BY <1>2, <2>2, <3>1, <4>2, <4>5, <4>6
    <3> QED
      BY <3>2, <3>3
  <2>4. CASE t = "host_tunnel_to_udp" /\ HostSendPanics
    <3> DEFINE m == turn["host"]
               c == <<turn["host"], "up">>
    <3>0. t = "host_tunnel_to_udp"
      BY <2>4
    <3>1. PICK n \in 1..BufferSize :
            /\ Reads(t, n) /\ refused /\ UNCHANGED ends
            /\ held' = [held EXCEPT ![t] = Chunk(t, n)]
      BY <2>4 DEF HostSendPanics
    <3>2. Own(t) = c /\ Own(t)' = c
      BY <2>1, <3>0, Tasks DEF Own
    <3>3. /\ Own(t) \in Stream /\ n \in Nat \ {0} /\ Len(Chunk(t, n)) = n
          /\ rd' = [rd EXCEPT ![Own(t)] = rd[Own(t)] + n]
      BY <3>1, ReadTakes, Zenon
    <3>4. Len(seen[m]) < rd[c] /\ m \in Session
      BY <2>2, <3>0, <3>1, OwnStream, Tasks DEF Missed
    <3>5. Len(seen[m]) \in Nat /\ rd[c] \in Nat /\ rd'[c] = rd[c] + n
      BY <1>0, <3>2, <3>3, <3>4
    <3>6. Len(held'[t]) = n
      BY <1>0, <3>1, <3>3
    <3>7. seen' = seen
      BY <3>1 DEF ends
    <3>8. Len(seen'[turn'["host"]]) + Len(held'[t]) < rd'[Own(t)']
      BY <2>1, <3>2, <3>3, <3>4, <3>5, <3>6, <3>7
    <3> QED
      BY <3>0, <3>8
  <2> QED
    BY <2>1, <2>3, <2>4
<1> QED
  BY <1>3, <1>4


-----------------------------------------------------------------------------
(* The addresses.                                                          *)

\* The list of sessions only grows.
LEMMA OwnerGrows ==
  ASSUME TypeOK, Serial, Reading, [Next]_vars
  PROVE  /\ Len(owner') \in Nat /\ Len(owner) \in Nat /\ Len(owner') >= Len(owner)
         /\ \A n \in 1..Len(owner) : owner'[n] = owner[n]
         /\ owner' = owner \/ ListenerOpens
<1>0. owner \in Seq(App)
  BY DEF TypeOK
<1>1. CASE ListenerOpens
  <2>1. owner' = Append(owner, Head(sock).from)
    BY <1>1 DEF ListenerOpens
  <2> QED
    BY <1>0, <1>1, <2>1
<1>2. CASE ~ListenerOpens
  <2>1. owner' = owner
    <3>1. ASSUME NEW t \in Task, Moves(t) \/ Panics(t)
          PROVE  owner' = owner
      BY <3>1, AbortIs DEF Moves, Panics
    <3>2. HostAccepts \/ Settles => owner' = owner
      BY DEF HostAccepts, Settles
    <3> QED
      BY <1>2, <3>1, <3>2, Kinds
  <2> QED
    BY <1>0, <2>1
<1> QED
  BY <1>1, <1>2

\* What happens at the sockets.
LEMMA SocketSteps ==
  ASSUME TypeOK, Serial, Reading, [Next]_vars
  PROVE  /\ \/ sock' = sock
            \/ ClientTakes
            \/ \E a \in App : AppSends(a)
         /\ \/ wire' = wire /\ turn'["host"] = turn["host"]
            \/ HostTakes \/ HostAccepts \/ ServiceReplies
<1> USE DEF sockets
<1>1. /\ \/ sock' = sock
         \/ ClientTakes
         \/ \E a \in App : AppSends(a)
      /\ \/ wire' = wire
         \/ HostTakes \/ HostAccepts \/ ServiceReplies
  <2>1. ASSUME NEW t \in Task, TaskStep(t)
        PROVE  sock' = sock /\ wire' = wire
    BY <2>1 DEF TaskStep, LoopTop, StopArm, SleepArm, EofArm, ReadFails, WriteOut, WritePanics
  <2>2. CASE ClientTakes
    BY <2>2 DEF ClientTakes
  <2>3. CASE HostTakes
    BY <2>3 DEF HostTakes
  <2>4. CASE ClientSkips \/ ClientDelivers \/ HostDelivers \/ HostSendPanics
    BY <2>4 DEF ClientSkips, ClientDelivers, HostDelivers, HostSendPanics
  <2>5. CASE HostAccepts
    BY <2>5 DEF HostAccepts
  <2>6. CASE ListenerOpens \/ ListenerFails \/ ListenerStops \/ HostAcceptFails
    BY <2>6 DEF ListenerOpens, ListenerFails, ListenerStops, HostAcceptFails
  <2>7. ASSUME NEW s \in Side, JoinReturns(s) \/ SendStop(s)
        PROVE  sock' = sock /\ wire' = wire
    BY <2>7 DEF JoinReturns, SendStop
  <2>8. CASE LoseLink \/ Tick \/ ServiceChanges
    BY <2>8 DEF LoseLink, Tick, ServiceChanges
  <2>9. CASE ServiceReplies
    BY <2>9 DEF ServiceReplies
  <2>10. ASSUME NEW a \in App, AppSends(a)
         PROVE  wire' = wire
    BY <2>10 DEF AppSends
  <2>11. CASE UNCHANGED vars
    BY <2>11 DEF vars
  <2> QED
    BY <2>1, <2>2, <2>3, <2>4, <2>5, <2>6, <2>7, <2>8, <2>9, <2>10, <2>11, Steps
<1>2. turn'["host"] = turn["host"] \/ HostAccepts
  BY TurnStays, Tasks
<1> QED
  BY <1>1, <1>2

\* A datagram more, or one that is dropped.
LEMMA Arrives ==
  ASSUME NEW q \in Seq(Datagram), NEW d \in Datagram
  PROVE  /\ Arrive(q, d) \in Seq(Datagram)
         /\ \/ Arrive(q, d) = q
            \/ /\ Len(Arrive(q, d)) = Len(q) + 1
               /\ \A i \in 1..Len(q) : Arrive(q, d)[i] = q[i]
               /\ Arrive(q, d)[Len(q) + 1] = d
BY DEF Arrive

\* What leaves a queue, and what stays in it.
LEMMA HeadLeaves ==
  ASSUME NEW q \in Seq(Datagram), q # <<>>
  PROVE  /\ Head(q) = q[1] /\ Head(q) \in Datagram /\ 1 \in 1..Len(q)
         /\ Tail(q) \in Seq(Datagram) /\ Len(q) \in Nat /\ Len(Tail(q)) = Len(q) - 1
         /\ \A i \in 1..Len(Tail(q)) : Tail(q)[i] = q[i + 1] /\ i + 1 \in 1..Len(q)
OBVIOUS

\* The socket of the client holds what applications sent, the virtual socket
\* of the host what the service replied to its session.
LEMMA AtSocketsStep ==
  ASSUME TypeOK, Serial, Reading, AtSockets, [Next]_vars
  PROVE  AtSockets'
<1>0. sock \in Seq(Datagram) /\ wire \in Seq(Datagram)
  BY DEF TypeOK
<1>1. \A i \in 1..Len(sock') : sock'[i].from \in App
  <2>1. CASE sock' = sock
    BY <2>1 DEF AtSockets
  <2>2. CASE ClientTakes
    <3>1. sock # <<>> /\ sock' = Tail(sock)
      BY <2>2 DEF ClientTakes
    <3> QED
      BY <1>0, <3>1, HeadLeaves DEF AtSockets
  <2>3. ASSUME NEW a \in App, AppSends(a)
        PROVE  \A i \in 1..Len(sock') : sock'[i].from \in App
    <3>1. PICK size \in Sizes :
            sock' = Arrive(sock, [from |-> a, n |-> sent[a] + 1, size |-> size])
      BY <2>3 DEF AppSends
    <3> DEFINE d == [from |-> a, n |-> sent[a] + 1, size |-> size]
    <3>2. d \in Datagram /\ d.from = a
      BY DEF Datagram, Sender, TypeOK
    <3> HIDE DEF d
    <3>3. sock' = Arrive(sock, d)
      BY <3>1 DEF d
    <3>4. \/ sock' = sock
          \/ /\ Len(sock') = Len(sock) + 1
             /\ \A i \in 1..Len(sock) : sock'[i] = sock[i]
             /\ sock'[Len(sock) + 1] = d
      BY <1>0, <3>2, <3>3, Arrives
    <3> QED
      BY <1>0, <3>2, <3>4 DEF AtSockets
  <2> QED
    BY <2>1, <2>2, <2>3, SocketSteps
<1>2. \A i \in 1..Len(wire') : wire'[i].from = turn'["host"]
  <2>1. CASE wire' = wire /\ turn'["host"] = turn["host"]
    BY <2>1 DEF AtSockets
  <2>2. CASE HostTakes
    <3>1. wire # <<>> /\ wire' = Tail(wire) /\ turn' = turn
      BY <2>2 DEF HostTakes, loops
    <3> QED
      BY <1>0, <3>1, HeadLeaves DEF AtSockets
  <2>3. CASE HostAccepts
    BY <2>3 DEF HostAccepts
  <2>4. CASE ServiceReplies
    <3>1. PICK size \in Sizes :
            wire' = Arrive(wire, [from |-> turn["host"], n |-> replies + 1, size |-> size])
      BY <2>4 DEF ServiceReplies
    <3> DEFINE d == [from |-> turn["host"], n |-> replies + 1, size |-> size]
    <3>2. turn["host"] \in Session /\ turn' = turn
      BY <2>4, Bounds, Tasks DEF ServiceReplies, loops, Serial, TypeOK, Session
    <3>3. d \in Datagram /\ d.from = turn["host"]
      BY <3>2 DEF Datagram, Sender, TypeOK
    <3> HIDE DEF d
    <3>4. wire' = Arrive(wire, d)
      BY <3>1 DEF d
    <3>5. \/ wire' = wire
          \/ /\ Len(wire') = Len(wire) + 1
             /\ \A i \in 1..Len(wire) : wire'[i] = wire[i]
             /\ wire'[Len(wire) + 1] = d
      BY <1>0, <3>3, <3>4, Arrives
    <3>6. ASSUME NEW i \in 1..Len(wire')
          PROVE  wire'[i].from = turn["host"]
      <4>1. \A j \in 1..Len(wire) : wire[j].from = turn["host"]
        BY DEF AtSockets
      <4>2. Len(wire) \in Nat
        BY <1>0
      <4>3. i \in 1..Len(wire) \/ (i = Len(wire) + 1 /\ wire'[i] = d)
        BY <3>5, <4>2
      <4> QED
        BY <3>3, <3>5, <4>1, <4>3
    <3> QED
      BY <3>2, <3>6
  <2> QED
    BY <2>1, <2>2, <2>3, <2>4, SocketSteps
<1> QED
  BY <1>1, <1>2 DEF AtSockets

\* What a writer holds: nothing when its side takes up a session, what it has
\* just taken from its socket, or what it held before.
LEMMA HeldSteps ==
  ASSUME TypeOK, Serial, Reading, HeldWhileWriting, [Next]_vars, NEW t \in Writers
  PROVE  \/ held'[t] = held[t] /\ turn'[Place(t)] = turn[Place(t)]
         \/ held'[t] = <<>>
         \/ /\ t = "client_udp_to_tunnel" /\ ClientTakes
            /\ held'[t] = Contents(Head(sock)) /\ turn' = turn
         \/ /\ t = "host_udp_to_tunnel" /\ HostTakes
            /\ held'[t] = Contents(Head(wire)) /\ turn' = turn
<1> USE DEF loops
<1> DEFINE Same == held'[t] = held[t] /\ turn'[Place(t)] = turn[Place(t)]
<1>0. /\ held \in [Task -> Seq(Byte)] /\ turn \in [Side -> 0..MaxSessions]
      /\ pc \in [Task -> Active \cup Ended] /\ t \in Task /\ Place(t) \in Side
  BY Tasks DEF TypeOK
<1>1. ASSUME NEW u \in Task, TaskStep(u)
      PROVE  Same \/ held'[t] = <<>>
  <2>1. CASE WriteOut(u)
    <3>1. held' = [held EXCEPT ![u] = <<>>] /\ turn' = turn
      BY <2>1 DEF WriteOut
    <3> QED
      BY <1>0, <3>1
  <2>2. CASE WritePanics(u)
    BY <2>2 DEF WritePanics, Abort
  <2>3. CASE ~WriteOut(u) /\ ~WritePanics(u)
    <3>1. held' = held /\ turn' = turn
      BY <1>1, <2>3 DEF TaskStep, LoopTop, StopArm, SleepArm, EofArm, ReadFails
    <3> QED
      BY <3>1
  <2> QED
    BY <2>1, <2>2, <2>3
<1>2. CASE ClientTakes
  <2> DEFINE u == "client_udp_to_tunnel"
  <2>1. turn' = turn /\ (held' = held \/ held' = [held EXCEPT ![u] = Contents(Head(sock))])
    BY <1>2 DEF ClientTakes, Take
  <2>2. u \in Task
    BY Tasks
  <2> QED
    BY <1>0, <1>2, <2>1, <2>2
<1>3. CASE HostTakes
  <2> DEFINE u == "host_udp_to_tunnel"
  <2>1. turn' = turn /\ (held' = held \/ held' = [held EXCEPT ![u] = Contents(Head(wire))])
    BY <1>3 DEF HostTakes, Take
  <2>2. u \in Task
    BY Tasks
  <2> QED
    BY <1>0, <1>3, <2>1, <2>2
<1>4. CASE ClientSkips \/ ClientDelivers \/ HostDelivers
  BY <1>4 DEF ClientSkips, ClientDelivers, HostDelivers
<1>5. CASE HostSendPanics
  <2>1. /\ turn' = turn
        /\ \E bytes : held' = [held EXCEPT !["host_tunnel_to_udp"] = bytes]
    BY <1>5 DEF HostSendPanics, Abort
  <2>2. t # "host_tunnel_to_udp"
    BY Tasks
  <2> QED
    BY <1>0, <2>1, <2>2
<1>6. CASE ListenerOpens \/ HostAccepts
  <2>1. PICK s \in Side :
           /\ parent[s] = "listen" /\ held' = held
           /\ turn' = [turn EXCEPT ![s] = turn[s] + 1]
    BY <1>6, Begins
  <2>2. CASE Place(t) = s
    <3>1. pc[t] \notin Active /\ pc[t] \notin {"panicked", "killed"}
      BY <1>0, <2>1, <2>2 DEF Serial, HeldWhileWriting
    <3>2. held[t] = <<>>
      BY <1>0, <3>1 DEF HeldWhileWriting, Active
    <3> QED
      BY <2>1, <3>2
  <2>3. CASE Place(t) # s
    BY <1>0, <2>1, <2>3
  <2> QED
    BY <2>2, <2>3
<1>7. CASE ListenerFails \/ ListenerStops \/ HostAcceptFails
  BY <1>7 DEF ListenerFails, ListenerStops, HostAcceptFails
<1>8. ASSUME NEW s \in Side, JoinReturns(s) \/ SendStop(s)
      PROVE  Same
  BY <1>8 DEF JoinReturns, SendStop
<1>9. CASE LoseLink \/ Tick \/ ServiceReplies \/ ServiceChanges
  BY <1>9 DEF LoseLink, Tick, ServiceReplies, ServiceChanges
<1>10. ASSUME NEW a \in App, AppSends(a)
       PROVE  Same
  BY <1>10 DEF AppSends
<1>11. CASE UNCHANGED vars
  BY <1>11 DEF vars
<1> QED
  BY <1>1, <1>2, <1>3, <1>4, <1>5, <1>6, <1>7, <1>8, <1>9, <1>10, <1>11, Steps

\* A forwarder takes from the shared socket only datagrams of the application
\* whose session it is (the comparison of the peeked address, udp.rs).
LEMMA InHandStep ==
  ASSUME TypeOK, Serial, Reading, HeldWhileWriting, AtSockets, InHand, [Next]_vars
  PROVE  InHand'
<1>0. sock \in Seq(Datagram) /\ wire \in Seq(Datagram) /\ owner \in Seq(App)
      /\ held \in [Task -> Seq(Byte)]
  BY DEF TypeOK
<1>1. /\ held'["client_udp_to_tunnel"] # <<>> => turn'["client"] >= 1
      /\ AllFrom(held'["client_udp_to_tunnel"], owner'[turn'["client"]])
  <2> DEFINE t == "client_udp_to_tunnel"
             n == turn["client"]
  <2>0. t \in Writers /\ Place(t) = "client" /\ t \in Task
    BY Tasks
  <2>1. CASE held'[t] = held[t] /\ turn'[Place(t)] = turn[Place(t)]
    <3>1. CASE held[t] = <<>>
      BY <2>1, <3>1 DEF AllFrom
    <3>2. CASE held[t] # <<>>
      <4>1. n >= 1 /\ AllFrom(held[t], owner[n])
        BY <3>2 DEF InHand
      <4>2. owner'[n] = owner[n]
        <5>1. n \in 1..Len(owner)
          BY <4>1, Tasks, Bounds DEF Serial, TypeOK
        <5> QED
          BY <5>1, OwnerGrows
      <4> QED
        BY <2>0, <2>1, <4>1, <4>2
    <3> QED
      BY <3>1, <3>2
  <2>2. CASE held'[t] = <<>>
    BY <2>2 DEF AllFrom
  <2>3. CASE ClientTakes /\ held'[t] = Contents(Head(sock)) /\ turn' = turn
    <3>1. /\ pc[t] = "select" /\ sock # <<>> /\ ~Theirs /\ owner' = owner
      BY <2>3 DEF ClientTakes, loops
    <3>2. Head(sock).from = owner[n] /\ Head(sock) \in Datagram
      BY <1>0, <3>1, HeadLeaves DEF Theirs
    <3>3. n >= 1
      BY <2>0, <3>1 DEF Serial
    <3>4. AllFrom(held'[t], owner[n])
      BY <2>3, <3>2, ContentsFrom
    <3> QED
      BY <2>3, <3>1, <3>3, <3>4
  <2> QED
    BY <2>0, <2>1, <2>2, <2>3, HeldSteps
<1>2. AllFrom(held'["host_udp_to_tunnel"], turn'["host"])
  <2> DEFINE t == "host_udp_to_tunnel"
             n == turn["host"]
  <2>0. t \in Writers /\ Place(t) = "host"
    BY Tasks
  <2>1. CASE held'[t] = held[t] /\ turn'[Place(t)] = turn[Place(t)]
    BY <2>0, <2>1 DEF InHand
  <2>2. CASE held'[t] = <<>>
    BY <2>2 DEF AllFrom
  <2>3. CASE HostTakes /\ held'[t] = Contents(Head(wire)) /\ turn' = turn
    <3>1. wire # <<>>
      BY <2>3 DEF HostTakes
    <3>2. Head(wire).from = n /\ Head(wire) \in Datagram
      BY <1>0, <3>1, HeadLeaves DEF AtSockets
    <3>3. AllFrom(held'[t], n)
      BY <2>3, <3>2, ContentsFrom
    <3> QED
      BY <2>3, <3>3
  <2> QED
    BY <2>0, <2>1, <2>2, <2>3, HeldSteps
<1> QED
  BY <1>1, <1>2 DEF InHand

\* What came from a session's owner still does when sessions are added.
LEMMA StillOwners ==
  ASSUME TypeOK, Serial, Reading, [Next]_vars,
         NEW bytes \in Seq(Byte), NEW n \in Session,
         bytes # <<>> => n <= Len(owner), AllFrom(bytes, owner[n])
  PROVE  /\ bytes # <<>> => n <= Len(owner')
         /\ AllFrom(bytes, owner'[n])
<1>1. CASE bytes = <<>>
  BY <1>1 DEF AllFrom
<1>2. CASE bytes # <<>>
  <2>1. n \in 1..Len(owner)
    BY <1>2, OwnerGrows DEF Session
  <2>2. owner'[n] = owner[n] /\ n <= Len(owner')
    BY <2>1, OwnerGrows
  <2> QED
    BY <2>2
<1> QED
  BY <1>1, <1>2

\* A writer writes what it holds on the stream of its own session.
LEMMA OnStreamsStep ==
  ASSUME TypeOK, Serial, Reading, HeldWhileWriting, InHand, OnStreams, [Next]_vars
  PROVE  OnStreams'
<1>0. /\ data \in [Stream -> Seq(Byte)] /\ held \in [Task -> Seq(Byte)]
      /\ \A n \in Session : <<n, "up">> \in Stream /\ <<n, "down">> \in Stream
  BY DEF TypeOK, Stream
<1>1. ASSUME NEW t \in Task, WriteOut(t)
      PROVE  OnStreams'
  <2>1. PICK s \in Seq(Byte) :
         /\ Len(s) = Len(data[Own(t)]) + Len(held[t])
         /\ \A i \in 1..Len(data[Own(t)]) : s[i] = data[Own(t)][i]
         /\ \A i \in 1..Len(held[t]) : s[Len(data[Own(t)]) + i] = held[t][i]
         /\ data' = [data EXCEPT ![Own(t)] = s]
    BY <1>1, WriteAdds
  <2>2. pc[t] = "write" /\ t \in Writers /\ pc[t] # "none"
    BY <1>1 DEF WriteOut, HeldWhileWriting
  <2>3. Own(t) \in Stream /\ Own(t)[2] = Way(t) /\ Own(t)[1] = turn[Place(t)]
        /\ turn[Place(t)] \in Session
    BY <2>2, OwnStream
  <2>4. owner' = owner
    BY <1>1 DEF WriteOut, loops
  <2>5. ASSUME NEW x, AllFrom(data[Own(t)], x), AllFrom(held[t], x)
        PROVE  AllFrom(s, x)
    <3>1. Len(data[Own(t)]) \in Nat /\ Len(held[t]) \in Nat
      BY <1>0, <2>3
    <3> DEFINE k == Len(data[Own(t)])
    <3>2. ASSUME NEW i \in 1..Len(s)
          PROVE  s[i].from = x
      <4>1. CASE i \in 1..k
        BY <2>1, <2>5, <4>1 DEF AllFrom
      <4>2. CASE i \notin 1..k
        <5> DEFINE h == Len(held[t])
        <5>3. k \in Nat /\ h \in Nat /\ i \in 1..(k + h) /\ i \notin 1..k
          BY <2>1, <3>1, <4>2
        <5> HIDE DEF k, h
        <5>4. i - k \in 1..h /\ k + (i - k) = i
          BY <5>3
        <5>1. i - k \in 1..Len(held[t]) /\ k + (i - k) = i
          BY <5>4 DEF h
        <5> USE DEF k
        <5>2. s[i] = held[t][i - k]
          BY <2>1, <5>1
        <5> QED
          BY <2>5, <5>1, <5>2 DEF AllFrom
      <4> QED
        BY <4>1, <4>2
    <3> QED
      BY <3>2 DEF AllFrom
  <2>6. \A c \in Stream : c # Own(t) => data'[c] = data[c]
    BY <1>0, <2>1
  <2>7. data'[Own(t)] = s
    BY <1>0, <2>1, <2>3
  <2>8. CASE t = "client_udp_to_tunnel"
    <3>1. Own(t) = <<turn["client"], "up">> /\ turn["client"] = Len(owner)
      BY <2>8, Tasks DEF Own, Serial
    <3>2. turn["client"] \in Session
      BY <2>3, <2>8, Tasks
    <3>3. AllFrom(data[Own(t)], owner[turn["client"]])
      BY <3>1, <3>2 DEF OnStreams
    <3>4. AllFrom(held[t], owner[turn["client"]])
      BY <2>8 DEF InHand
    <3>5. AllFrom(data'[<<turn["client"], "up">>], owner[turn["client"]])
      BY <2>5, <2>7, <3>1, <3>3, <3>4
    <3>6. \A n \in Session : <<n, "down">> # Own(t)
                             /\ (n # turn["client"] => <<n, "up">> # Own(t))
      BY <3>1
    <3>7. turn["client"] <= Len(owner)
      BY <3>1, <3>2 DEF Session
    <3> QED
      BY <1>0, <2>4, <2>6, <3>5, <3>6, <3>7 DEF OnStreams
  <2>9. CASE t = "host_udp_to_tunnel"
    <3>1. Own(t) = <<turn["host"], "down">>
      BY <2>9, Tasks DEF Own
    <3>2. turn["host"] \in Session
      BY <2>3, <2>9, Tasks
    <3>3. AllFrom(data[Own(t)], turn["host"])
      BY <3>1, <3>2 DEF OnStreams
    <3>4. AllFrom(held[t], turn["host"])
      BY <2>9 DEF InHand
    <3>5. AllFrom(data'[<<turn["host"], "down">>], turn["host"])
      BY <2>5, <2>7, <3>1, <3>3, <3>4
    <3>6. \A n \in Session : <<n, "up">> # Own(t)
                             /\ (n # turn["host"] => <<n, "down">> # Own(t))
      BY <3>1
    <3> QED
      BY <1>0, <2>4, <2>6, <3>5, <3>6 DEF OnStreams
  <2> QED
    BY <2>2, <2>8, <2>9 DEF Writers
<1>2. CASE LoseLink
  <2>1. owner' = owner
    BY <1>2 DEF LoseLink, loops
  <2>2. ASSUME NEW c \in Stream, NEW x, AllFrom(data[c], x)
        PROVE  AllFrom(data'[c], x)
    <3>1. /\ Len(data'[c]) <= Len(data[c]) /\ Len(data'[c]) \in Nat /\ Len(data[c]) \in Nat
          /\ \A i \in 1..Len(data'[c]) : data'[c][i] = data[c][i]
      BY <1>0, <1>2, LossCuts
    <3> QED
      BY <2>2, <3>1 DEF AllFrom
  <2>3. ASSUME NEW c \in Stream, data'[c] # <<>>
        PROVE  data[c] # <<>>
    <3>1. Len(data'[c]) <= Len(data[c]) /\ data'[c] \in Seq(Byte) /\ data[c] \in Seq(Byte)
      BY <1>0, <1>2, LossCuts
    <3> QED
      BY <2>3, <3>1
  <2> QED
    BY <1>0, <2>1, <2>2, <2>3 DEF OnStreams
<1>3. CASE data' = data
  <2>1. ASSUME NEW n \in Session
        PROVE  /\ data[<<n, "up">>] # <<>> => n <= Len(owner')
               /\ AllFrom(data[<<n, "up">>], owner'[n])
    <3>1. data[<<n, "up">>] \in Seq(Byte)
      BY <1>0
    <3> QED
      BY <3>1, StillOwners DEF OnStreams
  <2> QED
    BY <1>3, <2>1 DEF OnStreams
<1> QED
  BY <1>1, <1>2, <1>3, StreamSteps

\* Only the client's reader shows an application anything.
LEMMA AppSteps ==
  ASSUME [Next]_vars
  PROVE  ClientDelivers \/ got' = got
<1> USE DEF ends, loops
<1>1. ASSUME NEW t \in Task, TaskStep(t)
      PROVE  got' = got
  BY <1>1 DEF TaskStep, LoopTop, StopArm, SleepArm, EofArm, ReadFails, WriteOut, WritePanics
<1>2. CASE ClientTakes \/ ClientSkips \/ HostDelivers \/ HostSendPanics \/ HostTakes
  BY <1>2 DEF ClientTakes, ClientSkips, HostDelivers, HostSendPanics, HostTakes
<1>3. CASE ListenerOpens \/ ListenerFails \/ ListenerStops \/ HostAccepts \/ HostAcceptFails
  BY <1>3 DEF ListenerOpens, ListenerFails, ListenerStops, HostAccepts, HostAcceptFails
<1>4. ASSUME NEW s \in Side, JoinReturns(s) \/ SendStop(s)
      PROVE  got' = got
  BY <1>4 DEF JoinReturns, SendStop
<1>5. CASE LoseLink \/ Tick \/ ServiceReplies \/ ServiceChanges
  BY <1>5 DEF LoseLink, Tick, ServiceReplies, ServiceChanges
<1>6. ASSUME NEW a \in App, AppSends(a)
      PROVE  got' = got
  BY <1>6 DEF AppSends
<1>7. CASE UNCHANGED vars
  BY <1>7 DEF vars
<1> QED
  BY <1>1, <1>2, <1>3, <1>4, <1>5, <1>6, <1>7, Steps

\* The client's reader hands what it read to the session's application.
LEMMA ClientHands ==
  ASSUME TypeOK, Serial, Reading, ClientDelivers
  PROVE  \E n \in Nat \ {0} :
           LET m == turn["client"]
               c == <<turn["client"], "down">>
               a == owner[turn["client"]]
               r == Chunk("client_tunnel_to_udp", n)
           IN /\ m \in Session /\ m \in 1..Len(owner) /\ a \in App /\ c \in Stream
              /\ r \in Seq(Byte) /\ Len(r) = n
              /\ rd[c] + n <= Len(data[c])
              /\ \A i \in 1..n : r[i] = data[c][rd[c] + i]
              /\ rd' = [rd EXCEPT ![c] = rd[c] + n]
              /\ got' = [got EXCEPT ![a] = got[a] \o r]
              /\ owner' = owner /\ data' = data
              /\ sent' = sent /\ replies' = replies /\ seen' = seen
<1> DEFINE t == "client_tunnel_to_udp"
           m == turn["client"]
           a == owner[turn["client"]]
<1>1. PICK n \in 1..BufferSize :
        /\ Reads(t, n)
        /\ got' = [got EXCEPT ![a] = got[a] \o Chunk(t, n)]
        /\ UNCHANGED <<sent, replies, seen, data, loops>>
  BY DEF ClientDelivers
<1>2. t \in Task /\ Own(t) = <<m, "down">>
  BY Tasks DEF Own
<1>3. /\ Own(t) \in Stream /\ pc[t] = "select" /\ n \in Nat \ {0}
      /\ Chunk(t, n) \in Seq(Byte) /\ Len(Chunk(t, n)) = n
      /\ rd[Own(t)] + n <= Len(data[Own(t)])
      /\ \A i \in 1..n : Chunk(t, n)[i] = data[Own(t)][rd[Own(t)] + i]
      /\ rd' = [rd EXCEPT ![Own(t)] = rd[Own(t)] + n]
  BY <1>1, <1>2, ReadTakes, Zenon
<1>4. m \in Session
  BY <1>2, <1>3, OwnStream, Tasks
<1>5. m \in 1..Len(owner) /\ a \in App
  <2>1. owner \in Seq(App)
    BY DEF TypeOK
  <2>2. m \in 1..Len(owner)
    BY <1>4 DEF Serial, Session
  <2> QED
    BY <2>1, <2>2
<1>6. owner' = owner /\ data' = data /\ sent' = sent /\ replies' = replies /\ seen' = seen
  BY <1>1 DEF loops
<1> HIDE DEF t, m, a
<1>7. /\ <<m, "down">> \in Stream /\ rd[<<m, "down">>] + n <= Len(data[<<m, "down">>])
      /\ \A i \in 1..n : Chunk(t, n)[i] = data[<<m, "down">>][rd[<<m, "down">>] + i]
      /\ rd' = [rd EXCEPT ![<<m, "down">>] = rd[<<m, "down">>] + n]
  BY <1>2, <1>3
<1>8. got' = [got EXCEPT ![a] = got[a] \o Chunk(t, n)]
  BY <1>1
<1> QED
  BY <1>3, <1>4, <1>5, <1>6, <1>7, <1>8, Zenon DEF t, m, a

\* What is appended to a sequence, element by element.
LEMMA Appended ==
  ASSUME NEW s \in Seq(Byte), NEW r \in Seq(Byte)
  PROVE  /\ s \o r \in Seq(Byte)
         /\ Len(s) \in Nat /\ Len(r) \in Nat /\ Len(s \o r) = Len(s) + Len(r)
         /\ \A i \in 1..Len(s) : (s \o r)[i] = s[i]
         /\ \A i \in 1..Len(r) : (s \o r)[Len(s) + i] = r[i]
         /\ \A i \in 1..Len(s \o r) :
              \/ i \in 1..Len(s) /\ (s \o r)[i] = s[i]
              \/ i > Len(s) /\ i - Len(s) \in 1..Len(r) /\ (s \o r)[i] = r[i - Len(s)]
<1>1. /\ s \o r \in Seq(Byte)
      /\ Len(s) \in Nat /\ Len(r) \in Nat /\ Len(s \o r) = Len(s) + Len(r)
      /\ \A i \in 1..Len(s) : (s \o r)[i] = s[i]
      /\ \A i \in 1..Len(r) : (s \o r)[Len(s) + i] = r[i]
  OBVIOUS
<1> DEFINE k == Len(s)
           h == Len(r)
           q == s \o r
<1>2. /\ k \in Nat /\ h \in Nat /\ Len(q) = k + h
      /\ \A i \in 1..k : q[i] = s[i]
      /\ \A i \in 1..h : q[k + i] = r[i]
  BY <1>1
<1> HIDE DEF k, h, q
<1>3. ASSUME NEW i \in 1..Len(q)
      PROVE  \/ i \in 1..k /\ q[i] = s[i]
             \/ i > k /\ i - k \in 1..h /\ q[i] = r[i - k]
  <2>1. CASE i <= k
    BY <1>2, <2>1
  <2>2. CASE ~(i <= k)
    <3>1. i > k /\ i - k \in 1..h /\ k + (i - k) = i
      BY <1>2, <2>2
    <3>2. q[k + (i - k)] = r[i - k]
      BY <1>2, <3>1
    <3> QED
      BY <3>1, <3>2
  <2> QED
    BY <2>1, <2>2
<1> QED
  BY <1>1, <1>3 DEF k, h, q

\* The next k bytes of a stream are among its bytes.
LEMMA NextAreThere ==
  ASSUME NEW m \in Nat, NEW l \in Nat, NEW k \in Nat \ {0}, m + k <= l
  PROVE  l # 0 /\ \A i \in 1..k : m + i \in 1..l
OBVIOUS

\* A reader shows what it read to the end of its own session: the service, or
\* the address the session was opened for.
LEMMA AtEndsStep ==
  ASSUME TypeOK, Serial, Reading, OnStreams, AtEnds, [Next]_vars
  PROVE  AtEnds'
<1>0. /\ seen \in [Session -> Seq(Byte)] /\ got \in [App -> Seq(Byte)]
      /\ data \in [Stream -> Seq(Byte)] /\ rd \in [Stream -> Nat] /\ owner \in Seq(App)
  BY DEF TypeOK
<1>1. ASSUME NEW n \in Session
      PROVE  (seen'[n] # <<>> => n <= Len(owner')) /\ AllFrom(seen'[n], owner'[n])
  <2>1. CASE HostDelivers
    <3> DEFINE m == turn["host"]
               c == <<turn["host"], "up">>
    <3>1. PICK k \in Nat \ {0}, r \in Seq(Byte) :
             /\ m \in Session /\ c \in Stream /\ Len(r) = k
             /\ rd[c] + k <= Len(data[c])
             /\ \A i \in 1..k : r[i] = data[c][rd[c] + i]
             /\ seen' = [seen EXCEPT ![m] = seen[m] \o r] \/ seen' = seen
             /\ owner' = owner
      BY <2>1, HostHands
    <3>2. CASE seen'[n] = seen[n]
      BY <3>1, <3>2 DEF AtEnds
    <3>3. CASE seen'[n] # seen[n]
      <4>1. n = m /\ seen'[m] = seen[m] \o r
        BY <1>0, <3>1, <3>3
      <4>2. rd[c] \in Nat /\ Len(data[c]) \in Nat
        BY <1>0, <3>1
      <4>3. data[c] # <<>> /\ \A i \in 1..k : rd[c] + i \in 1..Len(data[c])
        <5>1. Len(data[c]) # 0 /\ \A i \in 1..k : rd[c] + i \in 1..Len(data[c])
          BY <3>1, <4>2, NextAreThere, Zenon
        <5>2. Len(<<>>) = 0
          OBVIOUS
        <5> QED
          BY <5>1, <5>2, Zenon
      <4>4. m <= Len(owner) /\ AllFrom(data[c], owner[m])
        BY <3>1, <4>3 DEF OnStreams
      <4>5. \A i \in 1..Len(r) : r[i].from = owner[m]
        <5> SUFFICES ASSUME NEW i \in 1..Len(r) PROVE r[i].from = owner[m]
          OBVIOUS
        <5>1. i \in 1..k /\ r[i] = data[c][rd[c] + i]
          BY <3>1
        <5>2. rd[c] + i \in 1..Len(data[c])
          BY <4>3, <5>1
        <5> QED
          BY <4>4, <5>1, <5>2, Zenon DEF AllFrom
      <4>6. AllFrom(seen[m], owner[m]) /\ seen[m] \in Seq(Byte)
        BY <1>0, <3>1 DEF AtEnds
      <4>7. AllFrom(seen[m] \o r, owner[m])
        BY <4>5, <4>6, Appended DEF AllFrom
      <4> QED
        BY <3>1, <4>1, <4>4, <4>7
    <3> QED
      BY <3>2, <3>3
  <2>2. CASE seen' = seen
    <3>1. seen[n] \in Seq(Byte)
      BY <1>0
    <3> QED
      BY <2>2, <3>1, StillOwners DEF AtEnds
  <2> QED
    BY <2>1, <2>2, ServiceSteps
<1>2. ASSUME NEW a \in App, NEW i \in 1..Len(got'[a])
      PROVE  got'[a][i].from \in 1..Len(owner') /\ owner'[got'[a][i].from] = a
  <2>3. ASSUME i \in 1..Len(got[a]), got'[a][i] = got[a][i], owner' = owner
        PROVE  got'[a][i].from \in 1..Len(owner') /\ owner'[got'[a][i].from] = a
    <3>1. got[a][i].from \in 1..Len(owner) /\ owner[got[a][i].from] = a
      BY <2>3, Zenon DEF AtEnds
    <3> QED
      BY <2>3, <3>1, Zenon
  <2>1. CASE ClientDelivers
    <3> DEFINE m == turn["client"]
               c == <<turn["client"], "down">>
               b == owner[turn["client"]]
    <3>1. PICK k \in Nat \ {0}, r \in Seq(Byte) :
             /\ m \in Session /\ m \in 1..Len(owner) /\ b \in App /\ c \in Stream
             /\ Len(r) = k /\ rd[c] + k <= Len(data[c])
             /\ \A j \in 1..k : r[j] = data[c][rd[c] + j]
             /\ got' = [got EXCEPT ![b] = got[b] \o r]
             /\ owner' = owner
      BY <2>1, ClientHands
    <3>2. CASE a # b
      <4>1. got'[a] = got[a]
        BY <1>0, <3>1, <3>2
      <4> QED
        BY <1>2, <2>3, <3>1, <4>1, Zenon
    <3>3. CASE a = b
      <4>1. got'[a] = got[a] \o r /\ got[a] \in Seq(Byte)
        BY <1>0, <3>1, <3>3
      <4>2. rd[c] \in Nat /\ Len(data[c]) \in Nat
        BY <1>0, <3>1
      <4>3. \A j \in 1..k : rd[c] + j \in 1..Len(data[c])
        BY <3>1, <4>2, NextAreThere, Zenon
      <4>4. AllFrom(data[c], m)
        BY <3>1 DEF OnStreams
      <4>5. \A j \in 1..Len(r) : r[j].from = m
        <5> SUFFICES ASSUME NEW j \in 1..Len(r) PROVE r[j].from = m
          OBVIOUS
        <5>1. j \in 1..k /\ r[j] = data[c][rd[c] + j]
          BY <3>1
        <5>2. rd[c] + j \in 1..Len(data[c])
          BY <4>3, <5>1
        <5> QED
          BY <4>4, <5>1, <5>2 DEF AllFrom
      <4>6. (i \in 1..Len(got[a]) /\ got'[a][i] = got[a][i]) \/ got'[a][i].from = m
        <5>1. /\ i \in 1..Len(got[a] \o r) /\ r \in Seq(Byte)
          BY <1>2, <3>1, <4>1
        <5>2. \/ i \in 1..Len(got[a]) /\ (got[a] \o r)[i] = got[a][i]
              \/ /\ i - Len(got[a]) \in 1..Len(r)
                 /\ (got[a] \o r)[i] = r[i - Len(got[a])]
          BY <4>1, <5>1, Appended
        <5> QED
          BY <4>1, <4>5, <5>2
      <4>7. CASE i \in 1..Len(got[a]) /\ got'[a][i] = got[a][i]
        BY <2>3, <3>1, <4>7, Zenon
      <4>8. CASE got'[a][i].from = m
        BY <3>1, <3>3, <4>8
      <4> QED
        BY <4>6, <4>7, <4>8
    <3> QED
      BY <3>2, <3>3
  <2>2. CASE got' = got
    <3>1. got[a][i].from \in 1..Len(owner) /\ owner[got[a][i].from] = a
      BY <1>2, <2>2 DEF AtEnds
    <3>2. got[a][i].from \in 1..Len(owner')
      BY <3>1, OwnerGrows
    <3> QED
      BY <2>2, <3>1, <3>2, OwnerGrows
  <2> QED
    BY <2>1, <2>2, AppSteps
<1> QED
  BY <1>1, <1>2 DEF AtEnds

-----------------------------------------------------------------------------
(* The theorems.                                                           *)

\* A relay starts with empty sockets and no session.
LEMMA IInvInit == Init => IInv
<1> SUFFICES ASSUME Init PROVE IInv
  OBVIOUS
<1> USE DEF Init
<1>0. 0 \in 0..Timeout /\ 0 \in 0..MaxSessions /\ Timeout \in Nat /\ <<>> \in Seq(Byte)
  BY Bounds
<1>1. TypeOK
  <2>1. /\ sock \in Seq(Datagram) /\ wire \in Seq(Datagram) /\ owner \in Seq(App)
        /\ seen \in [Session -> Seq(Byte)] /\ got \in [App -> Seq(Byte)]
        /\ data \in [Stream -> Seq(Byte)] /\ held \in [Task -> Seq(Byte)]
    BY <1>0
  <2>2. "none" \in Ended /\ "listen" \in {"listen", "forward", "left", "failed", "aborted"}
    BY DEF Ended
  <2> QED
    BY <1>0, <2>1, <2>2 DEF TypeOK
<1>2. Serial /\ HeldWhileWriting /\ NoOversleep /\ PanicHasCause
  BY Tasks DEF Serial, HeldWhileWriting, NoOversleep, PanicHasCause, Active, Waiting
<1>3. Reading /\ GivenUp /\ Missed
  BY DEF Reading, GivenUp, Missed, Stream
<1>4. Routed
  <2>1. \A x : AllFrom(<<>>, x)
    BY DEF AllFrom
  <2>2. \A n \in Session : <<n, "up">> \in Stream /\ <<n, "down">> \in Stream
    BY DEF Stream
  <2> QED
    BY <2>1, <2>2, Tasks DEF Routed, AtSockets, InHand, OnStreams, AtEnds
<1> QED
  BY <1>1, <1>2, <1>3, <1>4 DEF IInv

\* The relay's invariant: every step of every task, of the listener, the
\* handler and the network keeps it.
THEOREM Invariance == Spec => []IInv
<1>1. ASSUME IInv, [Next]_vars
      PROVE  IInv'
  <2> USE <1>1 DEF IInv, Routed
  <2>1. TypeOK' /\ Serial' /\ Reading'
    BY TypeStep, SerialStep, ReadingStep
  <2>2. HeldWhileWriting' /\ GivenUp' /\ Missed'
    BY HeldWhileWritingStep, GivenUpStep, MissedStep
  <2>3. NoOversleep' /\ PanicHasCause'
    BY NoOversleepStep, PanicHasCauseStep
  <2>4. AtSockets' /\ InHand'
    BY AtSocketsStep, InHandStep
  <2>5. OnStreams' /\ AtEnds'
    BY OnStreamsStep, AtEndsStep
  <2> QED
    BY <2>1, <2>2, <2>3, <2>4, <2>5
<1> QED
  BY <1>1, IInvInit, PTL DEF Spec

\* Every variable keeps its type.
THEOREM TypeCorrect == Spec => []TypeOK
<1>1. IInv => TypeOK
  BY DEF IInv
<1> QED
  BY <1>1, Invariance, PTL

\* Every byte goes where it belongs: the service sees in a session only bytes
\* of the application it was opened for, and an application only replies to
\* its own sessions, although all of them share a socket.
THEOREM RightAddresses == Spec => []RightAddress
<1>1. ASSUME IInv PROVE RightAddress
  <2>0. TypeOK /\ AtEnds
    BY <1>1 DEF IInv, Routed
  <2>1. ASSUME NEW n \in Session, NEW i \in DOMAIN seen[n]
        PROVE  n <= Len(owner) /\ seen[n][i].from = owner[n]
    <3>1. seen[n] \in Seq(Byte)
      BY <2>0 DEF TypeOK
    <3>2. i \in 1..Len(seen[n]) /\ seen[n] # <<>>
      BY <2>1, <3>1
    <3> QED
      BY <2>0, <3>2 DEF AtEnds, AllFrom
  <2>2. ASSUME NEW a \in App, NEW i \in DOMAIN got[a]
        PROVE  owner[got[a][i].from] = a
    <3>1. got[a] \in Seq(Byte)
      BY <2>0 DEF TypeOK
    <3>2. i \in 1..Len(got[a])
      BY <2>2, <3>1
    <3> QED
      BY <2>0, <3>2 DEF AtEnds
  <2> QED
    BY <2>1, <2>2 DEF RightAddress
<1> QED
  BY <1>1, Invariance, PTL

\* No task of a session sleeps past the moment the session has been idle for
\* the timeout, although its sibling moves the stamp.
THEOREM SleepBound == Spec => []NoOversleep
<1>1. IInv => NoOversleep
  BY DEF IInv
<1> QED
  BY <1>1, Invariance, PTL

\* The unwraps of the UDP forwarders fail only on a lost connection, a peer
\* that gave the session up, or a datagram the service has missed.
THEOREM PanicsExplained == Spec => []PanicHasCause
<1>1. IInv => PanicHasCause
  BY DEF IInv
<1> QED
  BY <1>1, Invariance, PTL
=============================================================================
