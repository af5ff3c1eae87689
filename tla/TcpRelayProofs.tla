--------------------------- MODULE TcpRelayProofs ---------------------------
(***************************************************************************)
(* Proofs that the safety properties of TcpRelay hold of every instance:   *)
(* any timeout, buffer, window, number of bytes, and any set of hazards.   *)
(***************************************************************************)
EXTENDS TcpRelayInv, TLAPS, SequenceTheorems

\* The halves of the four tasks: what the proofs need of Src, Dst and Place.
LEMMA Halves ==
  /\ Src \in [Task -> Hop] /\ Dst \in [Task -> Hop] /\ Place \in [Task -> Side]
  /\ \A t \in Task :
       /\ Src[t] # Dst[t]
       /\ Src[t] \in Tunnel <=> Dst[t] \notin Tunnel
       /\ Src[t] \notin {"to_service", "to_app"}
       /\ Dst[t] \notin {"from_service", "from_app"}
  /\ \A t, u \in Task : Src[t] = Src[u] \/ Dst[t] = Dst[u] => t = u
  /\ Tunnel \subseteq Hop
  /\ \A e \in End : SendsOn[e] \in {"from_service", "from_app"}
                    /\ ReceivesOn[e] \in {"to_service", "to_app"}
BY DEF Src, Dst, Place, Task, Hop, Tunnel, Side, End, SendsOn, ReceivesOn

\* The steps of the relay, sorted by what they write.
LEMMA Steps ==
  ASSUME [Next]_vars
  PROVE  \/ \E t \in Task : TaskStep(t)
         \/ HostAccepts \/ HostRefuses \/ HostAcceptFails
         \/ \E s \in Side : JoinReturns(s) \/ SendStop(s)
         \/ LoseLink
         \/ \E e \in End : Send(e) \/ Receive(e) \/ Shut(e) \/ Vanish(e)
         \/ Tick
         \/ UNCHANGED vars
<1>1. {"client_tcp_to_tunnel", "host_tunnel_to_tcp",
       "host_tcp_to_tunnel", "client_tunnel_to_tcp"} = Task
  BY DEF Task
<1> QED
  BY <1>1, Zenon DEF Next, ClientTcpToTunnel, HostTunnelToTcp, HostTcpToTunnel,
     ClientTunnelToTcp, Environment, CloseLink, NetworkFails, PeerTimesOut

\* n bytes after the first m.
LEMMA Slice ==
  ASSUME NEW s \in Seq(Nat), NEW m \in Nat, NEW n \in Nat, m + n <= Len(s)
  PROVE  /\ SubSeq(s, m + 1, m + n) \in Seq(Nat)
         /\ Len(SubSeq(s, m + 1, m + n)) = n
         /\ \A i \in 1..n : SubSeq(s, m + 1, m + n)[i] = s[m + i]
<1> DEFINE p == m + 1
           q == m + n
<1>1. /\ p \in Int /\ q \in Int
      /\ \A i \in p..q : s[i] \in Nat
  OBVIOUS
<1>2. /\ (IF p <= q THEN q - p + 1 ELSE 0) = n
      /\ q - p + 1 = n
      /\ \A i \in 1..n : p + i - 1 = m + i
  OBVIOUS
<1> HIDE DEF p, q
<1>3. /\ SubSeq(s, p, q) \in Seq(Nat)
      /\ Len(SubSeq(s, p, q)) = IF p <= q THEN q - p + 1 ELSE 0
      /\ \A i \in 1..(q - p + 1) : SubSeq(s, p, q)[i] = s[p + i - 1]
  BY <1>1, SubSeqProperties, SMTT(30)
<1>4. /\ SubSeq(s, p, q) \in Seq(Nat)
      /\ Len(SubSeq(s, p, q)) = n
      /\ \A i \in 1..n : SubSeq(s, p, q)[i] = s[m + i]
  BY <1>2, <1>3
<1> QED
  BY <1>4 DEF p, q

\* A read takes the next bytes of its hop, in order.
LEMMA ReadTakes ==
  ASSUME TypeOK, NEW t \in Task, ReadArm(t)
  PROVE  \E n \in Nat \ {0}, r \in Seq(Nat) :
           /\ Len(r) = n
           /\ rd[Src[t]] + n <= Len(data[Src[t]])
           /\ \A i \in 1..n : r[i] = data[Src[t]][rd[Src[t]] + i]
           /\ held' = [held EXCEPT ![t] = r]
           /\ rd' = [rd EXCEPT ![Src[t]] = rd[Src[t]] + n]
<1> DEFINE s == data[Src[t]]
           m == rd[Src[t]]
<1>1. s \in Seq(Nat) /\ m \in Nat
  BY Halves DEF TypeOK
<1>2. PICK n \in 1..BufferSize :
         /\ n <= Len(s) - m
         /\ held' = [held EXCEPT ![t] = SubSeq(s, m + 1, m + n)]
         /\ rd' = [rd EXCEPT ![Src[t]] = m + n]
  BY DEF ReadArm, Available
<1>3. n \in Nat \ {0}
  BY <1>2, RelayAssumption
<1> HIDE DEF s, m
<1>4. m + n <= Len(s)
  BY <1>1, <1>2, <1>3
<1>5. /\ SubSeq(s, m + 1, m + n) \in Seq(Nat)
      /\ Len(SubSeq(s, m + 1, m + n)) = n
      /\ m + n <= Len(s)
      /\ \A i \in 1..n : SubSeq(s, m + 1, m + n)[i] = s[m + i]
  BY <1>1, <1>3, <1>4, Slice, Zenon
<1> QED
  BY <1>2, <1>3, <1>4, <1>5 DEF s, m

\* A write moves the first byte held to the end of its hop.
LEMMA WriteMoves ==
  ASSUME TypeOK, HeldWhileWriting, NEW t \in Task, WriteByte(t)
  PROVE  \E s, r \in Seq(Nat) :
           /\ Len(s) = Len(data[Dst[t]]) + 1
           /\ \A i \in 1..Len(data[Dst[t]]) : s[i] = data[Dst[t]][i]
           /\ s[Len(s)] = held[t][1]
           /\ Len(held[t]) = Len(r) + 1
           /\ \A i \in 1..Len(r) : r[i] = held[t][i + 1]
           /\ data' = [data EXCEPT ![Dst[t]] = s]
           /\ held' = [held EXCEPT ![t] = r]
<1> DEFINE s == data[Dst[t]]
           r == held[t]
<1>1. s \in Seq(Nat) /\ r \in Seq(Nat) /\ r # <<>>
  BY Halves DEF TypeOK, HeldWhileWriting, WriteByte
<1>2. /\ data' = [data EXCEPT ![Dst[t]] = Append(s, Head(r))]
      /\ held' = [held EXCEPT ![t] = Tail(r)]
  BY DEF WriteByte
<1> HIDE DEF s, r
<1>3. /\ Tail(r) \in Seq(Nat) /\ Head(r) = r[1] /\ Head(r) \in Nat
      /\ Len(r) = Len(Tail(r)) + 1
      /\ \A i \in 1..Len(Tail(r)) : Tail(r)[i] = r[i + 1]
  BY <1>1
<1>4. /\ Append(s, Head(r)) \in Seq(Nat)
      /\ Len(Append(s, Head(r))) = Len(s) + 1
      /\ \A i \in 1..Len(s) : Append(s, Head(r))[i] = s[i]
      /\ Append(s, Head(r))[Len(s) + 1] = Head(r)
  BY <1>1, <1>3
<1> QED
  BY <1>2, <1>3, <1>4 DEF s, r

\* A lost connection cuts the tunnel hops, never below what was read, and a
\* close outlives it only behind all of its bytes.
LEMMA LossCuts ==
  ASSUME TypeOK, Counting, LoseLink
  PROVE  \E u, d \in Seq(Nat) :
           /\ data' = [data EXCEPT !["up"] = u, !["down"] = d]
           /\ rd["up"] <= Len(u) /\ Len(u) <= Len(data["up"])
           /\ rd["down"] <= Len(d) /\ Len(d) <= Len(data["down"])
           /\ \A i \in 1..Len(u) : u[i] = data["up"][i]
           /\ \A i \in 1..Len(d) : d[i] = data["down"][i]
<1>1. ASSUME NEW h \in Hop, NEW s \in Arrived(h)
      PROVE  /\ s \in Seq(Nat)
             /\ rd[h] <= Len(s) /\ Len(s) <= Len(data[h])
             /\ \A i \in 1..Len(s) : s[i] = data[h][i]
  <2> DEFINE b == data[h]
             m == rd[h]
  <2>1. b \in Seq(Nat) /\ m \in Nat
    BY DEF TypeOK
  <2>2. PICK n \in m..Len(b) : s = SubSeq(b, 1, n)
    BY DEF Arrived
  <2> HIDE DEF b, m
  <2>3. /\ SubSeq(b, 1, n) \in Seq(Nat)
        /\ Len(SubSeq(b, 1, n)) = n
        /\ \A i \in 1..n : SubSeq(b, 1, n)[i] = b[i]
    BY <2>1
  <2>4. m <= n /\ n <= Len(b)
    BY <2>1, <2>2
  <2> QED
    BY <2>2, <2>3, <2>4 DEF b, m
<1>2. PICK u \in Arrived("up"), d \in Arrived("down") :
         data' = [data EXCEPT !["up"] = u, !["down"] = d]
  BY DEF LoseLink
<1>3. "up" \in Hop /\ "down" \in Hop
  BY DEF Hop
<1>4. /\ u \in Seq(Nat)
      /\ rd["up"] <= Len(u) /\ Len(u) <= Len(data["up"])
      /\ \A i \in 1..Len(u) : u[i] = data["up"][i]
  BY <1>1, <1>3
<1>5. /\ d \in Seq(Nat)
      /\ rd["down"] <= Len(d) /\ Len(d) <= Len(data["down"])
      /\ \A i \in 1..Len(d) : d[i] = data["down"][i]
  BY <1>1, <1>3
<1> QED
  BY <1>2, <1>4, <1>5

\* An end adds the next number to its own hop.
LEMMA SendAppends ==
  ASSUME TypeOK, NEW e \in End, Send(e)
  PROVE  \E s \in Seq(Nat) :
           /\ Len(s) = Len(data[SendsOn[e]]) + 1
           /\ \A i \in 1..Len(data[SendsOn[e]]) : s[i] = data[SendsOn[e]][i]
           /\ s[Len(s)] = Len(s)
           /\ data' = [data EXCEPT ![SendsOn[e]] = s]
<1> DEFINE s == data[SendsOn[e]]
<1>1. s \in Seq(Nat)
  BY Halves DEF TypeOK, Hop
<1>2. data' = [data EXCEPT ![SendsOn[e]] = Append(s, Len(s) + 1)]
  BY DEF Send
<1> HIDE DEF s
<1>3. /\ Append(s, Len(s) + 1) \in Seq(Nat)
      /\ Len(Append(s, Len(s) + 1)) = Len(s) + 1
      /\ \A i \in 1..Len(s) : Append(s, Len(s) + 1)[i] = s[i]
      /\ Append(s, Len(s) + 1)[Len(s) + 1] = Len(s) + 1
  BY <1>1
<1> QED
  BY <1>2, <1>3 DEF s

-----------------------------------------------------------------------------
\* Every variable keeps its type: a loop ends in one of the ways listed, and
\* reads and writes whole bytes of the stream.
LEMMA TypeStep ==
  ASSUME TypeOK, Counting, HeldWhileWriting, [Next]_vars
  PROVE  TypeOK'
<1> USE DEF TypeOK, hops, tasks, sides, Waiting, Active, Ended
<1> Timeout \in Nat /\ 0 \in 0..Timeout
  BY RelayAssumption
<1>1. ASSUME NEW t \in Task, TaskStep(t)
      PROVE  TypeOK'
  <2> Src[t] \in Hop /\ Dst[t] \in Hop /\ Place[t] \in Side
    BY Halves
  <2>1. CASE LoopTop(t)
    BY <2>1 DEF LoopTop
  <2>2. CASE StopArm(t)
    BY <2>2 DEF StopArm, Break, Carries
  <2>3. CASE ReadArm(t)
    <3>1. PICK n \in Nat \ {0}, r \in Seq(Nat) :
            /\ held' = [held EXCEPT ![t] = r]
            /\ rd' = [rd EXCEPT ![Src[t]] = rd[Src[t]] + n]
      BY <2>3, ReadTakes
    <3>2. held' \in [Task -> Seq(Nat)] /\ rd' \in [Hop -> Nat]
      BY <3>1
    <3> QED
      BY <2>3, <3>2 DEF ReadArm
  <2>4. CASE EofArm(t)
    BY <2>4 DEF EofArm, Break, Carries
  <2>5. CASE ReadError(t)
    BY <2>5 DEF ReadError
  <2>6. CASE SleepArm(t)
    BY <2>6 DEF SleepArm, Break, Carries
  <2>7. CASE WriteByte(t)
    <3>1. held' \in [Task -> Seq(Nat)] /\ data' \in [Hop -> Seq(Nat)]
      BY <2>7, WriteMoves, ZenonT(40)
    <3> QED
      BY <2>7, <3>1 DEF WriteByte
  <2>8. CASE WritePanics(t)
    <3>1. CASE PanicAborts
      <4>1. /\ pc' \in [Task -> Active \cup Ended \cup {"unborn"}]
            /\ timer' \in [Task -> 0..Timeout]
            /\ session' \in [Side -> {"waiting", "joining", "left", "failed", "aborted"}]
        <5>1. /\ pc' = [u \in Task |-> IF u = t THEN "panicked"
                           ELSE IF Place[u] = Place[t] /\ pc[u] \in Active
                           THEN "killed" ELSE pc[u]]
              /\ session' = [session EXCEPT ![Place[t]] = "aborted"]
              /\ timer' = [u \in Task |-> IF Place[u] = Place[t] THEN 0 ELSE timer[u]]
          BY <2>8, <3>1 DEF WritePanics, Abort
        <5> QED
          BY <5>1
      <4>2. fin' \in [Hop -> BOOLEAN]
        BY <2>8, <3>1, Zenon DEF WritePanics, Abort
      <4>3. /\ data' = data /\ rd' = rd /\ dropped' = dropped /\ link' = link
            /\ held' = held /\ idle' = idle /\ stop' = stop
        BY <2>8, <3>1, Zenon DEF WritePanics, Abort
      <4>4. /\ data' \in [Hop -> Seq(Nat)] /\ rd' \in [Hop -> Nat]
            /\ dropped' \in [Hop -> BOOLEAN] /\ link' \in BOOLEAN
            /\ held' \in [Task -> Seq(Nat)]
            /\ idle' \in [Side -> 0..Timeout] /\ stop' \in [Side -> BOOLEAN]
        BY <4>3, Zenon
      <4> QED
        BY <4>1, <4>2, <4>4, Zenon
    <3>2. CASE ~PanicAborts
      BY <2>8, <3>2, ZenonT(60) DEF WritePanics, Break, Carries
    <3> QED
      BY <3>1, <3>2
  <2> QED
    BY <1>1, <2>1, <2>2, <2>3, <2>4, <2>5, <2>6, <2>7, <2>8 DEF TaskStep
<1>2. CASE HostAccepts
  BY <1>2 DEF HostAccepts, Side
<1>3. CASE HostRefuses
  BY <1>3 DEF HostRefuses, Side, Hop
<1>4. CASE HostAcceptFails
  BY <1>4 DEF HostAcceptFails, Side
<1>5. ASSUME NEW s \in Side, JoinReturns(s) \/ SendStop(s)
      PROVE  TypeOK'
  BY <1>5 DEF JoinReturns, SendStop
<1>6. CASE LoseLink
  <2>3. data' \in [Hop -> Seq(Nat)]
    BY <1>6, LossCuts
  <2>4. fin' \in [Hop -> BOOLEAN]
    BY <1>6 DEF LoseLink
  <2> QED
    BY <1>6, <2>3, <2>4 DEF LoseLink
<1>7. ASSUME NEW e \in End, Send(e) \/ Receive(e) \/ Shut(e) \/ Vanish(e)
      PROVE  TypeOK'
  <2> SendsOn[e] \in Hop /\ ReceivesOn[e] \in Hop
    BY DEF End, SendsOn, ReceivesOn, Hop
  <2>2. CASE Send(e)
    <3>1. data' \in [Hop -> Seq(Nat)]
      BY <2>2, SendAppends
    <3> QED
      BY <2>2, <3>1 DEF Send
  <2>3. CASE Receive(e)
    BY <2>3 DEF Receive
  <2>4. CASE Shut(e) \/ Vanish(e)
    BY <2>4 DEF Shut, Vanish
  <2> QED
    BY <1>7, <2>2, <2>3, <2>4
<1>8. CASE Tick
  BY <1>8 DEF Tick
<1>9. CASE UNCHANGED vars
  BY <1>9 DEF vars
<1> QED
  BY <1>1, <1>2, <1>3, <1>4, <1>5, <1>6, <1>7, <1>8, <1>9, Steps

-----------------------------------------------------------------------------
(* The bytes.                                                              *)

\* Only these steps move bytes.
LEMMA ByteSteps ==
  ASSUME [Next]_vars
  PROVE  \/ \E t \in Task : ReadArm(t) \/ WriteByte(t)
         \/ LoseLink
         \/ \E e \in End : Send(e) \/ Receive(e)
         \/ UNCHANGED <<data, rd, held, link>>
<1> USE DEF hops, tasks, sides
<1>1. ASSUME NEW t \in Task, TaskStep(t)
      PROVE  ReadArm(t) \/ WriteByte(t) \/ UNCHANGED <<data, rd, held, link>>
  BY <1>1 DEF TaskStep, LoopTop, StopArm, EofArm, ReadError, SleepArm, WritePanics
<1>2. HostAccepts \/ HostRefuses \/ HostAcceptFails \/ Tick
        => UNCHANGED <<data, rd, held, link>>
  BY DEF HostAccepts, HostRefuses, HostAcceptFails, Tick
<1>3. ASSUME NEW s \in Side, JoinReturns(s) \/ SendStop(s)
      PROVE  UNCHANGED <<data, rd, held, link>>
  BY <1>3 DEF JoinReturns, SendStop
<1>4. ASSUME NEW e \in End, Shut(e) \/ Vanish(e)
      PROVE  UNCHANGED <<data, rd, held, link>>
  BY <1>4 DEF Shut, Vanish
<1>5. UNCHANGED vars => UNCHANGED <<data, rd, held, link>>
  BY DEF vars
<1> QED
  BY <1>1, <1>2, <1>3, <1>4, <1>5, Steps

\* A prefix of a counting sequence counts, and so does one byte more.
LEMMA CountsPrefix ==
  ASSUME NEW s \in Seq(Nat), NEW u \in Seq(Nat), Counts(s), Len(u) <= Len(s),
         \A i \in 1..Len(u) : u[i] = s[i]
  PROVE  Counts(u)
BY DEF Counts

\* One byte more, if it is the next, keeps a sequence counting.
LEMMA CountsOneMore ==
  ASSUME NEW s \in Seq(Nat), NEW u \in Seq(Nat), Counts(s), Len(u) = Len(s) + 1,
         \A i \in 1..Len(s) : u[i] = s[i], u[Len(u)] = Len(u)
  PROVE  Counts(u)
BY DEF Counts

\* A write appends the next bytes of the stream, a cut leaves the first of
\* them, a read takes no more than there is.
LEMMA CountingStep ==
  ASSUME TypeOK, Counting, Accounted, HeldWhileWriting, [Next]_vars
  PROVE  Counting'
<1> SUFFICES ASSUME NEW h \in Hop
             PROVE  Counts(data'[h]) /\ rd'[h] <= Len(data'[h])
  BY DEF Counting
<1>0. data[h] \in Seq(Nat) /\ rd[h] \in Nat /\ rd[h] <= Len(data[h]) /\ Counts(data[h])
  BY DEF TypeOK, Counting
<1>1. ASSUME NEW t \in Task, ReadArm(t)
      PROVE  data' = data /\ rd'[h] <= Len(data[h])
  <2>1. PICK n \in Nat \ {0} : /\ rd[Src[t]] + n <= Len(data[Src[t]])
                              /\ rd' = [rd EXCEPT ![Src[t]] = rd[Src[t]] + n]
    BY <1>1, ReadTakes
  <2> QED
    BY <1>0, <1>1, <2>1 DEF ReadArm, TypeOK
<1>2. ASSUME NEW t \in Task, WriteByte(t)
      PROVE  Counts(data'[h]) /\ rd'[h] <= Len(data'[h])
  <2>1. PICK s \in Seq(Nat) :
          /\ Len(s) = Len(data[Dst[t]]) + 1
          /\ \A i \in 1..Len(data[Dst[t]]) : s[i] = data[Dst[t]][i]
          /\ s[Len(s)] = held[t][1]
          /\ data' = [data EXCEPT ![Dst[t]] = s]
    BY <1>2, WriteMoves
  <2>2. rd' = rd /\ Carries(Dst[t]) /\ held[t] \in Seq(Nat) /\ held[t] # <<>>
    BY <1>2 DEF WriteByte, TypeOK, HeldWhileWriting
  <2>3. held[t][1] = Len(data[Dst[t]]) + 1
    <3>1. 1 \in 1..Len(held[t])
      BY <2>2
    <3> QED
      BY <2>2, <3>1 DEF Accounted
  <2>4. CASE h = Dst[t]
    <3>1. data'[h] = s
      BY <2>1, <2>4 DEF TypeOK
    <3>2. Counts(s)
      BY <1>0, <2>1, <2>3, <2>4, CountsOneMore
    <3> QED
      BY <1>0, <2>1, <2>2, <2>4, <3>1, <3>2
  <2>5. CASE h # Dst[t]
    BY <1>0, <2>1, <2>2, <2>5 DEF TypeOK
  <2> QED
    BY <2>4, <2>5
<1>3. CASE LoseLink
  <2>1. PICK u, d \in Seq(Nat) :
           /\ data' = [data EXCEPT !["up"] = u, !["down"] = d]
           /\ rd["up"] <= Len(u) /\ Len(u) <= Len(data["up"])
           /\ rd["down"] <= Len(d) /\ Len(d) <= Len(data["down"])
           /\ \A i \in 1..Len(u) : u[i] = data["up"][i]
           /\ \A i \in 1..Len(d) : d[i] = data["down"][i]
    BY <1>3, LossCuts
  <2>2. rd' = rd
    BY <1>3 DEF LoseLink
  <2>3. CASE h = "up"
    <3>1. Counts(u)
      BY <1>0, <2>1, <2>3, CountsPrefix
    <3>2. data'[h] = u
      BY <2>1, <2>3 DEF TypeOK
    <3> QED
      BY <2>1, <2>2, <2>3, <3>1, <3>2
  <2>4. CASE h = "down"
    <3>1. Counts(d)
      BY <1>0, <2>1, <2>4, CountsPrefix
    <3>2. data'[h] = d
      BY <2>1, <2>4 DEF TypeOK
    <3> QED
      BY <2>1, <2>2, <2>4, <3>1, <3>2
  <2>5. CASE h \notin {"up", "down"}
    BY <1>0, <2>1, <2>2, <2>5 DEF TypeOK
  <2> QED
    BY <2>3, <2>4, <2>5
<1>4. ASSUME NEW e \in End, Send(e)
      PROVE  Counts(data'[h]) /\ rd'[h] <= Len(data'[h])
  <2>1. PICK s \in Seq(Nat) :
           /\ Len(s) = Len(data[SendsOn[e]]) + 1
           /\ \A i \in 1..Len(data[SendsOn[e]]) : s[i] = data[SendsOn[e]][i]
           /\ s[Len(s)] = Len(s)
           /\ data' = [data EXCEPT ![SendsOn[e]] = s]
    BY <1>4, SendAppends
  <2>2. rd' = rd
    BY <1>4 DEF Send
  <2>3. CASE h = SendsOn[e]
    <3>1. Counts(s)
      BY <1>0, <2>1, <2>3, CountsOneMore
    <3>2. data'[h] = s
      BY <2>1, <2>3 DEF TypeOK
    <3> QED
      BY <1>0, <2>1, <2>2, <2>3, <3>1, <3>2
  <2>4. CASE h # SendsOn[e]
    BY <1>0, <2>1, <2>2, <2>4 DEF TypeOK
  <2> QED
    BY <2>3, <2>4
<1>5. ASSUME NEW e \in End, Receive(e)
      PROVE  data' = data /\ rd'[h] <= Len(data[h])
  BY <1>0, <1>5 DEF Receive, Available, TypeOK
<1> QED
  BY <1>0, <1>1, <1>2, <1>3, <1>4, <1>5, ByteSteps

\* What a hop holds is at most what was read for it, and a byte moved from
\* the buffer to the hop keeps the balance and the numbers of the bytes left.
LEMMA Balance ==
  ASSUME NEW n \in Nat, NEW s \in Seq(Nat), NEW q \in Seq(Nat), n = Len(s) + Len(q)
  PROVE  Len(s) <= n
OBVIOUS

\* The numbers of what a task still holds after one byte went on.
LEMMA NumbersKept ==
  ASSUME NEW s \in Seq(Nat), NEW q \in Seq(Nat), NEW s2 \in Seq(Nat), NEW q2 \in Seq(Nat),
         Len(s2) = Len(s) + 1, Len(q) = Len(q2) + 1,
         \A i \in 1..Len(q) : q[i] = Len(s) + i,
         \A i \in 1..Len(q2) : q2[i] = q[i + 1]
  PROVE  \A i \in 1..Len(q2) : q2[i] = Len(s2) + i
<1> SUFFICES ASSUME NEW i \in 1..Len(q2)
             PROVE  q2[i] = Len(s2) + i
  OBVIOUS
<1>1. i + 1 \in 1..Len(q)
  OBVIOUS
<1>2. q2[i] = Len(s) + (i + 1)
  BY <1>1
<1> QED
  BY <1>2

\* What a task has read stays in its buffer until it is on the next hop: the
\* write of a chunk comes between two reads (write_all in net/tcp.rs).
LEMMA AccountedStep ==
  ASSUME TypeOK, Counting, Accounted, HeldWhileWriting, [Next]_vars
  PROVE  Accounted'
<1> DEFINE P(t, c, s, q, n) ==
             IF c THEN /\ n = Len(s) + Len(q)
                       /\ \A i \in 1..Len(q) : q[i] = Len(s) + i
                  ELSE Len(s) <= n
<1> SUFFICES ASSUME NEW t \in Task
             PROVE  P(t, Carries(Dst[t])', data'[Dst[t]], held'[t], rd'[Src[t]])
  BY DEF Accounted
<1>0. /\ Src[t] \in Hop /\ Dst[t] \in Hop
      /\ data[Dst[t]] \in Seq(Nat) /\ held[t] \in Seq(Nat) /\ rd[Src[t]] \in Nat
      /\ Len(data[Dst[t]]) \in Nat /\ Len(held[t]) \in Nat
      /\ P(t, Carries(Dst[t]), data[Dst[t]], held[t], rd[Src[t]])
  BY Halves DEF TypeOK, Accounted
<1>a. Carries(Dst[t]) =>
         /\ rd[Src[t]] = Len(data[Dst[t]]) + Len(held[t])
         /\ \A i \in 1..Len(held[t]) : held[t][i] = Len(data[Dst[t]]) + i
  BY DEF Accounted
<1>b. data[Dst[t]] \in Seq(Nat) /\ held[t] \in Seq(Nat) /\ rd[Src[t]] \in Nat
  BY <1>0
<1>1. ASSUME NEW u \in Task, ReadArm(u)
      PROVE  P(t, Carries(Dst[t])', data'[Dst[t]], held'[t], rd'[Src[t]])
  <2>1. PICK n \in Nat \ {0}, r \in Seq(Nat) :
           /\ Len(r) = n
           /\ rd[Src[u]] + n <= Len(data[Src[u]])
           /\ \A i \in 1..n : r[i] = data[Src[u]][rd[Src[u]] + i]
           /\ held' = [held EXCEPT ![u] = r]
           /\ rd' = [rd EXCEPT ![Src[u]] = rd[Src[u]] + n]
    BY <1>1, ReadTakes
  <2>2. data' = data /\ link' = link /\ Carries(Dst[t])' = Carries(Dst[t])
    BY <1>1 DEF ReadArm, Carries
  <2>3. CASE u = t
    <3>1. held[t] = <<>>
      BY <1>1, <2>3 DEF ReadArm, HeldWhileWriting
    <3>2. held'[t] = r /\ rd'[Src[t]] = rd[Src[t]] + n
      BY <1>0, <2>1, <2>3 DEF TypeOK
    <3>3. data[Src[t]] \in Seq(Nat) /\ Counts(data[Src[t]])
      BY <1>0 DEF TypeOK, Counting
    <3>4. \A i \in 1..n : r[i] = rd[Src[t]] + i
      <4> SUFFICES ASSUME NEW i \in 1..n
                   PROVE  r[i] = rd[Src[t]] + i
        OBVIOUS
      <4>1. rd[Src[t]] + i \in 1..Len(data[Src[t]])
        <5>1. Len(data[Src[t]]) \in Nat /\ i \in Nat /\ 1 <= i /\ i <= n
          BY <3>3
        <5>2. rd[Src[t]] + n <= Len(data[Src[t]])
          BY <2>1, <2>3
        <5> QED
          BY <1>0, <5>1, <5>2, SMTT(30)
      <4> QED
        BY <2>1, <2>3, <3>3, <4>1 DEF Counts
    <3>5. Len(held[t]) = 0 /\ Len(r) = n
      BY <2>1, <3>1
    <3>6. CASE Carries(Dst[t])
      <4>1. rd[Src[t]] = Len(data[Dst[t]])
        BY <1>0, <3>5, <3>6
      <4> QED
        BY <2>2, <3>2, <3>4, <3>5, <3>6, <4>1
    <3>7. CASE ~Carries(Dst[t])
      BY <1>0, <2>2, <3>2, <3>7
    <3> QED
      BY <3>6, <3>7
  <2>4. CASE u # t
    <3>1. held'[t] = held[t] /\ rd'[Src[t]] = rd[Src[t]]
      BY <1>0, <2>1, <2>4, Halves DEF TypeOK
    <3> QED
      BY <1>0, <2>2, <3>1
  <2> QED
    BY <2>3, <2>4
<1>2. ASSUME NEW u \in Task, WriteByte(u)
      PROVE  P(t, Carries(Dst[t])', data'[Dst[t]], held'[t], rd'[Src[t]])
  <2>1. PICK s \in Seq(Nat), r \in Seq(Nat) :
           /\ Len(s) = Len(data[Dst[u]]) + 1
           /\ Len(held[u]) = Len(r) + 1
           /\ \A i \in 1..Len(r) : r[i] = held[u][i + 1]
           /\ data' = [data EXCEPT ![Dst[u]] = s]
           /\ held' = [held EXCEPT ![u] = r]
    BY <1>2, WriteMoves
  <2>2. rd' = rd /\ Carries(Dst[u]) /\ Carries(Dst[t])' = Carries(Dst[t])
    BY <1>2 DEF WriteByte, Carries
  <2>3. CASE u = t
    <3>1. held'[t] = r /\ data'[Dst[t]] = s
      BY <1>0, <2>1, <2>3 DEF TypeOK
    <3>2. Carries(Dst[t])
      BY <2>2, <2>3
    <3>3. /\ Len(s) = Len(data[Dst[t]]) + 1
          /\ Len(held[t]) = Len(r) + 1
          /\ \A i \in 1..Len(r) : r[i] = held[t][i + 1]
      BY <2>1, <2>3
    <3>4. \A i \in 1..Len(r) : r[i] = Len(s) + i
      BY <1>a, <1>b, <3>2, <3>3, NumbersKept
    <3>5. rd[Src[t]] = Len(s) + Len(r)
      <4>1. rd[Src[t]] = Len(data[Dst[t]]) + Len(held[t])
        BY <1>a, <3>2
      <4>2. Len(data[Dst[t]]) + Len(held[t]) = Len(s) + Len(r)
        <5> DEFINE a == data[Dst[t]]
                   b == held[t]
        <5>1. /\ a \in Seq(Nat) /\ b \in Seq(Nat)
              /\ Len(s) = Len(a) + 1 /\ Len(b) = Len(r) + 1
          BY <1>b, <3>3
        <5> HIDE DEF a, b
        <5>2. Len(a) + Len(b) = Len(s) + Len(r)
          BY <5>1
        <5> QED
          BY <5>2 DEF a, b
      <4> QED
        BY <4>1, <4>2, Zenon
    <3> QED
      BY <2>2, <2>3, <3>1, <3>4, <3>5
  <2>4. CASE u # t
    <3>1. held'[t] = held[t] /\ data'[Dst[t]] = data[Dst[t]]
      BY <1>0, <2>1, <2>4, Halves DEF TypeOK
    <3> QED
      BY <1>0, <2>2, <3>1
  <2> QED
    BY <2>3, <2>4
<1>3. CASE LoseLink
  <2>1. PICK u \in Seq(Nat), d \in Seq(Nat) :
           /\ data' = [data EXCEPT !["up"] = u, !["down"] = d]
           /\ Len(u) <= Len(data["up"])
           /\ Len(d) <= Len(data["down"])
    BY <1>3, LossCuts
  <2>2. rd' = rd /\ held' = held /\ link /\ ~link'
    BY <1>3 DEF LoseLink, tasks
  <2>3. CASE Dst[t] \in Tunnel
    <3>1. Carries(Dst[t]) /\ ~Carries(Dst[t])'
      BY <2>2, <2>3 DEF Carries
    <3>2. Len(data'[Dst[t]]) \in Nat /\ Len(data'[Dst[t]]) <= Len(data[Dst[t]])
      <4>1. CASE Dst[t] = "up"
        <5>1. data'[Dst[t]] = u
          BY <1>0, <2>1, <4>1 DEF TypeOK
        <5> QED
          BY <2>1, <4>1, <5>1
      <4>2. CASE Dst[t] = "down"
        <5>1. data'[Dst[t]] = d
          BY <1>0, <2>1, <4>2 DEF TypeOK
        <5> QED
          BY <2>1, <4>2, <5>1
      <4> QED
        BY <2>3, <4>1, <4>2 DEF Tunnel
    <3>3. Len(data[Dst[t]]) <= rd[Src[t]]
      <4>1. rd[Src[t]] = Len(data[Dst[t]]) + Len(held[t])
        BY <1>a, <3>1
      <4> QED
        BY <1>b, <4>1, Balance
    <3> QED
      BY <1>0, <2>2, <3>1, <3>2, <3>3
  <2>4. CASE Dst[t] \notin Tunnel
    <3>1. data'[Dst[t]] = data[Dst[t]] /\ Carries(Dst[t])' = Carries(Dst[t])
      BY <1>0, <2>1, <2>4 DEF TypeOK, Tunnel, Carries
    <3> QED
      BY <1>0, <2>2, <3>1
  <2> QED
    BY <2>3, <2>4
<1>4. ASSUME NEW e \in End, Send(e)
      PROVE  P(t, Carries(Dst[t])', data'[Dst[t]], held'[t], rd'[Src[t]])
  <2>1. rd' = rd /\ held' = held /\ Carries(Dst[t])' = Carries(Dst[t])
    BY <1>4 DEF Send, Carries, tasks
  <2>2. data'[Dst[t]] = data[Dst[t]]
    BY <1>0, <1>4, Halves DEF Send, TypeOK
  <2> QED
    BY <1>0, <2>1, <2>2
<1>5. ASSUME NEW e \in End, Receive(e)
      PROVE  P(t, Carries(Dst[t])', data'[Dst[t]], held'[t], rd'[Src[t]])
  <2>1. data' = data /\ held' = held /\ Carries(Dst[t])' = Carries(Dst[t])
    BY <1>5 DEF Receive, Carries, tasks
  <2>2. rd'[Src[t]] = rd[Src[t]]
    BY <1>0, <1>5, Halves DEF Receive, TypeOK
  <2> QED
    BY <1>0, <2>1, <2>2
<1>6. CASE UNCHANGED <<data, rd, held, link>>
  <2>1. Carries(Dst[t])' = Carries(Dst[t])
    BY <1>6 DEF Carries
  <2> QED
    BY <1>0, <1>6, <2>1
<1> QED
  BY <1>1, <1>2, <1>3, <1>4, <1>5, <1>6, ByteSteps

\* A task leaves a write empty-handed, unless it panics or is killed in it.
LEMMA HeldWhileWritingStep ==
  ASSUME TypeOK, HeldWhileWriting, Spawned, [Next]_vars
  PROVE  HeldWhileWriting'
<1> USE DEF hops, tasks, sides, HeldWhileWriting, TypeOK
<1>1. ASSUME NEW t \in Task, TaskStep(t)
      PROVE  HeldWhileWriting'
  <2>1. CASE LoopTop(t)
    BY <2>1 DEF LoopTop
  <2>2. CASE StopArm(t)
    BY <2>2 DEF StopArm, Break, Waiting
  <2>3. CASE ReadArm(t)
    <3>1. PICK n \in Nat \ {0}, r \in Seq(Nat) :
             Len(r) = n /\ held' = [held EXCEPT ![t] = r]
      BY <2>3, ReadTakes
    <3>2. r # <<>>
      BY <3>1
    <3> QED
      BY <2>3, <3>1, <3>2 DEF ReadArm
  <2>4. CASE EofArm(t)
    BY <2>4 DEF EofArm, Break
  <2>5. CASE ReadError(t)
    BY <2>5 DEF ReadError
  <2>6. CASE SleepArm(t)
    BY <2>6 DEF SleepArm, Break, Waiting
  <2>7. CASE WriteByte(t)
    <3>1. PICK r \in Seq(Nat) :
             Len(held[t]) = Len(r) + 1 /\ held' = [held EXCEPT ![t] = r]
      BY <2>7, WriteMoves
    <3>2. Len(held[t]) = 1 <=> r = <<>>
      BY <3>1
    <3>3. pc' = [pc EXCEPT ![t] = IF r = <<>> THEN "top" ELSE "write"]
      BY <2>7, <3>2 DEF WriteByte
    <3> QED
      BY <3>1, <3>3
  <2>8. CASE WritePanics(t)
    <3>1. held' = held
      BY <2>8 DEF WritePanics
    <3>2. \A u \in Task : \/ pc'[u] = pc[u]
                          \/ pc'[u] \in {"panicked", "killed"}
      BY <2>8 DEF WritePanics, Abort, Break
    <3> QED
      BY <3>1, <3>2
  <2> QED
    BY <1>1, <2>1, <2>2, <2>3, <2>4, <2>5, <2>6, <2>7, <2>8 DEF TaskStep
<1>2. CASE HostAccepts
  <2>1. held' = held /\ \A t \in Task : pc'[t] = pc[t] \/ pc'[t] = "top"
    BY <1>2 DEF HostAccepts
  <2>2. ASSUME NEW t \in Task, Place[t] = "host"
        PROVE  held[t] = <<>>
    BY <2>2, <1>2 DEF HostAccepts, Spawned, TasksOf
  <2> QED
    BY <2>1, <2>2, <1>2 DEF HostAccepts
<1>3. ASSUME UNCHANGED <<pc, held>>
      PROVE  HeldWhileWriting'
  BY <1>3
<1>4. CASE HostRefuses \/ HostAcceptFails \/ LoseLink \/ Tick \/ UNCHANGED vars
  BY <1>3, <1>4 DEF HostRefuses, HostAcceptFails, LoseLink, Tick, vars
<1>5. ASSUME NEW s \in Side, JoinReturns(s) \/ SendStop(s)
      PROVE  HeldWhileWriting'
  BY <1>3, <1>5 DEF JoinReturns, SendStop
<1>6. ASSUME NEW e \in End, Send(e) \/ Receive(e) \/ Shut(e) \/ Vanish(e)
      PROVE  HeldWhileWriting'
  BY <1>3, <1>6 DEF Send, Receive, Shut, Vanish
<1> QED
  BY <1>1, <1>2, <1>4, <1>5, <1>6, Steps

-----------------------------------------------------------------------------
(* How tasks and sessions end.                                             *)

\* A step of a task takes it round its loop, ends it, or aborts its process.
LEMMA TaskOutcomes ==
  ASSUME TypeOK, NEW t \in Task, TaskStep(t)
  PROVE  /\ pc[t] \in Active
         /\ \/ /\ \E where \in Active : pc' = [pc EXCEPT ![t] = where]
               /\ UNCHANGED <<fin, dropped, link, session>>
            \/ /\ \E why \in Ended \ {"killed"} : Break(t, why)
               /\ UNCHANGED <<link, session>>
            \/ pc[t] = "write" /\ PanicAborts /\ Abort(t) /\ UNCHANGED link
<1> USE DEF hops, tasks, sides, Active, Waiting, Ended
<1>1. CASE LoopTop(t)
  BY <1>1 DEF LoopTop
<1>2. CASE StopArm(t)
  BY <1>2 DEF StopArm
<1>3. CASE ReadArm(t)
  BY <1>3 DEF ReadArm
<1>4. CASE EofArm(t)
  BY <1>4 DEF EofArm
<1>5. CASE ReadError(t)
  BY <1>5 DEF ReadError
<1>6. CASE SleepArm(t)
  BY <1>6 DEF SleepArm
<1>7. CASE WriteByte(t)
  BY <1>7 DEF WriteByte
<1>8. CASE WritePanics(t)
  BY <1>8 DEF WritePanics
<1> QED
  BY <1>1, <1>2, <1>3, <1>4, <1>5, <1>6, <1>7, <1>8 DEF TaskStep

\* Every other step but the spawn leaves the tasks alone.
LEMMA OtherSteps ==
  ASSUME [Next]_vars
  PROVE  \/ \E t \in Task : TaskStep(t)
         \/ HostAccepts
         \/ UNCHANGED pc
<1> USE DEF hops, tasks, sides
<1>1. HostRefuses \/ HostAcceptFails \/ LoseLink \/ Tick \/ UNCHANGED vars => UNCHANGED pc
  BY DEF HostRefuses, HostAcceptFails, LoseLink, Tick, vars
<1>2. ASSUME NEW s \in Side, JoinReturns(s) \/ SendStop(s)
      PROVE  UNCHANGED pc
  BY <1>2 DEF JoinReturns, SendStop
<1>3. ASSUME NEW e \in End, Send(e) \/ Receive(e) \/ Shut(e) \/ Vanish(e)
      PROVE  UNCHANGED pc
  BY <1>3 DEF Send, Receive, Shut, Vanish
<1> QED
  BY <1>1, <1>2, <1>3, Steps

\* A task that ended stays as it ended.
LEMMA EndedStays ==
  ASSUME TypeOK, Spawned, [Next]_vars, NEW t \in Task, pc[t] \in Ended
  PROVE  pc'[t] = pc[t]
<1>1. ASSUME NEW u \in Task, TaskStep(u)
      PROVE  pc'[t] = pc[t]
  <2>1. u # t
    BY <1>1, TaskOutcomes DEF Active, Waiting, Ended
  <2>2. ASSUME NEW where, pc' = [pc EXCEPT ![u] = where]
        PROVE  pc'[t] = pc[t]
    BY <2>1, <2>2 DEF TypeOK
  <2>3. CASE Abort(u)
    BY <2>1, <2>3 DEF Abort, Active, Waiting, Ended
  <2> QED
    BY <1>1, <2>2, <2>3, TaskOutcomes DEF Break
<1>2. CASE HostAccepts
  BY <1>2 DEF HostAccepts, Spawned, TasksOf, Ended
<1> QED
  BY <1>1, <1>2, OtherSteps

\* A session that failed, or was taken by an abort, stays so.
LEMMA SessionStays ==
  ASSUME TypeOK, Spawned, [Next]_vars
  PROVE  /\ session["host"] = "failed" => session'["host"] = "failed"
         /\ \A s \in Side : session[s] = "aborted" => session'[s] = "aborted"
<1> USE DEF hops, tasks, sides, TypeOK
<1>1. ASSUME NEW t \in Task, TaskStep(t)
      PROVE  \/ UNCHANGED session
             \/ /\ session' = [session EXCEPT ![Place[t]] = "aborted"]
                /\ Place[t] = "host" => session["host"] # "failed"
  <2>1. pc[t] \in Active
    BY <1>1, TaskOutcomes
  <2>2. Place[t] = "host" => session["host"] # "failed"
    BY <2>1 DEF Spawned, TasksOf, Active, Waiting
  <2> QED
    BY <1>1, <2>2, TaskOutcomes DEF Abort
<1>2. CASE HostAccepts \/ HostRefuses \/ HostAcceptFails
  BY <1>2 DEF HostAccepts, HostRefuses, HostAcceptFails
<1>3. ASSUME NEW s \in Side, JoinReturns(s) \/ SendStop(s)
      PROVE  UNCHANGED session \/ (session[s] = "joining" /\ session' = [session EXCEPT ![s] = "left"])
  BY <1>3 DEF JoinReturns, SendStop
<1>4. CASE LoseLink \/ Tick \/ UNCHANGED vars
  BY <1>4 DEF LoseLink, Tick, vars
<1>5. ASSUME NEW e \in End, Send(e) \/ Receive(e) \/ Shut(e) \/ Vanish(e)
      PROVE  UNCHANGED session
  BY <1>5 DEF Send, Receive, Shut, Vanish
<1>6. "host" \in Side
  BY DEF Side
<1> QED
  BY <1>1, <1>2, <1>3, <1>4, <1>5, <1>6, Steps, Halves

\* The host spawns its two tasks together, once the service has answered.
LEMMA SpawnedStep ==
  ASSUME TypeOK, Spawned, [Next]_vars
  PROVE  Spawned'
<1> USE DEF hops, tasks, sides, TypeOK, TasksOf
<1>0. "host" \in Side /\ \A s \in Side : s # "host" => s = "client"
  BY DEF Side
<1>1. ASSUME NEW t \in Task, TaskStep(t)
      PROVE  Spawned'
  <2>1. pc[t] \in Active /\ pc[t] # "unborn"
    BY <1>1, TaskOutcomes DEF Active, Waiting
  <2>2. Place[t] = "host" => session["host"] \notin {"waiting", "failed"}
    BY <2>1 DEF Spawned
  <2>3. \A u \in Task : pc'[u] = "unborn" <=> pc[u] = "unborn"
    <3>1. ASSUME NEW where \in Active \cup Ended, pc' = [pc EXCEPT ![t] = where]
          PROVE  \A u \in Task : pc'[u] = "unborn" <=> pc[u] = "unborn"
      BY <2>1, <3>1 DEF Active, Waiting, Ended
    <3>2. CASE Abort(t)
      BY <2>1, <3>2 DEF Abort, Active, Waiting
    <3> QED
      BY <1>1, <3>1, <3>2, TaskOutcomes DEF Break
  <2>4. \/ session' = session
        \/ session' = [session EXCEPT ![Place[t]] = "aborted"]
    BY <1>1, TaskOutcomes DEF Abort
  <2> QED
    BY <1>0, <2>2, <2>3, <2>4, Halves, SMTT(30) DEF Spawned
<1>2. CASE HostAccepts
  BY <1>0, <1>2 DEF HostAccepts, Spawned
<1>3. CASE HostRefuses \/ HostAcceptFails
  BY <1>0, <1>3 DEF HostRefuses, HostAcceptFails, Spawned
<1>4. ASSUME NEW s \in Side, JoinReturns(s) \/ SendStop(s)
      PROVE  Spawned'
  BY <1>0, <1>4 DEF JoinReturns, SendStop, Spawned
<1>5. CASE LoseLink \/ Tick \/ UNCHANGED vars
  BY <1>5 DEF LoseLink, Tick, vars, Spawned
<1>6. ASSUME NEW e \in End, Send(e) \/ Receive(e) \/ Shut(e) \/ Vanish(e)
      PROVE  Spawned'
  BY <1>6 DEF Send, Receive, Shut, Vanish, Spawned
<1> QED
  BY <1>1, <1>2, <1>3, <1>4, <1>5, <1>6, Steps

\* What closes a tunnel stream, and what takes its reader away.
LEMMA TunnelCloses ==
  ASSUME TypeOK, [Next]_vars, NEW t \in Task, Dst[t] \in Tunnel,
         fin'[Dst[t]], ~fin[Dst[t]]
  PROVE  \/ pc'[t] \in Ended /\ TaskStep(t)
         \/ Dst[t] = "down" /\ HostRefuses
<1> USE DEF hops, tasks, sides, TypeOK
<1>0. Dst[t] \in Hop /\ \A e \in End : SendsOn[e] # Dst[t]
  BY Halves
<1>1. ASSUME NEW u \in Task, TaskStep(u)
      PROVE  pc'[t] \in Ended /\ TaskStep(t)
  <2>1. CASE UNCHANGED fin
    BY <2>1
  <2>2. ASSUME NEW why \in Ended, Break(u, why)
        PROVE  pc'[t] \in Ended /\ u = t
    <3>1. Dst[u] = Dst[t]
      BY <1>0, <2>2, Halves DEF Break
    <3> QED
      BY <2>2, <3>1, Halves DEF Break
  <2>3. CASE Abort(u)
    BY <1>0, <2>3 DEF Abort
  <2> QED
    BY <1>1, <2>1, <2>2, <2>3, TaskOutcomes
<1>2. CASE HostRefuses
  BY <1>0, <1>2 DEF HostRefuses, Tunnel
<1>3. CASE HostAccepts \/ HostAcceptFails \/ Tick \/ UNCHANGED vars
  BY <1>3 DEF HostAccepts, HostAcceptFails, Tick, vars
<1>4. ASSUME NEW s \in Side, JoinReturns(s) \/ SendStop(s)
      PROVE  UNCHANGED fin
  BY <1>4 DEF JoinReturns, SendStop
<1>5. CASE LoseLink
  BY <1>0, <1>5 DEF LoseLink, Tunnel
<1>6. ASSUME NEW e \in End, Send(e) \/ Receive(e) \/ Shut(e) \/ Vanish(e)
      PROVE  fin'[Dst[t]] = fin[Dst[t]]
  BY <1>0, <1>6 DEF Send, Receive, Shut, Vanish
<1> QED
  BY <1>1, <1>2, <1>3, <1>4, <1>5, <1>6, Steps

\* A tunnel stream loses its reader by the end of that task, or by a host that
\* never reaches its service.
LEMMA TunnelDropped ==
  ASSUME TypeOK, [Next]_vars, NEW t \in Task, Src[t] \in Tunnel,
         dropped'[Src[t]], ~dropped[Src[t]]
  PROVE  \/ pc'[t] \in Ended \ {"killed"}
         \/ Src[t] = "up" /\ HostRefuses
<1> USE DEF hops, tasks, sides, TypeOK
<1>0. Src[t] \in Hop /\ \A e \in End : ReceivesOn[e] # Src[t]
  BY Halves
<1>1. ASSUME NEW u \in Task, TaskStep(u)
      PROVE  pc'[t] \in Ended \ {"killed"}
  <2>1. CASE UNCHANGED dropped
    BY <2>1
  <2>2. ASSUME NEW why \in Ended \ {"killed"}, Break(u, why)
        PROVE  pc'[t] \in Ended \ {"killed"}
    <3>1. Src[u] = Src[t]
      BY <1>0, <2>2, Halves DEF Break
    <3> QED
      BY <2>2, <3>1, Halves DEF Break
  <2>3. CASE Abort(u)
    BY <2>1, <2>3 DEF Abort
  <2> QED
    BY <1>1, <2>1, <2>2, <2>3, TaskOutcomes
<1>2. CASE HostRefuses
  BY <1>0, <1>2 DEF HostRefuses, Tunnel
<1>3. CASE HostAccepts \/ HostAcceptFails \/ Tick \/ LoseLink \/ UNCHANGED vars
  BY <1>3 DEF HostAccepts, HostAcceptFails, Tick, LoseLink, vars
<1>4. ASSUME NEW s \in Side, JoinReturns(s) \/ SendStop(s)
      PROVE  UNCHANGED dropped
  BY <1>4 DEF JoinReturns, SendStop
<1>5. ASSUME NEW e \in End, Send(e) \/ Receive(e) \/ Shut(e) \/ Vanish(e)
      PROVE  dropped'[Src[t]] = dropped[Src[t]]
  BY <1>0, <1>5 DEF Send, Receive, Shut, Vanish
<1> QED
  BY <1>1, <1>2, <1>3, <1>4, <1>5, Steps

\* No task closes or leaves the stream of another.
LEMMA ClosedByEndingStep ==
  ASSUME TypeOK, Spawned, ClosedByEnding, [Next]_vars
  PROVE  ClosedByEnding'
<1> SUFFICES ASSUME NEW t \in Task
             PROVE  /\ Dst[t] \in Tunnel /\ fin'[Dst[t]] =>
                         \/ pc'[t] \in Ended
                         \/ Dst[t] = "down" /\ session'["host"] = "failed"
                    /\ Src[t] \in Tunnel /\ dropped'[Src[t]] =>
                         \/ pc'[t] \in Ended \ {"killed"}
                         \/ Src[t] = "up" /\ session'["host"] = "failed"
  BY DEF ClosedByEnding
<1>1. HostRefuses => session'["host"] = "failed"
  BY DEF HostRefuses, TypeOK, Side
<1>2. pc[t] \in Ended => pc'[t] = pc[t]
  BY EndedStays
<1>3. session["host"] = "failed" => session'["host"] = "failed"
  BY SessionStays
<1>4. ASSUME Dst[t] \in Tunnel, fin'[Dst[t]]
      PROVE  pc'[t] \in Ended \/ (Dst[t] = "down" /\ session'["host"] = "failed")
  <2>1. CASE fin[Dst[t]]
    BY <1>2, <1>3, <1>4, <2>1, Zenon DEF ClosedByEnding
  <2>2. CASE ~fin[Dst[t]]
    BY <1>1, <1>4, <2>2, TunnelCloses, Zenon
  <2> QED
    BY <2>1, <2>2
<1>5. ASSUME Src[t] \in Tunnel, dropped'[Src[t]]
      PROVE  \/ pc'[t] \in Ended \ {"killed"}
             \/ Src[t] = "up" /\ session'["host"] = "failed"
  <2>1. CASE dropped[Src[t]]
    BY <1>2, <1>3, <1>5, <2>1, Zenon DEF ClosedByEnding
  <2>2. CASE ~dropped[Src[t]]
    BY <1>1, <1>5, <2>2, TunnelDropped, Zenon
  <2> QED
    BY <2>1, <2>2
<1> QED
  BY <1>4, <1>5

-----------------------------------------------------------------------------
(* The end of a stream.                                                    *)

\* An end that closed its direction has closed it for good.
LEMMA EndStaysClosed ==
  ASSUME TypeOK, [Next]_vars, NEW h \in Hop, h \notin Tunnel, fin[h]
  PROVE  fin'[h]
<1> USE DEF hops, tasks, sides, TypeOK
<1>1. ASSUME NEW t \in Task, TaskStep(t)
      PROVE  fin'[h]
  <2>1. CASE UNCHANGED fin
    BY <2>1
  <2>2. ASSUME NEW why, Break(t, why)
        PROVE  fin'[h]
    BY <2>2, Halves DEF Break
  <2>3. CASE Abort(t)
    BY <2>3 DEF Abort
  <2> QED
    BY <1>1, <2>1, <2>2, <2>3, TaskOutcomes
<1>2. CASE HostRefuses
  BY <1>2 DEF HostRefuses, Tunnel
<1>3. CASE HostAccepts \/ HostAcceptFails \/ Tick \/ UNCHANGED vars
  BY <1>3 DEF HostAccepts, HostAcceptFails, Tick, vars
<1>4. ASSUME NEW s \in Side, JoinReturns(s) \/ SendStop(s)
      PROVE  fin'[h]
  BY <1>4 DEF JoinReturns, SendStop
<1>5. CASE LoseLink
  BY <1>5 DEF LoseLink, Tunnel
<1>6. ASSUME NEW e \in End, Send(e) \/ Receive(e) \/ Shut(e) \/ Vanish(e)
      PROVE  fin'[h]
  BY <1>6, Halves DEF Send, Receive, Shut, Vanish
<1> QED
  BY <1>1, <1>2, <1>3, <1>4, <1>5, <1>6, Steps

\* A task is told of the end only by its end-of-file arm.
LEMMA EofByArm ==
  ASSUME TypeOK, [Next]_vars, NEW t \in Task, pc'[t] = "eof", pc[t] # "eof"
  PROVE  EofArm(t)
<1> USE DEF TypeOK, hops, tasks, sides
<1>1. ASSUME NEW u \in Task, TaskStep(u)
      PROVE  EofArm(t)
  <2>1. u # t => pc'[t] = pc[t] \/ pc'[t] = "killed"
    <3>1. ASSUME NEW where, pc' = [pc EXCEPT ![u] = where], u # t
          PROVE  pc'[t] = pc[t]
      BY <3>1
    <3>2. CASE Abort(u)
      BY <3>2 DEF Abort
    <3> QED
      BY <1>1, <3>1, <3>2, TaskOutcomes DEF Break
  <2>2. CASE u = t
    BY <1>1, <2>2 DEF TaskStep, LoopTop, StopArm, ReadArm, ReadError, SleepArm,
       WriteByte, WritePanics, Break, Abort
  <2> QED
    BY <2>1, <2>2
<1>2. HostAccepts => pc'[t] = pc[t] \/ pc'[t] = "top"
  BY DEF HostAccepts
<1> QED
  BY <1>1, <1>2, OtherSteps

\* The source of a task that saw its end no longer changes length, and keeps
\* its reader's position.
LEMMA EofFreezes ==
  ASSUME IInv, [Next]_vars, NEW t \in Task, pc[t] = "eof"
  PROVE  rd'[Src[t]] = rd[Src[t]] /\ Len(data'[Src[t]]) = Len(data[Src[t]])
<1>0. /\ TypeOK /\ Counting /\ HeldWhileWriting /\ Spawned
      /\ Src[t] \in Hop /\ rd[Src[t]] = Len(data[Src[t]])
  BY Halves DEF IInv, EofIsFinal, Drained
<1>1. ASSUME NEW u \in Task, ReadArm(u)
      PROVE  UNCHANGED data /\ rd'[Src[t]] = rd[Src[t]]
  <2>1. u # t
    BY <1>1 DEF ReadArm
  <2>2. PICK n \in Nat : rd' = [rd EXCEPT ![Src[u]] = rd[Src[u]] + n]
    BY <1>0, <1>1, ReadTakes
  <2> QED
    <3>1. Src[u] # Src[t]
      BY <2>1, Halves
    <3>2. UNCHANGED data
      BY <1>1 DEF ReadArm
    <3> QED
      BY <1>0, <2>2, <3>1, <3>2 DEF TypeOK
<1>2. ASSUME NEW u \in Task, WriteByte(u)
      PROVE  UNCHANGED rd /\ data'[Src[t]] = data[Src[t]]
  <2>1. Dst[u] # Src[t]
    <3>1. pc[u] = "write"
      BY <1>2 DEF WriteByte
    <3>2. Dst[u] = "down" => session["host"] # "failed"
      BY <1>0, <3>1 DEF Spawned, TasksOf, Dst, Place, Task
    <3> QED
      BY <3>1, <3>2 DEF IInv, EofIsFinal, Ended
  <2> QED
    BY <1>0, <1>2, <2>1, Halves DEF WriteByte, TypeOK
<1>3. CASE LoseLink
  <2>1. PICK u, d \in Seq(Nat) :
           /\ data' = [data EXCEPT !["up"] = u, !["down"] = d]
           /\ rd["up"] <= Len(u) /\ Len(u) <= Len(data["up"])
           /\ rd["down"] <= Len(d) /\ Len(d) <= Len(data["down"])
    BY <1>0, <1>3, LossCuts
  <2>2. UNCHANGED rd
    BY <1>3 DEF LoseLink
  <2>3. CASE Src[t] = "up"
    <3>1. data'[Src[t]] = u
      BY <1>0, <2>1, <2>3 DEF TypeOK
    <3>2. rd["up"] = Len(data["up"]) /\ data["up"] \in Seq(Nat)
      BY <1>0, <2>3 DEF TypeOK
    <3> QED
      BY <1>0, <2>1, <2>2, <2>3, <3>1, <3>2
  <2>4. CASE Src[t] = "down"
    <3>1. data'[Src[t]] = d
      BY <1>0, <2>1, <2>4 DEF TypeOK
    <3>2. rd["down"] = Len(data["down"]) /\ data["down"] \in Seq(Nat)
      BY <1>0, <2>4 DEF TypeOK
    <3> QED
      BY <1>0, <2>1, <2>2, <2>4, <3>1, <3>2
  <2>5. CASE Src[t] \notin {"up", "down"}
    BY <1>0, <2>1, <2>2, <2>5 DEF TypeOK
  <2> QED
    BY <2>3, <2>4, <2>5
<1>4. ASSUME NEW e \in End, Send(e)
      PROVE  UNCHANGED rd /\ data'[Src[t]] = data[Src[t]]
  <2>1. SendsOn[e] # Src[t]
    <3>1. SendsOn[e] \notin Tunnel /\ ~fin[SendsOn[e]]
      BY <1>4, Halves DEF Send, Tunnel
    <3> QED
      BY <3>1 DEF IInv, EofIsFinal
  <2> QED
    BY <1>0, <1>4, <2>1 DEF Send, TypeOK
<1>5. ASSUME NEW e \in End, Receive(e)
      PROVE  UNCHANGED data /\ rd'[Src[t]] = rd[Src[t]]
  BY <1>0, <1>5, Halves DEF Receive, TypeOK
<1> QED
  BY <1>1, <1>2, <1>3, <1>4, <1>5, ByteSteps

\* After the end of its source a task can be given nothing more: who feeds it
\* closed the source as it ended.
LEMMA EofIsFinalStep ==
  ASSUME IInv, [Next]_vars
  PROVE  EofIsFinal'
<1> SUFFICES ASSUME NEW t \in Task, pc'[t] = "eof"
             PROVE  /\ rd'[Src[t]] = Len(data'[Src[t]])
                    /\ Src[t] \notin Tunnel => fin'[Src[t]]
                    /\ \A u \in Task : Dst[u] = Src[t] =>
                         \/ pc'[u] \in Ended
                         \/ Src[t] = "down" /\ session'["host"] = "failed"
  BY DEF EofIsFinal, Drained
<1>0. TypeOK /\ Spawned /\ ClosedByEnding /\ Src[t] \in Hop
  BY Halves DEF IInv
<1>1. \A u \in Task : pc[u] \in Ended => pc'[u] \in Ended
  BY <1>0, EndedStays
<1>2. session["host"] = "failed" => session'["host"] = "failed"
  BY <1>0, SessionStays
<1>3. CASE pc[t] = "eof"
  <2>1. rd'[Src[t]] = Len(data'[Src[t]])
    BY <1>3, EofFreezes DEF IInv, EofIsFinal, Drained
  <2>2. Src[t] \notin Tunnel => fin'[Src[t]]
    BY <1>0, <1>3, EndStaysClosed DEF IInv, EofIsFinal
  <2>3. ASSUME NEW u \in Task, Dst[u] = Src[t]
        PROVE  \/ pc'[u] \in Ended
               \/ Src[t] = "down" /\ session'["host"] = "failed"
    BY <1>1, <1>2, <1>3, <2>3 DEF IInv, EofIsFinal
  <2> QED
    BY <2>1, <2>2, <2>3
<1>4. CASE pc[t] # "eof"
  <2>1. EofArm(t)
    BY <1>0, <1>4, EofByArm
  <2>2. rd'[Src[t]] = Len(data'[Src[t]]) /\ fin[Src[t]]
    BY <2>1 DEF EofArm, AtEof, Drained
  <2>3. Src[t] \notin Tunnel => fin'[Src[t]]
    BY <1>0, <2>2, EndStaysClosed
  <2>4. ASSUME NEW u \in Task, Dst[u] = Src[t]
        PROVE  \/ pc'[u] \in Ended
               \/ Src[t] = "down" /\ session'["host"] = "failed"
    <3>1. Dst[u] \in Tunnel
      BY <2>4, Halves DEF Tunnel, Hop
    <3> QED
      BY <1>0, <1>1, <1>2, <2>2, <2>4, <3>1, Zenon DEF ClosedByEnding
  <2> QED
    BY <2>2, <2>3, <2>4
<1> QED
  BY <1>3, <1>4

\* A task that ends at the end of its source has written all of it before it
\* closes its destination.
LEMMA CloseFollowsStep ==
  ASSUME IInv, [Next]_vars
  PROVE  CloseFollows'
<1> SUFFICES ASSUME NEW t \in Task, NEW u \in Task, Dst[t] = Src[u], pc'[t] = "eof"
             PROVE  /\ fin'[Dst[t]] => Len(data'[Dst[t]]) = Len(data'[Src[t]])
                    /\ pc'[u] = "eof" => Len(data'[Dst[u]]) = Len(data'[Src[t]])
  BY DEF CloseFollows
<1>0. /\ TypeOK /\ Counting /\ Accounted /\ HeldWhileWriting /\ Spawned /\ ClosedByEnding
      /\ Dst[t] \in Tunnel /\ Dst[u] \notin Tunnel /\ Src[t] \in Hop /\ Dst[t] \in Hop
      /\ Dst[u] \in Hop /\ Src[t] \notin Tunnel /\ t # u
  BY Halves DEF IInv, Tunnel, Hop
<1>1. ASSUME NEW w \in Task, pc[w] \in Ended
      PROVE  ~ReadArm(w) /\ ~WriteByte(w) /\ ~TaskStep(w)
  <2>1. ~TaskStep(w)
    BY <1>0, <1>1, TaskOutcomes DEF Active, Waiting, Ended
  <2> QED
    BY <2>1 DEF TaskStep
<1>2. CASE pc[t] = "eof"
  <2>1. Len(data'[Src[t]]) = Len(data[Src[t]])
    BY <1>2, EofFreezes
  <2>2. ASSUME fin'[Dst[t]]
        PROVE  fin[Dst[t]] /\ Len(data'[Dst[t]]) = Len(data[Dst[t]])
    <3>1. fin[Dst[t]]
      <4>1. ~TaskStep(t)
        BY <1>1, <1>2 DEF Ended
      <4>2. Dst[t] = "down" => ~HostRefuses
        BY <1>2, <1>0 DEF HostRefuses, Spawned, TasksOf, Dst, Place, Task
      <4> QED
        BY <1>0, <2>2, <4>1, <4>2, TunnelCloses, Zenon
    <3>2. ASSUME NEW w \in Task, WriteByte(w)
          PROVE  data'[Dst[t]] = data[Dst[t]]
      <4>1. w # t
        BY <1>1, <1>2, <3>2 DEF Ended
      <4>2. Dst[w] # Dst[t]
        BY <4>1, Halves
      <4> QED
        BY <1>0, <3>2, <4>2 DEF WriteByte, TypeOK
    <3>3. CASE LoseLink
      <4>1. /\ fin'["up"] => data'["up"] = data["up"]
            /\ fin'["down"] => data'["down"] = data["down"]
        BY <1>0, <3>3 DEF LoseLink, TypeOK, Hop
      <4> QED
        BY <1>0, <2>2, <3>1, <4>1 DEF Tunnel
    <3>4. ASSUME NEW e \in End, Send(e)
          PROVE  data'[Dst[t]] = data[Dst[t]]
      BY <1>0, <3>4, Halves DEF Send, TypeOK
    <3>5. ASSUME NEW e \in End, Receive(e)
          PROVE  data' = data
      BY <3>5 DEF Receive
    <3>6. ASSUME NEW w \in Task, ReadArm(w)
          PROVE  data' = data
      BY <3>6 DEF ReadArm
    <3> QED
      BY <3>1, <3>2, <3>3, <3>4, <3>5, <3>6, ByteSteps
  <2>3. fin'[Dst[t]] => Len(data'[Dst[t]]) = Len(data'[Src[t]])
    BY <1>2, <2>1, <2>2 DEF IInv, CloseFollows
  <2>4. ASSUME pc'[u] = "eof", pc[u] = "eof"
        PROVE  Len(data'[Dst[u]]) = Len(data'[Src[t]])
    <3>1. ASSUME NEW w \in Task, WriteByte(w)
          PROVE  data'[Dst[u]] = data[Dst[u]]
      <4>1. w # u
        BY <1>1, <2>4, <3>1 DEF Ended
      <4>2. Dst[w] # Dst[u]
        BY <4>1, Halves
      <4> QED
        BY <1>0, <3>1, <4>2 DEF WriteByte, TypeOK
    <3>2. LoseLink => data'[Dst[u]] = data[Dst[u]]
      BY <1>0 DEF LoseLink, TypeOK, Tunnel
    <3>3. ASSUME NEW e \in End, Send(e)
          PROVE  data'[Dst[u]] = data[Dst[u]]
      BY <1>0, <3>3, Halves DEF Send, TypeOK
    <3>4. ASSUME NEW e \in End, Receive(e)
          PROVE  data' = data
      BY <3>4 DEF Receive
    <3>5. ASSUME NEW w \in Task, ReadArm(w)
          PROVE  data' = data
      BY <3>5 DEF ReadArm
    <3>6. data'[Dst[u]] = data[Dst[u]]
      BY <3>1, <3>2, <3>3, <3>4, <3>5, ByteSteps
    <3> QED
      BY <1>2, <2>1, <2>4, <3>6 DEF IInv, CloseFollows
  <2>5. ASSUME pc'[u] = "eof", pc[u] # "eof"
        PROVE  Len(data'[Dst[u]]) = Len(data'[Src[t]])
    <3>1. EofArm(u)
      BY <1>0, <2>5, EofByArm
    <3>2. /\ fin[Src[u]] /\ rd[Src[u]] = Len(data[Src[u]])
          /\ data' = data /\ pc[u] = "select"
      BY <3>1 DEF EofArm, AtEof, Drained
    <3>3. Len(data[Src[u]]) = Len(data[Src[t]])
      BY <1>2, <3>2 DEF IInv, CloseFollows
    <3>4. held[u] = <<>>
      BY <1>0, <3>2 DEF HeldWhileWriting
    <3>5. Carries(Dst[u])
      BY <1>0 DEF Carries
    <3>6. rd[Src[u]] = Len(data[Dst[u]]) + Len(held[u])
      BY <1>0, <3>5 DEF Accounted
    <3>7. Len(data[Dst[u]]) = rd[Src[u]]
      BY <1>0, <3>4, <3>6 DEF TypeOK
    <3> QED
      BY <3>2, <3>3, <3>7
  <2> QED
    BY <2>3, <2>4, <2>5
<1>3. CASE pc[t] # "eof"
  <2>1. EofArm(t)
    BY <1>0, <1>3, EofByArm
  <2>2. /\ rd[Src[t]] = Len(data[Src[t]]) /\ data' = data /\ pc[t] = "select"
        /\ fin' = [fin EXCEPT ![Dst[t]] = @ \/ Carries(Dst[t])]
        /\ pc' = [pc EXCEPT ![t] = "eof"]
    BY <2>1 DEF EofArm, AtEof, Drained, Break
  <2>3. Dst[t] = "down" => session["host"] # "failed"
    BY <1>0, <2>2 DEF Spawned, TasksOf, Dst, Place, Task
  <2>4. ASSUME fin'[Dst[t]]
        PROVE  Len(data'[Dst[t]]) = Len(data'[Src[t]])
    <3>1. ~fin[Dst[t]]
      BY <1>0, <2>2, <2>3, Zenon DEF ClosedByEnding, Ended
    <3>2. Carries(Dst[t])
      BY <1>0, <2>2, <2>4, <3>1 DEF TypeOK
    <3>3. rd[Src[t]] = Len(data[Dst[t]]) + Len(held[t])
      BY <3>2, <1>0 DEF Accounted
    <3>4. held[t] = <<>>
      BY <1>0, <2>2 DEF HeldWhileWriting
    <3>5. Len(data[Dst[t]]) = rd[Src[t]]
      BY <1>0, <3>3, <3>4 DEF TypeOK
    <3> QED
      BY <2>2, <3>5
  <2>5. pc'[u] # "eof"
    <3>1. SUFFICES ASSUME pc[u] = "eof"
                   PROVE  FALSE
      BY <1>0, <2>2 DEF TypeOK
    <3>2. pc[t] \in Ended \/ (Src[u] = "down" /\ session["host"] = "failed")
      BY <3>1 DEF IInv, EofIsFinal
    <3> QED
      BY <2>2, <2>3, <3>2 DEF Ended
  <2> QED
    BY <2>4, <2>5
<1> QED
  BY <1>2, <1>3

-----------------------------------------------------------------------------
(* The idle timeout.                                                       *)

\* A sleep is set to what is left of Timeout, and a byte of either way only
\* makes the side less idle.
LEMMA NoOversleepStep ==
  ASSUME TypeOK, NoOversleep, [Next]_vars
  PROVE  NoOversleep'
<1> USE DEF hops, tasks, sides, TypeOK, Waiting
<1> Timeout \in Nat
  BY RelayAssumption
<1> SUFFICES ASSUME NEW u \in Task, pc'[u] \in Waiting
             PROVE  timer'[u] + idle'[Place[u]] <= Timeout
  BY DEF NoOversleep
<1>0. /\ Place[u] \in Side /\ timer[u] \in 0..Timeout /\ idle[Place[u]] \in 0..Timeout
      /\ pc[u] \in Waiting => timer[u] + idle[Place[u]] <= Timeout
  BY Halves DEF NoOversleep
<1>1. ASSUME NEW t \in Task, TaskStep(t)
      PROVE  timer'[u] + idle'[Place[u]] <= Timeout
  <2> Place[t] \in Side
    BY Halves
  <2>1. CASE LoopTop(t)
    BY <1>0, <2>1 DEF LoopTop
  <2>2. CASE StopArm(t)
    BY <1>0, <2>2 DEF StopArm, Break
  <2>3. CASE ReadArm(t)
    BY <1>0, <2>3 DEF ReadArm
  <2>4. CASE EofArm(t)
    BY <1>0, <2>4 DEF EofArm, Break
  <2>5. CASE ReadError(t)
    BY <1>0, <2>5 DEF ReadError
  <2>6. CASE SleepArm(t)
    BY <1>0, <2>6 DEF SleepArm, Break
  <2>7. CASE WriteByte(t)
    BY <1>0, <2>7 DEF WriteByte
  <2>8. CASE WritePanics(t)
    <3>1. UNCHANGED idle
      BY <2>8 DEF WritePanics
    <3>2. CASE PanicAborts
      <4>1. /\ timer'[u] = IF Place[u] = Place[t] THEN 0 ELSE timer[u]
            /\ Place[u] # Place[t] => pc'[u] = pc[u]
        BY <2>8, <3>2 DEF WritePanics, Abort
      <4>2. CASE Place[u] = Place[t]
        BY <1>0, <3>1, <4>1, <4>2
      <4>3. CASE Place[u] # Place[t]
        BY <1>0, <3>1, <4>1, <4>3
      <4> QED
        BY <4>2, <4>3
    <3>3. CASE ~PanicAborts
      BY <1>0, <2>8, <3>1, <3>3 DEF WritePanics, Break
    <3> QED
      BY <3>2, <3>3
  <2> QED
    BY <1>1, <2>1, <2>2, <2>3, <2>4, <2>5, <2>6, <2>7, <2>8 DEF TaskStep
<1>2. CASE HostAccepts
  BY <1>0, <1>2 DEF HostAccepts
<1>3. CASE Tick
  BY <1>0, <1>3 DEF Tick
<1>4. ASSUME UNCHANGED <<pc, timer, idle>>
      PROVE  timer'[u] + idle'[Place[u]] <= Timeout
  BY <1>0, <1>4
<1>5. CASE HostRefuses \/ HostAcceptFails \/ LoseLink \/ UNCHANGED vars
  BY <1>4, <1>5 DEF HostRefuses, HostAcceptFails, LoseLink, vars
<1>6. ASSUME NEW s \in Side, JoinReturns(s) \/ SendStop(s)
      PROVE  timer'[u] + idle'[Place[u]] <= Timeout
  BY <1>4, <1>6 DEF JoinReturns, SendStop
<1>7. ASSUME NEW e \in End, Send(e) \/ Receive(e) \/ Shut(e) \/ Vanish(e)
      PROVE  timer'[u] + idle'[Place[u]] <= Timeout
  BY <1>4, <1>7 DEF Send, Receive, Shut, Vanish
<1> QED
  BY <1>1, <1>2, <1>3, <1>5, <1>6, <1>7, Steps

-----------------------------------------------------------------------------
(* Panics.                                                                 *)

\* A task panics in a write, nowhere else.
LEMMA PanicByWrite ==
  ASSUME TypeOK, [Next]_vars, NEW t \in Task, pc'[t] = "panicked", pc[t] # "panicked"
  PROVE  WritePanics(t)
<1> USE DEF TypeOK, hops, tasks, sides
<1>1. ASSUME NEW u \in Task, TaskStep(u)
      PROVE  WritePanics(t)
  <2>1. u # t => pc'[t] = pc[t] \/ pc'[t] = "killed"
    <3>1. ASSUME NEW where, pc' = [pc EXCEPT ![u] = where], u # t
          PROVE  pc'[t] = pc[t]
      BY <3>1
    <3>2. CASE Abort(u)
      BY <3>2 DEF Abort
    <3> QED
      BY <1>1, <3>1, <3>2, TaskOutcomes DEF Break
  <2>2. CASE u = t
    BY <1>1, <2>2 DEF TaskStep, LoopTop, StopArm, ReadArm, EofArm, ReadError,
       SleepArm, WriteByte, Break
  <2> QED
    BY <2>1, <2>2
<1>2. HostAccepts => pc'[t] = pc[t] \/ pc'[t] = "top"
  BY DEF HostAccepts
<1> QED
  BY <1>1, <1>2, OtherSteps

\* A lost connection stays lost, and an end that has gone stays gone.
LEMMA LossStays ==
  ASSUME TypeOK, [Next]_vars
  PROVE  /\ ~link => ~link'
         /\ \A h \in Hop : dropped[h] /\ h \notin Tunnel => dropped'[h]
<1> USE DEF hops, tasks, sides, TypeOK
<1>1. ASSUME NEW t \in Task, TaskStep(t)
      PROVE  /\ UNCHANGED link
             /\ \A h \in Hop : dropped[h] => dropped'[h]
  <2>1. ASSUME NEW why, Break(t, why)
        PROVE  \A h \in Hop : dropped[h] => dropped'[h]
    BY <2>1, Halves DEF Break
  <2>2. Abort(t) => UNCHANGED dropped
    BY DEF Abort
  <2> QED
    BY <1>1, <2>1, <2>2, TaskOutcomes
<1>2. CASE HostAccepts \/ HostRefuses \/ HostAcceptFails \/ Tick \/ LoseLink \/ UNCHANGED vars
  BY <1>2 DEF HostAccepts, HostRefuses, HostAcceptFails, Tick, LoseLink, Tunnel, vars
<1>3. ASSUME NEW s \in Side, JoinReturns(s) \/ SendStop(s)
      PROVE  UNCHANGED <<link, dropped>>
  BY <1>3 DEF JoinReturns, SendStop
<1>4. ASSUME NEW e \in End, Send(e) \/ Receive(e) \/ Shut(e) \/ Vanish(e)
      PROVE  UNCHANGED link /\ \A h \in Hop : dropped[h] => dropped'[h]
  BY <1>4 DEF Send, Receive, Shut, Vanish
<1> QED
  BY <1>1, <1>2, <1>3, <1>4, Steps

\* A stream is reset by the loss of the connection or by its reader, and a
\* socket by its application: the causes of a panic do not go away.
LEMMA PanicHasCauseStep ==
  ASSUME IInv, [Next]_vars
  PROVE  PanicHasCause'
<1> DEFINE Blamed == {"stopped", "timedout", "panicked"}
<1> SUFFICES ASSUME NEW t \in Task, pc'[t] = "panicked"
             PROVE  \/ Dst[t] \in Tunnel /\ ~link'
                    \/ Dst[t] \notin Tunnel /\ dropped'[Dst[t]]
                    \/ \E u \in Task : Src[u] = Dst[t] /\ pc'[u] \in Blamed
                    \/ Dst[t] = "up" /\ session'["host"] = "failed"
  BY DEF PanicHasCause
<1>0. TypeOK /\ Spawned /\ ClosedByEnding /\ EofIsFinal /\ PanicHasCause /\ Dst[t] \in Hop
  BY Halves DEF IInv
<1>1. /\ ~link => ~link'
      /\ Dst[t] \notin Tunnel /\ dropped[Dst[t]] => dropped'[Dst[t]]
  BY <1>0, LossStays, Zenon
<1>2. \A u \in Task : pc[u] \in Blamed => pc'[u] \in Blamed
  BY <1>0, EndedStays DEF Ended
<1>3. session["host"] = "failed" => session'["host"] = "failed"
  BY <1>0, SessionStays
<1>4. CASE pc[t] = "panicked"
  BY <1>0, <1>1, <1>2, <1>3, <1>4, Zenon DEF PanicHasCause
<1>5. CASE pc[t] # "panicked"
  <2>1. pc[t] = "write" /\ Refused(Dst[t])
    BY <1>0, <1>5, PanicByWrite DEF WritePanics
  <2>2. CASE ~Carries(Dst[t])
    BY <1>1, <2>2 DEF Carries
  <2>3. CASE Dst[t] \notin Tunnel
    BY <1>1, <2>1, <2>3, Zenon DEF Refused, Carries
  <2>4. CASE Dst[t] \in Tunnel /\ dropped[Dst[t]]
    <3>1. PICK u \in Task : Src[u] = Dst[t]
      BY <2>4 DEF Src, Dst, Task, Tunnel
    <3>2. \/ pc[u] \in Ended \ {"killed"}
          \/ Dst[t] = "up" /\ session["host"] = "failed"
      BY <1>0, <2>4, <3>1, Zenon DEF ClosedByEnding
    <3>3. pc[u] # "eof"
      <4>1. Dst[t] = "down" => session["host"] # "failed"
        BY <1>0, <2>1 DEF Spawned, TasksOf, Dst, Place, Task
      <4> QED
        BY <1>0, <2>1, <3>1, <4>1 DEF EofIsFinal, Ended
    <3> QED
      BY <1>2, <1>3, <3>1, <3>2, <3>3 DEF Ended
  <2> QED
    BY <2>1, <2>2, <2>3, <2>4 DEF Refused
<1> QED
  BY <1>4, <1>5

-----------------------------------------------------------------------------
(* The theorems.                                                           *)

\* A relay starts with empty hops and no task of the host.
LEMMA IInvInit == Init => IInv
<1> SUFFICES ASSUME Init PROVE IInv
  OBVIOUS
<1> USE DEF Init
<1>0. Timeout \in Nat /\ <<>> \in Seq(Nat)
  BY RelayAssumption
<1>1. TypeOK
  BY <1>0, Halves DEF TypeOK, Active
<1>2. Counting
  BY <1>0 DEF Counting, Counts
<1>3. Accounted
  BY <1>0, Halves DEF Accounted, Carries
<1>4. HeldWhileWriting
  BY DEF HeldWhileWriting
<1>5. Spawned
  BY Halves DEF Spawned, TasksOf, Side
<1>6. ClosedByEnding
  BY Halves DEF ClosedByEnding
<1>7. EofIsFinal /\ CloseFollows /\ PanicHasCause
  BY DEF EofIsFinal, CloseFollows, PanicHasCause
<1>8. NoOversleep
  BY DEF NoOversleep, Waiting
<1> QED
  BY <1>1, <1>2, <1>3, <1>4, <1>5, <1>6, <1>7, <1>8 DEF IInv

\* The strengthened invariant of the relay: bytes, closes, timers and panics
\* of the four tasks of net/tcp.rs stay in step through every interleaving
\* and every hazard.
THEOREM Invariance == Spec => []IInv
<1>1. ASSUME IInv, [Next]_vars PROVE IInv'
  <2>0. /\ TypeOK /\ Counting /\ Accounted /\ HeldWhileWriting /\ Spawned
        /\ ClosedByEnding /\ NoOversleep
    BY <1>1 DEF IInv
  <2>1. TypeOK' /\ Counting' /\ Accounted' /\ HeldWhileWriting' /\ Spawned'
    BY <1>1, <2>0, TypeStep, CountingStep, AccountedStep, HeldWhileWritingStep, SpawnedStep
  <2>2. ClosedByEnding' /\ NoOversleep'
    BY <1>1, <2>0, ClosedByEndingStep, NoOversleepStep
  <2>3. EofIsFinal' /\ CloseFollows' /\ PanicHasCause'
    BY <1>1, EofIsFinalStep, CloseFollowsStep, PanicHasCauseStep
  <2> QED
    BY <2>1, <2>2, <2>3 DEF IInv
<1> QED
  BY <1>1, IInvInit, PTL DEF Spec

\* Every variable keeps its type.
THEOREM TypeCorrect == Spec => []TypeOK
<1>1. IInv => TypeOK
  BY DEF IInv
<1> QED
  BY <1>1, Invariance, PTL

\* No byte is lost from the middle, repeated or overtaken on its way through
\* the two forwarders, whatever happens to the connection.
THEOREM ByteOrder == Spec => []InOrder
<1>1. ASSUME IInv PROVE InOrder
  <2>0. TypeOK /\ Counting /\ Accounted
    BY <1>1 DEF IInv
  <2>1. ASSUME NEW t \in Task
        PROVE  /\ data[Src[t]] \in Seq(Nat) /\ data[Dst[t]] \in Seq(Nat)
               /\ Len(data[Dst[t]]) <= Len(data[Src[t]])
               /\ Counts(data[Src[t]]) /\ Counts(data[Dst[t]])
    <3>1. Src[t] \in Hop /\ Dst[t] \in Hop
      BY Halves
    <3> DEFINE s == data[Dst[t]]
               b == data[Src[t]]
               q == held[t]
               n == rd[Src[t]]
    <3>2. /\ s \in Seq(Nat) /\ b \in Seq(Nat) /\ q \in Seq(Nat) /\ n \in Nat
          /\ n <= Len(b) /\ Counts(s) /\ Counts(b)
          /\ n = Len(s) + Len(q) \/ Len(s) <= n
      BY <2>0, <3>1 DEF TypeOK, Counting, Accounted
    <3> HIDE DEF s, b, q, n
    <3>3. Len(s) <= Len(b)
      BY <3>2
    <3> QED
      BY <3>2, <3>3 DEF s, b
  <2>2. ASSUME NEW s \in Seq(Nat), NEW b \in Seq(Nat), Counts(s), Counts(b), Len(s) <= Len(b)
        PROVE  IsPrefix(s, b)
    <3>1. /\ SubSeq(s, 1, Len(s)) \in Seq(Nat) /\ SubSeq(b, 1, Len(s)) \in Seq(Nat)
          /\ Len(SubSeq(s, 1, Len(s))) = Len(SubSeq(b, 1, Len(s)))
          /\ \A i \in 1..Len(s) : SubSeq(s, 1, Len(s))[i] = SubSeq(b, 1, Len(s))[i]
      BY <2>2, SMTT(30) DEF Counts
    <3>2. SubSeq(s, 1, Len(s)) = SubSeq(b, 1, Len(s))
      BY <2>2, <3>1
    <3> QED
      BY <2>2, <3>2 DEF IsPrefix
  <2>3. ASSUME NEW t \in Task, NEW u \in Task, Dst[t] = Src[u]
        PROVE  IsPrefix(data[Dst[u]], data[Src[t]])
    <3> DEFINE a == data[Src[t]]
               b == data[Dst[t]]
               c == data[Dst[u]]
    <3>1. /\ a \in Seq(Nat) /\ b \in Seq(Nat) /\ c \in Seq(Nat)
          /\ Len(b) <= Len(a) /\ Len(c) <= Len(b) /\ Counts(a) /\ Counts(c)
      BY <2>1, <2>3
    <3> HIDE DEF a, b, c
    <3>2. IsPrefix(c, a)
      BY <2>2, <3>1
    <3> QED
      BY <3>2 DEF a, c
  <2> QED
    BY <2>3 DEF InOrder, Task, Src, Dst
<1> QED
  BY <1>1, Invariance, PTL

\* A chain of closes that nothing cut short loses no byte.
THEOREM CompleteAtEof == Spec => []EofIsComplete
<1>1. ASSUME IInv PROVE EofIsComplete
  <2>1. ASSUME NEW t \in Task, NEW u \in Task, Dst[t] = Src[u], Src[t] \notin Tunnel
        PROVE  Relayed(t, u)
    <3> SUFFICES ASSUME pc[t] = "eof", pc[u] = "eof"
                 PROVE  fin[Src[t]] /\ data[Dst[u]] = data[Src[t]]
      BY DEF Relayed
    <3>1. fin[Src[t]]
      BY <1>1, <2>1 DEF IInv, EofIsFinal
    <3>2. Len(data[Dst[u]]) = Len(data[Src[t]])
      BY <1>1, <2>1 DEF IInv, CloseFollows
    <3> DEFINE a == data[Src[t]]
               c == data[Dst[u]]
    <3>3. a \in Seq(Nat) /\ c \in Seq(Nat) /\ Len(a) = Len(c) /\ Counts(a) /\ Counts(c)
      BY <1>1, <3>2, Halves DEF IInv, TypeOK, Counting
    <3> HIDE DEF a, c
    <3>4. a = c
      BY <3>3 DEF Counts
    <3> QED
      BY <3>1, <3>4 DEF a, c
  <2> QED
    BY <2>1 DEF EofIsComplete, Task, Src, Dst, Tunnel
<1> QED
  BY <1>1, Invariance, PTL

\* No task sleeps past the idle timeout of its side.
THEOREM SleepBound == Spec => []NoOversleep
<1>1. IInv => NoOversleep
  BY DEF IInv
<1> QED
  BY <1>1, Invariance, PTL

\* The unwrap of a write fails only after somebody gave up.
THEOREM PanicsExplained == Spec => []PanicHasCause
<1>1. IInv => PanicHasCause
  BY DEF IInv
<1> QED
  BY <1>1, Invariance, PTL
=============================================================================
