----------------------------- MODULE PostProofs -----------------------------
(***************************************************************************)
(* The relay of UdpRelay keeps the promise of Post: what an end is shown   *)
(* was sent, is shown once and in the order it was sent in, for every      *)
(* number of applications, sessions and datagrams.                         *)
(*                                                                         *)
(* The argument follows the bytes.  Datagrams wait at a socket in the      *)
(* order of their numbers, what a writer holds comes before them, what a   *)
(* stream carries comes before that, and an end is shown what was read     *)
(* from a stream, each byte once.                                          *)
(***************************************************************************)
EXTENDS UdpRelayProofs

-----------------------------------------------------------------------------
(* Bytes in order.                                                         *)

\* Later datagrams are later bytes: what is shown as one is compared by place
\* only within one datagram.
LEMMA Later ==
  ASSUME NEW x \in Byte, NEW y \in Byte, x.n < y.n
  PROVE  P!Before(x, y)
BY DEF P!Before

\* A byte before a second one, before a third one, is before the third one.
LEMMA BeforeTrans ==
  ASSUME NEW x \in Byte, NEW y \in Byte, NEW z \in Byte, P!Before(x, y), P!Before(y, z)
  PROVE  P!Before(x, z)
BY DEF P!Before, Byte

\* A queue that keeps some of its datagrams, and may get one that is numbered
\* after all others of its line, and bytes of which the last are lost: what
\* fitted still does (a read of a socket, a datagram that arrives, the loss of
\* the connection).
LEMMA StillFit ==
  ASSUME NEW w \in Ways, NEW line, NEW number \in Nat, NEW number2 \in Nat,
         NEW q \in Seq(Datagram), NEW q2 \in Seq(Datagram),
         NEW s \in Seq(Byte), NEW s2 \in Seq(Byte),
         Fit(w, s, q, line, number), number <= number2,
         Len(s2) <= Len(s), \A i \in 1..Len(s2) : s2[i] = s[i],
         \A j \in 1..Len(q2) :
           \/ \E i \in 1..Len(q) : q2[j] = q[i]
           \/ LineOf(w, q2[j]) = line => q2[j].n > number
  PROVE  Fit(w, s2, q2, line, number2)
<1>1. ASSUME NEW i \in 1..Len(s2)
      PROVE  /\ \A j \in 1..(i - 1) : P!Before(s2[j], s2[i])
             /\ s2[i].n \in 1..number2
             /\ \A j \in 1..Len(q2) : LineOf(w, q2[j]) = line => s2[i].n < q2[j].n
  <2>1. i \in 1..Len(s) /\ s2[i] = s[i] /\ \A j \in 1..(i - 1) : s2[j] = s[j]
    OBVIOUS
  <2>2. /\ \A j \in 1..(i - 1) : P!Before(s[j], s[i])
        /\ s[i].n \in 1..number
        /\ \A j \in 1..Len(q) : LineOf(w, q[j]) = line => s[i].n < q[j].n
    BY <2>1 DEF Fit
  <2>3. \A j \in 1..(i - 1) : P!Before(s2[j], s2[i])
    BY <2>1, <2>2
  <2>4. s2[i].n \in 1..number2
    BY <2>1, <2>2
  <2>5. ASSUME NEW j \in 1..Len(q2), LineOf(w, q2[j]) = line
        PROVE  s2[i].n < q2[j].n
    <3>1. CASE \E k \in 1..Len(q) : q2[j] = q[k]
      BY <2>1, <2>2, <2>5, <3>1
    <3>2. CASE q2[j].n > number
      <4>1. q2[j].n \in Nat
        <5>1. q2[j] \in Datagram
          OBVIOUS
        <5> QED
          BY <5>1 DEF Datagram
      <4> QED
        BY <2>1, <2>2, <3>2, <4>1
    <3> QED
      BY <2>5, <3>1, <3>2
  <2> QED
    BY <2>3, <2>4, <2>5
<1> QED
  BY <1>1 DEF Fit

\* The bytes of a datagram have its number, and their place in it.
LEMMA ContentsOrder ==
  ASSUME NEW d \in Datagram
  PROVE  /\ Contents(d) \in Seq(Byte)
         /\ \A i \in 1..Len(Contents(d)) : Contents(d)[i].n = d.n /\ Contents(d)[i].i = i
<1>1. ASSUME NEW k \in 1..Len(Contents(d))
      PROVE  Contents(d)[k].n = d.n /\ Contents(d)[k].i = k
  <2>1. Contents(d)[k] = [from |-> d.from, n |-> d.n, i |-> k]
    BY ContentsOf
  <2> QED
    BY <2>1
<1> QED
  BY <1>1, ContentsOf

\* The first of a queue, taken from it, fits what stays.
LEMMA HeadFits ==
  ASSUME NEW w \in Ways, NEW number \in Nat, NEW q \in Seq(Datagram), q # <<>>,
         Head(q).n \in 1..number,
         \A j \in 1..Len(q) :
           1 < j /\ LineOf(w, q[1]) = LineOf(w, q[j]) => q[1].n < q[j].n
  PROVE  Fit(w, Contents(Head(q)), Tail(q), LineOf(w, Head(q)), number)
<1> DEFINE d == Head(q)
           s == Contents(d)
<1>1. d = q[1] /\ d \in Datagram
  BY HeadLeaves
<1>2. s \in Seq(Byte) /\ \A k \in 1..Len(s) : s[k].n = d.n /\ s[k].i = k
  BY <1>1, ContentsOrder
<1>h. LineOf(w, d) = LineOf(w, q[1]) /\ q # <<>> /\ d.n \in 1..number
  BY <1>1
<1> HIDE DEF d, s
<1>3. ASSUME NEW i \in 1..Len(s)
      PROVE  /\ \A j \in 1..(i - 1) : P!Before(s[j], s[i])
             /\ s[i].n \in 1..number
             /\ \A j \in 1..Len(Tail(q)) :
                  LineOf(w, Tail(q)[j]) = LineOf(w, d) => s[i].n < Tail(q)[j].n
  <2>1. s[i].n = d.n /\ s[i].i = i
    BY <1>2
  <2>2. ASSUME NEW j \in 1..(i - 1)
        PROVE  P!Before(s[j], s[i])
    <3>1. j \in 1..Len(s) /\ j < i
      <4>1. Len(s) \in Nat
        BY <1>2
      <4> QED
        BY <4>1
    <3>2. s[j].n = d.n /\ s[j].i = j
      BY <1>2, <3>1
    <3> QED
      BY <2>1, <3>1, <3>2 DEF P!Before
  <2>3. ASSUME NEW j \in 1..Len(Tail(q)), LineOf(w, Tail(q)[j]) = LineOf(w, d)
        PROVE  s[i].n < Tail(q)[j].n
    <3>1. Tail(q)[j] = q[j + 1] /\ j + 1 \in 1..Len(q) /\ 1 < j + 1
      BY <1>h, HeadLeaves
    <3> QED
      BY <1>1, <1>h, <2>1, <2>3, <3>1
  <2> QED
    BY <1>h, <2>1, <2>2, <2>3
<1>4. Fit(w, s, Tail(q), LineOf(w, d), number)
  BY <1>3 DEF Fit
<1> QED
  BY <1>4 DEF s, d

\* What fits a queue comes before what is taken from it.
LEMMA BeforeHead ==
  ASSUME NEW w \in Ways, NEW number \in Nat, NEW q \in Seq(Datagram), q # <<>>,
         NEW s \in Seq(Byte), Fit(w, s, q, LineOf(w, Head(q)), number)
  PROVE  AllBefore(s, Contents(Head(q)))
<1>1. Head(q) = q[1] /\ Head(q) \in Datagram /\ 1 \in 1..Len(q)
  BY HeadLeaves
<1>2. \A i \in 1..Len(s) : s[i].n < Head(q).n
  BY <1>1 DEF Fit
<1> DEFINE r == Contents(Head(q))
<1>4. \A j \in 1..Len(r) : r[j].n = Head(q).n
  BY <1>1, ContentsOrder
<1> HIDE DEF r
<1>5. AllBefore(s, r)
  BY <1>2, <1>4 DEF AllBefore, P!Before
<1> QED
  BY <1>5 DEF r

\* Two pieces that fit, the first before the second, fit as one.
LEMMA JoinFits ==
  ASSUME NEW w \in Ways, NEW line, NEW number \in Nat, NEW q \in Seq(Datagram),
         NEW s \in Seq(Byte), NEW r \in Seq(Byte),
         Fit(w, s, q, line, number), Fit(w, r, q, line, number), AllBefore(s, r)
  PROVE  Fit(w, s \o r, q, line, number)
<1> DEFINE x == s \o r
           k == Len(s)
           h == Len(r)
<1>1. /\ k \in Nat /\ h \in Nat /\ Len(x) = k + h
      /\ \A i \in 1..k : x[i] = s[i]
      /\ \A i \in 1..Len(x) :
           \/ i \in 1..k /\ x[i] = s[i]
           \/ i > k /\ i - k \in 1..h /\ x[i] = r[i - k]
  BY Appended
<1>s. \A i \in 1..k :
        /\ \A j \in 1..(i - 1) : P!Before(s[j], s[i])
        /\ s[i].n \in 1..number
        /\ \A j \in 1..Len(q) : LineOf(w, q[j]) = line => s[i].n < q[j].n
  BY DEF Fit
<1>r. \A i \in 1..h :
        /\ \A j \in 1..(i - 1) : P!Before(r[j], r[i])
        /\ r[i].n \in 1..number
        /\ \A j \in 1..Len(q) : LineOf(w, q[j]) = line => r[i].n < q[j].n
  BY DEF Fit
<1>b. \A i \in 1..k, j \in 1..h : P!Before(s[i], r[j])
  BY DEF AllBefore
<1> HIDE DEF x, k, h
<1>2. ASSUME NEW i \in 1..Len(x)
      PROVE  /\ \A j \in 1..(i - 1) : P!Before(x[j], x[i])
             /\ x[i].n \in 1..number
             /\ \A j \in 1..Len(q) : LineOf(w, q[j]) = line => x[i].n < q[j].n
  <2>1. CASE i \in 1..k
    <3>1. x[i] = s[i] /\ \A j \in 1..(i - 1) : x[j] = s[j]
      BY <1>1, <2>1
    <3> QED
      BY <1>s, <2>1, <3>1
  <2>2. CASE i \notin 1..k
    <3>1. i > k /\ i - k \in 1..h /\ x[i] = r[i - k]
      BY <1>1, <2>2
    <3>2. ASSUME NEW j \in 1..(i - 1)
          PROVE  P!Before(x[j], x[i])
      <4>1. j \in 1..Len(x)
        BY <1>1
      <4>2. CASE j \in 1..k
        BY <1>1, <1>b, <3>1, <4>2
      <4>3. CASE j \notin 1..k
        <5>1. x[j] = r[j - k]
          BY <1>1, <4>1, <4>3
        <5>2. j > k /\ j - k \in 1..((i - k) - 1)
          BY <1>1, <3>1, <4>1, <4>3
        <5> QED
          BY <1>r, <3>1, <5>1, <5>2
      <4> QED
        BY <4>2, <4>3
    <3> QED
      BY <1>r, <3>1, <3>2
  <2> QED
    BY <2>1, <2>2
<1>3. \A i \in 1..Len(x) :
        /\ \A j \in 1..(i - 1) : P!Before(x[j], x[i])
        /\ x[i].n \in 1..number
        /\ \A j \in 1..Len(q) : LineOf(w, q[j]) = line => x[i].n < q[j].n
  BY <1>2
<1>4. Fit(w, x, q, line, number)
  BY <1>3 DEF Fit
<1> QED
  BY <1>4 DEF x

\* Fewer bytes on either side, or more that come later, keep the order.
LEMMA BeforeParts ==
  ASSUME NEW s \in Seq(Byte), NEW s2 \in Seq(Byte), NEW r \in Seq(Byte), NEW r2 \in Seq(Byte),
         AllBefore(s, r),
         Len(s2) <= Len(s), \A i \in 1..Len(s2) : s2[i] = s[i],
         Len(r2) <= Len(r), \A i \in 1..Len(r2) : r2[i] = r[i]
  PROVE  AllBefore(s2, r2)
<1>1. \A i \in 1..Len(s2) : i \in 1..Len(s)
  OBVIOUS
<1>2. \A i \in 1..Len(r2) : i \in 1..Len(r)
  OBVIOUS
<1> QED
  BY <1>1, <1>2 DEF AllBefore

\* What comes before two pieces comes before both of them joined.
LEMMA BeforeBoth ==
  ASSUME NEW s \in Seq(Byte), NEW r \in Seq(Byte), NEW x \in Seq(Byte),
         AllBefore(x, s), AllBefore(x, r)
  PROVE  AllBefore(x, s \o r)
BY Appended DEF AllBefore

-----------------------------------------------------------------------------
(* The steps, by what they do to the bytes of one way.                     *)

\* What is left of a queue when its first k are gone, and of a stream when its
\* end is lost.
Behind(q, q2, k) ==
  k \in 0..Len(q) /\ Len(q2) = Len(q) - k /\ \A i \in 1..Len(q2) : q2[i] = q[i + k]
Cut(s, s2) == Len(s2) <= Len(s) /\ \A i \in 1..Len(s2) : s2[i] = s[i]

\* Nothing moves on, something may be lost, a session may begin.
LineRests(w) ==
  /\ \E k \in Nat : Behind(Queue(w), Queue(w)', k)
  /\ held'[Taker(w)] \in {held[Taker(w)], <<>>}
  /\ Current(w)' >= Current(w)
  /\ Current(w)' = Current(w) \/ held'[Taker(w)] = <<>>
  /\ \A n \in Session : Cut(data[<<n, w>>], data'[<<n, w>>])

\* A datagram comes to the socket.
LineArrives(w) ==
  /\ \E d \in Datagram :
       /\ LineOf(w, d) \in Lines(w)
       /\ d.n = Count(w)[LineOf(w, d)] + 1
       /\ Count(w)'[LineOf(w, d)] = Count(w)[LineOf(w, d)] + 1
       /\ Queue(w)' = Arrive(Queue(w), d)
  /\ UNCHANGED <<held, data, turn, owner>>

\* The writer takes one of its session.
LineTakes(w) ==
  /\ Queue(w) # <<>> /\ Queue(w)' = Tail(Queue(w))
  /\ LineOf(w, Head(Queue(w))) = Line(w)[Current(w)]
  /\ Current(w) \in Session
  /\ held'[Taker(w)] = Contents(Head(Queue(w)))
  /\ UNCHANGED <<data, turn, owner>>

\* The writer writes what it holds to the stream of its session.
LineWrites(w) ==
  /\ Current(w) \in Session
  /\ data' = [data EXCEPT ![<<Current(w), w>>] = data[<<Current(w), w>>] \o held[Taker(w)]]
  /\ held'[Taker(w)] = <<>>
  /\ Queue(w)' = Queue(w)
  /\ UNCHANGED <<turn, owner>>

LineMoves(w) == LineRests(w) \/ LineArrives(w) \/ LineTakes(w) \/ LineWrites(w)

\* A queue that is left alone, loses its first, or is emptied.
LEMMA BehindIs ==
  ASSUME NEW q \in Seq(Datagram)
  PROVE  /\ Behind(q, q, 0)
         /\ q # <<>> => Behind(q, Tail(q), 1)
         /\ Behind(q, <<>>, Len(q)) /\ Len(q) \in Nat
<1>1. Behind(q, q, 0) /\ Behind(q, <<>>, Len(q)) /\ Len(q) \in Nat
  BY DEF Behind
<1>2. ASSUME q # <<>>
      PROVE  Behind(q, Tail(q), 1)
  <2>1. 1 \in 0..Len(q)
    BY <1>2, HeadLeaves
  <2> QED
    BY <1>2, <2>1, HeadLeaves DEF Behind
<1> QED
  BY <1>1, <1>2

\* The loss of the connection cuts the streams, no other step that writes
\* nothing changes them.
LEMMA StreamCuts ==
  ASSUME TypeOK, Serial, Reading, [Next]_vars, \A t \in Task : ~WriteOut(t)
  PROVE  \A c \in Stream : Cut(data[c], data'[c])
<1>1. CASE LoseLink
  BY <1>1, LossCuts DEF Cut
<1>2. CASE data' = data
  BY <1>2 DEF Cut, TypeOK
<1> QED
  BY <1>1, <1>2, StreamSteps

\* The names of the two ways' queues, writers and numbers.
LEMMA WayIs ==
  /\ Queue("up") = sock /\ Queue("down") = wire
  /\ Queue("up")' = sock' /\ Queue("down")' = wire'
  /\ Taker("up") = "client_udp_to_tunnel" /\ Taker("down") = "host_udp_to_tunnel"
  /\ Current("up") = turn["client"] /\ Current("down") = turn["host"]
  /\ Current("up")' = turn'["client"] /\ Current("down")' = turn'["host"]
BY Tasks DEF Queue, Taker, Current

\* The writers of the two ways, and their sides' sessions.
LEMMA Writing ==
  /\ \A w \in Ways :
       Taker(w) \in Writers /\ Taker(w) \in Task /\ Place(Taker(w)) \in Side
  /\ TypeOK => \A s \in Side : turn[s] \in Nat
<1>1. ASSUME NEW w \in Ways
      PROVE  Taker(w) \in Writers /\ Taker(w) \in Task /\ Place(Taker(w)) \in Side
  <2>1. Taker(w) = "client_udp_to_tunnel" \/ Taker(w) = "host_udp_to_tunnel"
    BY WayIs DEF Ways
  <2> QED
    BY <2>1, Tasks
<1>2. ASSUME TypeOK, NEW s \in Side
      PROVE  turn[s] \in Nat
  BY <1>2, Bounds DEF TypeOK
<1> QED
  BY <1>1, <1>2

\* A write serves the way of its task, and leaves the other one alone.
LEMMA WriteMoves ==
  ASSUME TypeOK, Serial, HeldWhileWriting, NEW t \in Task, WriteOut(t), NEW w \in Ways
  PROVE  LineMoves(w)
<1>1. /\ pc[t] = "write" /\ pc[t] # "none" /\ t \in Writers
      /\ data' = [data EXCEPT ![Own(t)] = data[Own(t)] \o held[t]]
      /\ held' = [held EXCEPT ![t] = <<>>]
      /\ turn' = turn /\ owner' = owner /\ sock' = sock /\ wire' = wire
  BY DEF WriteOut, loops, sockets, HeldWhileWriting
<1>2. Own(t) \in Stream /\ Own(t) = <<turn[Place(t)], Way(t)>> /\ turn[Place(t)] \in Session
  BY <1>1, OwnStream DEF Own
<1>3. /\ data \in [Stream -> Seq(Byte)] /\ held \in [Task -> Seq(Byte)]
      /\ \A s \in Side : turn[s] \in Nat
      /\ sock \in Seq(Datagram) /\ wire \in Seq(Datagram)
      /\ Taker(w) \in Task /\ Place(Taker(w)) \in Side
  BY Writing DEF TypeOK
<1>4. CASE Way(t) = w
  <2>1. t = Taker(w)
    BY <1>1, <1>4, Tasks, WayIs DEF Ways
  <2>2. Own(t) = <<Current(w), w>> /\ Current(w) = turn[Place(t)]
    BY <1>2, <1>4, <2>1 DEF Current
  <2>3. Queue(w)' = Queue(w)
    BY <1>1, WayIs DEF Ways
  <2>4. held'[Taker(w)] = <<>>
    BY <1>1, <1>3, <2>1
  <2> QED
    BY <1>1, <1>2, <2>1, <2>2, <2>3, <2>4 DEF LineMoves, LineWrites
<1>5. CASE Way(t) # w
  <2>1. t # Taker(w)
    BY <1>5, Tasks, WayIs DEF Ways
  <2>2. held'[Taker(w)] = held[Taker(w)]
    BY <1>1, <1>3, <2>1
  <2>3. ASSUME NEW n \in Session
        PROVE  Cut(data[<<n, w>>], data'[<<n, w>>])
    <3>1. <<n, w>> \in Stream /\ <<n, w>> # Own(t)
      BY <1>2, <1>5 DEF Stream, Ways
    <3>2. data'[<<n, w>>] = data[<<n, w>>] /\ data[<<n, w>>] \in Seq(Byte)
      BY <1>1, <1>3, <3>1
    <3> QED
      BY <3>2 DEF Cut
  <2>4. Current(w)' = Current(w) /\ Current(w) \in Nat
    BY <1>1, <1>3, WayIs, Tasks DEF Ways
  <2>5. Queue(w)' = Queue(w) /\ Queue(w) \in Seq(Datagram)
    BY <1>1, <1>3, WayIs DEF Ways
  <2>6. \E k \in Nat : Behind(Queue(w), Queue(w)', k)
    BY <2>5, BehindIs
  <2>7. Current(w)' >= Current(w)
    BY <2>4
  <2> QED
    BY <2>2, <2>3, <2>4, <2>6, <2>7 DEF LineMoves, LineRests
<1> QED
  BY <1>4, <1>5

\* A step that writes to no stream, takes or adds no datagram of this way, only
\* rests: it may empty the queue, as the host does for a new session.
LEMMA OthersRest ==
  ASSUME TypeOK, Serial, Reading, HeldWhileWriting, [Next]_vars, NEW w \in Ways,
         \A t \in Task : ~WriteOut(t),
         \E k \in Nat : Behind(Queue(w), Queue(w)', k),
         held'[Taker(w)] \in {held[Taker(w)], <<>>}
  PROVE  LineMoves(w)
<1>1. /\ Taker(w) \in Writers /\ Place(Taker(w)) \in Side /\ Taker(w) \in Task
      /\ \A s \in Side : turn[s] \in Nat
  BY Writing
<1> DEFINE s == Place(Taker(w))
<1>2. Current(w) = turn[s] /\ Current(w)' = turn'[s]
  BY WayIs, Tasks DEF Ways
<1>3. turn'[s] = turn[s] \/ turn'[s] = turn[s] + 1
  BY <1>1, TurnStays
<1>4. turn'[s] = turn[s] \/ held'[Taker(w)] = <<>>
  <2>1. CASE held'[Taker(w)] = <<>>
    BY <2>1
  <2>2. CASE held'[Taker(w)] # <<>>
    BY <1>1, <2>2, HeldSteps
  <2> QED
    BY <2>1, <2>2
<1>5. \A n \in Session : Cut(data[<<n, w>>], data'[<<n, w>>])
  <2>1. \A n \in Session : <<n, w>> \in Stream
    BY DEF Stream, Ways
  <2> QED
    BY <2>1, StreamCuts
<1>6. Current(w)' >= Current(w) /\ (Current(w)' = Current(w) \/ held'[Taker(w)] = <<>>)
  <2>1. turn[s] \in Nat
    BY <1>1
  <2> QED
    BY <1>2, <1>3, <1>4, <2>1
<1> QED
  BY <1>5, <1>6 DEF LineMoves, LineRests

\* A task that takes a datagram has one of its session; one without bytes ends
\* the task, which then holds what it held.
LEMMA TakeMoves ==
  ASSUME TypeOK, Serial, Reading, HeldWhileWriting, AtSockets, [Next]_vars,
         NEW w \in Ways, (w = "up" /\ ClientTakes) \/ (w = "down" /\ HostTakes)
  PROVE  LineMoves(w)
<1> DEFINE t == Taker(w)
           q == Queue(w)
<1>1. /\ t \in Task /\ pc[t] = "select"
      /\ Queue(w) # <<>> /\ Queue(w)' = Tail(Queue(w)) /\ Take(t, Head(Queue(w)))
      /\ data' = data /\ turn' = turn /\ owner' = owner
      /\ Current(w) = turn[Place(t)]
  <2>1. CASE w = "up"
    <3>1. ClientTakes
      BY <2>1
    <3>2. Taker(w) = "client_udp_to_tunnel" /\ Queue(w) = sock /\ Queue(w)' = sock'
      BY <2>1, WayIs
    <3> QED
      BY <3>1, <3>2, Tasks DEF ClientTakes, loops, Current
  <2>2. CASE w = "down"
    <3>1. HostTakes
      BY <2>2
    <3>2. Taker(w) = "host_udp_to_tunnel" /\ Queue(w) = wire /\ Queue(w)' = wire'
      BY <2>2, WayIs
    <3> QED
      BY <3>1, <3>2, Tasks DEF HostTakes, loops, Current
  <2> QED
    BY <2>1, <2>2 DEF Ways
<1>2. LineOf(w, Head(Queue(w))) = Line(w)[Current(w)]
  <2>1. CASE w = "up"
    <3>1. Head(sock).from = owner[turn["client"]]
      BY <2>1 DEF ClientTakes, Theirs
    <3> QED
      BY <2>1, <3>1, WayIs DEF LineOf, Line
  <2>2. CASE w = "down"
    <3>1. Current(w) \in Session
      BY <1>1, OwnStream
    <3> QED
      BY <2>2, <3>1 DEF LineOf, Line
  <2> QED
    BY <2>1, <2>2 DEF Ways
<1>3. /\ held \in [Task -> Seq(Byte)] /\ Queue(w) \in Seq(Datagram)
      /\ \A u \in Task : ~WriteOut(u)
  <2>1. \A u \in Task : ~WriteOut(u)
    <3> SUFFICES ASSUME NEW u \in Task, WriteOut(u)
                 PROVE  FALSE
      OBVIOUS
    <3>1. sock' = sock /\ wire' = wire
      BY DEF WriteOut, sockets
    <3>2. Queue(w)' = Queue(w)
      BY <3>1, WayIs DEF Ways
    <3>3. Queue(w) \in Seq(Datagram)
      BY WayIs DEF TypeOK, Ways
    <3>4. Len(Tail(Queue(w))) = Len(Queue(w)) - 1 /\ Len(Queue(w)) \in Nat
      BY <1>1, <3>3, HeadLeaves
    <3> QED
      BY <1>1, <3>2, <3>4
  <2> QED
    BY <2>1, WayIs DEF TypeOK, Ways
<1>4. turn[Place(t)] \in Session
  BY <1>1, OwnStream
<1>5. CASE Head(Queue(w)).size = 0
  <2>1. held' = held
    BY <1>1, <1>5 DEF Take
  <2>2. Behind(Queue(w), Queue(w)', 1)
    BY <1>1, <1>3, BehindIs
  <2> QED
    BY <1>3, <2>1, <2>2, OthersRest
<1>6. CASE Head(Queue(w)).size # 0
  <2>1. held' = [held EXCEPT ![t] = Contents(Head(Queue(w)))]
    BY <1>1, <1>6 DEF Take
  <2>2. held'[t] = Contents(Head(Queue(w)))
    BY <1>1, <1>3, <2>1
  <2> QED
    BY <1>1, <1>2, <1>4, <2>2 DEF LineMoves, LineTakes
<1> QED
  BY <1>5, <1>6

\* What the ends send is numbered on.
LEMMA SendMoves ==
  ASSUME TypeOK, Serial, NEW w \in Ways,
         \/ w = "up" /\ \E a \in App : AppSends(a)
         \/ w = "down" /\ ServiceReplies
  PROVE  LineMoves(w)
<1>1. CASE w = "up"
  <2>1. PICK a \in App : AppSends(a)
    BY <1>1
  <2>2. PICK size \in Sizes :
          sock' = Arrive(sock, [from |-> a, n |-> sent[a] + 1, size |-> size])
    BY <2>1 DEF AppSends
  <2> DEFINE d == [from |-> a, n |-> sent[a] + 1, size |-> size]
  <2>3. d \in Datagram /\ d.from = a /\ d.n = sent[a] + 1
    BY DEF Datagram, Sender, TypeOK
  <2>4. sock' = Arrive(sock, d)
    BY <2>2
  <2> HIDE DEF d
  <2>5. sent' = [sent EXCEPT ![a] = sent[a] + 1] /\ sent'[a] = sent[a] + 1
    BY <2>1 DEF AppSends, TypeOK
  <2>6. LineOf(w, d) = a /\ Count(w)[a] = sent[a] /\ Count(w)'[a] = sent'[a]
    BY <1>1, <2>3 DEF LineOf, Count
  <2>7. Queue(w)' = Arrive(Queue(w), d)
    BY <1>1, <2>4, WayIs
  <2>8. UNCHANGED <<held, data, turn, owner>>
    BY <2>1 DEF AppSends, streams, loops
  <2>9. a \in Lines(w)
    BY <1>1 DEF Lines
  <2> QED
    BY <2>3, <2>5, <2>6, <2>7, <2>8, <2>9 DEF LineMoves, LineArrives
<1>2. CASE w = "down"
  <2>1. ServiceReplies
    BY <1>2
  <2>2. PICK size \in Sizes :
          wire' = Arrive(wire, [from |-> turn["host"], n |-> replies + 1, size |-> size])
    BY <2>1 DEF ServiceReplies
  <2> DEFINE d == [from |-> turn["host"], n |-> replies + 1, size |-> size]
  <2>3. d \in Datagram /\ d.n = replies + 1
    <3>1. turn["host"] \in Session
      BY <2>1, Bounds, Tasks DEF ServiceReplies, Serial, TypeOK, Session
    <3> QED
      BY <3>1 DEF Datagram, Sender, TypeOK
  <2>4. wire' = Arrive(wire, d)
    BY <2>2
  <2> HIDE DEF d
  <2>5. replies' = replies + 1
    BY <2>1 DEF ServiceReplies
  <2>6. LineOf(w, d) = "service" /\ Count(w)["service"] = replies
        /\ Count(w)'["service"] = replies'
    BY <1>2 DEF LineOf, Count
  <2>7. Queue(w)' = Arrive(Queue(w), d)
    BY <1>2, <2>4, WayIs
  <2>8. UNCHANGED <<held, data, turn, owner>>
    BY <2>1 DEF ServiceReplies, streams, loops
  <2>9. "service" \in Lines(w)
    BY <1>2 DEF Lines
  <2> QED
    BY <2>3, <2>5, <2>6, <2>7, <2>8, <2>9 DEF LineMoves, LineArrives
<1> QED
  BY <1>1, <1>2 DEF Ways

\* Every step of the relay is one of the four for each way.
LEMMA LineSteps ==
  ASSUME TypeOK, Serial, Reading, HeldWhileWriting, AtSockets, [Next]_vars, NEW w \in Ways
  PROVE  LineMoves(w)
<1>1. ASSUME NEW t \in Task, WriteOut(t)
      PROVE  LineMoves(w)
  BY <1>1, WriteMoves
<1>2. CASE (w = "up" /\ ClientTakes) \/ (w = "down" /\ HostTakes)
  BY <1>2, TakeMoves
<1>3. CASE \/ w = "up" /\ \E a \in App : AppSends(a)
           \/ w = "down" /\ ServiceReplies
  BY <1>3, SendMoves
<1>4. ASSUME \A t \in Task : ~WriteOut(t),
             ~((w = "up" /\ ClientTakes) \/ (w = "down" /\ HostTakes)),
             ~(\/ w = "up" /\ \E a \in App : AppSends(a)
               \/ w = "down" /\ ServiceReplies)
      PROVE  LineMoves(w)
  <2>1. held'[Taker(w)] \in {held[Taker(w)], <<>>}
    <3>1. Taker(w) \in Writers /\ (Taker(w) = "client_udp_to_tunnel" <=> w = "up")
          /\ (Taker(w) = "host_udp_to_tunnel" <=> w = "down")
      BY Tasks, WayIs DEF Ways
    <3> QED
      BY <1>4, <3>1, HeldSteps
  <2>2. \E k \in Nat : Behind(Queue(w), Queue(w)', k)
    <3>1. sock \in Seq(Datagram) /\ wire \in Seq(Datagram)
      BY DEF TypeOK
    <3>2. CASE w = "up"
      <4>1. sock' = sock
        BY <1>4, <3>2, SocketSteps
      <4>2. Queue(w)' = Queue(w) /\ Queue(w) \in Seq(Datagram)
        BY <3>1, <3>2, <4>1, WayIs
      <4> QED
        BY <4>2, BehindIs
    <3>3. CASE w = "down"
      <4>1. wire' = wire \/ wire' = <<>>
        <5>1. HostAccepts => wire' = <<>>
          BY DEF HostAccepts
        <5> QED
          BY <1>4, <3>3, <5>1, SocketSteps
      <4>2. (Queue(w)' = Queue(w) \/ Queue(w)' = <<>>) /\ Queue(w) \in Seq(Datagram)
        BY <3>1, <3>3, <4>1, WayIs
      <4> QED
        BY <4>2, BehindIs
    <3> QED
      BY <3>2, <3>3 DEF Ways
  <2> QED
    BY <1>4, <2>1, <2>2, OthersRest
<1> QED
  BY <1>1, <1>2, <1>3, <1>4

-----------------------------------------------------------------------------
(* Numbers and owners only grow.                                           *)

\* Nobody takes back what was sent.
LEMMA SentGrows ==
  ASSUME TypeOK, [Next]_vars
  PROVE  /\ replies \in Nat /\ replies' \in Nat /\ replies <= replies'
         /\ \A a \in App : sent[a] \in Nat /\ sent'[a] \in Nat /\ sent[a] <= sent'[a]
<1>0. replies \in Nat /\ sent \in [App -> Nat]
  BY DEF TypeOK
<1>1. CASE UNCHANGED <<sent, replies>>
  BY <1>0, <1>1
<1>2. CASE ServiceReplies
  <2>1. replies' = replies + 1 /\ sent' = sent
    BY <1>2 DEF ServiceReplies
  <2> QED
    BY <1>0, <2>1
<1>3. ASSUME NEW a \in App, AppSends(a)
      PROVE  /\ replies' = replies
             /\ \A b \in App : sent'[b] \in Nat /\ sent[b] <= sent'[b]
  <2>1. sent' = [sent EXCEPT ![a] = sent[a] + 1] /\ replies' = replies
    BY <1>3 DEF AppSends
  <2> QED
    BY <1>0, <2>1
<1>4. UNCHANGED <<sent, replies>> \/ ServiceReplies \/ \E a \in App : AppSends(a)
  <2> USE DEF ends
  <2>1. ASSUME NEW t \in Task, TaskStep(t)
        PROVE  UNCHANGED <<sent, replies>>
    BY <2>1 DEF TaskStep, LoopTop, StopArm, SleepArm, EofArm, ReadFails, WriteOut, WritePanics
  <2>2. CASE ClientTakes \/ ClientSkips \/ ClientDelivers
    BY <2>2 DEF ClientTakes, ClientSkips, ClientDelivers
  <2>3. CASE HostDelivers \/ HostSendPanics \/ HostTakes
    BY <2>3 DEF HostDelivers, HostSendPanics, HostTakes
  <2>4. CASE ListenerOpens \/ ListenerFails \/ ListenerStops
    BY <2>4 DEF ListenerOpens, ListenerFails, ListenerStops
  <2>5. CASE HostAccepts \/ HostAcceptFails
    BY <2>5 DEF HostAccepts, HostAcceptFails
  <2>6. ASSUME NEW s \in Side, JoinReturns(s) \/ SendStop(s)
        PROVE  UNCHANGED <<sent, replies>>
    BY <2>6 DEF JoinReturns, SendStop
  <2>7. CASE LoseLink \/ Tick \/ ServiceChanges
    BY <2>7 DEF LoseLink, Tick, ServiceChanges
  <2>8. CASE UNCHANGED vars
    BY <2>8 DEF vars
  <2> QED
    BY <2>1, <2>2, <2>3, <2>4, <2>5, <2>6, <2>7, <2>8, Steps
<1> QED
  BY <1>0, <1>1, <1>2, <1>3, <1>4

\* So the numbers of a line grow, and a session stays in its line.
LEMMA LinesGrow ==
  ASSUME TypeOK, Serial, Reading, [Next]_vars, NEW w \in Ways
  PROVE  /\ Current(w) \in Nat
         /\ \A l \in Lines(w) : Count(w)[l] \in Nat /\ Count(w)'[l] \in Nat
                                /\ Count(w)[l] <= Count(w)'[l]
         /\ \A n \in Session : n <= Current(w) =>
              Line(w)[n] \in Lines(w) /\ Line(w)'[n] = Line(w)[n]
<1>0. Current(w) \in Nat
  BY Writing DEF Current
<1>1. CASE w = "up"
  <2>1. /\ Lines(w) = App /\ Count(w) = sent /\ Count(w)' = sent'
        /\ Line(w) = owner /\ Line(w)' = owner'
    BY <1>1 DEF Lines, Count, Line
  <2>2. Current(w) = Len(owner) /\ owner \in Seq(App)
    BY <1>1, WayIs DEF Serial, TypeOK
  <2>3. ASSUME NEW n \in Session, n <= Current(w)
        PROVE  owner[n] \in App /\ owner'[n] = owner[n]
    <3>1. n \in 1..Len(owner)
      BY <2>2, <2>3 DEF Session
    <3> QED
      BY <2>2, <3>1, OwnerGrows
  <2> QED
    BY <1>0, <2>1, <2>3, SentGrows
<1>2. CASE w = "down"
  <2>1. /\ Lines(w) = {"service"}
        /\ Count(w)["service"] = replies /\ Count(w)'["service"] = replies'
        /\ Line(w) = [n \in Session |-> "service"] /\ Line(w)' = [n \in Session |-> "service"]
    BY <1>2 DEF Lines, Count, Line
  <2> QED
    BY <1>0, <2>1, SentGrows
<1> QED
  BY <1>1, <1>2 DEF Ways

\* The types of what one way is made of, and when it may be empty.
LEMMA LineTypes ==
  ASSUME TypeOK, Serial, HeldWhileWriting, AtSockets, NEW w \in Ways
  PROVE  /\ Queue(w) \in Seq(Datagram) /\ held[Taker(w)] \in Seq(Byte)
         /\ \A n \in Session : data[<<n, w>>] \in Seq(Byte) /\ <<n, w>> \in Stream
         /\ \A j \in 1..Len(Queue(w)) : LineOf(w, Queue(w)[j]) \in Lines(w)
         /\ held[Taker(w)] # <<>> => Current(w) \in Session
<1>1. Queue(w) \in Seq(Datagram) /\ held[Taker(w)] \in Seq(Byte)
  BY WayIs, Writing DEF TypeOK, Ways
<1>2. ASSUME NEW n \in Session
      PROVE  data[<<n, w>>] \in Seq(Byte) /\ <<n, w>> \in Stream
  <2>1. <<n, w>> \in Stream
    BY DEF Stream, Ways
  <2> QED
    BY <2>1 DEF TypeOK
<1>3. \A j \in 1..Len(Queue(w)) : LineOf(w, Queue(w)[j]) \in Lines(w)
  BY WayIs DEF LineOf, Lines, AtSockets, Ways
<1>4. ASSUME held[Taker(w)] # <<>>
      PROVE  Current(w) \in Session
  <2>1. Taker(w) \in Task /\ pc[Taker(w)] # "none"
    BY <1>4, Writing DEF HeldWhileWriting
  <2> QED
    BY <2>1, OwnStream DEF Current
<1> QED
  BY <1>1, <1>2, <1>3, <1>4

-----------------------------------------------------------------------------
(* The order is kept.                                                      *)

\* A queue loses from its front, or gets one more behind.
LEMMA QueueMoves ==
  ASSUME IInv, NEW w \in Ways, LineMoves(w)
  PROVE  \/ \E k \in Nat : Behind(Queue(w), Queue(w)', k)
         \/ \E d \in Datagram :
              /\ LineOf(w, d) \in Lines(w)
              /\ d.n = Count(w)[LineOf(w, d)] + 1
              /\ Count(w)'[LineOf(w, d)] = Count(w)[LineOf(w, d)] + 1
              /\ Queue(w)' = Arrive(Queue(w), d)
<1>1. Queue(w) \in Seq(Datagram)
  BY LineTypes DEF IInv, Routed
<1> QED
  BY <1>1, BehindIs DEF LineMoves, LineRests, LineArrives, LineTakes, LineWrites

\* What waits at a socket was sent, and in that order.
LEMMA QueuedStep ==
  ASSUME IInv, IInv', Queued, [Next]_vars
  PROVE  Queued'
<1>1. ASSUME NEW w \in Ways
      PROVE  \A j \in 1..Len(Queue(w)') :
               /\ Queue(w)'[j].n \in 1..Count(w)'[LineOf(w, Queue(w)'[j])]
               /\ \A i \in 1..(j - 1) :
                    LineOf(w, Queue(w)'[i]) = LineOf(w, Queue(w)'[j])
                      => Queue(w)'[i].n < Queue(w)'[j].n
  <2> DEFINE q == Queue(w)
             q2 == Queue(w)'
  <2>1. LineMoves(w)
    BY LineSteps DEF IInv, Routed
  <2>2. q \in Seq(Datagram) /\ \A j \in 1..Len(q) : LineOf(w, q[j]) \in Lines(w)
    BY LineTypes DEF IInv, Routed
  <2>3. \A l \in Lines(w) : Count(w)[l] \in Nat /\ Count(w)'[l] \in Nat
                            /\ Count(w)[l] <= Count(w)'[l]
    BY LinesGrow DEF IInv
  <2>4. \A j \in 1..Len(q) :
          /\ q[j].n \in 1..Count(w)[LineOf(w, q[j])]
          /\ \A i \in 1..(j - 1) : LineOf(w, q[i]) = LineOf(w, q[j]) => q[i].n < q[j].n
    BY DEF Queued
  <2>5. \/ \E k \in Nat : Behind(q, q2, k)
        \/ \E d \in Datagram :
             /\ LineOf(w, d) \in Lines(w)
             /\ d.n = Count(w)[LineOf(w, d)] + 1
             /\ Count(w)'[LineOf(w, d)] = Count(w)[LineOf(w, d)] + 1
             /\ q2 = Arrive(q, d)
    BY <2>1, QueueMoves
  <2>6. \A j \in 1..Len(q) : q[j].n \in 1..Count(w)'[LineOf(w, q[j])]
    <3> SUFFICES ASSUME NEW j \in 1..Len(q)
                 PROVE  q[j].n \in 1..Count(w)'[LineOf(w, q[j])]
      OBVIOUS
    <3>1. LineOf(w, q[j]) \in Lines(w) /\ q[j].n \in 1..Count(w)[LineOf(w, q[j])]
      BY <2>2, <2>4
    <3> QED
      BY <2>3, <3>1
  <2> HIDE DEF q, q2
  <2>7. CASE \E k \in Nat : Behind(q, q2, k)
    <3>1. PICK k \in Nat : Behind(q, q2, k)
      BY <2>7
    <3>2. ASSUME NEW j \in 1..Len(q2)
          PROVE  /\ q2[j] = q[j + k] /\ j + k \in 1..Len(q)
                 /\ \A i \in 1..(j - 1) : q2[i] = q[i + k] /\ i + k \in 1..((j + k) - 1)
      <4>1. Len(q) \in Nat /\ Len(q2) = Len(q) - k
            /\ \A i \in 1..Len(q2) : q2[i] = q[i + k]
        BY <2>2, <3>1 DEF Behind
      <4>2. Len(q2) \in Int
        BY <4>1
      <4> QED
        BY <4>1, <4>2
    <3> QED
      BY <2>4, <2>6, <3>2 DEF q2
  <2>8. ASSUME NEW d \in Datagram, LineOf(w, d) \in Lines(w),
               d.n = Count(w)[LineOf(w, d)] + 1,
               Count(w)'[LineOf(w, d)] = Count(w)[LineOf(w, d)] + 1,
               q2 = Arrive(q, d)
        PROVE  \A j \in 1..Len(q2) :
                 /\ q2[j].n \in 1..Count(w)'[LineOf(w, q2[j])]
                 /\ \A i \in 1..(j - 1) :
                      LineOf(w, q2[i]) = LineOf(w, q2[j]) => q2[i].n < q2[j].n
    <3>1. \/ q2 = q
          \/ /\ Len(q2) = Len(q) + 1
             /\ \A i \in 1..Len(q) : q2[i] = q[i]
             /\ q2[Len(q) + 1] = d
      BY <2>2, <2>8, Arrives
    <3>2. CASE q2 = q
      BY <2>4, <2>6, <3>2
    <3>3. CASE q2 # q
      <4> SUFFICES ASSUME NEW j \in 1..Len(q2)
                   PROVE  /\ q2[j].n \in 1..Count(w)'[LineOf(w, q2[j])]
                          /\ \A i \in 1..(j - 1) :
                               LineOf(w, q2[i]) = LineOf(w, q2[j]) => q2[i].n < q2[j].n
        OBVIOUS
      <4>1. Len(q) \in Nat /\ Len(q2) = Len(q) + 1
            /\ (\A i \in 1..Len(q) : q2[i] = q[i]) /\ q2[Len(q) + 1] = d
        BY <2>2, <3>1, <3>3
      <4>2. CASE j \in 1..Len(q)
        <5>1. q2[j] = q[j] /\ \A i \in 1..(j - 1) : q2[i] = q[i]
          BY <4>1, <4>2
        <5> QED
          BY <2>4, <2>6, <4>2, <5>1
      <4>3. CASE j = Len(q) + 1
        <5>1. q2[j] = d /\ \A i \in 1..(j - 1) : q2[i] = q[i] /\ i \in 1..Len(q)
          BY <4>1, <4>3
        <5>2. d.n \in 1..Count(w)'[LineOf(w, d)]
          BY <2>3, <2>8
        <5>3. \A i \in 1..Len(q) : LineOf(w, q[i]) = LineOf(w, d) => q[i].n < d.n
          <6> SUFFICES ASSUME NEW i \in 1..Len(q), LineOf(w, q[i]) = LineOf(w, d)
                       PROVE  q[i].n < d.n
            OBVIOUS
          <6>1. q[i].n \in 1..Count(w)[LineOf(w, d)]
            BY <2>4
          <6> QED
            BY <2>3, <2>8, <6>1
        <5> QED
          BY <5>1, <5>2, <5>3
      <4> QED
        BY <4>1, <4>2, <4>3
    <3> QED
      BY <3>2, <3>3
  <2>9. \A j \in 1..Len(q2) :
          /\ q2[j].n \in 1..Count(w)'[LineOf(w, q2[j])]
          /\ \A i \in 1..(j - 1) : LineOf(w, q2[i]) = LineOf(w, q2[j]) => q2[i].n < q2[j].n
    BY <2>5, <2>7, <2>8 DEF q2
  <2> QED
    BY <2>9 DEF q2
<1> QED
  BY <1>1 DEF Queued

\* No bytes are in no disorder.
LEMMA NoBytes ==
  /\ \A w, q, line, number : Fit(w, <<>>, q, line, number)
  /\ \A s : AllBefore(s, <<>>) /\ AllBefore(<<>>, s)
BY DEF Fit, AllBefore

\* Bytes of a session that has begun still fit after a step, but for those that
\* are lost.
LEMMA KeptFit ==
  ASSUME IInv, IInv', [Next]_vars, NEW w \in Ways, NEW n \in Session, n <= Current(w),
         NEW s \in Seq(Byte), NEW s2 \in Seq(Byte), Cut(s, s2),
         Fit(w, s, Queue(w), Line(w)[n], Count(w)[Line(w)[n]])
  PROVE  Fit(w, s2, Queue(w)', Line(w)'[n], Count(w)'[Line(w)'[n]])
<1> DEFINE q == Queue(w)
           q2 == Queue(w)'
           l == Line(w)[n]
           a == Count(w)[l]
           b == Count(w)'[l]
<1>1. LineMoves(w)
  BY LineSteps DEF IInv, Routed
<1>2. q \in Seq(Datagram) /\ q2 \in Seq(Datagram)
  <2>1. q \in Seq(Datagram)
    BY LineTypes DEF IInv, Routed
  <2>2. sock' \in Seq(Datagram) /\ wire' \in Seq(Datagram)
    BY DEF IInv, TypeOK
  <2>3. q2 \in Seq(Datagram)
    BY <2>2, WayIs DEF Ways
  <2> QED
    BY <2>1, <2>3
<1>3. l \in Lines(w) /\ Line(w)'[n] = l
  BY LinesGrow DEF IInv
<1>4. a \in Nat /\ b \in Nat /\ a <= b
  BY <1>3, LinesGrow DEF IInv
<1>5. \/ \E k \in Nat : Behind(q, q2, k)
      \/ \E d \in Datagram :
           /\ LineOf(w, d) \in Lines(w)
           /\ d.n = Count(w)[LineOf(w, d)] + 1
           /\ Count(w)'[LineOf(w, d)] = Count(w)[LineOf(w, d)] + 1
           /\ q2 = Arrive(q, d)
  BY <1>1, QueueMoves
<1>6. Fit(w, s, q, l, a)
  OBVIOUS
<1> HIDE DEF q, q2, l
<1>7. \A j \in 1..Len(q2) :
        \/ \E i \in 1..Len(q) : q2[j] = q[i]
        \/ LineOf(w, q2[j]) = l => q2[j].n > a
  <2>1. ASSUME NEW k \in Nat, Behind(q, q2, k), NEW j \in 1..Len(q2)
        PROVE  \E i \in 1..Len(q) : q2[j] = q[i]
    <3>1. q2[j] = q[j + k] /\ Len(q2) = Len(q) - k /\ Len(q) \in Nat
      BY <1>2, <2>1 DEF Behind
    <3>2. j + k \in 1..Len(q)
      BY <3>1
    <3> QED
      BY <3>1, <3>2
  <2>2. ASSUME NEW d \in Datagram, LineOf(w, d) \in Lines(w),
               d.n = Count(w)[LineOf(w, d)] + 1, q2 = Arrive(q, d), NEW j \in 1..Len(q2)
        PROVE  \/ \E i \in 1..Len(q) : q2[j] = q[i]
               \/ LineOf(w, q2[j]) = l => q2[j].n > a
    <3>1. \/ q2 = q
          \/ /\ Len(q2) = Len(q) + 1
             /\ \A i \in 1..Len(q) : q2[i] = q[i]
             /\ q2[Len(q) + 1] = d
      BY <1>2, <2>2, Arrives
    <3>2. Len(q) \in Nat
      BY <1>2
    <3>3. (j \in 1..Len(q) /\ q2[j] = q[j]) \/ q2[j] = d
      BY <3>1, <3>2
    <3>4. LineOf(w, d) = l => d.n > a
      BY <1>4, <2>2
    <3> QED
      BY <3>3, <3>4
  <2> QED
    BY <1>5, <2>1, <2>2
<1>8. Len(s2) <= Len(s) /\ \A i \in 1..Len(s2) : s2[i] = s[i]
  BY DEF Cut
<1> HIDE DEF a, b
<1>9. Fit(w, s2, q2, l, b)
  BY <1>2, <1>4, <1>6, <1>7, <1>8, StillFit
<1> QED
  BY <1>3, <1>9 DEF q2, b

\* The streams, when nothing is written: a part of what they carried still
\* comes before a part of what the later ones did.
LEMMA StreamsKept ==
  ASSUME IInv, IInv', InOrder, [Next]_vars, NEW w \in Ways, Current(w)' >= Current(w),
         \A n \in Session : Cut(data[<<n, w>>], data'[<<n, w>>])
  PROVE  \A n \in Session :
           /\ data'[<<n, w>>] # <<>> => data[<<n, w>>] # <<>> /\ n <= Current(w)
           /\ Fit(w, data'[<<n, w>>], Queue(w)', Line(w)'[n], Count(w)'[Line(w)'[n]])
           /\ \A m \in 1..(n - 1) :
                AllBefore(data'[<<m, w>>], data'[<<n, w>>]) \/ Line(w)'[m] # Line(w)'[n]
<1>1. \A n \in Session : data[<<n, w>>] \in Seq(Byte) /\ <<n, w>> \in Stream
  BY LineTypes DEF IInv, Routed
<1>2. \A n \in Session : data'[<<n, w>>] \in Seq(Byte)
  BY <1>1 DEF IInv, TypeOK
<1>3. ASSUME NEW n \in Session, data'[<<n, w>>] # <<>>
      PROVE  /\ data[<<n, w>>] # <<>> /\ n <= Current(w)
             /\ Line(w)'[n] = Line(w)[n]
             /\ Fit(w, data'[<<n, w>>], Queue(w)', Line(w)'[n], Count(w)'[Line(w)'[n]])
  <2> DEFINE s == data[<<n, w>>]
             s2 == data'[<<n, w>>]
  <2>0. s \in Seq(Byte) /\ s2 \in Seq(Byte) /\ Cut(s, s2)
    BY <1>1, <1>2
  <2>1. s # <<>>
    <3>1. Len(s2) <= Len(s) /\ s2 # <<>>
      BY <1>3, <2>0 DEF Cut
    <3> HIDE DEF s, s2
    <3> QED
      BY <2>0, <3>1
  <2>2. n <= Current(w) /\ Fit(w, s, Queue(w), Line(w)[n], Count(w)[Line(w)[n]])
    BY <2>1 DEF InOrder, Carried, Sound
  <2>3. Line(w)'[n] = Line(w)[n]
    BY <2>2, LinesGrow DEF IInv
  <2> HIDE DEF s, s2
  <2>4. Fit(w, s2, Queue(w)', Line(w)'[n], Count(w)'[Line(w)'[n]])
    BY <2>0, <2>2, KeptFit
  <2> QED
    BY <2>1, <2>2, <2>3, <2>4 DEF s, s2
<1>4. ASSUME NEW n \in Session, NEW m \in 1..(n - 1)
      PROVE  AllBefore(data'[<<m, w>>], data'[<<n, w>>]) \/ Line(w)'[m] # Line(w)'[n]
  <2>0. m \in Session
    BY Bounds DEF Session
  <2>1. CASE data'[<<m, w>>] = <<>> \/ data'[<<n, w>>] = <<>>
    BY <2>1, NoBytes
  <2>2. CASE data'[<<m, w>>] # <<>> /\ data'[<<n, w>>] # <<>>
    <3>1. Line(w)'[n] = Line(w)[n] /\ Line(w)'[m] = Line(w)[m]
      BY <1>3, <2>0, <2>2
    <3>2. AllBefore(data[<<m, w>>], data[<<n, w>>]) \/ Line(w)[m] # Line(w)[n]
      BY <2>0 DEF InOrder, Precedes, Carried
    <3>3. ASSUME AllBefore(data[<<m, w>>], data[<<n, w>>])
          PROVE  AllBefore(data'[<<m, w>>], data'[<<n, w>>])
      <4>1. /\ data[<<m, w>>] \in Seq(Byte) /\ data[<<n, w>>] \in Seq(Byte)
            /\ data'[<<m, w>>] \in Seq(Byte) /\ data'[<<n, w>>] \in Seq(Byte)
        BY <1>1, <1>2, <2>0
      <4>2. Cut(data[<<m, w>>], data'[<<m, w>>]) /\ Cut(data[<<n, w>>], data'[<<n, w>>])
        BY <2>0
      <4> QED
        BY <3>3, <4>1, <4>2, BeforeParts DEF Cut
    <3> QED
      BY <3>1, <3>2, <3>3
  <2> QED
    BY <2>1, <2>2
<1>5. ASSUME NEW n \in Session
      PROVE  Fit(w, data'[<<n, w>>], Queue(w)', Line(w)'[n], Count(w)'[Line(w)'[n]])
  <2>1. CASE data'[<<n, w>>] = <<>>
    BY <2>1, NoBytes
  <2> QED
    BY <1>3, <2>1
<1> QED
  BY <1>3, <1>4, <1>5

\* What InOrder says of one way.
LineInOrder(w) ==
  /\ Sound(w, held[Taker(w)], Current(w))
  /\ \A n \in Session :
       /\ Carried(w, n) # <<>> => n <= Current(w)
       /\ Sound(w, Carried(w, n), n)
       /\ Precedes(w, n, held[Taker(w)], Current(w))
       /\ \A m \in 1..(n - 1) : Precedes(w, m, Carried(w, n), n)

\* The steps that write nothing: what the writer then holds, if anything, is
\* what it held or what it has just taken.
LEMMA UnwrittenInOrder ==
  ASSUME IInv, IInv', Queued, InOrder, [Next]_vars, NEW w \in Ways,
         LineRests(w) \/ LineArrives(w) \/ LineTakes(w)
  PROVE  LineInOrder(w)'
<1> DEFINE h == held[Taker(w)]
           h2 == held'[Taker(w)]
<1>1. /\ Queue(w) \in Seq(Datagram) /\ h \in Seq(Byte)
      /\ \A n \in Session : data[<<n, w>>] \in Seq(Byte) /\ <<n, w>> \in Stream
      /\ Current(w) \in Nat
  BY LineTypes, LinesGrow DEF IInv, Routed
<1>2. h2 \in Seq(Byte) /\ \A n \in Session : data'[<<n, w>>] \in Seq(Byte)
  BY <1>1, Writing DEF IInv, TypeOK
<1>3. /\ Current(w)' >= Current(w)
      /\ \A n \in Session : Cut(data[<<n, w>>], data'[<<n, w>>])
  <2>1. CASE LineRests(w)
    BY <2>1 DEF LineRests
  <2>2. CASE LineArrives(w) \/ LineTakes(w)
    <3>1. data' = data /\ turn' = turn
      BY <2>2 DEF LineArrives, LineTakes
    <3>2. Current(w)' = Current(w)
      BY <3>1 DEF Current
    <3> QED
      BY <1>1, <3>1, <3>2 DEF Cut
  <2> QED
    BY <2>1, <2>2
<1>4. \A n \in Session :
        /\ data'[<<n, w>>] # <<>> => data[<<n, w>>] # <<>> /\ n <= Current(w)
        /\ Fit(w, data'[<<n, w>>], Queue(w)', Line(w)'[n], Count(w)'[Line(w)'[n]])
        /\ \A m \in 1..(n - 1) :
             AllBefore(data'[<<m, w>>], data'[<<n, w>>]) \/ Line(w)'[m] # Line(w)'[n]
  BY <1>3, StreamsKept
<1>5. ASSUME h2 # <<>>
      PROVE  /\ Current(w) \in Session /\ Current(w)' = Current(w)
             /\ Line(w)'[Current(w)] = Line(w)[Current(w)]
  <2>1. Current(w) \in Session /\ Current(w)' = Current(w)
    <3>1. CASE LineRests(w) \/ LineArrives(w)
      <4>1. h2 = h
        BY <1>5, <3>1 DEF LineRests, LineArrives
      <4>2. Current(w) \in Session
        BY <1>5, <4>1, LineTypes DEF IInv, Routed
      <4> QED
        BY <1>5, <3>1, <4>2 DEF LineRests, LineArrives, Current
    <3>2. CASE LineTakes(w)
      BY <3>2 DEF LineTakes, Current
    <3> QED
      BY <3>1, <3>2
  <2>2. Current(w) <= Current(w)
    BY <1>1
  <2> QED
    BY <2>1, <2>2, LinesGrow DEF IInv
<1>6. ASSUME h2 # <<>>
      PROVE  /\ Fit(w, h2, Queue(w)', Line(w)'[Current(w)], Count(w)'[Line(w)'[Current(w)]])
             /\ \A n \in Session :
                  AllBefore(data[<<n, w>>], h2) \/ Line(w)[n] # Line(w)[Current(w)]
  <2>1. CASE LineTakes(w)
    <3> DEFINE q == Queue(w)
               l == Line(w)[Current(w)]
    <3>1. /\ q # <<>> /\ Queue(w)' = Tail(q) /\ LineOf(w, Head(q)) = l
          /\ h2 = Contents(Head(q))
      BY <2>1 DEF LineTakes
    <3>2. l \in Lines(w) /\ Line(w)'[Current(w)] = l /\ Count(w)[l] \in Nat
          /\ Count(w)'[l] \in Nat /\ Count(w)[l] <= Count(w)'[l]
      <4>1. Current(w) <= Current(w)
        BY <1>1
      <4> QED
        BY <1>5, <1>6, <4>1, LinesGrow DEF IInv
    <3>3. Head(q).n \in 1..Count(w)'[l]
      <4>1. Head(q) = q[1] /\ 1 \in 1..Len(q)
        BY <1>1, <3>1, HeadLeaves
      <4>2. Head(q).n \in 1..Count(w)[l]
        BY <3>1, <4>1 DEF Queued
      <4> QED
        BY <3>2, <4>2
    <3>4. \A j \in 1..Len(q) :
            1 < j /\ LineOf(w, q[1]) = LineOf(w, q[j]) => q[1].n < q[j].n
      <4> SUFFICES ASSUME NEW j \in 1..Len(q), 1 < j, LineOf(w, q[1]) = LineOf(w, q[j])
                   PROVE  q[1].n < q[j].n
        OBVIOUS
      <4>1. 1 \in 1..(j - 1)
        OBVIOUS
      <4> QED
        BY <4>1 DEF Queued
    <3> HIDE DEF q, l
    <3>5. Fit(w, Contents(Head(q)), Tail(q), l, Count(w)'[l])
      <4>1. q \in Seq(Datagram)
        BY <1>1 DEF q
      <4> QED
        BY <3>1, <3>2, <3>3, <3>4, <4>1, HeadFits
    <3>6. ASSUME NEW n \in Session
          PROVE  AllBefore(data[<<n, w>>], h2) \/ Line(w)[n] # l
      <4>1. CASE data[<<n, w>>] = <<>>
        BY <4>1, NoBytes
      <4>2. CASE data[<<n, w>>] # <<>> /\ Line(w)[n] = l
        <5>1. Fit(w, data[<<n, w>>], q, l, Count(w)[l])
          BY <4>2 DEF InOrder, Sound, Carried, q
        <5>2. q \in Seq(Datagram) /\ data[<<n, w>>] \in Seq(Byte)
          BY <1>1 DEF q
        <5> QED
          BY <3>1, <3>2, <5>1, <5>2, BeforeHead
      <4> QED
        BY <4>1, <4>2
    <3> QED
      BY <3>1, <3>2, <3>5, <3>6 DEF l
  <2>2. CASE LineRests(w) \/ LineArrives(w)
    <3>1. h2 = h
      BY <1>6, <2>2 DEF LineRests, LineArrives
    <3>2. Fit(w, h, Queue(w), Line(w)[Current(w)], Count(w)[Line(w)[Current(w)]])
      BY DEF InOrder, Sound
    <3>3. Cut(h, h2)
      BY <1>1, <3>1 DEF Cut
    <3>4. Current(w) \in Session /\ Current(w) <= Current(w)
      BY <1>1, <1>5, <1>6
    <3>5. \A n \in Session :
            AllBefore(data[<<n, w>>], h2) \/ Line(w)[n] # Line(w)[Current(w)]
      BY <3>1 DEF InOrder, Precedes, Carried
    <3> HIDE DEF h, h2
    <3>6. Fit(w, h2, Queue(w)', Line(w)'[Current(w)], Count(w)'[Line(w)'[Current(w)]])
      BY <1>1, <1>2, <3>2, <3>3, <3>4, KeptFit
    <3> QED
      BY <3>5, <3>6 DEF h2
  <2> QED
    BY <2>1, <2>2
<1>7. Fit(w, h2, Queue(w)', Line(w)'[Current(w)'], Count(w)'[Line(w)'[Current(w)']])
  <2>1. CASE h2 = <<>>
    BY <2>1, NoBytes
  <2>2. CASE h2 # <<>>
    BY <1>5, <1>6, <2>2
  <2> QED
    BY <2>1, <2>2
<1>8. ASSUME NEW n \in Session
      PROVE  AllBefore(data'[<<n, w>>], h2) \/ Line(w)'[n] # Line(w)'[Current(w)']
  <2>1. CASE h2 = <<>> \/ data'[<<n, w>>] = <<>>
    BY <2>1, NoBytes
  <2>2. CASE h2 # <<>> /\ data'[<<n, w>>] # <<>>
    <3>1. n <= Current(w)
      BY <1>4, <2>2
    <3>2. Line(w)'[n] = Line(w)[n]
      BY <3>1, LinesGrow DEF IInv
    <3>3. AllBefore(data[<<n, w>>], h2) \/ Line(w)[n] # Line(w)[Current(w)]
      BY <1>6, <2>2
    <3>4. ASSUME AllBefore(data[<<n, w>>], h2)
          PROVE  AllBefore(data'[<<n, w>>], h2)
      <4>1. data[<<n, w>>] \in Seq(Byte) /\ data'[<<n, w>>] \in Seq(Byte)
            /\ Cut(data[<<n, w>>], data'[<<n, w>>]) /\ h2 \in Seq(Byte) /\ Cut(h2, h2)
        BY <1>1, <1>2, <1>3 DEF Cut
      <4> HIDE DEF h2
      <4> QED
        BY <3>4, <4>1, BeforeParts DEF Cut
    <3> QED
      BY <1>5, <2>2, <3>2, <3>3, <3>4
  <2> QED
    BY <2>1, <2>2
<1>9. \A n \in Session : data'[<<n, w>>] # <<>> => n <= Current(w)'
  <2>1. Current(w)' \in Nat
    BY Writing DEF Current, IInv, TypeOK
  <2> SUFFICES ASSUME NEW n \in Session, data'[<<n, w>>] # <<>>
               PROVE  n <= Current(w)'
    OBVIOUS
  <2>2. n <= Current(w) /\ n \in Nat
    BY <1>4 DEF Session
  <2> QED
    BY <1>1, <1>3, <2>1, <2>2
<1> QED
  BY <1>4, <1>7, <1>8, <1>9 DEF LineInOrder, Sound, Precedes, Carried

\* A write: what is held comes behind all that the line's streams carry.
LEMMA WrittenInOrder ==
  ASSUME IInv, IInv', InOrder, [Next]_vars, NEW w \in Ways, LineWrites(w)
  PROVE  LineInOrder(w)'
<1> DEFINE h == held[Taker(w)]
           k == Current(w)
           x == data[<<k, w>>] \o h
<1>1. /\ Queue(w) \in Seq(Datagram) /\ h \in Seq(Byte)
      /\ \A n \in Session : data[<<n, w>>] \in Seq(Byte) /\ <<n, w>> \in Stream
      /\ k \in Nat /\ data \in [Stream -> Seq(Byte)]
  BY LineTypes, LinesGrow DEF IInv, Routed, TypeOK
<1>2. /\ k \in Session /\ data' = [data EXCEPT ![<<k, w>>] = x]
      /\ held'[Taker(w)] = <<>> /\ Current(w)' = k /\ Line(w)' = Line(w)
  <2>1. turn' = turn /\ owner' = owner
    BY DEF LineWrites
  <2> QED
    BY <2>1 DEF LineWrites, Current, Line
<1>3. \A n \in Session :
        /\ data[<<n, w>>] # <<>> => n <= k
        /\ Fit(w, data[<<n, w>>], Queue(w), Line(w)[n], Count(w)[Line(w)[n]])
        /\ AllBefore(data[<<n, w>>], h) \/ Line(w)[n] # Line(w)[k]
        /\ \A m \in 1..(n - 1) :
             AllBefore(data[<<m, w>>], data[<<n, w>>]) \/ Line(w)[m] # Line(w)[n]
  BY DEF InOrder, Sound, Precedes, Carried
<1>4. AllBefore(data[<<k, w>>], h)
  BY <1>2, <1>3
<1>5. Fit(w, h, Queue(w), Line(w)[k], Count(w)[Line(w)[k]])
  BY DEF InOrder, Sound
<1>6. Count(w)[Line(w)[k]] \in Nat
  <2>1. k <= k
    BY <1>1
  <2> QED
    BY <1>2, <2>1, LinesGrow DEF IInv
<1>7. x \in Seq(Byte) /\ Fit(w, x, Queue(w), Line(w)[k], Count(w)[Line(w)[k]])
  <2>1. data[<<k, w>>] \in Seq(Byte)
    BY <1>1, <1>2
  <2>2. Fit(w, data[<<k, w>>], Queue(w), Line(w)[k], Count(w)[Line(w)[k]])
    BY <1>2, <1>3
  <2> HIDE DEF h
  <2> QED
    BY <1>1, <1>4, <1>5, <1>6, <2>1, <2>2, JoinFits
<1>8. /\ data'[<<k, w>>] = x
      /\ \A n \in Session : n # k => data'[<<n, w>>] = data[<<n, w>>]
  <2>1. <<k, w>> \in Stream
    BY <1>1, <1>2
  <2> HIDE DEF x, k
  <2> QED
    BY <1>1, <1>2, <2>1
<1> HIDE DEF x
<1>9. ASSUME NEW n \in Session
      PROVE  /\ data'[<<n, w>>] # <<>> => n <= Current(w)'
             /\ Fit(w, data'[<<n, w>>], Queue(w)', Line(w)'[n], Count(w)'[Line(w)'[n]])
  <2>1. CASE n = k
    <3>1. n <= Current(w) /\ Cut(x, x)
      BY <1>1, <1>7, <2>1 DEF Cut
    <3>2. Fit(w, x, Queue(w)', Line(w)'[k], Count(w)'[Line(w)'[k]])
      BY <1>2, <1>7, <2>1, <3>1, KeptFit
    <3> QED
      BY <1>2, <1>8, <2>1, <3>1, <3>2
  <2>2. CASE n # k /\ data[<<n, w>>] # <<>>
    <3>1. n <= k /\ data'[<<n, w>>] = data[<<n, w>>] /\ data[<<n, w>>] \in Seq(Byte)
      BY <1>1, <1>3, <1>8, <2>2
    <3>2. Cut(data[<<n, w>>], data[<<n, w>>])
      BY <3>1 DEF Cut
    <3>3. Fit(w, data[<<n, w>>], Queue(w), Line(w)[n], Count(w)[Line(w)[n]])
      BY <1>3
    <3>4. Fit(w, data[<<n, w>>], Queue(w)', Line(w)'[n], Count(w)'[Line(w)'[n]])
      BY <3>1, <3>2, <3>3, KeptFit
    <3> QED
      BY <1>2, <3>1, <3>4
  <2>3. CASE n # k /\ data[<<n, w>>] = <<>>
    <3>1. data'[<<n, w>>] = <<>>
      BY <1>8, <2>3
    <3> QED
      BY <3>1, NoBytes
  <2> QED
    BY <2>1, <2>2, <2>3
<1>10. ASSUME NEW n \in Session, NEW m \in 1..(n - 1)
       PROVE  AllBefore(data'[<<m, w>>], data'[<<n, w>>]) \/ Line(w)'[m] # Line(w)'[n]
  <2>0. m \in Session /\ m # n /\ m < n
    BY Bounds DEF Session
  <2>1. CASE n = k
    <3>1. data'[<<m, w>>] = data[<<m, w>>] /\ data'[<<n, w>>] = x
      BY <1>8, <2>0, <2>1
    <3>2. CASE Line(w)[m] = Line(w)[n]
      <4>1. AllBefore(data[<<m, w>>], h) /\ AllBefore(data[<<m, w>>], data[<<k, w>>])
        BY <1>3, <2>0, <2>1, <3>2
      <4>2. data[<<m, w>>] \in Seq(Byte) /\ data[<<k, w>>] \in Seq(Byte) /\ h \in Seq(Byte)
        BY <1>1, <1>2, <2>0
      <4> HIDE DEF h
      <4>3. AllBefore(data[<<m, w>>], data[<<k, w>>] \o h)
        BY <4>1, <4>2, BeforeBoth
      <4> QED
        BY <3>1, <4>3 DEF x
    <3> QED
      BY <1>2, <3>2
  <2>2. CASE m = k
    <3>1. data[<<n, w>>] = <<>>
      <4>1. ~(n <= k)
        BY <1>1, <2>0, <2>2
      <4> QED
        BY <1>3, <4>1
    <3>2. data'[<<n, w>>] = <<>>
      BY <1>8, <2>0, <2>2, <3>1
    <3> QED
      BY <3>2, NoBytes
  <2>3. CASE n # k /\ m # k
    BY <1>2, <1>3, <1>8, <2>0, <2>3
  <2> QED
    BY <2>1, <2>2, <2>3
<1> QED
  BY <1>2, <1>9, <1>10, NoBytes DEF LineInOrder, Sound, Precedes, Carried

\* So the order of both ways is kept.
LEMMA InOrderStep ==
  ASSUME IInv, IInv', Queued, InOrder, [Next]_vars
  PROVE  InOrder'
<1>1. ASSUME NEW w \in Ways
      PROVE  LineInOrder(w)'
  <2>1. LineMoves(w)
    BY LineSteps DEF IInv, Routed
  <2> QED
    BY <2>1, UnwrittenInOrder, WrittenInOrder DEF LineMoves
<1> QED
  BY <1>1 DEF InOrder, LineInOrder

-----------------------------------------------------------------------------
(* What the ends are shown.                                                *)

\* Two pieces that rise, the first before the second, rise as one.
LEMMA JoinRises ==
  ASSUME NEW s \in Seq(Byte), NEW r \in Seq(Byte), Rising(s), Rising(r), AllBefore(s, r)
  PROVE  Rising(s \o r)
<1> DEFINE x == s \o r
           k == Len(s)
           h == Len(r)
<1>1. /\ k \in Nat /\ h \in Nat /\ Len(x) = k + h
      /\ \A i \in 1..Len(x) :
           \/ i \in 1..k /\ x[i] = s[i]
           \/ i > k /\ i - k \in 1..h /\ x[i] = r[i - k]
  BY Appended
<1>2. /\ \A i \in 1..k : \A j \in 1..(i - 1) : P!Before(s[j], s[i])
      /\ \A i \in 1..h : \A j \in 1..(i - 1) : P!Before(r[j], r[i])
      /\ \A i \in 1..k, j \in 1..h : P!Before(s[i], r[j])
  BY DEF Rising, AllBefore
<1> HIDE DEF x, k, h
<1>3. ASSUME NEW i \in 1..Len(x), NEW j \in 1..(i - 1)
      PROVE  P!Before(x[j], x[i])
  <2>0. j \in 1..Len(x) /\ j < i
    BY <1>1
  <2>1. CASE i \in 1..k
    <3>1. j \in 1..k
      BY <1>1, <2>0, <2>1
    <3>2. x[i] = s[i] /\ x[j] = s[j]
      BY <1>1, <2>0, <2>1, <3>1
    <3> QED
      BY <1>2, <2>1, <3>2
  <2>2. CASE i \notin 1..k /\ j \in 1..k
    <3>1. i - k \in 1..h /\ x[i] = r[i - k] /\ x[j] = s[j]
      BY <1>1, <2>0, <2>2
    <3> QED
      BY <1>2, <2>2, <3>1
  <2>3. CASE i \notin 1..k /\ j \notin 1..k
    <3>1. i - k \in 1..h /\ x[i] = r[i - k] /\ x[j] = r[j - k]
      BY <1>1, <2>0, <2>3
    <3>2. j - k \in 1..((i - k) - 1)
      BY <1>1, <2>0, <2>3
    <3> QED
      BY <1>2, <3>1, <3>2
  <2> QED
    BY <2>1, <2>2, <2>3
<1>4. Rising(x)
  BY <1>3 DEF Rising
<1> QED
  BY <1>4 DEF x

\* What was read from a stream stays where it is: a write comes behind it, and
\* the loss of the connection takes only what was not read.
LEMMA ReadStays ==
  ASSUME IInv, IInv', [Next]_vars, NEW c \in Stream
  PROVE  /\ rd[c] \in Nat /\ rd'[c] \in Nat /\ rd[c] <= rd'[c]
         /\ \A k \in 1..rd[c] : k \in 1..rd'[c] /\ data'[c][k] = data[c][k]
<1> USE DEF IInv
<1>1. rd \in [Stream -> Nat] /\ data \in [Stream -> Seq(Byte)]
  BY DEF TypeOK
<1>2. rd[c] \in Nat /\ Len(data[c]) \in Nat /\ rd[c] <= Len(data[c])
  BY <1>1 DEF Reading
<1>3. rd'[c] \in Nat /\ rd[c] <= rd'[c]
  BY <1>2, Onwards DEF TypeOK
<1>4. ASSUME NEW k \in 1..rd[c]
      PROVE  k \in 1..rd'[c] /\ data'[c][k] = data[c][k]
  <2>1. k \in 1..rd'[c] /\ k \in 1..Len(data[c])
    BY <1>2, <1>3
  <2>2. ASSUME NEW t \in Task, WriteOut(t)
        PROVE  data'[c][k] = data[c][k]
    <3>1. PICK s \in Seq(Byte) :
            /\ \A i \in 1..Len(data[Own(t)]) : s[i] = data[Own(t)][i]
            /\ data' = [data EXCEPT ![Own(t)] = s]
      BY <2>2, WriteAdds
    <3>2. Own(t) \in Stream
      BY <2>2, WriteAdds
    <3> QED
      BY <1>1, <2>1, <3>1, <3>2
  <2>3. CASE LoseLink
    <3>1. /\ rd[c] <= Len(data'[c]) /\ Len(data'[c]) \in Nat
          /\ \A i \in 1..Len(data'[c]) : data'[c][i] = data[c][i]
      BY <2>3, LossCuts
    <3> DEFINE s2 == data'[c]
    <3> HIDE DEF s2
    <3>2. rd[c] <= Len(s2) /\ Len(s2) \in Nat /\ \A i \in 1..Len(s2) : s2[i] = data[c][i]
      BY <3>1 DEF s2
    <3>3. k \in 1..Len(s2)
      BY <1>2, <3>2
    <3>4. s2[k] = data[c][k]
      BY <3>2, <3>3
    <3> QED
      BY <2>1, <3>4 DEF s2
  <2> QED
    BY <2>1, <2>2, <2>3, StreamSteps
<1> QED
  BY <1>2, <1>3, <1>4

\* What an end is shown next comes behind what it was shown of the stream.
LEMMA NextRises ==
  ASSUME IInv, InOrder, NEW w \in Ways, NEW n \in Session, NEW r \in Seq(Byte),
         NEW k \in Nat, k + Len(r) <= Len(data[<<n, w>>]),
         \A i \in 1..Len(r) : r[i] = data[<<n, w>>][k + i]
  PROVE  /\ Rising(r)
         /\ \A i \in 1..k, j \in 1..Len(r) : P!Before(data[<<n, w>>][i], r[j])
<1> DEFINE d == data[<<n, w>>]
<1>1. d \in Seq(Byte) /\ Len(r) \in Nat /\ Len(d) \in Nat
  BY LineTypes DEF IInv, Routed
<1>2. \A i \in 1..Len(d) : \A j \in 1..(i - 1) : P!Before(d[j], d[i])
  BY DEF InOrder, Sound, Fit, Carried
<1>3. k + Len(r) <= Len(d) /\ \A i \in 1..Len(r) : r[i] = d[k + i]
  OBVIOUS
<1> HIDE DEF d
<1>4. ASSUME NEW i \in 1..Len(r), NEW j \in 1..(i - 1)
      PROVE  P!Before(r[j], r[i])
  <2>1. k + i \in 1..Len(d) /\ k + j \in 1..((k + i) - 1) /\ j \in 1..Len(r)
    BY <1>1, <1>3
  <2> QED
    BY <1>2, <1>3, <2>1
<1>5. ASSUME NEW i \in 1..k, NEW j \in 1..Len(r)
      PROVE  P!Before(d[i], r[j])
  <2>1. k + j \in 1..Len(d) /\ i \in 1..((k + j) - 1)
    BY <1>1, <1>3
  <2> QED
    BY <1>2, <1>3, <2>1
<1> QED
  BY <1>4, <1>5 DEF Rising, d

\* The bytes shown to the service: it is shown the next ones of its session's
\* stream, or none.
LEMMA SeenStep ==
  ASSUME IInv, IInv', InOrder, ShownWasRead, [Next]_vars, NEW n \in Session
  PROVE  /\ Rising(seen'[n])
         /\ \A i \in 1..Len(seen'[n]) :
              \E k \in 1..rd'[<<n, "up">>] : seen'[n][i] = data'[<<n, "up">>][k]
<1>0. /\ seen \in [Session -> Seq(Byte)] /\ rd \in [Stream -> Nat]
      /\ data \in [Stream -> Seq(Byte)] /\ <<n, "up">> \in Stream
  BY DEF IInv, TypeOK, Stream
<1> DEFINE c == <<n, "up">>
<1>1. /\ Rising(seen[n])
      /\ \A i \in 1..Len(seen[n]) : \E k \in 1..rd[c] : seen[n][i] = data[c][k]
  BY DEF ShownWasRead, Carried
<1>2. /\ rd[c] \in Nat /\ rd'[c] \in Nat /\ rd[c] <= rd'[c]
      /\ \A k \in 1..rd[c] : k \in 1..rd'[c] /\ data'[c][k] = data[c][k]
  BY <1>0, ReadStays
<1>3. ASSUME seen'[n] = seen[n]
      PROVE  /\ Rising(seen'[n])
             /\ \A i \in 1..Len(seen'[n]) : \E k \in 1..rd'[c] : seen'[n][i] = data'[c][k]
  BY <1>1, <1>2, <1>3
<1>4. CASE HostDelivers
  <2>1. PICK j \in Nat \ {0} :
          LET m == turn["host"]
              b == <<turn["host"], "up">>
              r == Chunk("host_tunnel_to_udp", j)
          IN /\ m \in Session /\ b \in Stream
             /\ r \in Seq(Byte) /\ Len(r) = j
             /\ rd[b] + j <= Len(data[b])
             /\ \A i \in 1..j : r[i] = data[b][rd[b] + i]
             /\ rd' = [rd EXCEPT ![b] = rd[b] + j]
             /\ \/ seen' = [seen EXCEPT ![m] = seen[m] \o r]
                \/ seen' = seen
    BY <1>4, HostHands DEF IInv
  <2> DEFINE m == turn["host"]
             r == Chunk("host_tunnel_to_udp", j)
  <2>2. CASE m # n \/ seen' = seen
    <3>1. seen'[n] = seen[n]
      BY <1>0, <2>1, <2>2
    <3> QED
      BY <1>3, <3>1
  <2>3. CASE m = n /\ seen' = [seen EXCEPT ![m] = seen[m] \o r]
    <3>1. /\ r \in Seq(Byte) /\ Len(r) = j /\ rd[c] + j <= Len(data[c])
          /\ \A i \in 1..j : r[i] = data[c][rd[c] + i]
          /\ rd'[c] = rd[c] + j
          /\ seen'[n] = seen[n] \o r
      BY <1>0, <2>1, <2>3
    <3>2. data' = data
      BY <1>4 DEF HostDelivers
    <3> HIDE DEF m, r, c
    <3>3. seen[n] \in Seq(Byte)
      BY <1>0
    <3>4. /\ Rising(r)
          /\ \A i \in 1..rd[c], k \in 1..Len(r) : P!Before(data[c][i], r[k])
      BY <1>2, <3>1, NextRises DEF c, Ways
    <3>5. AllBefore(seen[n], r)
      BY <1>1, <3>4 DEF AllBefore
    <3>6. Rising(seen'[n])
      BY <1>1, <3>1, <3>3, <3>4, <3>5, JoinRises
    <3>7. ASSUME NEW i \in 1..Len(seen'[n])
          PROVE  \E k \in 1..rd'[c] : seen'[n][i] = data'[c][k]
      <4>1. \/ i \in 1..Len(seen[n]) /\ seen'[n][i] = seen[n][i]
            \/ i - Len(seen[n]) \in 1..Len(r) /\ seen'[n][i] = r[i - Len(seen[n])]
        BY <3>1, <3>3, Appended
      <4>2. CASE i \in 1..Len(seen[n]) /\ seen'[n][i] = seen[n][i]
        BY <1>1, <1>2, <4>2
      <4>3. CASE i - Len(seen[n]) \in 1..Len(r) /\ seen'[n][i] = r[i - Len(seen[n])]
        <5> DEFINE k == rd[c] + (i - Len(seen[n]))
        <5>1. seen'[n][i] = data'[c][k]
          BY <3>1, <3>2, <4>3
        <5>2. k \in 1..rd'[c]
          <6>1. i - Len(seen[n]) \in 1..j
            BY <3>1, <4>3
          <6>2. rd[c] \in Nat /\ rd'[c] = rd[c] + j
            BY <1>2, <3>1
          <6> HIDE DEF r, m
          <6> QED
            BY <6>1, <6>2
        <5> QED
          BY <5>1, <5>2
      <4> QED
        BY <4>1, <4>2, <4>3
    <3> QED
      BY <3>6, <3>7 DEF c
  <2> QED
    BY <2>1, <2>2, <2>3
<1>5. CASE seen' = seen
  BY <1>3, <1>5
<1> QED
  BY <1>4, <1>5, ServiceSteps DEF IInv

\* The bytes shown to an application: the next ones of its present session's
\* stream, all of which come behind those of its earlier sessions.
LEMMA GotStep ==
  ASSUME IInv, IInv', InOrder, ShownWasRead, [Next]_vars, NEW a \in App
  PROVE  /\ Rising(got'[a])
         /\ \A i \in 1..Len(got'[a]) :
              \E k \in 1..rd'[<<got'[a][i].from, "down">>] :
                got'[a][i] = data'[<<got'[a][i].from, "down">>][k]
<1>0. /\ got \in [App -> Seq(Byte)] /\ rd \in [Stream -> Nat]
      /\ data \in [Stream -> Seq(Byte)] /\ got[a] \in Seq(Byte)
      /\ \A n \in Session : <<n, "down">> \in Stream
      /\ Len(owner) = turn["client"] /\ turn["client"] \in 0..MaxSessions
  BY Tasks DEF IInv, TypeOK, Stream, Serial
<1>1. /\ Rising(got[a])
      /\ \A i \in 1..Len(got[a]) :
           \E k \in 1..rd[<<got[a][i].from, "down">>] :
             got[a][i] = data[<<got[a][i].from, "down">>][k]
  BY DEF ShownWasRead, Carried
<1>2. \A i \in 1..Len(got[a]) : got[a][i].from \in 1..Len(owner) /\ got[a][i].from \in Session
  <2>1. \A i \in 1..Len(got[a]) : got[a][i].from \in 1..Len(owner)
    BY DEF IInv, Routed, AtEnds
  <2> QED
    BY <1>0, <2>1, Bounds DEF Session
<1>3. \A n \in Session :
        /\ rd[<<n, "down">>] \in Nat /\ rd'[<<n, "down">>] \in Nat
        /\ \A k \in 1..rd[<<n, "down">>] :
             k \in 1..rd'[<<n, "down">>] /\ data'[<<n, "down">>][k] = data[<<n, "down">>][k]
  BY <1>0, ReadStays
<1>4. \A i \in 1..Len(got[a]) :
        \E k \in 1..rd'[<<got[a][i].from, "down">>] :
          got[a][i] = data'[<<got[a][i].from, "down">>][k]
  <2> SUFFICES ASSUME NEW i \in 1..Len(got[a])
               PROVE  \E k \in 1..rd'[<<got[a][i].from, "down">>] :
                        got[a][i] = data'[<<got[a][i].from, "down">>][k]
    OBVIOUS
  <2> DEFINE n == got[a][i].from
  <2>1. n \in Session
    BY <1>2
  <2>2. PICK k \in 1..rd[<<n, "down">>] : got[a][i] = data[<<n, "down">>][k]
    BY <1>1
  <2> HIDE DEF n
  <2>3. k \in 1..rd'[<<n, "down">>] /\ data'[<<n, "down">>][k] = data[<<n, "down">>][k]
    BY <1>3, <2>1
  <2>4. \E h \in 1..rd'[<<n, "down">>] : got[a][i] = data'[<<n, "down">>][h]
    BY <2>2, <2>3
  <2> QED
    BY <2>4 DEF n
<1>5. CASE got' = got
  BY <1>1, <1>4, <1>5
<1>6. CASE ClientDelivers
  <2>1. PICK j \in Nat \ {0} :
          LET m == turn["client"]
              b == <<turn["client"], "down">>
              o == owner[turn["client"]]
              r == Chunk("client_tunnel_to_udp", j)
          IN /\ m \in Session /\ o \in App /\ b \in Stream
             /\ r \in Seq(Byte) /\ Len(r) = j
             /\ rd[b] + j <= Len(data[b])
             /\ \A i \in 1..j : r[i] = data[b][rd[b] + i]
             /\ rd' = [rd EXCEPT ![b] = rd[b] + j]
             /\ got' = [got EXCEPT ![o] = got[o] \o r]
             /\ data' = data
    BY <1>6, ClientHands DEF IInv
  <2> DEFINE m == turn["client"]
             c == <<m, "down">>
             r == Chunk("client_tunnel_to_udp", j)
  <2>2. CASE owner[m] # a
    <3>1. got'[a] = got[a]
      BY <1>0, <2>1, <2>2
    <3> QED
      BY <1>1, <1>4, <3>1
  <2>3. CASE owner[m] = a
    <3>1. /\ m \in Session /\ m = Len(owner)
          /\ r \in Seq(Byte) /\ Len(r) = j /\ rd[c] + j <= Len(data[c])
          /\ \A i \in 1..j : r[i] = data[c][rd[c] + i]
          /\ rd'[c] = rd[c] + j /\ rd[c] \in Nat
          /\ got'[a] = got[a] \o r /\ data' = data
      BY <1>0, <2>1, <2>3
    <3>2. \A i \in 1..j : r[i].from = m
      <4>1. \A i \in 1..Len(data[c]) : data[c][i].from = m
        BY <3>1 DEF IInv, Routed, OnStreams, AllFrom
      <4>2. Len(data[c]) \in Nat
        BY <1>0, <2>1
      <4> SUFFICES ASSUME NEW i \in 1..j
                   PROVE  r[i].from = m
        OBVIOUS
      <4> DEFINE p == rd[c]
                 z == Len(data[c])
      <4>4. p \in Nat /\ z \in Nat /\ p + j <= z /\ r[i] = data[c][p + i]
        BY <3>1, <4>2
      <4> HIDE DEF p, z
      <4>5. p + i \in 1..z
        BY <4>4
      <4>3. rd[c] + i \in 1..Len(data[c]) /\ r[i] = data[c][rd[c] + i]
        BY <4>4, <4>5 DEF p, z
      <4> QED
        BY <4>1, <4>3
    <3> HIDE DEF r
    <3>3. /\ Rising(r)
          /\ \A i \in 1..rd[c], k \in 1..Len(r) : P!Before(data[c][i], r[k])
      BY <3>1, NextRises DEF Ways
    <3>4. ASSUME NEW i \in 1..Len(got[a]), NEW h \in 1..Len(r)
          PROVE  P!Before(got[a][i], r[h])
      <4> DEFINE n == got[a][i].from
      <4>1. n \in Session /\ n <= m
        BY <1>2, <3>1 DEF Session
      <4>2. PICK k \in 1..rd[<<n, "down">>] : got[a][i] = data[<<n, "down">>][k]
        BY <1>1
      <4> HIDE DEF n
      <4>3. CASE n = m
        BY <3>3, <4>2, <4>3
      <4>4. CASE n # m
        <5>1. n \in 1..(m - 1)
          BY <3>1, <4>1, <4>4 DEF Session
        <5>2. AllBefore(data[<<n, "down">>], data[c]) \/ Line("down")[n] # Line("down")[m]
          BY <3>1, <5>1 DEF InOrder, Precedes, Carried, Ways
        <5>3. AllBefore(data[<<n, "down">>], data[c])
          BY <3>1, <4>1, <5>2 DEF Line
        <5>4. k \in 1..Len(data[<<n, "down">>])
          <6>1. /\ rd[<<n, "down">>] <= Len(data[<<n, "down">>])
                /\ rd[<<n, "down">>] \in Nat /\ Len(data[<<n, "down">>]) \in Nat
            BY <1>0, <4>1 DEF IInv, Reading
          <6> QED
            BY <6>1
        <5>5. rd[c] + h \in 1..Len(data[c]) /\ r[h] = data[c][rd[c] + h]
          <6> DEFINE p == rd[c]
                     z == Len(data[c])
          <6>1. z \in Nat
            BY <1>0, <2>1
          <6>2. p \in Nat /\ p + j <= z /\ h \in 1..j /\ r[h] = data[c][p + h]
            BY <3>1
          <6> HIDE DEF p, z
          <6>3. p + h \in 1..z
            BY <6>1, <6>2
          <6> QED
            BY <6>2, <6>3 DEF p, z
        <5> QED
          BY <4>2, <5>3, <5>4, <5>5 DEF AllBefore
      <4> QED
        BY <4>3, <4>4
    <3>5. AllBefore(got[a], r)
      BY <3>4 DEF AllBefore
    <3>6. Rising(got'[a])
      BY <1>0, <1>1, <3>1, <3>3, <3>5, JoinRises
    <3>7. ASSUME NEW i \in 1..Len(got'[a])
          PROVE  \E k \in 1..rd'[<<got'[a][i].from, "down">>] :
                   got'[a][i] = data'[<<got'[a][i].from, "down">>][k]
      <4>1. \/ i \in 1..Len(got[a]) /\ got'[a][i] = got[a][i]
            \/ i - Len(got[a]) \in 1..Len(r) /\ got'[a][i] = r[i - Len(got[a])]
        BY <1>0, <3>1, Appended
      <4>2. CASE i \in 1..Len(got[a]) /\ got'[a][i] = got[a][i]
        BY <1>4, <4>2
      <4>3. CASE i - Len(got[a]) \in 1..Len(r) /\ got'[a][i] = r[i - Len(got[a])]
        <5> DEFINE k == rd[c] + (i - Len(got[a]))
        <5>1. got'[a][i].from = m
          BY <3>1, <3>2, <4>3
        <5>2. got'[a][i] = data'[c][k]
          BY <3>1, <4>3
        <5>3. k \in 1..rd'[c]
          <6> DEFINE p == rd[c]
                     x == i - Len(got[a])
          <6>1. rd'[c] = p + j /\ p \in Nat /\ x \in 1..j /\ k = p + x
            BY <3>1, <4>3
          <6> HIDE DEF p, x, k
          <6>2. k \in 1..(p + j)
            BY <6>1
          <6> QED
            BY <6>1, <6>2
        <5> QED
          BY <5>1, <5>2, <5>3
      <4> QED
        BY <4>1, <4>2, <4>3
    <3> QED
      BY <3>6, <3>7
  <2> QED
    BY <2>2, <2>3
<1> QED
  BY <1>5, <1>6, AppSteps

\* So what was shown stays a part of what was read.
LEMMA ShownWasReadStep ==
  ASSUME IInv, IInv', InOrder, ShownWasRead, [Next]_vars
  PROVE  ShownWasRead'
BY SeenStep, GotStep DEF ShownWasRead, Carried

-----------------------------------------------------------------------------
(* The promise.                                                            *)

\* What OrderInv says of what the ends have been shown, in the terms of Post.
Promise ==
  /\ \A n \in Session : \A i \in 1..Len(seen[n]) :
       /\ n \in DOMAIN owner /\ seen[n][i].from = owner[n]
       /\ seen[n][i].n \in 1..sent[owner[n]]
  /\ \A a \in App : P!SeenInOrder(a)
  /\ \A a \in App :
       /\ P!Ascending(got[a])
       /\ \A i \in 1..Len(got[a]) :
            /\ got[a][i].from \in DOMAIN owner /\ owner[got[a][i].from] = a
            /\ got[a][i].n \in 1..replies

\* What rises from each byte to the next ascends.
LEMMA RisesIsAscends ==
  ASSUME NEW s \in Seq(Byte), Rising(s)
  PROVE  P!Ascending(s)
<1>1. ASSUME NEW i \in DOMAIN s, NEW j \in DOMAIN s, i < j
      PROVE  P!Before(s[i], s[j])
  <2>1. j \in 1..Len(s) /\ i \in 1..(j - 1)
    BY <1>1
  <2> QED
    BY <2>1 DEF Rising
<1> QED
  BY <1>1 DEF P!Ascending

\* What the service was shown of a session is on its stream.
LEMMA SeenIsCarried ==
  ASSUME IInv, ShownWasRead, NEW n \in Session, NEW i \in 1..Len(seen[n])
  PROVE  \E k \in 1..Len(data[<<n, "up">>]) : seen[n][i] = data[<<n, "up">>][k]
<1>1. PICK k \in 1..rd[<<n, "up">>] : seen[n][i] = data[<<n, "up">>][k]
  BY DEF ShownWasRead, Carried
<1>2. <<n, "up">> \in Stream
  BY DEF Stream
<1>3. rd[<<n, "up">>] \in Nat /\ Len(data[<<n, "up">>]) \in Nat
      /\ rd[<<n, "up">>] <= Len(data[<<n, "up">>])
  BY <1>2 DEF IInv, TypeOK, Reading
<1> QED
  BY <1>1, <1>3

\* The invariant keeps the promise.
LEMMA OrderPromises == OrderInv => Promise
<1> SUFFICES ASSUME IInv, InOrder, ShownWasRead
             PROVE  Promise
  BY DEF OrderInv
<1>0. /\ owner \in Seq(App) /\ DOMAIN owner = 1..Len(owner) /\ Len(owner) \in Nat
      /\ seen \in [Session -> Seq(Byte)] /\ got \in [App -> Seq(Byte)]
      /\ \A n \in 1..Len(owner) : n \in Session
      /\ data \in [Stream -> Seq(Byte)]
      /\ \A n \in Session : <<n, "up">> \in Stream /\ <<n, "down">> \in Stream
  <2>1. Len(owner) = turn["client"] /\ turn["client"] \in 0..MaxSessions
    BY Tasks DEF IInv, TypeOK, Serial
  <2> QED
    BY <2>1, Bounds DEF IInv, TypeOK, Session, Stream
<1>1. ASSUME NEW n \in Session, NEW i \in 1..Len(seen[n])
      PROVE  /\ n \in DOMAIN owner /\ seen[n][i].from = owner[n]
             /\ seen[n][i].n \in 1..sent[owner[n]]
  <2>1. seen[n] \in Seq(Byte) /\ seen[n] # <<>>
    <3>1. seen[n] \in Seq(Byte)
      BY <1>0
    <3> QED
      BY <3>1
  <2>2. n <= Len(owner) /\ seen[n][i].from = owner[n]
    BY <2>1 DEF IInv, Routed, AtEnds, AllFrom
  <2>3. n \in DOMAIN owner
    BY <1>0, <2>2 DEF Session
  <2>4. PICK k \in 1..Len(data[<<n, "up">>]) : seen[n][i] = data[<<n, "up">>][k]
    BY SeenIsCarried
  <2>5. data[<<n, "up">>][k].n \in 1..sent[owner[n]]
    BY DEF InOrder, Sound, Fit, Carried, Count, Line, Ways
  <2> QED
    BY <2>2, <2>3, <2>4, <2>5
<1>2. ASSUME NEW a \in App
      PROVE  P!SeenInOrder(a)
  <2>1. ASSUME NEW n \in DOMAIN owner, owner[n] = a
        PROVE  P!Ascending(seen[n])
    <3>1. n \in Session /\ seen[n] \in Seq(Byte) /\ Rising(seen[n])
      BY <1>0 DEF ShownWasRead
    <3> QED
      BY <3>1, RisesIsAscends
  <2>2. ASSUME NEW n \in DOMAIN owner, owner[n] = a,
               NEW m \in 1..(n - 1), owner[m] = a,
               NEW i \in DOMAIN seen[m], NEW j \in DOMAIN seen[n]
        PROVE  P!Before(seen[m][i], seen[n][j])
    <3>1. n \in Session /\ m \in Session
      <4>1. n \in 1..Len(owner) /\ m \in 1..Len(owner)
        BY <1>0
      <4> QED
        BY <1>0, <4>1
    <3>2. i \in 1..Len(seen[m]) /\ j \in 1..Len(seen[n])
      <4>1. seen[m] \in Seq(Byte) /\ seen[n] \in Seq(Byte)
        BY <1>0, <3>1
      <4> QED
        BY <4>1
    <3>3. PICK k \in 1..Len(data[<<m, "up">>]) : seen[m][i] = data[<<m, "up">>][k]
      BY <3>1, <3>2, SeenIsCarried
    <3>4. PICK h \in 1..Len(data[<<n, "up">>]) : seen[n][j] = data[<<n, "up">>][h]
      BY <3>1, <3>2, SeenIsCarried
    <3>5. AllBefore(data[<<m, "up">>], data[<<n, "up">>]) \/ owner[m] # owner[n]
      BY <3>1 DEF InOrder, Precedes, Carried, Line, Ways
    <3> QED
      BY <2>2, <3>3, <3>4, <3>5 DEF AllBefore
  <2> QED
    BY <2>1, <2>2 DEF P!SeenInOrder
<1>3. ASSUME NEW a \in App
      PROVE  P!Ascending(got[a])
  BY <1>0, RisesIsAscends DEF ShownWasRead
<1>4. ASSUME NEW a \in App, NEW i \in 1..Len(got[a])
      PROVE  /\ got[a][i].from \in DOMAIN owner /\ owner[got[a][i].from] = a
             /\ got[a][i].n \in 1..replies
  <2> DEFINE n == got[a][i].from
  <2>1. n \in 1..Len(owner) /\ owner[n] = a
    BY DEF IInv, Routed, AtEnds
  <2>2. n \in Session
    BY <1>0, <2>1
  <2>3. PICK k \in 1..rd[<<n, "down">>] : got[a][i] = data[<<n, "down">>][k]
    BY DEF ShownWasRead, Carried
  <2> HIDE DEF n
  <2>4. k \in 1..Len(data[<<n, "down">>])
    <3>1. /\ rd[<<n, "down">>] <= Len(data[<<n, "down">>])
          /\ rd[<<n, "down">>] \in Nat /\ Len(data[<<n, "down">>]) \in Nat
      <4>1. rd \in [Stream -> Nat] /\ \A c \in Stream : rd[c] <= Len(data[c])
        BY DEF IInv, Reading, TypeOK
      <4>2. <<n, "down">> \in Stream
        BY <1>0, <2>2
      <4> QED
        BY <1>0, <4>1, <4>2
    <3> QED
      BY <3>1
  <2>5. data[<<n, "down">>][k].n \in 1..replies
    BY <2>2, <2>4 DEF InOrder, Sound, Fit, Carried, Count, Line, Ways
  <2> QED
    BY <1>0, <2>1, <2>3, <2>5 DEF n
<1> QED
  BY <1>1, <1>2, <1>3, <1>4 DEF Promise

-----------------------------------------------------------------------------
(* The theorems.                                                           *)

\* In the beginning nothing waits, is carried, or was shown.
LEMMA OrderInit == Init => OrderInv
<1> SUFFICES ASSUME Init PROVE OrderInv
  OBVIOUS
<1>1. IInv
  BY IInvInit
<1>2. Queued
  BY DEF Init, Queued, Queue
<1>3. InOrder
  <2>1. /\ \A w \in Ways : held[Taker(w)] = <<>>
        /\ \A w \in Ways, n \in Session : Carried(w, n) = <<>>
    BY Writing DEF Init, Carried, Stream, Ways
  <2> QED
    BY <2>1, NoBytes DEF InOrder, Sound, Precedes
<1>4. ShownWasRead
  BY DEF Init, ShownWasRead, Rising
<1> QED
  BY <1>1, <1>2, <1>3, <1>4 DEF OrderInv

\* The bytes are in order wherever they are: at the sockets, in the hands of
\* the writers, on the streams and at the ends.
THEOREM Ordered == Spec => []OrderInv
<1>1. ASSUME OrderInv, IInv', [Next]_vars
      PROVE  OrderInv'
  BY <1>1, QueuedStep, InOrderStep, ShownWasReadStep DEF OrderInv
<1> QED
  BY <1>1, OrderInit, Invariance, PTL DEF Spec

\* What is shown next extends what was shown.
LEMMA Longer ==
  ASSUME NEW s \in Seq(Byte), NEW r \in Seq(Byte), r # <<>>
  PROVE  P!IsStrictPrefix(s, s \o r)
<1>1. /\ s \o r \in Seq(Byte) /\ Len(s) \in Nat /\ Len(r) \in Nat
      /\ Len(s \o r) = Len(s) + Len(r)
      /\ \A i \in 1..Len(s) : (s \o r)[i] = s[i]
  BY Appended
<1>2. Len(r) > 0
  BY <1>1
<1> DEFINE x == s \o r
<1>3. Len(s) < Len(x) /\ x \in Seq(Byte)
  BY <1>1, <1>2
<1>4. SubSeq(s, 1, Len(s)) = SubSeq(x, 1, Len(s))
  BY <1>1
<1> QED
  BY <1>1, <1>3, <1>4 DEF P!IsStrictPrefix, P!IsPrefix

\* Who changes what Post speaks of.
LEMMA PostSteps ==
  ASSUME IInv, [Next]_vars
  PROVE  \/ \E a \in App : AppSends(a)
         \/ ServiceReplies \/ ListenerOpens
         \/ HostDelivers \/ ClientDelivers
         \/ UNCHANGED <<sent, replies, owner, seen, got>>
<1> USE DEF ends, loops
<1>1. ASSUME NEW t \in Task, TaskStep(t)
      PROVE  UNCHANGED <<sent, replies, owner, seen, got>>
  BY <1>1 DEF TaskStep, LoopTop, StopArm, SleepArm, EofArm, ReadFails, WriteOut,
              WritePanics, Abort
<1>2. CASE ClientTakes \/ ClientSkips \/ HostTakes \/ HostSendPanics
  BY <1>2 DEF ClientTakes, ClientSkips, HostTakes, HostSendPanics, Abort
<1>3. CASE ListenerFails \/ ListenerStops \/ HostAccepts \/ HostAcceptFails
  BY <1>3 DEF ListenerFails, ListenerStops, HostAccepts, HostAcceptFails
<1>4. ASSUME NEW s \in Side, JoinReturns(s) \/ SendStop(s)
      PROVE  UNCHANGED <<sent, replies, owner, seen, got>>
  BY <1>4 DEF JoinReturns, SendStop
<1>5. CASE LoseLink \/ Tick \/ ServiceChanges
  BY <1>5 DEF LoseLink, Tick, ServiceChanges
<1>6. CASE UNCHANGED vars
  BY <1>6 DEF vars
<1> QED
  BY <1>1, <1>2, <1>3, <1>4, <1>5, <1>6, Steps

\* A datagram the service is sent shows it the next bytes of the session.
LEMMA HostShows ==
  ASSUME IInv, IInv', Promise', HostDelivers, seen' # seen
  PROVE  \E n \in DOMAIN owner : P!ShowService(n)
<1>1. PICK j \in Nat \ {0} :
        LET m == turn["host"]
            r == Chunk("host_tunnel_to_udp", j)
        IN /\ m \in Session /\ r \in Seq(Byte) /\ Len(r) = j
           /\ \/ seen' = [seen EXCEPT ![m] = seen[m] \o r]
              \/ seen' = seen
           /\ owner' = owner
  BY HostHands DEF IInv
<1>0. PICK n \in Session : n = turn["host"]
  BY <1>1
<1> DEFINE r == Chunk("host_tunnel_to_udp", j)
<1>2. UNCHANGED <<sent, replies, owner, got>>
  BY <1>1 DEF HostDelivers
<1>3. /\ n \in Session /\ r \in Seq(Byte) /\ r # <<>>
      /\ seen' = [seen EXCEPT ![n] = seen[n] \o r]
      /\ seen \in [Session -> Seq(Byte)] /\ seen[n] \in Seq(Byte)
  BY <1>0, <1>1 DEF IInv, TypeOK
<1>4. n \in DOMAIN owner
  <2>1. turn["host"] <= turn["client"] /\ turn["client"] = Len(owner) /\ owner \in Seq(App)
    BY DEF IInv, TypeOK, Serial
  <2> QED
    BY <1>0, <1>3, <2>1 DEF Session
<1> HIDE DEF r
<1>5. P!IsStrictPrefix(seen[n], seen'[n])
  BY <1>3, Longer
<1>6. P!OnlyAt(seen, seen', n)
  BY <1>3 DEF P!OnlyAt
<1>7. \A x \in P!ToSet(seen'[n]) : x.from = owner[n] /\ x.n \in 1..sent[owner[n]]
  <2>1. seen'[n] \in Seq(Byte)
    BY <1>3 DEF IInv, TypeOK
  <2>2. \A i \in 1..Len(seen'[n]) :
          seen'[n][i].from = owner[n] /\ seen'[n][i].n \in 1..sent[owner[n]]
    BY <1>2, <1>3 DEF Promise
  <2> QED
    BY <2>1, <2>2 DEF P!ToSet
<1>8. PICK a \in App : a = owner[n] /\ a = owner'[n]
  BY <1>2, <1>4 DEF IInv, TypeOK
<1>9. P!SeenInOrder(a)'
  BY DEF Promise
<1>10. P!SeenInOrder(owner[n])'
  BY <1>8, <1>9 DEF P!SeenInOrder
<1> QED
  BY <1>2, <1>4, <1>5, <1>6, <1>7, <1>10 DEF P!ShowService

\* A datagram an application is sent shows it the next bytes of its session.
LEMMA ClientShows ==
  ASSUME IInv, IInv', Promise', ClientDelivers
  PROVE  \E a \in App : P!ShowApp(a)
<1>1. PICK j \in Nat \ {0} :
        LET a == owner[turn["client"]]
            r == Chunk("client_tunnel_to_udp", j)
        IN /\ a \in App /\ r \in Seq(Byte) /\ Len(r) = j
           /\ got' = [got EXCEPT ![a] = got[a] \o r]
           /\ owner' = owner /\ sent' = sent /\ replies' = replies /\ seen' = seen
  BY ClientHands DEF IInv
<1> DEFINE a == owner[turn["client"]]
           r == Chunk("client_tunnel_to_udp", j)
<1>2. /\ a \in App /\ r \in Seq(Byte) /\ r # <<>>
      /\ got' = [got EXCEPT ![a] = got[a] \o r]
      /\ got \in [App -> Seq(Byte)] /\ got[a] \in Seq(Byte)
      /\ UNCHANGED <<sent, replies, owner, seen>>
  BY <1>1 DEF IInv, TypeOK
<1> HIDE DEF a, r
<1>3. P!IsStrictPrefix(got[a], got'[a])
  BY <1>2, Longer
<1>4. P!OnlyAt(got, got', a)
  BY <1>2 DEF P!OnlyAt
<1>5. \A x \in P!ToSet(got'[a]) :
        x.from \in DOMAIN owner /\ owner[x.from] = a /\ x.n \in 1..replies
  <2>1. got'[a] \in Seq(Byte)
    BY <1>2 DEF IInv, TypeOK
  <2>2. \A i \in 1..Len(got'[a]) :
          /\ got'[a][i].from \in DOMAIN owner /\ owner[got'[a][i].from] = a
          /\ got'[a][i].n \in 1..replies
    BY <1>2 DEF Promise
  <2> QED
    BY <2>1, <2>2 DEF P!ToSet
<1>6. P!Ascending(got'[a])
  BY <1>2 DEF Promise
<1> QED
  BY <1>2, <1>3, <1>4, <1>5, <1>6 DEF P!ShowApp

\* The relay implements Post: every step shows an end the next bytes of those
\* it was sent, changes one of the counts, or is of no concern to the ends.
THEOREM KeepsThePost == Spec => ImplementsPost
<1>1. Init => P!Init
  BY DEF Init, P!Init
<1>2. ASSUME IInv, IInv', Promise', [Next]_vars
      PROVE  [P!Next]_P!vars
  <2> USE <1>2 DEF P!Next
  <2>1. ASSUME NEW a \in App, AppSends(a)
        PROVE  P!Send(a)
    BY <2>1 DEF AppSends, loops, P!Send
  <2>2. ServiceReplies => P!Reply
    BY DEF ServiceReplies, loops, P!Reply
  <2>3. CASE ListenerOpens
    <3>1. Head(sock).from \in App
      <4>1. sock \in Seq(Datagram) /\ sock # <<>>
        BY <2>3 DEF ListenerOpens, IInv, TypeOK
      <4> QED
        BY <4>1, HeadLeaves DEF IInv, Routed, AtSockets
    <3>2. P!Open(Head(sock).from)
      BY <2>3 DEF ListenerOpens, ends, P!Open
    <3> QED
      BY <3>1, <3>2
  <2>4. CASE HostDelivers
    <3>1. CASE seen' # seen
      BY <2>4, <3>1, HostShows
    <3>2. CASE seen' = seen
      BY <2>4, <3>2 DEF HostDelivers, loops, P!vars
    <3> QED
      BY <3>1, <3>2
  <2>5. CASE ClientDelivers
    BY <2>5, ClientShows
  <2>6. CASE UNCHANGED <<sent, replies, owner, seen, got>>
    BY <2>6 DEF P!vars
  <2> QED
    BY <2>1, <2>2, <2>3, <2>4, <2>5, <2>6, PostSteps
<1> QED
  BY <1>1, <1>2, Invariance, Ordered, OrderPromises, PTL
     DEF Spec, ImplementsPost, P!Spec
=============================================================================
