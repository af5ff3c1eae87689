----------------------------- MODULE PipeProofs -----------------------------
(***************************************************************************)
(* Proof that the relay of TcpRelay implements a pair of pipes, one in     *)
(* each direction, for any timeout, buffer, window, number of bytes and    *)
(* any set of hazards: every step of the four tasks, the parents, the      *)
(* connection and the two ends is a step of each pipe or leaves it alone.  *)
(***************************************************************************)
EXTENDS TcpRelayProofs

-----------------------------------------------------------------------------
(* The sockets of the ends.                                                *)

\* Which task of a direction writes to which end: the far task of each way
\* reads the hop the near one fills, and their outer halves are sockets.
LEMMA Ways ==
  /\ Src["client_tcp_to_tunnel"] = "from_app"
  /\ Dst["client_tcp_to_tunnel"] = Src["host_tunnel_to_tcp"]
  /\ Dst["host_tunnel_to_tcp"] = "to_service"
  /\ Src["host_tcp_to_tunnel"] = "from_service"
  /\ Dst["host_tcp_to_tunnel"] = Src["client_tunnel_to_tcp"]
  /\ Dst["client_tunnel_to_tcp"] = "to_app"
  /\ "from_app" \notin Tunnel /\ "from_service" \notin Tunnel
  /\ {"client_tcp_to_tunnel", "host_tunnel_to_tcp",
      "host_tcp_to_tunnel", "client_tunnel_to_tcp"} = Task
BY DEF Src, Dst, Tunnel, Task

\* A panic that aborts the process ends every task of its side: the process
\* only runs tasks that were spawned.
LEMMA AbortEndsSide ==
  ASSUME TypeOK, Spawned, NEW t \in Task, pc[t] \in Active, Abort(t)
  PROVE  \A u \in Task : IF Place[u] = Place[t] THEN pc'[u] \in Ended ELSE pc'[u] = pc[u]
<1> SUFFICES ASSUME NEW u \in Task
             PROVE  IF Place[u] = Place[t] THEN pc'[u] \in Ended ELSE pc'[u] = pc[u]
  OBVIOUS
<1>1. pc' = [w \in Task |-> IF w = t THEN "panicked"
                            ELSE IF Place[w] = Place[t] /\ pc[w] \in Active
                            THEN "killed" ELSE pc[w]]
  BY DEF Abort
<1>2. pc[u] \in Active \cup Ended \cup {"unborn"}
  BY DEF TypeOK
<1>3. Place[u] = Place[t] => pc[u] # "unborn"
  <2>1. pc[t] # "unborn"
    BY DEF Active, Waiting
  <2> QED
    BY <2>1 DEF Spawned, TasksOf
<1> QED
  BY <1>1, <1>2, <1>3 DEF Ended

\* A socket is closed with the task that writes to it, and only then (the
\* write halves dropped at the end of the tasks of net/tcp.rs).
LEMMA ClosedWithTaskStep ==
  ASSUME TypeOK, Spawned, ClosedWithTask, [Next]_vars
  PROVE  ClosedWithTask'
<1> USE DEF hops, tasks, sides, TypeOK
<1> SUFFICES ASSUME NEW u \in Task, Dst[u] \notin Tunnel
             PROVE  fin'[Dst[u]] <=> pc'[u] \in Ended
  BY DEF ClosedWithTask
<1>0. /\ Dst[u] \in Hop /\ \A e \in End : SendsOn[e] # Dst[u]
      /\ fin[Dst[u]] <=> pc[u] \in Ended
      /\ Dst[u] \notin {"up", "down"}
  BY Halves DEF ClosedWithTask, Tunnel
<1>1. ASSUME NEW t \in Task, TaskStep(t)
      PROVE  fin'[Dst[u]] <=> pc'[u] \in Ended
  <2>0. pc[t] \in Active /\ pc[t] \notin Ended
    BY <1>1, TaskOutcomes DEF Active, Waiting, Ended
  <2>1. ASSUME NEW where \in Active, pc' = [pc EXCEPT ![t] = where], UNCHANGED fin
        PROVE  fin'[Dst[u]] <=> pc'[u] \in Ended
    <3>1. where \notin Ended
      BY DEF Active, Waiting, Ended
    <3> QED
      BY <1>0, <2>0, <2>1, <3>1
  <2>2. ASSUME NEW why \in Ended, Break(t, why)
        PROVE  fin'[Dst[u]] <=> pc'[u] \in Ended
    <3>1. CASE u = t
      BY <1>0, <2>2, <3>1 DEF Break, Carries
    <3>2. CASE u # t
      <4>1. Dst[u] # Dst[t]
        BY <3>2, Halves
      <4> QED
        BY <1>0, <2>2, <3>2, <4>1 DEF Break
    <3> QED
      BY <3>1, <3>2
  <2>3. CASE Abort(t)
    <3>1. fin' = [h \in Hop |-> fin[h] \/ h \in {Dst[w] : w \in TasksOf(Place[t])} \ Tunnel]
      BY <2>3 DEF Abort
    <3>2. CASE Place[u] = Place[t]
      <4>1. Dst[u] \in {Dst[w] : w \in TasksOf(Place[t])} \ Tunnel
        BY <3>2 DEF TasksOf
      <4>2. pc'[u] \in Ended
        BY <2>0, <2>3, <3>2, AbortEndsSide
      <4> QED
        BY <1>0, <3>1, <4>1, <4>2
    <3>3. CASE Place[u] # Place[t]
      <4>1. Dst[u] \notin {Dst[w] : w \in TasksOf(Place[t])}
        BY <3>3, Halves DEF TasksOf
      <4>2. pc'[u] = pc[u]
        BY <2>0, <2>3, <3>3, AbortEndsSide
      <4> QED
        BY <1>0, <3>1, <4>1, <4>2
    <3> QED
      BY <3>2, <3>3
  <2> QED
    BY <1>1, <2>1, <2>2, <2>3, TaskOutcomes
<1>2. CASE HostAccepts
  <2>1. Place[u] = "host" => pc[u] = "unborn"
    BY <1>2 DEF HostAccepts, Spawned, TasksOf
  <2>2. "unborn" \notin Ended /\ "top" \notin Ended
    BY DEF Ended
  <2> QED
    BY <1>0, <1>2, <2>1, <2>2 DEF HostAccepts
<1>3. CASE HostRefuses
  BY <1>0, <1>3 DEF HostRefuses
<1>4. CASE HostAcceptFails \/ Tick \/ UNCHANGED vars
  BY <1>0, <1>4 DEF HostAcceptFails, Tick, vars
<1>5. ASSUME NEW s \in Side, JoinReturns(s) \/ SendStop(s)
      PROVE  fin'[Dst[u]] <=> pc'[u] \in Ended
  BY <1>0, <1>5 DEF JoinReturns, SendStop
<1>6. CASE LoseLink
  BY <1>0, <1>6 DEF LoseLink
<1>7. ASSUME NEW e \in End, Send(e) \/ Receive(e) \/ Shut(e) \/ Vanish(e)
      PROVE  fin'[Dst[u]] <=> pc'[u] \in Ended
  BY <1>0, <1>7 DEF Send, Receive, Shut, Vanish
<1> QED
  BY <1>1, <1>2, <1>3, <1>4, <1>5, <1>6, <1>7, Steps

-----------------------------------------------------------------------------
(* One way of the relay, fed by the task t and emptied by the task u.      *)

Opposite(t, u) ==
  /\ t \in Task /\ u \in Task /\ t # u
  /\ Dst[t] = Src[u] /\ Src[t] \notin Tunnel /\ Dst[u] \notin Tunnel

\* What a step may do to a way: the actions of Pipe, in the relay's terms.
SameEnds(t, u) == data'[Src[t]] = data[Src[t]] /\ data'[Dst[u]] = data[Dst[u]]
SameCloses(t, u) == fin'[Src[t]] = fin[Src[t]] /\ fin'[Dst[u]] = fin[Dst[u]]
SameCut(t, u) == CutOff(t, u)' <=> CutOff(t, u)

WaySends(t, u) ==
  /\ ~fin[Src[t]]
  /\ data'[Src[t]] = Append(data[Src[t]], Len(data[Src[t]]) + 1)
  /\ data'[Dst[u]] = data[Dst[u]]
  /\ SameCloses(t, u) /\ SameCut(t, u)

WayCloses(t, u) ==
  /\ fin'[Src[t]] /\ fin'[Dst[u]] = fin[Dst[u]]
  /\ SameEnds(t, u) /\ SameCut(t, u)

WayDelivers(t, u) ==
  /\ ~fin[Dst[u]]
  /\ Len(data[Dst[u]]) < Len(data[Src[t]])
  /\ data'[Dst[u]] = Append(data[Dst[u]], data[Src[t]][Len(data[Dst[u]]) + 1])
  /\ data'[Src[t]] = data[Src[t]]
  /\ SameCloses(t, u) /\ SameCut(t, u)

WayIsCut(t, u) ==
  /\ CutOff(t, u)'
  /\ fin'[Dst[u]] = fin[Dst[u]] \/ fin'[Dst[u]] = TRUE
  /\ fin'[Src[t]] = fin[Src[t]]
  /\ SameEnds(t, u)

WayFinishes(t, u) ==
  /\ fin[Src[t]] /\ data[Dst[u]] = data[Src[t]]
  /\ fin'[Dst[u]] /\ fin'[Src[t]] = fin[Src[t]]
  /\ SameEnds(t, u) /\ SameCut(t, u)

WayStays(t, u) == SameEnds(t, u) /\ SameCloses(t, u) /\ SameCut(t, u)

WayStep(t, u) ==
  \/ WaySends(t, u) \/ WayCloses(t, u) \/ WayDelivers(t, u)
  \/ WayIsCut(t, u) \/ WayFinishes(t, u) \/ WayStays(t, u)

\* What the proofs need of the hops of a way.
LEMMA WayHops ==
  ASSUME NEW t, NEW u, Opposite(t, u)
  PROVE  /\ Src[t] \in Hop /\ Dst[t] \in Hop /\ Src[u] \in Hop /\ Dst[u] \in Hop
         /\ Dst[t] \in Tunnel /\ Dst[t] \in {"up", "down"}
         /\ Src[t] \in {"from_app", "from_service"}
         /\ Dst[u] \in {"to_app", "to_service"}
         /\ Src[t] \notin {"up", "down"} /\ Dst[u] \notin {"up", "down"}
         /\ Src[t] # Dst[u]
<1>0. t \in Task /\ u \in Task
  BY DEF Opposite
<1>1. /\ Src[t] \in Hop /\ Dst[t] \in Hop /\ Src[u] \in Hop /\ Dst[u] \in Hop
      /\ Src[t] \notin {"to_service", "to_app"}
      /\ Dst[u] \notin {"from_service", "from_app"}
      /\ Dst[t] \in Tunnel
  BY <1>0, Halves DEF Opposite
<1> QED
  BY <1>1 DEF Opposite, Hop, Tunnel

\* A task that goes on, or ends because its source did, does not cut the way
\* it serves.
LEMMA SameTasksSameCut ==
  ASSUME NEW t \in Task, NEW u \in Task,
         GaveUp(t)' <=> GaveUp(t), GaveUp(u)' <=> GaveUp(u), UNCHANGED link,
         (session'["host"] = "failed") <=> (session["host"] = "failed")
  PROVE  SameCut(t, u)
BY DEF SameCut, CutOff

\* A way that was cut stays cut: a task that gave up does not come back, nor
\* do a lost connection and a service that was not reached.
LEMMA CutStays ==
  ASSUME TypeOK, Spawned, [Next]_vars, NEW t \in Task, NEW u \in Task, CutOff(t, u)
  PROVE  CutOff(t, u)'
<1>1. ASSUME NEW w \in Task, GaveUp(w)
      PROVE  GaveUp(w)'
  <2>1. pc[w] \in Ended
    BY <1>1 DEF GaveUp, Ended
  <2>2. pc'[w] = pc[w]
    BY <2>1, EndedStays
  <2> QED
    BY <1>1, <2>2 DEF GaveUp
<1>2. (~link => ~link') /\ (session["host"] = "failed" => session'["host"] = "failed")
  BY LossStays, SessionStays
<1> QED
  BY <1>1, <1>2 DEF CutOff

\* A byte written to the far socket is the next byte the near end sent.
LEMMA NextByte ==
  ASSUME IInv, NEW t, NEW u, Opposite(t, u), pc[u] = "write"
  PROVE  /\ Len(data[Dst[u]]) < Len(data[Src[t]])
         /\ held[u] \in Seq(Nat) /\ held[u] # <<>>
         /\ Head(held[u]) = data[Src[t]][Len(data[Dst[u]]) + 1]
<1>0. /\ TypeOK /\ Counting /\ Accounted /\ HeldWhileWriting
      /\ t \in Task /\ u \in Task /\ Dst[t] = Src[u]
      /\ Carries(Dst[u])
  BY DEF IInv, Opposite, Carries
<1>1. /\ Src[t] \in Hop /\ Dst[t] \in Hop /\ Dst[u] \in Hop
  BY WayHops
<1> DEFINE a == data[Src[t]]
           m == data[Dst[t]]
           b == data[Dst[u]]
           q == held[u]
           i == rd[Src[t]]
           j == rd[Src[u]]
<1>2. /\ a \in Seq(Nat) /\ m \in Seq(Nat) /\ b \in Seq(Nat) /\ q \in Seq(Nat)
      /\ held[t] \in Seq(Nat) /\ i \in Nat /\ j \in Nat
  BY <1>0, <1>1 DEF TypeOK
<1>3. /\ i <= Len(a) /\ j <= Len(m) /\ Counts(a)
  BY <1>0, <1>1 DEF Counting
<1>4. /\ j = Len(b) + Len(q)
      /\ \A k \in 1..Len(q) : q[k] = Len(b) + k
  BY <1>0 DEF Accounted
<1>5. i = Len(m) + Len(held[t]) \/ Len(m) <= i
  BY <1>0 DEF Accounted
<1>6. q # <<>>
  BY <1>0 DEF HeldWhileWriting
<1> HIDE DEF a, m, b, q, i, j
<1>10. Len(m) <= i
  BY <1>2, <1>5, Balance
<1>7. /\ Len(q) \in Nat /\ Len(q) > 0 /\ Head(q) = q[1] /\ 1 \in 1..Len(q)
  BY <1>2, <1>6
<1>8. Head(q) = Len(b) + 1 /\ Len(b) < Len(a)
  BY <1>2, <1>3, <1>4, <1>10, <1>7
<1>9. a[Len(b) + 1] = Len(b) + 1
  BY <1>2, <1>3, <1>8 DEF Counts
<1> QED
  BY <1>2, <1>6, <1>8, <1>9 DEF a, b, q

\* Two counting sequences of one length are one sequence.
LEMMA SameCount ==
  ASSUME NEW a \in Seq(Nat), NEW b \in Seq(Nat), Counts(a), Counts(b), Len(a) = Len(b)
  PROVE  a = b
BY DEF Counts

\* When the far task sees the end of the tunnel stream and nobody gave up,
\* the near end has closed and all its bytes are at the far socket: the close
\* came from the near task, which had seen the end of its own source.
LEMMA EofMeansAll ==
  ASSUME IInv, NEW t, NEW u, Opposite(t, u), pc[u] = "select", AtEof(Src[u]), ~CutOff(t, u)
  PROVE  fin[Src[t]] /\ data[Dst[u]] = data[Src[t]]
<1>0. /\ TypeOK /\ Counting /\ Accounted /\ HeldWhileWriting /\ CloseFollows
      /\ ClosedByEnding /\ EofIsFinal
      /\ t \in Task /\ u \in Task /\ Dst[t] = Src[u] /\ Dst[t] \in Tunnel
      /\ Carries(Dst[u])
  BY WayHops DEF IInv, Opposite, Carries
<1>1. /\ Src[t] \in Hop /\ Dst[t] \in Hop /\ Dst[u] \in Hop
  BY WayHops
<1>2. pc[t] = "eof"
  <2>1. pc[t] \in Ended
    BY <1>0 DEF ClosedByEnding, AtEof, CutOff
  <2> QED
    BY <2>1 DEF Ended, CutOff, GaveUp
<1>3. fin[Src[t]]
  BY <1>0, <1>2 DEF EofIsFinal, Opposite
<1> DEFINE a == data[Src[t]]
           m == data[Dst[t]]
           b == data[Dst[u]]
<1>4. a \in Seq(Nat) /\ m \in Seq(Nat) /\ b \in Seq(Nat) /\ Counts(a) /\ Counts(b)
  BY <1>0, <1>1 DEF TypeOK, Counting
<1>5. Len(m) = Len(a)
  BY <1>0, <1>2 DEF CloseFollows, AtEof
<1>6. held[u] = <<>> /\ rd[Src[u]] = Len(m)
  BY <1>0 DEF HeldWhileWriting, AtEof, Drained
<1>7. rd[Src[u]] = Len(b) + Len(held[u])
  BY <1>0 DEF Accounted
<1> HIDE DEF a, m, b
<1>8. Len(<<>>) = 0 /\ Len(b) \in Nat
  BY <1>4
<1>9. Len(b) = Len(a)
  BY <1>5, <1>6, <1>7, <1>8
<1>11. b = a
  BY <1>4, <1>9, SameCount
<1> QED
  BY <1>3, <1>11 DEF a, b

\* A break of a task other than the far one only shows in the way if the task
\* is the near one and gave up.
LEMMA NearBreak ==
  ASSUME IInv, [Next]_vars, NEW t, NEW u, Opposite(t, u), NEW w \in Task, w # u,
         TaskStep(w), NEW why \in Ended, Break(w, why),
         UNCHANGED <<data, link, session>>
  PROVE  WayStep(t, u)
<1>0. /\ TypeOK /\ t \in Task /\ u \in Task /\ Dst[t] \in Tunnel /\ t # u
      /\ Src[t] \in Hop /\ Dst[u] \in Hop /\ Dst[w] \in Hop
      /\ pc[w] \in Active
  BY WayHops, Halves, TaskOutcomes DEF IInv, Opposite
<1>1. Dst[w] # Src[t] /\ Dst[w] # Dst[u]
  BY <1>0, WayHops, Halves
<1>2. SameCloses(t, u) /\ SameEnds(t, u)
  BY <1>0, <1>1 DEF Break, SameCloses, SameEnds, TypeOK
<1>3. pc' = [pc EXCEPT ![w] = why]
  BY DEF Break
<1>4. CASE w = t /\ why # "eof"
  <2>1. CutOff(t, u)'
    BY <1>0, <1>3, <1>4 DEF CutOff, GaveUp, Ended, TypeOK
  <2> QED
    BY <1>2, <2>1 DEF WayStep, WayIsCut, SameCloses
<1>5. CASE w # t \/ why = "eof"
  <2>1. (GaveUp(t)' <=> GaveUp(t)) /\ (GaveUp(u)' <=> GaveUp(u))
    BY <1>0, <1>3, <1>5 DEF GaveUp, Active, Waiting, TypeOK
  <2>2. SameCut(t, u)
    BY <1>0, <2>1, SameTasksSameCut
  <2> QED
    BY <1>2, <2>2 DEF WayStep, WayStays
<1> QED
  BY <1>4, <1>5

\* A break of the far task shows the end of the stream to the end it serves:
\* after the last byte, unless the way is cut.
LEMMA FarBreak ==
  ASSUME IInv, [Next]_vars, NEW t, NEW u, Opposite(t, u),
         TaskStep(u), NEW why \in Ended, Break(u, why),
         UNCHANGED <<data, link, session>>
  PROVE  WayStep(t, u)
<1>0. /\ TypeOK /\ Spawned /\ t \in Task /\ u \in Task /\ t # u
      /\ Src[t] \in Hop /\ Dst[u] \in Hop /\ Src[t] # Dst[u] /\ Dst[u] \notin Tunnel
      /\ pc[u] \in Active
  BY WayHops, TaskOutcomes DEF IInv, Opposite
<1>1. SameEnds(t, u) /\ fin'[Src[t]] = fin[Src[t]] /\ fin'[Dst[u]] = TRUE
  BY <1>0 DEF Break, SameEnds, TypeOK, Carries
<1>2. pc' = [pc EXCEPT ![u] = why]
  BY DEF Break
<1>3. CASE why # "eof"
  <2>1. CutOff(t, u)'
    BY <1>0, <1>2, <1>3 DEF CutOff, GaveUp, Ended, TypeOK
  <2> QED
    BY <1>1, <2>1 DEF WayStep, WayIsCut
<1>4. CASE CutOff(t, u)
  <2>1. CutOff(t, u)'
    BY <1>0, <1>4, CutStays
  <2> QED
    BY <1>1, <2>1 DEF WayStep, WayIsCut
<1>5. CASE why = "eof" /\ ~CutOff(t, u)
  <2>1. pc'[u] = "eof" /\ pc[u] # "eof"
    BY <1>0, <1>2, <1>5 DEF TypeOK, Active, Waiting
  <2>2. EofArm(u)
    BY <1>0, <2>1, EofByArm
  <2>3. fin[Src[t]] /\ data[Dst[u]] = data[Src[t]]
    BY <1>5, <2>2, EofMeansAll DEF EofArm
  <2>4. (GaveUp(t)' <=> GaveUp(t)) /\ (GaveUp(u)' <=> GaveUp(u))
    BY <1>0, <1>2, <1>5 DEF GaveUp, Active, Waiting, TypeOK
  <2>5. SameCut(t, u)
    BY <1>0, <2>4, SameTasksSameCut
  <2> QED
    BY <1>1, <2>3, <2>5 DEF WayStep, WayFinishes
<1> QED
  BY <1>3, <1>4, <1>5

\* A panic that takes the process of one side cuts the way where it runs one
\* of its tasks, and closes no socket that was not closed already elsewhere.
LEMMA AbortedWay ==
  ASSUME IInv, ClosedWithTask, [Next]_vars, NEW t, NEW u, Opposite(t, u),
         NEW w \in Task, TaskStep(w), Abort(w), UNCHANGED <<data, link>>
  PROVE  WayStep(t, u)
<1>0. /\ TypeOK /\ Spawned /\ t \in Task /\ u \in Task /\ t # u
      /\ Src[t] \in Hop /\ Dst[u] \in Hop /\ Dst[u] \notin Tunnel
      /\ pc[w] \in Active
  BY WayHops, TaskOutcomes DEF IInv, Opposite
<1>1. fin' = [h \in Hop |-> fin[h] \/ h \in {Dst[v] : v \in TasksOf(Place[w])} \ Tunnel]
  BY DEF Abort
<1>2. fin'[Src[t]] = fin[Src[t]]
  <2>1. Src[t] \notin {Dst[v] : v \in TasksOf(Place[w])}
    BY WayHops, Halves DEF TasksOf
  <2> QED
    BY <1>0, <1>1, <2>1 DEF TypeOK
<1>3. SameEnds(t, u)
  BY DEF SameEnds
<1>4. pc' = [v \in Task |-> IF v = w THEN "panicked"
                            ELSE IF Place[v] = Place[w] /\ pc[v] \in Active
                            THEN "killed" ELSE pc[v]]
  BY DEF Abort
<1>5. fin'[Dst[u]] = fin[Dst[u]] \/ fin'[Dst[u]] = TRUE
  BY <1>0, <1>1 DEF TypeOK
<1>6. CASE \E v \in {t, u} : v = w \/ (Place[v] = Place[w] /\ pc[v] \in Active)
  <2>1. CutOff(t, u)'
    BY <1>0, <1>4, <1>6 DEF CutOff, GaveUp
  <2> QED
    BY <1>2, <1>3, <1>5, <2>1 DEF WayStep, WayIsCut
<1>7. CASE \A v \in {t, u} : v # w /\ ~(Place[v] = Place[w] /\ pc[v] \in Active)
  <2>1. pc'[t] = pc[t] /\ pc'[u] = pc[u]
    BY <1>0, <1>4, <1>7
  <2>2. (session'["host"] = "failed") <=> (session["host"] = "failed")
    <3>1. session' = [session EXCEPT ![Place[w]] = "aborted"] /\ Place[w] \in Side
      BY Halves DEF Abort
    <3>2. Place[w] = "host" => session["host"] # "failed"
      BY <1>0 DEF Spawned, TasksOf, Active, Waiting
    <3> QED
      BY <1>0, <3>1, <3>2 DEF TypeOK
  <2>3. SameCut(t, u)
    BY <1>0, <2>1, <2>2, SameTasksSameCut DEF GaveUp
  <2>4. fin'[Dst[u]] <=> fin[Dst[u]]
    <3>1. ClosedWithTask'
      BY <1>0, ClosedWithTaskStep
    <3> QED
      BY <1>0, <2>1, <3>1 DEF ClosedWithTask
  <2>5. fin'[Dst[u]] = fin[Dst[u]]
    BY <1>0, <1>1, <2>4 DEF TypeOK
  <2> QED
    BY <1>2, <1>3, <2>3, <2>5 DEF WayStep, WayStays, SameCloses
<1> QED
  BY <1>6, <1>7

\* A byte written to a hop is delivered if it is the socket of the way, and
\* does not show in the way otherwise.
LEMMA WrittenWay ==
  ASSUME IInv, ClosedWithTask, [Next]_vars, NEW t, NEW u, Opposite(t, u),
         NEW w \in Task, WriteByte(w)
  PROVE  WayStep(t, u)
<1> USE DEF hops, tasks, sides
<1>0. /\ TypeOK /\ t \in Task /\ u \in Task /\ t # u
      /\ Src[t] \in Hop /\ Dst[u] \in Hop /\ Dst[w] \in Hop /\ Src[t] # Dst[u]
      /\ Dst[u] \notin Tunnel
  BY WayHops, Halves DEF IInv, Opposite
<1>1. /\ pc[w] = "write"
      /\ pc' = [pc EXCEPT ![w] = IF Len(held[w]) = 1 THEN "top" ELSE "write"]
      /\ data' = [data EXCEPT ![Dst[w]] = Append(data[Dst[w]], Head(held[w]))]
      /\ UNCHANGED <<fin, link, session>>
  BY DEF WriteByte
<1>2. pc'[w] \in {"top", "write"} /\ \A v \in Task : v # w => pc'[v] = pc[v]
  BY <1>0, <1>1 DEF TypeOK
<1>3. (GaveUp(t)' <=> GaveUp(t)) /\ (GaveUp(u)' <=> GaveUp(u))
  BY <1>0, <1>1, <1>2 DEF GaveUp
<1>4. SameCut(t, u) /\ SameCloses(t, u)
  BY <1>0, <1>1, <1>3, SameTasksSameCut DEF SameCloses
<1>5. Dst[w] # Src[t]
  BY WayHops, Halves
<1>6. data'[Src[t]] = data[Src[t]]
  BY <1>0, <1>1, <1>5 DEF TypeOK
<1>7. CASE w = u
  <2>1. /\ Len(data[Dst[u]]) < Len(data[Src[t]])
        /\ Head(held[u]) = data[Src[t]][Len(data[Dst[u]]) + 1]
    BY <1>1, <1>7, NextByte
  <2>2. data'[Dst[u]] = Append(data[Dst[u]], data[Src[t]][Len(data[Dst[u]]) + 1])
    BY <1>0, <1>1, <1>7, <2>1 DEF TypeOK
  <2>3. ~fin[Dst[u]]
    BY <1>0, <1>1, <1>7 DEF ClosedWithTask, Ended
  <2> QED
    BY <1>4, <1>6, <2>1, <2>2, <2>3 DEF WayStep, WayDelivers
<1>8. CASE w # u
  <2>1. Dst[w] # Dst[u]
    BY <1>0, <1>8, Halves
  <2>2. data'[Dst[u]] = data[Dst[u]]
    BY <1>0, <1>1, <2>1 DEF TypeOK
  <2> QED
    BY <1>4, <1>6, <2>2 DEF WayStep, WayStays, SameEnds
<1> QED
  BY <1>7, <1>8

\* Every step of a task is a step of the way.
LEMMA TaskWay ==
  ASSUME IInv, ClosedWithTask, [Next]_vars, NEW t, NEW u, Opposite(t, u),
         NEW w \in Task, TaskStep(w)
  PROVE  WayStep(t, u)
<1> USE DEF hops, tasks, sides
<1>0. TypeOK /\ t \in Task /\ u \in Task
  BY DEF IInv, Opposite
<1>1. CASE WriteByte(w)
  BY <1>1, WrittenWay
<1>2. CASE UNCHANGED data
  <2>1. ASSUME NEW where \in Active, pc' = [pc EXCEPT ![w] = where],
               UNCHANGED <<fin, dropped, link, session>>
        PROVE  WayStep(t, u)
    <3>1. pc[w] \in Active
      BY <1>0, TaskOutcomes
    <3>2. (GaveUp(t)' <=> GaveUp(t)) /\ (GaveUp(u)' <=> GaveUp(u))
      BY <1>0, <2>1, <3>1 DEF GaveUp, Active, Waiting, TypeOK
    <3>3. SameCut(t, u)
      BY <1>0, <2>1, <3>2, SameTasksSameCut
    <3> QED
      BY <1>2, <2>1, <3>3 DEF WayStep, WayStays, SameEnds, SameCloses
  <2>2. ASSUME NEW why \in Ended \ {"killed"}, Break(w, why), UNCHANGED <<link, session>>
        PROVE  WayStep(t, u)
    <3>1. CASE w = u
      BY <1>2, <2>2, <3>1, FarBreak
    <3>2. CASE w # u
      BY <1>2, <2>2, <3>2, NearBreak
    <3> QED
      BY <3>1, <3>2
  <2>3. CASE Abort(w) /\ UNCHANGED link
    BY <1>2, <2>3, AbortedWay
  <2> QED
    BY <1>0, <2>1, <2>2, <2>3, TaskOutcomes
<1>3. WriteByte(w) \/ UNCHANGED data
  BY DEF TaskStep, LoopTop, StopArm, ReadArm, EofArm, ReadError, SleepArm, WritePanics
<1> QED
  BY <1>1, <1>2, <1>3

\* A step of an end is a step of the way it sends on, or none of this way.
LEMMA EndWay ==
  ASSUME IInv, [Next]_vars, NEW t, NEW u, Opposite(t, u), NEW e \in End,
         Send(e) \/ Receive(e) \/ Shut(e) \/ Vanish(e)
  PROVE  WayStep(t, u)
<1> USE DEF hops, tasks, sides
<1>0. /\ TypeOK /\ t \in Task /\ u \in Task
      /\ Src[t] \in Hop /\ Dst[u] \in Hop /\ Src[t] # Dst[u]
      /\ SendsOn[e] \in Hop /\ SendsOn[e] # Dst[u]
  BY WayHops, Halves DEF IInv, Opposite, End, SendsOn, Hop
<1>1. UNCHANGED <<pc, link, session>>
  BY DEF Send, Receive, Shut, Vanish
<1>2. SameCut(t, u)
  BY <1>0, <1>1, SameTasksSameCut DEF GaveUp
<1>3. CASE Send(e)
  <2>1. /\ ~fin[SendsOn[e]] /\ UNCHANGED fin
        /\ data' = [data EXCEPT ![SendsOn[e]] = Append(data[SendsOn[e]], Len(data[SendsOn[e]]) + 1)]
    BY <1>3 DEF Send
  <2>2. CASE SendsOn[e] = Src[t]
    BY <1>0, <1>2, <2>1, <2>2 DEF WayStep, WaySends, SameCloses, TypeOK
  <2>3. CASE SendsOn[e] # Src[t]
    BY <1>0, <1>2, <2>1, <2>3 DEF WayStep, WayStays, SameEnds, SameCloses, TypeOK
  <2> QED
    BY <2>2, <2>3
<1>4. CASE Receive(e)
  BY <1>2, <1>4 DEF Receive, WayStep, WayStays, SameEnds, SameCloses
<1>5. CASE Shut(e) \/ Vanish(e)
  <2>1. fin' = [fin EXCEPT ![SendsOn[e]] = TRUE] /\ UNCHANGED data
    BY <1>5 DEF Shut, Vanish
  <2>2. SameEnds(t, u) /\ fin'[Dst[u]] = fin[Dst[u]]
    BY <1>0, <2>1 DEF SameEnds, TypeOK
  <2>3. fin'[Src[t]] \/ fin'[Src[t]] = fin[Src[t]]
    BY <1>0, <2>1 DEF TypeOK
  <2> QED
    BY <1>2, <2>2, <2>3 DEF WayStep, WayCloses, WayStays, SameCloses
<1> QED
  BY <1>3, <1>4, <1>5

\* Every step of the relay is a step of each of its ways.
LEMMA AnyStep ==
  ASSUME IInv, ClosedWithTask, [Next]_vars, NEW t, NEW u, Opposite(t, u)
  PROVE  WayStep(t, u)
<1> USE DEF hops, tasks, sides
<1>0. /\ TypeOK /\ Spawned /\ t \in Task /\ u \in Task
      /\ Src[t] \in Hop /\ Dst[u] \in Hop
      /\ Src[t] \notin {"up", "down"} /\ Dst[u] \notin {"up", "down"}
  BY WayHops DEF IInv, Opposite
<1>1. ASSUME NEW w \in Task, TaskStep(w)
      PROVE  WayStep(t, u)
  BY <1>1, TaskWay
<1>2. CASE HostAccepts
  <2>1. /\ session["host"] = "waiting" /\ session' = [session EXCEPT !["host"] = "joining"]
        /\ pc' = [v \in Task |-> IF Place[v] = "host" THEN "top" ELSE pc[v]]
        /\ UNCHANGED <<data, fin, link>>
    BY <1>2 DEF HostAccepts
  <2>2. \A v \in Task : Place[v] = "host" => pc[v] = "unborn"
    BY <1>0, <2>1 DEF Spawned, TasksOf
  <2>3. (GaveUp(t)' <=> GaveUp(t)) /\ (GaveUp(u)' <=> GaveUp(u))
    BY <1>0, <2>1, <2>2 DEF GaveUp
  <2>4. session'["host"] = "joining"
    BY <1>0, <2>1 DEF TypeOK, Side
  <2>5. SameCut(t, u)
    BY <1>0, <2>1, <2>3, <2>4, SameTasksSameCut
  <2> QED
    BY <2>1, <2>5 DEF WayStep, WayStays, SameEnds, SameCloses
<1>3. CASE HostRefuses \/ HostAcceptFails
  <2>1. session'["host"] = "failed" /\ UNCHANGED data
    BY <1>0, <1>3 DEF HostRefuses, HostAcceptFails, TypeOK, Side
  <2>2. SameCloses(t, u)
    BY <1>0, <1>3 DEF HostRefuses, HostAcceptFails, SameCloses, TypeOK
  <2> QED
    BY <2>1, <2>2 DEF WayStep, WayIsCut, CutOff, SameEnds, SameCloses
<1>4. ASSUME NEW s \in Side, JoinReturns(s) \/ SendStop(s)
      PROVE  WayStep(t, u)
  <2>1. UNCHANGED <<data, fin, link, pc>>
    BY <1>4 DEF JoinReturns, SendStop
  <2>2. (session'["host"] = "failed") <=> (session["host"] = "failed")
    BY <1>0, <1>4 DEF JoinReturns, SendStop, TypeOK, Side
  <2>3. SameCut(t, u)
    BY <1>0, <2>1, <2>2, SameTasksSameCut DEF GaveUp
  <2> QED
    BY <2>1, <2>3 DEF WayStep, WayStays, SameEnds, SameCloses
<1>5. CASE LoseLink
  <2>1. CutOff(t, u)'
    BY <1>5 DEF LoseLink, CutOff
  <2>2. SameEnds(t, u) /\ SameCloses(t, u)
    BY <1>0, <1>5 DEF LoseLink, SameEnds, SameCloses, TypeOK
  <2> QED
    BY <2>1, <2>2 DEF WayStep, WayIsCut, SameCloses
<1>6. ASSUME NEW e \in End, Send(e) \/ Receive(e) \/ Shut(e) \/ Vanish(e)
      PROVE  WayStep(t, u)
  BY <1>6, EndWay
<1>7. CASE Tick \/ UNCHANGED vars
  <2>1. UNCHANGED <<data, fin, link, pc, session>>
    BY <1>7 DEF Tick, vars
  <2>2. SameCut(t, u)
    BY <1>0, <2>1, SameTasksSameCut DEF GaveUp
  <2> QED
    BY <2>1, <2>2 DEF WayStep, WayStays, SameEnds, SameCloses
<1> QED
  BY <1>1, <1>2, <1>3, <1>4, <1>5, <1>6, <1>7, Steps

-----------------------------------------------------------------------------
(* The theorems.                                                           *)

\* The socket an end reads from is closed with the task that writes to it and
\* only then: no close overtakes a running forwarder of net/tcp.rs.
THEOREM SocketClosedWithTask == Spec => []ClosedWithTask
<1>1. Init => ClosedWithTask
  BY Halves DEF Init, ClosedWithTask, Ended
<1>2. IInv /\ ClosedWithTask /\ [Next]_vars => ClosedWithTask'
  BY ClosedWithTaskStep DEF IInv
<1> QED
  BY <1>1, <1>2, Invariance, PTL DEF Spec

\* Each direction of the relay is a pipe: what reaches an end is what the
\* other sent, each byte once and in order, and the end of the stream comes
\* after the last of them unless the relay gave up on the connection, however
\* the two forwarders of net/tcp.rs on each side, the loss of the connection,
\* the stops, the timeouts and the panics interleave.
THEOREM RelayIsTwoPipes == Spec => ImplementsPipes
<1>1. Init => Up!Init /\ Down!Init
  <2> SUFFICES ASSUME Init PROVE Up!Init /\ Down!Init
    OBVIOUS
  <2>1. ~CutOff("client_tcp_to_tunnel", "host_tunnel_to_tcp")
        /\ ~CutOff("host_tcp_to_tunnel", "client_tunnel_to_tcp")
    BY Ways, Halves DEF Init, CutOff, GaveUp, Side
  <2> QED
    BY <2>1 DEF Init, Up!Init, Down!Init, Hop
<1>2. Opposite("client_tcp_to_tunnel", "host_tunnel_to_tcp")
      /\ Opposite("host_tcp_to_tunnel", "client_tunnel_to_tcp")
  BY DEF Opposite, Task, Src, Dst, Tunnel
<1>3. ASSUME IInv, ClosedWithTask, [Next]_vars
      PROVE  [Up!Next]_(Up!vars)
  <2> DEFINE t == "client_tcp_to_tunnel"
             u == "host_tunnel_to_tcp"
  <2>1. WayStep(t, u)
    BY <1>2, <1>3, AnyStep
  <2>2. Src[t] = "from_app" /\ Dst[u] = "to_service"
    BY Ways
  <2>3. fin \in [Hop -> BOOLEAN] /\ fin' \in [Hop -> BOOLEAN]
    BY <1>3, TypeStep DEF IInv, TypeOK
  <2>4. fin["from_app"] \in BOOLEAN /\ fin'["from_app"] \in BOOLEAN
        /\ fin["to_service"] \in BOOLEAN /\ fin'["to_service"] \in BOOLEAN
    BY <2>3 DEF Hop
  <2>5. CutOff(t, u) \in BOOLEAN /\ CutOff(t, u)' \in BOOLEAN
    BY <1>3, TypeStep DEF IInv, TypeOK, CutOff, GaveUp
  <2>6. CASE WaySends(t, u)
    BY <2>2, <2>4, <2>5, <2>6 DEF WaySends, SameCloses, SameCut, Up!Next, Up!Send
  <2>7. CASE WayCloses(t, u)
    BY <2>2, <2>4, <2>5, <2>7 DEF WayCloses, SameEnds, SameCut, Up!Next, Up!Close
  <2>8. CASE WayDelivers(t, u)
    BY <2>2, <2>4, <2>5, <2>8 DEF WayDelivers, SameCloses, SameCut, Up!Next, Up!Deliver
  <2>9. CASE WayIsCut(t, u)
    BY <2>2, <2>4, <2>5, <2>9 DEF WayIsCut, SameEnds, Up!Next, Up!Cut
  <2>10. CASE WayFinishes(t, u)
    BY <2>2, <2>4, <2>5, <2>10 DEF WayFinishes, SameEnds, SameCut, Up!Next, Up!Finish
  <2>11. CASE WayStays(t, u)
    BY <2>2, <2>4, <2>5, <2>11 DEF WayStays, SameEnds, SameCloses, SameCut, Up!vars
  <2> QED
    BY <2>1, <2>6, <2>7, <2>8, <2>9, <2>10, <2>11 DEF WayStep
<1>4. ASSUME IInv, ClosedWithTask, [Next]_vars
      PROVE  [Down!Next]_(Down!vars)
  <2> DEFINE t == "host_tcp_to_tunnel"
             u == "client_tunnel_to_tcp"
  <2>1. WayStep(t, u)
    BY <1>2, <1>4, AnyStep
  <2>2. Src[t] = "from_service" /\ Dst[u] = "to_app"
    BY Ways
  <2>3. fin \in [Hop -> BOOLEAN] /\ fin' \in [Hop -> BOOLEAN]
    BY <1>4, TypeStep DEF IInv, TypeOK
  <2>4. fin["from_service"] \in BOOLEAN /\ fin'["from_service"] \in BOOLEAN
        /\ fin["to_app"] \in BOOLEAN /\ fin'["to_app"] \in BOOLEAN
    BY <2>3 DEF Hop
  <2>5. CutOff(t, u) \in BOOLEAN /\ CutOff(t, u)' \in BOOLEAN
    BY <1>4, TypeStep DEF IInv, TypeOK, CutOff, GaveUp
  <2>6. CASE WaySends(t, u)
    BY <2>2, <2>4, <2>5, <2>6 DEF WaySends, SameCloses, SameCut, Down!Next, Down!Send
  <2>7. CASE WayCloses(t, u)
    BY <2>2, <2>4, <2>5, <2>7 DEF WayCloses, SameEnds, SameCut, Down!Next, Down!Close
  <2>8. CASE WayDelivers(t, u)
    BY <2>2, <2>4, <2>5, <2>8 DEF WayDelivers, SameCloses, SameCut, Down!Next, Down!Deliver
  <2>9. CASE WayIsCut(t, u)
    BY <2>2, <2>4, <2>5, <2>9 DEF WayIsCut, SameEnds, Down!Next, Down!Cut
  <2>10. CASE WayFinishes(t, u)
    BY <2>2, <2>4, <2>5, <2>10 DEF WayFinishes, SameEnds, SameCut, Down!Next, Down!Finish
  <2>11. CASE WayStays(t, u)
    BY <2>2, <2>4, <2>5, <2>11 DEF WayStays, SameEnds, SameCloses, SameCut, Down!vars
  <2> QED
    BY <2>1, <2>6, <2>7, <2>8, <2>9, <2>10, <2>11 DEF WayStep
<1> QED
  BY <1>1, <1>3, <1>4, Invariance, SocketClosedWithTask, PTL
     DEF Spec, ImplementsPipes, Up!Spec, Down!Spec
=============================================================================
