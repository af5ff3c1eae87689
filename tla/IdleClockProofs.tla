-------------------------- MODULE IdleClockProofs ---------------------------
(***************************************************************************)
(* What the idle timeout of IdleClock guarantees, for every timeout, every *)
(* length of a second and whatever the wall clock is set to.               *)
(***************************************************************************)
EXTENDS IdleClock, TLAPS

\* The stamp is the wall clock of the moment of the last stamp, but for the
\* rounding and what the clock was set.
StampIsRecent ==
  /\ acted <= time
  /\ acted + start - back < last + Second
  /\ last <= acted + start + ahead

\* A task's reading of the clock is of this very moment until it is used.
ReadingIsFresh ==
  \A t \in Task : pc[t] \in {"load", "store", "recheck"} =>
    /\ time + start - back < now[t] + Second
    /\ now[t] <= time + start + ahead

IInv == TypeOK /\ StampIsRecent /\ ReadingIsFresh /\ WakesInTime

-----------------------------------------------------------------------------
\* now_secs() is at most a second behind the wall clock.
LEMMA Rounding ==
  ASSUME TypeOK
  PROVE  /\ now_secs \in Int
         /\ now_secs <= time + start + ahead
         /\ time + start - back < now_secs + Second
<1> DEFINE wall == start + time + ahead - back
<1>1. wall \in Int
  BY DEF TypeOK
<1>2. Second \in Nat /\ Second > 0
  BY ClockAssumption
<1>3. wall % Second \in 0 .. Second - 1
  BY <1>1, <1>2
<1>4. now_secs = wall - (wall % Second)
  BY DEF now_secs
<1> QED
  BY <1>1, <1>2, <1>3, <1>4 DEF TypeOK

\* A task that reads the clock has a fresh reading; nothing else changes.
LEMMA ReadingPreserves ==
  ASSUME IInv, NEW t \in Task, NEW from, NEW to \in {"load", "store", "recheck"},
         ReadClock(t, from, to)
  PROVE  IInv'
<1>1. /\ now_secs \in Int
      /\ now_secs <= time + start + ahead
      /\ time + start - back < now_secs + Second
  BY Rounding DEF IInv
<1>2. TypeOK'
  BY <1>1 DEF IInv, TypeOK, Running, ReadClock, clocks
<1>3. StampIsRecent'
  BY DEF IInv, StampIsRecent, ReadClock, clocks
<1>4. ReadingIsFresh'
  BY <1>1 DEF IInv, TypeOK, ReadingIsFresh, ReadClock, clocks
<1>5. WakesInTime'
  BY DEF IInv, TypeOK, WakesInTime, ReadClock, clocks
<1> QED
  BY <1>2, <1>3, <1>4, <1>5 DEF IInv

\* How long a task goes to sleep, from the stamp and its reading.
LEMMA LoadingPreserves ==
  ASSUME IInv, NEW t \in Task, LoopLoads(t)
  PROVE  IInv'
<1> DEFINE sleep == IF Elapsed(t) >= Timeout THEN time ELSE time + Timeout - Elapsed(t)
<1>1. /\ Timeout \in Nat /\ Second \in Nat
      /\ time \in Nat /\ start \in Nat /\ ahead \in Nat /\ back \in Nat
      /\ last \in Int /\ acted \in Nat /\ now[t] \in Int
  BY ClockAssumption DEF IInv, TypeOK
<1>2. /\ Elapsed(t) \in Int
      /\ now[t] - last <= Elapsed(t)
  BY <1>1 DEF Elapsed
<1>3. sleep \in Int
  BY <1>1, <1>2
<1>4. time < sleep => sleep - acted < Timeout + Second + ahead + back
  <2>1. time + start - back < now[t] + Second
    BY DEF IInv, ReadingIsFresh, LoopLoads, Goes
  <2>2. last <= acted + start + ahead
    BY DEF IInv, StampIsRecent
  <2>3. CASE Elapsed(t) >= Timeout
    BY <1>1, <2>3
  <2>4. CASE ~(Elapsed(t) >= Timeout)
    <3>1. sleep = time + Timeout - Elapsed(t)
      BY <2>4
    <3> HIDE DEF sleep
    <3> QED
      BY <1>1, <1>2, <2>1, <2>2, <3>1
  <2> QED
    BY <2>3, <2>4
<1>5. /\ UNCHANGED <<clocks, last, acted, now>>
      /\ pc[t] = "load" /\ pc' = [pc EXCEPT ![t] = "select"]
      /\ wake' = [wake EXCEPT ![t] = sleep]
  BY DEF LoopLoads, Goes
<1> HIDE DEF sleep
<1>6. TypeOK'
  BY <1>3, <1>5 DEF IInv, TypeOK, clocks
<1>7. StampIsRecent'
  BY <1>5 DEF IInv, StampIsRecent, clocks
<1>8. ReadingIsFresh'
  BY <1>5 DEF IInv, TypeOK, ReadingIsFresh, clocks
<1>9. WakesInTime'
  BY <1>4, <1>5 DEF IInv, TypeOK, WakesInTime, clocks
<1> QED
  BY <1>6, <1>7, <1>8, <1>9 DEF IInv

\* The stamp becomes a reading of this very moment.
LEMMA StoringPreserves ==
  ASSUME IInv, NEW t \in Task, Stores(t)
  PROVE  IInv'
<1>1. /\ time + start - back < now[t] + Second
      /\ now[t] <= time + start + ahead
  BY DEF IInv, ReadingIsFresh, Stores, Goes
<1>2. TypeOK'
  BY DEF IInv, TypeOK, Running, Stores, Goes, clocks
<1>3. StampIsRecent'
  BY <1>1 DEF IInv, TypeOK, StampIsRecent, Stores, clocks
<1>4. ReadingIsFresh'
  BY DEF IInv, TypeOK, ReadingIsFresh, Stores, Goes, clocks
<1>5. WakesInTime'
  BY ClockAssumption DEF IInv, TypeOK, StampIsRecent, WakesInTime, Stores, Goes, clocks
<1> QED
  BY <1>2, <1>3, <1>4, <1>5 DEF IInv

\* A task that moves on, to where it neither sleeps nor holds a reading.
LEMMA GoingPreserves ==
  ASSUME IInv, NEW t \in Task, NEW from,
         NEW to \in {"top", "timedout", "left"},
         Goes(t, from, to), UNCHANGED <<clocks, last, acted, now, wake>>
  PROVE  IInv'
<1>1. TypeOK'
  BY DEF IInv, TypeOK, Running, Goes, clocks
<1>2. StampIsRecent'
  BY DEF IInv, StampIsRecent, clocks
<1>3. ReadingIsFresh'
  BY DEF IInv, TypeOK, ReadingIsFresh, Goes, clocks
<1>4. WakesInTime'
  BY DEF IInv, TypeOK, WakesInTime, Goes, clocks
<1> QED
  BY <1>1, <1>2, <1>3, <1>4 DEF IInv

\* Time passes only while no task holds a reading.
LEMMA TickPreserves ==
  ASSUME IInv, Tick
  PROVE  IInv'
<1>1. TypeOK'
  BY DEF IInv, TypeOK, Tick
<1>2. StampIsRecent'
  BY DEF IInv, TypeOK, StampIsRecent, Tick
<1>3. ReadingIsFresh'
  BY DEF ReadingIsFresh, Running, Tick
<1>4. WakesInTime'
  BY DEF IInv, TypeOK, WakesInTime, Tick
<1> QED
  BY <1>1, <1>2, <1>3, <1>4 DEF IInv

\* ahead and back only grow.
LEMMA SettingPreserves ==
  ASSUME IInv, SetClock
  PROVE  IInv'
<1>1. /\ ahead' \in Nat /\ back' \in Nat /\ ahead <= ahead' /\ back <= back'
      /\ UNCHANGED <<time, start, last, acted, pc, now, wake>>
  BY ClockAssumption DEF IInv, TypeOK, SetClock
<1>2. TypeOK'
  BY <1>1 DEF IInv, TypeOK
<1>3. StampIsRecent'
  <2>1. /\ last \in Int /\ Second \in Nat
        /\ start \in Nat /\ ahead \in Nat /\ back \in Nat /\ acted \in Nat
    BY ClockAssumption DEF IInv, TypeOK
  <2>2. PICK d \in Nat : \/ ahead' = ahead + d /\ back' = back
                         \/ ahead' = ahead /\ back' = back + d
    BY ClockAssumption DEF SetClock
  <2>3. acted + start - back < last + Second /\ last <= acted + start + ahead
    BY DEF IInv, StampIsRecent
  <2>4. acted + start - back' < last + Second
    BY <2>1, <2>2, <2>3
  <2>5. last <= acted + start + ahead'
    BY <2>1, <2>2, <2>3
  <2> QED
    BY <1>1, <2>4, <2>5 DEF IInv, StampIsRecent
<1>4. ReadingIsFresh'
  BY <1>1, ClockAssumption DEF IInv, TypeOK, ReadingIsFresh
<1>5. WakesInTime'
  BY <1>1, ClockAssumption DEF IInv, TypeOK, WakesInTime
<1> QED
  BY <1>2, <1>3, <1>4, <1>5 DEF IInv

-----------------------------------------------------------------------------
\* Both tasks start at the top of their loops, and the stamp is the second they
\* start in.
LEMMA InitImplies == Init => IInv
<1> SUFFICES ASSUME Init PROVE IInv
  OBVIOUS
<1>1. /\ time = 0 /\ ahead = 0 /\ back = 0 /\ acted = 0
      /\ start \in Nat
      /\ pc = [t \in Task |-> "top"]
      /\ now = [t \in Task |-> 0]
      /\ wake = [t \in Task |-> 0]
  BY ClockAssumption DEF Init
<1>2. start % Second \in 0 .. Second - 1
  BY <1>1, ClockAssumption
<1>3. last \in Int /\ last <= start /\ start < last + Second
  BY <1>1, <1>2, ClockAssumption DEF Init
<1>4. TypeOK
  BY <1>1, <1>3 DEF TypeOK, Running
<1>5. StampIsRecent
  BY <1>1, <1>3 DEF StampIsRecent
<1>6. ReadingIsFresh /\ WakesInTime
  BY <1>1 DEF ReadingIsFresh, WakesInTime
<1> QED
  BY <1>4, <1>5, <1>6 DEF IInv

\* Neither the clock of the machine nor a turn of a loop breaks the invariant.
LEMMA NextPreserves == IInv /\ [Next]_vars => IInv'
<1> SUFFICES ASSUME IInv, [Next]_vars PROVE IInv'
  OBVIOUS
<1>1. CASE Tick
  BY <1>1, TickPreserves
<1>2. CASE SetClock
  BY <1>2, SettingPreserves
<1>3. CASE \E t \in Task : TaskStep(t)
  <2>1. PICK t \in Task : TaskStep(t)
    BY <1>3
  <2>2. CASE LoopTop(t)
    BY <2>2, ReadingPreserves DEF LoopTop
  <2>3. CASE LoopLoads(t)
    BY <2>3, LoadingPreserves
  <2>4. CASE Reads(t)
    BY <2>4, ReadingPreserves DEF Reads
  <2>5. CASE Stores(t)
    BY <2>5, StoringPreserves
  <2>6. CASE Writes(t)
    BY <2>6, GoingPreserves DEF Writes
  <2>7. CASE Wakes(t)
    BY <2>7, ReadingPreserves DEF Wakes
  <2>8. CASE Rechecks(t)
    BY <2>8, GoingPreserves DEF Rechecks
  <2>9. CASE Leaves(t)
    BY <2>9, GoingPreserves DEF Leaves, Goes
  <2> QED
    BY <2>1, <2>2, <2>3, <2>4, <2>5, <2>6, <2>7, <2>8, <2>9 DEF TaskStep
<1>4. CASE UNCHANGED vars
  BY <1>4 DEF IInv, TypeOK, StampIsRecent, ReadingIsFresh, WakesInTime, vars, clocks
<1> QED
  BY <1>1, <1>2, <1>3, <1>4 DEF Next

\* The clocks and the tasks stay within their types, whatever the wall clock
\* does (TypeOK of IdleClock; now_secs of utils.rs is a whole number).
THEOREM TypeCorrect == Spec => []TypeOK
<1>1. IInv => TypeOK
  BY DEF IInv
<1> QED
  BY <1>1, InitImplies, NextPreserves, PTL DEF Spec

\* An idle session is looked at in time: no task of a forwarder sleeps longer
\* than the timeout after the last stamp, a second and what the clock was set
\* (the sleeps of the loops in net/tcp.rs and net/udp.rs).
THEOREM SleepsAreShort == Spec => []WakesInTime
<1>1. IInv => WakesInTime
  BY DEF IInv
<1> QED
  BY <1>1, InitImplies, NextPreserves, PTL DEF Spec

\* No session is ended as idle that was active less than the timeout ago, but
\* for a second and what the clock was set (the second comparison of each
\* loop, with saturating_sub, in net/tcp.rs and net/udp.rs).
THEOREM IdleOnlyWhenIdle == Spec => EndsOnlyIdle
<1> DEFINE Ended == \A t \in Task : pc[t] # "timedout" /\ pc'[t] = "timedout" =>
                      time - acted + ahead + back > Timeout - Second
<1>1. IInv /\ [Next]_vars => [Ended]_vars
  <2> SUFFICES ASSUME IInv, Next, NEW t \in Task,
                      pc[t] # "timedout", pc'[t] = "timedout"
               PROVE  time - acted + ahead + back > Timeout - Second
    OBVIOUS
  <2>1. Rechecks(t) /\ pc[t] = "recheck" /\ Elapsed(t) >= Timeout
    BY DEF IInv, TypeOK, Next, Tick, SetClock, TaskStep, LoopTop, LoopLoads, Reads,
       Stores, Writes, Wakes, Rechecks, Leaves, ReadClock, Goes
  <2>2. now[t] <= time + start + ahead
    BY <2>1 DEF IInv, ReadingIsFresh
  <2>3. acted <= time /\ acted + start - back < last + Second
    BY DEF IInv, StampIsRecent
  <2>4. /\ Timeout \in Nat /\ Second \in Nat /\ Second > 0
        /\ time \in Nat /\ start \in Nat /\ ahead \in Nat /\ back \in Nat
        /\ last \in Int /\ acted \in Nat /\ now[t] \in Int
    BY ClockAssumption DEF IInv, TypeOK
  <2>5. CASE now[t] < last
    BY <2>1, <2>3, <2>4, <2>5 DEF Elapsed
  <2>6. CASE ~(now[t] < last)
    BY <2>1, <2>2, <2>3, <2>4, <2>6 DEF Elapsed
  <2> QED
    BY <2>5, <2>6
<1> QED
  BY <1>1, InitImplies, NextPreserves, PTL DEF Spec, EndsOnlyIdle
=============================================================================
