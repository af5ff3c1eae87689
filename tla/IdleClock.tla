----------------------------- MODULE IdleClock ------------------------------
(***************************************************************************)
(* The idle timeout of one side of a relayed connection, in all detail of  *)
(* its clocks: the two tasks of a forwarder (net/tcp.rs, net/udp.rs) share *)
(* last_active.  They stamp and compare it with now_secs() (utils.rs), the *)
(* wall clock cut to whole seconds, which may be set; they sleep by        *)
(* tokio's clock, which may not.  Loading and storing the stamp, and       *)
(* reading the clock, are steps of their own.                              *)
(*                                                                         *)
(* TcpRelay and UdpRelay count the ticks since last_active instead, with   *)
(* a whole turn of the loop as one step; this module is about what that    *)
(* leaves out.                                                             *)
(***************************************************************************)
EXTENDS Integers

CONSTANTS
  Task,     \* the two tasks of a side
  Timeout,  \* CONNECTION_TIMEOUT_SECONDS, in ticks
  Second,   \* ticks in a second
  MaxTime,  \* bound: ticks that pass
  MaxJump   \* bound: by how much the wall clock is set, all in all

ASSUME ClockAssumption ==
  /\ {Timeout, MaxTime, MaxJump} \subseteq Nat
  /\ Second \in Nat \ {0}

VARIABLES
  time,   \* tokio's clock
  start,  \* the wall clock when time was 0
  ahead,  \* by how much the wall clock was set forward since
  back,   \* and by how much back
  last,   \* last_active
  acted,  \* history: the time of the last stamp
  pc,     \* task -> where its loop is
  now,    \* task -> its reading of now_secs()
  wake    \* task -> the time its sleep is over

clocks == <<time, start, ahead, back>>
vars   == <<clocks, last, acted, pc, now, wake>>

Running == {"top", "load", "store", "recheck"}

TypeOK ==
  /\ time \in Nat /\ start \in Nat /\ ahead \in Nat /\ back \in Nat
  /\ last \in Int /\ acted \in Nat
  /\ pc \in [Task -> Running \cup {"select", "write", "timedout", "left"}]
  /\ now \in [Task -> Int]
  /\ wake \in [Task -> Int]

\* as_secs() cuts off what is less than a second.
now_secs == LET wall == start + time + ahead - back IN wall - (wall % Second)

\* The forwarder stamps last_active and spawns the two tasks.
Init ==
  /\ time = 0 /\ ahead = 0 /\ back = 0
  /\ start \in MaxJump .. MaxJump + Second - 1
  /\ last = start - (start % Second)
  /\ acted = 0
  /\ pc = [t \in Task |-> "top"]
  /\ now = [t \in Task |-> 0]
  /\ wake = [t \in Task |-> 0]

-----------------------------------------------------------------------------
ReadClock(t, from, to) ==
  /\ pc[t] = from
  /\ now' = [now EXCEPT ![t] = now_secs]
  /\ pc' = [pc EXCEPT ![t] = to]
  /\ UNCHANGED <<clocks, last, acted, wake>>

Goes(t, from, to) == pc[t] = from /\ pc' = [pc EXCEPT ![t] = to]

\* now.saturating_sub(last): zero if the clock was set back behind the stamp.
\* An unsigned difference would come out huge.
Elapsed_Wraps(t) == IF now[t] < last THEN Timeout + Second ELSE now[t] - last
Elapsed(t) == IF now[t] < last THEN 0 ELSE now[t] - last

\* The top of the loop reads the clock, then the stamp, and goes to sleep for
\* what is left.
LoopTop(t) == ReadClock(t, "top", "load")

LoopLoads_Full(t) ==
  /\ Goes(t, "load", "select")
  /\ wake' = [wake EXCEPT ![t] = time + Timeout]
  /\ UNCHANGED <<clocks, last, acted, now>>

LoopLoads(t) ==
  /\ Goes(t, "load", "select")
  /\ wake' = [wake EXCEPT ![t] =
                IF Elapsed(t) >= Timeout THEN time ELSE time + Timeout - Elapsed(t)]
  /\ UNCHANGED <<clocks, last, acted, now>>

\* The second arm of the select: something was read, and the stamp is moved.
Reads(t) == ReadClock(t, "select", "store")

Stores(t) ==
  /\ Goes(t, "store", "write")
  /\ last' = now[t]
  /\ acted' = time
  /\ UNCHANGED <<clocks, now, wake>>

\* write_all may take its time.
Writes(t) ==
  /\ Goes(t, "write", "top")
  /\ UNCHANGED <<clocks, last, acted, now, wake>>

\* The third arm: the sleep is over, and clock and stamp are read again.
Wakes(t) == time >= wake[t] /\ ReadClock(t, "select", "recheck")

Rechecks(t) ==
  /\ IF Elapsed(t) >= Timeout THEN Goes(t, "recheck", "timedout")
                              ELSE Goes(t, "recheck", "top")
  /\ UNCHANGED <<clocks, last, acted, now, wake>>

\* A stop, the end of the stream or a failed write.
Leaves(t) ==
  /\ pc[t] \in {"select", "write"}
  /\ pc' = [pc EXCEPT ![t] = "left"]
  /\ UNCHANGED <<clocks, last, acted, now, wake>>

\* A task that can go on does so before time passes.
Tick ==
  /\ time < MaxTime
  /\ \A t \in Task : pc[t] \notin Running /\ (pc[t] = "select" => time < wake[t])
  /\ time' = time + 1
  /\ UNCHANGED <<start, ahead, back, last, acted, pc, now, wake>>

\* The wall clock is set, at any moment, though not before 1970.
SetClock ==
  /\ \E d \in 1..MaxJump :
       \/ ahead' = ahead + d /\ back' = back
       \/ ahead' = ahead /\ back' = back + d
  /\ ahead' + back' <= MaxJump
  /\ UNCHANGED <<time, start, last, acted, pc, now, wake>>

TaskStep(t) ==
  \/ LoopTop(t) \/ LoopLoads(t) \/ Reads(t) \/ Stores(t) \/ Writes(t)
  \/ Wakes(t) \/ Rechecks(t) \/ Leaves(t)

Next == Tick \/ SetClock \/ \E t \in Task : TaskStep(t)

Spec == Init /\ [][Next]_vars

-----------------------------------------------------------------------------
(* Properties.                                                             *)

\* The idle timeout ends no session that was active less than Timeout ago,
\* but for the second that is lost to rounding and for what the clock was set
\* since the session began: whichever task moves the stamp between the other's
\* steps, and wherever the clock is set back behind the stamp (the two
\* comparisons of each loop in net/tcp.rs and net/udp.rs, with saturating_sub).
EndsOnlyIdle ==
  [][\A t \in Task : pc[t] # "timedout" /\ pc'[t] = "timedout" =>
       time - acted + ahead + back > Timeout - Second]_vars

\* A task that still has to sleep wakes in time to end an idle session: not
\* later than Timeout after the last stamp, but for the rounding and for what
\* the clock was set since the session began.
WakesInTime ==
  \A t \in Task : pc[t] = "select" /\ time < wake[t] =>
    wake[t] - acted < Timeout + Second + ahead + back
=============================================================================
