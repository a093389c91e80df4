-------------------------- MODULE SchedulerProofs --------------------------
(***************************************************************************)
(* Theorems about Scheduler, for every number of tasks, all intervals,     *)
(* every capacity of the queue and every behaviour of the wall clock.      *)
(***************************************************************************)
EXTENDS Scheduler, TLAPS

LEMMA DivMod ==
    ASSUME NEW n \in Nat, NEW k \in Nat \ {0}
    PROVE  /\ n \div k \in Nat /\ n % k \in 0..(k - 1)
           /\ n = k * (n \div k) + (n % k)
  OBVIOUS

\* alignTime returns the first multiple of the interval after the time it is
\* given, for all times and all intervals.
THEOREM AlignTimeIsNextBoundary ==
    ASSUME NEW time \in Nat, NEW interval \in Nat \ {0}
    PROVE  /\ AlignTime(time, interval) \in Nat
           /\ AlignTime(time, interval) = ((time \div interval) + 1) * interval
           /\ AlignTime(time, interval) > time
           /\ AlignTime(time, interval) <= time + interval
<1> DEFINE q == time \div interval
           r == time % interval
<1>1. q \in Nat /\ r \in 0..(interval - 1) /\ time = interval * q + r
  BY DivMod
<1> HIDE DEF q, r
<1>2. interval * q \in Nat /\ (q + 1) * interval = interval * q + interval
  BY <1>1
<1>3. AlignTime(time, interval) = time - r + interval
  BY <1>1 DEF AlignTime, Truncate, r
<1> QED
  BY <1>1, <1>2, <1>3 DEF q

\* A time at or after boundary k + 1 lies in a later interval than k.
LEMMA DueIsLater ==
    ASSUME NEW time \in Nat, NEW interval \in Nat \ {0}, NEW k \in Nat,
           time >= (k + 1) * interval
    PROVE  time \div interval > k
<1> DEFINE q == time \div interval
           r == time % interval
<1>1. q \in Nat /\ r \in 0..(interval - 1) /\ time = interval * q + r
  BY DivMod
<1> HIDE DEF q, r
<1>2. ASSUME q <= k PROVE FALSE
  <2>1. PICK j \in Nat : k = q + j
    BY <1>1, <1>2
  <2>2. (k + 1) * interval = interval * q + j * interval + interval
    BY <1>1, <2>1
  <2>3. j * interval \in Nat /\ interval * q \in Nat
    BY <1>1
  <2> QED
    BY <1>1, <2>2, <2>3
<1> QED
  BY <1>1, <1>2 DEF q

-----------------------------------------------------------------------------
(* The schedule.                                                           *)

LEMMA NextTaskType ==
    ASSUME TypeOK, visit # 0, NextTask
    PROVE  /\ visit \in Tasks
           /\ visit' \in 0..NumTasks
           /\ \A t \in Tasks : visit' = 0 \/ t < visit' => t < visit \/ t = visit
  BY TasksAssumption DEF TypeOK, NextTask, Tasks

\* What moving a task does, whether it is queued or skipped.
LEMMA RescheduleMoves ==
    ASSUME TypeOK, NEW t \in Tasks, Reschedule(t)
    PROVE  /\ nextRun' \in [Tasks -> Nat]
           /\ fired' \in [Tasks -> Nat]
           /\ \A u \in Tasks \ {t} : nextRun'[u] = nextRun[u] /\ fired'[u] = fired[u]
           /\ nextRun'[t] = (fired'[t] + 1) * Interval[t]
           /\ nextRun'[t] > tick
           /\ fired'[t] = tick \div Interval[t]
<1>1. tick \in Nat /\ Interval[t] \in Nat \ {0}
  BY TasksAssumption, ClockAssumption DEF TypeOK, Clock
<1>2. /\ AlignTime(tick, Interval[t]) \in Nat
      /\ AlignTime(tick, Interval[t]) = ((tick \div Interval[t]) + 1) * Interval[t]
      /\ AlignTime(tick, Interval[t]) > tick
  BY <1>1, AlignTimeIsNextBoundary
<1>3. tick \div Interval[t] \in Nat
  BY <1>1, DivMod
<1> QED
  BY <1>2, <1>3 DEF Reschedule, TypeOK

LEMMA TypeInit == Init => TypeOK /\ OnBoundary /\ VisitedNotDue
<1> SUFFICES ASSUME Init PROVE TypeOK /\ OnBoundary /\ VisitedNotDue
  OBVIOUS
<1>1. now \in Nat /\ tick = now
  BY ClockAssumption DEF Init, Clock
<1>2. ASSUME NEW t \in Tasks
      PROVE  /\ nextRun[t] \in Nat /\ fired[t] \in Nat
             /\ nextRun[t] = (fired[t] + 1) * Interval[t]
             /\ nextRun[t] > tick
  <2>1. Interval[t] \in Nat \ {0}
    BY TasksAssumption
  <2>2. nextRun[t] = AlignTime(now, Interval[t]) /\ fired[t] = now \div Interval[t]
    BY DEF Init
  <2> QED
    BY <1>1, <2>1, <2>2, AlignTimeIsNextBoundary, DivMod
<1>3. nextRun \in [Tasks -> Nat] /\ fired \in [Tasks -> Nat]
  BY <1>2 DEF Init
<1>4. queue \in Seq(Tasks) /\ Len(queue) <= QueueCap
  BY TasksAssumption DEF Init
<1>5. 0 \in 0..NumTasks
  BY TasksAssumption
<1>6. TypeOK
  BY <1>3, <1>4, <1>5 DEF Init, TypeOK
<1>7. OnBoundary /\ VisitedNotDue
  BY <1>2 DEF OnBoundary, VisitedNotDue
<1> QED
  BY <1>6, <1>7

LEMMA ScheduleStep ==
    ASSUME TypeOK, OnBoundary, VisitedNotDue, [Next]_vars
    PROVE  TypeOK' /\ OnBoundary' /\ VisitedNotDue'
<1>1. CASE UNCHANGED vars
  BY <1>1 DEF vars, TypeOK, OnBoundary, VisitedNotDue
<1>2. CASE ClockTicks \/ ClockSetBack
  BY <1>2
     DEF ClockTicks, ClockSetBack, TypeOK, OnBoundary, VisitedNotDue
<1>3. CASE ReceiveTick
  <2>1. /\ tick' \in Clock /\ tickC' = NoTick
        /\ visit' \in 0..NumTasks /\ (visit' = 0 => NumTasks = 0)
        /\ \A t \in Tasks : ~(t < 1)
    BY <1>3, TasksAssumption DEF ReceiveTick, TypeOK, NoTick, Tasks
  <2>2. VisitedNotDue'
    BY <1>3, <2>1, TasksAssumption DEF ReceiveTick, VisitedNotDue, Tasks
  <2> QED
    BY <1>3, <2>1, <2>2 DEF ReceiveTick, TypeOK, OnBoundary
<1>4. CASE TickerLeaves \/ WorkerLeaves \/ Cancel \/ StopReturns \/ TaskOver
  <2>1. UNCHANGED <<now, tickC, tick, visit, nextRun, queue, fired>>
    BY <1>4 DEF TickerLeaves, WorkerLeaves, Cancel, StopReturns, TaskOver
  <2>2. /\ running' \in 0..NumTasks /\ gone' \subseteq {"ticker", "worker"}
        /\ ctxDone' \in BOOLEAN /\ stopped' \in BOOLEAN
    <3>1. CASE TickerLeaves \/ WorkerLeaves
      BY <3>1 DEF TickerLeaves, WorkerLeaves, TypeOK
    <3>2. CASE Cancel \/ StopReturns
      BY <3>2 DEF Cancel, StopReturns, TypeOK
    <3>3. CASE TaskOver
      BY <3>3, TasksAssumption DEF TaskOver, TypeOK
    <3> QED
      BY <1>4, <3>1, <3>2, <3>3
  <2> QED
    BY <2>1, <2>2 DEF TypeOK, OnBoundary, VisitedNotDue
<1>5. CASE NotDue
  <2>1. visit' \in 0..NumTasks /\ visit \in Tasks
    BY <1>5, NextTaskType DEF NotDue
  <2>2. nextRun[visit] > tick
    BY <1>5, <2>1, ClockAssumption DEF NotDue, Due, TypeOK, Clock
  <2>3. VisitedNotDue'
    BY <1>5, <2>2, NextTaskType DEF NotDue, VisitedNotDue
  <2> QED
    BY <1>5, <2>1, <2>3 DEF NotDue, TypeOK, OnBoundary
<1>6. CASE Enqueue \/ Skip
  <2>1. visit # 0 /\ NextTask /\ Reschedule(visit)
    BY <1>6 DEF Enqueue, Skip
  <2>2. visit' \in 0..NumTasks /\ visit \in Tasks
    BY <2>1, NextTaskType
  <2>3. /\ nextRun' \in [Tasks -> Nat]
        /\ fired' \in [Tasks -> Nat]
        /\ \A u \in Tasks \ {visit} : /\ nextRun'[u] = nextRun[u]
                                     /\ fired'[u] = fired[u]
        /\ nextRun'[visit] = (fired'[visit] + 1) * Interval[visit]
        /\ nextRun'[visit] > tick
    BY <2>1, <2>2, RescheduleMoves
  <2>4. queue' \in Seq(Tasks) /\ Len(queue') <= QueueCap
    <3>1. CASE Skip
      BY <3>1 DEF Skip, TypeOK
    <3>2. CASE Enqueue
      <4>1. queue \in Seq(Tasks) /\ Len(queue) < QueueCap
            /\ queue' = Append(queue, visit)
        BY <3>2 DEF Enqueue, TypeOK
      <4>2. Len(queue) \in Nat /\ Len(queue') = Len(queue) + 1
        BY <4>1, <2>2
      <4> QED
        BY <4>1, <4>2, <2>2, TasksAssumption
    <3> QED
      BY <1>6, <3>1, <3>2
  <2>5. OnBoundary'
    <3> SUFFICES ASSUME NEW u \in Tasks
                 PROVE  nextRun'[u] = (fired'[u] + 1) * Interval[u]
      BY DEF OnBoundary
    <3>1. CASE u = visit
      BY <2>3, <3>1
    <3>2. CASE u # visit
      <4>1. nextRun'[u] = nextRun[u] /\ fired'[u] = fired[u]
        BY <2>3, <3>2
      <4> QED
        BY <4>1 DEF OnBoundary
    <3> QED
      BY <3>1, <3>2
  <2>6. UNCHANGED <<now, tickC, tick, running, ctxDone, gone, stopped>>
    BY <1>6 DEF Enqueue, Skip
  <2>7. VisitedNotDue'
    BY <2>1, <2>3, <2>6, NextTaskType DEF VisitedNotDue
  <2>8. TypeOK'
    BY <2>2, <2>3, <2>4, <2>6 DEF TypeOK
  <2> QED
    BY <2>5, <2>7, <2>8
<1>7. CASE TakeTask
  <2>1. /\ queue' \in Seq(Tasks) /\ Len(queue') <= QueueCap
        /\ running' \in Tasks
    BY <1>7, TasksAssumption DEF TakeTask, TypeOK
  <2>2. running' \in 0..NumTasks
    BY <2>1, TasksAssumption DEF Tasks
  <2> QED
    BY <1>7, <2>1, <2>2 DEF TakeTask, TypeOK, OnBoundary, VisitedNotDue
<1> QED
  BY <1>1, <1>2, <1>3, <1>4, <1>5, <1>6, <1>7
     DEF Next, TickerStep, WorkerStep

\* Every task's next time stays on the boundary after the one it was last moved
\* for, and a task the loop has passed is not due at the time of the tick; the
\* types are part of the same induction.
THEOREM ScheduleCorrect == Spec => [](TypeOK /\ OnBoundary /\ VisitedNotDue)
  BY TypeInit, ScheduleStep, PTL DEF Spec

\* Type correctness; the queue never exceeds its capacity.
THEOREM SchedulerTypeCorrect == Spec => []TypeOK
  BY ScheduleCorrect, PTL

\* No boundary of any task is queued twice.
THEOREM NoBoundaryTwice == Spec => OncePerBoundary
<1>1. TypeOK /\ OnBoundary /\ [Next]_vars
      => [Len(queue') > Len(queue) =>
            LET t == queue'[Len(queue')] IN fired'[t] > fired[t]]_vars
  <2> SUFFICES ASSUME TypeOK, OnBoundary, [Next]_vars,
                      Len(queue') > Len(queue)
               PROVE  LET t == queue'[Len(queue')] IN fired'[t] > fired[t]
    OBVIOUS
  <2>1. Enqueue
    BY TasksAssumption
       DEF Next, TickerStep, WorkerStep, ClockTicks, ClockSetBack, ReceiveTick,
           TickerLeaves, NotDue, Skip, TakeTask, TaskOver, WorkerLeaves, Cancel,
           StopReturns, TypeOK, vars
  <2>2. visit \in Tasks
    BY <2>1, NextTaskType DEF Enqueue
  <2>3. queue'[Len(queue')] = visit
    BY <2>1, <2>2 DEF Enqueue, TypeOK
  <2>4. tick >= (fired[visit] + 1) * Interval[visit]
    BY <2>1, <2>2 DEF Enqueue, Due, OnBoundary
  <2>5. tick \in Nat /\ Interval[visit] \in Nat \ {0} /\ fired[visit] \in Nat
    BY <2>2, TasksAssumption, ClockAssumption DEF TypeOK, Clock
  <2>6. fired'[visit] = tick \div Interval[visit]
    BY <2>1, <2>2, RescheduleMoves DEF Enqueue
  <2> QED
    BY <2>3, <2>4, <2>5, <2>6, DueIsLater
<1> QED
  BY <1>1, ScheduleCorrect, PTL DEF Spec, OncePerBoundary

-----------------------------------------------------------------------------
(* Stop.                                                                   *)

\* A goroutine leaves between two of its steps, and Stop returns after both.
StopInv ==
    /\ "ticker" \in gone => visit = 0
    /\ "worker" \in gone => running = 0
    /\ stopped => {"ticker", "worker"} \subseteq gone

LEMMA StopStep ==
    ASSUME StopInv, [Next]_vars
    PROVE  StopInv' /\ (stopped => UNCHANGED <<queue, running, nextRun>>)
<1> USE DEF StopInv
<1>1. CASE UNCHANGED vars
  BY <1>1 DEF vars
<1>2. CASE ClockTicks \/ ClockSetBack \/ Cancel \/ StopReturns
  BY <1>2 DEF ClockTicks, ClockSetBack, Cancel, StopReturns
<1>3. CASE ReceiveTick \/ NotDue \/ Enqueue \/ Skip
  <2>1. "ticker" \notin gone /\ UNCHANGED <<gone, running, stopped>>
    BY <1>3 DEF ReceiveTick, InTickerSelect, NotDue, Enqueue, Skip
  <2> QED
    BY <2>1
<1>4. CASE TakeTask \/ TaskOver
  <2>1. "worker" \notin gone /\ UNCHANGED <<gone, visit, stopped>>
    BY <1>4 DEF TakeTask, InWorkerSelect, TaskOver
  <2> QED
    BY <2>1
<1>5. CASE TickerLeaves \/ WorkerLeaves
  BY <1>5 DEF TickerLeaves, InTickerSelect, WorkerLeaves, InWorkerSelect
<1> QED
  BY <1>1, <1>2, <1>3, <1>4, <1>5 DEF Next, TickerStep, WorkerStep

\* Once Stop has returned nothing is queued, taken, executed or moved any more,
\* whatever the clock still does.
THEOREM NothingAfterStop == Spec => QuietAfterStop
<1>1. Init => StopInv
  BY DEF Init, StopInv
<1>2. StopInv /\ [Next]_vars => StopInv'
  BY StopStep
<1>3. StopInv /\ [Next]_vars => [stopped => UNCHANGED <<queue, running, nextRun>>]_vars
  BY StopStep
<1> QED
  BY <1>1, <1>2, <1>3, PTL DEF Spec, QuietAfterStop
=============================================================================
