----------------------------- MODULE Scheduler -----------------------------
(***************************************************************************)
(* The task queue of WTWatcher: cmd/modules/scheduler.go.                  *)
(*                                                                         *)
(* Two goroutines share a bounded channel.  The ticker goroutine receives  *)
(* the time about once a second, moves every task that is due to its next  *)
(* clock-aligned time and offers it to the queue, or skips it when the     *)
(* queue is full.  The worker goroutine takes the tasks one by one.  Both  *)
(* leave when the context is done, and Stop waits for both.  What a run    *)
(* does, and that the worker always gets past it, is TaskRuns.             *)
(*                                                                         *)
(* Times are whole seconds counted from Go's zero time, which is what      *)
(* time.Truncate aligns to.  Calling UTC() drops the monotonic reading, so *)
(* times are compared on the wall clock, which may be set back.            *)
(***************************************************************************)
EXTENDS Integers, Sequences

CONSTANTS
    NumTasks,    \* the tasks registered by Start, in the order of s.tasks
    Interval,    \* their recurrence intervals
    QueueCap,    \* the capacity of the queue
    Horizon,     \* bound: the last second of the wall clock
    MaxStep,     \* bound: how far the clock moves between two ticks
    MaxBack      \* bound: how far it is set back

Tasks == 1..NumTasks

ASSUME TasksAssumption ==
    /\ NumTasks \in Nat
    /\ Interval \in [Tasks -> Nat \ {0}]
    /\ QueueCap \in Nat \ {0}
ASSUME ClockAssumption ==
    Horizon \in Nat /\ MaxStep \in Nat \ {0} /\ MaxBack \in Nat

VARIABLES
    now,         \* the wall clock
    tickC,       \* ticker.C: the time of a tick not yet received
    tick,        \* the time the ticker goroutine is working on (utcNow)
    visit,       \* the task its loop is at; 0 while it waits in its select
    nextRun,     \* the next execution time of each task
    queue,       \* s.queue
    running,     \* the task the worker executes; 0 while it waits
    ctxDone,     \* s.cancel has been called
    gone,        \* the goroutines that have returned
    stopped,     \* Stop has returned
    fired        \* history: the boundary each task was last moved for

vars == <<now, tickC, tick, visit, nextRun, queue, running, ctxDone, gone,
          stopped, fired>>

NoTick == -1
Clock  == 0..Horizon

Truncate(time, interval) == time - (time % interval)

\* Mutant: the next time is one interval away, wherever now lies in it.
AlignTimeNotTruncated(time, interval) == time + interval

AlignTime(time, interval) ==
    LET aligned == Truncate(time, interval)
    IN  IF aligned > time THEN aligned ELSE aligned + interval

-----------------------------------------------------------------------------
\* NewScheduler and Start.
Init ==
    /\ now \in Clock
    /\ tickC = NoTick
    /\ tick = now
    /\ visit = 0
    /\ nextRun = [t \in Tasks |-> AlignTime(now, Interval[t])]
    /\ queue = <<>>
    /\ running = 0
    /\ ctxDone = FALSE
    /\ gone = {}
    /\ stopped = FALSE
    /\ fired = [t \in Tasks |-> now \div Interval[t]]

\* Time passes and the runtime sends a tick; a tick the goroutine has not
\* received yet stays, and the new one is dropped.
ClockTicks ==
    /\ \E time \in Clock :
          /\ time > now /\ time <= now + MaxStep
          /\ now' = time
    /\ tickC' = IF tickC = NoTick THEN now' ELSE tickC
    /\ UNCHANGED <<tick, visit, nextRun, queue, running, ctxDone, gone,
                   stopped, fired>>

ClockSetBack ==
    /\ \E time \in Clock : time < now /\ time >= now - MaxBack /\ now' = time
    /\ UNCHANGED <<tickC, tick, visit, nextRun, queue, running, ctxDone, gone,
                   stopped, fired>>

-----------------------------------------------------------------------------
(* The ticker goroutine.                                                   *)

InTickerSelect == visit = 0 /\ "ticker" \notin gone

ReceiveTick ==
    /\ InTickerSelect
    /\ tickC # NoTick
    /\ tick' = tickC
    /\ tickC' = NoTick
    /\ visit' = IF NumTasks = 0 THEN 0 ELSE 1
    /\ UNCHANGED <<now, nextRun, queue, running, ctxDone, gone, stopped, fired>>

TickerLeaves ==
    /\ InTickerSelect
    /\ ctxDone
    /\ gone' = gone \cup {"ticker"}
    /\ UNCHANGED <<now, tickC, tick, visit, nextRun, queue, running, ctxDone,
                   stopped, fired>>

\* Mutant: a task is due a second early.
DueEarly(t) == tick + 1 >= nextRun[t]

Due(t) == tick >= nextRun[t]

NextTask == visit' = IF visit = NumTasks THEN 0 ELSE visit + 1

\* setNextRun, whether or not the queue has room.
Reschedule(t) ==
    /\ nextRun' = [nextRun EXCEPT ![t] = AlignTime(tick, Interval[t])]
    /\ fired' = [fired EXCEPT ![t] = tick \div Interval[t]]

NotDue ==
    /\ visit # 0
    /\ ~Due(visit)
    /\ NextTask
    /\ UNCHANGED <<now, tickC, tick, nextRun, queue, running, ctxDone, gone,
                   stopped, fired>>

Enqueue ==
    /\ visit # 0
    /\ Due(visit)
    /\ Len(queue) < QueueCap
    /\ queue' = Append(queue, visit)
    /\ Reschedule(visit)
    /\ NextTask
    /\ UNCHANGED <<now, tickC, tick, running, ctxDone, gone, stopped>>

\* Mutant: the oldest task makes room for the new one.
SkipOldest ==
    /\ visit # 0
    /\ Due(visit)
    /\ Len(queue) = QueueCap
    /\ queue' = Append(Tail(queue), visit)
    /\ Reschedule(visit)
    /\ NextTask
    /\ UNCHANGED <<now, tickC, tick, running, ctxDone, gone, stopped>>

\* default: "queue full, skipping task".
Skip ==
    /\ visit # 0
    /\ Due(visit)
    /\ Len(queue) = QueueCap
    /\ Reschedule(visit)
    /\ NextTask
    /\ UNCHANGED <<now, tickC, tick, queue, running, ctxDone, gone, stopped>>

-----------------------------------------------------------------------------
(* The worker goroutine: when the context is done and the queue is not     *)
(* empty, its select chooses either.                                       *)

InWorkerSelect == running = 0 /\ "worker" \notin gone

TakeTask ==
    /\ InWorkerSelect
    /\ queue # <<>>
    /\ running' = Head(queue)
    /\ queue' = Tail(queue)
    /\ UNCHANGED <<now, tickC, tick, visit, nextRun, ctxDone, gone, stopped,
                   fired>>

\* runWithTimeout returns: the run has ended or its context is done.
TaskOver ==
    /\ running # 0
    /\ running' = 0
    /\ UNCHANGED <<now, tickC, tick, visit, nextRun, queue, ctxDone, gone,
                   stopped, fired>>

WorkerLeaves ==
    /\ InWorkerSelect
    /\ ctxDone
    /\ gone' = gone \cup {"worker"}
    /\ UNCHANGED <<now, tickC, tick, visit, nextRun, queue, running, ctxDone,
                   stopped, fired>>

-----------------------------------------------------------------------------
(* Stop.                                                                   *)

Cancel ==
    /\ ~ctxDone
    /\ ctxDone' = TRUE
    /\ UNCHANGED <<now, tickC, tick, visit, nextRun, queue, running, gone,
                   stopped, fired>>

\* Mutant: only the ticker is waited for.
StopReturnsEarly ==
    /\ ctxDone
    /\ "ticker" \in gone
    /\ ~stopped
    /\ stopped' = TRUE
    /\ UNCHANGED <<now, tickC, tick, visit, nextRun, queue, running, ctxDone,
                   gone, fired>>

\* Mutant: Stop waits until nothing is queued.
StopReturnsDrained ==
    /\ ctxDone
    /\ gone = {"ticker", "worker"}
    /\ queue = <<>>
    /\ ~stopped
    /\ stopped' = TRUE
    /\ UNCHANGED <<now, tickC, tick, visit, nextRun, queue, running, ctxDone,
                   gone, fired>>

\* s.wg.Wait() returns.
StopReturns ==
    /\ ctxDone
    /\ gone = {"ticker", "worker"}
    /\ ~stopped
    /\ stopped' = TRUE
    /\ UNCHANGED <<now, tickC, tick, visit, nextRun, queue, running, ctxDone,
                   gone, fired>>

-----------------------------------------------------------------------------

TickerStep == ReceiveTick \/ NotDue \/ Enqueue \/ Skip
WorkerStep == TakeTask \/ TaskOver

Next ==
    \/ ClockTicks
    \/ ClockSetBack
    \/ TickerStep
    \/ TickerLeaves
    \/ WorkerStep
    \/ WorkerLeaves
    \/ Cancel
    \/ StopReturns

Spec == Init /\ [][Next]_vars

\* Both goroutines run.  A select chooses uniformly among its ready cases, so
\* a case that is ready again and again is chosen in the end: strong fairness
\* of the ctx.Done() cases.
Fairness ==
    /\ WF_vars(TickerStep)
    /\ WF_vars(WorkerStep)
    /\ SF_vars(TickerLeaves)
    /\ SF_vars(WorkerLeaves)
    /\ WF_vars(StopReturns)

FairSpec == Spec /\ Fairness

-----------------------------------------------------------------------------

\* The type invariant.
TypeOK ==
    /\ now \in Clock
    /\ tickC \in Clock \cup {NoTick}
    /\ tick \in Clock
    /\ visit \in 0..NumTasks
    /\ nextRun \in [Tasks -> Nat]
    /\ queue \in Seq(Tasks) /\ Len(queue) <= QueueCap
    /\ running \in 0..NumTasks
    /\ ctxDone \in BOOLEAN
    /\ gone \subseteq {"ticker", "worker"}
    /\ stopped \in BOOLEAN
    /\ fired \in [Tasks -> Nat]

\* A task's next execution time is always the boundary right after the one it
\* was last moved for ("tasks snap to natural clock boundaries").
OnBoundary == \A t \in Tasks : nextRun[t] = (fired[t] + 1) * Interval[t]

\* No boundary is used twice: a task gets into the queue only for a later
\* boundary than the last time, although ticks are late and dropped and the wall
\* clock is set back.
OncePerBoundary ==
    [][Len(queue') > Len(queue) =>
          LET t == queue'[Len(queue')] IN fired'[t] > fired[t]]_vars

\* Once the loop has been through a task, or waits for the next tick, the task
\* is not due any more at the time of the tick: a late tick offers a task once,
\* however many boundaries have passed.
VisitedNotDue ==
    \A t \in Tasks : visit = 0 \/ t < visit => nextRun[t] > tick

\* After Stop has returned the queue, the worker and the schedule stand still
\* (Run goes on to close the logger the goroutines write to).
QuietAfterStop == [][stopped => UNCHANGED <<queue, running, nextRun>>]_vars

\* A task that got into the queue is executed, unless the program is stopped
\* first: no task is overtaken for ever.
QueuedRuns ==
    \A t \in Tasks :
        (\E i \in 1..Len(queue) : queue[i] = t) ~> running = t \/ ctxDone

\* Stop returns, though ticks keep arriving and tasks are still queued.
StopEnds == ctxDone ~> stopped
=============================================================================
