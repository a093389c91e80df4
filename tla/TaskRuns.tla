------------------------------ MODULE TaskRuns ------------------------------
(***************************************************************************)
(* Task runs over the metrics store: Scheduler.runWithTimeout and Stop,    *)
(* and the three tasks that write measurements, RunPing, RunSpeedtest and  *)
(* the archival closure, calling the FileManager method by method.         *)
(*                                                                         *)
(* The worker executes one task of its queue at a time, in a goroutine of  *)
(* its own under a context with a deadline; it waits for the run to end OR *)
(* for the context to be done, and then turns to the next task.  A run     *)
(* whose context is done notices it only where its code looks.  Worker and *)
(* runs share the logger, whose calls hold a mutex.                        *)
(*                                                                         *)
(* A run is a caller of the store, and its timestamp is a slot of its own  *)
(* on the day it started: two runs never share a second here.              *)
(***************************************************************************)
EXTENDS FileManager, Integers

CONSTANTS
    Kinds,         \* the tasks that the configuration does not turn off
    Targets,       \* how many endpoints a ping run probes
    RetainDays,    \* the retention, in whole days
    SlowPlaces,    \* where a run may be when its deadline passes
    LogPlaces,     \* where a run may be when it calls the logger
    MaxExpiries    \* bound: how many runs overstay taskTimeout

NoRun == "no run"

AllKinds == {"ping", "speedtest", "archive", "rotate"}

ASSUME RunsAssumption ==
    /\ Kinds \subseteq AllKinds
    /\ NoRun \notin Callers
    /\ Targets \in Nat \ {0}
    /\ Values = 1..Targets
    /\ Slots = Callers
    /\ RetainDays \in Nat
    /\ MaxExpiries \in Nat
    /\ 1 \in Days

Runs == Callers

VARIABLES
    kind,        \* the task each run executes
    at,          \* where each run's goroutine is
    next,        \* the target it probes next
    date,        \* the day of its timestamp
    cancelled,   \* the runs whose context is done
    worker,      \* the run the worker waits for
    stopping,    \* s.cancel has been called
    stopped,     \* Stop has returned
    today,       \* the calendar
    expiries,    \* how many deadlines have passed
    logging,     \* the run inside a call of the logger, which holds its lock
    overlapped,  \* history: the runs that were under way beside another
    measured     \* history: the entries runs have handed to the store

runVars == <<kind, at, next, date, cancelled, worker, stopping, stopped,
             today, expiries, logging, overlapped, measured>>
vars == <<fmVars, runVars>>

Places == {"new", "begun", "starting", "probing", "skipped", "adding",
           "committed", "archiving", "rotating", "rotated", "done"}

Active(r) == at[r] \notin {"new", "done"}

\* The runs that go on although the worker no longer waits for them.
GivenUp == {q \in Runs : Active(q) /\ q \in cancelled}

SlotData(S, r) == {e \in S : e.slot = r}

\* What one run measures: every target, or the one bandwidth test.
Length(r) == IF kind[r] = "ping" THEN Targets ELSE 1

Reading(r) == [day |-> date[r], slot |-> r, val |-> next[r]]

Goes(r, place) == at' = [at EXCEPT ![r] = place]
Answered(r) == reply[r] # "pending"

\* Everything of runVars that a run's own steps leave alone.
RunFrame == UNCHANGED <<kind, date, cancelled, worker, stopping, stopped,
                        today, expiries, overlapped>>
FMFrame == UNCHANGED <<metrics, tmp, bak, archive, inTask, taskData, op, pc,
                       buf, todo, reply, faults, crashes>>

\* A run's own step that measures nothing and does not take the logger's lock.
MovesTo(r, place) ==
    Goes(r, place) /\ UNCHANGED <<next, measured, logging>> /\ RunFrame

\* What the worker, Stop, the timer and log calls leave alone.
WorkerFrame ==
    UNCHANGED <<kind, at, next, date, today, overlapped, measured>> /\ FMFrame

-----------------------------------------------------------------------------
(* The worker goroutine.                                                   *)

\* Mutant: the worker does not wait for the end of an archival run.
TakeBesideArchive(r, k) ==
    /\ op # "down" /\ op # "init"
    /\ worker # NoRun => kind[worker] = "archive"
    /\ ~stopped
    /\ at[r] = "new"
    /\ Goes(r, "begun")
    /\ kind' = [kind EXCEPT ![r] = k]
    /\ date' = [date EXCEPT ![r] = today]
    /\ worker' = r
    /\ cancelled' = IF stopping THEN cancelled \cup {r} ELSE cancelled
    /\ overlapped' = overlapped \cup
                      (IF GivenUp = {} THEN {} ELSE GivenUp \cup {r})
    /\ UNCHANGED <<next, stopping, stopped, today, expiries, logging,
                   measured>>
    /\ FMFrame

\* A queued task is taken; when Stop has been called too, the select may
\* still choose the queue, and the run starts with its context done.
Take(r, k) ==
    /\ op # "down" /\ op # "init"
    /\ worker = NoRun
    /\ ~stopped
    /\ at[r] = "new"
    /\ Goes(r, "begun")
    /\ kind' = [kind EXCEPT ![r] = k]
    /\ date' = [date EXCEPT ![r] = today]
    /\ worker' = r
    /\ cancelled' = IF stopping THEN cancelled \cup {r} ELSE cancelled
    /\ overlapped' = overlapped \cup
                      (IF GivenUp = {} THEN {} ELSE GivenUp \cup {r})
    /\ UNCHANGED <<next, stopping, stopped, today, expiries, logging,
                   measured>>
    /\ FMFrame

\* case <-done
RunDone ==
    /\ worker # NoRun
    /\ at[worker] = "done"
    /\ worker' = NoRun
    /\ cancelled' = cancelled \cup {worker}
    /\ UNCHANGED <<stopping, stopped, expiries, logging>>
    /\ WorkerFrame

\* Mutant: the worker waits for the run even when its context is done.
GiveUpWhenDone ==
    /\ worker \in cancelled
    /\ at[worker] = "done"
    /\ logging = NoRun
    /\ worker' = NoRun
    /\ UNCHANGED <<cancelled, stopping, stopped, expiries, logging>>
    /\ WorkerFrame

\* case <-ctx.Done(): the run's goroutine is not waited for; but the timeout
\* is logged, for which the worker needs the logger's lock.
GiveUp ==
    /\ worker \in cancelled
    /\ logging = NoRun
    /\ worker' = NoRun
    /\ UNCHANGED <<cancelled, stopping, stopped, expiries, logging>>
    /\ WorkerFrame

\* taskTimeout passes.
Expire ==
    /\ worker # NoRun
    /\ worker \notin cancelled
    /\ at[worker] \in SlowPlaces
    /\ expiries < MaxExpiries
    /\ expiries' = expiries + 1
    /\ cancelled' = cancelled \cup {worker}
    /\ UNCHANGED <<worker, stopping, stopped, logging>>
    /\ WorkerFrame

\* Stop cancels the context every run's context derives from ...
StopBegins ==
    /\ op # "down" /\ op # "init"
    /\ ~stopping
    /\ stopping' = TRUE
    /\ cancelled' = cancelled \cup {r \in Runs : at[r] # "new"}
    /\ UNCHANGED <<worker, stopped, expiries, logging>>
    /\ WorkerFrame

\* ... and waits for the worker (and the ticker), which is between two runs.
StopReturns ==
    /\ stopping
    /\ ~stopped
    /\ worker = NoRun
    /\ stopped' = TRUE
    /\ UNCHANGED <<cancelled, worker, stopping, expiries, logging>>
    /\ WorkerFrame

-----------------------------------------------------------------------------
(* RunPing and RunSpeedtest.                                               *)

\* RunSpeedtest alone looks at its context before it starts.
NeverStarts(r) ==
    /\ at[r] = "begun"
    /\ kind[r] = "speedtest"
    /\ r \in cancelled
    /\ MovesTo(r, "done")
    /\ FMFrame

Starts(r) ==
    /\ at[r] = "begun"
    /\ kind[r] = "ping" \/ (kind[r] = "speedtest" /\ r \notin cancelled)
    /\ StartTask(r)
    /\ MovesTo(r, "starting")

\* StartTask failed, before the deferred AbortTask is in place.
StartFailed(r) ==
    /\ at[r] = "starting"
    /\ reply[r] = "err"
    /\ MovesTo(r, "done")
    /\ FMFrame

\* At the head of the loop over the targets: the session has started, the last
\* probe failed, or its result has been handed in.  A ping run goes on when
\* saving fails, a speedtest does not.
AtLoop(r) ==
    \/ at[r] = "starting" /\ reply[r] = "ok"
    \/ at[r] = "skipped" /\ kind[r] = "ping"
    \/ at[r] = "adding" /\ Answered(r) /\ kind[r] = "ping"
    \/ at[r] = "adding" /\ reply[r] = "ok"

\* Mutant: the loop runs one target too far.
ProbePastEnd(r) ==
    /\ AtLoop(r)
    /\ next[r] <= Length(r) + 1
    /\ r \notin cancelled
    /\ MovesTo(r, "probing")
    /\ FMFrame

Probe(r) ==
    /\ AtLoop(r)
    /\ next[r] <= Length(r)
    /\ r \notin cancelled
    /\ MovesTo(r, "probing")
    /\ FMFrame

\* The probe, or the name lookup before it, fails, and the next target's turn
\* comes.
ProbeFails(r) ==
    /\ at[r] = "probing"
    /\ kind[r] = "ping"
    /\ Goes(r, "skipped")
    /\ next' = [next EXCEPT ![r] = @ + 1]
    /\ UNCHANGED <<measured, logging>>
    /\ RunFrame
    /\ FMFrame

\* The speedtest CLI fails, is killed with its context, or prints no JSON.
SpeedtestFails(r) ==
    /\ at[r] = "probing"
    /\ kind[r] = "speedtest"
    /\ MovesTo(r, "skipped")
    /\ FMFrame

\* It succeeds, in time or not, and the result is handed to the store.
ProbeSucceeds(r) ==
    /\ at[r] = "probing"
    /\ Add(r, Reading(r))
    /\ Goes(r, "adding")
    /\ next' = [next EXCEPT ![r] = @ + 1]
    /\ measured' = measured \cup {Reading(r)}
    /\ UNCHANGED logging
    /\ RunFrame

\* All targets are done; the context is not looked at again.
Commits(r) ==
    /\ AtLoop(r)
    /\ next[r] > Length(r)
    /\ CommitTask(r)
    /\ MovesTo(r, "committed")

\* Mutant: no deferred AbortTask; the run just returns.
AbortsForgotten(r) ==
    /\ \/ at[r] = "committed"
       \/ AtLoop(r) /\ next[r] <= Length(r) /\ r \in cancelled
       \/ at[r] = "skipped" /\ kind[r] = "speedtest"
       \/ at[r] = "adding" /\ reply[r] = "err" /\ kind[r] = "speedtest"
    /\ MovesTo(r, "done")
    /\ FMFrame

\* The deferred AbortTask: after a commit, when the loop (or the start of the
\* CLI) meets a done context, or when the bandwidth test or its saving failed.
Aborts(r) ==
    /\ \/ at[r] = "committed"
       \/ AtLoop(r) /\ next[r] <= Length(r) /\ r \in cancelled
       \/ at[r] = "skipped" /\ kind[r] = "speedtest"
       \/ at[r] = "adding" /\ reply[r] = "err" /\ kind[r] = "speedtest"
    /\ AbortTask(r)
    /\ MovesTo(r, "done")

-----------------------------------------------------------------------------
(* The archival closure: a day is old when its midnight lies RetainDays or *)
(* more before now.                                                        *)

Archives(r) ==
    /\ at[r] = "begun"
    /\ kind[r] = "archive"
    /\ Archive(r, today + 1 - RetainDays)
    /\ MovesTo(r, "archiving")

ArchiveReturns(r) ==
    /\ at[r] = "archiving"
    /\ Answered(r)
    /\ MovesTo(r, "done")
    /\ FMFrame

-----------------------------------------------------------------------------
(* The logger's lock: log rotation, which is a task too, holds it from its *)
(* first line to its last, and so does every log call.                     *)

Rotates(r) ==
    /\ at[r] = "begun"
    /\ kind[r] = "rotate"
    /\ logging = NoRun
    /\ logging' = r
    /\ Goes(r, "rotating")
    /\ UNCHANGED <<next, measured>>
    /\ RunFrame
    /\ FMFrame

Rotated(r) ==
    /\ at[r] = "rotating"
    /\ logging' = NoRun
    /\ Goes(r, "rotated")
    /\ UNCHANGED <<next, measured>>
    /\ RunFrame
    /\ FMFrame

\* runSimpleTask has logged how it went.
RotateReturns(r) ==
    /\ at[r] = "rotated"
    /\ MovesTo(r, "done")
    /\ FMFrame

InLogCall(r) == logging = r /\ at[r] # "rotating"

\* A run calls the logger, by itself or inside a method of the store, and does
\* nothing else until the call returns.
LogBegins(r) ==
    /\ Active(r)
    /\ at[r] \in LogPlaces
    /\ logging = NoRun
    /\ logging' = r
    /\ UNCHANGED <<cancelled, worker, stopping, stopped, expiries>>
    /\ WorkerFrame

LogReturns(r) ==
    /\ InLogCall(r)
    /\ logging' = NoRun
    /\ UNCHANGED <<cancelled, worker, stopping, stopped, expiries>>
    /\ WorkerFrame

-----------------------------------------------------------------------------

\* Midnight passes.
Tomorrow ==
    /\ today + 1 \in Days
    /\ today' = today + 1
    /\ UNCHANGED <<kind, at, next, date, cancelled, worker, stopping, stopped,
                   expiries, logging, overlapped, measured>>
    /\ FMFrame

\* The process ends with every goroutine in it, by a crash or because main
\* returned after Stop.
Ends ==
    /\ Crash \/ (stopped /\ Dies /\ UNCHANGED crashes)
    /\ at' = [r \in Runs |-> IF at[r] = "new" THEN "new" ELSE "done"]
    /\ worker' = NoRun
    /\ cancelled' = {}
    /\ stopping' = FALSE
    /\ stopped' = FALSE
    /\ logging' = NoRun
    /\ overlapped' = {}
    /\ UNCHANGED <<kind, next, date, today, expiries, measured>>

RunInit ==
    /\ kind = [r \in Runs |-> "ping"]
    /\ at = [r \in Runs |-> "new"]
    /\ next = [r \in Runs |-> 1]
    /\ date = [r \in Runs |-> 1]
    /\ cancelled = {}
    /\ worker = NoRun
    /\ stopping = FALSE
    /\ stopped = FALSE
    /\ today = 1
    /\ expiries = 0
    /\ logging = NoRun
    /\ overlapped = {}
    /\ measured = {}

Init == FMInit /\ RunInit

WorkerStep == RunDone \/ GiveUp \/ StopReturns

LogStep == \E r \in Runs : LogBegins(r) \/ LogReturns(r)

\* What a run does by itself; how its probes end is up to the network.
RunStep(r) ==
    \/ NeverStarts(r)
    \/ Starts(r)
    \/ StartFailed(r)
    \/ Probe(r)
    \/ Commits(r)
    \/ Aborts(r)
    \/ Archives(r)
    \/ ArchiveReturns(r)
    \/ Rotates(r)
    \/ Rotated(r)
    \/ RotateReturns(r)

\* A method whose caller is inside the logger stands still.
MethodGoesOn == Step /\ \A r \in Runs : logging = r => Answered(r)

StoreStep ==
    (Boot \/ MethodGoesOn \/ ExternalCorruption) /\ UNCHANGED runVars

Next ==
    /\ \/ \E r \in Runs, k \in Kinds : Take(r, k)
       \/ WorkerStep
       \/ Expire
       \/ StopBegins
       \/ LogStep
       \/ \E r \in Runs : /\ ~InLogCall(r)
                          /\ \/ RunStep(r) \/ ProbeSucceeds(r)
                             \/ ProbeFails(r) \/ SpeedtestFails(r)
       \/ StoreStep
       \/ Tomorrow
       \/ Ends
    /\ Observe

Spec == Init /\ [][Next]_vars

\* The worker and the timer run; the runs' goroutines need not: a name lookup
\* or a file-system call may hang for good.  But the logger's own calls return,
\* and sync.Mutex does not let the worker wait for the lock for ever while
\* others take it again and again.
Fairness ==
    /\ WF_vars(RunDone /\ Observe)
    /\ SF_vars(GiveUp /\ Observe)
    /\ WF_vars(StopReturns /\ Observe)
    /\ WF_vars(Expire /\ Observe)
    /\ WF_vars((\E r \in Runs : LogReturns(r) \/ Rotated(r)) /\ Observe)

FairSpec == Spec /\ Fairness

-----------------------------------------------------------------------------

\* The type invariant of the runs.
RunTypeOK ==
    /\ kind \in [Runs -> AllKinds]
    /\ at \in [Runs -> Places]
    /\ next \in [Runs -> 1..(Targets + 1)]
    /\ date \in [Runs -> Days]
    /\ cancelled \subseteq Runs
    /\ worker \in Runs \cup {NoRun}
    /\ stopping \in BOOLEAN /\ stopped \in BOOLEAN
    /\ today \in Days
    /\ expiries \in 0..MaxExpiries
    /\ logging \in Runs \cup {NoRun}
    /\ overlapped \subseteq Runs
    /\ measured \subseteq Entry

\* A run that has ended shows clients nothing new any more: what it staged and
\* did not commit (it was cancelled, it failed, the process died) cannot come up
\* later through a left-over staging file or through another run's session.
EndedRunsSilent ==
    [][\A r \in Runs :
          at[r] = "done" => SlotData(metrics'.data, r) \subseteq published]_vars

\* A session never outlives the runs that could close it: while one is open,
\* some run is between its StartTask and its deferred AbortTask.  (A session
\* left open would keep every later direct write in the staging file.)
NoLeakedSession ==
    inTask => \E r \in Runs :
                  at[r] \in {"starting", "probing", "skipped", "adding"}

\* "taskTimeout ... to prevent hung processes from blocking the worker": the
\* worker gets past every run, even one whose goroutine never moves again in a
\* lookup, the speedtest CLI or a call of the store, as long as it is not the
\* logger in which it hangs: what the worker logs waits for the same lock.
WorkerFreed == \A r \in Runs : worker = r ~> worker # r

\* CommitTask publishes "all collected metrics at once": when it succeeds for a
\* run whose context is not done, everything the run measured is in
\* metrics.json.
CommitComplete ==
    \A r \in Runs :
        at[r] # "committed" /\ at'[r] = "committed" /\ reply'[r] = "ok"
           /\ r \notin cancelled
        => SlotData(measured, r) \subseteq metrics'.data
CommitPublishes == [][CommitComplete]_vars

\* StartTask "prevents clients from observing incomplete ... metrics": entries of
\* a run appear in metrics.json when it has been through all its targets, and
\* then all of them appear.
WholeRunAppears ==
    \A r \in Runs :
        SlotData(metrics'.data \ metrics.data, r) # {}
        => SlotData(measured, r) \subseteq metrics'.data /\ next[r] > Length(r)

\* No run that is under way goes on, or has gone on, beside one that the worker
\* gave up.  This is true again once the runs that overlapped have ended.
Serial == \A r \in Runs : Active(r) => r \notin overlapped

\* Both hold whenever runs are serial, also after an overlap is over: what
\* runs that overlapped leave behind in the session flag, in the staging file
\* or half-way through a method does not reach the runs that come after them.
SerialCommitPublishes == [][Serial => CommitComplete]_vars
SerialAllAtOnce == [][Serial => WholeRunAppears]_vars

\* Whenever runs are serial, Archive "deletes them from active metrics.json" for
\* good: what has left metrics.json for the archive does not come back with the
\* commit of a session whose baseline was read before.
SerialArchivedStays ==
    [][Serial => archive \cap (metrics'.data \ metrics.data) = {}]_vars
=============================================================================
