--------------------------- MODULE TaskRunsProofs ---------------------------
(***************************************************************************)
(* Theorems about TaskRuns: what the store promises to any caller holds    *)
(* when the callers are task runs, the runs keep the staging protocol, and *)
(* it keeps its promises whenever runs are serial, for any number of runs, *)
(* targets and days, however they overlapped before.                       *)
(***************************************************************************)
EXTENDS TaskRuns, FileManagerProofs

-----------------------------------------------------------------------------
(* Type correctness.                                                       *)

\* A run probes only targets that it has.
ProbesInRange == \A r \in Runs : at[r] = "probing" => next[r] <= Length(r)

RunInv == RunTypeOK /\ ProbesInRange

LEMMA LengthType ==
    ASSUME NEW r \in Runs
    PROVE  Length(r) \in 1..Targets
  BY RunsAssumption DEF Length

\* What the worker, Stop, the timer, log calls and the calendar do is no
\* business of the runs' own state.
LEMMA QuietStep ==
    ASSUME WorkerStep \/ Expire \/ StopBegins \/ LogStep \/ Tomorrow
    PROVE  /\ UNCHANGED <<kind, at, next, date, overlapped, measured>>
           /\ FMFrame
  BY DEF WorkerStep, RunDone, GiveUp, StopReturns, Expire, StopBegins,
         LogStep, LogBegins, LogReturns, Tomorrow, WorkerFrame

LEMMA RunTypeStep ==
    ASSUME RunInv, [Next]_vars
    PROVE  RunInv'
<1> USE DEF RunInv, RunTypeOK, ProbesInRange
<1>1. CASE UNCHANGED vars
  BY <1>1 DEF vars, runVars, Length
<1>2. ASSUME NEW r \in Runs, NEW k \in Kinds, Take(r, k) PROVE RunInv'
  <2>1. /\ at' = [at EXCEPT ![r] = "begun"] /\ kind' = [kind EXCEPT ![r] = k]
        /\ at[r] = "new"
        /\ cancelled' \in {cancelled, cancelled \cup {r}}
        /\ date' = [date EXCEPT ![r] = today] /\ worker' = r
        /\ overlapped' \in {overlapped, overlapped \cup GivenUp \cup {r}}
        /\ UNCHANGED <<next, stopping, stopped, today, expiries, logging,
                       measured>>
    BY <1>2 DEF Take, Goes
  <2>2. RunTypeOK'
    BY <2>1, RunsAssumption DEF Places, GivenUp
  <2>3. ProbesInRange'
    BY <2>1 DEF Length
  <2> QED
    BY <2>2, <2>3
<1>3. CASE WorkerStep \/ Expire \/ StopBegins \/ LogStep
  <2>1. /\ UNCHANGED <<kind, at, next, date, today, overlapped, measured>>
        /\ worker' \in {worker, NoRun}
        /\ cancelled' \subseteq Runs /\ logging' \in Runs \cup {NoRun}
    BY <1>3
       DEF WorkerStep, RunDone, GiveUp, StopReturns, Expire, StopBegins,
           LogStep, LogBegins, LogReturns, WorkerFrame
  <2>2. stopping' \in BOOLEAN /\ stopped' \in BOOLEAN
    BY <1>3
       DEF WorkerStep, RunDone, GiveUp, StopReturns, Expire, StopBegins,
           LogStep, LogBegins, LogReturns
  <2>3. expiries' \in 0..MaxExpiries
    BY <1>3, RunsAssumption
       DEF WorkerStep, RunDone, GiveUp, StopReturns, Expire, StopBegins,
           LogStep, LogBegins, LogReturns
  <2> QED
    BY <2>1, <2>2, <2>3 DEF Length
<1>4. ASSUME NEW r \in Runs, NEW p \in Places, MovesTo(r, p),
             p = "probing" => next[r] <= Length(r)
      PROVE  RunInv'
  BY <1>4 DEF MovesTo, Goes, RunFrame, Length
<1>4a. ASSUME NEW r \in Runs, Rotates(r) \/ Rotated(r) PROVE RunInv'
  <2>1. /\ \E p \in {"rotating", "rotated"} : Goes(r, p)
        /\ logging' \in {r, NoRun}
        /\ UNCHANGED <<next, measured>> /\ RunFrame
    BY <1>4a DEF Rotates, Rotated
  <2> QED
    BY <2>1 DEF Goes, RunFrame, Places, Length
<1>5. ASSUME NEW r \in Runs, RunStep(r) \/ SpeedtestFails(r) PROVE RunInv'
  BY <1>4, <1>4a, <1>5
     DEF RunStep, NeverStarts, Starts, StartFailed, Probe, Commits, Aborts,
         Archives, ArchiveReturns, RotateReturns, SpeedtestFails, Places
<1>6. ASSUME NEW r \in Runs, ProbeSucceeds(r) \/ ProbeFails(r) PROVE RunInv'
  <2>1. next[r] \in 1..Targets /\ Reading(r) \in Entry
    BY <1>6, LengthType, RunsAssumption
       DEF ProbeSucceeds, ProbeFails, Reading, Entry, Runs
  <2>2. /\ next' = [next EXCEPT ![r] = @ + 1]
        /\ measured' \in {measured, measured \cup {Reading(r)}}
        /\ \E p \in {"skipped", "adding"} : Goes(r, p)
        /\ UNCHANGED logging
        /\ RunFrame
    BY <1>6 DEF ProbeSucceeds, ProbeFails
  <2> QED
    BY <2>1, <2>2, RunsAssumption DEF Goes, RunFrame, Places, Length
<1>7. CASE StoreStep
  BY <1>7 DEF StoreStep, MethodGoesOn, runVars, Length
<1>8. CASE Tomorrow
  BY <1>8 DEF Tomorrow, Length
<1>9. CASE Ends
  BY <1>9 DEF Ends, Places, Length
<1> QED
  BY <1>1, <1>2, <1>3, <1>5, <1>6, <1>7, <1>8, <1>9 DEF Next

\* Seen from the store, every step of the runs is one of its own or none.
LEMMA Projects ==
    ASSUME RunInv, Coherent, [Next]_vars
    PROVE  [StoreMoves]_fmVars
<1>1. CASE UNCHANGED vars
  BY <1>1 DEF vars
<1>2. ASSUME FMFrame, Observe PROVE UNCHANGED fmVars
  BY <1>2, PublishedSame DEF FMFrame, fmVars
<1>3. CASE (\E r \in Runs, k \in Kinds : Take(r, k)) /\ Observe
  BY <1>2, <1>3 DEF Take
<1>4. CASE (WorkerStep \/ Expire \/ StopBegins \/ LogStep \/ Tomorrow) /\ Observe
  BY <1>2, <1>4, QuietStep
<1>5. ASSUME NEW r \in Runs, Observe,
             RunStep(r) \/ ProbeSucceeds(r) \/ ProbeFails(r) \/ SpeedtestFails(r)
      PROVE  [StoreMoves]_fmVars
  <2>1. CASE \/ NeverStarts(r) \/ StartFailed(r) \/ Probe(r)
             \/ ArchiveReturns(r) \/ Rotates(r) \/ Rotated(r) \/ RotateReturns(r)
             \/ ProbeFails(r) \/ SpeedtestFails(r)
    BY <1>2, <1>5, <2>1
       DEF NeverStarts, StartFailed, Probe, ArchiveReturns, Rotates, Rotated,
           RotateReturns, ProbeFails, SpeedtestFails
  <2>2. CASE Starts(r) \/ Commits(r) \/ Aborts(r)
    BY <1>5, <2>2
       DEF Starts, Commits, Aborts, StoreMoves, FMNext, Call, Runs
  <2>3. CASE ProbeSucceeds(r)
    <3>1. Reading(r) \in Entry
      BY <2>3, LengthType, RunsAssumption
         DEF ProbeSucceeds, Reading, Entry, Runs, RunInv, RunTypeOK,
             ProbesInRange
    <3> QED
      BY <1>5, <2>3, <3>1 DEF ProbeSucceeds, StoreMoves, FMNext, Call, Runs
  <2>4. CASE Archives(r)
    <3>1. today + 1 - RetainDays \in Int
      BY RunsAssumption, DaysAssumption DEF RunInv, RunTypeOK
    <3> QED
      BY <1>5, <2>4, <3>1 DEF Archives, StoreMoves, Runs
  <2> QED
    BY <1>5, <2>1, <2>2, <2>3, <2>4 DEF RunStep
<1>6. CASE StoreStep /\ Observe
  BY <1>6 DEF StoreStep, MethodGoesOn, StoreMoves, FMNext
<1>7. CASE Ends /\ Observe
  <2>1. Crash \/ (Dies /\ UNCHANGED crashes)
    BY <1>7 DEF Ends
  <2> QED
    BY <1>7, <2>1 DEF StoreMoves, FMNext
<1> QED
  BY <1>1, <1>3, <1>4, <1>5, <1>6, <1>7 DEF Next

LEMMA RunsStart == Init => RunInv
<1> SUFFICES ASSUME RunInit PROVE RunInv
  BY DEF Init
<1>1. /\ 1 \in 1..(Targets + 1) /\ 0 \in 0..MaxExpiries /\ 1 \in Days
      /\ "ping" \in AllKinds /\ "new" \in Places
  BY RunsAssumption DEF AllKinds, Places
<1>2. /\ kind \in [Runs -> AllKinds] /\ at \in [Runs -> Places]
      /\ next \in [Runs -> 1..(Targets + 1)] /\ date \in [Runs -> Days]
      /\ \A r \in Runs : at[r] = "new"
  BY <1>1 DEF RunInit
<1> QED
  BY <1>1, <1>2 DEF RunInit, RunInv, RunTypeOK, ProbesInRange

\* The runs' state has its types, and the store's state is as coherent under
\* the calls of task runs as under calls in any order.
THEOREM RunsTyped == Spec => [](RunTypeOK /\ TypeOK /\ Coherent)
<1> DEFINE Inv == RunInv /\ TypeOK /\ Coherent
<1>1. Inv /\ [Next]_vars => Inv'
  BY RunTypeStep, Projects, TypeStep, CoherentStep
<1>2. Init => Inv
  BY RunsStart, StartTyped, StartCoherent DEF Init
<1>3. Inv => RunTypeOK /\ TypeOK /\ Coherent
  BY DEF RunInv
<1> QED
  BY <1>1, <1>2, <1>3, PTL DEF Spec
\* What clients have seen is not lost, whatever the runs do and however they
\* overlap (unless an archive file that is there cannot be read).
THEOREM RunsLoseNothing ==
    ASSUME "archread" \notin FaultOps
    PROVE  Spec => []Durable
<1> DEFINE Inv == RunInv /\ TypeOK /\ DurableInv
<1>1. Inv /\ [Next]_vars => Inv'
  <2>1. DurableInv => Coherent
    BY DEF DurableInv
  <2> QED
    BY <2>1, RunTypeStep, Projects, TypeStep, DurableStep
<1>2. Init => Inv
  BY RunsStart, StartTyped, StartDurable DEF Init
<1>3. Inv => Durable
  BY DEF DurableInv, AllKept, Durable
<1> QED
  BY <1>1, <1>2, <1>3, PTL DEF Spec

\* To the runs, and to clients, each method of the store is one step.
THEOREM RunsRefine ==
    ASSUME WritesWork
    PROVE  Spec => ImplementsStore
<1> DEFINE Inv == RunInv /\ TypeOK /\ Coherent /\ StoreInv
<1>1. Inv /\ [Next]_vars => Inv' /\ [Store!Next]_(Store!vars)
  BY RunTypeStep, Projects, TypeStep, CoherentStep, StoreInvStep,
     StoreStepRefines
<1>2. Init => Inv /\ Store!Init
  BY RunsStart, StartTyped, StartCoherent, StoreStarts DEF Init
<1> QED
  BY <1>1, <1>2, PTL DEF Spec, ImplementsStore, Store!Spec

-----------------------------------------------------------------------------
(* No session is left open.                                                *)

\* The run's session is open, as far as the run knows, or about to be.
InSession(r) ==
    \/ at[r] \in {"probing", "skipped", "adding"}
    \/ at[r] = "starting" /\ reply[r] = "ok"
    \/ at[r] = "starting" /\ reply[r] = "pending" /\ op = "start"

\* An open session has a run that will end it, and the StartTask under way has
\* the run that called it; that run need not be the session's last user.
SessionOwned ==
    /\ inTask => \E r \in Runs : InSession(r)
    /\ op = "start" => \E r \in Runs : at[r] = "starting" /\ reply[r] = "pending"

\* The steps of a method open a session only on behalf of StartTask, and leave
\* it open only when StartTask goes on or succeeds.
LEMMA SessionStep ==
    ASSUME TypeOK, Coherent, Boot \/ Step \/ ExternalCorruption
    PROVE  /\ inTask' => inTask \/ op = "start"
           /\ op' = "start" => op = "start" /\ UNCHANGED reply
           /\ inTask' /\ op = "start"
                 => \/ UNCHANGED <<op, reply>>
                    \/ \A c \in Callers : reply[c] = "pending" => reply'[c] = "ok"
           /\ \A c \in Callers : reply[c] # "pending" => reply'[c] = reply[c]
<1> DEFINE Outcome ==
      /\ inTask' => inTask \/ op = "start"
      /\ op' = "start" => op = "start" /\ UNCHANGED reply
      /\ inTask' /\ op = "start"
            => \/ UNCHANGED <<op, reply>>
               \/ \A c \in Callers : reply[c] = "pending" => reply'[c] = "ok"
      /\ \A c \in Callers : reply[c] # "pending" => reply'[c] = reply[c]
<1> SUFFICES Outcome
  OBVIOUS
<1>1. ASSUME NEW result, Finish(result), inTask' => inTask,
             inTask' /\ op = "start" => result = "ok"
      PROVE  Outcome
  BY <1>1 DEF Finish, TypeOK
<1>2. ASSUME UNCHANGED reply, inTask' => inTask \/ op = "start",
             op' = "start" => op = "start",
             inTask' /\ op = "start" => op' = "start"
      PROVE  Outcome
  BY <1>2
<1> HIDE DEF Outcome
<1>3. CASE Boot \/ ExternalCorruption
  BY <1>2, <1>3 DEF Boot, ExternalCorruption, mem, local
<1>4. CASE ReadFails \/ LoadSnapshot \/ MoveDayFails
  BY <1>1, <1>4
     DEF ReadFails, LoadSnapshot, Loads, MoveDayFails, mem, Coherent
<1>5. CASE ReadTorn \/ LoadForStart \/ LoadForAdd \/ LoadForArchive
  BY <1>2, <1>5
     DEF ReadTorn, LoadForStart, LoadForAdd, LoadForArchive, Loads, mem
<1>6. CASE Backup
  BY <1>1, <1>2, <1>6 DEF Backup, mem, Coherent
<1>7. CASE \E d \in Days : MoveDay(d)
  BY <1>2, <1>7 DEF MoveDay, mem
<1>8. CASE OpenTmp \/ FillTmp
  BY <1>1, <1>2, <1>8 DEF OpenTmp, FillTmp, WriteFails, mem
<1>9. CASE RenameTmp
  BY <1>1, <1>9 DEF RenameTmp, mem, Coherent, Staging
<1>10. CASE Discard
  BY <1>1, <1>10 DEF Discard
<1> QED
  BY <1>3, <1>4, <1>5, <1>6, <1>7, <1>8, <1>9, <1>10 DEF Step

LEMMA SessionOwnedStep ==
    ASSUME RunInv, TypeOK, Coherent, SessionOwned, [Next]_vars
    PROVE  SessionOwned'
<1> USE DEF SessionOwned, InSession, Runs
<1>0. at \in [Runs -> Places]
  BY DEF RunInv, RunTypeOK
<1>1. CASE UNCHANGED vars
  BY <1>1 DEF vars, fmVars, runVars
<1>2. ASSUME NEW r \in Runs, NEW k \in Kinds, Take(r, k) PROVE SessionOwned'
  BY <1>0, <1>2 DEF Take, Goes, FMFrame
<1>3. CASE WorkerStep \/ Expire \/ StopBegins \/ LogStep \/ Tomorrow
  BY <1>3, QuietStep DEF FMFrame
<1>4. ASSUME NEW r \in Runs, RunStep(r) \/ SpeedtestFails(r) PROVE SessionOwned'
  <2>1. CASE Starts(r)
    BY <1>0, <2>1 DEF Starts, StartTask, Acquire, MovesTo, Goes, TypeOK
  <2>2. CASE Commits(r) \/ Aborts(r)
    BY <2>2 DEF Commits, Aborts, CommitTask, AbortTask, Answer, local
  <2>3. CASE Archives(r)
    BY <1>0, <2>3
       DEF Archives, Archive, Acquire, MovesTo, Goes, TypeOK, mem
  <2>4. CASE NeverStarts(r) \/ StartFailed(r) \/ Probe(r)
             \/ ArchiveReturns(r) \/ Rotates(r) \/ Rotated(r)
             \/ RotateReturns(r) \/ SpeedtestFails(r)
    BY <1>0, <2>4
       DEF NeverStarts, StartFailed, Probe, AtLoop, ArchiveReturns, Rotates,
           Rotated, RotateReturns, SpeedtestFails, MovesTo, Goes, FMFrame
  <2> QED
    BY <1>4, <2>1, <2>2, <2>3, <2>4 DEF RunStep
<1>5. ASSUME NEW r \in Runs, ProbeSucceeds(r) \/ ProbeFails(r) PROVE SessionOwned'
  <2>1. \E q \in {"skipped", "adding"} : Goes(r, q)
    BY <1>5 DEF ProbeSucceeds, ProbeFails
  <2>2. op' # "start" \/ UNCHANGED <<op, reply>>
    BY <1>5 DEF ProbeSucceeds, ProbeFails, Add, FMFrame
  <2>3. at[r] = "probing"
    BY <1>5 DEF ProbeSucceeds, ProbeFails
  <2> QED
    BY <1>0, <2>1, <2>2, <2>3 DEF Goes
<1>6. CASE StoreStep
  <2>1. UNCHANGED at
    BY <1>6 DEF StoreStep, MethodGoesOn, runVars
  <2> QED
    BY <1>6, <2>1, SessionStep DEF StoreStep, MethodGoesOn
<1>7. CASE Ends
  BY <1>7 DEF Ends, Crash, Dies
<1> QED
  BY <1>1, <1>2, <1>3, <1>4, <1>5, <1>6, <1>7 DEF Next

\* While a session is open, some run is between its StartTask and its deferred
\* AbortTask, whatever fails and however runs overlap.
THEOREM NoSessionLeaks == Spec => []NoLeakedSession
<1>1. Init => SessionOwned
  BY DEF Init, FMInit, SessionOwned
<1>2. SessionOwned => NoLeakedSession
  BY DEF SessionOwned, InSession, NoLeakedSession
<1> DEFINE Inv == RunInv /\ TypeOK /\ Coherent /\ SessionOwned
<1>3. Inv /\ [Next]_vars => Inv'
  BY RunTypeStep, Projects, TypeStep, CoherentStep, SessionOwnedStep
<1>4. Init => Inv
  BY <1>1, RunsStart, StartTyped, StartCoherent DEF Init
<1> QED
  BY <1>2, <1>3, <1>4, PTL DEF Spec
-----------------------------------------------------------------------------
(* A run that has ended is silent.                                         *)

\* Whatever may still become metrics.json holds nothing of run r that clients
\* have not seen.  A staging file counts only while a session is open: what a
\* dead process or a failed Remove has left behind is never renamed.
Clean(r) ==
    /\ inTask => SlotData(taskData, r) \subseteq published
    /\ inTask /\ op # "start" => SlotData(tmp.data, r) \subseteq published
    /\ op \in {"add", "down"} \/ pc \in Writing => SlotData(buf, r) \subseteq published

\* Runs outside the loop over their targets have nothing in the air.
IdleRunsClean ==
    \A r \in Runs : at[r] \notin {"probing", "skipped", "adding"} => Clean(r)

\* Only a measurement of r itself can bring something of r into play.
LEMMA CleanStep ==
    ASSUME TypeOK, Coherent, NEW r, Clean(r), Observe,
           \/ Boot \/ Step \/ ExternalCorruption \/ Dies
           \/ \E c \in Callers : StartTask(c) \/ CommitTask(c) \/ AbortTask(c)
           \/ \E c \in Callers : \E cutoff : Archive(c, cutoff)
           \/ \E c \in Callers, e \in Entry : Add(c, e) /\ e.slot # r
    PROVE  Clean(r)'
<1> USE DEF Clean, SlotData, Writing
<1>0. published \subseteq published' /\ metrics.data \subseteq published
  BY DEF Observe, Coherent
<1>1. CASE Boot
  BY <1>0, <1>1 DEF Boot, mem, Coherent
<1>2. CASE Dies \/ Discard
  BY <1>2 DEF Dies, Discard, Finish
<1>3. CASE ReadFails \/ LoadSnapshot \/ MoveDayFails
  BY <1>0, <1>3
     DEF ReadFails, LoadSnapshot, Loads, MoveDayFails, Finish, disk, mem,
         Coherent
<1>4. CASE ReadTorn \/ LoadForStart \/ LoadForArchive
  BY <1>0, <1>4
     DEF ReadTorn, LoadForStart, LoadForArchive, Loads, disk, mem, Coherent
<1>5. CASE LoadForAdd
  BY <1>0, <1>5 DEF LoadForAdd, Loads, disk, mem
<1>6. CASE Backup
  BY <1>0, <1>6 DEF Backup, Finish, mem, Coherent
<1>7. CASE \E d \in Days : MoveDay(d)
  BY <1>0, <1>7 DEF MoveDay, mem, Coherent
<1>8. CASE OpenTmp
  BY <1>0, <1>8, FileFields DEF OpenTmp, WriteFails, Finish, mem
<1>9. CASE FillTmp
  <2>1. tmp' = Torn \/ tmp' = Whole(buf)
    BY <1>9 DEF FillTmp
  <2>2. \/ pc' = "free" /\ buf' = {}
        \/ pc' \in {"rename", "discard"} /\ UNCHANGED <<op, buf>>
    BY <1>9 DEF FillTmp, Finish, WriteFails
  <2> QED
    BY <1>0, <1>9, <2>1, <2>2, FileFields DEF FillTmp, mem
<1>10. CASE RenameTmp
  BY <1>0, <1>10, FileFields DEF RenameTmp, Finish, mem, Coherent, Staging
<1>11. CASE ExternalCorruption
  BY <1>0, <1>11 DEF ExternalCorruption, mem, local
<1>12. ASSUME NEW c \in Callers, StartTask(c) \/ CommitTask(c) \/ AbortTask(c)
       PROVE  Clean(r)'
  BY <1>12
     DEF StartTask, CommitTask, AbortTask, Answer, local, TypeOK
<1>13. CASE \E c \in Callers : \E cutoff : Archive(c, cutoff)
  BY <1>0, <1>13 DEF Archive, Acquire, disk, mem
<1>14. ASSUME NEW c \in Callers, NEW e \in Entry, Add(c, e), e.slot # r
       PROVE  Clean(r)'
  <2>1. op = "idle" /\ UNCHANGED <<tmp, inTask>> /\ op' = "add"
    BY <1>14 DEF Add, Acquire, disk
  <2>2. \/ inTask /\ buf' = taskData \cup {e} /\ taskData' = buf'
        \/ ~inTask /\ buf' = {e}
    BY <1>14 DEF Add
  <2> QED
    BY <1>0, <1>14, <2>1, <2>2
<1> QED
  BY <1>1, <1>2, <1>3, <1>4, <1>5, <1>6, <1>7, <1>8, <1>9, <1>10, <1>11,
     <1>12, <1>13, <1>14 DEF Step

LEMMA IdleRunsCleanStep ==
    ASSUME RunInv, TypeOK, Coherent, IdleRunsClean, [Next]_vars
    PROVE  IdleRunsClean'
<1> SUFFICES ASSUME NEW r \in Runs, at'[r] \notin {"probing", "skipped", "adding"}
             PROVE  Clean(r)'
  BY DEF IdleRunsClean
<1>0. at \in [Runs -> Places] /\ metrics.data \subseteq published
  BY DEF RunInv, RunTypeOK, Coherent
<1> DEFINE Idle == at[r] \notin {"probing", "skipped", "adding"}
<1>1. Idle => Clean(r)
  BY DEF IdleRunsClean
<1>2. ASSUME UNCHANGED at, UNCHANGED fmVars \/ (FMFrame /\ Observe)
      PROVE  Clean(r)'
  BY <1>1, <1>2 DEF Clean, SlotData, fmVars, FMFrame, Observe
<1>3. CASE UNCHANGED vars
  BY <1>2, <1>3 DEF vars, runVars
<1>4. ASSUME NEW s \in Runs, NEW p, Goes(s, p), FMFrame, Observe,
             at[s] \in {"probing", "skipped", "adding"}
                => p \in {"probing", "skipped", "adding"}
      PROVE  Clean(r)'
  <2>1. Idle
    BY <1>0, <1>4 DEF Goes
  <2> QED
    BY <1>1, <1>4, <2>1 DEF Clean, SlotData, FMFrame, Observe
<1>5. ASSUME NEW s \in Runs, NEW k \in Kinds, Take(s, k), Observe PROVE Clean(r)'
  BY <1>4, <1>5 DEF Take
<1>6. CASE (WorkerStep \/ Expire \/ StopBegins \/ LogStep \/ Tomorrow) /\ Observe
  BY <1>2, <1>6, QuietStep
<1>7. ASSUME NEW s \in Runs, Observe,
             \/ NeverStarts(s) \/ StartFailed(s) \/ Probe(s)
             \/ ArchiveReturns(s) \/ Rotates(s) \/ Rotated(s) \/ RotateReturns(s)
             \/ ProbeFails(s) \/ SpeedtestFails(s)
      PROVE  Clean(r)'
  BY <1>4, <1>7
     DEF NeverStarts, StartFailed, Probe, ArchiveReturns, Rotates, Rotated,
         RotateReturns, ProbeFails, SpeedtestFails, MovesTo
<1>8. ASSUME NEW s \in Runs, Observe, Commits(s) \/ Aborts(s) PROVE Clean(r)'
  <2>1. inTask' = FALSE /\ pc' = "free" /\ op' = "idle"
    BY <1>8 DEF Commits, Aborts, CommitTask, AbortTask, Answer, local, TypeOK
  <2> QED
    BY <2>1 DEF Clean, Writing
<1>9. ASSUME NEW s \in Runs, Observe, Starts(s) \/ Archives(s) PROVE Clean(r)'
  <2>1. Idle
    BY <1>0, <1>9 DEF Starts, Archives, MovesTo, Goes
  <2> QED
    BY <1>1, <1>9, <2>1, CleanStep DEF Starts, Archives, Runs
<1>10. ASSUME NEW s \in Runs, Observe, ProbeSucceeds(s) PROVE Clean(r)'
  <2>1. s # r /\ Idle
    BY <1>0, <1>10 DEF ProbeSucceeds, Goes
  <2>2. Reading(s) \in Entry /\ Reading(s).slot = s
    BY <1>10, LengthType, RunsAssumption
       DEF ProbeSucceeds, Reading, Entry, Runs, RunInv, RunTypeOK,
           ProbesInRange
  <2>3. Add(s, Reading(s)) /\ s \in Callers
    BY <1>10 DEF ProbeSucceeds, Runs
  <2> QED
    BY <1>1, <1>10, <2>1, <2>2, <2>3, CleanStep
<1>11. CASE StoreStep /\ Observe
  <2>1. Idle
    BY <1>11 DEF StoreStep, MethodGoesOn, runVars
  <2> QED
    BY <1>1, <1>11, <2>1, CleanStep DEF StoreStep, MethodGoesOn
<1>12. CASE Ends /\ Observe
  <2>1. inTask' = FALSE /\ pc' = "free" /\ buf' = {}
    BY <1>12 DEF Ends, Crash, Dies
  <2> QED
    BY <2>1 DEF Clean, Writing, SlotData
<1> QED
  BY <1>3, <1>5, <1>6, <1>7, <1>8, <1>9, <1>10, <1>11, <1>12 DEF Next, RunStep

\* Nothing of a run outside that loop is shown to clients for the first time.
LEMMA IdleRunShowsNothing ==
    ASSUME RunInv, Coherent, IdleRunsClean, [Next]_vars, NEW r \in Runs,
           at[r] \notin {"probing", "skipped", "adding"}
    PROVE  SlotData(metrics'.data, r) \subseteq published
<1>1. Clean(r) /\ metrics.data \subseteq published
  BY DEF IdleRunsClean, Coherent
<1>2. \/ metrics' \in {metrics, Absent, Torn}
      \/ inTask /\ metrics' = tmp /\ op = "idle"
      \/ pc = "rename" /\ metrics' = Whole(buf)
  BY Projects, MetricsChange
<1> QED
  BY <1>1, <1>2, FileFields DEF Clean, SlotData, Writing

LEMMA IdleRunsStartClean == Init => IdleRunsClean
  BY DEF Init, FMInit, IdleRunsClean, Clean, Writing, SlotData

\* What a run staged and did not commit does not come up after its end, neither
\* through a left-over staging file nor through the session of another run.
THEOREM EndedRunsAreSilent == Spec => EndedRunsSilent
<1> DEFINE Inv == RunInv /\ TypeOK /\ Coherent /\ IdleRunsClean
           Silent == \A r \in Runs : at[r] = "done" =>
                         SlotData(metrics'.data, r) \subseteq published
<1>1. Init => Inv
  BY IdleRunsStartClean, RunsStart, StartTyped, StartCoherent DEF Init
<1>2. Inv /\ [Next]_vars => Inv'
  BY RunTypeStep, Projects, TypeStep, CoherentStep, IdleRunsCleanStep
<1>3. Inv /\ [Next]_vars => [Silent]_vars
  BY IdleRunShowsNothing
<1> QED
  BY <1>1, <1>2, <1>3, PTL DEF Spec, EndedRunsSilent

-----------------------------------------------------------------------------
(* Serial runs.  Whenever no run that is under way overlaps with one that  *)
(* the worker gave up, or did, the staging protocol keeps its promises,    *)
(* whatever overlapped before: a commit that succeeds publishes all that   *)
(* the run measured, nothing of a run appears before, and what is archived *)
(* stays archived.                                                         *)

-----------------------------------------------------------------------------
(* The inductive invariant, in parts that hold whether or not runs are     *)
(* serial, and one about serial runs.                                      *)

\* A run that goes on is the one the worker waits for, or its context is done.
WorkerAlone == \A r \in Runs : Active(r) => r = worker \/ r \in cancelled

\* Two runs that go on at a time are both known to overlap.
OverlapsKnown ==
    \A r, q \in Runs : Active(r) /\ Active(q) /\ r # q => r \in overlapped

\* A run that has not come to its first target has left no trace.
Fresh ==
    \A r \in Runs : at[r] \in {"new", "begun", "starting"} =>
        /\ SlotData(measured, r) = {}
        /\ SlotData(published, r) = {}

\* The method under way is the one that its caller waits for.
CallersWait ==
    /\ \A r \in Runs : at[r] = "starting" /\ reply[r] = "pending"
                          => op \in {"start", "recover"}
    /\ op = "add" => \E r \in Runs : at[r] = "adding" /\ reply[r] = "pending"

\* StartTask stages what is shown.
BaselineStaged ==
    op = "start" =>
        /\ pc # "discard"
        /\ pc \in {"open", "fill"} => inTask /\ taskData = metrics.data

\* The archive holds nothing that clients have not seen.
ArchiveSeen == archive \subseteq published

\* The run is between the success of its StartTask and the end of its session.
Staged(r) ==
    \/ at[r] = "starting" /\ reply[r] = "ok"
    \/ at[r] \in {"probing", "skipped", "adding"}

\* Its session is what was shown when it began, which is what is shown still,
\* and all that the run has measured; and it is staged.
Session(r) ==
    /\ inTask
    /\ taskData = metrics.data \cup SlotData(measured, r)
    /\ SlotData(published, r) = {}
    /\ op = "idle" => tmp.st = "whole"
    /\ op # "idle" => op = "add" /\ pc \in {"open", "fill"}

\* A run that did not overlap with another has a session of its own.
SerialSession ==
    \A r \in Runs : Staged(r) /\ r \notin overlapped => Session(r)

SerialInv == /\ WorkerAlone /\ OverlapsKnown /\ Fresh /\ CallersWait
             /\ BaselineStaged /\ ArchiveSeen /\ SerialSession

-----------------------------------------------------------------------------
(* The parts, one by one.                                                  *)

\* A run moves by its own steps, when the worker takes it, or at the end.
LEMMA Moves ==
    ASSUME RunInv, [Next]_vars, NEW r \in Runs, at'[r] # at[r]
    PROVE  \/ \E k \in Kinds : Take(r, k)
           \/ RunStep(r) \/ ProbeSucceeds(r) \/ ProbeFails(r) \/ SpeedtestFails(r)
           \/ Ends
<1>0. at \in [Runs -> Places]
  BY DEF RunInv, RunTypeOK
<1>1. ~ UNCHANGED at
  OBVIOUS
<1>2. ~ UNCHANGED vars /\ ~StoreStep
  BY <1>1 DEF vars, runVars, StoreStep
<1>3. ~ (WorkerStep \/ Expire \/ StopBegins \/ LogStep \/ Tomorrow)
  BY <1>1, QuietStep
<1>4. ASSUME NEW s \in Runs, NEW k \in Kinds, Take(s, k) PROVE s = r
  BY <1>0, <1>4 DEF Take, Goes
<1>5. ASSUME NEW s \in Runs, NEW p, Goes(s, p) PROVE s = r
  BY <1>0, <1>5 DEF Goes
<1>6. ASSUME NEW s \in Runs,
             RunStep(s) \/ ProbeSucceeds(s) \/ ProbeFails(s) \/ SpeedtestFails(s)
      PROVE  s = r
  BY <1>5, <1>6
     DEF RunStep, NeverStarts, Starts, StartFailed, Probe, Commits, Aborts,
         Archives, ArchiveReturns, Rotates, Rotated, RotateReturns,
         ProbeSucceeds, ProbeFails, SpeedtestFails, MovesTo
<1> QED
  BY <1>2, <1>3, <1>4, <1>6 DEF Next

LEMMA WorkerAloneStep ==
    ASSUME RunInv, WorkerAlone, [Next]_vars
    PROVE  WorkerAlone'
<1> SUFFICES ASSUME NEW r \in Runs, Active(r)'
             PROVE  (r = worker \/ r \in cancelled)'
  BY DEF WorkerAlone
<1> USE DEF Active
<1>0. at \in [Runs -> Places] /\ NoRun \notin Runs
  BY RunsAssumption DEF RunInv, RunTypeOK, Runs
<1>1. Active(r) => r = worker \/ r \in cancelled
  BY DEF WorkerAlone
<1>2. CASE UNCHANGED vars
  BY <1>1, <1>2 DEF vars, runVars
<1>3. ASSUME NEW s \in Runs, NEW k \in Kinds, Take(s, k)
      PROVE  (r = worker \/ r \in cancelled)'
  BY <1>0, <1>1, <1>3 DEF Take, Goes
<1>4. CASE RunDone \/ GiveUp
  BY <1>1, <1>4 DEF RunDone, GiveUp, WorkerFrame
<1>5. CASE StopReturns \/ Expire \/ StopBegins \/ LogStep \/ Tomorrow
  BY <1>1, <1>5
     DEF StopReturns, Expire, StopBegins, LogStep, LogBegins, LogReturns,
         Tomorrow, WorkerFrame
<1>6. ASSUME NEW s \in Runs, NEW p, Goes(s, p), Active(s), RunFrame
      PROVE  (r = worker \/ r \in cancelled)'
  BY <1>0, <1>1, <1>6 DEF Goes, RunFrame
<1>7. ASSUME NEW s \in Runs,
             RunStep(s) \/ ProbeSucceeds(s) \/ ProbeFails(s) \/ SpeedtestFails(s)
      PROVE  (r = worker \/ r \in cancelled)'
  <2>1. Active(s)
    BY <1>7
       DEF RunStep, NeverStarts, Starts, StartFailed, Probe, AtLoop, Commits,
           Aborts, Archives, ArchiveReturns, Rotates, Rotated, RotateReturns,
           ProbeSucceeds, ProbeFails, SpeedtestFails
  <2>2. RunFrame /\ \E p : Goes(s, p)
    BY <1>7
       DEF RunStep, NeverStarts, Starts, StartFailed, Probe, Commits, Aborts,
           Archives, ArchiveReturns, Rotates, Rotated, RotateReturns,
           ProbeSucceeds, ProbeFails, SpeedtestFails, MovesTo
  <2> QED
    BY <1>6, <2>1, <2>2
<1>8. CASE StoreStep
  BY <1>1, <1>8 DEF StoreStep, MethodGoesOn, runVars
<1>9. CASE Ends
  BY <1>0, <1>9 DEF Ends
<1> QED
  BY <1>2, <1>3, <1>4, <1>5, <1>7, <1>8, <1>9 DEF Next, WorkerStep

LEMMA FreshStep ==
    ASSUME RunInv, Coherent, IdleRunsClean, Fresh, [Next]_vars
    PROVE  Fresh'
<1> SUFFICES ASSUME NEW r \in Runs, at'[r] \in {"new", "begun", "starting"}
             PROVE  /\ SlotData(measured', r) = {}
                    /\ SlotData(published', r) = {}
  BY DEF Fresh, SlotData
<1>0. at \in [Runs -> Places]
  BY DEF RunInv, RunTypeOK
<1>1. at[r] \in {"new", "begun", "starting"}
  <2>1. CASE at'[r] = at[r]
    BY <2>1
  <2>2. CASE at'[r] # at[r]
    BY <1>0, <2>2, Moves
       DEF Take, RunStep, NeverStarts, Starts, StartFailed, Probe, Commits,
           Aborts, Archives, ArchiveReturns, Rotates, Rotated, RotateReturns,
           ProbeSucceeds, ProbeFails, SpeedtestFails, MovesTo, Goes, Ends
  <2> QED
    BY <2>1, <2>2
<1>2. SlotData(measured, r) = {} /\ SlotData(published, r) = {}
  BY <1>1 DEF Fresh
<1>3. SlotData(metrics'.data, r) \subseteq published
  BY <1>1, IdleRunShowsNothing
<1>4. published' \subseteq published \cup metrics'.data
  BY DEF Next, Observe, vars, fmVars
<1>5. measured' = measured \/ \E s \in Runs : ProbeSucceeds(s)
  <2>1. CASE UNCHANGED vars \/ StoreStep \/ Tomorrow \/ Ends
    BY <2>1 DEF vars, runVars, StoreStep, Tomorrow, Ends
  <2>2. CASE WorkerStep \/ Expire \/ StopBegins \/ LogStep
    BY <2>2, QuietStep
  <2>3. ASSUME NEW s \in Runs, NEW k \in Kinds, Take(s, k)
        PROVE  measured' = measured
    BY <2>3 DEF Take
  <2>4. ASSUME NEW s \in Runs, RunStep(s) \/ ProbeFails(s) \/ SpeedtestFails(s)
        PROVE  measured' = measured
    BY <2>4
       DEF RunStep, NeverStarts, Starts, StartFailed, Probe, Commits, Aborts,
           Archives, ArchiveReturns, Rotates, Rotated, RotateReturns,
           ProbeFails, SpeedtestFails, MovesTo
  <2> QED
    BY <2>1, <2>2, <2>3, <2>4 DEF Next
<1>6. SlotData(measured', r) = {}
  <2>1. CASE measured' = measured
    BY <1>2, <2>1
  <2>2. ASSUME NEW s \in Runs, ProbeSucceeds(s) PROVE SlotData(measured', r) = {}
    <3>1. s # r /\ Reading(s).slot = s /\ measured' = measured \cup {Reading(s)}
      BY <1>1, <2>2 DEF ProbeSucceeds, Reading
    <3> QED
      BY <1>2, <3>1 DEF SlotData
  <2> QED
    BY <1>5, <2>1, <2>2
<1> QED
  BY <1>2, <1>3, <1>4, <1>6 DEF SlotData

\* What the steps of a method do to the method and its caller.
LEMMA MethodStep ==
    ASSUME TypeOK, Coherent, Boot \/ Step \/ ExternalCorruption
    PROVE  /\ op' \in {"start", "add"} => op' = op /\ UNCHANGED reply
           /\ op \in {"start", "recover"} =>
                 \/ op' \in {"start", "recover"}
                 \/ \A c \in Callers : reply'[c] # "pending"
           /\ \A c \in Callers : reply[c] # "pending" => reply'[c] = reply[c]
<1> DEFINE Outcome ==
      /\ op' \in {"start", "add"} => op' = op /\ UNCHANGED reply
      /\ op \in {"start", "recover"} =>
            \/ op' \in {"start", "recover"}
            \/ \A c \in Callers : reply'[c] # "pending"
      /\ \A c \in Callers : reply[c] # "pending" => reply'[c] = reply[c]
<1> SUFFICES Outcome
  OBVIOUS
<1>1. ASSUME NEW result \in {"ok", "err"}, Finish(result) PROVE Outcome
  BY <1>1 DEF Finish, TypeOK
<1>2. ASSUME UNCHANGED <<op, reply>> PROVE Outcome
  BY <1>2
<1>3. CASE Boot
  BY <1>3 DEF Boot
<1>4. CASE Backup
  BY <1>1, <1>4 DEF Backup
<1> HIDE DEF Outcome
<1>5. CASE ExternalCorruption
  BY <1>2, <1>5 DEF ExternalCorruption, local
<1>6. CASE \/ ReadFails \/ ReadTorn \/ LoadForStart \/ LoadForAdd
           \/ LoadForArchive \/ LoadSnapshot
  BY <1>1, <1>2, <1>6
     DEF ReadFails, ReadTorn, LoadForStart, LoadForAdd, LoadForArchive,
         LoadSnapshot
<1>7. CASE MoveDayFails \/ \E d \in Days : MoveDay(d)
  BY <1>1, <1>2, <1>7 DEF MoveDay, MoveDayFails
<1>8. CASE OpenTmp \/ FillTmp
  BY <1>1, <1>2, <1>8 DEF OpenTmp, FillTmp, WriteFails
<1>9. CASE RenameTmp \/ Discard
  BY <1>1, <1>9 DEF RenameTmp, Discard
<1> QED
  BY <1>3, <1>4, <1>5, <1>6, <1>7, <1>8, <1>9 DEF Step

LEMMA CallersWaitStep ==
    ASSUME RunInv, TypeOK, Coherent, CallersWait, [Next]_vars
    PROVE  CallersWait'
<1>0. at \in [Runs -> Places] /\ reply \in [Runs -> {"none", "pending", "ok", "err"}]
  BY DEF RunInv, RunTypeOK, TypeOK, Runs
<1> DEFINE One == \A r \in Runs : at[r] = "starting" /\ reply[r] = "pending"
                                     => op \in {"start", "recover"}
           Two == op = "add" => \E r \in Runs : at[r] = "adding" /\ reply[r] = "pending"
<1> SUFFICES One' /\ Two'
  BY DEF CallersWait
<1>1. One /\ Two
  BY DEF CallersWait
<1>2. ASSUME UNCHANGED <<at, op, reply>> PROVE One' /\ Two'
  BY <1>1, <1>2
<1>3. CASE UNCHANGED vars
  BY <1>2, <1>3 DEF vars, runVars, fmVars
<1>4. CASE WorkerStep \/ Expire \/ StopBegins \/ LogStep \/ Tomorrow
  BY <1>2, <1>4, QuietStep DEF FMFrame
<1>5. ASSUME NEW s \in Runs, NEW p, Goes(s, p), p # "starting", FMFrame,
             ~(at[s] = "adding" /\ reply[s] = "pending")
      PROVE  One' /\ Two'
  BY <1>0, <1>1, <1>5 DEF Goes, FMFrame
<1>6. ASSUME NEW s \in Runs, NEW k \in Kinds, Take(s, k) PROVE One' /\ Two'
  BY <1>5, <1>6 DEF Take
<1>7. ASSUME NEW s \in Runs,
             \/ NeverStarts(s) \/ StartFailed(s) \/ Probe(s)
             \/ ArchiveReturns(s) \/ Rotates(s) \/ Rotated(s) \/ RotateReturns(s)
             \/ ProbeFails(s) \/ SpeedtestFails(s)
      PROVE  One' /\ Two'
  BY <1>5, <1>7
     DEF NeverStarts, StartFailed, Probe, AtLoop, Answered, ArchiveReturns,
         Rotates, Rotated, RotateReturns, ProbeFails, SpeedtestFails, MovesTo
<1>8. ASSUME NEW s \in Runs, Starts(s) PROVE One' /\ Two'
  BY <1>0, <1>1, <1>8 DEF Starts, StartTask, MovesTo, Goes
<1>9. ASSUME NEW s \in Runs, Commits(s) \/ Aborts(s) \/ Archives(s)
      PROVE  One' /\ Two'
  <2>1. op = "idle" /\ op' \in {"idle", "archive"}
        /\ \E p \in {"committed", "done", "archiving"} : Goes(s, p)
        /\ \A r \in Runs \ {s} : reply'[r] = reply[r]
    BY <1>0, <1>9
       DEF Commits, Aborts, Archives, CommitTask, AbortTask, Archive, Acquire,
           Answer, local, MovesTo, Runs
  <2> QED
    BY <1>0, <1>1, <2>1 DEF Goes
<1>10. ASSUME NEW s \in Runs, ProbeSucceeds(s) PROVE One' /\ Two'
  BY <1>0, <1>1, <1>10 DEF ProbeSucceeds, Add, Acquire, Goes, Runs
<1>11. CASE StoreStep
  <2>1. UNCHANGED at
    BY <1>11 DEF StoreStep, MethodGoesOn, runVars
  <2> QED
    BY <1>0, <1>1, <1>11, <2>1, MethodStep DEF StoreStep, MethodGoesOn, Runs
<1>12. CASE Ends
  BY <1>0, <1>12 DEF Ends, Crash, Dies
<1> QED
  BY <1>3, <1>4, <1>6, <1>7, <1>8, <1>9, <1>10, <1>11, <1>12 DEF Next, RunStep

LEMMA BaselineStagedStep ==
    ASSUME TypeOK, Coherent, BaselineStaged, [StoreMoves]_fmVars, WritesWork
    PROVE  BaselineStaged'
<1> USE DEF BaselineStaged
<1>0. \A call \in {"open", "write", "rename", "archread", "corrupt"} : ~Fails(call)
  BY DEF WritesWork, Fails
<1>1. CASE UNCHANGED fmVars
  BY <1>1 DEF fmVars
<1>2. ASSUME op' # "start" \/ pc' = "read" PROVE BaselineStaged'
  BY <1>2
<1>3. ASSUME NEW c \in Callers, Call(c) \/ \E cutoff : Archive(c, cutoff)
      PROVE  BaselineStaged'
  BY <1>2, <1>3
     DEF Call, StartTask, CommitTask, AbortTask, Add, Archive, ReadMetrics,
         Answer, local
<1>4. CASE LoadForStart
  BY <1>4 DEF LoadForStart, Loads, disk
<1>5. CASE OpenTmp \/ FillTmp
  BY <1>0, <1>5 DEF OpenTmp, FillTmp, Finish, mem
<1>6. CASE Boot \/ Crash \/ Dies \/ ExternalCorruption
  BY <1>0, <1>2, <1>6 DEF Boot, Crash, Dies, ExternalCorruption
<1>7. CASE \/ ReadFails \/ LoadSnapshot \/ MoveDayFails \/ Discard
           \/ RenameTmp
  BY <1>2, <1>7
     DEF ReadFails, LoadSnapshot, MoveDayFails, Discard, RenameTmp, Finish
<1>8. CASE ReadTorn \/ LoadForAdd \/ LoadForArchive \/ Backup
  BY <1>2, <1>8
     DEF ReadTorn, LoadForAdd, LoadForArchive, Loads, Backup, Finish
<1>9. CASE \E d \in Days : MoveDay(d)
  BY <1>2, <1>9 DEF MoveDay, Coherent
<1> QED
  BY <1>1, <1>3, <1>4, <1>5, <1>6, <1>7, <1>8, <1>9
     DEF StoreMoves, FMNext, Step

LEMMA ArchiveSeenStep ==
    ASSUME Coherent, ArchiveSeen, [StoreMoves]_fmVars
    PROVE  ArchiveSeen'
<1>1. published \subseteq published'
  BY DEF StoreMoves, FMNext, Observe, fmVars
<1>2. ASSUME NEW d \in Days, MoveDay(d) PROVE archive' \subseteq archive \cup buf
  BY <1>2 DEF MoveDay, MergeDay, DayOf
<1>3. ASSUME NEW d \in Days, MoveDay(d) PROVE buf \subseteq published
  BY <1>3 DEF MoveDay, Coherent, Writing
<1> QED
  BY <1>1, <1>2, <1>3, ArchiveChange DEF ArchiveSeen
-----------------------------------------------------------------------------
(* The session of a serial run.                                            *)

\* A StartTask that waits for its reply hears "ok" only when its baseline has
\* been staged.
LEMMA StartSucceeds ==
    ASSUME TypeOK, Coherent, WritesWork, Boot \/ Step \/ ExternalCorruption,
           op \in {"start", "recover"}, NEW c \in Callers, reply[c] # "ok",
           reply'[c] = "ok"
    PROVE  op = "start" /\ FillTmp
<1>1. ~ UNCHANGED reply
  OBVIOUS
<1>2. ~Finish("err")
  BY DEF Finish, TypeOK
<1>3. ~Boot /\ ~ExternalCorruption
  BY <1>1 DEF Boot, ExternalCorruption
<1>4. ~ReadFails /\ ~MoveDayFails /\ ~Discard /\ ~Backup
  BY <1>1, <1>2 DEF ReadFails, MoveDayFails, Discard, Backup
<1>5. ~ (ReadTorn \/ LoadForStart \/ LoadForAdd \/ LoadForArchive \/ LoadSnapshot)
  BY <1>1
     DEF ReadTorn, LoadForStart, LoadForAdd, LoadForArchive, LoadSnapshot,
         Loads
<1>6. ~ \E d \in Days : MoveDay(d)
  BY <1>1 DEF MoveDay
<1>7. ~OpenTmp
  BY <1>1 DEF OpenTmp, WritesWork, Fails
<1>8. ~RenameTmp
  BY <1>2 DEF RenameTmp, Coherent, Staging
<1>9. FillTmp
  BY <1>3, <1>4, <1>5, <1>6, <1>7, <1>8 DEF Step
<1>10. op # "recover"
  BY <1>1, <1>9 DEF FillTmp, Staging, WritesWork, Fails
<1> QED
  BY <1>9, <1>10

\* A run enters the history of overlaps when the worker takes it or the next
\* one, and the history ends with the process.
LEMMA OverlappedStep ==
    ASSUME [Next]_vars, ~Ends
    PROVE  \/ overlapped' = overlapped
           \/ \E r \in Runs, k \in Kinds : Take(r, k)
<1>1. CASE UNCHANGED vars \/ StoreStep
  BY <1>1 DEF vars, runVars, StoreStep
<1>2. CASE WorkerStep \/ Expire \/ StopBegins \/ LogStep \/ Tomorrow
  BY <1>2, QuietStep
<1>3. ASSUME NEW s \in Runs,
             RunStep(s) \/ ProbeSucceeds(s) \/ ProbeFails(s) \/ SpeedtestFails(s)
      PROVE  overlapped' = overlapped
  BY <1>3
     DEF RunStep, NeverStarts, Starts, StartFailed, Probe, Commits, Aborts,
         Archives, ArchiveReturns, Rotates, Rotated, RotateReturns,
         ProbeSucceeds, ProbeFails, SpeedtestFails, MovesTo, RunFrame
<1> QED
  BY <1>1, <1>2, <1>3 DEF Next

LEMMA OverlapsKnownStep ==
    ASSUME RunInv, WorkerAlone, OverlapsKnown, [Next]_vars
    PROVE  OverlapsKnown'
<1> SUFFICES ASSUME NEW r \in Runs, NEW q \in Runs, Active(r)', Active(q)', r # q
             PROVE  r \in overlapped'
  BY DEF OverlapsKnown
<1>0. at \in [Runs -> Places] /\ NoRun \notin Runs
  BY RunsAssumption DEF RunInv, RunTypeOK, Runs
<1>1. CASE Ends
  BY <1>0, <1>1 DEF Ends, Active
<1>2. ASSUME NEW s \in Runs, NEW k \in Kinds, Take(s, k)
      PROVE  r \in overlapped'
  <2>1. /\ at' = [at EXCEPT ![s] = "begun"] /\ worker = NoRun
        /\ overlapped \cup (IF GivenUp = {} THEN {} ELSE GivenUp \cup {s})
              = overlapped'
    BY <1>2 DEF Take, Goes
  <2>2. \A p \in Runs \ {s} : Active(p)' => p \in GivenUp
    BY <1>0, <2>1 DEF Active, GivenUp, WorkerAlone
  <2>3. r \in GivenUp \/ (r = s /\ q \in GivenUp)
    BY <2>2
  <2> QED
    BY <2>1, <2>3
<1>3. CASE overlapped' = overlapped /\ ~Ends
                /\ ~ \E s \in Runs, k \in Kinds : Take(s, k)
  <2>1. ASSUME NEW p \in Runs, Active(p)' PROVE Active(p)
    <3>1. CASE at'[p] = at[p]
      BY <2>1, <3>1 DEF Active
    <3>2. CASE at'[p] # at[p]
      BY <1>3, <3>2, Moves
         DEF RunStep, NeverStarts, Starts, StartFailed, Probe, AtLoop, Commits,
             Aborts, Archives, ArchiveReturns, Rotates, Rotated, RotateReturns,
             ProbeSucceeds, ProbeFails, SpeedtestFails, Active
    <3> QED
      BY <3>1, <3>2
  <2> QED
    BY <1>3, <2>1 DEF OverlapsKnown
<1> QED
  BY <1>1, <1>2, <1>3, OverlappedStep

\* The session of the only run that goes on stays what it is, or it ends.
LEMMA SessionContinues ==
    ASSUME RunInv, TypeOK, Coherent, StoreInv, WritesWork, [Next]_vars, ~Ends,
           NEW r \in Runs, \A s \in Runs : Active(s) => s = r,
           ~ \E s \in Runs, k \in Kinds : Take(s, k),
           Staged(r), Session(r), Staged(r)'
    PROVE  Session(r)'
<1>0. /\ at \in [Runs -> Places] /\ NoRun \notin Runs
      /\ metrics.data \subseteq published
  BY RunsAssumption DEF RunInv, RunTypeOK, Runs, Coherent
<1>1. CASE UNCHANGED vars
  BY <1>1 DEF vars, fmVars, runVars, Session, SlotData
<1>2. ASSUME FMFrame, Observe, measured' = measured PROVE Session(r)'
  BY <1>0, <1>2 DEF FMFrame, Observe, Session, SlotData
<1>3. CASE (WorkerStep \/ Expire \/ StopBegins \/ LogStep \/ Tomorrow) /\ Observe
  BY <1>2, <1>3, QuietStep
<1>5. ASSUME NEW s \in Runs,
             RunStep(s) \/ ProbeSucceeds(s) \/ ProbeFails(s) \/ SpeedtestFails(s)
      PROVE  s = r
  BY <1>5
     DEF RunStep, NeverStarts, Starts, StartFailed, Probe, AtLoop, Commits,
         Aborts, Archives, ArchiveReturns, Rotates, Rotated, RotateReturns,
         ProbeSucceeds, ProbeFails, SpeedtestFails, Active
<1>6. CASE (Probe(r) \/ ProbeFails(r) \/ SpeedtestFails(r)) /\ Observe
  BY <1>2, <1>6 DEF Probe, ProbeFails, SpeedtestFails, MovesTo
<1>7. CASE \/ NeverStarts(r) \/ Starts(r) \/ StartFailed(r) \/ Commits(r)
           \/ Aborts(r) \/ Archives(r) \/ ArchiveReturns(r)
           \/ Rotates(r) \/ Rotated(r) \/ RotateReturns(r)
  BY <1>0, <1>7
     DEF NeverStarts, Starts, StartFailed, Commits, Aborts, Archives,
         ArchiveReturns, Rotates, Rotated, RotateReturns, MovesTo, Goes, Staged
<1>8. CASE ProbeSucceeds(r) /\ Observe
  <2>1. /\ UNCHANGED <<metrics, inTask>> /\ op' = "add" /\ pc' = "open"
        /\ taskData' = taskData \cup {Reading(r)}
        /\ measured' = measured \cup {Reading(r)}
        /\ Reading(r).slot = r
    BY <1>8 DEF ProbeSucceeds, Add, disk, Session, Reading
  <2>2. published' = published
    BY <1>0, <1>8, <2>1 DEF Observe
  <2>3. SlotData(measured', r) = SlotData(measured, r) \cup {Reading(r)}
    BY <2>1 DEF SlotData
  <2> QED
    BY <2>1, <2>2, <2>3 DEF Session
<1>9. CASE StoreStep /\ Observe
  <2>1. op = "add" /\ pc \in {"open", "fill"}
    <3>1. op # "idle"
      BY <1>9
         DEF StoreStep, MethodGoesOn, Step, Boot, ExternalCorruption, Fails,
             WritesWork, TypeOK, ReadFails, ReadTorn, LoadForStart,
             LoadForAdd, LoadForArchive, LoadSnapshot, Loads, Backup, MoveDay,
             MoveDayFails, OpenTmp, FillTmp, RenameTmp, Discard
    <3> QED
      BY <3>1 DEF Session
  <2>2. OpenTmp \/ FillTmp
    BY <1>9, <2>1
       DEF StoreStep, MethodGoesOn, Step, Boot, ExternalCorruption, Fails,
           WritesWork, ReadFails, ReadTorn, LoadForStart, LoadForAdd,
           LoadForArchive, LoadSnapshot, Loads, Backup, MoveDay, MoveDayFails,
           RenameTmp, Discard
  <2>3. UNCHANGED <<metrics, mem, measured>>
    BY <1>9, <2>2 DEF StoreStep, MethodGoesOn, runVars, OpenTmp, FillTmp
  <2>4. published' = published
    BY <1>0, <1>9, <2>3 DEF Observe
  <2>5. \/ op' = "add" /\ pc' = "fill"
        \/ op' = "idle" /\ tmp' = Whole(buf)
    BY <2>1, <2>2
       DEF OpenTmp, FillTmp, Staging, Finish, WritesWork, Fails, Session
  <2> QED
    BY <2>3, <2>4, <2>5, FileFields DEF Session, SlotData, mem
<1> QED
  BY <1>1, <1>3, <1>5, <1>6, <1>7, <1>8, <1>9 DEF Next, RunStep

\* A session that becomes a run's own is the baseline its StartTask has staged.
LEMMA SessionBegins ==
    ASSUME RunInv, TypeOK, Coherent, SerialInv, WritesWork, [Next]_vars, ~Ends,
           NEW r \in Runs, ~Staged(r), Staged(r)'
    PROVE  Session(r)'
<1>0. /\ at \in [Runs -> Places] /\ metrics.data \subseteq published
      /\ reply \in [Runs -> {"none", "pending", "ok", "err"}]
  BY DEF RunInv, RunTypeOK, Runs, Coherent, TypeOK
<1>1. at'[r] = at[r]
  <2>1. SUFFICES ASSUME at'[r] # at[r] PROVE FALSE
    OBVIOUS
  <2> QED
    BY <1>0, <2>1, Moves
       DEF Staged, Take, RunStep, NeverStarts, Starts, StartFailed, Probe,
           AtLoop, Commits, Aborts, Archives, ArchiveReturns, Rotates,
           Rotated, RotateReturns, ProbeSucceeds, ProbeFails, SpeedtestFails,
           MovesTo, Goes, StartTask, Acquire, Runs
<1>2. at[r] = "starting" /\ reply[r] # "ok" /\ reply'[r] = "ok"
  BY <1>1 DEF Staged
<1>3. StoreStep /\ Observe
  <2>1. ~ UNCHANGED reply
    BY <1>2
  <2>2. ~ (WorkerStep \/ Expire \/ StopBegins \/ LogStep \/ Tomorrow \/ UNCHANGED vars)
    BY <2>1, QuietStep DEF FMFrame, vars, fmVars
  <2>3. ASSUME NEW s \in Runs, NEW k \in Kinds, Take(s, k) PROVE FALSE
    BY <2>1, <2>3 DEF Take, FMFrame
  <2>4. ASSUME NEW s \in Runs,
               \/ NeverStarts(s) \/ StartFailed(s) \/ Probe(s)
               \/ ArchiveReturns(s) \/ Rotates(s) \/ Rotated(s) \/ RotateReturns(s)
               \/ ProbeFails(s) \/ SpeedtestFails(s)
        PROVE  FALSE
    BY <2>1, <2>4
       DEF NeverStarts, StartFailed, Probe, ArchiveReturns, Rotates, Rotated,
           RotateReturns, ProbeFails, SpeedtestFails, FMFrame
  <2>5. ASSUME NEW s \in Runs,
               \/ Starts(s) \/ Commits(s) \/ Aborts(s) \/ Archives(s)
               \/ ProbeSucceeds(s)
        PROVE  FALSE
    <3>1. s = r
      BY <1>0, <1>2, <2>5
         DEF Starts, Commits, Aborts, Archives, ProbeSucceeds, StartTask,
             CommitTask, AbortTask, Archive, Add, Acquire, Answer, Runs
    <3> QED
      BY <1>0, <1>1, <1>2, <2>5, <3>1
         DEF Starts, Commits, Aborts, AtLoop, Archives, ProbeSucceeds,
             MovesTo, Goes
  <2> QED
    BY <2>2, <2>3, <2>4, <2>5 DEF Next, RunStep
<1>4. reply[r] = "pending"
  BY <1>0, <1>2, <1>3, MethodStep DEF StoreStep, MethodGoesOn, Runs
<1>5. op \in {"start", "recover"}
  BY <1>2, <1>4 DEF SerialInv, CallersWait
<1>6. op = "start" /\ FillTmp
  BY <1>2, <1>3, <1>5, StartSucceeds DEF StoreStep, MethodGoesOn, Runs
<1>7. /\ inTask /\ taskData = metrics.data
      /\ UNCHANGED <<metrics, mem>> /\ op' = "idle" /\ tmp' = Whole(buf)
  BY <1>6
     DEF SerialInv, BaselineStaged, FillTmp, Staging, Finish, WritesWork, Fails
<1>8. published' = published /\ measured' = measured
  BY <1>0, <1>3, <1>7 DEF Observe, StoreStep, runVars
<1>9. SlotData(measured, r) = {} /\ SlotData(published, r) = {}
  BY <1>2 DEF SerialInv, Fresh
<1> QED
  BY <1>7, <1>8, <1>9, FileFields DEF Session, mem

LEMMA SerialSessionStep ==
    ASSUME RunInv, TypeOK, Coherent, StoreInv, SerialInv, WritesWork, [Next]_vars
    PROVE  SerialSession'
<1> SUFFICES ASSUME NEW r \in Runs, Staged(r)', r \notin overlapped'
             PROVE  Session(r)'
  BY DEF SerialSession, Session
<1>1. CASE Ends
  BY <1>1 DEF Ends, Staged
<1>2. CASE ~Ends
  <2>1. r \notin overlapped
    BY <1>2, OverlappedStep DEF Take
  <2>2. CASE Staged(r)
    <3>1. Active(r)
      BY <2>2 DEF Staged, Active
    <3>2. \A s \in Runs : Active(s) => s = r
      BY <2>1, <3>1 DEF SerialInv, OverlapsKnown
    <3>3. ASSUME NEW s \in Runs, NEW k \in Kinds, Take(s, k) PROVE FALSE
      <4>1. worker = NoRun /\ NoRun \notin Runs
        BY <3>3, RunsAssumption DEF Take, Runs
      <4>2. r \in GivenUp
        BY <3>1, <4>1 DEF SerialInv, WorkerAlone, GivenUp
      <4> QED
        BY <3>3, <4>2 DEF Take
    <3>4. Session(r)
      BY <2>1, <2>2 DEF SerialInv, SerialSession
    <3> QED
      BY <1>2, <2>2, <3>2, <3>3, <3>4, SessionContinues
  <2>3. CASE ~Staged(r)
    BY <1>2, <2>3, SessionBegins
  <2> QED
    BY <2>2, <2>3
<1> QED
  BY <1>1, <1>2

LEMMA SerialStep ==
    ASSUME RunInv, TypeOK, Coherent, StoreInv, IdleRunsClean, SerialInv,
           WritesWork, [Next]_vars
    PROVE  SerialInv'
<1>1. [StoreMoves]_fmVars
  BY Projects
<1> QED
  BY <1>1, WorkerAloneStep, OverlapsKnownStep, FreshStep, CallersWaitStep,
     BaselineStagedStep, ArchiveSeenStep, SerialSessionStep DEF SerialInv

LEMMA SerialStarts == Init => SerialInv
<1> SUFFICES ASSUME FMInit, RunInit PROVE SerialInv
  BY DEF Init
<1>1. /\ \A r \in Runs : at[r] = "new"
      /\ op = "down" /\ measured = {} /\ published = {} /\ archive = {}
  BY DEF FMInit, RunInit
<1> QED
  BY <1>1
     DEF SerialInv, WorkerAlone, OverlapsKnown, Fresh, CallersWait,
         BaselineStaged, ArchiveSeen, SerialSession, Active, Staged, SlotData

-----------------------------------------------------------------------------
(* What serial runs show.                                                  *)

\* All that holds of the runs and the store, in one invariant.
AllInv == /\ RunInv /\ TypeOK /\ Coherent /\ StoreInv
          /\ IdleRunsClean /\ SerialInv

LEMMA AllStep ==
    ASSUME AllInv, [Next]_vars, WritesWork
    PROVE  AllInv'
<1>1. RunInv' /\ [StoreMoves]_fmVars
  BY RunTypeStep, Projects DEF AllInv
<1>2. TypeOK' /\ Coherent' /\ StoreInv'
  BY <1>1, TypeStep, CoherentStep, StoreInvStep DEF AllInv
<1>3. IdleRunsClean' /\ SerialInv'
  BY IdleRunsCleanStep, SerialStep DEF AllInv
<1> QED
  BY <1>1, <1>2, <1>3 DEF AllInv

LEMMA AllStarts == Init => AllInv
  BY RunsStart, StartTyped, StartCoherent, StoreStarts, IdleRunsStartClean,
     SerialStarts
     DEF Init, AllInv

\* A commit of a serial run shows all that the run has measured, which nobody
\* has seen before, and nothing else that is new.
LEMMA CommitShows ==
    ASSUME AllInv, Serial, NEW r \in Runs, Commits(r)
    PROVE  /\ \/ metrics'.data = metrics.data \cup SlotData(measured, r)
              \/ reply'[r] = "err" /\ metrics' = metrics
           /\ SlotData(published, r) = {}
           /\ next[r] > Length(r)
<1>1. Staged(r)
  BY DEF Commits, AtLoop, Staged
<1>2. Session(r)
  BY <1>1 DEF AllInv, SerialInv, SerialSession, Serial, Staged, Active
<1>3. /\ CommitTask(r) /\ op = "idle" /\ pc = "free"
      /\ reply \in [Callers -> {"none", "pending", "ok", "err"}]
  BY DEF Commits, CommitTask, Answer, AllInv, TypeOK
<1>4. tmp = Whole(taskData)
  BY <1>2, <1>3 DEF AllInv, StoreInv, SessionStaged, Refreshing, Session
<1>5. metrics' = tmp \/ (reply'[r] = "err" /\ metrics' = metrics)
  BY <1>2, <1>3, <1>4, FileFields DEF CommitTask, Answer, Session, Runs
<1>6. next[r] > Length(r)
  BY DEF Commits
<1> QED
  BY <1>2, <1>4, <1>5, <1>6, FileFields DEF Session

\* Nothing else that happens while runs are serial shows anything new.
LEMMA SerialChange ==
    ASSUME AllInv, WritesWork, Serial, [Next]_vars,
           \A s \in Runs : ~Commits(s)
    PROVE  metrics'.data \subseteq metrics.data
<1>1. [StoreMoves]_fmVars
  BY Projects DEF AllInv
<1>2. \/ metrics'.data \subseteq metrics.data
      \/ op = "idle"
      \/ pc = "rename" /\ metrics' = Whole(buf)
  BY <1>1, MetricsChange, FileFields DEF AllInv, WritesWork, Fails
<1>3. CASE op = "idle"
  <2>1. UNCHANGED metrics
    <3>0. pc = "free" /\ ~Fails("corrupt")
      BY <1>3 DEF AllInv, TypeOK, WritesWork, Fails
    <3>1. CASE UNCHANGED vars
      BY <3>1 DEF vars, fmVars
    <3>2. CASE WorkerStep \/ Expire \/ StopBegins \/ LogStep \/ Tomorrow
      BY <3>2, QuietStep DEF FMFrame
    <3>3. ASSUME NEW s \in Runs, NEW k \in Kinds, Take(s, k) PROVE UNCHANGED metrics
      BY <3>3 DEF Take, FMFrame
    <3>4. ASSUME NEW s \in Runs,
                 \/ NeverStarts(s) \/ StartFailed(s) \/ Probe(s)
                 \/ ArchiveReturns(s) \/ Rotates(s) \/ Rotated(s) \/ RotateReturns(s)
                 \/ ProbeFails(s) \/ SpeedtestFails(s)
          PROVE  UNCHANGED metrics
      BY <3>4
         DEF NeverStarts, StartFailed, Probe, ArchiveReturns, Rotates,
             Rotated, RotateReturns, ProbeFails, SpeedtestFails, FMFrame
    <3>5. ASSUME NEW s \in Runs,
                 Starts(s) \/ Aborts(s) \/ Archives(s) \/ ProbeSucceeds(s)
          PROVE  UNCHANGED metrics
      BY <3>5
         DEF Starts, Aborts, Archives, ProbeSucceeds, StartTask, AbortTask,
             Archive, Add, disk
    <3>6. CASE StoreStep
      BY <1>3, <3>0, <3>6
         DEF StoreStep, MethodGoesOn, Boot, Step, ExternalCorruption,
             ReadFails, ReadTorn, LoadForStart, LoadForAdd, LoadForArchive,
             LoadSnapshot, Loads, Backup, MoveDay, MoveDayFails, OpenTmp,
             FillTmp, RenameTmp, Discard
    <3>7. CASE Ends
      BY <3>7 DEF Ends, Crash, Dies, disk
    <3> QED
      BY <3>1, <3>2, <3>3, <3>4, <3>5, <3>6, <3>7 DEF Next, RunStep
  <2> QED
    BY <2>1
<1>4. CASE pc = "rename" /\ metrics' = Whole(buf)
  <2>1. ~Staging /\ op \in {"init", "recover", "add", "archive"}
    BY <1>4 DEF AllInv, Coherent, TypeOK, Ops, Staging
  <2>2. CASE op \in {"init", "recover"}
    BY <1>4, <2>2, FileFields DEF AllInv, StoreInv, CreatesEmpty
  <2>3. CASE op = "archive"
    BY <1>4, <2>3, FileFields DEF AllInv, StoreInv, MovedDaysKept, Writing
  <2>4. CASE op = "add"
    <3>1. PICK r \in Runs : at[r] = "adding"
      BY <2>4 DEF AllInv, SerialInv, CallersWait
    <3>2. Session(r)
      BY <3>1 DEF AllInv, SerialInv, SerialSession, Serial, Staged, Active
    <3> QED
      BY <2>1, <2>4, <3>2 DEF Session, Staging
  <2> QED
    BY <2>1, <2>2, <2>3, <2>4
<1> QED
  BY <1>2, <1>3, <1>4

\* What appears to clients belongs to the run that commits.
LEMMA NewIsCommitted ==
    ASSUME AllInv, WritesWork, Serial, [Next]_vars,
           NEW e \in metrics'.data \ metrics.data
    PROVE  \E r \in Runs :
              /\ Commits(r)
              /\ metrics'.data = metrics.data \cup SlotData(measured, r)
              /\ e \in SlotData(measured, r)
              /\ SlotData(published, r) = {}
              /\ next[r] > Length(r)
<1>1. PICK r \in Runs : Commits(r)
  BY SerialChange
<1> QED
  BY <1>1, CommitShows

\* A run becomes "committed" by a commit.
LEMMA CommittedByCommit ==
    ASSUME AllInv, [Next]_vars, NEW r \in Runs,
           at[r] # "committed", at'[r] = "committed"
    PROVE  Commits(r)
<1>0. at \in [Runs -> Places]
  BY DEF AllInv, RunInv, RunTypeOK
<1> QED
  BY <1>0, Moves
     DEF AllInv, Take, RunStep, NeverStarts, Starts, StartFailed, Probe,
         Aborts, Archives, ArchiveReturns, Rotates, Rotated, RotateReturns,
         ProbeSucceeds, ProbeFails, SpeedtestFails, MovesTo, Goes, Ends

\* A commit that succeeds for a run that was not cancelled has published all
\* that the run measured, while runs are serial.
THEOREM SerialRunsCommit ==
    ASSUME WritesWork
    PROVE  Spec => SerialCommitPublishes
<1>1. ASSUME AllInv, [Next]_vars PROVE Serial => CommitComplete
  <2> SUFFICES ASSUME Serial, NEW r \in Runs, at[r] # "committed",
                      at'[r] = "committed", reply'[r] = "ok"
               PROVE  SlotData(measured, r) \subseteq metrics'.data
    BY DEF CommitComplete
  <2> QED
    BY <1>1, CommittedByCommit, CommitShows
<1>2. AllInv /\ [Next]_vars => AllInv'
  BY AllStep
<1> QED
  BY <1>1, <1>2, AllStarts, PTL DEF Spec, SerialCommitPublishes

\* Entries of a run appear when it has been through all its targets, and then
\* all that it measured appears at once, while runs are serial.
THEOREM SerialRunsAppearWhole ==
    ASSUME WritesWork
    PROVE  Spec => SerialAllAtOnce
<1>1. ASSUME AllInv, [Next]_vars PROVE Serial => WholeRunAppears
  <2> SUFFICES ASSUME Serial, NEW r \in Runs,
                      NEW e \in SlotData(metrics'.data \ metrics.data, r)
               PROVE  SlotData(measured, r) \subseteq metrics'.data /\ next[r] > Length(r)
    BY DEF WholeRunAppears
  <2>1. e \in metrics'.data \ metrics.data /\ e.slot = r
    BY DEF SlotData
  <2>2. PICK s \in Runs : /\ metrics'.data = metrics.data \cup SlotData(measured, s)
                          /\ e \in SlotData(measured, s)
                          /\ next[s] > Length(s)
    BY <1>1, <2>1, NewIsCommitted
  <2>3. s = r
    BY <2>1, <2>2 DEF SlotData
  <2> QED
    BY <2>2, <2>3
<1>2. AllInv /\ [Next]_vars => AllInv'
  BY AllStep
<1> QED
  BY <1>1, <1>2, AllStarts, PTL DEF Spec, SerialAllAtOnce

\* What has left metrics.json for the archive does not come back with a
\* session that was staged before, while runs are serial.
THEOREM SerialRunsKeepArchived ==
    ASSUME WritesWork
    PROVE  Spec => SerialArchivedStays
<1>1. ASSUME AllInv, [Next]_vars
      PROVE  Serial => archive \cap (metrics'.data \ metrics.data) = {}
  <2> SUFFICES ASSUME Serial, NEW e \in metrics'.data \ metrics.data,
                      e \in archive
               PROVE  FALSE
    OBVIOUS
  <2>1. PICK r \in Runs : /\ e \in SlotData(measured, r)
                          /\ SlotData(published, r) = {}
    BY <1>1, NewIsCommitted
  <2>2. e \in published
    BY <1>1 DEF AllInv, SerialInv, ArchiveSeen
  <2> QED
    BY <2>1, <2>2 DEF SlotData
<1>2. AllInv /\ [Next]_vars => AllInv'
  BY AllStep
<1> QED
  BY <1>1, <1>2, AllStarts, PTL DEF Spec, SerialArchivedStays
=============================================================================
