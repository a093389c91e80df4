---------------------------- MODULE FileManager ----------------------------
(***************************************************************************)
(* The metrics store of WTWatcher: cmd/modules/file_management.go.         *)
(*                                                                         *)
(* A FileManager keeps three things on disk, metrics.json (which the HTTP  *)
(* server hands to any client at any time, without the lock), the staging  *)
(* file metrics.json.tmp and one archive file per day, and two things in   *)
(* memory, the flag of an open task session and the session's dataset.     *)
(* Every method holds fm.mu from its first line to its last, so at most    *)
(* one method is under way (op); but a method is many file-system calls,   *)
(* each of which can fail, and the process can die between any two of      *)
(* them.  Those calls are the steps of this specification (pc).            *)
(*                                                                         *)
(* A measurement is an entry [day, slot, val]: a slot is the time key of   *)
(* one task run within a day, and several values may share a slot.  A file *)
(* is absent, torn (present, but not a decodable JSON document: truncated  *)
(* by O_TRUNC, partially written, or corrupted) or whole.                  *)
(***************************************************************************)
EXTENDS Naturals, FiniteSets

CONSTANTS
    Callers,     \* the goroutines that call the store
    Days,        \* the date keys, in calendar order
    Slots,       \* the time keys within a day
    Values,      \* the measurements a slot may hold
    FaultOps,    \* which file-system calls may fail
    MaxFaults,   \* bound: how many of them fail in one behaviour
    MaxCrashes   \* bound: how many times the process dies

AllFaultOps == {"read", "open", "write", "rename", "remove", "backup",
                "archread", "archwrite", "corrupt"}

ASSUME DaysAssumption   == Days \subseteq Nat
ASSUME FaultsAssumption == FaultOps \subseteq AllFaultOps
ASSUME BoundsAssumption == MaxFaults \in Nat /\ MaxCrashes \in Nat

Entry == [day : Days, slot : Slots, val : Values]

Absent      == [st |-> "absent", data |-> {}]
Torn        == [st |-> "torn",   data |-> {}]
Whole(data) == [st |-> "whole",  data |-> data]

VARIABLES
    metrics,     \* metrics.json
    tmp,         \* metrics.json.tmp, shared by staging and by writeRaw
    bak,         \* a corrupted metrics.json was moved to metrics.json.bak
    archive,     \* the union of the archive files
    inTask,      \* fm.inTask
    taskData,    \* fm.taskData ({} for nil)
    op,          \* the method that holds fm.mu, "idle", or "down"
    pc,          \* its next file-system call
    buf,         \* the dataset it is building or writing
    todo,        \* the days its archival loop has still to move
    reply,       \* what each caller's last call returned
    faults,      \* how many calls have failed
    crashes,     \* how many times the process died
    published    \* history: every entry metrics.json has ever shown

disk  == <<metrics, tmp, bak, archive>>
mem   == <<inTask, taskData>>
local == <<op, pc, buf, todo>>
fmVars == <<metrics, tmp, bak, archive, inTask, taskData, op, pc, buf, todo,
            reply, faults, crashes, published>>

File == [st : {"absent", "torn", "whole"}, data : SUBSET Entry]
Ops  == {"down", "idle", "init", "start", "add", "archive", "read", "recover"}
Pcs  == {"free", "read", "backup", "days", "open", "fill", "rename", "discard"}

\* The entries of S that belong to day d, and the days S has entries for.
DayOf(S, d) == {e \in S : e.day = d}
SameSlot(e, f) == e.day = f.day /\ e.slot = f.slot

-----------------------------------------------------------------------------
(* Outcomes of a file-system call, and the end of a method.                *)

Works == UNCHANGED faults

Fails(call) ==
    /\ call \in FaultOps
    /\ faults < MaxFaults
    /\ faults' = faults + 1

\* fm.mu.Lock(): the call of c begins.
Acquire(c) ==
    /\ op = "idle"
    /\ reply' = [reply EXCEPT ![c] = "pending"]

\* Mutant: a method that returns without unlocking.
FinishLocked(result) ==
    /\ pc' = "free"
    /\ buf' = {}
    /\ todo' = {}
    /\ reply' = [c \in Callers |->
                    IF reply[c] = "pending" THEN result ELSE reply[c]]
    /\ UNCHANGED op

\* The method returns and its deferred Unlock runs; NewFileManager has no
\* caller, and when it fails the program exits.
Finish(result) ==
    /\ op' = IF op = "init" /\ result = "err" THEN "down" ELSE "idle"
    /\ pc' = "free"
    /\ buf' = {}
    /\ todo' = {}
    /\ reply' = [c \in Callers |->
                    IF reply[c] = "pending" THEN result ELSE reply[c]]

\* A call whose whole body is one step.
Answer(c, result) ==
    /\ op = "idle"
    /\ reply' = [reply EXCEPT ![c] = result]
    /\ UNCHANGED local

\* _ = os.Remove(fm.tmpPath()): the error is dropped.
RemoveTmp ==
    \/ Works /\ tmp' = Absent
    \/ Fails("remove") /\ UNCHANGED tmp

\* Mutant: measurements go straight to metrics.json during a session.
StagingBaselineOnly == op = "start"

\* Do the bytes now being written stay in the staging file?
Staging == op = "start" \/ (op = "add" /\ inTask)

-----------------------------------------------------------------------------
(* The public methods: what happens up to their first read or write.       *)

Boot ==
    /\ op = "down"
    /\ IF tmp.st = "absent" THEN Works /\ UNCHANGED tmp ELSE RemoveTmp
    /\ IF metrics.st = "absent"
         THEN op' = "init" /\ pc' = "open"
         ELSE op' = "idle" /\ pc' = "free"
    /\ UNCHANGED <<metrics, bak, archive, mem, buf, todo, reply, crashes>>

StartTask(c) ==
    /\ Acquire(c)
    /\ IF inTask THEN RemoveTmp ELSE Works /\ UNCHANGED tmp
    /\ inTask' = FALSE
    /\ taskData' = {}
    /\ op' = "start"
    /\ pc' = "read"
    /\ UNCHANGED <<metrics, bak, archive, buf, todo, crashes>>

CommitTask(c) ==
    /\ inTask' = FALSE
    /\ taskData' = {}
    /\ \/ /\ ~inTask \/ tmp.st = "absent"
          /\ Answer(c, "ok")
          /\ Works
          /\ UNCHANGED <<metrics, tmp>>
       \/ /\ inTask /\ tmp.st # "absent"
          /\ Answer(c, "ok")
          /\ Works
          /\ metrics' = tmp
          /\ tmp' = Absent
       \/ /\ inTask /\ tmp.st # "absent"
          /\ Answer(c, "err")
          /\ Fails("rename")
          /\ UNCHANGED <<metrics, tmp>>
    /\ UNCHANGED <<bak, archive, crashes>>

\* Mutant: the staging file is removed, the session stays open.
AbortTaskLeavesSession(c) ==
    /\ Answer(c, "ok")
    /\ IF inTask THEN RemoveTmp ELSE Works /\ UNCHANGED tmp
    /\ UNCHANGED <<metrics, bak, archive, mem, crashes>>

AbortTask(c) ==
    /\ Answer(c, "ok")
    /\ inTask' = FALSE
    /\ taskData' = {}
    /\ IF inTask THEN RemoveTmp ELSE Works /\ UNCHANGED tmp
    /\ UNCHANGED <<metrics, bak, archive, crashes>>

\* Mutant: the entry is staged but not kept in the session's dataset.
AddNotKept(c, e) ==
    /\ Acquire(c)
    /\ op' = "add"
    /\ buf' = IF inTask THEN taskData \cup {e} ELSE {e}
    /\ pc' = IF inTask THEN "open" ELSE "read"
    /\ Works
    /\ UNCHANGED <<disk, mem, todo, crashes>>

\* AddLatency and AddSpeedtest: the dataset of the session is changed in
\* memory before it is written; without a session metrics.json is read.
Add(c, e) ==
    /\ Acquire(c)
    /\ op' = "add"
    /\ IF inTask
         THEN /\ buf' = taskData \cup {e}
              /\ taskData' = taskData \cup {e}
              /\ pc' = "open"
         ELSE /\ buf' = {e}
              /\ pc' = "read"
              /\ UNCHANGED taskData
    /\ Works
    /\ UNCHANGED <<disk, inTask, todo, crashes>>

\* The days before the cutoff are the ones to move.
Archive(c, cutoff) ==
    /\ Acquire(c)
    /\ op' = "archive"
    /\ pc' = "read"
    /\ todo' = {d \in Days : d < cutoff}
    /\ Works
    /\ UNCHANGED <<disk, mem, buf, crashes>>

ReadMetrics(c) ==
    /\ Acquire(c)
    /\ op' = "read"
    /\ pc' = "read"
    /\ Works
    /\ UNCHANGED <<disk, mem, buf, todo, crashes>>

-----------------------------------------------------------------------------
(* readRaw, and how each method goes on with what it has read.             *)

ReadFails ==
    /\ pc = "read"
    /\ \/ metrics.st = "absent" /\ Works
       \/ metrics.st # "absent" /\ Fails("read")
    /\ Finish("err")
    /\ UNCHANGED <<disk, mem, crashes>>

ReadTorn ==
    /\ pc = "read"
    /\ metrics.st = "torn"
    /\ pc' = "backup"
    /\ Works
    /\ UNCHANGED <<disk, mem, op, buf, todo, reply, crashes>>

Loads(method) ==
    /\ pc = "read"
    /\ op = method
    /\ metrics.st = "whole"
    /\ Works
    /\ UNCHANGED <<disk, crashes>>

LoadForStart ==
    /\ Loads("start")
    /\ inTask' = TRUE
    /\ taskData' = metrics.data
    /\ buf' = metrics.data
    /\ pc' = "open"
    /\ UNCHANGED <<op, todo, reply>>

LoadForAdd ==
    /\ Loads("add")
    /\ buf' = metrics.data \cup buf
    /\ pc' = "open"
    /\ UNCHANGED <<mem, op, todo, reply>>

\* Mutant: like the methods that add, Archive takes the session's dataset.
LoadForArchiveOfSession ==
    /\ Loads("archive")
    /\ buf' = IF inTask THEN taskData ELSE metrics.data
    /\ todo' = {d \in todo : DayOf(buf', d) # {}}
    /\ pc' = IF todo' = {} THEN "open" ELSE "days"
    /\ UNCHANGED <<mem, op, reply>>

LoadForArchive ==
    /\ Loads("archive")
    /\ buf' = metrics.data
    /\ todo' = {d \in todo : DayOf(metrics.data, d) # {}}
    /\ pc' = IF todo' = {} THEN "open" ELSE "days"
    /\ UNCHANGED <<mem, op, reply>>

LoadSnapshot ==
    /\ Loads("read")
    /\ Finish("ok")
    /\ UNCHANGED mem

\* Mutant: the torn file is set aside and nothing is put in its place.
BackupOnly ==
    /\ pc = "backup"
    /\ \/ Works /\ metrics' = Absent /\ bak' = TRUE
       \/ Fails("backup") /\ UNCHANGED <<metrics, bak>>
    /\ Finish("err")
    /\ UNCHANGED <<tmp, archive, mem, crashes>>

\* A torn metrics.json is set aside and an empty one is written; the method
\* that met it fails whether or not that works.
Backup ==
    /\ pc = "backup"
    /\ \/ /\ Works
          /\ metrics' = Absent
          /\ bak' = TRUE
          /\ op' = "recover"
          /\ pc' = "open"
          /\ buf' = {}
          /\ todo' = {}
          /\ UNCHANGED reply
       \/ /\ Fails("backup")
          /\ Finish("err")
          /\ UNCHANGED <<metrics, bak>>
    /\ UNCHANGED <<tmp, archive, mem, crashes>>

-----------------------------------------------------------------------------
(* archiveDay: one turn of the loop of Archive, in the map's random order. *)

\* Mutant: the archive file of the day is not read before it is written.
MergeDayOverwrites(old, new) ==
    {e \in old : ~ \E f \in new : e.day = f.day} \cup new

\* maps.Copy: a slot of the day being moved replaces the archived slot.
MergeDay(old, new) ==
    {e \in old : ~ \E f \in new : SameSlot(e, f)} \cup new

MoveDay(d) ==
    /\ pc = "days"
    /\ d \in todo
    /\ \/ Works /\ archive' = MergeDay(archive, DayOf(buf, d))
       \/ /\ Fails("archread")
          /\ archive' = (archive \ DayOf(archive, d)) \cup DayOf(buf, d)
    /\ buf' = buf \ DayOf(buf, d)
    /\ todo' = todo \ {d}
    /\ pc' = IF todo' = {} THEN "open" ELSE "days"
    /\ UNCHANGED <<metrics, tmp, bak, mem, op, reply, crashes>>

\* Mutant: the error of archiveDay is dropped and the day deleted all the same.
MoveDayErrorDropped ==
    /\ pc = "days"
    /\ Fails("archwrite")
    /\ \E d \in todo :
          /\ buf' = buf \ DayOf(buf, d)
          /\ todo' = todo \ {d}
    /\ pc' = IF todo' = {} THEN "open" ELSE "days"
    /\ UNCHANGED <<disk, mem, op, reply, crashes>>

MoveDayFails ==
    /\ pc = "days"
    /\ Fails("archwrite")
    /\ Finish("err")
    /\ UNCHANGED <<disk, mem, crashes>>

-----------------------------------------------------------------------------
(* writeTmp and writeRaw, over writeAndSyncFile.                           *)

WriteFails ==
    IF op = "start"
      THEN pc' = "discard" /\ UNCHANGED <<op, buf, todo, reply>>
      ELSE Finish("err")

\* O_CREATE|O_TRUNC: the file is empty until the write is done.
OpenTmp ==
    /\ pc = "open"
    /\ \/ /\ Works
          /\ tmp' = Torn
          /\ pc' = "fill"
          /\ UNCHANGED <<op, buf, todo, reply>>
       \/ /\ Fails("open")
          /\ UNCHANGED tmp
          /\ WriteFails
    /\ UNCHANGED <<metrics, bak, archive, mem, crashes>>

\* Mutant: the error of the write is not looked at.
FillTmpUnchecked ==
    /\ pc = "fill"
    /\ \/ Works /\ tmp' = Whole(buf)
       \/ Fails("write") /\ tmp' \in {Torn, Whole(buf)}
    /\ IF Staging
         THEN Finish("ok")
         ELSE pc' = "rename" /\ UNCHANGED <<op, buf, todo, reply>>
    /\ UNCHANGED <<metrics, bak, archive, mem, crashes>>

\* Write, Sync and Close; a failed Sync may leave all the bytes in place.
FillTmp ==
    /\ pc = "fill"
    /\ \/ /\ Works
          /\ tmp' = Whole(buf)
          /\ IF Staging
               THEN Finish("ok")
               ELSE pc' = "rename" /\ UNCHANGED <<op, buf, todo, reply>>
       \/ /\ Fails("write")
          /\ tmp' \in {Torn, Whole(buf)}
          /\ WriteFails
    /\ UNCHANGED <<metrics, bak, archive, mem, crashes>>

RenameTmp ==
    /\ pc = "rename"
    /\ \/ /\ Works
          /\ metrics' = tmp
          /\ tmp' = Absent
          /\ Finish(IF op = "recover" THEN "err" ELSE "ok")
       \/ /\ Fails("rename")
          /\ UNCHANGED <<metrics, tmp>>
          /\ Finish("err")
    /\ UNCHANGED <<bak, archive, mem, crashes>>

\* StartTask could not stage its baseline: the session is given up.
Discard ==
    /\ pc = "discard"
    /\ inTask' = FALSE
    /\ taskData' = {}
    /\ RemoveTmp
    /\ Finish("err")
    /\ UNCHANGED <<metrics, bak, archive, crashes>>

-----------------------------------------------------------------------------
(* The environment.                                                        *)

\* The process ends: memory is lost, the files stay as they are.
Dies ==
    /\ op # "down"
    /\ op' = "down"
    /\ pc' = "free"
    /\ buf' = {}
    /\ todo' = {}
    /\ inTask' = FALSE
    /\ taskData' = {}
    /\ reply' = [c \in Callers |-> "none"]
    /\ Works
    /\ UNCHANGED disk

\* It ends at a point nobody chose.
Crash ==
    /\ crashes < MaxCrashes
    /\ crashes' = crashes + 1
    /\ Dies

\* Something outside the program damages metrics.json.
ExternalCorruption ==
    /\ metrics.st = "whole"
    /\ Fails("corrupt")
    /\ metrics' = Torn
    /\ UNCHANGED <<tmp, bak, archive, mem, local, reply, crashes>>

\* Any client of the HTTP server may have read the new metrics.json.
Observe == published' = published \cup metrics'.data

-----------------------------------------------------------------------------

FMInit ==
    /\ metrics \in {Absent, Torn, Whole({})}
    /\ tmp \in {Absent, Torn}
    /\ bak = FALSE
    /\ archive = {}
    /\ inTask = FALSE
    /\ taskData = {}
    /\ op = "down"
    /\ pc = "free"
    /\ buf = {}
    /\ todo = {}
    /\ reply = [c \in Callers |-> "none"]
    /\ faults = 0
    /\ crashes = 0
    /\ published = {}

\* The cutoff lies after some day, whose midnight it makes old.
Cutoffs == {d + 1 : d \in Days}

Call(c) ==
    \/ StartTask(c)
    \/ CommitTask(c)
    \/ AbortTask(c)
    \/ \E e \in Entry : Add(c, e)
    \/ \E cutoff \in Cutoffs : Archive(c, cutoff)
    \/ ReadMetrics(c)

\* The steps a method takes once it holds the lock.
Step ==
    \/ ReadFails
    \/ ReadTorn
    \/ LoadForStart
    \/ LoadForAdd
    \/ LoadForArchive
    \/ LoadSnapshot
    \/ Backup
    \/ \E d \in Days : MoveDay(d)
    \/ MoveDayFails
    \/ OpenTmp
    \/ FillTmp
    \/ RenameTmp
    \/ Discard

FMNext ==
    /\ \/ Boot
       \/ \E c \in Callers : Call(c)
       \/ Step
       \/ Crash
       \/ ExternalCorruption
    /\ Observe

FMSpec == FMInit /\ [][FMNext]_fmVars

-----------------------------------------------------------------------------

\* The type invariant, with what ties the lock, the position and the replies
\* together: the lock is free exactly when no method is under way, at most
\* one caller is waiting inside a method, and then the lock is held.
TypeOK ==
    /\ metrics \in File
    /\ tmp \in File
    /\ bak \in BOOLEAN
    /\ archive \subseteq Entry
    /\ inTask \in BOOLEAN
    /\ taskData \subseteq Entry
    /\ op \in Ops
    /\ pc \in Pcs
    /\ buf \subseteq Entry
    /\ todo \subseteq Days
    /\ reply \in [Callers -> {"none", "pending", "ok", "err"}]
    /\ faults \in Nat
    /\ crashes \in Nat
    /\ published \subseteq Entry
    /\ pc = "free" <=> op \in {"down", "idle"}
    /\ \A c, d \in Callers :
          reply[c] = "pending" /\ reply[d] = "pending" => c = d
    /\ op \in {"down", "idle"} => \A c \in Callers : reply[c] # "pending"

\* Every entry clients have ever seen is still answered for by S or by the
\* archive: its slot is in one of them.
Covers(S, T) == \A e \in T : \E f \in S : SameSlot(e, f)
Kept(S) == Covers(S \cup archive, published)

\* What clients have seen is not lost: while metrics.json is readable and no
\* corruption has been set aside, every slot ever published is in metrics.json
\* or in the archive, whatever fails and wherever the process dies (Archive
\* writes a day's archive file before it drops the day, writeRaw replaces the
\* file in one rename, and a session starts from the whole file).
Durable == ~bak /\ metrics.st = "whole" => Kept(metrics.data)

\* Why Durable holds, as an inductive invariant.  Coherent says where each
\* method can be and what its buffer and the staging file then hold; AllKept
\* says that every dataset that may become metrics.json (the session's, the
\* staged one, the one being written) keeps what clients have seen.
Writing == {"days", "open", "fill", "rename"}

Coherent ==
    /\ metrics.data \subseteq published
    /\ metrics.st # "whole" => metrics.data = {}
    /\ tmp.st # "whole" => tmp.data = {}
    /\ op \in {"down", "init"} => ~inTask
    /\ op = "recover" => bak /\ buf = {}
    /\ op = "start" /\ pc \in {"read", "backup"} => ~inTask
    /\ op = "read" => pc \in {"read", "backup"}
    /\ pc = "days" => op = "archive"
    /\ pc = "rename" => tmp = Whole(buf) /\ ~Staging
    /\ op = "archive" /\ pc \in Writing => buf \subseteq published

AllKept ==
    ~bak =>
        /\ metrics.st = "whole" => Kept(metrics.data)
        /\ metrics.st = "absent" => published = {}
        /\ inTask => Kept(taskData)
        /\ inTask /\ tmp.st = "whole" /\ op # "start" => Kept(tmp.data)
        /\ pc \in Writing => Kept(buf)

DurableInv == Coherent /\ AllKept

\* While a session stays open, nothing that clients have not seen before appears
\* in metrics.json: measurements are staged (StartTask's promise to clients), and
\* the writes that Archive and the recovery make meanwhile add nothing.
SessionHidden ==
    [][inTask /\ inTask' => metrics'.data \subseteq published]_fmVars

\* Only the end of a session, never a writeRaw, can put a torn document in the
\* place of metrics.json, however the writes and renames fail.
OnlyCommitTears ==
    [][metrics'.st = "torn" => metrics.st = "torn" \/ (inTask /\ ~inTask')]_fmVars

\* What has been archived stays archived: "Merge with existing archived entries
\* for that day if the file already exists".  Archiving a day again, after more
\* of it has come into metrics.json, never drops a slot of its archive file.
ArchiveKeepsSlots == [][Covers(archive', archive)]_fmVars

-----------------------------------------------------------------------------
(* The methods as their callers see them.                                  *)

Store == INSTANCE MetricsStore WITH
            shown <- metrics.data, archived <- archive,
            open <- inTask, staged <- taskData

\* Each method is atomic to callers and clients although it is many file-system
\* calls: one direct measurement appears at a time, a session's dataset appears
\* whole or not at all (though Archive and the recovery take its staging file
\* away), and a day leaves metrics.json when all of it is in the archive; at
\* any crash, and though writes of the archive fail.
ImplementsStore == Store!Spec

-----------------------------------------------------------------------------
(* Progress: a method that holds the lock goes on (its steps are straight- *)
(* line code), a stopped process is started again, and the scheduler goes  *)
(* on starting task sessions: sync.Mutex hands the lock to the goroutine   *)
(* that waited longest once a wait is long, so a StartTask that waits for  *)
(* the lock over and over gets it (strong fairness).                       *)

FMFairness ==
    /\ WF_fmVars(Step /\ Observe)
    /\ WF_fmVars(Boot /\ Observe)
    /\ SF_fmVars(\E c \in Callers : StartTask(c) /\ Observe)

FMFairSpec == FMSpec /\ FMFairness

\* A damaged or missing metrics.json does not stay so: readRaw "recovers with
\* an empty dataset to prevent total application failure".
Heals == []<>(metrics.st = "whole")

\* The same of a store that nothing outside damages: CommitTask replaces the
\* file "safely and atomically", so a file that was readable at the start (or
\* was created then) is readable again and again, even if writes fail.
StaysUsable == metrics.st # "torn" => []<>(metrics.st = "whole")
=============================================================================
