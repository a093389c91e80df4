------------------------- MODULE FileManagerProofs -------------------------
(***************************************************************************)
(* Theorems about FileManager, for every set of callers, days, slots and   *)
(* values and every bound on faults and crashes: its invariants, what its  *)
(* methods may change, and that it implements MetricsStore.                *)
(***************************************************************************)
EXTENDS FileManager, Integers, TLAPS

\* The steps of the store in any composition: its own, an Archive with a cutoff
\* its caller chose, and an orderly end of the process, which is no crash.
StoreMoves ==
    \/ FMNext
    \/ (\E c \in Callers, cutoff \in Int : Archive(c, cutoff)) /\ Observe
    \/ Dies /\ UNCHANGED crashes /\ Observe

-----------------------------------------------------------------------------
(* Type correctness.                                                       *)

LEMMA FileTypes ==
    /\ Absent \in File
    /\ Torn \in File
    /\ \A data \in SUBSET Entry : Whole(data) \in File
  BY DEF Absent, Torn, Whole, File

\* Finish keeps the types and frees the lock.
LEMMA FinishType ==
    ASSUME TypeOK, NEW result \in {"ok", "err"}, Finish(result)
    PROVE  /\ op' \in Ops /\ pc' \in Pcs
           /\ buf' \subseteq Entry /\ todo' \subseteq Days
           /\ reply' \in [Callers -> {"none", "pending", "ok", "err"}]
           /\ pc' = "free" /\ op' \in {"down", "idle"}
           /\ \A c \in Callers : reply'[c] # "pending"
  BY DEF TypeOK, Finish, Ops, Pcs

LEMMA AcquireType ==
    ASSUME TypeOK, NEW c \in Callers, Acquire(c)
    PROVE  /\ reply' \in [Callers -> {"none", "pending", "ok", "err"}]
           /\ \A a, b \in Callers :
                 reply'[a] = "pending" /\ reply'[b] = "pending" => a = b
  BY DEF TypeOK, Acquire

LEMMA AnswerType ==
    ASSUME TypeOK, NEW c \in Callers, NEW result \in {"ok", "err"},
           Answer(c, result)
    PROVE  /\ reply' \in [Callers -> {"none", "pending", "ok", "err"}]
           /\ \A a \in Callers : reply'[a] # "pending"
           /\ UNCHANGED local
  BY DEF TypeOK, Answer

LEMMA FaultsType ==
    ASSUME TypeOK, Works \/ \E call \in AllFaultOps : Fails(call)
    PROVE  faults' \in Nat
  BY DEF TypeOK, Works, Fails

LEMMA RemoveTmpType ==
    ASSUME TypeOK, RemoveTmp
    PROVE  tmp' \in File /\ faults' \in Nat
  BY FileTypes DEF TypeOK, RemoveTmp, Works, Fails

LEMMA ObserveType ==
    ASSUME TypeOK, Observe, metrics' \in File
    PROVE  published' \subseteq Entry
  BY DEF TypeOK, Observe, File

LEMMA TypeStep == TypeOK /\ [StoreMoves]_fmVars => TypeOK'
<1> SUFFICES ASSUME TypeOK, [StoreMoves]_fmVars PROVE TypeOK'
  OBVIOUS
<1>1. CASE UNCHANGED fmVars
  BY <1>1 DEF TypeOK, fmVars
<1>2. CASE Boot /\ Observe
  <2>1. tmp' \in File /\ faults' \in Nat
    BY <1>2, RemoveTmpType DEF Boot, TypeOK, Works
  <2> QED
    BY <1>2, <2>1, ObserveType DEF Boot, TypeOK, Ops, Pcs, mem
<1>3. ASSUME NEW c \in Callers, StartTask(c), Observe PROVE TypeOK'
  <2>1. tmp' \in File /\ faults' \in Nat
    BY <1>3, RemoveTmpType DEF StartTask, TypeOK, Works
  <2> QED
    BY <1>3, <2>1, AcquireType, ObserveType DEF StartTask, TypeOK, Ops, Pcs
<1>4. ASSUME NEW c \in Callers, CommitTask(c), Observe PROVE TypeOK'
  <2>1. metrics' \in File /\ tmp' \in File /\ faults' \in Nat
    BY <1>4, FileTypes DEF CommitTask, TypeOK, Works, Fails
  <2>2. \E result \in {"ok", "err"} : Answer(c, result)
    BY <1>4 DEF CommitTask
  <2> QED
    BY <1>4, <2>1, <2>2, AnswerType, ObserveType DEF CommitTask, TypeOK, local
<1>5. ASSUME NEW c \in Callers, AbortTask(c), Observe PROVE TypeOK'
  <2>1. tmp' \in File /\ faults' \in Nat
    BY <1>5, RemoveTmpType DEF AbortTask, TypeOK, Works
  <2> QED
    BY <1>5, <2>1, AnswerType, ObserveType DEF AbortTask, TypeOK, local
<1>6. ASSUME NEW c \in Callers, NEW e \in Entry, Add(c, e), Observe
      PROVE  TypeOK'
  BY <1>6, AcquireType, ObserveType DEF Add, TypeOK, Ops, Pcs, Works, disk
<1>7. ASSUME NEW c \in Callers, NEW cutoff, Archive(c, cutoff), Observe
      PROVE  TypeOK'
  BY <1>7, AcquireType, ObserveType
     DEF Archive, TypeOK, Ops, Pcs, Works, disk, mem
<1>8. ASSUME NEW c \in Callers, ReadMetrics(c), Observe PROVE TypeOK'
  BY <1>8, AcquireType, ObserveType
     DEF ReadMetrics, TypeOK, Ops, Pcs, Works, disk, mem
<1>9. CASE ReadFails /\ Observe
  <2>1. faults' \in Nat
    BY <1>9 DEF ReadFails, TypeOK, Works, Fails
  <2> QED
    BY <1>9, <2>1, FinishType, ObserveType DEF ReadFails, TypeOK, disk, mem
<1>10. CASE ReadTorn /\ Observe
  BY <1>10, ObserveType DEF ReadTorn, TypeOK, Ops, Pcs, Works, disk, mem
<1>11. CASE (LoadForStart \/ LoadForAdd \/ LoadForArchive) /\ Observe
  BY <1>11, ObserveType
     DEF LoadForStart, LoadForAdd, LoadForArchive, Loads, TypeOK, File, Ops,
         Pcs, Works, disk, mem
<1>12. CASE LoadSnapshot /\ Observe
  BY <1>12, FinishType, ObserveType
     DEF LoadSnapshot, Loads, TypeOK, Works, disk, mem
<1>13. CASE Backup /\ Observe
  <2>1. CASE Works /\ op' = "recover"
    <3>1. metrics' \in File /\ faults' \in Nat /\ UNCHANGED <<tmp, archive, mem>>
      BY <1>13, <2>1, FileTypes DEF Backup, TypeOK, Works, Fails, Finish
    <3>2. CASE bak' = TRUE /\ pc' = "open" /\ buf' = {} /\ todo' = {}
               /\ UNCHANGED reply
      BY <1>13, <2>1, <3>1, <3>2, ObserveType DEF Backup, TypeOK, Ops, Pcs, mem
    <3> QED
      BY <1>13, <2>1, <3>2 DEF Backup, Finish
  <2>2. CASE Fails("backup") /\ Finish("err")
    BY <1>13, <2>2, FinishType, ObserveType DEF Backup, TypeOK, Fails, mem
  <2> QED
    BY <1>13, <2>1, <2>2 DEF Backup
<1>14. ASSUME NEW d \in Days, MoveDay(d), Observe PROVE TypeOK'
  <2>1. archive' \subseteq Entry /\ faults' \in Nat
    BY <1>14 DEF MoveDay, MergeDay, DayOf, TypeOK, Works, Fails
  <2> QED
    BY <1>14, <2>1, ObserveType DEF MoveDay, TypeOK, Ops, Pcs, mem
<1>15. CASE MoveDayFails /\ Observe
  BY <1>15, FinishType, ObserveType
     DEF MoveDayFails, TypeOK, Fails, disk, mem
<1>16. ASSUME WriteFails, pc # "free"
       PROVE  /\ op' \in Ops /\ pc' \in Pcs
              /\ buf' \subseteq Entry /\ todo' \subseteq Days
              /\ reply' \in [Callers -> {"none", "pending", "ok", "err"}]
              /\ pc' = "free" <=> op' \in {"down", "idle"}
              /\ \A c, d \in Callers :
                    reply'[c] = "pending" /\ reply'[d] = "pending" => c = d
              /\ op' \in {"down", "idle"} =>
                    \A c \in Callers : reply'[c] # "pending"
  BY <1>16, FinishType DEF WriteFails, TypeOK, Ops, Pcs
<1>17. CASE OpenTmp /\ Observe
  <2>1. CASE Works /\ pc' = "fill" /\ UNCHANGED <<op, buf, todo, reply>>
    BY <1>17, <2>1, FileTypes, ObserveType
       DEF OpenTmp, TypeOK, Ops, Pcs, Works, Fails, mem
  <2>2. CASE Fails("open") /\ WriteFails
    BY <1>17, <2>2, <1>16, FileTypes, ObserveType
       DEF OpenTmp, TypeOK, Works, Fails, mem
  <2> QED
    BY <1>17, <2>1, <2>2 DEF OpenTmp
<1>18. CASE FillTmp /\ Observe
  <2>1. tmp' \in File /\ faults' \in Nat
    BY <1>18, FileTypes DEF FillTmp, TypeOK, Works, Fails
  <2>2. CASE Finish("ok")
    BY <1>18, <2>1, <2>2, FinishType, ObserveType DEF FillTmp, TypeOK, mem
  <2>3. CASE pc' = "rename" /\ UNCHANGED <<op, buf, todo, reply>>
    BY <1>18, <2>1, <2>3, ObserveType DEF FillTmp, TypeOK, Pcs, mem
  <2>4. CASE WriteFails
    BY <1>18, <2>1, <2>4, <1>16, ObserveType DEF FillTmp, TypeOK, mem
  <2> QED
    BY <1>18, <2>2, <2>3, <2>4 DEF FillTmp
<1>19. CASE RenameTmp /\ Observe
  <2>1. metrics' \in File /\ tmp' \in File /\ faults' \in Nat
    BY <1>19, FileTypes DEF RenameTmp, TypeOK, Works, Fails
  <2>2. \E result \in {"ok", "err"} : Finish(result)
    BY <1>19 DEF RenameTmp
  <2> QED
    BY <1>19, <2>1, <2>2, FinishType, ObserveType DEF RenameTmp, TypeOK, mem
<1>20. CASE Discard /\ Observe
  BY <1>20, RemoveTmpType, FinishType, ObserveType DEF Discard, TypeOK
<1>21. CASE (Crash \/ (Dies /\ UNCHANGED crashes)) /\ Observe
  <2>1. Dies /\ crashes' \in Nat
    BY <1>21 DEF Crash, TypeOK
  <2>2. /\ reply' \in [Callers -> {"none", "pending", "ok", "err"}]
        /\ \A c \in Callers : reply'[c] # "pending"
    BY <2>1 DEF Dies
  <2>3. metrics' \in File /\ tmp' \in File /\ faults' \in Nat
    BY <2>1 DEF Dies, TypeOK, Works, disk
  <2> QED
    BY <1>21, <2>1, <2>2, <2>3, ObserveType DEF Dies, TypeOK, Ops, Pcs, disk
<1>22. CASE ExternalCorruption /\ Observe
  BY <1>22, FileTypes, ObserveType
     DEF ExternalCorruption, TypeOK, Fails, mem, local
<1> QED
  BY <1>1, <1>2, <1>3, <1>4, <1>5, <1>6, <1>7, <1>8, <1>9, <1>10, <1>11,
     <1>12, <1>13, <1>14, <1>15, <1>17, <1>18, <1>19, <1>20, <1>21, <1>22
     DEF StoreMoves, FMNext, Call, Step

LEMMA StartTyped == FMInit => TypeOK
<1> SUFFICES ASSUME FMInit PROVE TypeOK
  OBVIOUS
<1>1. metrics \in File /\ tmp \in File
  BY FileTypes DEF FMInit
<1>2. /\ reply \in [Callers -> {"none", "pending", "ok", "err"}]
      /\ \A c \in Callers : reply[c] # "pending"
  BY DEF FMInit
<1> QED
  BY <1>1, <1>2 DEF FMInit, TypeOK, Ops, Pcs

\* The types of the store hold in every reachable state, and with them the
\* coherence of the lock: no method is under way without the lock, and no
\* caller waits for a reply once the lock is free.
THEOREM TypeCorrect == FMSpec => []TypeOK
  BY StartTyped, TypeStep, PTL DEF FMSpec, StoreMoves

-----------------------------------------------------------------------------
(* Coherence, which holds whatever fails.                                  *)

\* What clients have seen only grows when metrics.json changes.
LEMMA PublishedSame ==
    ASSUME Coherent, Observe, metrics' = metrics \/ metrics'.data = {}
    PROVE  published' = published
  BY DEF Coherent, Observe

LEMMA FileFields ==
    /\ Absent.st = "absent" /\ Absent.data = {}
    /\ Torn.st = "torn" /\ Torn.data = {}
    /\ \A data : Whole(data).st = "whole" /\ Whole(data).data = data
  BY DEF Absent, Torn, Whole

\* How a step changes metrics.json.
LEMMA MetricsChange ==
    ASSUME Coherent, [StoreMoves]_fmVars
    PROVE  \/ UNCHANGED metrics
           \/ metrics' = Absent
           \/ Fails("corrupt") /\ metrics' = Torn
           \/ inTask /\ ~inTask' /\ metrics' = tmp /\ op = "idle"
           \/ pc = "rename" /\ metrics' = Whole(buf)
<1> DEFINE Change == \/ UNCHANGED metrics
                     \/ metrics' = Absent
                     \/ Fails("corrupt") /\ metrics' = Torn
                     \/ inTask /\ ~inTask' /\ metrics' = tmp /\ op = "idle"
                     \/ pc = "rename" /\ metrics' = Whole(buf)
<1>1. CASE UNCHANGED fmVars
  BY <1>1 DEF fmVars
<1>2. ASSUME Boot PROVE Change
  BY <1>2 DEF Boot
<1>3. ASSUME NEW c \in Callers, Call(c) \/ \E cutoff : Archive(c, cutoff)
      PROVE  Change
  <2>1. CASE CommitTask(c)
    BY <2>1 DEF CommitTask, Answer
  <2>2. CASE StartTask(c) \/ AbortTask(c) \/ ReadMetrics(c)
    BY <2>2 DEF StartTask, AbortTask, ReadMetrics, disk
  <2>3. CASE \E e \in Entry : Add(c, e)
    BY <2>3 DEF Add, disk
  <2>4. CASE \E cutoff : Archive(c, cutoff)
    BY <2>4 DEF Archive, disk
  <2> QED
    BY <1>3, <2>1, <2>2, <2>3, <2>4 DEF Call
<1>4. ASSUME Step PROVE Change
  <2>1. CASE RenameTmp
    BY <2>1 DEF RenameTmp, Coherent
  <2>2. CASE \/ ReadFails \/ ReadTorn \/ LoadForStart \/ LoadForAdd
             \/ LoadForArchive \/ LoadSnapshot
    BY <2>2
       DEF ReadFails, ReadTorn, LoadForStart, LoadForAdd, LoadForArchive,
           LoadSnapshot, Loads, disk
  <2>3. CASE \E d \in Days : MoveDay(d)
    BY <2>3 DEF MoveDay
  <2>4. CASE Backup \/ MoveDayFails \/ OpenTmp \/ FillTmp \/ Discard
    BY <2>4 DEF Backup, MoveDayFails, OpenTmp, FillTmp, Discard, disk
  <2> QED
    BY <1>4, <2>1, <2>2, <2>3, <2>4 DEF Step
<1>5. ASSUME Crash \/ Dies \/ ExternalCorruption PROVE Change
  BY <1>5 DEF Crash, Dies, ExternalCorruption, disk
<1> HIDE DEF Change
<1>6. ASSUME StoreMoves PROVE Change
  BY <1>2, <1>3, <1>4, <1>5, <1>6 DEF StoreMoves, FMNext
<1> QED
  BY <1>1, <1>6 DEF Change

LEMMA CoherentStep ==
    ASSUME TypeOK, Coherent, [StoreMoves]_fmVars
    PROVE  Coherent'
<1> DEFINE Quiet == UNCHANGED <<disk, mem>> /\ pc' = "free" /\ op' \in {"idle", "down"}
<1>0. published \subseteq published' /\ metrics'.data \subseteq published'
  BY DEF StoreMoves, FMNext, Observe, Coherent, fmVars
<1>1. CASE UNCHANGED fmVars
  BY <1>1 DEF fmVars, Coherent, Staging, Writing
<1>2. ASSUME Quiet, op' = "down" => ~inTask
      PROVE  Coherent'
  BY <1>0, <1>2 DEF Coherent, disk, mem, Writing
<1>3. CASE Boot
  <2>1. tmp' = tmp \/ tmp' = Absent
    BY <1>3 DEF Boot, RemoveTmp
  <2> QED
    BY <1>0, <1>3, <2>1, FileFields DEF Boot, Coherent, mem, TypeOK, Writing
<1>4. ASSUME NEW c \in Callers, StartTask(c) \/ AbortTask(c) PROVE Coherent'
  <2>1. tmp' = tmp \/ tmp' = Absent
    BY <1>4 DEF StartTask, AbortTask, RemoveTmp
  <2> QED
    BY <1>0, <1>4, <2>1, FileFields
       DEF StartTask, AbortTask, Answer, local, Coherent, TypeOK, Writing
<1>5. ASSUME NEW c \in Callers, CommitTask(c) PROVE Coherent'
  <2>1. /\ op' = "idle" /\ pc' = "free" /\ ~inTask'
        /\ metrics' \in {metrics, tmp} /\ tmp' \in {tmp, Absent}
    BY <1>5 DEF CommitTask, Answer, local, TypeOK
  <2> QED
    BY <1>0, <2>1, FileFields DEF Coherent, Writing
<1>6. ASSUME NEW c \in Callers, NEW e \in Entry, Add(c, e) PROVE Coherent'
  BY <1>0, <1>6 DEF Add, Acquire, disk, Coherent, TypeOK, Writing
<1>7. ASSUME NEW c \in Callers, ReadMetrics(c) \/ \E cutoff : Archive(c, cutoff)
      PROVE  Coherent'
  <2>1. /\ UNCHANGED <<disk, mem, buf>>
        /\ op = "idle" /\ op' \in {"read", "archive"} /\ pc' = "read"
    BY <1>7 DEF ReadMetrics, Archive, Acquire, disk, mem
  <2> QED
    BY <1>0, <2>1 DEF disk, mem, Coherent, Writing
<1>8. CASE ReadFails \/ LoadSnapshot \/ MoveDayFails
  <2>1. Quiet /\ (op' = "down" => op = "init")
    BY <1>8 DEF ReadFails, LoadSnapshot, Loads, MoveDayFails, Finish, disk
  <2> QED
    BY <1>2, <2>1 DEF Coherent
<1>9. CASE ReadTorn \/ LoadForStart
  BY <1>0, <1>9
     DEF ReadTorn, LoadForStart, Loads, disk, mem, Coherent, TypeOK, Writing
<1>10. CASE LoadForAdd \/ LoadForArchive
  <2>1. /\ UNCHANGED <<disk, mem>> /\ op' = op /\ op \in {"add", "archive"}
        /\ pc' \in {"open", "days"} /\ (pc' = "days" => op = "archive")
        /\ op = "archive" => buf' = metrics.data
    BY <1>10 DEF LoadForAdd, LoadForArchive, Loads, disk
  <2> QED
    BY <1>0, <2>1 DEF disk, mem, Coherent, Writing
<1>11. CASE Backup
  <2>1. CASE Fails("backup") /\ Finish("err") /\ UNCHANGED <<metrics, bak>>
    BY <1>2, <1>11, <2>1 DEF Backup, Finish, disk, mem, Coherent
  <2>2. CASE metrics' = Absent /\ bak' = TRUE /\ op' = "recover" /\ pc' = "open"
             /\ buf' = {}
    BY <1>0, <1>11, <2>2, FileFields DEF Backup, Coherent, Writing, mem
  <2> QED
    BY <1>11, <2>1, <2>2 DEF Backup
<1>12. ASSUME NEW d \in Days, MoveDay(d) PROVE Coherent'
  <2>1. /\ UNCHANGED <<metrics, tmp, bak, mem, op>> /\ buf' \subseteq buf
        /\ op = "archive" /\ pc' \in {"open", "days"} /\ pc = "days"
    BY <1>12 DEF MoveDay, Coherent
  <2> QED
    BY <1>0, <2>1 DEF Coherent, Writing, mem
<1>13. CASE OpenTmp
  <2>1. CASE tmp' = Torn /\ pc' = "fill" /\ UNCHANGED <<op, buf, todo, reply>>
    BY <1>0, <1>13, <2>1, FileFields DEF OpenTmp, Coherent, Writing, mem
  <2>2. CASE UNCHANGED tmp /\ WriteFails
    BY <1>0, <1>13, <2>2 DEF OpenTmp, WriteFails, Finish, Coherent, Writing, mem
  <2> QED
    BY <1>13, <2>1, <2>2 DEF OpenTmp
<1>14. CASE FillTmp
  <2>1. tmp' = Torn \/ tmp' = Whole(buf)
    BY <1>14 DEF FillTmp
  <2>2. CASE pc' = "free" /\ op' \in {"idle", "down"} /\ (op' = "down" => op = "init")
    BY <1>0, <1>14, <2>1, <2>2, FileFields DEF FillTmp, Coherent, Writing, mem
  <2>3. CASE pc' = "rename" /\ tmp' = Whole(buf) /\ ~Staging
             /\ UNCHANGED <<op, buf, todo, reply>>
    BY <1>0, <1>14, <2>3, FileFields
       DEF FillTmp, Coherent, Writing, mem, Staging
  <2>4. CASE op = "start" /\ pc' = "discard" /\ UNCHANGED <<op, buf, todo, reply>>
    BY <1>0, <1>14, <2>1, <2>4, FileFields DEF FillTmp, Coherent, Writing, mem
  <2> QED
    BY <1>14, <2>2, <2>3, <2>4 DEF FillTmp, Finish, WriteFails
<1>15. CASE RenameTmp
  <2>1. /\ pc' = "free" /\ op' \in {"idle", "down"} /\ UNCHANGED mem
        /\ op' = "down" => op = "init"
        /\ metrics' \in {metrics, tmp} /\ tmp' \in {tmp, Absent}
    BY <1>15 DEF RenameTmp, Finish
  <2> QED
    BY <1>0, <2>1, FileFields DEF Coherent, Writing, mem
<1>16. CASE Discard
  <2>1. tmp' = tmp \/ tmp' = Absent
    BY <1>16 DEF Discard, RemoveTmp
  <2> QED
    BY <1>0, <1>16, <2>1, FileFields DEF Discard, Finish, Coherent, Writing
<1>17. CASE Crash \/ Dies
  BY <1>0, <1>17 DEF Crash, Dies, disk, Coherent, Writing
<1>18. CASE ExternalCorruption
  BY <1>0, <1>18, FileFields
     DEF ExternalCorruption, Coherent, Writing, mem, local, Staging
<1> QED
  BY <1>1, <1>3, <1>4, <1>5, <1>6, <1>7, <1>8, <1>9, <1>10, <1>11, <1>12,
     <1>13, <1>14, <1>15, <1>16, <1>17, <1>18
     DEF StoreMoves, FMNext, Call, Step

LEMMA StartCoherent == FMInit => Coherent
  BY FileFields DEF FMInit, Coherent, Writing

\* Where each method can be, and what the files and its buffer then hold.
THEOREM CoherentInvariant == FMSpec => []Coherent
  BY StartCoherent, CoherentStep, TypeCorrect, PTL DEF FMSpec, StoreMoves

-----------------------------------------------------------------------------
(* Nothing published is lost.                                              *)

LEMMA CoversMonotone ==
    ASSUME NEW S, NEW T, NEW S1, NEW T1,
           Covers(S, T), S \subseteq S1, T1 \subseteq T
    PROVE  Covers(S1, T1)
  BY DEF Covers

LEMMA CoversItself ==
    ASSUME NEW S, NEW T, NEW U, Covers(S, T), U \subseteq S
    PROVE  Covers(S, T \cup U)
  BY DEF Covers, SameSlot

\* Merging a day into the archive keeps every archived slot ...
LEMMA MergeCovers ==
    ASSUME NEW S, NEW T, NEW old, NEW new, Covers(S \cup old, T)
    PROVE  Covers(S \cup MergeDay(old, new), T)
  BY DEF Covers, MergeDay, SameSlot

\* ... so the day can then be taken out of the dataset.
LEMMA MoveCovers ==
    ASSUME NEW S, NEW T, NEW old, NEW new, Covers(S \cup old, T)
    PROVE  Covers((S \ new) \cup MergeDay(old, new), T)
  BY DEF Covers, MergeDay, SameSlot

\* A step that touches neither disk nor session and ends its method.
LEMMA EndsQuietly ==
    ASSUME AllKept, published' = published, UNCHANGED <<disk, mem>>,
           pc' = "free", op = "start" => ~inTask
    PROVE  AllKept'
  BY DEF AllKept, Kept, disk, mem, Writing

LEMMA AllKeptStep ==
    ASSUME TypeOK, Coherent, AllKept, [StoreMoves]_fmVars,
           "archread" \notin FaultOps
    PROVE  AllKept'
<1> USE DEF Kept, Writing
<1>1. CASE UNCHANGED fmVars
  BY <1>1 DEF fmVars, AllKept
<1>2. ASSUME Observe, metrics' = metrics \/ metrics'.data = {}
      PROVE  published' = published
  BY <1>2, PublishedSame
<1>3. CASE Boot /\ Observe
  <2>1. published' = published /\ ~inTask'
    BY <1>2, <1>3 DEF Boot, Coherent, mem
  <2> QED
    BY <1>3, <2>1, FileFields DEF Boot, AllKept, Covers, Coherent, mem, TypeOK
<1>4. ASSUME NEW c \in Callers, StartTask(c) \/ AbortTask(c), Observe
      PROVE  AllKept'
  <2>1. inTask' = FALSE /\ UNCHANGED <<metrics, bak, archive>>
        /\ pc' \in {"free", "read"}
    BY <1>4 DEF StartTask, AbortTask, Answer, local, TypeOK
  <2> QED
    BY <1>2, <1>4, <2>1 DEF AllKept
<1>5. ASSUME NEW c \in Callers, CommitTask(c), Observe PROVE AllKept'
  <2>1. op = "idle" /\ op' = "idle" /\ pc' = "free" /\ pc = "free"
        /\ ~inTask' /\ UNCHANGED <<bak, archive>>
    BY <1>5 DEF CommitTask, Answer, local, TypeOK
  <2>2. CASE UNCHANGED <<metrics, tmp>>
    BY <1>2, <1>5, <2>1, <2>2 DEF AllKept
  <2>3. CASE inTask /\ tmp.st # "absent" /\ metrics' = tmp
    <3>1. published' = published \cup tmp.data
      BY <1>5, <2>3 DEF Observe
    <3>2. ASSUME ~bak, tmp.st = "whole"
          PROVE  Covers(tmp.data \cup archive, published \cup tmp.data)
      BY <2>1, <2>3, <3>2, CoversItself DEF AllKept
    <3> QED
      BY <2>1, <2>3, <3>1, <3>2 DEF AllKept
  <2> QED
    BY <1>5, <2>2, <2>3 DEF CommitTask
<1>6. ASSUME NEW c \in Callers, NEW e \in Entry, Add(c, e), Observe
      PROVE  AllKept'
  <2>1. published' = published
    BY <1>2, <1>6 DEF Add, disk
  <2>2. ASSUME Kept(taskData)
        PROVE  Covers((taskData \cup {e}) \cup archive, published)
    BY <2>2, CoversMonotone
  <2> QED
    BY <1>6, <2>1, <2>2 DEF Add, Acquire, disk, AllKept, TypeOK
<1>7. ASSUME NEW c \in Callers, Observe,
             ReadMetrics(c) \/ \E cutoff : Archive(c, cutoff)
      PROVE  AllKept'
  <2>1. /\ UNCHANGED <<disk, mem, buf>>
        /\ op = "idle" /\ op' \in {"read", "archive"} /\ pc' = "read"
    BY <1>7 DEF ReadMetrics, Archive, Acquire, disk, mem
  <2> QED
    BY <1>2, <1>7, <2>1 DEF disk, mem, AllKept
<1>8. CASE (ReadFails \/ LoadSnapshot \/ MoveDayFails) /\ Observe
  <2>1. UNCHANGED <<disk, mem>> /\ pc' = "free" /\ (op = "start" => ~inTask)
    BY <1>8
       DEF ReadFails, LoadSnapshot, Loads, MoveDayFails, Finish, Coherent, disk
  <2> QED
    BY <1>2, <1>8, <2>1, EndsQuietly DEF disk
<1>9. CASE ReadTorn /\ Observe
  BY <1>2, <1>9 DEF ReadTorn, disk, mem, AllKept
<1>10. CASE (LoadForStart \/ LoadForArchive) /\ Observe
  BY <1>2, <1>10
     DEF LoadForStart, LoadForArchive, Loads, disk, mem, Coherent, AllKept
<1>11. CASE LoadForAdd /\ Observe
  <2>1. published' = published
    BY <1>2, <1>11 DEF LoadForAdd, Loads, disk
  <2>2. ASSUME Kept(metrics.data)
        PROVE  Covers((metrics.data \cup buf) \cup archive, published)
    BY <2>2, CoversMonotone
  <2> QED
    BY <1>11, <2>1, <2>2 DEF LoadForAdd, Loads, disk, mem, AllKept
<1>12. CASE Backup /\ Observe
  <2>1. CASE Finish("err") /\ UNCHANGED <<metrics, bak>>
    <3>1. UNCHANGED <<disk, mem>> /\ pc' = "free" /\ (op = "start" => ~inTask)
      BY <1>12, <2>1 DEF Backup, Finish, Coherent, disk
    <3> QED
      BY <1>2, <1>12, <2>1, <3>1, EndsQuietly
  <2>2. CASE bak' = TRUE
    BY <2>2 DEF AllKept
  <2> QED
    BY <1>12, <2>1, <2>2 DEF Backup
<1>13. ASSUME NEW d \in Days, MoveDay(d), Observe PROVE AllKept'
  <2> DEFINE day == DayOf(buf, d)
  <2>1. published' = published
    BY <1>2, <1>13 DEF MoveDay
  <2>2. archive' = MergeDay(archive, day) /\ buf' = buf \ day
    BY <1>13 DEF MoveDay, Fails
  <2>3. op = "archive" /\ op' = "archive"
    BY <1>13 DEF MoveDay, Coherent
  <2>4. \A S : Covers(S \cup archive, published)
                => Covers(S \cup MergeDay(archive, day), published)
    BY MergeCovers
  <2>5. Covers(buf \cup archive, published)
        => Covers((buf \ day) \cup MergeDay(archive, day), published)
    BY MoveCovers
  <2> HIDE DEF day
  <2> QED
    BY <1>13, <2>1, <2>2, <2>3, <2>4, <2>5 DEF MoveDay, AllKept, mem
<1>14. CASE OpenTmp /\ Observe
  <2>1. CASE tmp' = Torn /\ pc' = "fill" /\ UNCHANGED <<op, buf, todo, reply>>
    BY <1>2, <1>14, <2>1, FileFields DEF OpenTmp, AllKept, mem
  <2>2. CASE UNCHANGED tmp /\ WriteFails
    <3>1. CASE op = "start"
      BY <1>2, <1>14, <2>2, <3>1 DEF OpenTmp, WriteFails, AllKept, mem
    <3>2. CASE op # "start"
      BY <1>2, <1>14, <2>2, <3>2, EndsQuietly
         DEF OpenTmp, WriteFails, Finish, disk, mem
    <3> QED
      BY <3>1, <3>2
  <2> QED
    BY <1>14, <2>1, <2>2 DEF OpenTmp
<1>15. CASE FillTmp /\ Observe
  <2>1. published' = published /\ pc = "fill"
        /\ UNCHANGED <<metrics, bak, archive, mem>>
    BY <1>2, <1>15 DEF FillTmp
  <2>2. tmp' = Torn \/ tmp' = Whole(buf)
    BY <1>15 DEF FillTmp
  <2>3. \/ pc' = "free"
        \/ pc' \in {"rename", "discard"} /\ UNCHANGED buf
    BY <1>15 DEF FillTmp, Finish, WriteFails
  <2> QED
    BY <2>1, <2>2, <2>3, FileFields DEF AllKept, mem
<1>16. CASE RenameTmp /\ Observe
  <2>1. /\ pc = "rename" /\ pc' = "free" /\ tmp = Whole(buf) /\ ~Staging
        /\ UNCHANGED <<bak, archive, mem>>
    BY <1>16 DEF RenameTmp, Finish, Coherent
  <2>2. CASE UNCHANGED <<metrics, tmp>>
    BY <1>2, <1>16, <2>1, <2>2, EndsQuietly DEF disk, mem, Staging
  <2>3. CASE metrics' = tmp /\ tmp' = Absent
    <3>1. published' = published \cup buf /\ metrics'.data = buf
          /\ metrics'.st = "whole"
      BY <2>1, <2>3, <1>16, FileFields DEF Observe
    <3>2. ASSUME ~bak
          PROVE  Covers(buf \cup archive, published \cup buf)
      BY <2>1, <3>2, CoversItself DEF AllKept
    <3>3. ASSUME ~bak, inTask PROVE published' = published
      BY <2>1, <3>1, <3>3 DEF Coherent, TypeOK, Ops, Staging
    <3> QED
      BY <2>1, <2>3, <3>1, <3>2, <3>3, FileFields DEF AllKept, mem
  <2> QED
    BY <1>16, <2>2, <2>3 DEF RenameTmp
<1>17. CASE Discard /\ Observe
  BY <1>2, <1>17 DEF Discard, Finish, AllKept
<1>18. CASE (Crash \/ Dies) /\ Observe
  <2>1. Dies
    BY <1>18 DEF Crash
  <2> QED
    BY <1>2, <1>18, <2>1 DEF Dies, disk, AllKept
<1>19. CASE ExternalCorruption /\ Observe
  BY <1>2, <1>19, FileFields DEF ExternalCorruption, AllKept, mem, local
<1> QED
  BY <1>1, <1>3, <1>4, <1>5, <1>6, <1>7, <1>8, <1>9, <1>10, <1>11, <1>12,
     <1>13, <1>14, <1>15, <1>16, <1>17, <1>18, <1>19
     DEF StoreMoves, FMNext, Call, Step

LEMMA DurableStep ==
    ASSUME TypeOK, DurableInv, [StoreMoves]_fmVars, "archread" \notin FaultOps
    PROVE  DurableInv'
  BY CoherentStep, AllKeptStep DEF DurableInv

LEMMA StartDurable == FMInit => DurableInv
  BY StartCoherent DEF FMInit, DurableInv, AllKept, Kept, Covers, Writing

\* The inductive invariant holds in every reachable state.
THEOREM DurableInvariant ==
    ASSUME "archread" \notin FaultOps
    PROVE  FMSpec => []DurableInv
<1>1. FMInit => DurableInv
  BY StartDurable
<1>2. TypeOK /\ DurableInv /\ [FMNext]_fmVars => DurableInv'
  BY DurableStep DEF StoreMoves
<1> QED
  BY <1>1, <1>2, TypeCorrect, PTL DEF FMSpec

\* What clients have been shown is not lost, whatever fails (except that an
\* existing archive file cannot be read) and wherever the process dies, unless
\* a corruption has been set aside.
THEOREM NothingLost ==
    ASSUME "archread" \notin FaultOps
    PROVE  FMSpec => []Durable
<1>1. DurableInv => Durable
  BY DEF DurableInv, AllKept, Durable
<1> QED
  BY <1>1, DurableInvariant, PTL

-----------------------------------------------------------------------------
(* How metrics.json and the archive change.                                *)

\* While a session stays open nothing new is shown to clients, whatever fails.
THEOREM SessionHides == FMSpec => SessionHidden
<1>1. TypeOK /\ Coherent /\ [FMNext]_fmVars
      => [inTask /\ inTask' => metrics'.data \subseteq published]_fmVars
  <2> SUFFICES ASSUME TypeOK, Coherent, [FMNext]_fmVars, inTask, inTask'
               PROVE  metrics'.data \subseteq published
    OBVIOUS
  <2>1. CASE UNCHANGED metrics
    BY <2>1 DEF Coherent
  <2>2. CASE metrics' = Absent \/ metrics' = Torn
    BY <2>2, FileFields
  <2>3. CASE pc = "rename" /\ metrics' = Whole(buf)
    <3>1. op \in {"archive", "recover"}
      BY <2>3 DEF Coherent, TypeOK, Ops, Staging
    <3> QED
      BY <2>3, <3>1, FileFields DEF Coherent, Writing
  <2> QED
    BY <2>1, <2>2, <2>3, MetricsChange DEF StoreMoves
<1> QED
  BY <1>1, CoherentInvariant, TypeCorrect, PTL DEF FMSpec, SessionHidden

\* Unless something outside the program damages metrics.json, only the end of a
\* session can leave a torn document in its place.
THEOREM OnlyCommitCanTear ==
    ASSUME "corrupt" \notin FaultOps
    PROVE  FMSpec => OnlyCommitTears
<1>1. Coherent /\ [FMNext]_fmVars
      => [metrics'.st = "torn" => metrics.st = "torn" \/ (inTask /\ ~inTask')]_fmVars
  BY MetricsChange, FileFields DEF Fails, StoreMoves
<1> QED
  BY <1>1, CoherentInvariant, PTL DEF FMSpec, OnlyCommitTears

\* The archive changes only when a day is moved into it.
LEMMA ArchiveChange ==
    ASSUME [StoreMoves]_fmVars
    PROVE  archive' = archive \/ \E d \in Days : MoveDay(d)
<1> DEFINE Same == archive' = archive \/ \E d \in Days : MoveDay(d)
<1>1. ASSUME NEW c \in Callers, Call(c) \/ \E cutoff : Archive(c, cutoff)
      PROVE  Same
  BY <1>1
     DEF Call, StartTask, CommitTask, AbortTask, Add, Archive, ReadMetrics, disk
<1>2. ASSUME Step PROVE Same
  <2>1. CASE \/ ReadFails \/ ReadTorn \/ LoadForStart \/ LoadForAdd
             \/ LoadForArchive \/ LoadSnapshot \/ MoveDayFails
    BY <2>1
       DEF ReadFails, ReadTorn, LoadForStart, LoadForAdd, LoadForArchive,
           LoadSnapshot, Loads, MoveDayFails, disk
  <2>2. CASE Backup \/ OpenTmp \/ FillTmp \/ RenameTmp \/ Discard
    BY <2>2 DEF Backup, OpenTmp, FillTmp, RenameTmp, Discard
  <2> QED
    BY <1>2, <2>1, <2>2 DEF Step
<1>3. ASSUME Boot \/ Crash \/ Dies \/ ExternalCorruption \/ UNCHANGED fmVars
      PROVE  Same
  BY <1>3 DEF Boot, Crash, Dies, ExternalCorruption, disk, fmVars
<1> HIDE DEF Same
<1>4. Same
  BY <1>1, <1>2, <1>3 DEF StoreMoves, FMNext, Same
<1> QED
  BY <1>4 DEF Same

\* A slot once archived stays archived, unless an archive file that is there
\* cannot be read.
THEOREM ArchiveKeeps ==
    ASSUME "archread" \notin FaultOps
    PROVE  FMSpec => ArchiveKeepsSlots
<1>1. [FMNext]_fmVars => [Covers(archive', archive)]_fmVars
  <2> SUFFICES ASSUME [FMNext]_fmVars PROVE Covers(archive', archive)
    OBVIOUS
  <2>1. CASE archive' = archive
    BY <2>1 DEF Covers, SameSlot
  <2>2. ASSUME NEW d \in Days, MoveDay(d) PROVE Covers(archive', archive)
    BY <2>2 DEF MoveDay, Fails, MergeDay, Covers, SameSlot
  <2> QED
    BY <2>1, <2>2, ArchiveChange DEF StoreMoves
<1> QED
  BY <1>1, PTL DEF FMSpec, ArchiveKeepsSlots

-----------------------------------------------------------------------------
(* FileManager implements MetricsStore: to its callers, and to the clients *)
(* of metrics.json, each method is one step, for every set of callers,     *)
(* days, slots and values, wherever the process dies, and though reads,    *)
(* removals, backups and writes of the archive fail.  What must not fail   *)
(* is the writing of metrics.json and of its staging file, the reading of  *)
(* an archive file that is there, and metrics.json itself.                 *)

WritesWork ==
    FaultOps \cap {"open", "write", "rename", "archread", "corrupt"} = {}

-----------------------------------------------------------------------------
(* The inductive invariant: what the memory of a method under way, and the *)
(* staging file, have to do with what the abstract store holds.            *)

\* The staging file is being brought up to date with the session.
Refreshing == op \in {"start", "add"} /\ pc \in {"open", "fill"}

\* What a session has staged is what it has measured, unless a write of
\* metrics.json, which uses the same file, has taken it away.
SessionStaged ==
    /\ ~inTask => taskData = {}
    /\ inTask /\ Refreshing => buf = taskData
    /\ inTask /\ ~Refreshing /\ pc \notin {"fill", "rename"}
          => tmp.st = "absent" \/ tmp = Whole(taskData)

\* A measurement without a session is written together with all that is shown.
AddsOne ==
    op = "add" =>
        /\ pc \in {"read", "backup"} => ~inTask /\ \E e \in Entry : buf = {e}
        /\ pc \in Writing /\ ~inTask
              => \E e \in Entry : buf = metrics.data \cup {e}

\* The dataset Archive is to write is what is shown without whole days, and
\* those days are in the archive; the days still to move are shown.
MovedDaysKept ==
    op = "archive" /\ pc \in Writing =>
        /\ buf \subseteq metrics.data
        /\ \A e \in metrics.data \ buf : \A f \in DayOf(metrics.data, e.day) :
              f \in archive /\ f \notin buf
        /\ pc = "days" => \A d \in todo : DayOf(buf, d) # {}

\* The file that start-up or the recovery from a torn file creates shows
\* nothing that was not shown.
CreatesEmpty ==
    /\ op \in {"init", "recover"} => metrics.st = "absent" /\ buf = {}
    /\ op = "down" => buf = {}
    /\ pc = "backup" => metrics.st = "torn"

StoreInv == SessionStaged /\ AddsOne /\ MovedDaysKept /\ CreatesEmpty

\* A method that ends without having touched a file or the session.
LEMMA EndsUntouched ==
    ASSUME StoreInv, UNCHANGED <<disk, mem>>, NEW result, Finish(result),
           pc \in {"read", "backup", "days"}
    PROVE  StoreInv'
  BY DEF StoreInv, SessionStaged, AddsOne, MovedDaysKept, CreatesEmpty, Finish,
         Refreshing, Writing, disk, mem

LEMMA StoreInvStep ==
    ASSUME TypeOK, Coherent, StoreInv, [StoreMoves]_fmVars, WritesWork
    PROVE  StoreInv'
<1> USE DEF StoreInv
<1>0. \A call \in {"open", "write", "rename", "archread", "corrupt"} : ~Fails(call)
  BY DEF WritesWork, Fails
<1>1. CASE UNCHANGED fmVars
  BY <1>1
     DEF fmVars, SessionStaged, AddsOne, MovedDaysKept, CreatesEmpty, Refreshing
<1>2. CASE Boot
  <2>1. ~inTask /\ ~inTask' /\ taskData' = taskData
    BY <1>2 DEF Boot, mem, Coherent
  <2> QED
    BY <1>2, <2>1
       DEF Boot, SessionStaged, AddsOne, MovedDaysKept, CreatesEmpty
<1>3. ASSUME NEW c \in Callers, StartTask(c) \/ AbortTask(c) PROVE StoreInv'
  <2>1. /\ inTask' = FALSE /\ taskData' = {} /\ UNCHANGED metrics
        /\ op' \in {"idle", "start"} /\ pc' # "backup"
    BY <1>3 DEF StartTask, AbortTask, Answer, local, TypeOK
  <2> QED
    BY <2>1 DEF SessionStaged, AddsOne, MovedDaysKept, CreatesEmpty
<1>4. ASSUME NEW c \in Callers, CommitTask(c) PROVE StoreInv'
  <2>1. inTask' = FALSE /\ taskData' = {} /\ op' = "idle" /\ pc' = "free"
    BY <1>4 DEF CommitTask, Answer, local, TypeOK
  <2> QED
    BY <2>1 DEF SessionStaged, AddsOne, MovedDaysKept, CreatesEmpty
<1>5. ASSUME NEW c \in Callers, NEW e \in Entry, Add(c, e) PROVE StoreInv'
  <2>1. op' = "add" /\ UNCHANGED <<metrics, tmp, inTask>>
    BY <1>5 DEF Add, disk
  <2>2. CASE inTask
    BY <1>5, <2>1, <2>2
       DEF Add, SessionStaged, AddsOne, MovedDaysKept, CreatesEmpty, Refreshing
  <2>3. CASE ~inTask
    BY <1>5, <2>1, <2>3
       DEF Add, SessionStaged, AddsOne, MovedDaysKept, CreatesEmpty, Writing
  <2> QED
    BY <2>2, <2>3
<1>6. ASSUME NEW c \in Callers, ReadMetrics(c) \/ \E cutoff : Archive(c, cutoff)
      PROVE  StoreInv'
  <2>1. /\ UNCHANGED <<disk, mem, buf>>
        /\ op = "idle" /\ op' \in {"read", "archive"} /\ pc' = "read"
    BY <1>6 DEF ReadMetrics, Archive, Acquire, disk, mem
  <2> QED
    BY <2>1
       DEF TypeOK, disk, mem, SessionStaged, AddsOne, MovedDaysKept,
           CreatesEmpty, Refreshing, Writing
<1>7. CASE ReadFails \/ LoadSnapshot \/ MoveDayFails
  BY <1>7, EndsUntouched DEF ReadFails, LoadSnapshot, Loads, MoveDayFails, disk
<1>8. CASE ReadTorn
  BY <1>8
     DEF ReadTorn, disk, mem, SessionStaged, AddsOne, MovedDaysKept,
         CreatesEmpty, Refreshing, Writing
<1>9. CASE LoadForStart
  BY <1>9
     DEF LoadForStart, Loads, disk, SessionStaged, AddsOne, MovedDaysKept,
         CreatesEmpty, Refreshing
<1>10. CASE LoadForAdd
  <2>1. ~inTask /\ \E e \in Entry : buf' = metrics.data \cup {e}
    BY <1>10 DEF LoadForAdd, Loads, AddsOne
  <2> QED
    BY <1>10, <2>1
       DEF LoadForAdd, Loads, disk, mem, SessionStaged, AddsOne, MovedDaysKept,
           CreatesEmpty
<1>11. CASE LoadForArchive
  <2>1. /\ UNCHANGED <<disk, mem>> /\ buf' = metrics.data
        /\ op = "archive" /\ op' = "archive" /\ pc = "read"
        /\ pc' \in {"open", "days"}
        /\ \A d \in todo' : DayOf(metrics.data, d) # {}
    BY <1>11 DEF LoadForArchive, Loads, disk
  <2> QED
    BY <2>1
       DEF disk, mem, SessionStaged, AddsOne, MovedDaysKept, CreatesEmpty,
           Refreshing
<1>12. CASE Backup
  <2>1. CASE Finish("err") /\ UNCHANGED <<disk, mem>>
    BY <1>12, <2>1, EndsUntouched DEF Backup
  <2>2. CASE metrics' = Absent /\ op' = "recover" /\ pc' = "open" /\ buf' = {}
    BY <1>12, <2>2, FileFields
       DEF Backup, mem, SessionStaged, AddsOne, MovedDaysKept, CreatesEmpty,
           Refreshing
  <2> QED
    BY <1>12, <2>1, <2>2 DEF Backup, disk
<1>13. ASSUME NEW d \in Days, MoveDay(d) PROVE StoreInv'
  <2>1. /\ archive' = MergeDay(archive, DayOf(buf, d))
        /\ buf' = buf \ DayOf(buf, d) /\ todo' = todo \ {d} /\ d \in todo
        /\ pc = "days" /\ op = "archive" /\ pc' \in {"open", "days"}
        /\ UNCHANGED <<metrics, tmp, mem, op>>
    BY <1>13, <1>0 DEF MoveDay, Coherent
  <2>2. MovedDaysKept'
    <3>1. buf \subseteq metrics.data /\ DayOf(buf, d) # {}
      BY <2>1 DEF MovedDaysKept, Writing
    <3>2. ASSUME NEW e \in metrics.data \ buf', NEW f \in DayOf(metrics.data, e.day)
          PROVE  f \in archive' /\ f \notin buf'
      <4>1. CASE e \in buf
        <5>1. e.day = d
          BY <2>1, <3>2, <4>1 DEF DayOf
        <5>2. f \in DayOf(buf, d)
          BY <2>1, <3>1, <3>2, <5>1 DEF DayOf, MovedDaysKept, Writing
        <5> QED
          BY <2>1, <5>2 DEF MergeDay
      <4>2. CASE e \notin buf
        <5>1. f \in archive /\ f \notin buf /\ f.day = e.day
          BY <2>1, <3>2, <4>2 DEF MovedDaysKept, Writing, DayOf
        <5>2. e.day # d
          BY <2>1, <3>1, <3>2, <4>2 DEF MovedDaysKept, Writing, DayOf
        <5> QED
          BY <2>1, <5>1, <5>2 DEF MergeDay, DayOf, SameSlot
      <4> QED
        BY <4>1, <4>2
    <3>3. ASSUME NEW x \in todo' PROVE DayOf(buf', x) # {}
      BY <2>1, <3>3 DEF MovedDaysKept, Writing, DayOf
    <3> QED
      BY <2>1, <3>1, <3>2, <3>3 DEF MovedDaysKept
  <2> QED
    BY <2>1, <2>2 DEF mem, SessionStaged, AddsOne, CreatesEmpty, Refreshing
<1>14. CASE OpenTmp
  <2>1. tmp' = Torn /\ pc = "open" /\ pc' = "fill"
        /\ UNCHANGED <<metrics, archive, mem, op, buf, todo>>
    BY <1>14, <1>0 DEF OpenTmp
  <2> QED
    BY <2>1
       DEF mem, SessionStaged, AddsOne, MovedDaysKept, CreatesEmpty, Refreshing,
           Writing
<1>15. CASE FillTmp
  <2>1. tmp' = Whole(buf) /\ pc = "fill" /\ UNCHANGED <<metrics, archive, mem>>
    BY <1>15, <1>0 DEF FillTmp
  <2>2. CASE Staging /\ Finish("ok")
    BY <1>15, <2>1, <2>2
       DEF mem, Staging, Finish, SessionStaged, AddsOne, MovedDaysKept,
           CreatesEmpty, Refreshing
  <2>3. CASE ~Staging /\ pc' = "rename" /\ UNCHANGED <<op, buf, todo>>
    BY <1>15, <2>1, <2>3
       DEF mem, Staging, SessionStaged, AddsOne, MovedDaysKept, CreatesEmpty,
           Refreshing, Writing
  <2> QED
    BY <1>15, <1>0, <2>2, <2>3 DEF FillTmp
<1>16. CASE RenameTmp
  <2>1. tmp' = Absent /\ UNCHANGED mem /\ op' = "idle" /\ pc' = "free"
    BY <1>16, <1>0 DEF RenameTmp, Finish
  <2> QED
    BY <2>1, FileFields
       DEF mem, SessionStaged, AddsOne, MovedDaysKept, CreatesEmpty, Refreshing
<1>17. CASE Discard
  BY <1>17
     DEF Discard, Finish, SessionStaged, AddsOne, MovedDaysKept, CreatesEmpty
<1>18. CASE Crash \/ Dies
  <2>1. Dies
    BY <1>18 DEF Crash
  <2> QED
    BY <2>1 DEF Dies, SessionStaged, AddsOne, MovedDaysKept, CreatesEmpty
<1>19. CASE ExternalCorruption
  BY <1>19, <1>0 DEF ExternalCorruption
<1> QED
  BY <1>1, <1>2, <1>3, <1>4, <1>5, <1>6, <1>7, <1>8, <1>9, <1>10, <1>11,
     <1>12, <1>13, <1>14, <1>15, <1>16, <1>17, <1>18, <1>19
     DEF StoreMoves, FMNext, Call, Step
-----------------------------------------------------------------------------
(* The refinement, step by step.                                           *)

\* A step that neither shows, archives, opens nor stages anything.
LEMMA Stutters ==
    ASSUME UNCHANGED <<metrics.data, archive, mem>>
    PROVE  UNCHANGED Store!vars
  BY DEF Store!vars, mem

\* A session that ends and shows what was staged, or nothing of it.
LEMMA SessionEnds ==
    ASSUME SessionStaged, inTask' = FALSE, taskData' = {}, archive' = archive,
           inTask \in BOOLEAN,
           \/ metrics'.data = metrics.data
           \/ inTask /\ metrics'.data = taskData
    PROVE  [Store!Next]_(Store!vars)
<1>1. CASE inTask
  BY <1>1 DEF Store!Next, Store!End
<1>2. CASE ~inTask
  BY <1>2, Stutters DEF SessionStaged, mem
<1> QED
  BY <1>1, <1>2

\* A turn of archiveDay puts the whole of a shown day into the archive.
LEMMA MoveKeeps ==
    ASSUME StoreInv, Coherent, WritesWork, NEW d \in Days, MoveDay(d),
           metrics \in File
    PROVE  [Store!Next]_(Store!vars)
<1>1. /\ archive' = MergeDay(archive, DayOf(buf, d))
      /\ op = "archive" /\ pc = "days" /\ d \in todo
      /\ UNCHANGED <<metrics, mem>>
  BY DEF MoveDay, Coherent, WritesWork, Fails
<1>2. buf \subseteq metrics.data /\ DayOf(buf, d) # {}
  BY <1>1 DEF StoreInv, MovedDaysKept, Writing
<1>3. DayOf(buf, d) = DayOf(metrics.data, d)
  <2>1. PICK f \in DayOf(buf, d) : TRUE
    BY <1>2
  <2>2. f \in buf /\ f \in DayOf(metrics.data, d) /\ f.day = d
    BY <1>2, <2>1 DEF DayOf
  <2>3. ASSUME NEW e \in DayOf(metrics.data, d) PROVE e \in buf
    <3>1. e \in metrics.data /\ e.day = d
      BY <2>3 DEF DayOf
    <3> QED
      BY <1>1, <2>2, <3>1 DEF StoreInv, MovedDaysKept, Writing
  <2> QED
    BY <1>2, <2>3 DEF DayOf
<1>4. d \in Store!AllDays
  BY <1>2 DEF Store!AllDays, DayOf, File
<1>5. archive' = Store!Merge(archive, Store!OfDay(metrics.data, d))
  BY <1>1, <1>3 DEF MergeDay, SameSlot, DayOf, Store!Merge, Store!OfDay
<1>6. Store!Keep(d)
  BY <1>1, <1>5 DEF Store!Keep, mem
<1> QED
  BY <1>4, <1>6 DEF Store!Next

\* The rename of writeRaw shows one measurement more, or it retires the days
\* that are in the archive, or it shows the empty file of a new metrics.json.
LEMMA RenameShows ==
    ASSUME TypeOK, StoreInv, Coherent, WritesWork, RenameTmp
    PROVE  [Store!Next]_(Store!vars)
<1>1. /\ metrics'.data = buf /\ UNCHANGED <<archive, mem>>
      /\ pc = "rename" /\ ~Staging
      /\ op \in {"init", "recover", "add", "archive"}
  BY FileFields
     DEF RenameTmp, Coherent, WritesWork, Fails, TypeOK, Ops, Staging
<1>2. CASE op \in {"init", "recover"}
  <2>1. metrics'.data = metrics.data
    BY <1>1, <1>2 DEF StoreInv, CreatesEmpty, Coherent
  <2> QED
    BY <1>1, <2>1, Stutters
<1>3. CASE op = "add"
  <2>1. ~inTask
    BY <1>1, <1>3 DEF Staging
  <2>2. PICK e \in Entry : metrics'.data = metrics.data \cup {e}
    BY <1>1, <1>3, <2>1 DEF StoreInv, AddsOne, Writing
  <2>3. Store!Record(e)
    BY <1>1, <2>1, <2>2 DEF Store!Record, mem
  <2> QED
    BY <2>3 DEF Store!Next
<1>4. CASE op = "archive"
  <2> DEFINE D == {e.day : e \in metrics.data \ buf}
  <2>1. D \in SUBSET Store!AllDays
    BY DEF TypeOK, File, Store!AllDays
  <2>2. ASSUME NEW f \in metrics.data, f.day \in D
        PROVE  f \in archive /\ f \notin buf
    <3>1. PICK e \in metrics.data \ buf : f.day = e.day
      BY <2>2
    <3> QED
      BY <1>1, <1>4, <2>2, <3>1 DEF StoreInv, MovedDaysKept, Writing, DayOf
  <2>3. \A d \in D : Store!OfDay(metrics.data, d) \subseteq archive
    BY <2>2 DEF Store!OfDay
  <2>4. buf \subseteq metrics.data
    BY <1>1, <1>4 DEF StoreInv, MovedDaysKept, Writing
  <2>5. metrics'.data = {e \in metrics.data : e.day \notin D}
    BY <1>1, <2>2, <2>4
  <2>6. Store!Retire(D)
    BY <1>1, <2>3, <2>5 DEF Store!Retire, mem
  <2> QED
    BY <2>1, <2>6 DEF Store!Next
<1> QED
  BY <1>1, <1>2, <1>3, <1>4

LEMMA StoreStepRefines ==
    ASSUME TypeOK, Coherent, StoreInv, [StoreMoves]_fmVars, WritesWork
    PROVE  [Store!Next]_(Store!vars)
<1>0. inTask \in BOOLEAN /\ metrics \in File /\ SessionStaged
  BY DEF TypeOK, StoreInv
<1>1. CASE UNCHANGED fmVars
  BY <1>1, Stutters DEF fmVars, mem
<1>2. CASE Boot
  BY <1>2, Stutters DEF Boot
<1>3. ASSUME NEW c \in Callers, StartTask(c) \/ AbortTask(c)
      PROVE  [Store!Next]_(Store!vars)
  BY <1>0, <1>3, SessionEnds DEF StartTask, AbortTask
<1>4. ASSUME NEW c \in Callers, CommitTask(c) PROVE [Store!Next]_(Store!vars)
  <2>1. inTask' = FALSE /\ taskData' = {} /\ archive' = archive
    BY <1>4 DEF CommitTask
  <2>2. CASE inTask /\ tmp.st # "absent" /\ metrics' = tmp
    <3>1. op = "idle" /\ pc = "free"
      BY <1>4 DEF CommitTask, Answer, TypeOK
    <3>2. tmp = Whole(taskData)
      BY <1>0, <2>2, <3>1 DEF SessionStaged, Refreshing
    <3> QED
      BY <1>0, <2>1, <2>2, <3>2, FileFields, SessionEnds
  <2>3. CASE UNCHANGED metrics
    BY <1>0, <2>1, <2>3, SessionEnds
  <2> QED
    BY <1>4, <2>2, <2>3 DEF CommitTask
<1>5. ASSUME NEW c \in Callers, NEW e \in Entry, Add(c, e)
      PROVE  [Store!Next]_(Store!vars)
  <2>1. CASE inTask
    <3>1. Store!Record(e)
      BY <1>5, <2>1 DEF Add, disk, Store!Record
    <3> QED
      BY <3>1 DEF Store!Next
  <2>2. CASE ~inTask
    BY <1>5, <2>2, Stutters DEF Add, disk, mem
  <2> QED
    BY <2>1, <2>2
<1>6. ASSUME NEW c \in Callers, ReadMetrics(c) \/ \E cutoff : Archive(c, cutoff)
      PROVE  [Store!Next]_(Store!vars)
  BY <1>6, Stutters DEF ReadMetrics, Archive, disk
<1>7. CASE \/ ReadFails \/ ReadTorn \/ LoadForAdd \/ LoadForArchive
           \/ LoadSnapshot \/ MoveDayFails
  BY <1>7, Stutters
     DEF ReadFails, ReadTorn, LoadForAdd, LoadForArchive, LoadSnapshot,
         Loads, MoveDayFails, disk
<1>8. CASE LoadForStart
  <2>1. Store!Begin
    BY <1>8
       DEF LoadForStart, Loads, disk, Coherent, Store!Begin
  <2> QED
    BY <2>1 DEF Store!Next
<1>9. CASE Backup
  <2>1. metrics.data = {}
    BY <1>9 DEF Backup, StoreInv, CreatesEmpty, Coherent
  <2> QED
    BY <1>9, <2>1, FileFields, Stutters DEF Backup, disk
<1>10. ASSUME NEW d \in Days, MoveDay(d) PROVE [Store!Next]_(Store!vars)
  BY <1>0, <1>10, MoveKeeps
<1>11. CASE OpenTmp \/ FillTmp
  BY <1>11, Stutters DEF OpenTmp, FillTmp
<1>12. CASE RenameTmp
  BY <1>12, RenameShows
<1>13. CASE Discard
  BY <1>0, <1>13, SessionEnds DEF Discard
<1>14. CASE Crash \/ Dies
  BY <1>0, <1>14, SessionEnds DEF Crash, Dies, disk
<1>15. CASE ExternalCorruption
  BY <1>15 DEF ExternalCorruption, Fails, WritesWork
<1> QED
  BY <1>1, <1>2, <1>3, <1>4, <1>5, <1>6, <1>7, <1>8, <1>9, <1>10, <1>11,
     <1>12, <1>13, <1>14, <1>15
     DEF StoreMoves, FMNext, Call, Step

LEMMA StoreStarts == FMInit => StoreInv /\ Store!Init
  BY FileFields
     DEF FMInit, StoreInv, SessionStaged, AddsOne, MovedDaysKept, CreatesEmpty,
         Store!Init

\* Each method of the store is atomic to its callers and to the clients that
\* read metrics.json, although it is many file-system calls and the process may
\* die between any two of them: the store implements MetricsStore.
THEOREM StoreRefines ==
    ASSUME WritesWork
    PROVE  FMSpec => ImplementsStore
<1>1. TypeOK /\ Coherent /\ StoreInv /\ [FMNext]_fmVars
      => StoreInv' /\ [Store!Next]_(Store!vars)
  BY StoreInvStep, StoreStepRefines DEF StoreMoves
<1> QED
  BY <1>1, StoreStarts, TypeCorrect, CoherentInvariant, PTL
     DEF FMSpec, ImplementsStore, Store!Spec
=============================================================================
