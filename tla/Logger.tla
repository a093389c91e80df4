------------------------------- MODULE Logger -------------------------------
(***************************************************************************)
(* The logger of WTWatcher: cmd/modules/logging.go.                        *)
(*                                                                         *)
(* Three levels, each with an active file that is appended to through a    *)
(* handle.  Rotate closes the handles, renames every active file that is   *)
(* not empty to a name with the date (and a number, when Stat finds a file *)
(* of that name), and opens fresh files; each of its file-system calls can *)
(* fail, and the process can die between two of them.  All methods hold    *)
(* l.mu from their first line to their last, so a line is logged between   *)
(* two rotations, never during one.                                        *)
(*                                                                         *)
(* A log file is the set of its lines; a missing one and an empty one are  *)
(* the same to Rotate.                                                     *)
(***************************************************************************)
EXTENDS Integers, Sequences, FiniteSets

CONSTANTS
    Lines,        \* the log records; each is logged once
    LevelOf,      \* the level each is logged at
    Dates,        \* the dates, in calendar order
    FileFaults,   \* which file-system calls may fail
    MaxFileFaults \* bound: how many of them fail in one behaviour

Levels == {"info", "warning", "error"}

\* logFileDefs, in the order Rotate and openFiles go through it.
LogFileDefs == <<"info", "warning", "error">>

ASSUME LinesAssumption ==
    /\ IsFiniteSet(Lines)
    /\ LevelOf \in [Lines -> Levels]
ASSUME DatesAssumption == Dates \subseteq Nat /\ 1 \in Dates
ASSUME FileFaultsAssumption ==
    /\ FileFaults \subseteq {"stat", "statdst", "rename", "open", "write"}
    /\ MaxFileFaults \in Nat

VARIABLES
    active,     \* the lines of each active file
    rotated,    \* the rotated files
    open,       \* the levels whose handle is open
    lpc,        \* what the holder of l.mu does next; "free", or "down"
    file,       \* the place in LogFileDefs it has come to
    date,       \* the UTC date
    failures,   \* how many file-system calls have failed
    logged,     \* history: the lines a log method was called for
    written,    \* history: those of them that went into a file
    unseen,     \* history: the lines of the rotated files Stat failed to see
    deaf        \* history: the files could not be opened (or have not been yet)

logVars == <<active, rotated, open, lpc, file, date, failures, logged, written,
             unseen, deaf>>

\* The number in a rotated file's name; 0 is the name without one.  Files have
\* lines, so no more names are taken, and no more are passed over than Stats fail.
Suffixes == 0..(Cardinality(Lines) + MaxFileFaults)

RotatedFile == [level : Levels, date : Dates, n : Suffixes, lines : SUBSET Lines]

Level == LogFileDefs[file]

CallWorks == UNCHANGED failures
CallFails(call) ==
    /\ call \in FileFaults
    /\ failures < MaxFileFaults
    /\ failures' = failures + 1
CallsFail(call, times) ==
    /\ times > 0 => call \in FileFaults
    /\ failures + times <= MaxFileFaults
    /\ failures' = failures + times

-----------------------------------------------------------------------------
(* Info, Warn and Error.                                                   *)

\* Mutant: without the lock, so also in the middle of a rotation.
LogUnlocked(line) ==
    /\ lpc # "down"
    /\ line \notin logged
    /\ logged' = logged \cup {line}
    /\ LET l == LevelOf[line]
       IN  IF l \in open
             THEN /\ active' = [active EXCEPT ![l] = @ \cup {line}]
                  /\ written' = written \cup {line}
             ELSE UNCHANGED <<active, written>>
    /\ CallWorks
    /\ UNCHANGED <<rotated, open, lpc, file, date, unseen, deaf>>

\* slog drops the error of a write, to a closed handle as well.
Log(line) ==
    /\ lpc = "free"
    /\ line \notin logged
    /\ logged' = logged \cup {line}
    /\ LET l == LevelOf[line]
       IN  \/ /\ l \in open
              /\ active' = [active EXCEPT ![l] = @ \cup {line}]
              /\ written' = written \cup {line}
              /\ CallWorks
           \/ /\ l \in open
              /\ CallFails("write")
              /\ UNCHANGED <<active, written>>
           \/ /\ l \notin open
              /\ CallWorks
              /\ UNCHANGED <<active, written>>
    /\ UNCHANGED <<rotated, open, lpc, file, date, unseen, deaf>>

-----------------------------------------------------------------------------
(* Rotate.                                                                 *)

\* Every handle is closed (also when Sync or Close return an error).
RotateBegins ==
    /\ lpc = "free"
    /\ open' = {}
    /\ lpc' = "rename"
    /\ file' = 1
    /\ UNCHANGED <<active, rotated, date, failures, logged, written, unseen, deaf>>

NextFile(done) ==
    IF file < Len(LogFileDefs)
      THEN file' = file + 1 /\ UNCHANGED lpc
      ELSE file' = 1 /\ lpc' = done

\* The rotated files that have the name with number n.
Named(n) == {f \in rotated : f.level = Level /\ f.date = date /\ f.n = n}
Taken(n) == Named(n) # {}

\* Mutant: only the name without a number is looked at.
PicksNameFirst(n) ==
    /\ IF Taken(0) THEN n = 1 ELSE n = 0
    /\ CallWorks
    /\ UNCHANGED unseen

\* The name without a number, unless Stat finds a file there: when Stat fails
\* for another reason, such a file goes unseen.  Otherwise the first numbered
\* name that Stat says is not there: one it fails for is passed over.
PicksName(n) ==
    \/ n = 0 /\ ~Taken(0) /\ CallWorks /\ UNCHANGED unseen
    \/ /\ n = 0
       /\ CallFails("statdst")
       /\ unseen' = unseen \cup UNION {f.lines : f \in Named(0)}
    \/ /\ n > 0 /\ Taken(0) /\ ~Taken(n)
       /\ CallsFail("statdst", Cardinality({m \in 1..(n - 1) : ~Taken(m)}))
       /\ UNCHANGED unseen

Moved(n) == [level |-> Level, date |-> date, n |-> n, lines |-> active[Level]]

\* Mutant: the file is copied and stays in place.
RenameFileCopies ==
    /\ lpc = "rename"
    /\ active[Level] # {}
    /\ \E n \in Suffixes :
          /\ PicksName(n)
          /\ rotated' = (rotated \ Named(n)) \cup {Moved(n)}
    /\ NextFile("open")
    /\ UNCHANGED <<active, open, date, logged, written, deaf>>

\* The rename replaces a file of that name, if there is one.
RenameFile ==
    /\ lpc = "rename"
    /\ active[Level] # {}
    /\ \/ /\ \E n \in Suffixes :
                /\ PicksName(n)
                /\ rotated' = (rotated \ Named(n)) \cup {Moved(n)}
          /\ active' = [active EXCEPT ![Level] = {}]
       \/ CallFails("rename") /\ UNCHANGED <<active, rotated, unseen>>
    /\ NextFile("open")
    /\ UNCHANGED <<open, date, logged, written, deaf>>

\* The file is empty, or Stat says it is not there.
SkipFile ==
    /\ lpc = "rename"
    /\ \/ active[Level] = {} /\ CallWorks
       \/ active[Level] # {} /\ CallFails("stat")
    /\ NextFile("open")
    /\ UNCHANGED <<active, rotated, open, date, logged, written, unseen, deaf>>

-----------------------------------------------------------------------------
(* openFiles, for Rotate and for NewLogger.                                *)

OpenFile ==
    /\ lpc \in {"open", "new"}
    /\ open' = open \cup {Level}
    /\ deaf' = (deaf /\ file < Len(LogFileDefs))
    /\ NextFile("free")
    /\ CallWorks
    /\ UNCHANGED <<active, rotated, date, logged, written, unseen>>

\* Mutant: the error path returns without unlocking.
OpenFailsLocked ==
    /\ lpc \in {"open", "new"}
    /\ CallFails("open")
    /\ open' = {}
    /\ lpc' = IF lpc = "new" THEN "down" ELSE "held"
    /\ file' = 1
    /\ deaf' = TRUE
    /\ UNCHANGED <<active, rotated, date, logged, written, unseen>>

\* The files opened so far are closed again; their loggers, and those of the
\* files that come after, are left with closed handles.  In NewLogger this
\* ends the program.
OpenFails ==
    /\ lpc \in {"open", "new"}
    /\ CallFails("open")
    /\ open' = {}
    /\ lpc' = IF lpc = "new" THEN "down" ELSE "free"
    /\ file' = 1
    /\ deaf' = TRUE
    /\ UNCHANGED <<active, rotated, date, logged, written, unseen>>

-----------------------------------------------------------------------------

Close ==
    /\ lpc = "free"
    /\ open' = {}
    /\ UNCHANGED <<active, rotated, lpc, file, date, failures, logged, written,
                   unseen, deaf>>

NewLogger ==
    /\ lpc = "down"
    /\ lpc' = "new"
    /\ file' = 1
    /\ UNCHANGED <<active, rotated, open, date, failures, logged, written, unseen,
                   deaf>>

\* The process ends, at any point.
LoggerDies ==
    /\ lpc # "down"
    /\ open' = {}
    /\ lpc' = "down"
    /\ file' = 1
    /\ deaf' = TRUE
    /\ UNCHANGED <<active, rotated, date, failures, logged, written, unseen>>

DateChanges ==
    /\ date + 1 \in Dates
    /\ date' = date + 1
    /\ UNCHANGED <<active, rotated, open, lpc, file, failures, logged, written,
                   unseen, deaf>>

LoggerInit ==
    /\ active = [l \in Levels |-> {}]
    /\ rotated = {}
    /\ open = {}
    /\ lpc = "down"
    /\ file = 1
    /\ date = 1
    /\ failures = 0
    /\ logged = {}
    /\ written = {}
    /\ unseen = {}
    /\ deaf = TRUE

\* The steps of the method that holds the lock.
LockedStep == RenameFile \/ SkipFile \/ OpenFile \/ OpenFails

LoggerNext ==
    \/ \E line \in Lines : Log(line)
    \/ RotateBegins
    \/ LockedStep
    \/ Close
    \/ NewLogger
    \/ LoggerDies
    \/ DateChanges

LoggerSpec == LoggerInit /\ [][LoggerNext]_logVars

-----------------------------------------------------------------------------

\* The type invariant, with what the position of the lock's holder says about
\* the handles.
LoggerTypeOK ==
    /\ active \in [Levels -> SUBSET Lines]
    /\ rotated \subseteq RotatedFile
    /\ open \subseteq Levels
    /\ lpc \in {"down", "free", "rename", "open", "new"}
    /\ file \in 1..3
    /\ date \in Dates
    /\ failures \in Nat
    /\ logged \subseteq Lines
    /\ written \subseteq logged
    /\ unseen \subseteq Lines
    /\ deaf \in BOOLEAN
    /\ lpc \in {"down", "rename"} => open = {}

\* Lines of a level in one of its files.
InActive(line) == line \in active[LevelOf[line]]
InRotated(line) ==
    \E f \in rotated : f.level = LevelOf[line] /\ line \in f.lines

\* A line that was written stays in a file of its level, whatever else of a
\* rotation fails and wherever the process dies: active files are never
\* truncated, and no rotated file is overwritten that Stat did not fail to see.
LinesKept == \A line \in written \ unseen : InActive(line) \/ InRotated(line)

\* And it is in exactly one of them.
LinesOnce ==
    /\ \A line \in Lines : ~(InActive(line) /\ InRotated(line))
    /\ \A f, g \in rotated : f # g => f.lines \cap g.lines = {}
=============================================================================
