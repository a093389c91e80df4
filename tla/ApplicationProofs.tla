-------------------------- MODULE ApplicationProofs --------------------------
(***************************************************************************)
(* Theorems about Application: the logger that Run's goroutines share,     *)
(* bootstrap, and the server's Start and Shutdown, for every set of lines, *)
(* files, dates and failing calls, with the server or without it.          *)
(***************************************************************************)
EXTENDS Application, FiniteSetTheorems, TLAPS

-----------------------------------------------------------------------------
(* The logger.                                                             *)

\* Where lines are: in the files of their level, once they were written.
LinesFiled ==
    /\ \A l \in Levels : \A line \in active[l] : LevelOf[line] = l /\ line \in written
    /\ \A f \in rotated : \A line \in f.lines : LevelOf[line] = f.level /\ line \in written

LoggerInv == LoggerTypeOK /\ LinesFiled /\ LinesKept /\ LinesOnce

LEMMA LevelType ==
    ASSUME LoggerTypeOK
    PROVE  Level \in Levels /\ Len(LogFileDefs) = 3
<1>1. file \in {1, 2, 3}
  BY DEF LoggerTypeOK
<1> QED
  BY <1>1 DEF Level, LogFileDefs, Levels

LEMMA LoggerTypeStep ==
    ASSUME LoggerTypeOK, [LoggerNext]_logVars
    PROVE  LoggerTypeOK'
<1> USE DEF LoggerTypeOK
<1>0. Level \in Levels /\ Len(LogFileDefs) = 3
  BY LevelType
<1>1. CASE UNCHANGED logVars
  BY <1>1 DEF logVars
<1>2. ASSUME NEW line \in Lines, Log(line) PROVE LoggerTypeOK'
  <2>1. active' = active \/ active' = [active EXCEPT ![LevelOf[line]] = @ \cup {line}]
    BY <1>2 DEF Log
  <2>2. failures' \in Nat /\ written' \subseteq logged' /\ logged' \subseteq Lines
    BY <1>2 DEF Log, CallWorks, CallFails
  <2>3. UNCHANGED <<rotated, open, lpc, file, date, unseen, deaf>>
    BY <1>2 DEF Log
  <2>4. LevelOf[line] \in Levels
    BY LinesAssumption
  <2>5. active' \in [Levels -> SUBSET Lines]
    BY <2>1, <2>4
  <2>6. lpc' = lpc /\ open' = open /\ rotated' = rotated /\ file' = file
        /\ date' = date /\ unseen' = unseen /\ deaf' = deaf
    BY <2>3
  <2> QED
    BY <2>2, <2>5, <2>6
<1>3. CASE RotateBegins \/ Close \/ NewLogger \/ LoggerDies \/ DateChanges
  <2>1. /\ UNCHANGED <<active, rotated, failures, logged, written, unseen>>
        /\ open' \in {{}, open} /\ file' \in {1, file}
        /\ date' \in {date} \cup Dates
        /\ lpc' \in {"down", "free", "rename", "open", "new"}
        /\ lpc' \in {"down", "rename"} => open' = {}
    BY <1>3 DEF RotateBegins, Close, NewLogger, LoggerDies, DateChanges
  <2>2. deaf' \in BOOLEAN
    BY <1>3 DEF RotateBegins, Close, NewLogger, LoggerDies, DateChanges
  <2> QED
    BY <2>1, <2>2
<1>4. ASSUME NEW done \in {"open", "free"}, NextFile(done)
      PROVE  file' \in 1..3 /\ lpc' \in {lpc, done}
  BY <1>0, <1>4 DEF NextFile
<1>5. CASE RenameFile
  <2>1. active' \in [Levels -> SUBSET Lines]
    BY <1>5 DEF RenameFile
  <2>2. rotated' \subseteq RotatedFile
    <3>1. \A n \in Suffixes : Moved(n) \in RotatedFile
      BY <1>0 DEF RotatedFile, Moved
    <3> QED
      BY <1>5, <3>1 DEF RenameFile
  <2>3. failures' \in Nat /\ unseen' \subseteq Lines
    <3>1. ASSUME NEW n \in Suffixes, PicksName(n)
          PROVE  failures' \in Nat /\ unseen' \subseteq Lines
      <4> DEFINE passed == {m \in 1..(n - 1) : ~Taken(m)}
      <4>1. n \in Nat
        BY LinesAssumption, FS_CardinalityType, FileFaultsAssumption DEF Suffixes
      <4>2. IsFiniteSet(1..(n - 1)) /\ passed \subseteq 1..(n - 1)
        BY <4>1, FS_Interval
      <4>3. Cardinality(passed) \in Nat
        BY <4>2, FS_Subset, FS_CardinalityType
      <4> HIDE DEF passed
      <4>4. \/ CallWorks \/ CallFails("statdst")
            \/ CallsFail("statdst", Cardinality(passed))
        BY <3>1 DEF PicksName, passed
      <4>5. failures' \in Nat
        BY <4>3, <4>4 DEF CallWorks, CallFails, CallsFail
      <4>6. UNION {f.lines : f \in Named(0)} \subseteq Lines
        BY DEF Named, RotatedFile
      <4>7. unseen' \subseteq Lines
        BY <3>1, <4>6 DEF PicksName
      <4> QED
        BY <4>5, <4>7
    <3> QED
      BY <1>5, <3>1 DEF RenameFile, CallFails
  <2>4. lpc = "rename" /\ NextFile("open")
        /\ UNCHANGED <<open, date, logged, written, deaf>>
    BY <1>5 DEF RenameFile
  <2> QED
    BY <1>4, <2>1, <2>2, <2>3, <2>4
<1>6. CASE SkipFile
  BY <1>4, <1>6 DEF SkipFile, CallWorks, CallFails
<1>7. CASE OpenFile
  BY <1>0, <1>4, <1>7 DEF OpenFile, CallWorks
<1>8. CASE OpenFails
  BY <1>8 DEF OpenFails, CallFails
<1> QED
  BY <1>1, <1>2, <1>3, <1>5, <1>6, <1>7, <1>8 DEF LoggerNext, LockedStep

\* The files a rename replaces are those Stat failed to see.
LEMMA RenameReplaces ==
    ASSUME LoggerTypeOK, RenameFile
    PROVE  \/ UNCHANGED <<active, rotated, unseen>>
           \/ \E n \in Suffixes :
                 /\ rotated' = (rotated \ Named(n)) \cup {Moved(n)}
                 /\ active' = [active EXCEPT ![Level] = {}]
                 /\ unseen \subseteq unseen'
                 /\ \A f \in Named(n) : f.lines \subseteq unseen'
<1>1. ASSUME NEW n \in Suffixes, PicksName(n)
      PROVE  unseen \subseteq unseen' /\ \A f \in Named(n) : f.lines \subseteq unseen'
  BY <1>1 DEF PicksName, Taken
<1> QED
  BY <1>1 DEF RenameFile

LEMMA LinesStep ==
    ASSUME LoggerInv, [LoggerNext]_logVars
    PROVE  LinesFiled' /\ LinesKept' /\ LinesOnce'
<1> USE DEF LoggerInv, LinesFiled, LinesKept, LinesOnce, InActive, InRotated
<1>0. LevelOf \in [Lines -> Levels] /\ LoggerTypeOK
  BY LinesAssumption
<1>1. ASSUME UNCHANGED <<active, rotated, written, unseen>>
      PROVE  LinesFiled' /\ LinesKept' /\ LinesOnce'
  BY <1>1
<1>2. ASSUME NEW line \in Lines, Log(line)
      PROVE  LinesFiled' /\ LinesKept' /\ LinesOnce'
  <2>1. CASE UNCHANGED <<active, written>>
    BY <1>1, <1>2, <2>1 DEF Log
  <2>2. CASE /\ active' = [active EXCEPT ![LevelOf[line]] = @ \cup {line}]
             /\ written' = written \cup {line}
    <3>1. line \notin written /\ rotated' = rotated /\ unseen' = unseen
      BY <1>0, <1>2 DEF Log, LoggerTypeOK
    <3>0. active \in [Levels -> SUBSET Lines]
      BY <1>0 DEF LoggerTypeOK
    <3>2. \A l \in Levels : active'[l] = IF l = LevelOf[line] THEN active[l] \cup {line}
                                         ELSE active[l]
      BY <2>2, <3>0
    <3>3. \A k \in Lines : LevelOf[k] \in Levels
      BY <1>0
    <3>4. LinesFiled'
      BY <2>2, <3>1, <3>2
    <3>5. LinesKept'
      BY <1>0, <2>2, <3>1, <3>2, <3>3 DEF LoggerTypeOK
    <3>6. LinesOnce'
      BY <2>2, <3>1, <3>2, <3>3
    <3> QED
      BY <3>4, <3>5, <3>6
  <2> QED
    BY <1>2, <2>1, <2>2 DEF Log
<1>3. CASE RenameFile
  <2>1. UNCHANGED written
    BY <1>3 DEF RenameFile
  <2>2. CASE UNCHANGED <<active, rotated, unseen>>
    BY <1>1, <2>1, <2>2
  <2>3. ASSUME NEW n \in Suffixes,
               rotated' = (rotated \ Named(n)) \cup {Moved(n)},
               active' = [active EXCEPT ![Level] = {}],
               unseen \subseteq unseen',
               \A f \in Named(n) : f.lines \subseteq unseen'
        PROVE  LinesFiled' /\ LinesKept' /\ LinesOnce'
    <3> DEFINE new == Moved(n)
               replaced == Named(n)
    <3>1. /\ new.level = Level /\ new.lines = active[Level]
          /\ rotated' = (rotated \ replaced) \cup {new} /\ Level \in Levels
          /\ \A f \in replaced : f.lines \subseteq unseen'
      BY <1>0, <2>3, LevelType DEF Moved
    <3> HIDE DEF new, replaced
    <3>2. \A l \in Levels : active'[l] = IF l = Level THEN {} ELSE active[l]
      BY <1>0, <2>3 DEF LoggerTypeOK
    <3>3. \A k \in Lines : LevelOf[k] \in Levels
      BY <1>0
    <3>4. LinesFiled'
      BY <2>1, <3>1, <3>2
    <3>5. LinesKept'
      BY <1>0, <2>1, <2>3, <3>1, <3>2, <3>3 DEF LoggerTypeOK
    <3>6. ASSUME NEW f \in rotated PROVE f.lines \cap active[Level] = {}
      <4> SUFFICES ASSUME NEW k \in f.lines, k \in active[Level] PROVE FALSE
        OBVIOUS
      <4>1. k \in Lines /\ LevelOf[k] = Level /\ LevelOf[k] = f.level
        BY <1>0, <3>1 DEF LoggerTypeOK
      <4> QED
        BY <4>1
    <3>7. LinesOnce'
      <4>1. ASSUME NEW line \in Lines, InActive(line)', InRotated(line)' PROVE FALSE
        BY <3>1, <3>2, <3>3, <4>1
      <4>2. ASSUME NEW f \in rotated', NEW g \in rotated', f # g
            PROVE  f.lines \cap g.lines = {}
        BY <3>1, <3>6, <4>2
      <4> QED
        BY <4>1, <4>2
    <3> QED
      BY <3>4, <3>5, <3>7
  <2> QED
    BY <1>0, <1>3, <2>2, <2>3, RenameReplaces
<1>4. CASE \/ UNCHANGED logVars \/ RotateBegins \/ Close \/ NewLogger \/ LoggerDies
           \/ DateChanges \/ SkipFile \/ OpenFile \/ OpenFails
  BY <1>1, <1>4
     DEF logVars, RotateBegins, Close, NewLogger, LoggerDies, DateChanges,
         SkipFile, OpenFile, OpenFails
<1> QED
  BY <1>2, <1>3, <1>4 DEF LoggerNext, LockedStep

LEMMA LoggerStarts == LoggerInit => LoggerInv
  BY DatesAssumption
     DEF LoggerInit, LoggerInv, LoggerTypeOK, LinesFiled, LinesKept, LinesOnce,
         InActive, InRotated

-----------------------------------------------------------------------------
(* Server.Start and Server.Shutdown.                                       *)

\* Why ServerDown holds: s.srv is set before the server can listen, and what
\* Shutdown has seen, it has also told to refuse.
ServerInv ==
    /\ srv <=> server \in {"stored", "listening", "failed", "returned"}
    /\ owed => refusing /\ server # "listening"
    /\ refusing => srv
    /\ server \in ServerPlaces
    /\ srv \in BOOLEAN /\ refusing \in BOOLEAN /\ owed \in BOOLEAN
    /\ server # "none" => Scheduling /\ main # "scheduler"
    /\ owed => main \in {"draining", "closing", "closed"}

LEMMA ServerStarts == Init => ServerInv
  BY DEF Init, ServerInv, ServerPlaces

LEMMA ServerStepKeeps ==
    ASSUME ServerInv, [Next]_vars
    PROVE  ServerInv'
<1> USE DEF ServerInv, ServerPlaces, Scheduling, MainGoes, ServerFrame
<1>1. CASE UNCHANGED appVars
  BY <1>1 DEF appVars
<1>2. CASE ServerBegins
  BY <1>2 DEF ServerBegins
<1>3. CASE ServerStores
  BY <1>3 DEF ServerStores
<1>4. CASE ServerListens
  BY <1>4 DEF ServerListens
<1>5. CASE ServerFails
  BY <1>5 DEF ServerFails
<1>6. CASE Shutdown
  BY <1>6 DEF Shutdown
<1>7. CASE SchedulerStarted
  BY <1>7 DEF SchedulerStarted
<1>8. CASE Ends
  BY <1>8 DEF Ends
<1>9. CASE Boots \/ BootstrapStep \/ BootstrapFails \/ LoggerReady \/ ConfigLoaded \/ Fatal \/ StoreOpened
  <2>1. main \in {"exited", "bootstrap", "logger", "config", "store"}
    BY <1>9 DEF Boots, BootstrapStep, Creates, Bootstrapped, BootstrapFails, LoggerReady, ConfigLoaded, Fatal, StoreOpened
  <2>2. UNCHANGED <<server, srv, refusing, owed>>
    BY <1>9 DEF Boots, BootstrapStep, Creates, Bootstrapped, BootstrapFails, LoggerReady, ConfigLoaded, Fatal, StoreOpened
  <2> QED
    BY <2>1, <2>2
<1>10. CASE Signal \/ SchedulerStopped \/ ShutdownReturns \/ Closes
  <2>1. UNCHANGED <<server, srv, refusing, owed>>
    BY <1>10 DEF Signal, SchedulerStopped, ShutdownReturns, Closes
  <2>2. main \in {"waiting", "signalled", "draining", "closing"}
    BY <1>10 DEF Signal, SchedulerStopped, ShutdownReturns, Closes
  <2>3. /\ main' \in {"signalled", "shutdown", "closing", "closed"}
        /\ main \in {"draining", "closing"} => main' \in {"closing", "closed"}
    BY <1>10 DEF Signal, SchedulerStopped, ShutdownReturns, Closes
  <2> QED
    BY <2>1, <2>2, <2>3
<1> QED
  BY <1>1, <1>2, <1>3, <1>4, <1>5, <1>6, <1>7, <1>8, <1>9, <1>10
     DEF Next, MainStep, RunStep, ServerStep, Exits, RunLogs, RunRotates, LockHolder,
         vars, appVars

\* After Server.Shutdown nothing listens that Shutdown could see, wherever the
\* goroutine of Server.Start is when it runs.
THEOREM NothingListens == Spec => []ServerDown
<1>1. ServerInv => ServerDown
  BY DEF ServerInv, ServerDown
<1> QED
  BY <1>1, ServerStarts, ServerStepKeeps, PTL DEF Spec

-----------------------------------------------------------------------------
(* Run, and the logger under it.                                           *)

\* What Says does is a log call or nothing.
LEMMA SaysLogs ==
    ASSUME NEW line, Says(line)
    PROVE  UNCHANGED logVars \/ \E k \in Lines : Log(k)
  BY DEF Says

\* Seen from the logger, every step of the application is one of its own.
LEMMA LoggerSees ==
    ASSUME [Next]_vars
    PROVE  [LoggerNext]_logVars
<1>1. CASE UNCHANGED vars
  BY <1>1 DEF vars
<1>2. CASE Boots \/ BootstrapFails \/ \E f \in Files : Creates(f)
  BY <1>2 DEF Boots, BootstrapFails, Creates
<1>3. CASE Bootstrapped \/ Closes \/ Ends \/ Exits
  BY <1>3 DEF Bootstrapped, Closes, Ends, Exits, LoggerNext
<1>4. CASE LoggerReady \/ StoreOpened \/ Shutdown \/ ServerStores \/ ServerListens
  BY <1>4 DEF LoggerReady, StoreOpened, Shutdown, ServerStores, ServerListens
<1>5. CASE \/ Fatal \/ ConfigLoaded \/ SchedulerStarted \/ Signal
           \/ SchedulerStopped \/ ShutdownReturns \/ ServerBegins \/ ServerFails
  <2>1. \E line : Says(line)
    BY <1>5
       DEF Fatal, ConfigLoaded, SchedulerStarted, Signal, SchedulerStopped,
           ShutdownReturns, ServerBegins, ServerFails
  <2> QED
    BY <2>1, SaysLogs DEF LoggerNext
<1>6. CASE RunLogs \/ RunRotates \/ LockHolder \/ DateChanges
  BY <1>6, AppAssumption DEF RunLogs, RunRotates, LockHolder, LoggerNext
<1> QED
  BY <1>1, <1>2, <1>3, <1>4, <1>5, <1>6
     DEF Next, BootstrapStep, MainStep, RunStep, ServerStep

\* Where Run is: bootstrap has seen to the files that are not in todo, and from
\* the end of NewLogger on the logger is up.
MainInv ==
    /\ files \in [Files -> {"missing", "torn", "whole"}] /\ todo \subseteq Files
    /\ main \in MainPlaces
    /\ main = "bootstrap" => \A f \in Files \ todo : files[f] # "missing"
    /\ main = "logger" => \A f \in Files : files[f] # "missing"
    /\ main \notin {"exited", "bootstrap", "logger"} => lpc \notin {"down", "new"}

LEMMA SaysFree ==
    ASSUME NEW line, Says(line)
    PROVE  lpc = "free" /\ lpc' = "free"
  BY DEF Says, Log, logVars

LEMMA MainStepKeeps ==
    ASSUME MainInv, [Next]_vars
    PROVE  MainInv'
<1> USE DEF MainInv, MainGoes, MainPlaces
<1>1. CASE UNCHANGED vars
  BY <1>1 DEF vars, logVars, appVars, bootVars
<1>2. CASE Boots
  BY <1>2 DEF Boots
<1>3. CASE BootstrapFails
  BY <1>3 DEF BootstrapFails
<1>4. ASSUME NEW f \in Files, Creates(f) PROVE MainInv'
  BY <1>4 DEF Creates, logVars
<1>5. CASE Bootstrapped
  BY <1>5 DEF Bootstrapped, bootVars
<1>6. CASE Ends
  BY <1>6 DEF Ends, bootVars
<1>7. ASSUME UNCHANGED bootVars, NEW place \in MainPlaces \ {"bootstrap", "logger"},
             MainGoes(place), place = "exited" \/ lpc' \notin {"down", "new"}
      PROVE  MainInv'
  BY <1>7 DEF bootVars
<1>8. CASE /\ \/ Fatal \/ ConfigLoaded \/ SchedulerStarted \/ Signal
              \/ SchedulerStopped \/ ShutdownReturns
           /\ UNCHANGED bootVars
  <2>1. lpc' = "free"
    BY <1>8, SaysFree
       DEF Fatal, ConfigLoaded, SchedulerStarted, Signal, SchedulerStopped,
           ShutdownReturns
  <2> QED
    BY <1>7, <1>8, <2>1
       DEF Fatal, ConfigLoaded, SchedulerStarted, Signal, SchedulerStopped,
           ShutdownReturns
<1>9. CASE (LoggerReady \/ StoreOpened \/ Shutdown \/ Closes) /\ UNCHANGED bootVars
  BY <1>7, <1>9 DEF LoggerReady, StoreOpened, Shutdown, Closes, Close, logVars
<1>10. ASSUME UNCHANGED <<bootVars, main>>,
              lpc' \in {"down", "new"} => lpc \in {"down", "new"}
       PROVE  MainInv'
  BY <1>10 DEF bootVars
<1>11. CASE (ServerBegins \/ ServerFails) /\ UNCHANGED bootVars
  BY <1>10, <1>11, SaysFree DEF ServerBegins, ServerFails
<1>12. CASE (ServerStores \/ ServerListens) /\ UNCHANGED bootVars
  BY <1>10, <1>12 DEF ServerStores, ServerListens, logVars
<1>13. CASE RunLogs \/ RunRotates \/ LockHolder \/ (DateChanges /\ UNCHANGED appVars)
  BY <1>10, <1>13
     DEF RunLogs, RunRotates, LockHolder, LockedStep, Log, RotateBegins,
         RenameFile, SkipFile, OpenFile, OpenFails, NextFile, DateChanges, appVars
<1> QED
  BY <1>1, <1>2, <1>3, <1>4, <1>5, <1>6, <1>8, <1>9, <1>11, <1>12, <1>13
     DEF Next, BootstrapStep, MainStep, RunStep, Exits, ServerStep

\* When Run has its loggers and has not closed them, their handles are open
\* between two rotations; a rotation opens one after the other.
HandlesInv ==
    /\ lpc \in {"open", "new"} => open = {LogFileDefs[k] : k \in 1..(file - 1)}
    /\ lpc = "free" /\ ~deaf /\ main # "closed" => open = Levels

AppInv == LoggerInv /\ MainInv /\ ServerInv /\ HandlesInv

LEMMA OpenedSoFar ==
    ASSUME LoggerTypeOK
    PROVE  /\ {LogFileDefs[k] : k \in 1..(1 - 1)} = {}
           /\ {LogFileDefs[k] : k \in 1..((file + 1) - 1)}
                 = {LogFileDefs[k] : k \in 1..(file - 1)} \cup {Level}
           /\ file = 3 => {LogFileDefs[k] : k \in 1..(file - 1)} \cup {Level} = Levels
<1>1. file \in {1, 2, 3}
  BY DEF LoggerTypeOK
<1>2. 1..0 = {} /\ 1..1 = {1} /\ 1..2 = {1, 2} /\ 1..3 = {1, 2, 3}
  OBVIOUS
<1>3. LogFileDefs[1] = "info" /\ LogFileDefs[2] = "warning" /\ LogFileDefs[3] = "error"
  BY DEF LogFileDefs
<1> QED
  BY <1>1, <1>2, <1>3 DEF Level, Levels

LEMMA HandlesStep ==
    ASSUME LoggerTypeOK, MainInv, HandlesInv, [Next]_vars
    PROVE  HandlesInv'
<1> USE DEF HandlesInv, MainGoes
<1>0. Len(LogFileDefs) = 3
  BY LevelType
<1>1. CASE UNCHANGED vars
  BY <1>1 DEF vars, logVars, appVars
<1>2. ASSUME UNCHANGED <<open, lpc, file, deaf>>, main # "closed" \/ main' = "closed"
      PROVE  HandlesInv'
  BY <1>2
<1>3. CASE Boots \/ BootstrapFails \/ \E f \in Files : Creates(f)
  BY <1>2, <1>3 DEF Boots, BootstrapFails, Creates, logVars
<1>4. CASE Bootstrapped
  BY <1>4, OpenedSoFar DEF Bootstrapped, NewLogger, LoggerTypeOK
<1>5. CASE Ends
  BY <1>5 DEF Ends, LoggerDies
<1>6. CASE Closes
  BY <1>6 DEF Closes, Close
<1>7. CASE LoggerReady \/ StoreOpened \/ Shutdown
  BY <1>2, <1>7 DEF LoggerReady, StoreOpened, Shutdown, logVars
<1>8. ASSUME NEW line, Says(line) PROVE UNCHANGED <<open, lpc, file, deaf>>
  BY <1>8 DEF Says, Log, logVars
<1>9. CASE \/ Fatal \/ ConfigLoaded \/ SchedulerStarted \/ Signal
           \/ SchedulerStopped \/ ShutdownReturns
  <2>1. (\E line : Says(line)) /\ main # "closed"
    BY <1>9
       DEF Fatal, ConfigLoaded, SchedulerStarted, Signal, SchedulerStopped,
           ShutdownReturns
  <2> QED
    BY <1>2, <1>8, <2>1
<1>10. CASE ServerBegins \/ ServerFails \/ ServerStores \/ ServerListens
  <2>1. UNCHANGED main /\ (UNCHANGED logVars \/ \E line : Says(line))
    BY <1>10 DEF ServerBegins, ServerFails, ServerStores, ServerListens
  <2> QED
    BY <1>2, <1>8, <2>1 DEF logVars
<1>11. CASE RunLogs \/ (DateChanges /\ UNCHANGED appVars)
  BY <1>2, <1>11 DEF RunLogs, Log, DateChanges, appVars
<1>12. CASE RunRotates
  BY <1>12 DEF RunRotates, RotateBegins
<1>13. CASE LockHolder
  <2>1. UNCHANGED main
    BY <1>13 DEF LockHolder, appVars
  <2>2. CASE RenameFile \/ SkipFile
    <3>1. UNCHANGED <<open, deaf>> /\ lpc = "rename" /\ NextFile("open")
      BY <2>2 DEF RenameFile, SkipFile
    <3>2. CASE lpc' = "rename"
      BY <3>2
    <3>3. CASE lpc' = "open" /\ file' = 1
      BY <3>1, <3>3, OpenedSoFar DEF LoggerTypeOK
    <3> QED
      BY <1>0, <3>1, <3>2, <3>3 DEF NextFile
  <2>3. CASE OpenFile
    <3>1. /\ lpc \in {"open", "new"} /\ open' = open \cup {Level}
          /\ deaf' = (deaf /\ file < 3) /\ NextFile("free")
      BY <1>0, <2>3 DEF OpenFile
    <3>2. CASE file < 3
      BY <1>0, <3>1, <3>2, OpenedSoFar DEF NextFile
    <3>3. CASE ~(file < 3)
      <4>1. file = 3
        BY <3>3 DEF LoggerTypeOK
      <4> QED
        BY <1>0, <3>1, <4>1, OpenedSoFar DEF NextFile
    <3> QED
      BY <3>2, <3>3
  <2>4. CASE OpenFails
    BY <2>4 DEF OpenFails
  <2> QED
    BY <1>13, <2>2, <2>3, <2>4 DEF LockHolder, LockedStep
<1> QED
  BY <1>1, <1>3, <1>4, <1>5, <1>6, <1>7, <1>9, <1>10, <1>11, <1>12, <1>13
     DEF Next, BootstrapStep, MainStep, RunStep, Exits, ServerStep

LEMMA AppStarts == Init => AppInv
<1>1. Init => LoggerInv /\ ServerInv
  BY LoggerStarts, ServerStarts DEF Init
<1>2. Init => MainInv
  BY DEF Init, MainInv, MainPlaces
<1>3. Init => HandlesInv
  BY DEF Init, LoggerInit, HandlesInv
<1> QED
  BY <1>1, <1>2, <1>3 DEF AppInv

LEMMA AppStep ==
    ASSUME AppInv, [Next]_vars
    PROVE  AppInv'
<1>1. LoggerInv'
  BY LoggerSees, LoggerTypeStep, LinesStep DEF AppInv, LoggerInv
<1>2. MainInv' /\ ServerInv' /\ HandlesInv'
  BY MainStepKeeps, ServerStepKeeps, HandlesStep DEF AppInv, LoggerInv
<1> QED
  BY <1>1, <1>2 DEF AppInv

\* The types, with what Run's place says of the logger and the server.
THEOREM AppTypeCorrect == Spec => []AppTypeOK
<1>1. AppInv => AppTypeOK
  <2> SUFFICES ASSUME AppInv PROVE AppTypeOK
    OBVIOUS
  <2>1. LoggerTypeOK
    BY DEF AppInv, LoggerInv
  <2>2. refusing => srv
    BY DEF AppInv, ServerInv
  <2> QED
    BY <2>1, <2>2 DEF AppInv, MainInv, ServerInv, AppTypeOK
<1> QED
  BY <1>1, AppStarts, AppStep, PTL DEF Spec

\* A line that was written stays in a file of its level, whatever else of a
\* rotation fails and wherever the process dies, unless Stat failed to see it ...
THEOREM LinesAreKept == Spec => []LinesKept
<1>1. AppInv => LinesKept
  BY DEF AppInv, LoggerInv
<1> QED
  BY <1>1, AppStarts, AppStep, PTL DEF Spec

\* ... and in one file only.
THEOREM LinesAreOnce == Spec => []LinesOnce
<1>1. AppInv => LinesOnce
  BY DEF AppInv, LoggerInv
<1> QED
  BY <1>1, AppStarts, AppStep, PTL DEF Spec

\* While the log files could be opened and Run has not closed them, a log call
\* whose write works reaches its file, whatever rotates beside it.
THEOREM NothingIsDropped == Spec => NothingDropped
<1>1. ASSUME AppInv, [Next]_vars, ~deaf, main # "closed", failures' = failures
      PROVE  logged' \ logged \subseteq written'
  <2> SUFFICES ASSUME NEW line \in logged' \ logged PROVE line \in written'
    OBVIOUS
  <2>1. PICK k \in Lines : Log(k)
    BY <1>1, LoggerSees
       DEF LoggerNext, LockedStep, RotateBegins, RenameFile, SkipFile, OpenFile,
           OpenFails, Close, NewLogger, LoggerDies, DateChanges, logVars
  <2>2. line = k
    BY <2>1 DEF Log
  <2>3. LevelOf[k] \in open
    BY <1>1, <2>1, LinesAssumption DEF AppInv, HandlesInv, Log
  <2>4. failures \in Nat
    BY <1>1 DEF AppInv, LoggerInv, LoggerTypeOK
  <2> QED
    BY <1>1, <2>1, <2>2, <2>3, <2>4 DEF Log, CallFails
<1> QED
  BY <1>1, AppStarts, AppStep, PTL DEF Spec, NothingDropped

\* Run goes on with every file in place, however often it was started before and
\* wherever it was cut short, and nothing that exists is written over.
THEOREM BootstrapIsComplete == Spec => BootstrapCompletes
<1> DEFINE Completes == /\ \A f \in Files : files[f] # "missing" => files'[f] = files[f]
                        /\ main' = "logger" => \A f \in Files : files'[f] # "missing"
<1>1. ASSUME AppInv, [Next]_vars PROVE Completes
  <2>1. main' = "logger" => \A f \in Files : files'[f] # "missing"
    BY <1>1, AppStep DEF AppInv, MainInv
  <2>2. UNCHANGED files \/ BootstrapFails \/ \E f \in Files : Creates(f)
    BY <1>1
       DEF Next, Boots, BootstrapStep, Bootstrapped, MainStep, Exits, Ends,
           RunLogs, RunRotates, LockHolder, vars, appVars, bootVars
  <2>3. \A f \in Files : files[f] # "missing" => files'[f] = files[f]
    BY <1>1, <2>2 DEF AppInv, MainInv, BootstrapFails, Creates
  <2> QED
    BY <2>1, <2>3
<1> QED
  BY <1>1, AppStarts, AppStep, PTL DEF Spec, BootstrapCompletes
=============================================================================
