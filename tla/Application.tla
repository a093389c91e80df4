---------------------------- MODULE Application ----------------------------
(***************************************************************************)
(* Run, the main goroutine of WTWatcher (cmd/wtwatcher.go), with the HTTP  *)
(* server's Start and Shutdown (cmd/modules/server.go) and the logger they *)
(* and the scheduler's goroutines share.                                   *)
(*                                                                         *)
(* Start runs in a goroutine of its own and publishes the http.Server it   *)
(* has built through s.srv; Shutdown, called by the main goroutine when a  *)
(* signal arrives, may come before that.  The scheduler is what TaskRuns   *)
(* and Scheduler say: Stop returns, and goroutines of runs it has given up *)
(* may go on logging, and rotating the log, until the process is gone.     *)
(***************************************************************************)
EXTENDS Logger

CONSTANTS
    Files,       \* what bootstrap creates: config.yml, the page's files
    WithServer,  \* the -server flag
    RunLines     \* the lines the scheduler's goroutines log

ASSUME AppAssumption ==
    /\ WithServer \in BOOLEAN
    /\ RunLines \subseteq Lines
    /\ \A line \in Lines \ RunLines :
          LevelOf[line] = IF line \in {"fatal", "server error", "server shutdown error"}
                              THEN "error" ELSE "info"

VARIABLES
    files,     \* are they "missing", "whole", or "torn" by a write cut short
    todo,      \* those that bootstrap has not come to
    main,      \* where Run is
    server,    \* where the goroutine of Server.Start is
    srv,       \* s.srv has been set
    refusing,  \* http.Server.Shutdown has been called
    owed       \* history: Start had come far enough for Shutdown to stop it

bootVars == <<files, todo>>
appVars == <<bootVars, main, server, srv, refusing, owed>>
vars == <<logVars, appVars>>

MainPlaces == {"exited", "bootstrap", "logger", "config", "store", "scheduler", "waiting",
               "signalled", "shutdown", "draining", "closing", "closed",
               "failing"}
ServerPlaces == {"none", "begun", "built", "stored", "listening", "failed",
                 "returned"}

\* The scheduler's goroutines exist.
Scheduling == main \in {"scheduler", "waiting", "signalled", "shutdown", "draining",
                        "closing", "closed"}

MainGoes(place) == main' = place
ServerFrame == UNCHANGED <<server, srv, refusing, owed>>

\* A log call.  Lines says which lines are followed into the files, once each;
\* the others matter only for the lock.
Says(line) == IF line \in Lines \ logged THEN Log(line)
                                         ELSE lpc = "free" /\ UNCHANGED logVars

-----------------------------------------------------------------------------
(* Run.                                                                    *)

Boots ==
    /\ main = "exited"
    /\ MainGoes("bootstrap")
    /\ todo' = Files
    /\ ServerFrame
    /\ UNCHANGED <<files, logVars>>

\* A call of bootstrap fails, or the process dies in it: the file it was writing
\* may be cut short.
BootstrapFails ==
    /\ main = "bootstrap"
    /\ \/ UNCHANGED files
       \/ \E f \in todo : files[f] = "missing" /\ files' = [files EXCEPT ![f] = "torn"]
    /\ MainGoes("exited")
    /\ todo' = {}
    /\ ServerFrame
    /\ UNCHANGED logVars

\* Mutant: a file is written whether it exists or not.
CreatesAnyway(f) ==
    /\ main = "bootstrap"
    /\ f \in todo
    /\ todo' = todo \ {f}
    /\ files' = [files EXCEPT ![f] = "whole"]
    /\ ServerFrame
    /\ UNCHANGED <<main, logVars>>

\* What os.Stat does not find is written; the page's files are ranged over as a
\* map, in any order, and here config.yml, which the code writes first, with them.
Creates(f) ==
    /\ main = "bootstrap"
    /\ f \in todo
    /\ todo' = todo \ {f}
    /\ files' = [files EXCEPT ![f] = IF @ = "missing" THEN "whole" ELSE @]
    /\ ServerFrame
    /\ UNCHANGED <<main, logVars>>

Bootstrapped ==
    /\ main = "bootstrap"
    /\ todo = {}
    /\ NewLogger
    /\ MainGoes("logger")
    /\ ServerFrame
    /\ UNCHANGED bootVars

\* Mutant: the error of NewLogger is not looked at.
LoggerReadyAnyway ==
    /\ main = "logger"
    /\ lpc \in {"free", "down"}
    /\ MainGoes("config")
    /\ ServerFrame
    /\ UNCHANGED logVars

\* When NewLogger fails, Run exits.
LoggerReady ==
    /\ main = "logger"
    /\ lpc \in {"free", "down"}
    /\ MainGoes(IF lpc = "down" THEN "exited" ELSE "config")
    /\ ServerFrame
    /\ UNCHANGED logVars

\* LoadConfig or NewFileManager returns an error.
Fatal ==
    /\ main \in {"config", "store"}
    /\ Says("fatal")
    /\ MainGoes("failing")
    /\ ServerFrame

ConfigLoaded ==
    /\ main = "config"
    /\ Says("loaded")
    /\ MainGoes("store")
    /\ ServerFrame

\* NewFileManager, NewScheduler and Scheduler.Start, whose goroutines then run.
StoreOpened ==
    /\ main = "store"
    /\ MainGoes("scheduler")
    /\ ServerFrame
    /\ UNCHANGED logVars

SchedulerStarted ==
    /\ main = "scheduler"
    /\ Says("started")
    /\ MainGoes("waiting")
    /\ server' = IF WithServer THEN "begun" ELSE "none"
    /\ UNCHANGED <<srv, refusing, owed>>

Signal ==
    /\ main = "waiting"
    /\ Says("signal")
    /\ MainGoes("signalled")
    /\ ServerFrame

\* Scheduler.Stop returns.
SchedulerStopped ==
    /\ main = "signalled"
    /\ Says("stopped")
    /\ MainGoes(IF WithServer THEN "shutdown" ELSE "closing")
    /\ ServerFrame

\* Server.Shutdown reads s.srv; http.Server.Shutdown closes the listener and
\* makes a later ListenAndServe return at once.
Shutdown ==
    /\ main = "shutdown"
    /\ refusing' = srv
    /\ server' = IF srv /\ server = "listening" THEN "returned" ELSE server
    /\ owed' = (srv \/ server = "listening")
    /\ MainGoes("draining")
    /\ UNCHANGED <<srv, logVars>>

\* It waits for the connections in use; after five seconds it gives up on them.
ShutdownReturns ==
    /\ main = "draining"
    /\ \/ Says("server stopped")
       \/ refusing /\ Says("server shutdown error")
    /\ MainGoes("closing")
    /\ ServerFrame

\* The deferred Close, then the end of main.
Closes ==
    /\ main = "closing"
    /\ Close
    /\ MainGoes("closed")
    /\ ServerFrame

\* The process ends: Run returned, called os.Exit, or was killed.
Ends ==
    /\ LoggerDies
    /\ MainGoes("exited")
    /\ server' = "none"
    /\ srv' = FALSE
    /\ refusing' = FALSE
    /\ owed' = FALSE
    /\ UNCHANGED bootVars

Exits == main \in {"closed", "failing"} /\ Ends

-----------------------------------------------------------------------------
(* Server.Start.                                                           *)

ServerBegins ==
    /\ server = "begun"
    /\ Says("serving")
    /\ server' = "built"
    /\ UNCHANGED <<main, srv, refusing, owed>>

ServerStores ==
    /\ server = "built"
    /\ srv' = TRUE
    /\ server' = "stored"
    /\ UNCHANGED <<logVars, main, refusing, owed>>

\* Mutant: the server can be listening before s.srv is set.
ServerListensFirst ==
    /\ server \in {"built", "stored"}
    /\ server' \in IF refusing THEN {"returned"} ELSE {"listening", "failed"}
    /\ UNCHANGED <<logVars, main, srv, refusing, owed>>

ServerListens ==
    /\ server = "stored"
    /\ server' \in IF refusing THEN {"returned"} ELSE {"listening", "failed"}
    /\ UNCHANGED <<logVars, main, srv, refusing, owed>>

ServerFails ==
    /\ server = "failed"
    /\ Says("server error")
    /\ server' = "returned"
    /\ UNCHANGED <<main, srv, refusing, owed>>

-----------------------------------------------------------------------------
(* The scheduler's goroutines, those it has given up included.             *)

RunLogs == Scheduling /\ (\E line \in RunLines : Log(line)) /\ UNCHANGED appVars
RunRotates == Scheduling /\ RotateBegins /\ UNCHANGED appVars
LockHolder == LockedStep /\ UNCHANGED appVars

-----------------------------------------------------------------------------

Init ==
    /\ LoggerInit
    /\ files \in [Files -> {"missing", "whole"}]
    /\ todo = {}
    /\ main = "exited"
    /\ server = "none"
    /\ srv = FALSE
    /\ refusing = FALSE
    /\ owed = FALSE

BootstrapStep == (\E f \in Files : Creates(f)) \/ Bootstrapped

RunStep  == \/ LoggerReady \/ ConfigLoaded \/ Fatal \/ StoreOpened
            \/ SchedulerStarted \/ SchedulerStopped \/ Shutdown
            \/ ShutdownReturns \/ Closes

MainStep == (RunStep /\ UNCHANGED bootVars) \/ Exits

ServerStep == ServerBegins \/ ServerStores \/ ServerListens \/ ServerFails

Next ==
    \/ Boots
    \/ BootstrapStep
    \/ BootstrapFails
    \/ MainStep
    \/ Signal /\ UNCHANGED bootVars
    \/ ServerStep /\ UNCHANGED bootVars
    \/ RunLogs
    \/ RunRotates
    \/ LockHolder
    \/ DateChanges /\ UNCHANGED appVars
    \/ Ends

Spec == Init /\ [][Next]_vars

\* The goroutines run, and sync.Mutex hands l.mu to the goroutine that waited
\* longest once a wait is long: main gets it in the end, however often the
\* others log and rotate.
Fairness == WF_vars(LockHolder) /\ SF_vars(MainStep)

FairSpec == Spec /\ Fairness

-----------------------------------------------------------------------------

\* The type invariant of Run and the server, with what their positions say about
\* the logger and s.srv.
AppTypeOK ==
    /\ LoggerTypeOK
    /\ files \in [Files -> {"missing", "torn", "whole"}] /\ todo \subseteq Files
    /\ main \in MainPlaces
    /\ server \in ServerPlaces
    /\ srv \in BOOLEAN /\ refusing \in BOOLEAN /\ owed \in BOOLEAN
    /\ main \notin {"exited", "bootstrap", "logger"} => lpc \notin {"down", "new"}
    /\ server # "none" => Scheduling /\ main # "scheduler"
    /\ refusing => srv

\* Run goes on with every file in place, however often it was started before and
\* wherever it was cut short, and bootstrap writes over nothing that exists: not a
\* configuration the user has edited, nor a page he has changed.
BootstrapCompletes ==
    [][/\ \A f \in Files : files[f] # "missing" => files'[f] = files[f]
       /\ main' = "logger" => \A f \in Files : files'[f] # "missing"]_vars

\* No line is dropped before Run closes the logger, its last act: a log call
\* whose write works reaches its file, though rotations go on beside it with
\* names that are taken and renames that fail, unless the files could not be
\* opened.
NothingDropped ==
    [][~deaf /\ main # "closed" /\ failures' = failures
         => logged' \ logged \subseteq written']_vars

\* After Server.Shutdown nothing listens, although Start runs concurrently: not
\* the server that was listening, and not the one that Start had stored and was
\* about to start.  (A Start that has not stored its server yet is missed.)
ServerDown == owed => server # "listening"

\* A signal ends the program, whatever the runs, the connections and the log
\* files are doing.
SignalEnds == main = "signalled" ~> main = "exited"
=============================================================================
