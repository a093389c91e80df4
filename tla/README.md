# A formal model of WTWatcher

WTWatcher pings a list of targets and runs bandwidth tests on a schedule, keeps
the measurements in `public/metrics.json`, moves old days into an archive and
serves a dashboard that reads `metrics.json` over HTTP. This directory holds
TLA+ specifications of the parts of it that decide what ends up in that file,
when, and what is shown of it, TLC configurations that check them on small
instances, and proofs that TLAPS checks for every value of the constants.

## 1. Inventory

Paths are relative to the repository; `cmd/modules/` is left out where it is clear.

| Component (source) | State | Operations | Hard behaviour | What makes it correct |
|---|---|---|---|---|
| Metrics store, `FileManager` (`file_management.go`) | `metrics.json`, `metrics.json.tmp`, `metrics.json.bak`, one archive file per day; in memory `inTask`, `taskData` | `NewFileManager`, `StartTask`, `CommitTask`, `AbortTask`, `AddLatency`, `AddSpeedtest`, `Archive`, `ReadMetrics` | every method is many file-system calls that can fail; the process can die between any two; one staging file has two users; readers take no lock | what clients saw is not lost; what is staged is not seen; `metrics.json` stays present and readable; the archive only grows |
| Scheduler, queue and ticker (`scheduler.go`) | next time of every task, a channel of 16 | `Start`, ticker loop, worker loop, `Stop` | late and dropped ticks, the clock set back, a full queue, shutdown | every boundary at most once; nothing queued is lost; `Stop` returns |
| Task runs (`scheduler.go`, `collector_ping.go`, `collector_speedtest.go`) | one goroutine per run, one context with a deadline | `runWithTimeout`, `RunPing`, `RunSpeedtest`, the archive closure | a run outlives its deadline and overlaps the next one; cancellation between two probes; runs that hang | a run is published whole or not at all; sessions are closed; the worker is never blocked |
| Logger (`logging.go`) | three open files, their names on disk | `NewLogger`, `Rotate`, `Close`, `Info`, `Warn`, `Error` | failing calls in the middle of a rotation, names that are taken, logging beside rotation and `Close` | a line that was written is in exactly one file; nobody is left waiting for the lock |
| HTTP server (`server.go`) | the `http.Server` pointer | `Start`, `Shutdown`, the handler | `Shutdown` runs beside `Start` | nothing `Shutdown` could see listens after it |
| Application (`cmd/wtwatcher.go`) | `config.yml`, the page's files | `bootstrap`, `Run` | a first start cut short, the order of shutdown, early exits | existing files stay, missing ones are there when `Run` goes on; a signal ends the program; the logger is closed last |
| Dashboard (`ui/scripts.ts`) | loaded metrics, filters, statistics cache, cards, charts, theme | load, one handler per control | choices before the data is there, stale cache, midnight, clocks that differ, no local storage | what is shown is what was loaded and selected |
| Probes (`collector_ping.go`) | one pinger goroutine per attempt, one timer, the retry loop | `RunPing`, `resolveTargets`, `pingWithRetry`, `runPinger` | a pinger that ends as its timer does, a fallback inside a retry, cancellation anywhere, silent targets | one entry per address and family; no pinger outlives its attempt; every target is tried; the run ends |
| Latency statistics (`collector_ping.go:219-299`) | none | `filterAnomalyRTTs`, `percentile`, `roundTo2` | rounding, few samples, quartiles between ranks | only spikes go, at least two samples stay |
| Configuration (`config.go`) | none | `ParseConfig` and its parsers | integer width of `n * unit` and of `seconds * time.Second` | the scheduler gets what was written |
| Mock data (`mockdata.py`), markup, styles, embedded copies | - | - | - | not modelled |

How they interact: the ticker puts due tasks into the queue, the worker takes one
at a time and runs it in a goroutine of its own under a context; a run calls the
store method by method, each under the store's mutex; the HTTP server reads
`metrics.json` at any moment without that mutex; everything logs through one
logger under its own mutex; `Run` starts them, waits for a signal, stops the
scheduler, then the server, and closes the logger last. The page fetches
`metrics.json` once and then only answers its own controls.

## 2. Modules

| Module | Models | Checked by |
|---|---|---|
| `MetricsStore` | the abstract store: what is shown, archived and staged, one step per promise | RunsAny, as `ImplementsStore` |
| `FileManager` | the store, one step per file-system call | `MCFileManager`: FMStore, FMHeals, BadHeal |
| `TaskRuns` | extends `FileManager`: worker, deadline, `Stop`, ping, speedtest, archive and log-rotation runs, the logger's lock | `MCTaskRuns`: RunsAny, RunsProgress, BadLostCommit |
| `Scheduler` | ticker, boundaries, bounded queue, worker, `Stop` | `MCScheduler`: SchedulerQueue |
| `Config` | `config.yml`, its parsers, and where its numbers become durations | through `PingRun` |
| `Latency` | the statistics of a probe | through `PingRun` |
| `PingRun` | extends `Config` and `Latency`: one ping run from the configuration to its entries, with pingers, retries, timeouts and cancellation | `MCPingRun`: PingRun, BadInterval |
| `Logger` | log calls, rotation, close, one step per file-system call | through `Application` |
| `Application` | extends `Logger`: `bootstrap`, `Run`, `Server.Start`, `Server.Shutdown`, the runs' goroutines as users of the logger | `MCApplication`: AppRun |
| `Dashboard` | the page | `MCDashboard`: Dashboard, BadLoss |
| `FileManagerProofs` | theorems about `FileManager`, the refinement of `MetricsStore` among them | tlapm |
| `TaskRunsProofs` | theorems about `TaskRuns`, on top of those of the store | tlapm |
| `SchedulerProofs`, `ApplicationProofs` | theorems about `Scheduler`; about `Application` with the logger in it | tlapm |
| `FoldFacts` | lemmas: least elements, induction over numbers and finite sets, maxima, folds as loops | tlapm |
| `LatencyProofs` | theorems about sorting, percentiles, the filter and averages | tlapm |
| `PingRunProofs`, `DashboardProofs` | theorems about `PingRun` with `Config` and `Latency`; about `Dashboard` | tlapm |

A definition whose comment begins with `Mutant:` is not part of a specification.
It is a plausible bug, used in place of the definition after it to see that a
property notices.

### FileManager

`metrics` and `tmp` are the two files: absent, torn (cut short, not JSON) or whole
with a set of entries; `bak` says that a `.bak` was made; `archive` is the union of
the archive files. An entry is a day, a slot (time key) and a value. `inTask` and
`taskData` are the fields of that name. A method holds `fm.mu` from its first to its
last line, so one method is under way at a time: `op` names it, `pc` is the
file-system call it is about to make, `buf` its local dataset, `todo` the days
`Archive` still has to move. Methods that make no call that matters (`AbortTask`,
`CommitTask`, an `Add` inside a session) are one action; the others are a call
action (`StartTask`, `Add`, `Archive`, `ReadMetrics`, `Boot`) and the steps
`Read..`, `Load..`, `Backup`, `MoveDay`, `OpenTmp`, `FillTmp`, `RenameTmp`. `AddLatency`
and `AddSpeedtest` differ in the field of the slot they append to and are one action.
Each call may fail as long as its kind is in `FaultOps` and fewer than `MaxFaults`
have; `Crash` ends the process anywhere, at most `MaxCrashes` times; `"corrupt"` is
damage to `metrics.json` from outside. A crash is the end of the process, not of
the machine: what was written is there. `published` is a history variable, every
entry that any client could ever have read (`Observe`): it is what the durability
properties are measured against.

### MetricsStore, and how FileManager implements it

`MetricsStore` says what callers and clients may rely on, with no files, no lock and no
methods in progress: a measurement recorded outside a session is shown at once, one
recorded in a session is staged; the end of a session shows all of it or nothing; a
day is put into the archive before it stops being shown. `FileManager` maps `shown` to the
data of `metrics.json`, `archived` to the archive files, `open` and `staged` to `inTask` and
`taskData`. Most of its steps stutter; the renames, `MoveDay` and the ends of sessions
are the abstract steps. RunsAny checks `ImplementsStore` with overlapping runs, so with
`Archive` and the recovery in the middle of sessions, crashes anywhere and failing writes of
the archive. The theorem `StoreRefines` says the same of every
instance, as long as `WritesWork`. The refinement does not hold, and is not claimed, when calls
fail that put documents in place: after a failed write or open of the staging file a
commit publishes what is on disk and not what is in memory (BadHeal); a failed rename in
`Archive` leaves its document in the staging file of an open session, whose commit
publishes that instead; a failed read of an archive file drops what it held; and
corruption from outside is outside its promise.

### TaskRuns

Each run is a goroutine and at the same time the caller it is for the store; its
timestamp is taken when it starts, so it has a slot of its own. `at[r]` is where it is
(`starting`, `probing`, `adding`, ...), `next[r]` its next target, `cancelled` the runs
whose context is done. `Take` is the worker reading the queue, which may still
happen while stopping because `select` chooses among ready cases. `GiveUp` is
`runWithTimeout` returning because the context is done, after it has logged the timeout.
A run that is not done then goes on beside the next one: `GivenUp` are those that do. The
history `overlapped` has every run that was ever under way beside another; `Serial` says
that none of those is under way now, so that it is true again when they have ended.
`SlowPlaces` says where deadlines may strike: wherever something is waited for in RunsAny,
anywhere in RunsProgress, only while probing in BadLostCommit, so that the violation does
not rest on a disk that hangs.

`logging` is the run that holds the lock of the logger: in `Rotate` from begin to end, or in
a log call, by itself or inside a method of the store, at the places of `LogPlaces`. `GiveUp`
logs, so it waits for that lock. `Kinds` and `LogPlaces` leave rotation and log calls out of
RunsAny, whose properties are about the store: there a run that waits for the lock is one
that is not scheduled.

### Scheduler

`now` is the wall clock: it goes on and may be set back (`UTC()` strips the
monotonic reading). `tickC` is the ticker's channel of one; `visit` the position of the
loop over the tasks, so that the worker interleaves with it. `fired[t]` (history) is the
number of the boundary a task was last moved for. `QueueCap` is 16 in the code.

### Config, Latency and PingRun

A text of `config.yml` is what a parser can tell about it: an interval is its number of
words, its number and its unit; an IP address is the family `ParseAddr` finds; a domain is
named by the way it is ill-formed. Integers are signed words of `Word` values and wrap
around (`Wrap`), so that `n * unit` and `seconds * time.Second` overflow in the instance
as they do at 64 bits. Round-trip times are integers in hundredths of a millisecond, the
precision at which averages are kept; quartiles are interpolated with integer division
where the code converts a float to a `Duration`, which truncates to nanoseconds and not to
hundredths of a millisecond. `Sorted` is defined by what `slices.Sort`
does, as the rearrangement that ascends; the loops that collect and add up are folds.

In `PingRun`, `at` is the position of the run's goroutine in `RunPing`, `pingWithRetry` or
`runPinger`; `probe` holds the retry counter, the pinger's goroutine (`pinger`), its
timer (`due`) and the packets so far. `TimeoutPasses` stands for both timers of an attempt,
the context's and the pinger's, which have the same length: after it both cases of the
`select` may be chosen. Giving up stops the pinger and waits for it (`GivesUp`, `Waits`). The
pinger itself (pro-bing) and the name lookup are external: it sends up to `Count` packets,
gets a reply to some, and returns when all have come, when its time is up or when it
is stopped; it may also fail, by a denied socket or otherwise. `started`, `late` and `done`
are history. What happens to an entry after `Saves` is `TaskRuns`' `Add`.

### Logger and Application

`lpc` is the lock of the logger and the position of the goroutine that holds it,
`active` and `rotated` the lines in the files. `rotated` is a set of files with level,
date, suffix and lines. `PicksName` is the choice of the new name, with a `Stat` that fails
(`"statdst"`): on the name without a number such an error counts as "free", on a numbered
one as "taken". `written` is the history of lines whose write worked, `unseen` that of the
lines in rotated files that a failing `Stat` did not see. The
instance follows a few lines, each logged once; other log calls matter for the lock
only (`Says`). `deaf` means that the files could not be opened. `Application` puts
`Run` beside it: `main` is its position, `server`, `srv` and `refusing` are the
goroutine of `Server.Start`, the field `s.srv` and what `http.Server.Shutdown` has done
to it; `owed` (history) says that the server was listening or stored when `Shutdown`
looked. `files` are `config.yml` and the page's files, missing, whole or cut short by a write
that failed or by the end of the process; `todo` is where `bootstrap` is.

### Dashboard

One action per event of the page: the answer to the fetch (`Load`, `LoadFails`), each
of the four filters, the theme button, and the clock. A handler is one action because
the page has one thread; `ApplyFilters` is the code's, with its early return
(`ShowEmpty`) and the rest (`ShowContent`). Cards and charts are the sets of readings
they show. A reading of the document is a record with the keys the store writes, and
`Loss` looks for the keys the page looks for. Means are compared by cross
multiplication. Documents are well formed, as the store writes them: the branches of
`normalizeLatency` and `parseData` that repair or drop malformed ones (targets that are no
arrays, bad dates, missing protocols, numbers in texts) are not modelled, and neither is
an exception thrown while rendering, which the `catch` of `load` would show as a failed
load over cards that are drawn already. A document has at most one reading per slot, target and protocol
(`DashboardAssumption`): the store gets one from each probe of a run.

## 3. Runs

| Run | Question | Instance |
|---|---|---|
| FMStore | safety of the store | one caller, two days of two slots; two failing calls, one crash |
| FMHeals | does a damaged `metrics.json` become readable again | one day; corruption and archive reads fail, two faults, one crash |
| RunsAny | safety of overlapping runs; the staging protocol before and after an overlap; the refinement | three runs of any kind that uses the store, two targets each, one failing archive write, one deadline, one crash |
| RunsProgress | does the worker get past runs that hang | two runs, log rotation included, that may hang anywhere but in the logger, two days, one failing read |
| SchedulerQueue | boundaries, queue, `Stop` | two tasks with intervals 1 and 3, clock 0..6, a queue of two |
| PingRun | from `config.yml` to the entries of a run | 161 configurations, three platforms, one cancellation; a configuration with two addresses of two families and a retry, one with four packets and four round-trip times |
| AppRun | first starts, logging through rotation, exit, server shutdown | two files to create, a line of a run, two lines of `Run`, two dates, one failing call |
| Dashboard | is what is shown what is selected | three documents, two targets, two protocols, two local days and the midnight after |
| BadHeal | `StaysUsable` when writes fail | one session, two failing writes, no damage from outside |
| BadLostCommit | `CommitPublishes` with overlapping runs | two runs, one deadline while probing |
| BadInterval | `ArchivesOnlyOld` for every accepted configuration | one interval that overflows |
| BadLoss | `LossShown` | one document with a lossy reading |

The properties, by hazard:

- **Crashes and failing calls in the store**: `Durable` (what clients have seen is in
  `metrics.json` or the archive), `OnlyCommitTears`, `SessionHidden`,
  `ArchiveKeepsSlots`, and `Heals`.
- **Overlap, deadlines, cancellation**: `NoLeakedSession`, `EndedRunsSilent`,
  `ImplementsStore`; `SerialCommitPublishes`, `SerialAllAtOnce` and `SerialArchivedStays` hold
  whenever no run under way overlaps or has overlapped with one the worker gave up, also after
  an earlier overlap, and `BadLostCommit` shows that the first needs it; `WorkerFreed`.
- **Clock, ticks, queue**: `OnBoundary`, `OncePerBoundary`, `QuietAfterStop`, `QueuedRuns`,
  `StopEnds`.
- **Probes**: `NoPingerLeft` (a pinger never runs beside the next attempt, though the context
  and the pinger end together), `PingersBounded` (retries, fallback and cancellation),
  `OncePerFamily`, `EveryTargetTried` (one target's failure is its own), `RunEnds`.
- **Statistics**: `OnlySpikesGo`, for every sequence of four replies from four times around
  the threshold.
- **Numbers of `config.yml`**: `ScheduleAsWritten` (from the texts to the scheduler's
  durations, as long as they fit; `OFF` leaves a task out).
- **First start**: `BootstrapCompletes`.
- **Logging**: `LinesKept` and `LinesOnce` (a written line is in one file, though
  rotated names are taken and renames fail; `LinesKept` excepts the lines of a rotated file
  that a failing `Stat` did not see), `NothingDropped`, `SignalEnds`.
- **Server**: `ServerDown`.
- **Page**: `ViewFollowsData`, `CardsCurrent` (the cards against a fresh look at the data,
  in spite of the cache), `CardsJudged` (statuses against a bound that does not use the
  mean), `ChartCurrent`.

### Bounds

Two faults are enough for one failure inside the handling of another (an archive that
fails half way, then a failing rewrite); one crash is enough because a restart begins
from what is on disk, and the state after it is again a state of the model. Two days
make `Archive` fail between days; two slots make the archive of a day that is archived
again differ from the day alone. Three runs are the least with two that overlap and one
that comes after both have ended, for which the `Serial` properties hold again; two targets make "part of a run" different from
all and nothing. Intervals 1 and 3 on a clock of six give ticks on and off boundaries,
late by more than an interval, and sets of due tasks that differ; two queue places
are the least in which order shows. Three lines in the log make a name with a number that
is taken too. In PingRun four samples are the least with a quartile
between ranks and an outlier beyond the fence, and the threshold lies between the times;
one retry and two targets are the least with a failure before another target; a word of
4096 values holds the interval of one configuration and not that of another. In Dashboard the document has a slot with one
protocol only, a slot with a speedtest only, a spike and a failed reading (0 ms), lies on both
sides of a local midnight that is not the UTC one, and has its newest point
ahead of the browser's clock at first. `Horizon`, `MaxFaults`, `MaxCrashes`, `MaxExpiries`
and `MaxFileFaults` are bounds of the model, not of the program.

### Fairness

- `FMFairness`: a method's steps are straight-line code (weak); a stopped process is
  started again (weak); `StartTask` gets the mutex although others take it again and
  again (strong: `sync.Mutex` hands itself to the longest waiter after 1 ms).
- `TaskRuns.Fairness`: the worker goroutine, `Stop` and the timer (weak), and what the logger
  does under its lock: its calls and `Rotate` return (weak), and the worker gets the lock in
  the end (strong, as above). Nothing else is assumed of the runs' goroutines, since a
  lookup or a disk may hang. A disk that hangs under the log files is thus excepted, and
  `WorkerFreed` does not hold then.
- `Scheduler.Fairness`: both loops run (weak); the `ctx.Done()` case of a `select` that is
  ready again and again is chosen in the end, because `select` chooses uniformly (strong).
- `PingRun.Fairness`: the run's goroutine goes on, the timer fires, and a pinger returns
  once its time is up or it is stopped (weak, what pro-bing documents). Lookups are answered:
  a lookup that hangs hangs the run, which is why `TaskRuns` assumes nothing of runs.
- `Application.Fairness`: whoever holds the logger's lock goes on (weak); `Run` gets
  the lock (strong, as above).

Deadlock is checked in every run but PingRun and BadInterval, where the run ends.

## 4. Where code and documents disagree

- `BadHeal`: a failed write of the staging file is logged and passed over, and
  `CommitTask` renames the torn file over `metrics.json`, against "safely and atomically".
  `readRaw` then renames the damaged file away and writes an empty one; if that write
  fails too, `metrics.json` is gone and every later method fails in `os.ReadFile` until a restart,
  against "to prevent total application failure".
- `BadLostCommit`: the session has no owner. The deferred `AbortTask` of a run that
  outlived its deadline discards the session of the next run, whose `CommitTask` then
  returns nil and publishes nothing.
- `BadInterval`: an interval is bounded only by `int64`. `Archiving: 200000 Days` (there is no
  `OFF` for it) is accepted, its nanoseconds wrap, the cutoff lies in the future and every day is
  archived, today's with it, against "older than retainSeconds". In `addTask` the same product
  makes a task with such an interval due on every tick.
- `BadLoss`: the store writes `packet_loss`, the page reads `PacketLoss` or `packetLoss`.

Met while modelling, with no run of their own: `AnomalyThresholdMs` is bounded only by
`int64`, and one whose nanoseconds wrap to a negative number is no lower bound of the fence any
more (why `OnlySpikesGo` speaks of thresholds that fit into a duration); `archiveDay` takes any read error for a
missing file and overwrites the day (why `"archread"` is not among the faults
of `ArchiveKeepsSlots` and of the proofs); a run cancelled in its last probe still
commits, whole; `Stop` "waits for in-flight executions" but returns while a
cancelled run goes on; a `Shutdown` that finds no stored server leaves `Start` to listen
until the process ends; after a rotation that cannot open its files every level is
silent until the next rotation; `Rotate` takes any error of `os.Stat` on the dated name for
a free name, and `os.Rename` then replaces the rotated file that has it (why `LinesKept`
excepts the lines in `unseen`), while a numbered name whose `Stat` goes on failing is tried
for ever, under the logger's lock; the worker logs under that lock when it gives a run up,
and the ticker when the queue is full, so a run that hangs inside the logger blocks both,
against "prevent hung processes from blocking the worker" (`scheduler.go:12`); without local storage the theme button goes to
light and never back; after midnight the time filter stays visible and is ignored; the
target filter can offer a target that has no reading of the chosen protocol; a target that
answers nothing is an entry with loss 100 and average 0, or an error that is retried,
depending on which case of the `select` is chosen; with many silent targets a run
outlasts the 5 minutes of `taskTimeout` and is discarded, good readings included; a
domain hides the IP addresses given beside it; a scalar or an empty list as `Addresses` is
no error; a default file that was cut short while it was written is never completed.

## 5. Proofs

Every safety invariant and action property that a passing run checks, and the
refinement, is also a theorem: `PROJECT.json` lists each with the property it
states. The theorems hold for every value of the constants that satisfies the named
assumptions, so for any number of callers, runs, targets, days, slots, values, tasks, lines,
samples, faults, crashes and for every word length, clock and time zone.

### Assumptions

| Assumption | Says | Why |
|---|---|---|
| `DaysAssumption`, `FaultsAssumption`, `BoundsAssumption` (`FileManager`) | days are numbers; fault kinds are those of the module; bounds are natural | the shape of the model |
| `RunsAssumption` (`TaskRuns`) | at least one target, each with a value of its own; a slot per run; `NoRun` is no run | the timestamp of a run is taken at its start; otherwise the shape of the model |
| `UnitsAssumption` (`Config`), `InputsAssumption` (`PingRun`) | a word has an even number of values, units are positive; configurations, platforms and round-trip times have their types; DNS answers with any sequence of addresses of the two families | two's complement; what `yaml.Unmarshal` and pro-bing return |
| `DashboardAssumption` (`Dashboard`) | a document is a finite set of points, one per slot, with at most one reading per target and protocol, at most one speedtest, and natural averages | the keys of a JSON object; `OncePerFamily`; `toNonNegativeFiniteNumber` |
| `AppAssumption` (`Application`), those of `Logger` and `Scheduler` | a finite set of lines, each of a level, those of `Run` of the level it logs them at; positive intervals and capacity | the calls in `Run`; `addTask` registers positive intervals only |
| `"archread" \notin FaultOps` (hypothesis) | an archive file that is there can be read | TLC shows `Durable` and `ArchiveKeepsSlots` fail without it: `archiveDay` overwrites what it cannot read |
| `"corrupt" \notin FaultOps` (hypothesis of `OnlyCommitCanTear`) | nothing damages `metrics.json` from outside | the property is about the program's own writes |
| `WritesWork` (hypothesis) | opening, writing and renaming files, reading archive files and `metrics.json` itself do not fail; everything else may | TLC finds the refinement violated with each of them among the faults; the remaining faults, crashes anywhere included, stay |

### The store (`FileManagerProofs`)

All invariants are proved of `StoreMoves`, the store's own steps and those that other
modules may take with it, so that `TaskRunsProofs` reuses them.

- `TypeCorrect`, `CoherentInvariant`. `Coherent` says where a method can be and what
  its buffer, the names of the files and the pending calls are there.
- `NothingLost` (`Durable`). `Durable` alone is not inductive: it says nothing of the
  datasets that are about to become `metrics.json`. `AllKept` adds that the session's
  dataset, the staging file of an open session and the buffer of a method that is writing
  all keep what clients have seen (`DurableInvariant`). The steps that matter are `MoveDay`
  (lemma `MoveCovers`: a day may leave the dataset once it is merged into the archive) and
  the renames.
- `SessionHides`, `OnlyCommitCanTear`, `ArchiveKeeps` are action properties; lemmas
  `MetricsChange` and `ArchiveChange` list the ways `metrics.json` and the archive can change.
- `StoreRefines` (`ImplementsStore`). `StoreInv` ties the memory of a method to the
  abstract state: an open session's staging file is its dataset or on the way there, an
  `Add` without session writes what is shown plus one entry, `Archive` writes what is shown
  without the days it moved. Each step is then a stutter (lemma `Stutters`), a rename
  (`RenameShows`), a moved day (`MoveKeeps`) or the end of a session (`SessionEnds`).

### The runs (`TaskRunsProofs`)

Lemma `Projects`: a step of the runs is a step of `StoreMoves`. So `RunsTyped`,
`RunsLoseNothing` and `RunsRefine` follow for any interleaving of runs.

- `NoSessionLeaks`: `SessionOwned` says that an open session, or a `StartTask` that is
  about to open one, belongs to a run between its `StartTask` and its deferred `AbortTask`.
- `EndedRunsAreSilent`: `IdleRunsClean` says that of a run outside the loop over its targets
  nothing is in the session, its staging file or a method's buffer that was not shown.
- `SerialRunsCommit`, `SerialRunsAppearWhole`, `SerialRunsKeepArchived`: whenever `Serial`, and
  while `WritesWork`. That no run overlaps now is not enough, since a run that overlapped may
  have lost its session (BadLostCommit: the run that disturbed it is gone when it commits);
  `Serial` is about the runs under way only, and the invariants say that the others leave
  nothing behind. `SerialInv` says that a run goes on beside another only if the worker gave
  one up (`WorkerAlone`) and both are then in `overlapped` (`OverlapsKnown`), that the session
  of a run that is not stages what was shown at its start and exactly what the run has
  measured since (`SerialSession`), and that nothing of a run is anywhere before its first
  target (`Fresh`).

### Scheduler, logger, application

- `AlignTimeIsNextBoundary`: the one multiple of the interval in `(now, now + interval]`.
  `ScheduleCorrect` (`TypeOK`, `OnBoundary` and `VisitedNotDue`, inductive together),
  `NoBoundaryTwice`, `NothingAfterStop`.
- `LinesAreKept`, `LinesAreOnce`: `LoggerInv` adds that every line a file holds was written
  and has the level of the file (`LinesFiled`); lemma `RenameReplaces` says that a rename
  replaces only a file that `Stat` did not see.
- `NothingIsDropped`: `MainInv` says where the logger is up, `HandlesInv` which files are open
  while a rotation goes on and between two of them. `NothingListens`: `ServerInv` says that the
  server listens only after `s.srv` is set and that what `Shutdown` saw it has told to
  refuse. `BootstrapIsComplete`, `AppTypeCorrect`.

### Probes, configuration, statistics (`PingRunProofs`, `LatencyProofs`)

- `NoPingerIsLeft`, `PingersAreBounded`: `Budget` bounds the pingers started by the
  attempts made, with the one fallback of a privileged attempt (`Used`); `Lateness` does
  the same for those after the cancellation.
- `OneEntryPerFamily`, `EveryTargetIsTried`: `TargetsInv` says that what has been saved
  lies behind and what is left of an address's families ahead (`DoneInv`), and that what was tried and what
  is left are together what the configuration asked for (`SuitInv`), whatever name resolution answers.
- `ScheduleIsAsWritten`: from `ParseInterval` to `addTask`, for every word length; an
  interval whose nanoseconds fit wraps nowhere on the way (`FitsDuration`).
- `OnlySpikesAreFiltered` (`OnlySpikesGo`), for any number of samples, from theorem `SpikesOnly`
  about `filterAnomalyRTTs`. Sorting: however many of the least are put first, the samples
  stay a rearrangement (`SelectionSort`), so that one that ascends exists. Fence: a
  percentile lies between the samples of its neighbouring ranks (`PercentileBetween`), so at
  least three quarters of the samples are within the fence (`FenceAbove`). Loop: of ascending
  samples those within a limit are a prefix (`WithinIsPrefix`). Average: the sum of a prefix of
  length m is at most m times its last sample and each further sample adds at least that
  (`PrefixAverage`), and rounding keeps the order of quotients (`RoundingGrows`).

### Dashboard (`DashboardProofs`)

`PageInv` is one invariant for the page: controls hold what they offer, a cache entry is what
would be computed from the data now (`CacheInv`), a chart shows what the filters selected when
it was drawn (`ChartInv`). From it `PageTypeCorrect`, `ViewAlwaysFollows`, `CardsAreCurrent`,
`ChartIsCurrent`. `CardsAreJudged` needs the mean of any number of readings: `SumBound`, by
adding one reading at a time, bounds a sum by the count times a bound of the readings.

### Induction, and what is only model-checked

The library's induction theorems take an operator as parameter, which the installed provers
cannot instantiate. `FoldFacts` states induction over `0..n` and over the subsets of a finite
set for a *set* of numbers or subsets that have a property (`UpTo`, `Subsets`), from the
well-foundedness of `<`; that is enough for the folds of `Latency` and `Dashboard`. Functions
that a fold chooses are shown to exist (`FoldExists`).

TLC alone checks liveness, which with fairness and `ENABLED` is beyond the prover: `Heals`,
`WorkerFreed`, `QueuedRuns`, `StopEnds`, `SignalEnds`, `RunEnds`. The four violations
are counterexamples and need no proof. No module that is proved about uses a RECURSIVE operator.

## 6. Not modelled, and why

Number formats, console output and markup; the JSON encoding except whole against
torn; YAML decoding and trimming; the server's handler, a static file server; the speedtest
CLI and its output; `mockdata.py`, a development script; daylight saving in the page's local time; two configured addresses with the same
name. A crash of the machine with unsynced directories is left out: the code does not
sync directories, and nothing says it survives that.

## 7. Plan

1. Done: store, runs, scheduler queue; proofs of the store and the scheduler.
2. Done: logger with `Run` and the server; the page.
3. Done: the abstract store and the refinement; configuration, probes and statistics; the
   first start.
4. Done: a theorem for every safety property of the runs, and for the refinement.
5. Next proofs: a weaker abstract store, in which a failed add may lose what is staged, that
   `FileManager` implements although writes fail; from `OncePerFamily` and the store to the
   assumption of `Dashboard` on documents, so that the page's theorems rest on the program's own.
