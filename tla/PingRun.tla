------------------------------- MODULE PingRun -------------------------------
(***************************************************************************)
(* One ping run, from config.yml to the entries it hands to the store:     *)
(* ParseConfig, the loops of RunPing, resolveTargets, pingWithRetry and    *)
(* runPinger (cmd/modules/collector_ping.go).                              *)
(*                                                                         *)
(* Each attempt starts a pinger (package pro-bing) in a goroutine of its   *)
(* own and selects between its end and a context that has the same timeout *)
(* as the pinger itself and derives from the run's.  Saving an entry and   *)
(* the session around the run are TaskRuns.                                *)
(***************************************************************************)
EXTENDS Config, Latency

CONSTANTS
    RawConfigs,   \* what config.yml may say
    Platforms,    \* operating system and user: [windows, root]
    Rtts,         \* the round-trip times a reply may have
    Answers       \* the families of what net.LookupHost finds, in its order

ASSUME InputsAssumption ==
    /\ RawConfigs \subseteq RawConfig
    /\ Platforms \subseteq [windows : BOOLEAN, root : BOOLEAN]
    /\ Rtts \subseteq Nat
    /\ Answers \subseteq Seq({"IPv4", "IPv6"})

VARIABLES
    platform,
    raw,          \* config.yml
    cfg,          \* the parsed configuration
    at,           \* where the run is
    addr,         \* the address it is at
    rest,         \* the families of it still to be probed
    probe,        \* the probe under way: pinger, timer and retry loop
    cancelled,    \* the run's context is done
    entry,        \* the entry a probe returned last
    late,         \* history: pingers started after the cancellation
    done          \* history: the targets whose probe is over, the targets saved
                  \* and the addresses without an answer from DNS

vars == <<platform, raw, cfg, at, addr, rest, probe, cancelled, entry, late, done>>

Places == {"unloaded", "rejected", "address", "target", "attempt", "dialing",
           "pinging", "stopping", "saving", "ended"}

NoProbe == [tries |-> 0, started |-> 0, pinger |-> "none", privileged |-> FALSE,
            due |-> FALSE, sent |-> 0, rtts |-> <<>>]
NoEntry == LatencyEntry("", 0, <<>>, <<>>)

\* What is left of a probe when a pinger of it is done with.
Again == [NoProbe EXCEPT !.tries = probe.tries, !.started = probe.started]

Goes(place) == at' = place
Target      == <<addr, Head(rest)>>
InputFrame  == UNCHANGED <<platform, raw, cfg, cancelled>>
RunFrame    == UNCHANGED <<addr, rest, done>>
ProbeFrame  == InputFrame /\ RunFrame /\ UNCHANGED <<entry, late>>

-----------------------------------------------------------------------------
(* Targets.                                                                *)

\* Mutant: every answer becomes a target.
ResolveBothAll(answers) == answers

\* One target per family, in the order of the answers.
ResolveBoth(answers) ==
    IF answers = <<>> THEN <<>>
    ELSE <<Head(answers)>> \o SetToSeq(ToSet(answers) \ {Head(answers)})

\* The families to probe; <<>> when the name has no usable address.
ResolveTargets(a, answers) ==
    IF a.Domain = ""
      THEN (IF a.IPv6 THEN <<"IPv6">> ELSE <<>>) \o (IF a.IPv4 THEN <<"IPv4">> ELSE <<>>)
      ELSE CASE a.Protocol = "Both" -> ResolveBoth(answers)
             [] a.Protocol = "IPv6" -> <<"IPv6">>
             [] OTHER               -> <<"IPv4">>

-----------------------------------------------------------------------------
(* RunPing.                                                                *)

Load ==
    /\ at = "unloaded"
    /\ LET parsed == ParseConfig(raw)
       IN  cfg' = parsed.value /\ Goes(IF parsed.ok THEN "address" ELSE "rejected")
    /\ RunFrame
    /\ UNCHANGED <<platform, raw, cancelled, probe, entry, late>>

\* The head of the loop over the addresses; past the last one the run commits.
NextAddress ==
    /\ at = "address"
    /\ IF addr > Len(cfg.Addresses) \/ cancelled
         THEN Goes("ended") /\ RunFrame
         ELSE \E answers \in Answers :
                LET targets == ResolveTargets(cfg.Addresses[addr], answers)
                IN  IF targets = <<>>
                      THEN /\ addr' = addr + 1
                           /\ done' = [done EXCEPT !.unresolved = @ \cup {addr}]
                           /\ UNCHANGED <<at, rest>>
                      ELSE /\ rest' = targets
                           /\ Goes("target")
                           /\ UNCHANGED <<addr, done>>
    /\ InputFrame
    /\ UNCHANGED <<probe, entry, late>>

NextTarget ==
    /\ at = "target"
    /\ IF rest = <<>> THEN addr' = addr + 1 /\ Goes("address")
                      ELSE Goes(IF cancelled THEN "ended" ELSE "attempt") /\ UNCHANGED addr
    /\ probe' = NoProbe
    /\ InputFrame
    /\ UNCHANGED <<rest, entry, late, done>>

\* A probe is over, and the loop goes on.
Over(saved) ==
    /\ Goes("target")
    /\ rest' = Tail(rest)
    /\ done' = [done EXCEPT !.tried = @ \cup {Target}, !.saved = @ \cup saved]
    /\ probe' = NoProbe
    /\ entry' = NoEntry
    /\ InputFrame
    /\ UNCHANGED <<addr, late>>

Saves == at = "saving" /\ Over({Target})

-----------------------------------------------------------------------------
(* pingWithRetry.                                                          *)

MaxTries == cfg.Ping.Retries + 1
IsPrivilegedMode == platform.windows \/ platform.root

\* Mutant: the first failure of a probe ends the run.
GivesUpProbeAndRun ==
    /\ at = "attempt"
    /\ probe.tries = MaxTries \/ cancelled
    /\ Goes("ended")
    /\ UNCHANGED probe
    /\ ProbeFrame

GivesUpProbe ==
    /\ at = "attempt"
    /\ probe.tries = MaxTries \/ cancelled
    /\ Over({})

\* The start of runPinger: a context with the timeout of the configuration.
RunPinger(privileged) ==
    /\ Goes("dialing")
    /\ probe' = [Again EXCEPT !.privileged = privileged,
                              !.due = Duration(cfg.Ping.Timeout) <= 0]
    /\ ProbeFrame

\* Mutant: one attempt too many.
AttemptsOnceMore ==
    /\ at = "attempt"
    /\ probe.tries <= MaxTries
    /\ ~cancelled
    /\ RunPinger(IsPrivilegedMode)

Attempts ==
    /\ at = "attempt"
    /\ probe.tries < MaxTries
    /\ ~cancelled
    /\ RunPinger(IsPrivilegedMode)

\* Mutant: every attempt that fails starts the retries over.
AttemptFailsUncounted ==
    /\ Goes("attempt")
    /\ probe' = NoProbe
    /\ ProbeFrame

AttemptFails ==
    /\ Goes("attempt")
    /\ probe' = [Again EXCEPT !.tries = @ + 1]
    /\ ProbeFrame

-----------------------------------------------------------------------------
(* runPinger.                                                              *)

\* NewPinger, which looks the name up and may fail, then the goroutine.
Dials ==
    /\ at = "dialing"
    /\ \/ AttemptFails
       \/ /\ Goes("pinging")
          /\ probe' = [probe EXCEPT !.pinger = "running", !.started = @ + 1]
          /\ late' = IF cancelled THEN late + 1 ELSE late
          /\ InputFrame
          /\ RunFrame
          /\ UNCHANGED entry

\* case err := <-done
Finishes ==
    /\ at = "pinging"
    /\ probe.pinger = "ok"
    /\ Goes("saving")
    /\ \E sorted \in {Sorted(probe.rtts)} :
          \E filtered \in {FilterAnomalyRTTs(sorted, Threshold(cfg.Ping))} :
             entry' = LatencyEntry(Head(rest), probe.sent, sorted, filtered)
    /\ probe' = [probe EXCEPT !.pinger = "none"]
    /\ InputFrame
    /\ RunFrame
    /\ UNCHANGED late

\* Mutant: a fallback is tried even when the pinger was unprivileged.
FallsBackAgain == ~platform.windows

\* shouldFallbackToUnprivileged
FallsBack == ~platform.windows /\ probe.privileged

Fails ==
    /\ at = "pinging"
    /\ probe.pinger \in {"denied", "failed"}
    /\ IF probe.pinger = "denied" /\ FallsBack THEN RunPinger(FALSE) ELSE AttemptFails

\* Mutant: the goroutine is stopped and not waited for.
GivesUpAtOnce ==
    /\ at = "pinging"
    /\ probe.due \/ cancelled
    /\ Goes("attempt")
    /\ probe' = [probe EXCEPT !.tries = @ + 1]
    /\ ProbeFrame

\* case <-pCtx.Done(): the pinger is told to stop, and waited for.
GivesUp ==
    /\ at = "pinging"
    /\ probe.due \/ cancelled
    /\ Goes("stopping")
    /\ UNCHANGED probe
    /\ ProbeFrame

Waits == at = "stopping" /\ probe.pinger # "running" /\ AttemptFails

-----------------------------------------------------------------------------
(* The pinger's goroutine, the timer and the run's context.                *)

Running == probe.pinger = "running"

PingerIs(new) ==
    /\ probe' = new
    /\ UNCHANGED at
    /\ ProbeFrame

Sends ==
    /\ Running
    /\ probe.sent < cfg.Ping.Count
    /\ PingerIs([probe EXCEPT !.sent = @ + 1])

Replies ==
    /\ Running
    /\ Len(probe.rtts) < probe.sent
    /\ \E rtt \in Rtts : PingerIs([probe EXCEPT !.rtts = Append(@, rtt)])

\* All replies are in, its own timeout has passed, or it was stopped.
PingerReturns ==
    /\ Running
    /\ Len(probe.rtts) = cfg.Ping.Count \/ probe.due \/ at = "stopping"
    /\ PingerIs([probe EXCEPT !.pinger = "ok"])

PingerFails ==
    /\ Running
    /\ \E result \in {"denied", "failed"} : PingerIs([probe EXCEPT !.pinger = result])

TimeoutPasses ==
    /\ at \in {"dialing", "pinging"}
    /\ ~probe.due
    /\ probe' = [probe EXCEPT !.due = TRUE]
    /\ UNCHANGED at
    /\ ProbeFrame

\* taskTimeout has passed or Stop was called.
Cancelled ==
    /\ at \notin {"unloaded", "rejected", "ended"}
    /\ ~cancelled
    /\ cancelled' = TRUE
    /\ UNCHANGED <<platform, raw, cfg, at, addr, rest, probe, entry, late, done>>

-----------------------------------------------------------------------------

Init ==
    /\ platform \in Platforms
    /\ raw \in RawConfigs
    /\ cfg = <<>>
    /\ at = "unloaded"
    /\ addr = 1
    /\ rest = <<>>
    /\ probe = NoProbe
    /\ cancelled = FALSE
    /\ entry = NoEntry
    /\ late = 0
    /\ done = [tried |-> {}, saved |-> {}, unresolved |-> {}]

RunStep == \/ Load \/ NextAddress \/ NextTarget \/ Saves \/ GivesUpProbe
           \/ Attempts \/ Dials \/ Finishes \/ Fails \/ GivesUp \/ Waits

Next ==
    \/ RunStep
    \/ Sends \/ Replies \/ PingerReturns \/ PingerFails
    \/ TimeoutPasses
    \/ Cancelled

Spec == Init /\ [][Next]_vars

\* The run's goroutine runs, timers fire, lookups are answered, and a pinger
\* returns when its timeout has passed or it was told to stop.
Fairness == WF_vars(RunStep) /\ WF_vars(PingerReturns) /\ WF_vars(TimeoutPasses)
FairSpec == Spec /\ Fairness

-----------------------------------------------------------------------------

Started == at \notin {"unloaded", "rejected"}

\* The type invariant.
PingTypeOK ==
    /\ platform \in Platforms /\ raw \in RawConfigs
    /\ at \in Places
    /\ Started => addr \in 1..(Len(cfg.Addresses) + 1)
    /\ rest \in Seq({"IPv4", "IPv6"})
    /\ probe.pinger \in {"none", "running", "ok", "denied", "failed"}
    /\ Started => probe.tries \in 0..MaxTries /\ probe.sent \in 0..cfg.Ping.Count
    /\ probe.rtts \in Seq(Rtts) /\ Len(probe.rtts) <= probe.sent
    /\ at = "saving" <=> entry # NoEntry
    /\ late \in Nat

\* No pinger outlives its attempt: when a probe returns, retries or falls back,
\* the goroutine it started has ended, so that nothing is still writing to the
\* statistics it reads or pinging beside the next attempt.
NoPingerLeft == Running => at \in {"pinging", "stopping"}

\* Retries and the fallback to unprivileged sockets multiply, and no more: a
\* probe starts at most one pinger per attempt, and a second one only where the
\* first was privileged and the system has the other kind.  Once the run is
\* cancelled at most the pinger about to start still does, and its fallback.
PingersBounded ==
    /\ Started => probe.started <=
         MaxTries * (IF platform.root /\ ~platform.windows THEN 2 ELSE 1)
    /\ late <= 2

\* A run hands in at most one entry per address and family ("at most one IP per
\* protocol family"), which the page's statistics rely on.
OncePerFamily == at = "saving" => Target \notin done.saved

\* A run that is not cancelled gets to every target config.yml asks for, whatever
\* becomes of the targets before it.
Wanted(a) == IF a.Domain = "" THEN {f \in {"IPv4", "IPv6"} : a[f] # ""}
             ELSE IF a.Protocol = "Both" THEN {"IPv4", "IPv6"}
             ELSE {IF a.Protocol = "" THEN "IPv4" ELSE a.Protocol}
EveryTargetTried ==
    at = "ended" /\ ~cancelled =>
        \A k \in DOMAIN raw.Addresses.content :
            LET a     == raw.Addresses.content[k]
                tried == {f \in {"IPv4", "IPv6"} : <<k, f>> \in done.tried}
            IN  \/ k \in done.unresolved
                \/ tried = Wanted(a)
                \/ a.Domain # "" /\ a.Protocol = "Both" /\ tried # {}

\* Only spikes go: the samples that the filter takes out are the largest ones,
\* all above the configured threshold (as long as that fits into a duration), and
\* no more of them than lie above the third quartile; the average does not rise.
OnlySpikesGo ==
    at = "saving" /\ entry.anomaly =>
        LET sorted == Sorted(probe.rtts)
            kept   == FilterAnomalyRTTs(sorted, Threshold(cfg.Ping))
        IN  /\ kept = SubSeq(sorted, 1, Len(kept))
            /\ cfg.Ping.AnomalyThresholdMs * Milli <= MaxInt =>
                  \A k \in (Len(kept) + 1)..Len(sorted) :
                     sorted[k] > cfg.Ping.AnomalyThresholdMs * Milli
            /\ Len(kept) >= 2 /\ 4 * (Len(sorted) - Len(kept)) < Len(sorted) + 3
            /\ entry.average <= entry.raw_average

\* The scheduler gets the intervals that were written, as long as they fit into a
\* duration, and OFF leaves a task out.  (An interval that wraps to zero or below
\* may leave it out too, or make it due all the time.)
Lasts == [minute |-> Minute, hour |-> Hour, day |-> Day]
Fits(seconds) == seconds <= MaxInt \div Second
Texts(s) == [ping |-> s.Ping, speedtest |-> s.Speedtest,
             archive |-> s.Archiving, rotate |-> s.LogRotation]
ScheduleAsWritten ==
    Started => LET tasks == AddTask(cfg.Schedule)
               IN  \A t \in DOMAIN Texts(raw.Schedule) :
                     LET text    == Texts(raw.Schedule)[t]
                         seconds == text.num * Lasts[text.unit]
                     IN  IF text = Off THEN t \notin DOMAIN tasks
                         ELSE Fits(seconds) => t \in DOMAIN tasks /\ tasks[t] = seconds * Second

\* Archive "scans metrics.json for date entries older than retainSeconds": a day
\* it moves is as old as the configuration says.
ArchivesOnlyOld ==
    Started => \A age \in 0..MaxInt :
                  Moves(cfg.Schedule, age)
                    => age >= raw.Schedule.Archiving.num * Day * Second

\* A ping run ends, whether its targets answer or not.
RunEnds == at = "address" ~> at = "ended"
=============================================================================
