------------------------------- MODULE Config -------------------------------
(***************************************************************************)
(* config.yml and what becomes of it: cmd/modules/config.go, and the       *)
(* places where its numbers turn into durations.                           *)
(*                                                                         *)
(* A text is what a parser can tell about it: an interval is its words, an *)
(* address the family ParseAddr finds, a domain the way it is ill-formed.  *)
(* Integers are signed words: the products of a number and its unit, and   *)
(* of seconds and time.Second, wrap around.                                *)
(***************************************************************************)
EXTENDS Integers, Sequences

CONSTANTS
    Word,              \* how many integers a word can hold
    Minute, Hour, Day, \* in seconds
    Second,            \* in nanoseconds
    Milli              \* in the unit of round-trip times

ASSUME UnitsAssumption ==
    /\ Word \in Nat \ {0} /\ Word % 2 = 0
    /\ {Minute, Hour, Day, Second, Milli} \subseteq Nat \ {0}

MaxInt  == (Word \div 2) - 1
Wrap(x) == ((x + Word \div 2) % Word) - (Word \div 2)

\* The words of an interval; num is 0 for what is no positive integer.
Text(num, unit) == [words |-> 2, num |-> num, unit |-> unit]
Off   == [words |-> 1, num |-> 0, unit |-> "off"]
Blank == [words |-> 0, num |-> 0, unit |-> ""]

\* What yaml.Unmarshal finds in config.yml.
IntervalText == [words : Nat, num : Nat, unit : STRING]
RawAddress   == [IPv4 : STRING, IPv6 : STRING, Domain : STRING, Protocol : STRING]
RawConfig ==
    [Schedule  : [Ping : IntervalText, Speedtest : IntervalText,
                  Archiving : IntervalText, LogRotation : IntervalText],
     Ping      : [Count : Int, Timeout : IntervalText, Retries : Int,
                  AnomalyThresholdMs : Int],
     ServerID  : STRING,
     Addresses : [kind : STRING, content : Seq(RawAddress)]]

\* What a parser returns.
Accept(v) == [ok |-> TRUE, value |-> v]
Reject    == [ok |-> FALSE, value |-> <<>>]

\* The units, by singular name, and their multipliers.
UnitsMinutesHours == [minute |-> Minute, hour |-> Hour]
UnitsHoursOnly    == [hour |-> Hour]
UnitsDaysOnly     == [day |-> Day]
UnitsSecondsOnly  == [second |-> 1]

\* Mutant: every unit is as long as the first.
ParseIntervalFirstUnit(text, allowOFF, units) ==
    IF allowOFF /\ text = Off THEN Accept(0)
    ELSE IF text.words = 2 /\ text.num > 0 /\ text.unit \in DOMAIN units
         THEN Accept(Wrap(text.num * units[CHOOSE u \in DOMAIN units : TRUE]))
         ELSE Reject

ParseInterval(text, allowOFF, units) ==
    IF allowOFF /\ text = Off THEN Accept(0)
    ELSE IF text.words = 2 /\ text.num > 0 /\ text.unit \in DOMAIN units
         THEN Accept(Wrap(text.num * units[text.unit]))
         ELSE Reject

ParseSchedule(r) ==
    LET ping        == ParseInterval(r.Ping, FALSE, UnitsMinutesHours)
        speedtest   == ParseInterval(r.Speedtest, TRUE, UnitsHoursOnly)
        archiving   == ParseInterval(r.Archiving, FALSE, UnitsDaysOnly)
        logRotation == ParseInterval(r.LogRotation, TRUE, UnitsDaysOnly)
    IN  IF ping.ok /\ speedtest.ok /\ archiving.ok /\ logRotation.ok
        THEN Accept([ping |-> ping.value, speedtest |-> speedtest.value,
                     archive |-> archiving.value, rotate |-> logRotation.value])
        ELSE Reject

\* Retries is -1 when the key is missing; both are refused.
ParsePing(r) ==
    LET timeout == ParseInterval(r.Timeout, FALSE, UnitsSecondsOnly)
    IN  IF /\ r.Count > 0
           /\ timeout.ok /\ timeout.value > 0
           /\ r.Retries >= 0
           /\ r.AnomalyThresholdMs > 0
        THEN Accept([r EXCEPT !.Timeout = timeout.value])
        ELSE Reject

\* ServerID: "", "auto", a positive number, or one of the two that are refused.
ParseSpeedtest(serverID) ==
    IF serverID \in {"", "auto"} THEN Accept("AUTO")
    ELSE IF serverID \in {"list", "junk"} THEN Reject
    ELSE Accept(serverID)

ValidateDomain(d) == d \notin {"blank", "spaced", "dotless", "unlabelled", "ip"}

\* IPv4 and IPv6 are "" or the family that ParseAddr finds: "4", "6" or "none".
ParseAddress(r) ==
    LET proto == IF r.Protocol = "" THEN "IPv4" ELSE r.Protocol
    IN  IF /\ r.IPv4 \in {"", "4"} /\ r.IPv6 \in {"", "6"}
           /\ IF r.Domain = ""
                THEN r.IPv4 # "" \/ r.IPv6 # ""
                ELSE ValidateDomain(r.Domain) /\ proto \in {"IPv4", "IPv6", "Both"}
        THEN Accept([IPv4 |-> r.IPv4 # "", IPv6 |-> r.IPv6 # "",
                     Domain |-> r.Domain,
                     Protocol |-> IF r.Domain = "" THEN "" ELSE proto])
        ELSE Reject

\* What has no content, even a scalar, is a list without targets.
ParseAddresses(node) ==
    LET parsed == [k \in 1..Len(node.content) |-> ParseAddress(node.content[k])]
    IN  IF node.content = <<>> THEN Accept(<<>>)
        ELSE IF node.kind = "mapping" /\ \A k \in DOMAIN parsed : parsed[k].ok
             THEN Accept([k \in DOMAIN parsed |-> parsed[k].value])
             ELSE Reject

\* The first error ends it.
ParseConfig(raw) ==
    LET sched     == ParseSchedule(raw.Schedule)
        ping      == ParsePing(raw.Ping)
        speedtest == ParseSpeedtest(raw.ServerID)
        addrs     == ParseAddresses(raw.Addresses)
    IN  IF sched.ok /\ ping.ok /\ speedtest.ok /\ addrs.ok
        THEN Accept([Schedule |-> sched.value, Ping |-> ping.value,
                     ServerID |-> speedtest.value, Addresses |-> addrs.value])
        ELSE Reject

-----------------------------------------------------------------------------
(* Where seconds become durations.                                         *)

Duration(seconds) == Wrap(seconds * Second)

\* addTask: a task whose interval is not positive is not registered.
AddTask(schedule) ==
    LET on == {t \in DOMAIN schedule : schedule[t] > 0}
    IN  [t \in on |-> Duration(schedule[t])]

\* Does Archive move a day whose midnight lies age nanoseconds back?
Moves(schedule, age) == -age < Wrap(-schedule.archive * Second)

\* The anomaly threshold, in the unit of round-trip times.
Threshold(ping) == Wrap(ping.AnomalyThresholdMs * Milli)
=============================================================================
