---------------------------- MODULE PingRunProofs ----------------------------
(***************************************************************************)
(* Theorems about PingRun: what becomes of the targets and the schedule    *)
(* that config.yml asks for, and of the pingers, for every configuration,  *)
(* platform and word length.                                               *)
(***************************************************************************)
EXTENDS PingRun, LatencyProofs

Families == {"IPv4", "IPv6"}

-----------------------------------------------------------------------------
(* What a configuration that is accepted says.                             *)

LEMMA ParsedSections ==
    ASSUME NEW r \in RawConfig, ParseConfig(r).ok
    PROVE  /\ ParseSchedule(r.Schedule).ok /\ ParsePing(r.Ping).ok
           /\ ParseAddresses(r.Addresses).ok
           /\ ParseConfig(r).value.Schedule = ParseSchedule(r.Schedule).value
           /\ ParseConfig(r).value.Ping = ParsePing(r.Ping).value
           /\ ParseConfig(r).value.Addresses = ParseAddresses(r.Addresses).value
  BY DEF ParseConfig, Accept, Reject

LEMMA ParsedPing ==
    ASSUME NEW r \in RawConfig, ParsePing(r.Ping).ok
    PROVE  /\ ParsePing(r.Ping).value.Retries \in Nat
           /\ ParsePing(r.Ping).value.Count \in Nat \ {0}
           /\ ParsePing(r.Ping).value.AnomalyThresholdMs \in Nat \ {0}
<1>1. r.Ping \in [Count : Int, Timeout : IntervalText, Retries : Int,
                  AnomalyThresholdMs : Int]
  BY DEF RawConfig
<1>2. /\ r.Ping.Count > 0 /\ r.Ping.Retries >= 0 /\ r.Ping.AnomalyThresholdMs > 0
      /\ \E timeout : ParsePing(r.Ping).value = [r.Ping EXCEPT !.Timeout = timeout]
  BY DEF ParsePing, Accept, Reject
<1> QED
  BY <1>1, <1>2

LEMMA ParsedAddresses ==
    ASSUME NEW r \in RawConfig, ParseAddresses(r.Addresses).ok
    PROVE  LET content == r.Addresses.content
               value   == ParseAddresses(r.Addresses).value
           IN  /\ Len(value) = Len(content) /\ Len(value) \in Nat
               /\ \A k \in 1..Len(content) :
                     /\ content[k] \in RawAddress
                     /\ ParseAddress(content[k]).ok
                     /\ value[k] = ParseAddress(content[k]).value
<1> DEFINE content == r.Addresses.content
           value   == ParseAddresses(r.Addresses).value
           parsed  == [k \in 1..Len(content) |-> ParseAddress(content[k])]
<1>1. content \in Seq(RawAddress)
  BY DEF RawConfig
<1>2. CASE content = <<>>
  <2>1. value = <<>>
    BY <1>2 DEF ParseAddresses, Accept
  <2> QED
    BY <1>2, <2>1
<1>3. CASE content # <<>>
  <2>1. /\ \A k \in DOMAIN parsed : parsed[k].ok
        /\ value = [k \in DOMAIN parsed |-> parsed[k].value]
    BY <1>3 DEF ParseAddresses, Accept, Reject
  <2>2. DOMAIN parsed = 1..Len(content) /\ Len(content) \in Nat
    BY <1>1
  <2>3. /\ value = [k \in 1..Len(content) |-> ParseAddress(content[k]).value]
        /\ \A k \in 1..Len(content) : ParseAddress(content[k]).ok
    BY <2>1, <2>2
  <2> HIDE DEF value, parsed
  <2>4. Len(value) = Len(content)
    BY <2>2, <2>3
  <2> QED
    BY <1>1, <2>2, <2>3, <2>4 DEF value
<1> QED
  BY <1>2, <1>3

-----------------------------------------------------------------------------
(* The targets of an address.                                              *)

LEMMA SetToSeqSmall ==
    ASSUME NEW x
    PROVE  SetToSeq({}) = <<>> /\ SetToSeq({x}) = <<x>>
<1>1. SetToSeq({}) = <<>>
  BY FS_EmptySet DEF SetToSeq, IsInjective
<1>2. SetToSeq({x}) = <<x>>
  <2>1. Cardinality({x}) = 1
    BY FS_Singleton
  <2>2. [1..1 -> {x}] = {<<x>>}
    OBVIOUS
  <2>3. IsInjective(<<x>>)
    BY DEF IsInjective
  <2> QED
    BY <2>1, <2>2, <2>3 DEF SetToSeq
<1> QED
  BY <1>1, <1>2

LEMMA Joined ==
    ASSUME NEW x, NEW y
    PROVE  /\ <<x>> \o <<>> = <<x>> /\ <<>> \o <<y>> = <<y>>
           /\ <<x>> \o <<y>> = <<x, y>>
<1>0. <<x>> \in Seq({x, y}) /\ <<y>> \in Seq({x, y}) /\ <<x, y>> \in Seq({x, y})
  OBVIOUS
<1>1. <<x>> \o <<>> = <<x>> /\ <<>> \o <<y>> = <<y>>
  BY <1>0, ConcatEmptySeq
<1>2. <<x>> \o <<y>> = <<x, y>>
  <2>1. /\ <<x>> \o <<y>> \in Seq({x, y}) /\ Len(<<x>> \o <<y>>) = 2
        /\ \A i \in 1..2 : (<<x>> \o <<y>>)[i] = IF i <= 1 THEN <<x>>[i] ELSE <<y>>[i - 1]
    BY <1>0, ConcatProperties
  <2> HIDE <1>0
  <2>2. (<<x>> \o <<y>>)[1] = x /\ (<<x>> \o <<y>>)[2] = y
    BY <2>1
  <2>3. \A i \in 1..2 : (<<x>> \o <<y>>)[i] = <<x, y>>[i]
    BY <2>2
  <2> QED
    BY <1>0, <2>1, <2>3, SeqEqual
<1> QED
  BY <1>1, <1>2

\* One target per family that DNS knows the name in, and none if it knows none.
LEMMA ResolvedBoth ==
    ASSUME NEW answers \in Answers
    PROVE  ResolveBoth(answers) \in {<<>>, <<"IPv4">>, <<"IPv6">>,
                                     <<"IPv4", "IPv6">>, <<"IPv6", "IPv4">>}
<1>1. answers \in Seq({"IPv4", "IPv6"})
  BY InputsAssumption
<1>2. CASE answers = <<>>
  BY <1>2 DEF ResolveBoth
<1>3. CASE answers # <<>>
  <2> DEFINE first == Head(answers)
             others == ToSet(answers) \ {first}
  <2>1. first \in {"IPv4", "IPv6"}
    BY <1>1, <1>3, HeadTailProperties
  <2>2. ToSet(answers) \subseteq {"IPv4", "IPv6"}
    BY <1>1, ElementOfSeq DEF ToSet
  <2>3. ResolveBoth(answers) = <<first>> \o SetToSeq(others)
    BY <1>3 DEF ResolveBoth
  <2> HIDE DEF first
  <2>4. CASE first = "IPv4"
    <3>1. others = {} \/ others = {"IPv6"}
      BY <2>2, <2>4
    <3> HIDE DEF others
    <3>2. ResolveBoth(answers) \in {<<"IPv4">> \o <<>>, <<"IPv4">> \o <<"IPv6">>}
      BY <2>3, <2>4, <3>1, SetToSeqSmall
    <3> QED
      BY <3>2, Joined
  <2>5. CASE first = "IPv6"
    <3>1. others = {} \/ others = {"IPv4"}
      BY <2>2, <2>5
    <3> HIDE DEF others
    <3>2. ResolveBoth(answers) \in {<<"IPv6">> \o <<>>, <<"IPv6">> \o <<"IPv4">>}
      BY <2>3, <2>5, <3>1, SetToSeqSmall
    <3> QED
      BY <3>2, Joined
  <2> QED
    BY <2>1, <2>4, <2>5
<1> QED
  BY <1>2, <1>3

\* The targets that an address of config.yml may get when its name is resolved:
\* all that are wanted, or those of a name with both families that it has.
Suits(r, families) ==
    \/ families = Wanted(r)
    \/ r.Domain # "" /\ r.Protocol = "Both" /\ families # {}

LEMMA Resolved ==
    ASSUME NEW r \in RawAddress, ParseAddress(r).ok, NEW answers \in Answers
    PROVE  LET targets == ResolveTargets(ParseAddress(r).value, answers)
           IN  /\ targets \in {<<>>, <<"IPv6">>, <<"IPv4">>, <<"IPv6", "IPv4">>,
                               <<"IPv4", "IPv6">>}
               /\ targets # <<>> => Suits(r, ToSet(targets))
<1> DEFINE a == ParseAddress(r).value
           targets == ResolveTargets(a, answers)
<1>1. /\ a.IPv4 = (r.IPv4 # "") /\ a.IPv6 = (r.IPv6 # "") /\ a.Domain = r.Domain
      /\ r.Domain = "" => r.IPv4 # "" \/ r.IPv6 # ""
      /\ r.Domain # "" => /\ a.Protocol = IF r.Protocol = "" THEN "IPv4" ELSE r.Protocol
                          /\ a.Protocol \in {"IPv4", "IPv6", "Both"}
  BY DEF ParseAddress, Accept, Reject
<1>2. /\ ToSet(<<"IPv6">>) = {"IPv6"} /\ ToSet(<<"IPv4">>) = {"IPv4"}
      /\ ToSet(<<"IPv6", "IPv4">>) = Families /\ ToSet(<<"IPv4", "IPv6">>) = Families
  BY DEF ToSet, Families
<1>3. CASE r.Domain = ""
  <2>1. targets = (IF a.IPv6 THEN <<"IPv6">> ELSE <<>>) \o (IF a.IPv4 THEN <<"IPv4">> ELSE <<>>)
    BY <1>1, <1>3 DEF ResolveTargets
  <2>2. Wanted(r) = {f \in Families : r[f] # ""}
    BY <1>3 DEF Wanted, Families
  <2>3. CASE a.IPv4 /\ a.IPv6
    <3>1. Wanted(r) = Families
      BY <1>1, <2>2, <2>3 DEF Families
    <3>2. targets = <<"IPv6", "IPv4">>
      <4>1. targets = <<"IPv6">> \o <<"IPv4">>
        BY <1>1, <2>1, <2>3
      <4> QED
        BY <4>1, Joined
    <3> QED
      BY <1>2, <3>1, <3>2 DEF Suits
  <2>4. CASE a.IPv4 /\ ~a.IPv6
    <3>1. Wanted(r) = {"IPv4"}
      BY <1>1, <2>2, <2>4 DEF Families
    <3>2. targets = <<"IPv4">>
      <4>1. targets = <<>> \o <<"IPv4">>
        BY <1>1, <2>1, <2>4
      <4> QED
        BY <4>1, Joined
    <3> QED
      BY <1>2, <3>1, <3>2 DEF Suits
  <2>5. CASE ~a.IPv4
    <3>1. Wanted(r) = {"IPv6"}
      BY <1>1, <1>3, <2>2, <2>5 DEF Families
    <3>2. targets = <<"IPv6">>
      <4>1. targets = <<"IPv6">> \o <<>>
        BY <1>1, <1>3, <2>1, <2>5
      <4> QED
        BY <4>1, Joined
    <3> QED
      BY <1>2, <3>1, <3>2 DEF Suits
  <2> QED
    BY <2>3, <2>4, <2>5
<1>4. CASE r.Domain # "" /\ a.Protocol = "Both"
  <2>1. /\ targets \in {<<>>, <<"IPv4">>, <<"IPv6">>, <<"IPv4", "IPv6">>, <<"IPv6", "IPv4">>}
        /\ r.Protocol = "Both"
    BY <1>1, <1>4, ResolvedBoth DEF ResolveTargets
  <2> QED
    BY <1>2, <1>4, <2>1 DEF Suits, Families
<1>5. CASE r.Domain # "" /\ a.Protocol # "Both"
  <2>1. targets = <<a.Protocol>> /\ Wanted(r) = {a.Protocol}
        /\ a.Protocol \in Families
    BY <1>1, <1>5 DEF ResolveTargets, Wanted, Families
  <2> QED
    BY <1>2, <2>1 DEF Suits, Families
<1> QED
  BY <1>3, <1>4, <1>5

-----------------------------------------------------------------------------
(* The probe.                                                              *)

Probing == {"attempt", "dialing", "pinging", "stopping", "saving"}

\* The configuration in use is the one that was read and accepted.
Loaded ==
    /\ platform \in Platforms /\ raw \in RawConfigs /\ at \in Places
    /\ cancelled \in BOOLEAN
    /\ Started => ParseConfig(raw).ok /\ cfg = ParseConfig(raw).value

ProbeType == [tries : Nat, started : Nat,
              pinger : {"none", "running", "ok", "denied", "failed"},
              privileged : BOOLEAN, due : BOOLEAN, sent : Nat, rtts : Seq(Rtts)]

\* The probe's counters stay in their limits, and it is over between targets.
ProbeInv ==
    /\ probe \in ProbeType
    /\ at \notin Probing => probe = NoProbe
    /\ Len(probe.rtts) <= probe.sent
    /\ Started => probe.sent <= cfg.Ping.Count

\* How many pingers one attempt may start.
Chances == IF platform.root /\ ~platform.windows THEN 2 ELSE 1

\* What the attempt under way has used up of them: a privileged pinger is the
\* first one; only where there is a second one, an unprivileged one is not.
Used == IF Chances = 2 /\ ~probe.privileged THEN 1 ELSE 0

Budget ==
    /\ probe.privileged => platform.windows \/ platform.root
    /\ at = "attempt" => probe.tries <= MaxTries /\ probe.started <= Chances * probe.tries
    /\ at \in {"dialing", "pinging", "stopping"} => probe.tries < MaxTries
    /\ at = "dialing" => probe.started <= Chances * probe.tries + Used
    /\ at \in {"pinging", "stopping"} => probe.started <= Chances * probe.tries + Used + 1
    /\ at = "saving" => probe.tries <= MaxTries /\ probe.started <= Chances * MaxTries

\* A run that is cancelled starts no new attempt: what still starts is the
\* pinger that is about to, and the fallback of a privileged one.
Lateness ==
    /\ late \in 0..2
    /\ ~cancelled => late = 0
    /\ at = "dialing" => late <= IF probe.privileged THEN 0 ELSE 1
    /\ at = "pinging" => late <= IF probe.privileged THEN 1 ELSE 2

PingerInv == Loaded /\ ProbeInv /\ NoPingerLeft /\ Budget /\ Lateness

LEMMA ParsedLimits ==
    ASSUME NEW r \in RawConfigs, ParseConfig(r).ok
    PROVE  /\ ParseConfig(r).value.Ping.Retries \in Nat
           /\ ParseConfig(r).value.Ping.Count \in Nat \ {0}
           /\ ParseConfig(r).value.Ping.AnomalyThresholdMs \in Nat \ {0}
  BY InputsAssumption, ParsedSections, ParsedPing

LEMMA Limits ==
    ASSUME Loaded, Started
    PROVE  /\ MaxTries \in Nat \ {0} /\ cfg.Ping.Count \in Nat \ {0}
           /\ cfg.Ping.AnomalyThresholdMs \in Nat \ {0}
  BY ParsedLimits DEF Loaded, MaxTries

LEMMA NoProbeType == NoProbe \in ProbeType
  BY DEF NoProbe, ProbeType

LEMMA LoadedStep ==
    ASSUME Loaded, [Next]_vars
    PROVE  Loaded'
<1> USE DEF Loaded, Started, Places
<1>1. CASE UNCHANGED vars
  BY <1>1 DEF vars
<1>2. CASE Load
  BY <1>2 DEF Load, Goes
<1>3. CASE NextAddress
  BY <1>3 DEF NextAddress, Goes, InputFrame, RunFrame
<1>4. CASE NextTarget \/ Saves \/ GivesUpProbe
  BY <1>4 DEF NextTarget, Saves, GivesUpProbe, Over, Goes, InputFrame
<1>5. CASE Attempts \/ Fails \/ GivesUp \/ Waits \/ Dials \/ Finishes
  BY <1>5
     DEF Attempts, Fails, GivesUp, Waits, Dials, Finishes, RunPinger,
         AttemptFails, Goes, ProbeFrame, InputFrame
<1>6. CASE Sends \/ Replies \/ PingerReturns \/ PingerFails \/ TimeoutPasses
  BY <1>6
     DEF Sends, Replies, PingerReturns, PingerFails, TimeoutPasses, PingerIs,
         ProbeFrame, InputFrame
<1>7. CASE Cancelled
  BY <1>7 DEF Cancelled
<1> QED
  BY <1>1, <1>2, <1>3, <1>4, <1>5, <1>6, <1>7 DEF Next, RunStep

LEMMA PingerStep ==
    ASSUME PingerInv, [Next]_vars
    PROVE  PingerInv'
<1> USE DEF PingerInv, Probing
<1>0. Loaded'
  BY LoadedStep
<1> DEFINE Rest == ProbeInv' /\ NoPingerLeft' /\ Budget' /\ Lateness'
<1> SUFFICES Rest
  BY <1>0
<1>1. CASE UNCHANGED vars
  BY <1>1
     DEF vars, ProbeInv, NoPingerLeft, Budget, Lateness, Running, Started,
         Chances, Used, MaxTries
<1>2. CASE Load \/ NextAddress
  <2>1. /\ probe = NoProbe /\ UNCHANGED <<probe, cancelled, late, platform>>
        /\ at' \in {"address", "rejected", "target", "ended"}
    BY <1>2 DEF Load, NextAddress, InputFrame, Goes, ProbeInv, RunFrame
  <2>2. Started' => (cfg.Ping.Count)' \in Nat \ {0}
    BY <1>0, ParsedLimits DEF Loaded
  <2> QED
    BY <2>1, <2>2
       DEF ProbeInv, NoProbe, NoPingerLeft, Running, Budget, Lateness
<1>3. CASE Saves \/ GivesUpProbe \/ NextTarget
  <2>1. /\ probe' = NoProbe /\ UNCHANGED <<cfg, cancelled, late, platform>>
        /\ at' \in {"address", "target", "ended", "attempt"} /\ Started
    BY <1>3
       DEF Saves, GivesUpProbe, NextTarget, Over, InputFrame, Goes, Started
  <2>2. MaxTries \in Nat \ {0} /\ cfg.Ping.Count \in Nat \ {0}
    BY <2>1, Limits
  <2>3. ProbeInv' /\ NoPingerLeft'
    BY <2>1, <2>2, NoProbeType DEF ProbeInv, NoProbe, NoPingerLeft, Running
  <2>4. Budget'
    BY <2>1, <2>2 DEF Budget, NoProbe, MaxTries, Chances
  <2>5. Lateness'
    BY <2>1 DEF Lateness
  <2> QED
    BY <2>3, <2>4, <2>5
\* The steps of a probe.
<1>4. ASSUME at \in Probing
      PROVE  /\ MaxTries \in Nat \ {0} /\ cfg.Ping.Count \in Nat \ {0}
             /\ Started /\ Chances \in {1, 2} /\ Used \in {0, 1}
             /\ probe \in ProbeType /\ probe.tries \in Nat /\ probe.started \in Nat
             /\ Again \in ProbeType
             /\ Again.tries = probe.tries /\ Again.started = probe.started
             /\ Again.pinger = "none" /\ Again.sent = 0 /\ Again.rtts = <<>>
             /\ ~Again.privileged
  <2>1. Started
    BY <1>4 DEF Started
  <2>2. probe \in ProbeType
    BY DEF ProbeInv
  <2>3. probe.tries \in Nat /\ probe.started \in Nat
    BY <2>2 DEF ProbeType
  <2> QED
    BY <2>1, <2>2, <2>3, Limits, NoProbeType
       DEF Chances, Used, Again, NoProbe, ProbeType
<1>5. ASSUME at \in Probing, NEW privileged \in BOOLEAN, RunPinger(privileged)
      PROVE  /\ at' = "dialing" /\ UNCHANGED <<platform, cfg, cancelled, late>>
             /\ probe' \in ProbeType /\ probe'.pinger = "none"
             /\ probe'.tries = probe.tries /\ probe'.started = probe.started
             /\ probe'.privileged = privileged
             /\ probe'.sent = 0 /\ probe'.rtts = <<>>
  <2> DEFINE due == Duration(cfg.Ping.Timeout) <= 0
  <2>1. probe' = [Again EXCEPT !.privileged = privileged, !.due = due]
    BY <1>5 DEF RunPinger
  <2>2. due \in BOOLEAN
    OBVIOUS
  <2> HIDE DEF due
  <2> QED
    BY <1>4, <1>5, <2>1, <2>2 DEF RunPinger, Goes, ProbeFrame, InputFrame, ProbeType
<1>6. ASSUME at \in {"dialing", "pinging", "stopping"}, AttemptFails PROVE Rest
  <2>1. /\ at' = "attempt" /\ UNCHANGED <<platform, cfg, cancelled, late>>
        /\ probe' \in ProbeType /\ probe'.pinger = "none" /\ ~probe'.privileged
        /\ probe'.tries = probe.tries + 1 /\ probe'.started = probe.started
        /\ probe'.sent = 0 /\ probe'.rtts = <<>>
    <3>1. /\ at' = "attempt" /\ UNCHANGED <<platform, cfg, cancelled, late>>
          /\ probe' = [Again EXCEPT !.tries = @ + 1]
      BY <1>6 DEF AttemptFails, Goes, ProbeFrame, InputFrame
    <3>2. /\ Again \in ProbeType /\ Again.tries = probe.tries
          /\ Again.started = probe.started /\ Again.pinger = "none"
          /\ Again.sent = 0 /\ Again.rtts = <<>> /\ ~Again.privileged
      BY <1>4, <1>6 DEF Probing
    <3> QED
      BY <3>1, <3>2 DEF ProbeType
  <2>2. ProbeInv' /\ NoPingerLeft'
    BY <1>4, <1>6, <2>1 DEF ProbeInv, NoPingerLeft, Running
  <2>3. Budget'
    <3>1. /\ probe.tries + 1 <= MaxTries
          /\ probe.started <= Chances * probe.tries + Used + 1
      BY <1>4, <1>6 DEF Budget
    <3>2. Chances = 1 => Used = 0
      BY DEF Used
    <3>3. probe.started <= Chances * (probe.tries + 1)
      BY <1>4, <1>6, <3>1, <3>2
    <3> QED
      BY <1>4, <1>6, <2>1, <3>1, <3>3 DEF Budget, MaxTries, Chances
  <2>4. Lateness'
    BY <2>1 DEF Lateness
  <2> QED
    BY <2>2, <2>3, <2>4
<1>7. CASE Attempts
  <2>1. /\ at = "attempt" /\ probe.tries < MaxTries /\ ~cancelled
        /\ RunPinger(IsPrivilegedMode) /\ IsPrivilegedMode \in BOOLEAN
    BY <1>7 DEF Attempts, IsPrivilegedMode
  <2>2. ProbeInv' /\ NoPingerLeft'
    BY <1>4, <1>5, <2>1 DEF ProbeInv, NoPingerLeft, Running
  <2>3. Budget'
    <3>1. probe.started <= Chances * probe.tries
      BY <2>1 DEF Budget
    <3>2. Used' \in {0, 1} /\ Chances' = Chances /\ MaxTries' = MaxTries
      BY <1>5, <2>1 DEF Used, Chances, MaxTries
    <3>3. probe'.privileged => platform'.windows \/ platform'.root
      BY <1>5, <2>1 DEF IsPrivilegedMode
    <3> QED
      BY <1>4, <1>5, <2>1, <3>1, <3>2, <3>3 DEF Budget
  <2>4. Lateness'
    BY <1>5, <2>1 DEF Lateness
  <2> QED
    BY <2>2, <2>3, <2>4
<1>8. CASE Dials
  <2>1. at = "dialing"
    BY <1>8 DEF Dials
  <2>2. CASE AttemptFails
    BY <1>6, <2>1, <2>2
  <2>3. CASE ~AttemptFails
    <3>1. /\ at' = "pinging" /\ UNCHANGED <<platform, cfg, cancelled>>
          /\ probe' = [probe EXCEPT !.pinger = "running", !.started = @ + 1]
          /\ late' = IF cancelled THEN late + 1 ELSE late
      BY <1>8, <2>3 DEF Dials, Goes, InputFrame
    <3>2. /\ probe' \in ProbeType /\ probe'.pinger = "running"
          /\ probe'.tries = probe.tries /\ probe'.started = probe.started + 1
          /\ probe'.privileged = probe.privileged
          /\ probe'.sent = probe.sent /\ probe'.rtts = probe.rtts
      <4>1. probe \in ProbeType
        BY <1>4, <2>1
      <4> QED
        <5>1. probe'.started = probe.started + 1 /\ probe.started \in Nat
          BY <3>1, <4>1 DEF ProbeType
        <5>2. /\ probe'.pinger = "running" /\ probe'.tries = probe.tries
              /\ probe'.privileged = probe.privileged
              /\ probe'.sent = probe.sent /\ probe'.rtts = probe.rtts
          BY <3>1, <4>1 DEF ProbeType
        <5>3. probe' \in ProbeType
          <6>1. [probe EXCEPT !.started = @ + 1] \in ProbeType
            BY <4>1 DEF ProbeType
          <6>2. probe' = [[probe EXCEPT !.started = @ + 1] EXCEPT !.pinger = "running"]
            BY <3>1, <4>1 DEF ProbeType
          <6> QED
            BY <6>1, <6>2 DEF ProbeType
        <5> QED
          BY <5>1, <5>2, <5>3
    <3>3. ProbeInv' /\ NoPingerLeft'
      BY <1>4, <2>1, <3>1, <3>2 DEF ProbeInv, NoPingerLeft, Running, Started
    <3>4. Budget'
      <4>1. Chances' = Chances /\ Used' = Used /\ MaxTries' = MaxTries
        BY <3>1, <3>2 DEF Chances, Used, MaxTries
      <4> QED
        BY <1>4, <2>1, <3>1, <3>2, <4>1 DEF Budget
    <3>5. Lateness'
      BY <2>1, <3>1, <3>2 DEF Lateness
    <3> QED
      BY <3>3, <3>4, <3>5
  <2> QED
    BY <2>2, <2>3
<1>9. CASE Finishes
  <2>1. /\ at = "pinging" /\ at' = "saving"
        /\ UNCHANGED <<platform, cfg, cancelled, late>>
        /\ probe' = [probe EXCEPT !.pinger = "none"]
    BY <1>9 DEF Finishes, Goes, InputFrame
  <2>2. /\ probe' \in ProbeType /\ probe'.pinger = "none"
        /\ probe'.tries = probe.tries /\ probe'.started = probe.started
        /\ probe'.privileged = probe.privileged
        /\ probe'.sent = probe.sent /\ probe'.rtts = probe.rtts
    BY <1>4, <2>1 DEF ProbeType
  <2>3. ProbeInv' /\ NoPingerLeft'
    BY <1>4, <2>1, <2>2 DEF ProbeInv, NoPingerLeft, Running, Started
  <2>4. Budget'
    <3>1. Chances' = Chances /\ MaxTries' = MaxTries
      BY <2>1 DEF Chances, MaxTries
    <3>2. /\ probe.tries + 1 <= MaxTries
          /\ probe.started <= Chances * probe.tries + Used + 1
      BY <1>4, <2>1 DEF Budget
    <3>3. Chances = 1 => Used = 0
      BY DEF Used
    <3>4. probe.started <= Chances * MaxTries
      BY <1>4, <2>1, <3>2, <3>3
    <3> QED
      BY <1>4, <2>1, <2>2, <3>1, <3>2, <3>4 DEF Budget
  <2>5. Lateness'
    BY <2>1 DEF Lateness
  <2> QED
    BY <2>3, <2>4, <2>5
<1>10. CASE Fails
  <2>1. at = "pinging"
    BY <1>10 DEF Fails
  <2>2. CASE AttemptFails
    BY <1>6, <2>1, <2>2
  <2>3. CASE FallsBack /\ RunPinger(FALSE)
    <3>1. ProbeInv' /\ NoPingerLeft'
      <4>1. /\ at' = "dialing" /\ cfg' = cfg /\ probe' \in ProbeType
            /\ probe'.pinger = "none" /\ probe'.sent = 0 /\ probe'.rtts = <<>>
        BY <1>5, <2>1, <2>3
      <4> QED
        BY <1>4, <2>1, <4>1 DEF ProbeInv, NoPingerLeft, Running
    <3>2. Budget'
      <4>1. Chances = 2 /\ Chances' = 2 /\ Used = 0 /\ Used' = 1 /\ MaxTries' = MaxTries
        BY <1>5, <2>1, <2>3 DEF FallsBack, Budget, Chances, Used, MaxTries
      <4>2. probe.started <= Chances * probe.tries + 1 /\ probe.tries < MaxTries
        BY <1>4, <2>1, <4>1 DEF Budget
      <4> QED
        BY <1>4, <1>5, <2>1, <2>3, <4>1, <4>2 DEF Budget
    <3>3. Lateness'
      BY <1>5, <2>1, <2>3 DEF Lateness, FallsBack
    <3> QED
      BY <3>1, <3>2, <3>3
  <2> QED
    BY <1>10, <2>2, <2>3 DEF Fails
<1>11. CASE GivesUp
  <2>1. /\ at = "pinging" /\ at' = "stopping"
        /\ UNCHANGED <<platform, cfg, cancelled, late, probe>>
    BY <1>11 DEF GivesUp, Goes, ProbeFrame, InputFrame
  <2> QED
    BY <1>4, <2>1
       DEF ProbeInv, NoPingerLeft, Running, Budget, Lateness, Started, Used,
           Chances, MaxTries
<1>12. CASE Waits
  BY <1>6, <1>12 DEF Waits
\* What the pinger and the timer change: none of the counters above.
<1>13. ASSUME UNCHANGED <<platform, cfg, cancelled, late, at>>,
              probe' \in ProbeType, at \in Probing,
              probe'.tries = probe.tries, probe'.started = probe.started,
              probe'.privileged = probe.privileged,
              probe'.sent <= cfg.Ping.Count, Len(probe'.rtts) <= probe'.sent,
              probe'.pinger = "running" => Running
       PROVE  Rest
  BY <1>4, <1>13
     DEF ProbeInv, NoPingerLeft, Running, Budget, Lateness, Started, Used,
         Chances, MaxTries
<1>14. CASE Sends \/ Replies \/ PingerReturns \/ PingerFails
  <2>1. at \in Probing /\ Running
    BY <1>14 DEF Sends, Replies, PingerReturns, PingerFails, NoPingerLeft
  <2>2. probe \in ProbeType /\ probe.sent \in 0..cfg.Ping.Count
        /\ Len(probe.rtts) <= probe.sent
    BY <1>4, <2>1 DEF ProbeInv, ProbeType
  <2>3. CASE Sends
    <3>1. /\ probe' = [probe EXCEPT !.sent = @ + 1] /\ probe.sent < cfg.Ping.Count
          /\ UNCHANGED <<platform, cfg, cancelled, late, at>>
      BY <2>3 DEF Sends, PingerIs, ProbeFrame, InputFrame
    <3>2. cfg.Ping.Count \in Nat \ {0} /\ Len(probe.rtts) \in Nat
      BY <1>4, <2>1, <2>2, Limits DEF ProbeType, Started, Probing
    <3>3. /\ probe' \in ProbeType /\ probe'.sent = probe.sent + 1
          /\ probe'.tries = probe.tries /\ probe'.started = probe.started
          /\ probe'.privileged = probe.privileged
          /\ probe'.rtts = probe.rtts /\ probe'.pinger = probe.pinger
      BY <2>2, <3>1, <3>2 DEF ProbeType
    <3>4. probe'.sent <= cfg.Ping.Count /\ Len(probe'.rtts) <= probe'.sent
      BY <2>2, <3>1, <3>2, <3>3
    <3> QED
      BY <1>13, <2>1, <3>1, <3>3, <3>4
  <2>4. CASE Replies
    <3>1. PICK rtt \in Rtts : PingerIs([probe EXCEPT !.rtts = Append(@, rtt)])
      BY <2>4 DEF Replies
    <3>2. /\ Append(probe.rtts, rtt) \in Seq(Rtts)
          /\ Len(Append(probe.rtts, rtt)) = Len(probe.rtts) + 1
          /\ Len(probe.rtts) \in Nat
      BY <2>2 DEF ProbeType
    <3>3. /\ probe' = [probe EXCEPT !.rtts = Append(@, rtt)]
          /\ UNCHANGED <<platform, cfg, cancelled, late, at>>
          /\ Len(probe.rtts) < probe.sent
      BY <2>4, <3>1 DEF Replies, PingerIs, ProbeFrame, InputFrame
    <3>4. /\ probe' \in ProbeType
          /\ probe'.tries = probe.tries /\ probe'.started = probe.started
          /\ probe'.privileged = probe.privileged /\ probe'.sent = probe.sent
          /\ Len(probe'.rtts) = Len(probe.rtts) + 1
      BY <2>2, <3>2, <3>3 DEF ProbeType
    <3>5. probe.sent \in Nat
      BY <2>2 DEF ProbeType
    <3> QED
      BY <1>4, <1>13, <2>1, <2>2, <3>2, <3>3, <3>4, <3>5
  <2>5. CASE PingerReturns \/ PingerFails
    BY <1>13, <2>1, <2>2, <2>5
       DEF PingerReturns, PingerFails, PingerIs, ProbeFrame, InputFrame, ProbeType
  <2> QED
    BY <1>14, <2>3, <2>4, <2>5
<1>15. CASE TimeoutPasses
  <2>1. at \in Probing /\ probe \in ProbeType /\ probe.sent \in 0..cfg.Ping.Count
        /\ Len(probe.rtts) <= probe.sent
    BY <1>4, <1>15 DEF TimeoutPasses, ProbeInv, ProbeType
  <2>2. /\ probe' = [probe EXCEPT !.due = TRUE]
        /\ UNCHANGED <<platform, cfg, cancelled, late, at>>
    BY <1>15 DEF TimeoutPasses, ProbeFrame, InputFrame
  <2>3. /\ probe' \in ProbeType
        /\ probe'.tries = probe.tries /\ probe'.started = probe.started
        /\ probe'.privileged = probe.privileged /\ probe'.sent = probe.sent
        /\ probe'.rtts = probe.rtts /\ probe'.pinger = probe.pinger
    BY <2>1, <2>2 DEF ProbeType
  <2> QED
    BY <1>4, <1>13, <2>1, <2>2, <2>3 DEF Running
<1>16. CASE Cancelled
  <2>1. ~cancelled /\ cancelled' /\ UNCHANGED <<platform, cfg, at, probe, late>>
    BY <1>16 DEF Cancelled
  <2> QED
    BY <2>1
       DEF ProbeInv, NoPingerLeft, Running, Budget, Lateness, Started, Used,
           Chances, MaxTries
<1> QED
  BY <1>1, <1>2, <1>3, <1>7, <1>8, <1>9, <1>10, <1>11, <1>12, <1>14, <1>15, <1>16
     DEF Next, RunStep

LEMMA PingerStarts == Init => PingerInv
<1> SUFFICES ASSUME Init PROVE PingerInv
  OBVIOUS
<1>1. Loaded
  BY DEF Init, Loaded, Places, Started
<1>2. ProbeInv /\ NoPingerLeft
  BY NoProbeType DEF Init, ProbeInv, NoProbe, NoPingerLeft, Running, Started, Probing
<1>3. Budget /\ Lateness
  BY DEF Init, Budget, Lateness, NoProbe
<1> QED
  BY <1>1, <1>2, <1>3 DEF PingerInv

\* No pinger outlives the attempt that started it.
THEOREM NoPingerIsLeft == Spec => []NoPingerLeft
<1>1. PingerInv => NoPingerLeft
  BY DEF PingerInv
<1> QED
  BY <1>1, PingerStarts, PingerStep, PTL DEF Spec

\* Retries and the fallback multiply, and no more; after the cancellation at
\* most the pinger about to start and its fallback start.
THEOREM PingersAreBounded == Spec => []PingersBounded
<1>1. ASSUME PingerInv PROVE PingersBounded
  <2> SUFFICES ASSUME Started PROVE probe.started <= MaxTries * Chances
    BY <1>1 DEF PingersBounded, PingerInv, Lateness, Chances
  <2>1. MaxTries \in Nat \ {0} /\ Chances \in {1, 2} /\ Used \in {0, 1}
        /\ (Chances = 1 => Used = 0)
    BY <1>1, Limits DEF PingerInv, Chances, Used
  <2>2. probe.tries \in Nat /\ probe.started \in Nat
    BY <1>1 DEF PingerInv, ProbeInv, ProbeType
  <2>3. CASE at \notin Probing
    BY <1>1, <2>1, <2>3 DEF PingerInv, ProbeInv, NoProbe
  <2>4. CASE at \in Probing
    <3>1. probe.tries <= MaxTries /\ probe.started <= Chances * MaxTries
      BY <1>1, <2>1, <2>2, <2>4 DEF PingerInv, Budget, Probing
    <3> QED
      BY <2>1, <2>2, <3>1
  <2> QED
    BY <2>3, <2>4
<1> QED
  BY <1>1, PingerStarts, PingerStep, PTL DEF Spec

-----------------------------------------------------------------------------
(* The loops over the addresses and their targets.                         *)

Inside == Probing \cup {"target"}

Content == raw.Addresses.content

\* The families of the k-th address whose probe is over.
Tried(k) == {f \in Families : <<k, f>> \in done.tried}

\* The families that are still to be probed.
RestInv ==
    /\ rest \in Seq(Families) /\ Len(rest) <= 2
    /\ \A i, j \in 1..Len(rest) : rest[i] = rest[j] => i = j
    /\ at \in Probing => rest # <<>>

\* The address the run is at.
AddrInv ==
    /\ addr \in Nat \ {0}
    /\ at = "unloaded" => addr = 1
    /\ Started => addr <= Len(Content) + 1
    /\ at \in Inside => addr <= Len(Content)
    /\ at = "ended" /\ ~cancelled => addr = Len(Content) + 1

\* What has been probed and saved lies behind, what is still to be probed ahead.
DoneInv ==
    /\ done \in [tried : SUBSET (Nat \X Families), saved : SUBSET (Nat \X Families),
                 unresolved : SUBSET Nat]
    /\ \A k \in Nat, f \in Families :
          <<k, f>> \in done.tried \cup done.saved =>
             k < addr \/ (k = addr /\ at \notin {"unloaded", "address"})
    /\ at \in Inside => \A i \in 1..Len(rest) : <<addr, rest[i]>> \notin done.saved

\* The two together suit the address.
SuitInv ==
    /\ Started => \A k \in 1..(addr - 1) :
                     k \in done.unresolved \/ Suits(Content[k], Tried(k))
    /\ at \in Inside => Suits(Content[addr], Tried(addr) \cup ToSet(rest))

TargetsInv == RestInv /\ AddrInv /\ DoneInv /\ SuitInv

LEMMA LoadedAddresses ==
    ASSUME Loaded, Started
    PROVE  /\ Len(cfg.Addresses) = Len(Content) /\ Len(Content) \in Nat
           /\ \A k \in 1..Len(Content) :
                 /\ Content[k] \in RawAddress /\ ParseAddress(Content[k]).ok
                 /\ cfg.Addresses[k] = ParseAddress(Content[k]).value
<1>1. raw \in RawConfig /\ ParseConfig(raw).ok /\ cfg = ParseConfig(raw).value
  BY InputsAssumption DEF Loaded
<1> QED
  BY <1>1, ParsedSections, ParsedAddresses DEF Content

\* The families that ResolveTargets returns are a set in some order.
LEMMA TargetLists ==
    ASSUME NEW targets \in {<<>>, <<"IPv6">>, <<"IPv4">>, <<"IPv6", "IPv4">>,
                            <<"IPv4", "IPv6">>}
    PROVE  /\ targets \in Seq(Families) /\ Len(targets) <= 2
           /\ \A i, j \in 1..Len(targets) : targets[i] = targets[j] => i = j
<1>1. CASE targets = <<>>
  BY <1>1
<1>2. CASE targets = <<"IPv6">>
  BY <1>2 DEF Families
<1>3. CASE targets = <<"IPv4">>
  BY <1>3 DEF Families
<1>4. CASE targets = <<"IPv6", "IPv4">>
  BY <1>4 DEF Families
<1>5. CASE targets = <<"IPv4", "IPv6">>
  BY <1>5 DEF Families
<1> QED
  BY <1>1, <1>2, <1>3, <1>4, <1>5

\* One target less.
LEMMA OneLess ==
    ASSUME rest \in Seq(Families), Len(rest) <= 2, rest # <<>>,
           \A i, j \in 1..Len(rest) : rest[i] = rest[j] => i = j
    PROVE  /\ Tail(rest) \in Seq(Families) /\ Len(Tail(rest)) = Len(rest) - 1
           /\ Len(rest) \in {1, 2} /\ Head(rest) \in Families /\ Head(rest) = rest[1]
           /\ \A i \in 1..Len(Tail(rest)) :
                 /\ Tail(rest)[i] = rest[i + 1] /\ i + 1 \in 1..Len(rest)
                 /\ Tail(rest)[i] # Head(rest)
           /\ ToSet(rest) = {Head(rest)} \cup ToSet(Tail(rest))
<1>1. /\ Len(rest) \in {1, 2} /\ Head(rest) = rest[1] /\ Head(rest) \in Families
      /\ Tail(rest) \in Seq(Families) /\ Len(Tail(rest)) = Len(rest) - 1
  <2>1. Len(rest) \in Nat /\ Len(rest) # 0
    BY EmptySeq, LenProperties
  <2>2. Tail(rest) \in Seq(Families) /\ Len(Tail(rest)) = Len(rest) - 1
    BY HeadTailProperties
  <2>3. Head(rest) = rest[1] /\ rest[1] \in Families
    <3> 1 \in 1..Len(rest)
      BY <2>1
    <3> QED
      BY ElementOfSeq
  <2> QED
    BY <2>1, <2>2, <2>3
<1>2. \A i \in 1..Len(Tail(rest)) : Tail(rest)[i] = rest[i + 1] /\ i + 1 \in 1..Len(rest)
  <2>1. \A i \in 1..Len(Tail(rest)) : Tail(rest)[i] = rest[i + 1]
    BY HeadTailProperties
  <2> QED
    BY <1>1, <2>1
<1>3. \A i \in 1..Len(Tail(rest)) : Tail(rest)[i] # Head(rest)
  BY <1>1, <1>2
<1>4. ToSet(rest) = {Head(rest)} \cup ToSet(Tail(rest))
  <2>1. DOMAIN rest = 1..Len(rest) /\ DOMAIN Tail(rest) = 1..Len(Tail(rest))
    BY <1>1
  <2>2. CASE Len(rest) = 1
    BY <1>1, <1>2, <2>1, <2>2 DEF ToSet
  <2>3. CASE Len(rest) = 2
    BY <1>1, <1>2, <2>1, <2>3 DEF ToSet
  <2> QED
    BY <1>1, <2>2, <2>3
<1> QED
  BY <1>1, <1>2, <1>3, <1>4

LEMMA TargetsStep ==
    ASSUME Loaded, TargetsInv, [Next]_vars
    PROVE  TargetsInv'
<1> USE DEF Inside, Probing, TargetsInv
<1>0. Loaded' /\ (Started => /\ Len(cfg.Addresses) = Len(Content) /\ Len(Content) \in Nat)
  BY LoadedStep, LoadedAddresses
<1>1. CASE /\ UNCHANGED <<raw, addr, rest, done>>
           /\ at' = at \/ (at \in Probing /\ at' \in Probing)
           /\ at = "ended" => cancelled' = cancelled
  <2>1. RestInv' /\ AddrInv'
    BY <1>1 DEF RestInv, AddrInv, Content, Started
  <2>2. DoneInv'
    BY <1>1 DEF DoneInv
  <2>3. SuitInv'
    <3>1. Content' = Content /\ \A k : Tried(k)' = Tried(k)
      BY <1>1 DEF Content, Tried
    <3> QED
      BY <1>1, <3>1 DEF SuitInv, Started
  <2> QED
    BY <2>1, <2>2, <2>3
<1>2. CASE Load
  <2>1. /\ at = "unloaded" /\ at' \in {"address", "rejected"} /\ addr = 1
        /\ UNCHANGED <<raw, addr, rest, done, cancelled>>
    BY <1>2 DEF Load, Goes, RunFrame, AddrInv
  <2>2. Started' => Len(Content)' \in Nat
    <3>1. Started' => ParseConfig(raw).ok /\ raw \in RawConfig
      BY <1>0, <2>1, InputsAssumption DEF Loaded
    <3> QED
      BY <2>1, <3>1, ParsedSections, ParsedAddresses DEF Content
  <2> QED
    BY <2>1, <2>2 DEF RestInv, AddrInv, DoneInv, SuitInv, Started
<1>3. CASE NextAddress
  <2>1. at = "address" /\ Started /\ UNCHANGED <<raw, cancelled>>
    BY <1>3 DEF NextAddress, InputFrame, Started
  <2>2. CASE addr > Len(cfg.Addresses) \/ cancelled
    <3>1. at' = "ended" /\ UNCHANGED <<addr, rest, done>>
      BY <1>3, <2>2 DEF NextAddress, Goes, RunFrame
    <3> QED
      <4>1. Content' = Content /\ \A k : Tried(k)' = Tried(k)
        BY <2>1, <3>1 DEF Content, Tried
      <4> QED
        BY <1>0, <2>1, <2>2, <3>1, <4>1 DEF RestInv, AddrInv, DoneInv, SuitInv, Started
  <2>3. CASE ~(addr > Len(cfg.Addresses) \/ cancelled)
    <3>1. PICK answers \in Answers :
            LET targets == ResolveTargets(cfg.Addresses[addr], answers)
            IN  IF targets = <<>>
                  THEN /\ addr' = addr + 1
                       /\ done' = [done EXCEPT !.unresolved = @ \cup {addr}]
                       /\ UNCHANGED <<at, rest>>
                  ELSE rest' = targets /\ at' = "target" /\ UNCHANGED <<addr, done>>
      BY <1>3, <2>3 DEF NextAddress, Goes
    <3> DEFINE targets == ResolveTargets(cfg.Addresses[addr], answers)
    <3>2. /\ addr \in 1..Len(Content) /\ Content[addr] \in RawAddress
          /\ ParseAddress(Content[addr]).ok
          /\ cfg.Addresses[addr] = ParseAddress(Content[addr]).value
      <4>1. addr \in 1..Len(Content)
        BY <1>0, <2>1, <2>3 DEF AddrInv
      <4> QED
        BY <2>1, <4>1, LoadedAddresses
    <3>3. /\ targets \in {<<>>, <<"IPv6">>, <<"IPv4">>, <<"IPv6", "IPv4">>,
                           <<"IPv4", "IPv6">>}
          /\ targets # <<>> => Suits(Content[addr], ToSet(targets))
      BY <3>2, Resolved
    <3>4. CASE targets = <<>>
      <4>1. /\ addr' = addr + 1 /\ UNCHANGED <<at, rest>>
            /\ done' = [done EXCEPT !.unresolved = @ \cup {addr}]
        BY <3>1, <3>4
      <4>2. /\ done'.unresolved = done.unresolved \cup {addr}
            /\ done'.tried = done.tried /\ done'.saved = done.saved
            /\ done' \in [tried : SUBSET (Nat \X Families),
                          saved : SUBSET (Nat \X Families), unresolved : SUBSET Nat]
        BY <3>2, <4>1 DEF DoneInv
      <4>3. Content' = Content /\ \A k : Tried(k)' = Tried(k)
        BY <2>1, <4>2 DEF Content, Tried
      <4>4. RestInv' /\ AddrInv'
        BY <1>0, <2>1, <3>2, <4>1, <4>3 DEF RestInv, AddrInv, Started
      <4>5. DoneInv'
        BY <2>1, <3>2, <4>1, <4>2 DEF DoneInv
      <4>6. SuitInv'
        BY <2>1, <3>2, <4>1, <4>2, <4>3 DEF SuitInv, Started
      <4> QED
        BY <4>4, <4>5, <4>6
    <3>5. CASE targets # <<>>
      <4>1. rest' = targets /\ at' = "target" /\ UNCHANGED <<addr, done>>
        BY <3>1, <3>5
      <4>2. Tried(addr) = {}
        BY <2>1, <3>2 DEF DoneInv, Tried
      <4>3. Suits(Content[addr], Tried(addr) \cup ToSet(rest'))
        BY <3>3, <3>5, <4>1, <4>2
      <4> HIDE DEF targets
      <4>4. /\ rest' \in Seq(Families) /\ Len(rest') <= 2
            /\ \A i, j \in 1..Len(rest') : rest'[i] = rest'[j] => i = j
            /\ \A i \in 1..Len(rest') : rest'[i] \in Families
        <5>1. /\ rest' \in Seq(Families) /\ Len(rest') <= 2
              /\ \A i, j \in 1..Len(rest') : rest'[i] = rest'[j] => i = j
          <6>1. /\ targets \in Seq(Families) /\ Len(targets) <= 2
                /\ \A i, j \in 1..Len(targets) : targets[i] = targets[j] => i = j
            BY ONLY <3>3, TargetLists, Zenon
          <6> QED
            BY <4>1, <6>1
        <5> QED
          BY <5>1, ElementOfSeq
      <4>5. \A i \in 1..Len(rest') : <<addr, rest'[i]>> \notin done.saved
        BY <2>1, <3>2, <4>4 DEF DoneInv
      <4>6. Content' = Content /\ \A k : Tried(k)' = Tried(k)
        BY <2>1, <4>1 DEF Content, Tried
      <4>7. RestInv' /\ AddrInv'
        BY <1>0, <2>1, <3>2, <4>1, <4>4, <4>6 DEF RestInv, AddrInv, Started
      <4>8. DoneInv'
        BY <2>1, <4>1, <4>5 DEF DoneInv
      <4>9. SuitInv'
        BY <2>1, <4>1, <4>3, <4>6 DEF SuitInv, Started
      <4> QED
        BY <4>7, <4>8, <4>9
    <3> QED
      BY <3>4, <3>5
  <2> QED
    BY <2>2, <2>3
<1>4. CASE NextTarget
  <2>1. at = "target" /\ Started /\ UNCHANGED <<raw, cancelled, rest, done>>
    BY <1>4 DEF NextTarget, InputFrame, Started
  <2>2. CASE rest = <<>>
    <3>1. addr' = addr + 1 /\ at' = "address"
      BY <1>4, <2>2 DEF NextTarget, Goes
    <3>2. Suits(Content[addr], Tried(addr))
      <4>1. ToSet(rest) = {}
        BY <2>2 DEF ToSet
      <4> QED
        BY <2>1, <4>1 DEF SuitInv
    <3>3. Content' = Content /\ \A k : Tried(k)' = Tried(k)
      BY <2>1 DEF Content, Tried
    <3>4. RestInv' /\ AddrInv'
      BY <2>1, <2>2, <3>1, <3>3 DEF RestInv, AddrInv, Started
    <3>5. DoneInv'
      BY <2>1, <3>1 DEF DoneInv, AddrInv
    <3>6. SuitInv'
      BY <2>1, <3>1, <3>2, <3>3 DEF SuitInv, AddrInv, Started
    <3> QED
      BY <3>4, <3>5, <3>6
  <2>3. CASE rest # <<>>
    <3>1. addr' = addr /\ (at' = "attempt" \/ (at' = "ended" /\ cancelled))
      BY <1>4, <2>3 DEF NextTarget, Goes
    <3> QED
      <4>1. Content' = Content /\ \A k : Tried(k)' = Tried(k)
        BY <2>1 DEF Content, Tried
      <4>2. RestInv' /\ AddrInv'
        BY <2>1, <2>3, <3>1, <4>1 DEF RestInv, AddrInv, Started
      <4>3. DoneInv' /\ SuitInv'
        BY <2>1, <3>1, <4>1 DEF DoneInv, SuitInv, Started
      <4> QED
        BY <4>2, <4>3
  <2> QED
    BY <2>2, <2>3
<1>5. ASSUME at \in Probing, NEW saved \in SUBSET {Target}, Over(saved)
      PROVE  TargetsInv'
  <2>1. /\ at' = "target" /\ rest' = Tail(rest) /\ UNCHANGED <<raw, addr, cancelled>>
        /\ done' = [done EXCEPT !.tried = @ \cup {Target}, !.saved = @ \cup saved]
        /\ Started
    BY <1>5 DEF Over, Goes, InputFrame, Started
  <2>2. /\ Tail(rest) \in Seq(Families) /\ Len(Tail(rest)) = Len(rest) - 1
        /\ Len(rest) \in {1, 2} /\ Head(rest) \in Families
        /\ \A i \in 1..Len(Tail(rest)) :
              /\ Tail(rest)[i] = rest[i + 1] /\ i + 1 \in 1..Len(rest)
              /\ Tail(rest)[i] # Head(rest)
        /\ ToSet(rest) = {Head(rest)} \cup ToSet(Tail(rest))
    BY <1>5, OneLess DEF RestInv
  <2>3. /\ done'.tried = done.tried \cup {<<addr, Head(rest)>>}
        /\ done'.saved \subseteq done.saved \cup {<<addr, Head(rest)>>}
        /\ done'.unresolved = done.unresolved
        /\ done' \in [tried : SUBSET (Nat \X Families),
                      saved : SUBSET (Nat \X Families), unresolved : SUBSET Nat]
    <3>1. <<addr, Head(rest)>> \in Nat \X Families
      BY <2>2 DEF AddrInv
    <3> QED
      BY <1>5, <2>1, <3>1 DEF DoneInv, Target
  <2>4. /\ rest' \in Seq(Families) /\ Len(rest') <= 2
        /\ \A i, j \in 1..Len(rest') : rest'[i] = rest'[j] => i = j
    <3>1. ASSUME NEW i \in 1..Len(rest'), NEW j \in 1..Len(rest'), rest'[i] = rest'[j]
          PROVE  i = j
      <4>1. rest[i + 1] = rest[j + 1] /\ i + 1 \in 1..Len(rest) /\ j + 1 \in 1..Len(rest)
        BY <2>1, <2>2, <3>1
      <4>2. i + 1 = j + 1
        BY <4>1 DEF RestInv
      <4> QED
        BY <2>1, <2>2, <4>2
    <3> QED
      BY <2>1, <2>2, <3>1
  <2>5. \A i \in 1..Len(rest') : <<addr, rest'[i]>> \notin done'.saved
    <3>1. ASSUME NEW i \in 1..Len(rest') PROVE <<addr, rest'[i]>> \notin done'.saved
      <4>1. rest'[i] = rest[i + 1] /\ i + 1 \in 1..Len(rest) /\ rest'[i] # Head(rest)
        BY <2>1, <2>2
      <4>2. <<addr, rest[i + 1]>> \notin done.saved
        BY <1>5, <4>1 DEF DoneInv
      <4> QED
        BY <2>3, <4>1, <4>2
    <3> QED
      BY <3>1
  <2>6. Suits(Content[addr], Tried(addr)' \cup ToSet(rest'))
    <3>1. Tried(addr)' = Tried(addr) \cup {Head(rest)}
      BY <2>1, <2>2, <2>3 DEF Tried
    <3>2. Tried(addr)' \cup ToSet(rest') = Tried(addr) \cup ToSet(rest)
      BY <2>1, <2>2, <3>1
    <3> QED
      BY <1>5, <3>2 DEF SuitInv
  <2>7. \A k \in 1..(addr - 1) : Tried(k)' = Tried(k)
    BY <2>3 DEF Tried, AddrInv
  <2>8. \A k \in Nat, f \in Families :
          <<k, f>> \in done'.tried \cup done'.saved => k < addr \/ k = addr
    BY <1>5, <2>3 DEF DoneInv, AddrInv
  <2>9. Content' = Content
    BY <2>1 DEF Content
  <2>10. RestInv' /\ AddrInv'
    BY <1>5, <2>1, <2>4, <2>9 DEF RestInv, AddrInv, Started
  <2>11. DoneInv'
    BY <2>1, <2>3, <2>5, <2>8 DEF DoneInv
  <2>12. SuitInv'
    BY <2>1, <2>3, <2>6, <2>7, <2>9 DEF SuitInv, Started
  <2> QED
    BY <2>10, <2>11, <2>12
<1>6. CASE Saves \/ GivesUpProbe
  BY <1>5, <1>6 DEF Saves, GivesUpProbe
<1>7. CASE Attempts \/ Fails \/ GivesUp \/ Waits \/ Dials \/ Finishes
  BY <1>1, <1>7
     DEF Attempts, Fails, GivesUp, Waits, Dials, Finishes, RunPinger,
         AttemptFails, Goes, ProbeFrame, InputFrame, RunFrame
<1>8. CASE Sends \/ Replies \/ PingerReturns \/ PingerFails \/ TimeoutPasses
  BY <1>1, <1>8
     DEF Sends, Replies, PingerReturns, PingerFails, TimeoutPasses, PingerIs,
         ProbeFrame, InputFrame, RunFrame
<1>9. CASE Cancelled \/ UNCHANGED vars
  BY <1>1, <1>9 DEF Cancelled, vars
<1> QED
  BY <1>2, <1>3, <1>4, <1>6, <1>7, <1>8, <1>9 DEF Next, RunStep

LEMMA TargetsStart == Init => TargetsInv
<1> SUFFICES ASSUME Init PROVE TargetsInv
  OBVIOUS
<1>1. at = "unloaded" /\ rest = <<>> /\ addr = 1
      /\ done = [tried |-> {}, saved |-> {}, unresolved |-> {}]
  BY DEF Init
<1> QED
  BY <1>1, EmptySeq
     DEF TargetsInv, RestInv, AddrInv, DoneInv, SuitInv, Started, Inside, Probing

LEMMA RunInvariant == Spec => [](PingerInv /\ TargetsInv)
<1>1. PingerInv /\ TargetsInv /\ [Next]_vars => PingerInv' /\ TargetsInv'
  BY PingerStep, TargetsStep DEF PingerInv
<1> QED
  BY <1>1, PingerStarts, TargetsStart, PTL DEF Spec

\* A run hands in at most one entry per address and family.
THEOREM OneEntryPerFamily == Spec => []OncePerFamily
<1>1. PingerInv /\ TargetsInv => OncePerFamily
  <2> SUFFICES ASSUME PingerInv, TargetsInv, at = "saving"
               PROVE  <<addr, Head(rest)>> \notin done.saved
    BY DEF OncePerFamily, Target
  <2>1. rest # <<>> /\ rest \in Seq(Families)
    BY DEF TargetsInv, RestInv, Probing
  <2>2. Head(rest) = rest[1] /\ 1 \in 1..Len(rest)
    BY <2>1, EmptySeq
  <2> QED
    BY <2>2 DEF TargetsInv, DoneInv, Inside, Probing
<1> QED
  BY <1>1, RunInvariant, PTL

\* A run that is not cancelled gets to every target that config.yml asks for.
THEOREM EveryTargetIsTried == Spec => []EveryTargetTried
<1>1. PingerInv /\ TargetsInv => EveryTargetTried
  <2> SUFFICES ASSUME PingerInv, TargetsInv, at = "ended", ~cancelled,
                      NEW k \in DOMAIN Content
               PROVE  k \in done.unresolved \/ Suits(Content[k], Tried(k))
    BY DEF EveryTargetTried, Suits, Tried, Families, Content
  <2>1. Loaded /\ Started
    BY DEF PingerInv, Started
  <2>2. Content \in Seq(RawAddress)
    BY <2>1, InputsAssumption DEF Loaded, RawConfig, Content
  <2>3. k \in 1..(addr - 1)
    BY <2>2 DEF TargetsInv, AddrInv
  <2> QED
    BY <2>1, <2>3 DEF TargetsInv, SuitInv
<1> QED
  BY <1>1, RunInvariant, PTL

-----------------------------------------------------------------------------
(* The type invariant.                                                     *)

EntryInv == at = "saving" <=> entry # NoEntry

LEMMA EntryFields ==
    ASSUME NEW proto, NEW loss, NEW low, NEW high, NEW spike, NEW e,
           e = [protocol |-> proto, loss |-> loss, average |-> low, raw_average |-> high,
                anomaly |-> spike]
    PROVE  /\ e.protocol = proto /\ e.average = low /\ e.raw_average = high
           /\ e.anomaly = spike
  BY Zenon

LEMMA EntryProtocol ==
    ASSUME NEW proto, NEW sent, NEW sorted, NEW filtered
    PROVE  LatencyEntry(proto, sent, sorted, filtered).protocol = proto
<1> DEFINE spike == filtered # <<>>
           loss == IF sent = 0 THEN 0 ELSE RoundTo2(10000 * (sent - Len(sorted)), sent)
           low == Average(IF spike THEN filtered ELSE sorted)
           high == IF spike THEN Average(sorted) ELSE 0
<1>1. LatencyEntry(proto, sent, sorted, filtered) =
         [protocol |-> proto, loss |-> loss, average |-> low, raw_average |-> high,
          anomaly |-> spike]
  BY DEF LatencyEntry
<1> HIDE DEF loss, low, high, spike
<1> QED
  BY ONLY <1>1, EntryFields

LEMMA EntryAverages ==
    ASSUME NEW proto, NEW sent, NEW sorted, NEW filtered,
           NEW e, e = LatencyEntry(proto, sent, sorted, filtered), e.anomaly
    PROVE  /\ filtered # <<>>
           /\ e.average = Average(filtered) /\ e.raw_average = Average(sorted)
<1> DEFINE spike == filtered # <<>>
           loss == IF sent = 0 THEN 0 ELSE RoundTo2(10000 * (sent - Len(sorted)), sent)
           low == Average(IF spike THEN filtered ELSE sorted)
           high == IF spike THEN Average(sorted) ELSE 0
<1>1. e = [protocol |-> proto, loss |-> loss, average |-> low, raw_average |-> high,
           anomaly |-> spike]
  BY DEF LatencyEntry
<1> HIDE DEF loss, low, high, spike
<1>2. e.average = low /\ e.raw_average = high
  BY ONLY <1>1, EntryFields
<1>3. e.anomaly = spike
  BY ONLY <1>1, EntryFields, Zenon
<1>4. spike
  BY ONLY <1>3, e.anomaly, Zenon
<1> QED
  BY <1>2, <1>4 DEF low, high, spike

LEMMA EntryStep ==
    ASSUME TargetsInv, EntryInv, [Next]_vars
    PROVE  EntryInv'
<1> USE DEF EntryInv
<1>1. CASE Finishes
  <2>1. /\ at = "pinging" /\ at' = "saving"
        /\ entry' = LatencyEntry(Head(rest), probe.sent, Sorted(probe.rtts),
                        FilterAnomalyRTTs(Sorted(probe.rtts), Threshold(cfg.Ping)))
    BY <1>1 DEF Finishes, Goes
  <2>2. Head(rest) \in Families
    BY <2>1, HeadTailProperties DEF TargetsInv, RestInv, Probing
  <2>3. entry'.protocol = Head(rest) /\ NoEntry.protocol = ""
    BY <2>1, EntryProtocol DEF NoEntry
  <2>4. entry' # NoEntry
    BY <2>2, <2>3 DEF Families
  <2> QED
    BY <2>1, <2>4 DEF NoEntry
<1>2. CASE Saves \/ GivesUpProbe
  BY <1>2 DEF Saves, GivesUpProbe, Over, Goes, NoEntry
<1>3. CASE Load \/ NextAddress \/ NextTarget
  BY <1>3 DEF Load, NextAddress, NextTarget, Goes, RunFrame, NoEntry
<1>4. CASE Attempts \/ Fails \/ GivesUp \/ Waits \/ Dials
  BY <1>4
     DEF Attempts, Fails, GivesUp, Waits, Dials, RunPinger, AttemptFails, Goes,
         ProbeFrame, NoEntry
<1>5. CASE Sends \/ Replies \/ PingerReturns \/ PingerFails \/ TimeoutPasses
  BY <1>5
     DEF Sends, Replies, PingerReturns, PingerFails, TimeoutPasses, PingerIs,
         ProbeFrame, NoEntry
<1>6. CASE Cancelled \/ UNCHANGED vars
  BY <1>6 DEF Cancelled, vars, NoEntry
<1> QED
  BY <1>1, <1>2, <1>3, <1>4, <1>5, <1>6 DEF Next, RunStep

\* Type correctness: where the run is, what it holds, and the counters' limits.
THEOREM PingTypeCorrect == Spec => []PingTypeOK
<1>1. Init => EntryInv
  BY DEF Init, EntryInv
<1>2. Spec => []EntryInv
  <2>1. TargetsInv /\ EntryInv /\ [Next]_vars => EntryInv'
    BY EntryStep
  <2> QED
    BY <1>1, <2>1, RunInvariant, PTL DEF Spec
<1>3. PingerInv /\ TargetsInv /\ EntryInv => PingTypeOK
  <2> SUFFICES ASSUME PingerInv, TargetsInv, EntryInv PROVE PingTypeOK
    OBVIOUS
  <2>1. platform \in Platforms /\ raw \in RawConfigs /\ at \in Places /\ late \in Nat
    BY DEF PingerInv, Loaded, Lateness
  <2>2. Started => addr \in 1..(Len(cfg.Addresses) + 1)
    BY LoadedAddresses DEF PingerInv, TargetsInv, AddrInv
  <2>3. probe \in ProbeType /\ Len(probe.rtts) <= probe.sent
    BY DEF PingerInv, ProbeInv
  <2>4. ASSUME Started
        PROVE  probe.tries \in 0..MaxTries /\ probe.sent \in 0..cfg.Ping.Count
    <3>1. MaxTries \in Nat \ {0} /\ cfg.Ping.Count \in Nat \ {0}
      BY <2>4, Limits DEF PingerInv
    <3>2. probe.tries \in Nat /\ probe.sent \in Nat
      BY <2>3 DEF ProbeType
    <3>3. probe.tries <= MaxTries
      BY <3>1, <3>2 DEF PingerInv, ProbeInv, NoProbe, Budget, Probing
    <3> QED
      BY <2>4, <3>1, <3>2, <3>3 DEF PingerInv, ProbeInv
  <2>5. rest \in Seq({"IPv4", "IPv6"})
    BY DEF TargetsInv, RestInv, Families
  <2> QED
    BY <2>1, <2>2, <2>3, <2>4, <2>5 DEF PingTypeOK, EntryInv, ProbeType
<1> QED
  BY <1>2, <1>3, RunInvariant, PTL

-----------------------------------------------------------------------------
(* The intervals.                                                          *)

\* What fits into a word stays as it is.
LEMMA WrapKeeps ==
    ASSUME NEW x \in Nat, x <= MaxInt
    PROVE  Wrap(x) = x
<1> DEFINE half == Word \div 2
<1>1. half \in Nat /\ Word = 2 * half /\ Word > 0
  BY UnitsAssumption
<1>2. x <= half - 1
  BY DEF MaxInt
<1> HIDE DEF half
<1>3. (x + half) % Word = x + half
  BY <1>1, <1>2
<1>4. Wrap(x) = ((x + half) % Word) - half
  BY DEF Wrap, half
<1> QED
  BY <1>1, <1>3, <1>4

LEMMA Divides ==
    ASSUME NEW a \in Nat, NEW b \in Nat \ {0}, NEW x \in Nat, x <= a \div b
    PROVE  x * b <= a
<1> DEFINE q == a \div b
<1>1. q \in Nat /\ q * b <= a
  OBVIOUS
<1> HIDE DEF q
<1>2. x * b <= q * b
  <2>1. PICK d \in Nat : q = x + d
    <3>1. q - x \in Nat /\ q = x + (q - x)
      BY <1>1 DEF q
    <3> QED
      BY <3>1
  <2>2. q * b = x * b + d * b /\ d * b >= 0
    BY <2>1
  <2> QED
    BY <2>2
<1> QED
  BY <1>1, <1>2

\* Seconds that fit into a duration become that duration.
LEMMA FitsDuration ==
    ASSUME NEW seconds \in Nat, Fits(seconds)
    PROVE  Wrap(seconds) = seconds /\ Duration(seconds) = seconds * Second
<1>1. MaxInt \in Nat /\ Second \in Nat \ {0}
  BY UnitsAssumption DEF MaxInt
<1>2. seconds * Second \in Nat /\ seconds * Second <= MaxInt
  BY <1>1, Divides DEF Fits
<1>3. seconds <= MaxInt
  <2>1. seconds * Second >= seconds
    BY <1>1
  <2> QED
    BY <1>1, <1>2, <2>1
<1> QED
  BY <1>2, <1>3, WrapKeeps DEF Duration

\* What becomes of an interval: a value in seconds, 0 for OFF.
Becomes(text, value) ==
    LET seconds == text.num * Lasts[text.unit]
    IN  \/ text = Off /\ value = 0
        \/ /\ text # Off /\ seconds \in Nat \ {0}
           /\ Fits(seconds) => value = seconds

\* What ParseInterval accepts: OFF, or a positive number of one of the units.
LEMMA ParsedInterval ==
    ASSUME NEW text \in IntervalText, NEW allowOFF \in BOOLEAN, NEW units,
           DOMAIN units \subseteq {"minute", "hour", "day"},
           \A u \in DOMAIN units : units[u] = Lasts[u],
           ParseInterval(text, allowOFF, units).ok
    PROVE  Becomes(text, ParseInterval(text, allowOFF, units).value)
<1> USE DEF Becomes
<1>1. CASE allowOFF /\ text = Off
  BY <1>1 DEF ParseInterval, Accept
<1>2. CASE ~(allowOFF /\ text = Off)
  <2>1. /\ text.words = 2 /\ text.num > 0 /\ text.unit \in DOMAIN units
        /\ ParseInterval(text, allowOFF, units).value = Wrap(text.num * units[text.unit])
    BY <1>2 DEF ParseInterval, Accept, Reject
  <2>2. text.num \in Nat \ {0} /\ text # Off
    BY <2>1 DEF IntervalText, Off
  <2>3. Lasts[text.unit] \in Nat \ {0}
    BY <2>1, UnitsAssumption DEF Lasts
  <2> DEFINE seconds == text.num * Lasts[text.unit]
  <2>4. seconds \in Nat \ {0}
    <3>1. \A a, b \in Nat \ {0} : a * b \in Nat \ {0}
      OBVIOUS
    <3> QED
      BY <2>2, <2>3, <3>1
  <2>5. ParseInterval(text, allowOFF, units).value = Wrap(seconds)
    BY <2>1
  <2> QED
    BY <2>2, <2>4, <2>5, FitsDuration
<1> QED
  BY <1>1, <1>2

\* An interval of the configuration and the task that is registered for it.
LEMMA Scheduled ==
    ASSUME NEW r \in RawConfig, ParseConfig(r).ok,
           NEW t \in {"ping", "speedtest", "archive", "rotate"}
    PROVE  LET schedule == ParseConfig(r).value.Schedule
           IN  /\ DOMAIN schedule = {"ping", "speedtest", "archive", "rotate"}
               /\ Becomes(Texts(r.Schedule)[t], schedule[t])
<1> DEFINE s == r.Schedule
           schedule == ParseConfig(r).value.Schedule
<1>1. ParseSchedule(s).ok /\ schedule = ParseSchedule(s).value
  BY ParsedSections
<1>2. /\ s.Ping \in IntervalText /\ s.Speedtest \in IntervalText
      /\ s.Archiving \in IntervalText /\ s.LogRotation \in IntervalText
  BY DEF RawConfig
<1>3. /\ ParseInterval(s.Ping, FALSE, UnitsMinutesHours).ok
      /\ ParseInterval(s.Speedtest, TRUE, UnitsHoursOnly).ok
      /\ ParseInterval(s.Archiving, FALSE, UnitsDaysOnly).ok
      /\ ParseInterval(s.LogRotation, TRUE, UnitsDaysOnly).ok
      /\ schedule =
           [ping      |-> ParseInterval(s.Ping, FALSE, UnitsMinutesHours).value,
            speedtest |-> ParseInterval(s.Speedtest, TRUE, UnitsHoursOnly).value,
            archive   |-> ParseInterval(s.Archiving, FALSE, UnitsDaysOnly).value,
            rotate    |-> ParseInterval(s.LogRotation, TRUE, UnitsDaysOnly).value]
  BY <1>1 DEF ParseSchedule, Accept, Reject
<1>4. \A units \in {UnitsMinutesHours, UnitsHoursOnly, UnitsDaysOnly} :
         /\ DOMAIN units \subseteq {"minute", "hour", "day"}
         /\ \A u \in DOMAIN units : units[u] = Lasts[u]
  BY DEF UnitsMinutesHours, UnitsHoursOnly, UnitsDaysOnly, Lasts
<1>5. /\ Texts(s).ping = s.Ping /\ Texts(s).speedtest = s.Speedtest
      /\ Texts(s).archive = s.Archiving /\ Texts(s).rotate = s.LogRotation
  BY DEF Texts
<1>6. \A text \in IntervalText, allowOFF \in BOOLEAN,
         units \in {UnitsMinutesHours, UnitsHoursOnly, UnitsDaysOnly} :
         ParseInterval(text, allowOFF, units).ok =>
           Becomes(text, ParseInterval(text, allowOFF, units).value)
  BY <1>4, ParsedInterval
<1>7. /\ Becomes(s.Ping, ParseInterval(s.Ping, FALSE, UnitsMinutesHours).value)
      /\ Becomes(s.Speedtest, ParseInterval(s.Speedtest, TRUE, UnitsHoursOnly).value)
      /\ Becomes(s.Archiving, ParseInterval(s.Archiving, FALSE, UnitsDaysOnly).value)
      /\ Becomes(s.LogRotation, ParseInterval(s.LogRotation, TRUE, UnitsDaysOnly).value)
  BY <1>2, <1>3, <1>6
<1> HIDE DEF s, schedule
<1>8. /\ schedule.ping = ParseInterval(s.Ping, FALSE, UnitsMinutesHours).value
      /\ schedule.speedtest = ParseInterval(s.Speedtest, TRUE, UnitsHoursOnly).value
      /\ schedule.archive = ParseInterval(s.Archiving, FALSE, UnitsDaysOnly).value
      /\ schedule.rotate = ParseInterval(s.LogRotation, TRUE, UnitsDaysOnly).value
      /\ DOMAIN schedule = {"ping", "speedtest", "archive", "rotate"}
  BY <1>3
<1>9. Becomes(Texts(s)[t], schedule[t])
  BY <1>5, <1>7, <1>8
<1> QED
  BY <1>8, <1>9 DEF s, schedule

\* The scheduler gets the intervals that were written, as far as they fit into a
\* duration, and OFF keeps a task out.
THEOREM ScheduleIsAsWritten == Spec => []ScheduleAsWritten
<1>1. PingerInv => ScheduleAsWritten
  <2> SUFFICES ASSUME PingerInv, Started, NEW t \in DOMAIN Texts(raw.Schedule)
               PROVE  LET tasks   == AddTask(cfg.Schedule)
                          text    == Texts(raw.Schedule)[t]
                          seconds == text.num * Lasts[text.unit]
                      IN  IF text = Off THEN t \notin DOMAIN tasks
                          ELSE Fits(seconds) =>
                                  t \in DOMAIN tasks /\ tasks[t] = seconds * Second
    BY DEF ScheduleAsWritten
  <2> DEFINE text    == Texts(raw.Schedule)[t]
             seconds == text.num * Lasts[text.unit]
  <2>1. raw \in RawConfig /\ ParseConfig(raw).ok /\ cfg = ParseConfig(raw).value
    BY InputsAssumption DEF PingerInv, Loaded
  <2>2. t \in {"ping", "speedtest", "archive", "rotate"}
    BY DEF Texts
  <2>3. /\ t \in DOMAIN cfg.Schedule
        /\ \/ text = Off /\ cfg.Schedule[t] = 0
           \/ /\ text # Off /\ seconds \in Nat \ {0}
              /\ Fits(seconds) => cfg.Schedule[t] = seconds
    BY <2>1, <2>2, Scheduled DEF Becomes
  <2> HIDE DEF text
  <2>4. CASE text = Off
    <3>1. cfg.Schedule[t] = 0
      BY <2>3, <2>4
    <3> QED
      BY <2>4, <3>1 DEF AddTask, text
  <2>5. CASE text # Off
    <3> SUFFICES ASSUME Fits(seconds)
                 PROVE  /\ t \in DOMAIN AddTask(cfg.Schedule)
                        /\ AddTask(cfg.Schedule)[t] = seconds * Second
      BY <2>5 DEF text
    <3>1. seconds \in Nat \ {0} /\ cfg.Schedule[t] = seconds
      BY <2>3, <2>5
    <3> HIDE DEF seconds
    <3>2. Duration(seconds) = seconds * Second
      BY <3>1, FitsDuration
    <3> QED
      BY <2>3, <3>1, <3>2 DEF AddTask
  <2> QED
    BY <2>4, <2>5
<1> QED
  BY <1>1, RunInvariant, PTL

-----------------------------------------------------------------------------
(* The entry.                                                              *)

\* The entry to be saved is that of the samples the probe has got.
SampledEntry ==
    LatencyEntry(Head(rest), probe.sent, Sorted(probe.rtts),
                 FilterAnomalyRTTs(Sorted(probe.rtts), Threshold(cfg.Ping)))
SampledInv == at = "saving" => entry = SampledEntry

LEMMA SampledStep ==
    ASSUME PingerInv, SampledInv, [Next]_vars
    PROVE  SampledInv'
<1> USE DEF SampledInv, SampledEntry
<1>1. CASE Finishes
  <2>1. /\ rest' = rest /\ cfg' = cfg /\ probe' = [probe EXCEPT !.pinger = "none"]
        /\ entry' = SampledEntry
    BY <1>1 DEF Finishes, InputFrame, RunFrame
  <2>2. probe'.sent = probe.sent /\ probe'.rtts = probe.rtts
    BY <2>1 DEF PingerInv, ProbeInv, ProbeType
  <2> QED
    BY <2>1, <2>2
<1>2. CASE Saves \/ GivesUpProbe
  BY <1>2 DEF Saves, GivesUpProbe, Over, Goes
<1>3. CASE Load \/ NextAddress \/ NextTarget
  BY <1>3 DEF Load, NextAddress, NextTarget, Goes, RunFrame
<1>4. CASE Attempts \/ Fails \/ GivesUp \/ Waits \/ Dials
  BY <1>4 DEF Attempts, Fails, GivesUp, Waits, Dials, RunPinger, AttemptFails, Goes
<1>5. CASE Sends \/ Replies \/ PingerReturns \/ PingerFails
  <2>1. Running /\ at' = at
    BY <1>5 DEF Sends, Replies, PingerReturns, PingerFails, PingerIs
  <2>2. at # "saving"
    BY <2>1 DEF PingerInv, NoPingerLeft
  <2> QED
    BY <2>1, <2>2
<1>6. CASE TimeoutPasses
  BY <1>6 DEF TimeoutPasses
<1>7. CASE Cancelled \/ UNCHANGED vars
  BY <1>7 DEF Cancelled, vars
<1> QED
  BY <1>1, <1>2, <1>3, <1>4, <1>5, <1>6, <1>7 DEF Next, RunStep

LEMMA ThresholdType ==
    ASSUME NEW ping, ping.AnomalyThresholdMs \in Nat
    PROVE  /\ Threshold(ping) \in Int
           /\ ping.AnomalyThresholdMs * Milli <= MaxInt =>
                 Threshold(ping) = ping.AnomalyThresholdMs * Milli
<1> DEFINE x == ping.AnomalyThresholdMs * Milli
           half == Word \div 2
<1>1. x \in Nat
  BY UnitsAssumption
<1>2. Word \in Nat \ {0} /\ half \in Int
  BY UnitsAssumption
<1> HIDE DEF x, half
<1>3. Wrap(x) = ((x + half) % Word) - half
  BY DEF Wrap, half
<1>4. Wrap(x) \in Int
  BY <1>1, <1>2, <1>3
<1> QED
  BY <1>1, <1>4, WrapKeeps DEF Threshold, x

\* The filter takes the largest samples of a probe out and only such as lie above
\* the threshold, leaves at least two and all up to the third quartile, and the
\* average does not rise: for any number of samples, any times and any threshold.
THEOREM OnlySpikesAreFiltered == Spec => []OnlySpikesGo
<1>1. Init => SampledInv
  BY DEF Init, SampledInv
<1>2. Spec => []SampledInv
  <2>1. PingerInv /\ SampledInv /\ [Next]_vars => SampledInv'
    BY SampledStep
  <2> QED
    BY <1>1, <2>1, RunInvariant, PTL DEF Spec
<1>3. PingerInv /\ SampledInv => OnlySpikesGo
  <2> DEFINE sorted == Sorted(probe.rtts)
             threshold == Threshold(cfg.Ping)
             kept == FilterAnomalyRTTs(sorted, threshold)
             limit == cfg.Ping.AnomalyThresholdMs * Milli
             Spikes == /\ kept = SubSeq(sorted, 1, Len(kept))
                       /\ limit <= MaxInt =>
                             \A k \in (Len(kept) + 1)..Len(sorted) : sorted[k] > limit
                       /\ Len(kept) >= 2 /\ 4 * (Len(sorted) - Len(kept)) < Len(sorted) + 3
                       /\ entry.average <= entry.raw_average
  <2> SUFFICES ASSUME PingerInv, SampledInv, at = "saving", entry.anomaly
               PROVE  Spikes
    BY DEF OnlySpikesGo
  <2>1. sorted \in Seq(Nat) /\ Ascends(sorted)
    <3>1. probe.rtts \in Seq(Rtts) /\ Rtts \subseteq Nat
      BY InputsAssumption DEF PingerInv, ProbeInv, ProbeType
    <3>2. probe.rtts \in Seq(Nat)
      BY <3>1, SeqMonotonic
    <3> QED
      BY <3>2, SortedFacts
  <2>2. threshold \in Int /\ (limit <= MaxInt => threshold = limit)
    <3>1. cfg.Ping.AnomalyThresholdMs \in Nat
      BY Limits DEF PingerInv, Started
    <3> QED
      BY <3>1, ThresholdType
  <2>3. entry = LatencyEntry(Head(rest), probe.sent, sorted, kept)
    BY DEF SampledInv, SampledEntry
  <2>4. kept = FilterAnomalyRTTs(sorted, threshold)
    OBVIOUS
  <2> HIDE DEF sorted, threshold, kept, limit
  <2>5. kept # <<>> /\ entry.average = Average(kept) /\ entry.raw_average = Average(sorted)
    <3> DEFINE proto == Head(rest)
               sent == probe.sent
    <3>1. entry = LatencyEntry(proto, sent, sorted, kept) /\ entry.anomaly
      BY <2>3
    <3> HIDE DEF proto, sent
    <3> QED
      BY ONLY <3>1, EntryAverages
  <2>6. /\ kept = SubSeq(sorted, 1, Len(kept))
        /\ \A k \in (Len(kept) + 1)..Len(sorted) : sorted[k] > threshold
        /\ Len(kept) >= 2 /\ 4 * (Len(sorted) - Len(kept)) < Len(sorted) + 3
        /\ Average(kept) <= Average(sorted)
    BY <2>1, <2>2, <2>4, <2>5, SpikesOnly
  <2> QED
    BY <2>2, <2>5, <2>6
<1> QED
  BY <1>2, <1>3, RunInvariant, PTL
=============================================================================
