------------------------------- MODULE MCPingRun -------------------------------
EXTENDS PingRun

\* A configuration that is accepted, and what each of its sections may say.
Base == [Schedule  |-> [Ping |-> Text(3, "minute"), Speedtest |-> Text(2, "hour"),
                        Archiving |-> Text(2, "day"), LogRotation |-> Off],
         Ping      |-> [Count |-> 1, Timeout |-> Text(2, "second"), Retries |-> 0,
                        AnomalyThresholdMs |-> 3],
         ServerID  |-> "auto",
         Addresses |-> [kind |-> "mapping", content |-> <<>>]]

Intervals == {Off, Blank, Text(0, "hour"), Text(1, "year"), Text(300, "hour")}
                \cup {Text(2, unit) : unit \in {"second", "minute", "hour", "day"}}
Schedules == {[Base EXCEPT !.Schedule[task] = text] :
                task \in DOMAIN Base.Schedule, text \in Intervals}
Pings == {[Base EXCEPT !.Ping.Timeout = text] : text \in Intervals}
            \cup {[Base EXCEPT !.Ping.Count = 0], [Base EXCEPT !.Ping.Retries = -1],
                  [Base EXCEPT !.Ping.AnomalyThresholdMs = 0]}
Servers == {[Base EXCEPT !.ServerID = id] : id \in {"", "17", "junk", "list"}}

Address(ip4, ip6, domain, protocol) ==
    [IPv4 |-> ip4, IPv6 |-> ip6, Domain |-> domain, Protocol |-> protocol]
Named(protocol) == Address("", "", "name", protocol)
Listed(content) == [Base EXCEPT !.Addresses.content = content]
Targets ==
    {Listed(<<Address(ip4, ip6, "", "")>>) : ip4 \in {"", "4", "none"}, ip6 \in {"", "6", "4"}}
    \cup {Listed(<<Address("", "", domain, protocol)>>) :
             domain \in {"name", "spaced"}, protocol \in {"", "IPv6", "Both", "both"}}
    \cup {Listed(<<Address("4", "6", "name", "")>>)}
    \cup {[Listed(<<Named("IPv4")>>) EXCEPT !.Addresses.kind = "sequence"],
          [Base EXCEPT !.Addresses.kind = "scalar"]}

\* Retries and several targets; and a probe with enough samples for quartiles.
Several == [Listed(<<Named("Both"), Address("4", "6", "", "")>>) EXCEPT !.Ping.Retries = 1]
Sampled == [Listed(<<Address("4", "", "", "")>>) EXCEPT !.Ping.Count = 4]

MCRawConfigs == Schedules \cup Pings \cup Servers \cup Targets \cup {Several, Sampled}
\* No answer, one family, both in either order, and an address too many.
MCAnswers == {<<>>, <<"IPv4">>, <<"IPv6">>, <<"IPv4", "IPv4", "IPv6">>, <<"IPv6", "IPv4">>}

MCPlatforms == {[windows |-> TRUE, root |-> FALSE], [windows |-> FALSE, root |-> FALSE],
                [windows |-> FALSE, root |-> TRUE]}

\* A number of days whose seconds fit into a word and whose nanoseconds do not.
LongArchive == {[Base EXCEPT !.Schedule.Archiving = Text(60, "day")]}
=============================================================================
