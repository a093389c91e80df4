---------------------------- MODULE MCDashboard ----------------------------
(* A small instance of Dashboard for TLC: days of six hours, three         *)
(* documents with two targets, both protocols and two local days.          *)
EXTENDS Dashboard, TLC

CONSTANTS alpha, beta

Read(name, family, ms) == [target |-> name, protocol |-> family, average |-> ms]
Lossy(name, family, ms, percent) == Read(name, family, ms) @@ [packet_loss |-> percent]
Point(t, tests, readings) == [t |-> t, speed |-> tests, latency |-> readings]

\* Two local days (the second begins at hour 7 of UTC), a spike, a slot without IPv6.
Busy == {Point(3, {}, {Read(alpha, "IPv4", 10)}),
         Point(4, {90}, {Read(alpha, "IPv4", 10), Read(alpha, "IPv6", 20)}),
         Point(8, {}, {Read(alpha, "IPv4", 10), Read(alpha, "IPv6", 12)}),
         Point(9, {80}, {}),
         Point(10, {}, {Lossy(alpha, "IPv4", 55, 25), Read(beta, "IPv6", 0)})}

\* All of it is the day before, without IPv6.
Old == {Point(1, {}, {Read(beta, "IPv4", 100)}),
        Point(2, {}, {Read(beta, "IPv4", 30)})}

AnyDocument == {Busy, Old, {}}
OneLossy    == {{Point(3, {}, {Lossy(alpha, "IPv4", 55, 25)})}}
Windows     == [w \in {"1h", "5h"} |-> IF w = "1h" THEN 1 ELSE 2]
=============================================================================
