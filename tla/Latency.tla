------------------------------- MODULE Latency -------------------------------
(***************************************************************************)
(* The statistics of one probe: filterAnomalyRTTs, percentile and the end  *)
(* of runPinger in cmd/modules/collector_ping.go.                          *)
(*                                                                         *)
(* A round-trip time is a natural number of hundredths of a millisecond,   *)
(* the precision at which averages are kept.  Where the code cuts a        *)
(* quantile off at whole nanoseconds, it is cut off at a unit here.        *)
(***************************************************************************)
EXTENDS Integers, SequencesExt

\* slices.Sort: the rearrangement that does not descend.
Rearranged(rtts) ==
    {[k \in DOMAIN rtts |-> rtts[p[k]]] : p \in Bijection(DOMAIN rtts, DOMAIN rtts)}
Sorted(rtts) ==
    CHOOSE s \in Rearranged(rtts) : \A j, k \in DOMAIN s : j < k => s[j] <= s[k]

Total(rtts)  == FoldLeft(+, 0, rtts)

\* roundTo2 of a quotient of naturals.
RoundTo2(a, b) == (2 * a + b) \div (2 * b)
Average(rtts)  == IF rtts = <<>> THEN 0 ELSE RoundTo2(Total(rtts), Len(rtts))

\* The p-th percentile, interpolated between adjacent ranks.
Percentile(sorted, p) ==
    LET rank == p * (Len(sorted) - 1)
        lo   == 1 + (rank \div 100)
        frac == rank % 100
    IN  IF frac = 0 THEN sorted[lo]
        ELSE sorted[lo] + (frac * (sorted[lo + 1] - sorted[lo])) \div 100

\* Mutant: what exceeds either limit is an outlier.
FenceLower(sorted, threshold) ==
    LET q1 == Percentile(sorted, 25)
        q3 == Percentile(sorted, 75)
    IN  Min({q3 + (3 * (q3 - q1)) \div 2, threshold})

\* Tukey's fence, and nothing below the threshold.
Fence(sorted, threshold) ==
    LET q1 == Percentile(sorted, 25)
        q3 == Percentile(sorted, 75)
    IN  Max({q3 + (3 * (q3 - q1)) \div 2, threshold})

\* Those of the samples that do not exceed the fence, collected one by one.
Within(rtts, fence) ==
    FoldLeft(LAMBDA good, rtt : IF rtt <= fence THEN Append(good, rtt) ELSE good, <<>>, rtts)

\* The samples that remain, or <<>> when the probe is no anomaly.
FilterAnomalyRTTs(sorted, threshold) ==
    LET good == Within(sorted, Fence(sorted, threshold))
    IN  IF Len(sorted) < 2 \/ Len(good) < 2 \/ Len(good) = Len(sorted)
        THEN <<>> ELSE good

\* The entry of a probe that sent so many packets and got these replies, sorted,
\* of which the filter left some or made no anomaly.
LatencyEntry(proto, sent, sorted, filtered) ==
    LET anomaly  == filtered # <<>>
    IN  [protocol    |-> proto,
         loss        |-> IF sent = 0 THEN 0
                        ELSE RoundTo2(10000 * (sent - Len(sorted)), sent),
         average     |-> Average(IF anomaly THEN filtered ELSE sorted),
         raw_average |-> IF anomaly THEN Average(sorted) ELSE 0,
         anomaly     |-> anomaly]
=============================================================================
