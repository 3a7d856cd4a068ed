----------------------------- MODULE SoakReport -----------------------------
(***************************************************************************)
(* What cmd/soak-produce makes of a finished run: percentiles and          *)
(* thresholds.  A rate or a fraction is a pair <<n, d>> of integers, d > 0.*)
(***************************************************************************)
EXTENDS Integers, Weights

Exceeds(p, q) == p[1] * q[2] > q[1] * p[2]

-----------------------------------------------------------------------------
\* The multiset kept holds kept[l] samples of l.  sorted[idx] is the least l
\* that more than idx samples do not exceed.
CountUpTo(kept, l) == Weight({m \in DOMAIN kept : m <= l}, kept)

\* percentile: int(float64(n-1) * p) as an index into the sorted samples.
Percentile(kept, percent) ==
    LET n == Weight(DOMAIN kept, kept)
        idx == ((n - 1) * percent) \div 100
        above == {l \in DOMAIN kept : CountUpTo(kept, l) > idx}
    IN IF n = 0 THEN 0 ELSE CHOOSE l \in above : \A m \in above : l <= m

\* Records per second of a run that took so many milliseconds: summarize takes a
\* clock that has not moved for one millisecond.
RecordsPerSecond(totals, elapsed) == <<1000 * totals.produced, IF elapsed = 0 THEN 1 ELSE elapsed>>

\* A rate that nothing was attempted for is zero.
FailureRate(totals) == IF totals.attempted > 0 THEN <<totals.lost, totals.attempted>> ELSE <<0, 1>>

\* evaluateThresholds; limits is [maxFailure, minRate, maxP99], 0 disables the
\* last two.
EvaluateThresholds(totals, elapsed, kept, limits) ==
    {v \in {"max_failure_rate", "min_records_sec", "max_p99"} :
        CASE v = "max_failure_rate" -> Exceeds(FailureRate(totals), limits.maxFailure)
          [] v = "min_records_sec" -> /\ limits.minRate > 0
                                    /\ Exceeds(<<limits.minRate, 1>>, RecordsPerSecond(totals, elapsed))
          [] v = "max_p99" -> limits.maxP99 > 0 /\ Percentile(kept, 99) > limits.maxP99}

=============================================================================
