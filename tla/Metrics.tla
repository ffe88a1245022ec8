-------------------------------- MODULE Metrics --------------------------------
(***************************************************************************)
(* MetricsService: a counter, a sum and a cumulative histogram of the      *)
(* durations for every route and status.                                   *)
(***************************************************************************)
EXTENDS Integers, Sequences

CONSTANT Bounds   \* BUCKETS_MS, in ticks; the last one has no limit in the code

ASSUME MetricsAssumption ==
    /\ Bounds \in Seq(Nat) /\ Bounds # <<>>
    /\ \A i \in 2..Len(Bounds) : Bounds[i - 1] < Bounds[i]

VARIABLE metrics

NoMetric == [count |-> 0, sum |-> 0, buckets |-> [i \in DOMAIN Bounds |-> 0]]

Metric(route, status) ==
    IF <<route, status>> \in DOMAIN metrics THEN metrics[<<route, status>>] ELSE NoMetric

Observe(route, status, duration) ==
    LET m == Metric(route, status)
        next == [count |-> m.count + 1, sum |-> m.sum + duration,
                 buckets |-> [i \in DOMAIN Bounds |->
                                  m.buckets[i] + (IF duration <= Bounds[i] THEN 1 ELSE 0)]] IN
    metrics' = [key \in DOMAIN metrics \cup {<<route, status>>} |->
                   IF key = <<route, status>> THEN next ELSE metrics[key]]

\* The most that durations in the buckets can add up to.
Most(bs) ==
    LET most[i \in 0..Len(Bounds)] ==
            IF i = 0 THEN 0
            ELSE most[i - 1] + Bounds[i] * (bs[i] - (IF i = 1 THEN 0 ELSE bs[i - 1]))
    IN  most[Len(Bounds)]

\* What prometheus prints is a histogram: cumulative, the last bucket is the
\* count, and the sum is no more than the bounds of the buckets allow.
HistogramIsCumulative ==
    \A key \in DOMAIN metrics :
        LET m == metrics[key] IN
        /\ \A i \in 2..Len(Bounds) : m.buckets[i - 1] <= m.buckets[i]
        /\ m.buckets[Len(Bounds)] = m.count
        /\ m.sum <= Most(m.buckets)
=============================================================================
