------------------------------- MODULE RateLimit -------------------------------
(***************************************************************************)
(* RateLimitInterceptor: a counter per client that starts again when a     *)
(* window of time is over.  The window begins with the first request after *)
(* the last one ended, not at a fixed time.                                *)
(***************************************************************************)
EXTENDS Integers, FiniteSets

CONSTANTS
    Keys,        \* what clientKey finds: an address, or "unknown"
    RateMax,     \* RATE_LIMIT_MAX; 0 switches the limit off
    Window,      \* RATE_LIMIT_WINDOW_MS, in ticks
    SweepAbove,  \* how many counters are kept before old ones are removed
    MaxTime      \* bound: ticks of the clock

ASSUME RateLimitAssumption ==
    /\ IsFiniteSet(Keys)
    /\ RateMax \in Nat /\ Window \in Nat /\ SweepAbove \in Nat /\ MaxTime \in Nat

VARIABLES
    now,
    buckets,   \* the counters
    admitted   \* requests let through, by client and tick; nothing reads it

limitVars == <<buckets, admitted>>

LimitTypeOK ==
    /\ now \in 0..MaxTime
    /\ \E D \in SUBSET Keys :
          buckets \in [D -> [count : Nat \ {0}, resetAt : Window..(MaxTime + Window)]]
    /\ admitted \in [Keys -> [0..MaxTime -> Nat]]

NoneAdmitted == [k \in Keys |-> [t \in 0..MaxTime |-> 0]]

LimitInit == now = 0 /\ buckets = <<>> /\ admitted = NoneAdmitted

Tick == now < MaxTime /\ now' = now + 1

\* Mutant: a window ends one tick early.
BucketEarly(k) ==
    IF k \in DOMAIN buckets /\ buckets[k].resetAt > now + 1
    THEN buckets[k] ELSE [count |-> 0, resetAt |-> now + Window]

Bucket(k) ==
    IF k \in DOMAIN buckets /\ buckets[k].resetAt > now
    THEN buckets[k] ELSE [count |-> 0, resetAt |-> now + Window]

Allows(k) == RateMax = 0 \/ Bucket(k).count < RateMax

Counted(k) ==
    [j \in DOMAIN buckets \cup {k} |->
        IF j = k THEN [Bucket(k) EXCEPT !.count = @ + 1] ELSE buckets[j]]

RemoveExpired(bs) == [k \in {j \in DOMAIN bs : bs[j].resetAt > now} |-> bs[k]]

\* intercept: a refused request counts too, and does not sweep.
Limit(k) ==
    /\ buckets' = IF RateMax = 0 THEN buckets
                  ELSE IF Allows(k) /\ Cardinality(DOMAIN Counted(k)) > SweepAbove
                  THEN RemoveExpired(Counted(k)) ELSE Counted(k)
    /\ admitted' = IF Allows(k) THEN [admitted EXCEPT ![k][now] = @ + 1] ELSE admitted

\* What was let through in the ticks before t.
Before(ticks, t) ==
    LET sum[s \in 0..(MaxTime + 1)] == IF s = 0 THEN 0 ELSE sum[s - 1] + ticks[s - 1]
    IN  sum[t]

Within(k, first, last) ==
    Before(admitted[k], (IF last < MaxTime THEN last ELSE MaxTime) + 1) - Before(admitted[k], first)

\* A window begins with a request, so a client that keeps to the end of one
\* and the beginning of the next gets twice the limit less one in the time of
\* a window, and never more, whatever was removed in between.
SlidingBound ==
    RateMax > 0 => \A k \in Keys, t \in 0..MaxTime : Within(k, t, t + Window - 1) < 2 * RateMax

\* A counter that is alive has let through what was asked for up to the limit:
\* no client is refused before it has had its share.
ShareIsGiven ==
    \A k \in DOMAIN buckets : buckets[k].resetAt > now =>
        Within(k, buckets[k].resetAt - Window, now)
            = (IF buckets[k].count < RateMax THEN buckets[k].count ELSE RateMax)
=============================================================================
