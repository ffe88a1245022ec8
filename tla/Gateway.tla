-------------------------------- MODULE Gateway --------------------------------
(***************************************************************************)
(* What a request goes through: the guard of its route, which answers 401  *)
(* and 403 before any interceptor runs, ObservabilityInterceptor, inside   *)
(* it RateLimitInterceptor, inside that the handler.  The handlers are     *)
(* the marketplace and any route that awaits the database ("db").          *)
(* Counters, metrics and requests for lots live in the memory of the       *)
(* process.                                                                *)
(***************************************************************************)
EXTENDS RateLimit, Metrics, Marketplace, Functions

CONSTANTS
    KeyOf,         \* the client key of an actor's device
    Slots,         \* requests that wait for the database at once
    MaxCalls,      \* bound: requests that pass the guards
    MaxFaults      \* bound: restarts

ASSUME GatewayAssumption ==
    /\ KeyOf \in [Actors -> Keys]
    /\ MaxTime <= Bounds[Len(Bounds)]
    /\ MaxCalls \in Nat /\ MaxFaults \in Nat

VARIABLES
    waiting,   \* when each waiting request began, -1 for none
    calls, faults

vars == <<now, limitVars, metrics, marketVars, waiting, calls, faults>>

TypeOK ==
    /\ LimitTypeOK /\ MarketTypeOK
    /\ DOMAIN metrics \subseteq {"ask", "answer", "db"} \X {200, 201, 400, 403, 404, 429, 500}
    /\ waiting \in [Slots -> 0..MaxTime \cup {-1}]
    /\ calls \in 0..MaxCalls /\ faults \in 0..MaxFaults

Init ==
    /\ LimitInit /\ MarketInit
    /\ metrics = <<>>
    /\ waiting = [s \in Slots |-> -1]
    /\ calls = 0 /\ faults = 0

Called == calls < MaxCalls /\ calls' = calls + 1 /\ UNCHANGED faults

Refused(k, route) == ~Allows(k) /\ Observe(route, 429, 0)

\* A handler that does not wait: one step, with no measurable duration.
Ask(a, l, grams) ==
    /\ MayAsk(a)
    /\ Called /\ Limit(KeyOf[a])
    /\ \/ Refused(KeyOf[a], "ask") /\ UNCHANGED marketVars
       \/ /\ Allows(KeyOf[a])
          /\ Observe("ask", AskStatus(a, l, grams), 0)
          /\ CreateRequest(a, l, grams)
    /\ UNCHANGED <<now, waiting>>

Answer(a, i, answer) ==
    /\ Called /\ Limit(KeyOf[a])
    /\ \/ Refused(KeyOf[a], "answer") /\ UNCHANGED marketVars
       \/ /\ Allows(KeyOf[a])
          /\ Observe("answer", AnswerStatus(a, i, answer), 0)
          /\ UpdateRequest(a, i, answer)
    /\ UNCHANGED <<now, waiting>>

(***************************************************************************)
(* Routes that wait for the database.                                      *)
(***************************************************************************)

Start(k, s) ==
    /\ waiting[s] = -1
    /\ Called /\ Limit(k)
    /\ \/ Refused(k, "db") /\ UNCHANGED waiting
       \/ /\ Allows(k)
          /\ waiting' = [waiting EXCEPT ![s] = now]
          /\ UNCHANGED metrics
    /\ UNCHANGED <<now, marketVars>>

Finish(s, status) ==
    /\ waiting[s] >= 0
    /\ Observe("db", status, now - waiting[s])
    /\ waiting' = [waiting EXCEPT ![s] = -1]
    /\ UNCHANGED <<now, limitVars, marketVars, calls, faults>>

Clock ==
    /\ Tick
    /\ UNCHANGED <<limitVars, metrics, marketVars, waiting, calls, faults>>

Move(l) ==
    /\ LotMoves(l)
    /\ UNCHANGED <<now, limitVars, metrics, waiting, calls, faults>>

Restart ==
    /\ faults < MaxFaults /\ faults' = faults + 1
    /\ buckets' = <<>> /\ admitted' = NoneAdmitted
    /\ metrics' = <<>>
    /\ requests' = <<>>
    /\ waiting' = [s \in Slots |-> -1]
    /\ UNCHANGED <<now, lots, calls>>

Next ==
    \/ \E a \in Actors :
          \/ \E l \in DOMAIN lots, grams \in Asks : Ask(a, l, grams)
          \/ \E i \in DOMAIN requests, answer \in {"accepted", "declined"} : Answer(a, i, answer)
    \/ \E k \in Keys, s \in Slots : Start(k, s)
    \/ \E s \in Slots, status \in {200, 500} : Finish(s, status)
    \/ \E l \in DOMAIN lots : Move(l)
    \/ Clock
    \/ Restart

Spec == Init /\ [][Next]_vars

(***************************************************************************)
(* Properties of the parts together.                                       *)
(***************************************************************************)

Seen(route, status) == Metric(route, status).count

\* What the metrics say of the requests for lots is what the memory holds:
\* every 201 is one request, every 200 one request that was answered.
MetricsMatchRequests ==
    /\ Seen("ask", 201) = Len(requests)
    /\ Seen("answer", 200) = Cardinality({i \in DOMAIN requests : requests[i].status # "pending"})

\* What a client has asked for above the limit.
Excess(k) ==
    IF k \in DOMAIN buckets /\ buckets[k].count > RateMax THEN buckets[k].count - RateMax ELSE 0

\* The metrics see what the rate limit refuses: for the counters alive, at
\* least one 429 for every request above the limit.
RefusalsAreCounted ==
    RateMax > 0 => SumFunction([k \in Keys |-> Excess(k)])
                       <= Seen("ask", 429) + Seen("answer", 429) + Seen("db", 429)

\* Limit, metrics and handlers, each by itself and together.
GatewayInv ==
    /\ TypeOK
    /\ SlidingBound /\ ShareIsGiven
    /\ HistogramIsCumulative
    /\ MetricsMatchRequests /\ RefusalsAreCounted
=============================================================================
