----------------------------- MODULE GatewayProofs -----------------------------
(***************************************************************************)
(* Theorems about the gateway: the marketplace behind it by itself, and    *)
(* rate limit, metrics and marketplace together, for any clients, limits,  *)
(* windows, actors, lots and quantities, whatever restarts there are.      *)
(***************************************************************************)
EXTENDS Gateway, SequenceTheorems, FiniteSetTheorems, WellFoundedInduction, TLAPS

Lot == [farmer : Actors, grams : Nat \ {0}, accepted : BOOLEAN, band : Bands, stage : 0..3]
Request == [lot : DOMAIN Lots, requester : Actors, grams : Nat,
            status : {"pending", "accepted", "declined"}, by : SUBSET Actors]

\* createRequest refuses who has grown the lot, so that an answer by the farmer
\* is never one by the buyer.
NobodyAsksHimself ==
    \A i \in DOMAIN requests : lots[requests[i].lot].farmer # requests[i].requester

\* The lots stay the lots, and requests are for them.
MarketIInv ==
    /\ lots \in Seq(Lot) /\ DOMAIN lots = DOMAIN Lots
    /\ requests \in Seq(Request)
    /\ AskedWithinLot
    /\ NobodyAsksHimself
    /\ AnsweredBySeller

\* What a step of the gateway does to the marketplace.
MarketStep ==
    \/ \E a \in Actors, l \in DOMAIN lots, grams \in Asks : CreateRequest(a, l, grams)
    \/ \E a \in Actors, i \in DOMAIN requests, answer \in {"accepted", "declined"} :
          UpdateRequest(a, i, answer)
    \/ \E l \in DOMAIN lots : LotMoves(l)
    \/ requests' = <<>> /\ UNCHANGED lots
    \/ UNCHANGED marketVars

LEMMA StepOfMarket ==
    ASSUME [Next]_vars
    PROVE  MarketStep
<1>1. CASE \E a \in Actors, l \in DOMAIN lots, grams \in Asks : Ask(a, l, grams)
  BY <1>1 DEF Ask, MarketStep
<1>2. CASE \E a \in Actors, i \in DOMAIN requests, answer \in {"accepted", "declined"} :
              Answer(a, i, answer)
  BY <1>2 DEF Answer, MarketStep
<1>3. CASE \E k \in Keys, s \in Slots : Start(k, s)
  BY <1>3 DEF Start, MarketStep
<1>4. CASE \E s \in Slots, status \in {200, 500} : Finish(s, status)
  BY <1>4 DEF Finish, MarketStep
<1>5. CASE \E l \in DOMAIN lots : Move(l)
  BY <1>5 DEF Move, MarketStep
<1>6. CASE Clock
  BY <1>6 DEF Clock, MarketStep
<1>7. CASE Restart
  BY <1>7 DEF Restart, MarketStep
<1>8. CASE UNCHANGED vars
  BY <1>8 DEF vars, MarketStep
<1> QED
  BY <1>1, <1>2, <1>3, <1>4, <1>5, <1>6, <1>7, <1>8 DEF Next

\* Rounding to steps of ten grams adds less than ten.
LEMMA RoundedIsClose ==
    ASSUME NEW g \in Nat
    PROVE  Rounded(g) \in Nat /\ Rounded(g) < g + 10
BY DEF Rounded

LEMMA MarketInitially == Init => MarketIInv
BY MarketplaceAssumption
   DEF Init, MarketInit, MarketIInv, Lot, Request, AskedWithinLot, NobodyAsksHimself, AnsweredBySeller

LEMMA CreateKeeps ==
    ASSUME MarketIInv, NEW a \in Actors, NEW l \in DOMAIN lots, NEW grams \in Asks,
           CreateRequest(a, l, grams)
    PROVE  MarketIInv'
<1>1. CASE AskStatus(a, l, grams) # 201
  BY <1>1 DEF CreateRequest, MarketIInv, AskedWithinLot, NobodyAsksHimself, AnsweredBySeller, RequestsFor, Answers
<1>2. CASE AskStatus(a, l, grams) = 201
  <2> DEFINE new == [lot |-> l, requester |-> a, grams |-> Rounded(grams),
                     status |-> "pending", by |-> {}]
  <2>1. requests' = Append(requests, new) /\ lots' = lots
    BY <1>2 DEF CreateRequest
  <2>2. lots[l] \in Lot
    BY DEF MarketIInv
  <2>3. lots[l].grams \in Nat /\ grams \in Int
    BY <2>2, MarketplaceAssumption DEF Lot
  <2>4. /\ grams \in Nat /\ grams <= lots[l].grams /\ lots[l].grams \in Nat
        /\ lots[l].farmer # a
    BY <1>2, <2>3 DEF AskStatus
  <2>5. new \in Request /\ new.grams < lots[l].grams + 10
    <3>1. Rounded(grams) \in Nat /\ Rounded(grams) < grams + 10
      BY <2>4, RoundedIsClose
    <3>2. new.grams = Rounded(grams) /\ new \in Request
      BY <3>1 DEF MarketIInv, Request
    <3> QED
      BY <2>4, <3>1, <3>2
  <2> HIDE DEF new
  <2>6. /\ requests' \in Seq(Request)
        /\ DOMAIN requests' = 1..(Len(requests) + 1)
        /\ DOMAIN requests = 1..Len(requests) /\ Len(requests) \in Nat
        /\ requests'[Len(requests) + 1] = new
        /\ \A i \in DOMAIN requests : requests'[i] = requests[i]
    BY <2>1, <2>5 DEF MarketIInv
  <2>7. new.lot = l /\ new.by = {} /\ new.requester = a
    BY DEF new
  <2>8. AskedWithinLot'
    BY <2>1, <2>5, <2>6, <2>7 DEF MarketIInv, AskedWithinLot
  <2>9. NobodyAsksHimself'
    BY <2>1, <2>4, <2>6, <2>7 DEF MarketIInv, NobodyAsksHimself
  <2>10. AnsweredBySeller'
    <3> SUFFICES ASSUME NEW i \in DOMAIN requests', NEW b \in requests'[i].by
                 PROVE  /\ i \in RequestsFor(b)'
                        /\ requests'[i].requester = b => RoleOf[b] \in {"ADMIN", "COOPERATIVE"}
      BY DEF AnsweredBySeller
    <3>1. i \in DOMAIN requests /\ requests'[i] = requests[i]
      BY <2>6, <2>7
    <3> QED
      BY <2>1, <3>1 DEF MarketIInv, AnsweredBySeller, RequestsFor, Answers
  <2> QED
    BY <2>1, <2>6, <2>8, <2>10, <2>9 DEF MarketIInv
<1> QED
  BY <1>1, <1>2

LEMMA UpdateKeeps ==
    ASSUME MarketIInv, NEW a \in Actors, NEW i \in DOMAIN requests,
           NEW answer \in {"accepted", "declined"}, UpdateRequest(a, i, answer)
    PROVE  MarketIInv'
<1>1. CASE AnswerStatus(a, i, answer) # 200
  BY <1>1 DEF UpdateRequest, MarketIInv, AskedWithinLot, NobodyAsksHimself, AnsweredBySeller, RequestsFor, Answers
<1>2. CASE AnswerStatus(a, i, answer) = 200
  <2>1. /\ requests' = [requests EXCEPT ![i].status = answer, ![i].by = {a}]
        /\ lots' = lots
        /\ Answers(a, requests[i])
    BY <1>2 DEF UpdateRequest, AnswerStatus
  <2>2. \A j \in DOMAIN requests : requests[j] \in Request
    BY DEF MarketIInv
  <2>3. /\ DOMAIN requests' = DOMAIN requests
        /\ \A j \in DOMAIN requests :
              /\ requests'[j] \in Request
              /\ requests'[j].lot = requests[j].lot /\ requests'[j].grams = requests[j].grams
              /\ requests'[j].requester = requests[j].requester
              /\ requests'[j].by = IF j = i THEN {a} ELSE requests[j].by
    BY <2>1, <2>2 DEF Request
  <2>4. requests' \in Seq(Request)
    <3> DEFINE answered == [requests[i] EXCEPT !.status = answer, !.by = {a}]
    <3>1. requests' = [requests EXCEPT ![i] = answered]
      BY <2>1
    <3>2. answered \in Request
      BY <2>2 DEF Request
    <3>3. requests \in Seq(Request) /\ i \in 1..Len(requests)
      BY DEF MarketIInv
    <3> HIDE DEF answered
    <3> QED
      BY <3>1, <3>2, <3>3, ExceptSeq
  <2>5. AskedWithinLot'
    BY <2>1, <2>3 DEF MarketIInv, AskedWithinLot
  <2>6. NobodyAsksHimself'
    BY <2>1, <2>3 DEF MarketIInv, NobodyAsksHimself
  <2>7. AnsweredBySeller'
    <3> SUFFICES ASSUME NEW j \in DOMAIN requests, NEW b \in requests'[j].by
                 PROVE  /\ j \in RequestsFor(b)'
                        /\ requests'[j].requester = b => RoleOf[b] \in {"ADMIN", "COOPERATIVE"}
      BY <2>3 DEF AnsweredBySeller
    <3>1. CASE j = i
      <4>1. b = a
        BY <2>3, <3>1
      <4>2. Answers(a, requests[i])
        BY <2>1
      <4> QED
        BY <2>1, <2>3, <3>1, <4>1, <4>2, ZenonT(60) DEF MarketIInv, NobodyAsksHimself, RequestsFor, Answers
    <3>2. CASE j # i
      BY <2>1, <2>3, <3>2 DEF MarketIInv, AnsweredBySeller, RequestsFor, Answers
    <3> QED
      BY <3>1, <3>2
  <2> QED
    BY <2>1, <2>3, <2>4, <2>5, <2>7, <2>6 DEF MarketIInv
<1> QED
  BY <1>1, <1>2

LEMMA MoveKeeps ==
    ASSUME MarketIInv, NEW l \in DOMAIN lots, LotMoves(l)
    PROVE  MarketIInv'
<1>1. /\ lots' = [lots EXCEPT ![l].stage = @ + 1]
      /\ requests' = requests /\ lots[l].stage < 3
  BY DEF LotMoves
<1>2. \A k \in DOMAIN lots : lots[k] \in Lot
  BY DEF MarketIInv
<1>3. lots[l].stage + 1 \in 0..3
  BY <1>1, <1>2 DEF Lot
<1>4. /\ DOMAIN lots' = DOMAIN lots
      /\ \A k \in DOMAIN lots : /\ lots'[k] \in Lot
                                /\ lots'[k].farmer = lots[k].farmer
                                /\ lots'[k].grams = lots[k].grams
  BY <1>1, <1>2, <1>3 DEF Lot
<1>5. lots' \in Seq(Lot)
  <2> DEFINE moved == [lots[l] EXCEPT !.stage = @ + 1]
  <2>1. lots' = [lots EXCEPT ![l] = moved]
    BY <1>1
  <2>2. moved \in Lot
    BY <1>2, <1>3 DEF Lot
  <2>3. lots \in Seq(Lot) /\ l \in 1..Len(lots)
    BY DEF MarketIInv
  <2> HIDE DEF moved
  <2> QED
    BY <2>1, <2>2, <2>3, ExceptSeq
<1>6. \A i \in DOMAIN requests : requests[i].lot \in DOMAIN lots
  <2>1. \A i \in DOMAIN requests : requests[i] \in Request
    BY DEF MarketIInv
  <2> QED
    BY <2>1 DEF MarketIInv, Request
<1>7. AskedWithinLot'
  BY <1>1, <1>4, <1>6 DEF MarketIInv, AskedWithinLot
<1>8. NobodyAsksHimself'
  BY <1>1, <1>4, <1>6 DEF MarketIInv, NobodyAsksHimself
<1>9. AnsweredBySeller'
  BY <1>1, <1>4, <1>6 DEF MarketIInv, AnsweredBySeller, RequestsFor, Answers
<1> QED
  BY <1>1, <1>4, <1>5, <1>7, <1>8, <1>9 DEF MarketIInv

LEMMA MarketStepKeeps == MarketIInv /\ MarketStep => MarketIInv'
<1> SUFFICES ASSUME MarketIInv, MarketStep
             PROVE  MarketIInv'
  OBVIOUS
<1>1. CASE requests' = <<>> /\ UNCHANGED lots
  BY <1>1 DEF MarketIInv, AskedWithinLot, NobodyAsksHimself, AnsweredBySeller
<1>2. CASE UNCHANGED marketVars
  BY <1>2 DEF marketVars, MarketIInv, AskedWithinLot, NobodyAsksHimself, AnsweredBySeller,
              RequestsFor, Answers
<1> QED
  BY <1>1, <1>2, CreateKeeps, UpdateKeeps, MoveKeeps DEF MarketStep

\* A lot that is listed can be asked for whole by whoever may ask for it.
LEMMA ListedIsOnOffer == MarketIInv => ListedCanBeAsked
<1> SUFFICES ASSUME MarketIInv, NEW l \in Listed, NEW a \in Actors, a # lots[l].farmer
             PROVE  AskStatus(a, l, lots[l].grams) = 201
  BY DEF ListedCanBeAsked
<1>1. lots[l] \in Lot /\ lots[l].accepted /\ lots[l].band # "red"
  BY DEF MarketIInv, Listed
<1>2. lots[l].grams \in Nat \ {0}
  BY <1>1 DEF Lot
<1> QED
  BY <1>1, <1>2 DEF AskStatus

(***************************************************************************)
(* MarketplaceService: what is listed can be had, no request exceeds its   *)
(* lot by ten grams or more, and nobody answers himself but those who may  *)
(* answer all, for any number of actors, lots and requests.                *)
(***************************************************************************)
THEOREM MarketIsSound == Spec => []MarketInv
<1>1. MarketIInv /\ [Next]_vars => MarketIInv'
  BY StepOfMarket, MarketStepKeeps
<1>2. MarketIInv => MarketInv
  BY ListedIsOnOffer DEF MarketInv, MarketIInv
<1> QED
  BY <1>1, <1>2, MarketInitially, PTL DEF Spec

(***************************************************************************)
(* updateRequest: an answer is final, whatever follows short of a restart. *)
(***************************************************************************)
THEOREM AnswersAreFinal == Spec => AnsweredOnce
<1> DEFINE Final == \A i \in DOMAIN requests :
                        requests[i].status # "pending" /\ i \in DOMAIN requests' =>
                            requests'[i] = requests[i]
<1>1. MarketIInv /\ [Next]_vars => MarketIInv'
  BY StepOfMarket, MarketStepKeeps
<1>2. ASSUME MarketIInv, [Next]_vars
      PROVE  Final
  <2>1. requests \in Seq(Request)
    BY <1>2 DEF MarketIInv
  <2>2. CASE \E a \in Actors, l \in DOMAIN lots, grams \in Asks : CreateRequest(a, l, grams)
    BY <2>1, <2>2 DEF CreateRequest
  <2>3. CASE \E a \in Actors, i \in DOMAIN requests, answer \in {"accepted", "declined"} :
                UpdateRequest(a, i, answer)
    BY <2>3 DEF UpdateRequest, AnswerStatus
  <2>4. CASE \E l \in DOMAIN lots : LotMoves(l)
    BY <2>4 DEF LotMoves
  <2>5. CASE requests' = <<>> \/ UNCHANGED marketVars
    BY <2>5 DEF marketVars
  <2> QED
    BY <1>2, <2>2, <2>3, <2>4, <2>5, StepOfMarket DEF MarketStep
<1>3. MarketIInv /\ [Next]_vars => [Final]_requests
  BY <1>2
<1> QED
  BY <1>1, <1>3, MarketInitially, PTL DEF Spec, AnsweredOnce

(***************************************************************************)
(* Sums over time.  Before is recursive; what it adds up to follows from   *)
(* the first tick at which it would be wrong.                              *)
(***************************************************************************)

\* A set of numbers up to a bound has a least one: of its subsets that have
\* none, one would be smallest.
LEMMA LeastExists ==
    ASSUME NEW last \in Nat, NEW S \in SUBSET (0..last), S # {}
    PROVE  \E x \in S : \A y \in S : x <= y
<1> DEFINE T == {U \in SUBSET S : U # {} /\ ~\E x \in U : \A y \in U : x <= y}
<1> SUFFICES ASSUME T # {} PROVE FALSE
  OBVIOUS
<1>1. IsFiniteSet(S) /\ S \subseteq Int
  <2>1. IsFiniteSet(0..last) /\ 0..last \subseteq Int
    BY FS_Interval
  <2> QED
    BY <2>1, FS_Subset
<1>2. T \subseteq FiniteSubsetsOf(S)
  BY <1>1, FS_FiniteSubsetsOfFinite
<1>3. PICK U \in T : \A V \in T : <<V, U>> \notin StrictSubsetOrdering(S)
  BY <1>1, <1>2, FS_StrictSubsetOrderingWellFounded, WFMin
<1>4. PICK x \in U : TRUE
  OBVIOUS
<1>5. U \ {x} \notin T
  <2>1. <<U \ {x}, U>> \in StrictSubsetOrdering(S)
    BY DEF StrictSubsetOrdering
  <2> QED
    BY <1>3, <2>1
<1>6. CASE U \ {x} = {}
  BY <1>1, <1>6
<1>7. CASE U \ {x} # {}
  <2>1. PICK m \in U \ {x} : \A y \in U \ {x} : m <= y
    BY <1>5, <1>7
  <2>2. m \in Int /\ x \in Int
    BY <1>1
  <2>3. CASE m <= x
    BY <2>1, <2>3
  <2>4. CASE ~(m <= x)
    BY <1>1, <2>1, <2>2, <2>4
  <2> QED
    BY <2>3, <2>4
<1> QED
  BY <1>6, <1>7

\* The first number without a property.
LEMMA FirstWithout ==
    ASSUME NEW last \in Nat, NEW S \in SUBSET (0..last), 0 \in S,
           \A n \in 1..last : n - 1 \in S => n \in S
    PROVE  S = 0..last
<1> SUFFICES ASSUME (0..last) \ S # {} PROVE FALSE
  OBVIOUS
<1>1. PICK k \in (0..last) \ S : \A j \in (0..last) \ S : k <= j
  BY LeastExists
<1>2. k \in 1..last /\ k - 1 \in 0..last /\ ~(k <= k - 1)
  BY <1>1
<1> QED
  BY <1>1, <1>2

\* A function that adds up the first t of given numbers.
Adds(f, xs, last) ==
    /\ f \in [0..last -> Int] /\ f[0] = 0
    /\ \A t \in 1..last : f[t] = f[t - 1] + xs[t - 1]

LEMMA AddsExists ==
    ASSUME NEW last \in Nat, NEW xs \in [0..(last - 1) -> Int]
    PROVE  \E f : Adds(f, xs, last)
<1> DEFINE S == {t \in 0..last : \E f : Adds(f, xs, t)}
<1>1. 0 \in S
  <2>1. Adds([t \in 0..0 |-> 0], xs, 0)
    BY DEF Adds
  <2> QED
    BY <2>1
<1>2. ASSUME NEW n \in 1..last, n - 1 \in S PROVE n \in S
  <2>1. PICK f : Adds(f, xs, n - 1)
    BY <1>2
  <2>2. /\ n - 1 \in 0..(last - 1) /\ n - 1 \in 0..(n - 1) /\ xs[n - 1] \in Int
        /\ f[n - 1] \in Int
    <3>1. n - 1 \in 0..(last - 1) /\ n - 1 \in 0..(n - 1)
      OBVIOUS
    <3> QED
      BY <2>1, <3>1 DEF Adds
  <2> DEFINE g == [t \in 0..n |-> IF t = n THEN f[n - 1] + xs[n - 1] ELSE f[t]]
  <2>3. \A t \in 0..n : t # n => t \in 0..(n - 1) /\ f[t] \in Int
    BY <2>1 DEF Adds
  <2>4. g \in [0..n -> Int] /\ g[0] = 0
    BY <2>1, <2>2, <2>3 DEF Adds
  <2>5. ASSUME NEW t \in 1..n PROVE g[t] = g[t - 1] + xs[t - 1]
    <3>1. t - 1 \in 0..n /\ t - 1 # n /\ t \in 0..n
      OBVIOUS
    <3>2. CASE t = n
      BY <3>1, <3>2
    <3>3. CASE t # n
      <4>1. t \in 1..(n - 1)
        BY <3>3
      <4>2. f[t] = f[t - 1] + xs[t - 1]
        BY <2>1, <4>1 DEF Adds
      <4> QED
        BY <3>1, <3>3, <4>2
    <3> QED
      BY <3>2, <3>3
  <2> HIDE DEF g
  <2>6. Adds(g, xs, n)
    BY <2>4, <2>5 DEF Adds
  <2> QED
    BY <2>6
<1> HIDE DEF S
<1>3. S = 0..last
  <2>1. S \in SUBSET (0..last)
    BY DEF S
  <2> QED
    BY <1>1, <1>2, <2>1, FirstWithout
<1>4. last \in S
  BY <1>3
<1> QED
  BY <1>4 DEF S

LEMMA BeforeAdds ==
    ASSUME NEW ticks \in [0..MaxTime -> Nat]
    PROVE  /\ \A t \in 0..(MaxTime + 1) : Before(ticks, t) \in Nat
           /\ Before(ticks, 0) = 0
           /\ \A t \in 0..MaxTime : Before(ticks, t + 1) = Before(ticks, t) + ticks[t]
<1> DEFINE Is(sum) == sum = [s \in 0..(MaxTime + 1) |->
                                IF s = 0 THEN 0 ELSE sum[s - 1] + ticks[s - 1]]
           sums == CHOOSE sum : Is(sum)
<1>2. MaxTime \in Nat /\ MaxTime + 1 \in Nat /\ (MaxTime + 1) - 1 = MaxTime
  BY RateLimitAssumption
<1>1. PICK f : Adds(f, ticks, MaxTime + 1)
  <2>1. ticks \in [0..((MaxTime + 1) - 1) -> Int]
    BY <1>2
  <2> QED
    BY <1>2, <2>1, AddsExists
<1>3. Is(f)
  BY <1>1, <1>2 DEF Adds
<1>4. Is(sums)
  BY <1>3
<1>5. \A t : Before(ticks, t) = sums[t]
  BY DEF Before
<1> HIDE DEF sums
<1>6. sums[0] = 0 /\ \A t \in 1..(MaxTime + 1) : sums[t] = sums[t - 1] + ticks[t - 1]
  BY <1>2, <1>4
<1>7. \A t \in 0..MaxTime : sums[t + 1] = sums[t] + ticks[t]
  <2> SUFFICES ASSUME NEW t \in 0..MaxTime PROVE sums[t + 1] = sums[t] + ticks[t]
    OBVIOUS
  <2>1. t + 1 \in 1..(MaxTime + 1) /\ (t + 1) - 1 = t
    BY <1>2
  <2> QED
    BY <1>6, <2>1
<1> DEFINE S == {t \in 0..(MaxTime + 1) : sums[t] \in Nat}
<1>8. S = 0..(MaxTime + 1)
  <2>1. \A n \in 1..(MaxTime + 1) : n - 1 \in 0..MaxTime /\ ticks[n - 1] \in Nat
    BY <1>2
  <2>2. \A n \in 1..(MaxTime + 1) : n - 1 \in S => n \in S
    BY <1>2, <1>6, <2>1
  <2>3. 0 \in S /\ S \in SUBSET (0..(MaxTime + 1))
    BY <1>2, <1>6
  <2> HIDE DEF S
  <2> QED
    BY <1>2, <2>2, <2>3, FirstWithout
<1> QED
  BY <1>5, <1>6, <1>7, <1>8

\* More ticks, no less.
LEMMA BeforeGrows ==
    ASSUME NEW ticks \in [0..MaxTime -> Nat], NEW s \in 0..(MaxTime + 1),
           NEW t \in 0..(MaxTime + 1), s <= t
    PROVE  Before(ticks, s) <= Before(ticks, t)
<1> DEFINE b(u) == Before(ticks, u)
           S == {u \in 0..(MaxTime + 1) : s <= u => b(s) <= b(u)}
<1>1. MaxTime \in Nat
  BY RateLimitAssumption
<1>2. /\ \A u \in 0..(MaxTime + 1) : b(u) \in Nat
      /\ \A u \in 0..MaxTime : b(u + 1) = b(u) + ticks[u] /\ ticks[u] \in Nat
  BY BeforeAdds
<1> HIDE DEF b
<1>3. 0 \in S
  BY <1>1, <1>2
<1>4. ASSUME NEW n \in 1..(MaxTime + 1), n - 1 \in S PROVE n \in S
  <2>1. n - 1 \in 0..MaxTime /\ (n - 1) + 1 = n
    BY <1>1
  <2>2. b(n) = b(n - 1) + ticks[n - 1] /\ b(n - 1) \in Nat /\ ticks[n - 1] \in Nat
    BY <1>1, <1>2, <2>1
  <2>3. CASE s = n
    BY <1>1, <1>2, <2>3
  <2>4. CASE s # n
    BY <1>1, <1>2, <1>4, <2>2, <2>4, SMTT(60)
  <2> QED
    BY <2>3, <2>4
<1>5. S = 0..(MaxTime + 1)
  <2>1. S \in SUBSET (0..(MaxTime + 1)) /\ MaxTime + 1 \in Nat
    BY <1>1
  <2> HIDE DEF S
  <2> QED
    BY <1>3, <1>4, <2>1, FirstWithout
<1> QED
  BY <1>5 DEF b

\* One request more counts from the next tick on.
LEMMA BeforeOneMore ==
    ASSUME NEW old \in [0..MaxTime -> Nat], NEW n \in 0..MaxTime, NEW t \in 0..(MaxTime + 1)
    PROVE  LET new == [old EXCEPT ![n] = @ + 1]
           IN  Before(new, t) = IF t > n THEN Before(old, t) + 1 ELSE Before(old, t)
<1> DEFINE new == [old EXCEPT ![n] = @ + 1]
           b(u) == Before(old, u)
           c(u) == Before(new, u)
           S == {u \in 0..(MaxTime + 1) : c(u) = IF u > n THEN b(u) + 1 ELSE b(u)}
<1>1. MaxTime \in Nat
  BY RateLimitAssumption
<1>2. /\ new \in [0..MaxTime -> Nat] /\ new[n] = old[n] + 1
      /\ \A u \in 0..MaxTime : u # n => new[u] = old[u]
  OBVIOUS
<1> HIDE DEF new
<1>3. /\ \A u \in 0..(MaxTime + 1) : b(u) \in Nat /\ c(u) \in Nat
      /\ b(0) = 0 /\ c(0) = 0
      /\ \A u \in 0..MaxTime : b(u + 1) = b(u) + old[u] /\ c(u + 1) = c(u) + new[u]
  BY <1>2, BeforeAdds
<1> HIDE DEF b, c
<1>4. 0 \in S
  BY <1>1, <1>3
<1>5. ASSUME NEW m \in 1..(MaxTime + 1), m - 1 \in S PROVE m \in S
  <2>1. m - 1 \in 0..MaxTime /\ (m - 1) + 1 = m /\ m \in 0..(MaxTime + 1)
        /\ m - 1 \in 0..(MaxTime + 1)
    BY <1>1
  <2>2. /\ b(m) = b(m - 1) + old[m - 1] /\ c(m) = c(m - 1) + new[m - 1]
        /\ b(m - 1) \in Nat /\ old[m - 1] \in Nat /\ new[m - 1] \in Nat
    BY <1>2, <1>3, <2>1
  <2>3. c(m - 1) = IF m - 1 > n THEN b(m - 1) + 1 ELSE b(m - 1)
    BY <1>5
  <2>4. CASE m - 1 = n
    BY <1>2, <2>1, <2>2, <2>3, <2>4
  <2>5. CASE m - 1 < n
    BY <1>2, <2>1, <2>2, <2>3, <2>5
  <2>6. CASE m - 1 > n
    BY <1>2, <2>1, <2>2, <2>3, <2>6
  <2> QED
    BY <1>1, <2>1, <2>4, <2>5, <2>6
<1>6. S = 0..(MaxTime + 1)
  <2>1. S \in SUBSET (0..(MaxTime + 1)) /\ MaxTime + 1 \in Nat
    BY <1>1
  <2> HIDE DEF S
  <2> QED
    BY <1>4, <1>5, <2>1, FirstWithout
<1> QED
  BY <1>6 DEF b, c, new

\* Nothing is added after the last request.
LEMMA BeforeStops ==
    ASSUME NEW ticks \in [0..MaxTime -> Nat], NEW n \in 0..(MaxTime + 1),
           \A t \in 0..MaxTime : t >= n => ticks[t] = 0,
           NEW t \in 0..(MaxTime + 1), t >= n
    PROVE  Before(ticks, t) = Before(ticks, n)
<1> DEFINE b(u) == Before(ticks, u)
           S == {u \in 0..(MaxTime + 1) : u >= n => b(u) = b(n)}
<1>1. MaxTime \in Nat
  BY RateLimitAssumption
<1>2. /\ \A u \in 0..(MaxTime + 1) : b(u) \in Nat
      /\ \A u \in 0..MaxTime : b(u + 1) = b(u) + ticks[u]
  BY BeforeAdds
<1> HIDE DEF b
<1>3. 0 \in S
  BY <1>1
<1>4. ASSUME NEW m \in 1..(MaxTime + 1), m - 1 \in S PROVE m \in S
  <2>1. m - 1 \in 0..MaxTime /\ (m - 1) + 1 = m
    BY <1>1
  <2>2. b(m) = b(m - 1) + ticks[m - 1] /\ b(m - 1) \in Nat
    BY <1>1, <1>2, <2>1
  <2>3. CASE m = n
    BY <1>1, <2>3
  <2>4. CASE m < n
    BY <1>1, <2>4
  <2>5. CASE m > n
    <3>1. ticks[m - 1] = 0 /\ b(m - 1) = b(n)
      BY <1>1, <1>4, <2>1, <2>5
    <3> QED
      BY <2>2, <3>1
  <2> QED
    BY <1>1, <2>3, <2>4, <2>5
<1>5. S = 0..(MaxTime + 1)
  <2>1. S \in SUBSET (0..(MaxTime + 1)) /\ MaxTime + 1 \in Nat
    BY <1>1
  <2> HIDE DEF S
  <2> QED
    BY <1>3, <1>4, <2>1, FirstWithout
<1> QED
  BY <1>5 DEF b

(***************************************************************************)
(* RateLimitInterceptor, one client at a time: a is what was let through   *)
(* by tick, n the time, and a counter that is alive began at w and has c.  *)
(***************************************************************************)

Ticks == [0..MaxTime -> Nat]

\* A window that ends with t begins here at the earliest.
Back(t) == IF t >= Window THEN t - Window + 1 ELSE 0

\* The tick after the window that begins with t.
End(t) == IF t + Window - 1 < MaxTime THEN t + Window ELSE MaxTime + 1

Share(c) == IF c < RateMax THEN c ELSE RateMax

\* Within a window before a counter began, or before now when none is alive,
\* less than the limit was let through: the request that began the counter
\* before is not in it.
LimitHolds(a, n, live, w, c) ==
    /\ \A t \in 0..MaxTime : t > n => a[t] = 0
    /\ live => /\ w \in 0..n /\ n < w + Window
               /\ a[w] >= 1
               /\ Before(a, n + 1) - Before(a, w) = Share(c)
               /\ Before(a, w) - Before(a, Back(w)) < RateMax
    /\ ~live => /\ Before(a, n + 1) - Before(a, Back(n)) < RateMax
                /\ Window > 0 => a[n] = 0
    /\ \A t \in 0..MaxTime : Before(a, End(t)) - Before(a, t) < 2 * RateMax

LEMMA Params ==
    /\ MaxTime \in Nat /\ Window \in Nat /\ RateMax \in Nat
    /\ \A t \in 0..MaxTime : /\ Back(t) \in 0..(MaxTime + 1) /\ End(t) \in 0..(MaxTime + 1)
                             /\ Back(t) <= t + 1 /\ t <= End(t)
<1>1. MaxTime \in Nat /\ Window \in Nat /\ RateMax \in Nat
  BY RateLimitAssumption
<1>2. ASSUME NEW t \in 0..MaxTime
      PROVE  Back(t) \in 0..(MaxTime + 1) /\ Back(t) <= t + 1
  BY <1>1 DEF Back
<1>3. ASSUME NEW t \in 0..MaxTime
      PROVE  End(t) \in 0..(MaxTime + 1) /\ t <= End(t)
  BY <1>1 DEF End
<1> QED
  BY <1>1, <1>2, <1>3

\* Nothing let through: any client after a start.
LEMMA NothingHolds ==
    ASSUME RateMax > 0, NEW n \in 0..MaxTime, NEW w, NEW c
    PROVE  LimitHolds([t \in 0..MaxTime |-> 0], n, FALSE, w, c)
<1> DEFINE a == [t \in 0..MaxTime |-> 0]
<1>1. a \in Ticks /\ \A t \in 0..MaxTime : a[t] = 0
  BY DEF Ticks
<1> HIDE DEF a
<1>2. \A t \in 0..(MaxTime + 1) : Before(a, t) = 0
  <2>1. Before(a, 0) = 0 /\ 0 \in 0..(MaxTime + 1)
    <3>1. Before(a, 0) = 0
      BY <1>1, BeforeAdds DEF Ticks
    <3> QED
      BY <3>1, Params
  <2> SUFFICES ASSUME NEW t \in 0..(MaxTime + 1) PROVE Before(a, t) = 0
    OBVIOUS
  <2>2. t >= 0
    BY Params
  <2>3. Before(a, t) = Before(a, 0)
    BY <1>1, <2>1, <2>2, BeforeStops DEF Ticks
  <2> QED
    BY <2>1, <2>3
<1>3. n + 1 \in 0..(MaxTime + 1) /\ \A t \in 0..MaxTime : t \in 0..(MaxTime + 1)
  BY Params
<1>4. LimitHolds(a, n, FALSE, w, c)
  BY <1>1, <1>2, <1>3, Params DEF LimitHolds
<1> QED
  BY <1>4 DEF a

\* The clock goes on.
LEMMA HoldsAtNextTick ==
    ASSUME RateMax > 0, NEW a \in Ticks, NEW n \in 0..MaxTime, n < MaxTime,
           NEW live \in BOOLEAN, NEW w \in Int, NEW c \in Nat, LimitHolds(a, n, live, w, c)
    PROVE  LimitHolds(a, n + 1, live /\ w + Window > n + 1, w, c)
<1> DEFINE b(u) == Before(a, u)
<1>1. /\ \A u \in 0..(MaxTime + 1) : b(u) \in Nat
      /\ \A u \in 0..MaxTime : b(u + 1) = b(u) + a[u]
      /\ \A u \in 0..MaxTime : a[u] \in Nat
  BY BeforeAdds DEF Ticks
<1>2. ASSUME NEW s \in 0..(MaxTime + 1), NEW t \in 0..(MaxTime + 1), s <= t
      PROVE  b(s) <= b(t)
  BY <1>2, BeforeGrows DEF Ticks
<1>3. /\ \A t \in 0..MaxTime : t > n => a[t] = 0
      /\ live => /\ w \in 0..n /\ n < w + Window
                 /\ a[w] >= 1
                 /\ b(n + 1) - b(w) = Share(c)
                 /\ b(w) - b(Back(w)) < RateMax
      /\ ~live => b(n + 1) - b(Back(n)) < RateMax
      /\ \A t \in 0..MaxTime : b(End(t)) - b(t) < 2 * RateMax
  BY DEF LimitHolds
<1> HIDE DEF b
<1>4. /\ n + 1 \in 0..MaxTime /\ n + 1 \in 0..(MaxTime + 1) /\ n + 2 \in 0..(MaxTime + 1)
      /\ (n + 1) + 1 = n + 2
  BY Params
<1>5. a[n + 1] = 0 /\ b(n + 2) = b(n + 1) /\ \A t \in 0..MaxTime : t > n + 1 => a[t] = 0
  BY <1>1, <1>3, <1>4, Params
<1>6. CASE live /\ w + Window > n + 1
  <2>1. /\ w \in 0..(n + 1) /\ n + 1 < w + Window /\ a[w] >= 1
        /\ b(n + 2) - b(w) = Share(c) /\ b(w) - b(Back(w)) < RateMax
    BY <1>3, <1>4, <1>5, <1>6, Params
  <2> QED
    BY <1>3, <1>4, <1>5, <1>6, <2>1 DEF LimitHolds, b
<1>7. CASE ~(live /\ w + Window > n + 1)
  <2>1. b(n + 2) - b(Back(n + 1)) < RateMax
    <3>1. CASE live
      <4>1. w \in 0..MaxTime /\ Back(n + 1) = w + 1
        BY <1>3, <1>7, <3>1, Params DEF Back
      <4>2. b(w + 1) = b(w) + a[w] /\ b(w) \in Nat /\ a[w] \in Nat /\ a[w] >= 1
        BY <1>1, <1>3, <3>1, <4>1, Params
      <4>3. b(n + 1) - b(w) <= RateMax
        BY <1>3, <3>1, Params DEF Share
      <4> QED
        BY <1>1, <1>4, <1>5, <4>1, <4>2, <4>3, Params
    <3>2. CASE ~live
      <4>1. /\ Back(n) <= Back(n + 1) /\ Back(n) \in 0..(MaxTime + 1)
            /\ Back(n + 1) \in 0..(MaxTime + 1)
        <5>1. Back(n) <= Back(n + 1)
          BY Params DEF Back
        <5> QED
          BY <1>4, <5>1, Params
      <4>2. b(Back(n)) <= b(Back(n + 1)) /\ b(Back(n)) \in Nat /\ b(Back(n + 1)) \in Nat
        BY <1>1, <1>2, <4>1
      <4>3. b(n + 1) \in Nat /\ RateMax \in Nat
        BY <1>1, <1>4, Params
      <4> QED
        BY <1>3, <1>5, <3>2, <4>2, <4>3
    <3> QED
      BY <3>1, <3>2
  <2> QED
    BY <1>3, <1>4, <1>5, <1>7, <2>1 DEF LimitHolds, b
<1> QED
  BY <1>6, <1>7

\* One request more is within every window, when the windows around now had
\* room for it.
LEMMA OneMoreFits ==
    ASSUME RateMax > 0, NEW a \in Ticks, NEW n \in 0..MaxTime,
           \A t \in 0..MaxTime : t > n => a[t] = 0,
           \A t \in 0..MaxTime : Before(a, End(t)) - Before(a, t) < 2 * RateMax,
           \A t \in Back(n)..n : Before(a, n + 1) - Before(a, t) < 2 * RateMax - 1,
           NEW t \in 0..MaxTime
    PROVE  LET new == [a EXCEPT ![n] = @ + 1]
           IN  Before(new, End(t)) - Before(new, t) < 2 * RateMax
<1> DEFINE new == [a EXCEPT ![n] = @ + 1]
           b(u) == Before(a, u)
           c(u) == Before(new, u)
<1>1. \A u \in 0..(MaxTime + 1) : c(u) = IF u > n THEN b(u) + 1 ELSE b(u)
  BY BeforeOneMore DEF Ticks
<1>2. \A u \in 0..(MaxTime + 1) : b(u) \in Nat
  BY BeforeAdds DEF Ticks
<1>3. ASSUME NEW u \in 0..(MaxTime + 1), u >= n + 1 PROVE b(u) = b(n + 1)
  <2>1. n + 1 \in 0..(MaxTime + 1) /\ \A s \in 0..MaxTime : s >= n + 1 => a[s] = 0
    BY Params
  <2> QED
    BY <1>3, <2>1, BeforeStops DEF Ticks
<1>4. b(End(t)) - b(t) < 2 * RateMax /\ \A s \in Back(n)..n : b(n + 1) - b(s) < 2 * RateMax - 1
  OBVIOUS
<1> SUFFICES c(End(t)) - c(t) < 2 * RateMax
  BY DEF c, new
<1> HIDE DEF new, b, c
<1>5. /\ t \in 0..(MaxTime + 1) /\ End(t) \in 0..(MaxTime + 1) /\ t <= End(t)
      /\ n + 1 \in 0..(MaxTime + 1) /\ RateMax \in Nat
  BY Params
<1>6. b(t) \in Nat /\ b(End(t)) \in Nat /\ b(n + 1) \in Nat
  BY <1>2, <1>5
<1>7. CASE t > n \/ End(t) <= n
  BY <1>1, <1>4, <1>5, <1>6, <1>7
<1>8. CASE t <= n /\ End(t) > n
  <2>1. t \in Back(n)..n
    BY <1>8, Params DEF Back, End
  <2>2. b(End(t)) = b(n + 1)
    BY <1>3, <1>5, <1>8
  <2>3. b(n + 1) - b(t) < 2 * RateMax - 1
    BY <1>4, <2>1
  <2>4. c(End(t)) = b(n + 1) + 1 /\ c(t) = b(t)
    BY <1>1, <1>5, <1>8, <2>2
  <2> QED
    BY <1>5, <1>6, <2>3, <2>4
<1> QED
  BY <1>5, <1>7, <1>8

\* A request that is let through by a counter that is alive.
LEMMA AdmittedHolds ==
    ASSUME RateMax > 0, NEW a \in Ticks, NEW n \in 0..MaxTime, NEW w \in Int, NEW c \in Nat,
           LimitHolds(a, n, TRUE, w, c), c < RateMax
    PROVE  LimitHolds([a EXCEPT ![n] = @ + 1], n, TRUE, w, c + 1)
<1> DEFINE new == [a EXCEPT ![n] = @ + 1]
           b(u) == Before(a, u)
           d(u) == Before(new, u)
<1>1. \A u \in 0..(MaxTime + 1) : d(u) = IF u > n THEN b(u) + 1 ELSE b(u)
  BY BeforeOneMore DEF Ticks
<1>2. \A u \in 0..(MaxTime + 1) : b(u) \in Nat
  BY BeforeAdds DEF Ticks
<1>3. ASSUME NEW s \in 0..(MaxTime + 1), NEW t \in 0..(MaxTime + 1), s <= t
      PROVE  b(s) <= b(t)
  BY <1>3, BeforeGrows DEF Ticks
<1>4. /\ w \in 0..n /\ n < w + Window /\ a[w] >= 1
      /\ b(n + 1) - b(w) = c
      /\ b(w) - b(Back(w)) < RateMax
  BY DEF LimitHolds, Share
<1>5. \A t \in 0..MaxTime : t > n => a[t] = 0
  BY DEF LimitHolds
<1> HIDE DEF b, d
<1>6. /\ w \in 0..MaxTime /\ w \in 0..(MaxTime + 1) /\ n + 1 \in 0..(MaxTime + 1)
      /\ Back(w) \in 0..(MaxTime + 1) /\ Back(w) <= w + 1 /\ RateMax \in Nat
      /\ Back(n) \in 0..(MaxTime + 1)
  BY <1>4, Params
<1>7. b(w) \in Nat /\ b(n + 1) \in Nat /\ b(Back(w)) \in Nat
  BY <1>2, <1>6
<1>8. ASSUME NEW t \in Back(n)..n PROVE b(n + 1) - b(t) < 2 * RateMax - 1
  <2>1. t \in 0..(MaxTime + 1) /\ b(t) \in Nat /\ t >= Back(w)
    <3>1. t \in 0..(MaxTime + 1)
      BY <1>6, Params
    <3>2. t >= Back(w)
      BY <1>4, <1>6, Params DEF Back
    <3> QED
      BY <1>2, <3>1, <3>2
  <2>2. b(t) >= b(Back(w))
    BY <1>3, <1>6, <2>1
  <2>3. b(n + 1) = b(w) + c
    BY <1>4, <1>7
  <2> QED
    BY <1>4, <1>6, <1>7, <2>1, <2>2, <2>3
<1>9. \A t \in 0..MaxTime : d(End(t)) - d(t) < 2 * RateMax
  <2>1. \A t \in Back(n)..n : Before(a, n + 1) - Before(a, t) < 2 * RateMax - 1
    BY <1>8 DEF b
  <2>2. \A t \in 0..MaxTime : Before(a, End(t)) - Before(a, t) < 2 * RateMax
    BY DEF LimitHolds
  <2> QED
    BY <1>5, <2>1, <2>2, OneMoreFits DEF d
<1>10. new \in Ticks /\ new[w] >= 1 /\ \A t \in 0..MaxTime : t > n => new[t] = 0
  <2>1. \A t \in 0..MaxTime : a[t] \in Nat /\ n \in 0..MaxTime
    BY DEF Ticks
  <2>2. new \in Ticks /\ \A t \in 0..MaxTime : new[t] = IF t = n THEN a[n] + 1 ELSE a[t]
    BY <2>1 DEF Ticks
  <2> HIDE DEF new
  <2>3. new[w] >= 1
    BY <1>4, <1>6, <2>1, <2>2
  <2>4. \A t \in 0..MaxTime : t > n => new[t] = 0
    BY <1>5, <2>2, Params
  <2> QED
    BY <2>2, <2>3, <2>4
<1>11. d(n + 1) - d(w) = Share(c + 1) /\ d(w) - d(Back(w)) < RateMax
  <2>1. d(n + 1) = b(n + 1) + 1 /\ d(w) = b(w)
    BY <1>1, <1>4, <1>6, Params
  <2>2. d(n + 1) - d(w) = c + 1 /\ Share(c + 1) = c + 1
    BY <1>4, <1>6, <1>7, <2>1 DEF Share
  <2>3. d(Back(w)) >= b(Back(w))
    BY <1>1, <1>6, <1>7
  <2>4. d(Back(w)) \in Nat
    BY <1>1, <1>6, <1>7
  <2> QED
    BY <1>4, <1>6, <1>7, <2>1, <2>2, <2>3, <2>4
<1> HIDE DEF new
<1>12. LimitHolds(new, n, TRUE, w, c + 1)
  BY <1>4, <1>9, <1>10, <1>11 DEF LimitHolds, d
<1> QED
  BY <1>12 DEF new

\* A request that finds no counter begins one.
LEMMA OpenedHolds ==
    ASSUME RateMax > 0, NEW a \in Ticks, NEW n \in 0..MaxTime, NEW w, NEW c,
           LimitHolds(a, n, FALSE, w, c)
    PROVE  LimitHolds([a EXCEPT ![n] = @ + 1], n, Window > 0, n, 1)
<1> DEFINE new == [a EXCEPT ![n] = @ + 1]
           b(u) == Before(a, u)
           d(u) == Before(new, u)
<1>1. \A u \in 0..(MaxTime + 1) : d(u) = IF u > n THEN b(u) + 1 ELSE b(u)
  BY BeforeOneMore DEF Ticks
<1>2. /\ \A u \in 0..(MaxTime + 1) : b(u) \in Nat
      /\ \A u \in 0..MaxTime : b(u + 1) = b(u) + a[u]
  BY BeforeAdds DEF Ticks
<1>3. ASSUME NEW s \in 0..(MaxTime + 1), NEW t \in 0..(MaxTime + 1), s <= t
      PROVE  b(s) <= b(t)
  BY <1>3, BeforeGrows DEF Ticks
<1>4. /\ b(n + 1) - b(Back(n)) < RateMax /\ (Window > 0 => a[n] = 0)
      /\ \A t \in 0..MaxTime : t > n => a[t] = 0
  BY DEF LimitHolds
<1> HIDE DEF b, d
<1>5. /\ n \in 0..(MaxTime + 1) /\ n + 1 \in 0..(MaxTime + 1)
      /\ Back(n) \in 0..(MaxTime + 1) /\ Back(n) <= n + 1 /\ RateMax \in Nat /\ Window \in Nat
  BY Params
<1>6. b(n) \in Nat /\ b(n + 1) \in Nat /\ b(Back(n)) \in Nat /\ b(n + 1) = b(n) + a[n]
  BY <1>2, <1>5
<1>7. ASSUME NEW t \in Back(n)..n PROVE b(n + 1) - b(t) < 2 * RateMax - 1
  <2>1. t \in 0..(MaxTime + 1) /\ t >= Back(n)
    BY <1>5, Params
  <2>2. b(t) \in Nat /\ b(t) >= b(Back(n))
    BY <1>2, <1>3, <1>5, <2>1
  <2> QED
    BY <1>4, <1>5, <1>6, <2>2
<1>8. \A t \in 0..MaxTime : d(End(t)) - d(t) < 2 * RateMax
  <2>1. \A t \in Back(n)..n : Before(a, n + 1) - Before(a, t) < 2 * RateMax - 1
    BY <1>7 DEF b
  <2>2. \A t \in 0..MaxTime : Before(a, End(t)) - Before(a, t) < 2 * RateMax
    BY DEF LimitHolds
  <2> QED
    BY <1>4, <2>1, <2>2, OneMoreFits DEF d
<1>9. new \in Ticks /\ new[n] >= 1 /\ \A t \in 0..MaxTime : t > n => new[t] = 0
  <2>1. \A t \in 0..MaxTime : a[t] \in Nat
    BY DEF Ticks
  <2>2. new \in Ticks /\ \A t \in 0..MaxTime : new[t] = IF t = n THEN a[n] + 1 ELSE a[t]
    BY <2>1 DEF Ticks
  <2> HIDE DEF new
  <2>3. new[n] >= 1
    BY <2>1, <2>2
  <2> QED
    BY <1>4, <2>2, <2>3, Params
<1>10. d(n + 1) = b(n + 1) + 1 /\ d(n) = b(n)
  BY <1>1, <1>5, Params
<1>11. CASE Window > 0
  <2>1. d(n + 1) - d(n) = Share(1)
    BY <1>4, <1>5, <1>6, <1>10, <1>11 DEF Share
  <2>2. d(n) - d(Back(n)) < RateMax
    <3>1. Back(n) <= n
      BY <1>11, Params DEF Back
    <3>2. d(Back(n)) = b(Back(n))
      BY <1>1, <1>5, <3>1, Params
    <3>3. b(n + 1) = b(n)
      BY <1>4, <1>6, <1>11
    <3> QED
      BY <1>4, <1>10, <3>2, <3>3
  <2>3. n \in 0..n /\ n < n + Window
    BY <1>5, <1>11, Params
  <2> HIDE DEF new
  <2>4. LimitHolds(new, n, TRUE, n, 1)
    BY <1>8, <1>9, <2>1, <2>2, <2>3 DEF LimitHolds, d
  <2> QED
    BY <1>11, <2>4 DEF new
<1>12. CASE ~(Window > 0)
  <2>1. Back(n) = n + 1
    BY <1>5, <1>12, Params DEF Back
  <2>2. d(n + 1) - d(Back(n)) < RateMax
    BY <1>5, <1>6, <1>10, <2>1
  <2> HIDE DEF new
  <2>3. LimitHolds(new, n, FALSE, n, 1)
    BY <1>8, <1>9, <1>12, <2>2 DEF LimitHolds, d
  <2>4. (Window > 0) = FALSE
    BY <1>12
  <2> QED
    BY <2>3, <2>4 DEF new
<1> QED
  BY <1>11, <1>12

(***************************************************************************)
(* RateLimitInterceptor, all clients.                                      *)
(***************************************************************************)

Counter == [count : Nat \ {0}, resetAt : Window..(MaxTime + Window)]

Alive(k) == k \in DOMAIN buckets /\ buckets[k].resetAt > now

ClientHolds(k) ==
    /\ Alive(k) => LimitHolds(admitted[k], now, TRUE, buckets[k].resetAt - Window,
                              buckets[k].count)
    /\ ~Alive(k) => LimitHolds(admitted[k], now, FALSE, 0, 0)

\* Without a limit nothing is counted; with one every client keeps to it.
LimitIInv ==
    /\ LimitTypeOK
    /\ RateMax = 0 => DOMAIN buckets = {}
    /\ RateMax > 0 => \A k \in Keys : ClientHolds(k)

\* What a step of the gateway does to the limit.
LimitStep ==
    \/ Tick /\ UNCHANGED limitVars
    \/ now' = now /\ \E k \in Keys : Limit(k)
    \/ now' = now /\ buckets' = <<>> /\ admitted' = NoneAdmitted
    \/ UNCHANGED <<now, limitVars>>

LEMMA StepOfLimit ==
    ASSUME [Next]_vars
    PROVE  LimitStep
<1>1. CASE \E a \in Actors, l \in DOMAIN lots, grams \in Asks : Ask(a, l, grams)
  BY <1>1, GatewayAssumption DEF Ask, LimitStep
<1>2. CASE \E a \in Actors, i \in DOMAIN requests, answer \in {"accepted", "declined"} :
              Answer(a, i, answer)
  BY <1>2, GatewayAssumption DEF Answer, LimitStep
<1>3. CASE \E k \in Keys, s \in Slots : Start(k, s)
  BY <1>3 DEF Start, LimitStep
<1>4. CASE \E s \in Slots, status \in {200, 500} : Finish(s, status)
  BY <1>4 DEF Finish, LimitStep
<1>5. CASE \E l \in DOMAIN lots : Move(l)
  BY <1>5 DEF Move, LimitStep
<1>6. CASE Clock
  BY <1>6 DEF Clock, LimitStep
<1>7. CASE Restart
  BY <1>7 DEF Restart, LimitStep
<1>8. CASE UNCHANGED vars
  BY <1>8 DEF vars, LimitStep
<1> QED
  BY <1>1, <1>2, <1>3, <1>4, <1>5, <1>6, <1>7, <1>8 DEF Next

LEMMA CountersTyped ==
    ASSUME LimitTypeOK
    PROVE  /\ now \in 0..MaxTime /\ DOMAIN buckets \in SUBSET Keys
           /\ buckets \in [DOMAIN buckets -> Counter]
           /\ \A k \in DOMAIN buckets : /\ buckets[k] \in Counter
                                        /\ buckets[k].count \in Nat \ {0}
                                        /\ buckets[k].resetAt \in Int
           /\ admitted \in [Keys -> Ticks]
<1>1. PICK D \in SUBSET Keys : buckets \in [D -> Counter]
  BY DEF LimitTypeOK, Counter
<1>2. DOMAIN buckets = D /\ \A k \in D : buckets[k] \in Counter
  BY <1>1
<1>3. \A x \in Counter : x.count \in Nat \ {0} /\ x.resetAt \in Int
  BY Params DEF Counter
<1> QED
  BY <1>1, <1>2, <1>3 DEF LimitTypeOK, Ticks

LEMMA EmptyLimit ==
    ASSUME NEW B, B = <<>>
    PROVE  DOMAIN B = {} /\ \E D \in SUBSET Keys : B \in [D -> Counter]
<1>1. DOMAIN B = {}
  OBVIOUS
<1>2. B \in [{} -> Counter]
  BY <1>1
<1> QED
  BY <1>1, <1>2

LEMMA NoneTyped == NoneAdmitted \in [Keys -> Ticks]
  BY DEF NoneAdmitted, Ticks

LEMMA LimitInitially == Init => LimitIInv
<1> SUFFICES ASSUME Init PROVE LimitIInv
  OBVIOUS
<1>1. now = 0 /\ buckets = <<>> /\ admitted = NoneAdmitted
  BY DEF Init, LimitInit
<1>2. 0 \in 0..MaxTime
  BY Params
<1>3. LimitTypeOK
  BY <1>1, <1>2, EmptyLimit, NoneTyped DEF LimitTypeOK, Counter, Ticks
<1>4. ASSUME RateMax > 0, NEW k \in Keys PROVE ClientHolds(k)
  <2>1. ~Alive(k)
    BY <1>1, EmptyLimit DEF Alive
  <2>2. LimitHolds(admitted[k], now, FALSE, 0, 0)
    BY <1>1, <1>2, <1>4, NothingHolds DEF NoneAdmitted
  <2> QED
    BY <2>1, <2>2 DEF ClientHolds
<1> QED
  BY <1>1, <1>3, <1>4, EmptyLimit DEF LimitIInv

LEMMA RestartKeepsLimit ==
    ASSUME LimitIInv, now' = now, buckets' = <<>>, admitted' = NoneAdmitted
    PROVE  LimitIInv'
<1>1. now' \in 0..MaxTime
  BY DEF LimitIInv, LimitTypeOK
<1>2. LimitTypeOK'
  BY <1>1, EmptyLimit, NoneTyped DEF LimitTypeOK, Counter, Ticks
<1>3. DOMAIN buckets' = {}
  BY EmptyLimit
<1>4. ASSUME RateMax > 0, NEW k \in Keys PROVE ClientHolds(k)'
  <2>1. ~Alive(k)'
    BY <1>3 DEF Alive
  <2>2. LimitHolds(admitted'[k], now', FALSE, 0, 0)
    BY <1>1, <1>4, NothingHolds DEF NoneAdmitted
  <2> QED
    BY <2>1, <2>2 DEF ClientHolds
<1> QED
  BY <1>2, <1>3, <1>4 DEF LimitIInv

LEMMA TickKeepsLimit ==
    ASSUME LimitIInv, Tick, UNCHANGED limitVars
    PROVE  LimitIInv'
<1>1. now < MaxTime /\ now' = now + 1 /\ buckets' = buckets /\ admitted' = admitted
  BY DEF Tick, limitVars
<1>2. now \in 0..MaxTime /\ now + 1 \in 0..MaxTime
  BY <1>1, CountersTyped, Params DEF LimitIInv
<1>3. LimitTypeOK'
  BY <1>1, <1>2 DEF LimitIInv, LimitTypeOK
<1>4. ASSUME RateMax > 0, NEW k \in Keys PROVE ClientHolds(k)'
  <2>1. admitted[k] \in Ticks /\ ClientHolds(k)
    BY <1>4, CountersTyped DEF LimitIInv
  <2>2. CASE Alive(k)
    <3> DEFINE w == buckets[k].resetAt - Window
               c == buckets[k].count
    <3>1. w \in Int /\ c \in Nat /\ buckets[k].resetAt \in Int
      BY <2>2, CountersTyped, Params, SMTT(60) DEF LimitIInv, Alive
    <3>2. LimitHolds(admitted[k], now, TRUE, w, c)
      BY <2>1, <2>2 DEF ClientHolds
    <3>3. w + Window > now + 1 <=> buckets[k].resetAt > now + 1
      BY <1>2, <3>1, Params
    <3> HIDE DEF w, c
    <3>4. LimitHolds(admitted[k], now + 1, TRUE /\ w + Window > now + 1, w, c)
      BY <1>1, <1>2, <1>4, <2>1, <3>1, <3>2, HoldsAtNextTick
    <3>5. CASE Alive(k)'
      <4>1. (TRUE /\ w + Window > now + 1) = TRUE
        BY <1>1, <3>3, <3>5 DEF Alive
      <4>2. LimitHolds(admitted[k], now + 1, TRUE, w, c)
        BY <3>4, <4>1
      <4> QED
        BY <1>1, <3>5, <4>2 DEF ClientHolds, w, c
    <3>6. CASE ~Alive(k)'
      <4>1. (TRUE /\ w + Window > now + 1) = FALSE
        BY <1>1, <2>2, <3>3, <3>6 DEF Alive
      <4>2. LimitHolds(admitted[k], now + 1, FALSE, w, c)
        BY <3>4, <4>1
      <4>3. LimitHolds(admitted[k], now + 1, FALSE, 0, 0)
        BY <4>2 DEF LimitHolds
      <4> QED
        BY <1>1, <3>6, <4>3 DEF ClientHolds
    <3> QED
      BY <3>5, <3>6
  <2>3. CASE ~Alive(k)
    <3>1. LimitHolds(admitted[k], now, FALSE, 0, 0)
      BY <2>1, <2>3 DEF ClientHolds
    <3>2. LimitHolds(admitted[k], now + 1, FALSE, 0, 0)
      <4>1. PICK live \in BOOLEAN : live = FALSE
        OBVIOUS
      <4>2. PICK w \in Nat : w = 0
        OBVIOUS
      <4>3. LimitHolds(admitted[k], now, live, w, w)
        BY <3>1, <4>1, <4>2
      <4>4. LimitHolds(admitted[k], now + 1, live /\ w + Window > now + 1, w, w)
        BY <1>1, <1>2, <1>4, <2>1, <4>3, HoldsAtNextTick
      <4>5. (live /\ w + Window > now + 1) = FALSE
        BY <4>1
      <4> QED
        BY <4>2, <4>4, <4>5
    <3>4. ~Alive(k)'
      <4>1. k \in DOMAIN buckets => buckets[k].resetAt \in Int
        BY CountersTyped DEF LimitIInv
      <4> QED
        BY <1>1, <1>2, <2>3, <4>1, Params DEF Alive
    <3> QED
      BY <1>1, <3>2, <3>4 DEF ClientHolds
  <2> QED
    BY <2>2, <2>3
<1> QED
  BY <1>1, <1>3, <1>4 DEF LimitIInv

\* What a request does to the counters: its own is counted, the others that
\* are alive stay.
LEMMA LimitCounts ==
    ASSUME LimitIInv, RateMax > 0, NEW k \in Keys, Limit(k), now' = now
    PROVE  /\ \E D \in SUBSET Keys : buckets' \in [D -> Counter]
           /\ \A j \in Keys \ {k} :
                  /\ Alive(j)' <=> Alive(j)
                  /\ Alive(j) => buckets'[j] = buckets[j]
           /\ Alive(k)' <=> Bucket(k).resetAt > now
           /\ Alive(k)' => /\ buckets'[k].count = Bucket(k).count + 1
                           /\ buckets'[k].resetAt = Bucket(k).resetAt
<1> DEFINE b == Bucket(k)
           next == Counted(k)
<1>1. /\ now \in 0..MaxTime /\ DOMAIN buckets \in SUBSET Keys
      /\ \A j \in DOMAIN buckets : /\ buckets[j] \in Counter
                                   /\ buckets[j].count \in Nat \ {0}
                                   /\ buckets[j].resetAt \in Int
  BY CountersTyped DEF LimitIInv
<1>2. /\ b.count \in Nat /\ b.resetAt \in Window..(MaxTime + Window)
      /\ b = [count |-> b.count, resetAt |-> b.resetAt]
  <2>1. CASE k \in DOMAIN buckets /\ buckets[k].resetAt > now
    BY <1>1, <2>1 DEF Bucket, Counter
  <2>2. CASE ~(k \in DOMAIN buckets /\ buckets[k].resetAt > now)
    <3>1. now + Window \in Window..(MaxTime + Window)
      BY <1>1, Params
    <3> QED
      BY <2>2, <3>1 DEF Bucket
  <2> QED
    BY <2>1, <2>2
<1> HIDE DEF b
<1>3. /\ DOMAIN next = DOMAIN buckets \cup {k} /\ DOMAIN next \in SUBSET Keys
      /\ next[k] = [count |-> b.count + 1, resetAt |-> b.resetAt]
      /\ \A j \in DOMAIN buckets : j # k => next[j] = buckets[j]
  BY <1>1, <1>2 DEF Counted, b
<1>4. next \in [DOMAIN next -> Counter]
  <2>1. next[k] \in Counter
    BY <1>2, <1>3 DEF Counter
  <2>2. \A j \in DOMAIN next : next[j] \in Counter
    BY <1>1, <1>3, <2>1
  <2>3. next = [j \in DOMAIN next |-> next[j]]
    BY DEF Counted
  <2> HIDE DEF next
  <2> QED
    BY <2>2, <2>3
<1>5. buckets' = next \/ buckets' = RemoveExpired(next)
  BY Params DEF Limit
<1> HIDE DEF next
<1>6. /\ \E D \in SUBSET Keys : buckets' \in [D -> Counter]
      /\ \A j \in Keys : j \in DOMAIN buckets' /\ buckets'[j].resetAt > now
                             <=> j \in DOMAIN next /\ next[j].resetAt > now
      /\ \A j \in Keys : j \in DOMAIN buckets' => buckets'[j] = next[j]
  <2>1. CASE buckets' = next
    BY <1>3, <1>4, <2>1
  <2>2. CASE buckets' = RemoveExpired(next)
    <3> DEFINE D == {j \in DOMAIN next : next[j].resetAt > now}
    <3>1. buckets' = [j \in D |-> next[j]] /\ D \in SUBSET Keys
      BY <1>3, <2>2 DEF RemoveExpired
    <3> QED
      BY <1>4, <3>1
  <2> QED
    BY <1>5, <2>1, <2>2
<1>7. \A j \in Keys \ {k} : /\ Alive(j)' <=> Alive(j)
                            /\ Alive(j) => buckets'[j] = buckets[j]
  BY <1>3, <1>6 DEF Alive
<1>8. /\ Alive(k)' <=> b.resetAt > now
      /\ Alive(k)' => buckets'[k] = [count |-> b.count + 1, resetAt |-> b.resetAt]
  BY <1>3, <1>6 DEF Alive
<1> QED
  BY <1>6, <1>7, <1>8 DEF b

LEMMA RequestKeepsLimit ==
    ASSUME LimitIInv, NEW k \in Keys, Limit(k), now' = now
    PROVE  LimitIInv'
<1>1. /\ now \in 0..MaxTime /\ DOMAIN buckets \in SUBSET Keys
      /\ \A j \in DOMAIN buckets : /\ buckets[j].count \in Nat \ {0}
                                   /\ buckets[j].resetAt \in Int
      /\ admitted \in [Keys -> Ticks]
  BY CountersTyped DEF LimitIInv
<1>2. admitted' \in [Keys -> Ticks]
  <2> DEFINE more == [admitted[k] EXCEPT ![now] = @ + 1]
  <2>1. admitted' = [admitted EXCEPT ![k] = more] \/ admitted' = admitted
    BY <1>1 DEF Limit
  <2>2. more \in Ticks
    <3>1. admitted[k] \in [0..MaxTime -> Nat] /\ admitted[k][now] + 1 \in Nat
      <4>1. admitted[k] \in Ticks
        BY <1>1
      <4> QED
        BY <1>1, <4>1 DEF Ticks
    <3> QED
      BY <3>1 DEF Ticks
  <2> HIDE DEF more
  <2> QED
    BY <1>1, <2>1, <2>2
<1>3. \E D \in SUBSET Keys : buckets' \in [D -> Counter]
  <2>1. CASE RateMax = 0
    <3>1. buckets' = buckets
      BY <2>1 DEF Limit
    <3> QED
      BY <3>1 DEF LimitIInv, LimitTypeOK, Counter
  <2>2. CASE RateMax > 0
    BY <2>2, LimitCounts
  <2> QED
    BY <2>1, <2>2, Params
<1>4. LimitTypeOK'
  BY <1>1, <1>2, <1>3 DEF LimitTypeOK, Ticks, Counter
<1>5. RateMax = 0 => DOMAIN buckets' = {}
  BY DEF Limit, LimitIInv
<1>6. ASSUME RateMax > 0, NEW j \in Keys, j # k PROVE ClientHolds(j)'
  <2>1. admitted'[j] = admitted[j]
    BY <1>1, <1>6 DEF Limit
  <2>2. ClientHolds(j)
    BY <1>6 DEF LimitIInv
  <2>3. /\ Alive(j)' <=> Alive(j)
        /\ Alive(j) => buckets'[j] = buckets[j]
    BY <1>6, LimitCounts
  <2> QED
    BY <2>1, <2>2, <2>3 DEF ClientHolds
<1>7. ASSUME RateMax > 0 PROVE ClientHolds(k)'
  <2> DEFINE a == admitted[k]
             b == Bucket(k)
  <2>1. a \in Ticks /\ ClientHolds(k)
    BY <1>1, <1>7 DEF LimitIInv
  <2>2. /\ Alive(k)' <=> b.resetAt > now
        /\ Alive(k)' => buckets'[k].count = b.count + 1 /\ buckets'[k].resetAt = b.resetAt
    BY <1>7, LimitCounts
  <2>3. /\ b.count < RateMax => admitted'[k] = [a EXCEPT ![now] = @ + 1]
        /\ ~(b.count < RateMax) => admitted'[k] = a
    BY <1>1, <1>7 DEF Limit, Allows
  <2>4. CASE Alive(k)
    <3>1. b = buckets[k] /\ b.count \in Nat /\ b.resetAt \in Int /\ b.resetAt > now
      BY <1>1, <2>4 DEF Bucket, Alive
    <3>2. LimitHolds(a, now, TRUE, b.resetAt - Window, b.count) /\ b.resetAt - Window \in Int
      <4>1. LimitHolds(a, now, TRUE, b.resetAt - Window, b.count)
        BY <2>1, <2>4, <3>1 DEF ClientHolds
      <4>2. b.resetAt \in Int /\ Window \in Int
        BY <3>1, Params
      <4>3. b.resetAt - Window \in Int
        BY <4>2
      <4> QED
        BY <4>1, <4>3
    <3> HIDE DEF a, b
    <3>3. CASE b.count < RateMax
      <4>1. LimitHolds([a EXCEPT ![now] = @ + 1], now, TRUE, b.resetAt - Window, b.count + 1)
        BY <1>1, <1>7, <2>1, <3>1, <3>2, <3>3, AdmittedHolds
      <4> QED
        BY <2>2, <2>3, <3>1, <3>3, <4>1 DEF ClientHolds
    <3>4. CASE ~(b.count < RateMax)
      <4>1. Share(b.count + 1) = Share(b.count)
        BY <3>1, <3>4, Params DEF Share
      <4>2. LimitHolds(a, now, TRUE, b.resetAt - Window, b.count + 1)
        BY <3>2, <4>1 DEF LimitHolds
      <4> QED
        BY <2>2, <2>3, <3>1, <3>4, <4>2 DEF ClientHolds
    <3> QED
      BY <3>3, <3>4
  <2>5. CASE ~Alive(k)
    <3>1. b = [count |-> 0, resetAt |-> now + Window]
      BY <2>5 DEF Bucket, Alive
    <3>2. b.count = 0 /\ b.resetAt = now + Window
      BY <3>1
    <3>3. LimitHolds(a, now, FALSE, 0, 0)
      BY <2>1, <2>5 DEF ClientHolds
    <3> HIDE DEF a, b
    <3>4. LimitHolds([a EXCEPT ![now] = @ + 1], now, Window > 0, now, 1)
      BY <1>1, <1>7, <2>1, <3>3, OpenedHolds
    <3>5. admitted'[k] = [a EXCEPT ![now] = @ + 1]
      BY <1>7, <2>3, <3>2, Params
    <3>6. CASE Window > 0
      <4>1. LimitHolds(admitted'[k], now, TRUE, now, 1)
        BY <3>4, <3>5, <3>6
      <4>2. Alive(k)' /\ buckets'[k].count = 1 /\ buckets'[k].resetAt - Window = now
        BY <1>1, <2>2, <3>2, <3>6, Params
      <4> QED
        BY <4>1, <4>2 DEF ClientHolds
    <3>7. CASE ~(Window > 0)
      <4>1. (Window > 0) = FALSE
        BY <3>7
      <4>2. LimitHolds(admitted'[k], now, FALSE, now, 1)
        BY <3>4, <3>5, <4>1
      <4>3. LimitHolds(admitted'[k], now, FALSE, 0, 0)
        BY <4>2 DEF LimitHolds
      <4>4. ~Alive(k)'
        BY <1>1, <2>2, <3>2, <3>7, Params
      <4> QED
        BY <4>3, <4>4 DEF ClientHolds
    <3> QED
      BY <3>6, <3>7
  <2> QED
    BY <2>4, <2>5
<1> QED
  BY <1>4, <1>5, <1>6, <1>7 DEF LimitIInv

LEMMA LimitStepKeeps == LimitIInv /\ LimitStep => LimitIInv'
<1> SUFFICES ASSUME LimitIInv, LimitStep PROVE LimitIInv'
  OBVIOUS
<1>1. CASE UNCHANGED <<now, limitVars>>
  BY <1>1 DEF LimitIInv, LimitTypeOK, limitVars, ClientHolds, Alive
<1> QED
  BY <1>1, TickKeepsLimit, RequestKeepsLimit, RestartKeepsLimit DEF LimitStep

LEMMA LimitIsRight == LimitIInv => SlidingBound /\ ShareIsGiven
<1> SUFFICES ASSUME LimitIInv PROVE SlidingBound /\ ShareIsGiven
  OBVIOUS
<1>1. /\ now \in 0..MaxTime /\ DOMAIN buckets \in SUBSET Keys
      /\ \A k \in DOMAIN buckets : buckets[k].count \in Nat /\ buckets[k].resetAt \in Int
  BY CountersTyped DEF LimitIInv
<1>2. ASSUME RateMax > 0, NEW k \in Keys, NEW t \in 0..MaxTime
      PROVE  Within(k, t, t + Window - 1) < 2 * RateMax
  <2>1. Before(admitted[k], End(t)) - Before(admitted[k], t) < 2 * RateMax
    BY <1>2 DEF LimitIInv, ClientHolds, LimitHolds
  <2>2. End(t) = (IF t + Window - 1 < MaxTime THEN t + Window - 1 ELSE MaxTime) + 1
    BY <1>2, Params DEF End
  <2> QED
    BY <2>1, <2>2 DEF Within
<1>3. ASSUME NEW k \in DOMAIN buckets, buckets[k].resetAt > now
      PROVE  Within(k, buckets[k].resetAt - Window, now)
                 = (IF buckets[k].count < RateMax THEN buckets[k].count ELSE RateMax)
  <2>1. RateMax > 0 /\ k \in Keys
    BY <1>1, <1>3, Params DEF LimitIInv
  <2>2. LimitHolds(admitted[k], now, TRUE, buckets[k].resetAt - Window, buckets[k].count)
    BY <1>3, <2>1 DEF LimitIInv, ClientHolds, Alive
  <2>3. (IF now < MaxTime THEN now ELSE MaxTime) + 1 = now + 1
    BY <1>1, Params
  <2> QED
    BY <2>2, <2>3 DEF LimitHolds, Share, Within
<1> QED
  BY <1>2, <1>3 DEF SlidingBound, ShareIsGiven

(***************************************************************************)
(* MetricsService.                                                         *)
(***************************************************************************)

\* Metrics are a histogram of the durations that were observed.
Histogram(m) ==
    /\ m.count \in Nat /\ m.sum \in Nat
    /\ m.buckets \in [DOMAIN Bounds -> Nat]
    /\ \A i \in 2..Len(Bounds) : m.buckets[i - 1] <= m.buckets[i]
    /\ m.buckets[Len(Bounds)] = m.count
    /\ m.sum <= Most(m.buckets)

Observed(m, duration) ==
    [count |-> m.count + 1, sum |-> m.sum + duration,
     buckets |-> [i \in DOMAIN Bounds |-> m.buckets[i] + (IF duration <= Bounds[i] THEN 1 ELSE 0)]]

LEMMA BoundsTyped ==
    /\ Len(Bounds) \in Nat \ {0} /\ DOMAIN Bounds = 1..Len(Bounds)
    /\ \A i \in 1..Len(Bounds) : Bounds[i] \in Nat
    /\ \A i \in 2..Len(Bounds) : Bounds[i - 1] < Bounds[i]
    /\ MaxTime \in Nat /\ MaxTime <= Bounds[Len(Bounds)]
<1>1. Bounds \in Seq(Nat) /\ Bounds # <<>>
  BY MetricsAssumption
<1>2. Len(Bounds) \in Nat \ {0} /\ DOMAIN Bounds = 1..Len(Bounds)
  BY <1>1
<1>3. \A i \in 1..Len(Bounds) : Bounds[i] \in Nat
  BY <1>1
<1> QED
  BY <1>2, <1>3, MetricsAssumption, GatewayAssumption, RateLimitAssumption

\* What is in bucket i and not in the one before.
Only(bs, i) == bs[i] - (IF i = 1 THEN 0 ELSE bs[i - 1])

LEMMA MostAdds ==
    ASSUME NEW bs \in [1..Len(Bounds) -> Int]
    PROVE  \E f \in [0..Len(Bounds) -> Int] :
               /\ f[0] = 0 /\ Most(bs) = f[Len(Bounds)]
               /\ \A i \in 1..Len(Bounds) : f[i] = f[i - 1] + Bounds[i] * Only(bs, i)
<1> DEFINE L == Len(Bounds)
           xs == [i \in 0..(L - 1) |-> Bounds[i + 1] * Only(bs, i + 1)]
           Is(most) == most = [i \in 0..L |->
                                 IF i = 0 THEN 0
                                 ELSE most[i - 1]
                                          + Bounds[i] * (bs[i] - (IF i = 1 THEN 0 ELSE bs[i - 1]))]
           most == CHOOSE most : Is(most)
<1>1. L \in Nat \ {0} /\ \A i \in 1..L : Bounds[i] \in Nat
  BY BoundsTyped
<1>2. Most(bs) = most[L]
  BY DEF Most
<1>3. \A i \in 1..L : Only(bs, i) \in Int /\ Bounds[i] * Only(bs, i) \in Int
  <2> SUFFICES ASSUME NEW i \in 1..L PROVE Only(bs, i) \in Int /\ Bounds[i] * Only(bs, i) \in Int
    OBVIOUS
  <2>1. bs[i] \in Int /\ (i # 1 => bs[i - 1] \in Int)
    BY <1>1, SMTT(60)
  <2>2. Only(bs, i) \in Int /\ Bounds[i] \in Int
    BY <1>1, <2>1 DEF Only
  <2> QED
    BY <2>2
<1> HIDE DEF L
<1>4. xs \in [0..(L - 1) -> Int]
  <2> SUFFICES ASSUME NEW i \in 0..(L - 1) PROVE Bounds[i + 1] * Only(bs, i + 1) \in Int
    OBVIOUS
  <2>1. i + 1 \in 1..L
    BY <1>1
  <2> QED
    BY <1>3, <2>1
<1>5. PICK f : Adds(f, xs, L)
  <2> HIDE DEF xs
  <2> QED
    BY <1>1, <1>4, AddsExists
<1>6. \A i \in 1..L : xs[i - 1] = Bounds[i] * Only(bs, i)
  <2> SUFFICES ASSUME NEW i \in 1..L PROVE xs[i - 1] = Bounds[i] * Only(bs, i)
    OBVIOUS
  <2>1. i - 1 \in 0..(L - 1) /\ (i - 1) + 1 = i
    BY <1>1
  <2> QED
    BY <2>1
<1> HIDE DEF xs
<1>7. /\ f \in [0..L -> Int] /\ f[0] = 0
      /\ \A i \in 1..L : f[i] = f[i - 1] + Bounds[i] * Only(bs, i)
  BY <1>5, <1>6 DEF Adds
<1>8. Is(f)
  <2>1. f = [i \in 0..L |-> f[i]]
    BY <1>7
  <2>2. \A i \in 0..L : f[i] = IF i = 0 THEN 0
                              ELSE f[i - 1] + Bounds[i] * (bs[i] - (IF i = 1 THEN 0 ELSE bs[i - 1]))
    <3> SUFFICES ASSUME NEW i \in 0..L, i # 0 PROVE f[i] = f[i - 1] + Bounds[i] * Only(bs, i)
      BY <1>7 DEF Only
    <3>1. i \in 1..L
      BY <1>1
    <3> QED
      BY <1>7, <3>1
  <2> QED
    BY <2>1, <2>2
<1>9. Is(most)
  <2> HIDE DEF Is
  <2> QED
    BY <1>8
<1> HIDE DEF most
<1>10. /\ \A i \in 1..L : most[i] = most[i - 1] + Bounds[i] * Only(bs, i)
       /\ most[0] = 0 /\ most = [i \in 0..L |-> most[i]]
  <2>1. most = [i \in 0..L |-> IF i = 0 THEN 0
                    ELSE most[i - 1] + Bounds[i] * (bs[i] - (IF i = 1 THEN 0 ELSE bs[i - 1]))]
    BY <1>9
  <2>2. 0 \in 0..L /\ \A i \in 1..L : i \in 0..L /\ i # 0
    BY <1>1
  <2> QED
    BY <2>1, <2>2 DEF Only
<1> DEFINE S == {i \in 0..L : most[i] = f[i]}
<1>11. S = 0..L
  <2>1. 0 \in S
    BY <1>1, <1>7, <1>10
  <2>2. ASSUME NEW i \in 1..L, i - 1 \in S PROVE i \in S
    <3>1. i \in 0..L /\ most[i - 1] = f[i - 1]
      BY <1>1, <2>2
    <3> QED
      BY <1>7, <1>10, <3>1
  <2>3. S \in SUBSET (0..L)
    OBVIOUS
  <2> HIDE DEF S
  <2> QED
    BY <1>1, <2>1, <2>2, <2>3, FirstWithout
<1>12. L \in 0..L /\ most[L] = f[L]
  <2>1. L \in 0..L
    BY <1>1
  <2> QED
    BY <1>11, <2>1
<1> QED
  BY <1>2, <1>7, <1>12 DEF L

\* One observation more: the bounds grow, so the duration is in its bucket and
\* in all that follow, and the last bound is longer than any duration.
LEMMA HistogramGrows ==
    ASSUME NEW m, Histogram(m), NEW d \in 0..MaxTime
    PROVE  Histogram(Observed(m, d))
<1> DEFINE L == Len(Bounds)
           bs == m.buckets
           e(i) == IF d <= Bounds[i] THEN 1 ELSE 0
           cs == [i \in 1..L |-> bs[i] + e(i)]
<1>1. /\ L \in Nat \ {0} /\ DOMAIN Bounds = 1..L /\ d \in Nat
      /\ \A i \in 1..L : Bounds[i] \in Nat
      /\ \A i \in 2..L : Bounds[i - 1] < Bounds[i]
      /\ d <= Bounds[L]
  BY BoundsTyped
<1>2. /\ bs \in [1..L -> Nat] /\ bs[L] = m.count
      /\ m.count \in Nat /\ m.sum \in Nat /\ m.sum <= Most(bs)
      /\ \A i \in 2..L : bs[i - 1] <= bs[i]
  BY <1>1 DEF Histogram
<1>3. \A i \in 1..L : e(i) \in 0..1 /\ (e(i) = 1 <=> d <= Bounds[i])
  OBVIOUS
<1>4. \A i \in 2..L : e(i - 1) <= e(i)
  <2> SUFFICES ASSUME NEW i \in 2..L PROVE e(i - 1) <= e(i)
    OBVIOUS
  <2>1. i - 1 \in 1..L /\ i \in 1..L
    BY <1>1
  <2>2. Bounds[i - 1] \in Nat /\ Bounds[i] \in Nat /\ Bounds[i - 1] < Bounds[i]
    BY <1>1, <2>1
  <2> QED
    BY <1>1, <2>2
<1>5. e(L) = 1
  BY <1>1
<1>6. Observed(m, d) = [count |-> m.count + 1, sum |-> m.sum + d, buckets |-> cs]
  BY <1>1 DEF Observed
<1> HIDE DEF L, bs, e
<1>7. cs \in [1..L -> Nat] /\ \A i \in 1..L : cs[i] = bs[i] + e(i)
  <2>1. \A i \in 1..L : bs[i] + e(i) \in Nat
    <3> SUFFICES ASSUME NEW i \in 1..L PROVE bs[i] + e(i) \in Nat
      OBVIOUS
    <3>1. bs[i] \in Nat /\ e(i) \in Nat
      BY <1>2, <1>3
    <3> QED
      BY <3>1
  <2> QED
    BY <2>1
<1> HIDE DEF cs
<1>8. \A i \in 2..L : cs[i - 1] <= cs[i]
  <2> SUFFICES ASSUME NEW i \in 2..L PROVE cs[i - 1] <= cs[i]
    OBVIOUS
  <2>1. i - 1 \in 1..L /\ i \in 1..L
    BY <1>1
  <2>2. /\ bs[i - 1] \in Nat /\ bs[i] \in Nat /\ e(i - 1) \in Nat /\ e(i) \in Nat
        /\ bs[i - 1] <= bs[i] /\ e(i - 1) <= e(i)
    BY <1>2, <1>3, <1>4, <2>1
  <2> QED
    BY <1>7, <2>1, <2>2
<1>9. L \in 1..L /\ cs[L] = m.count + 1
  BY <1>1, <1>2, <1>5, <1>7
<1>10. m.sum + d <= Most(cs)
  <2>1. bs \in [1..Len(Bounds) -> Int] /\ cs \in [1..Len(Bounds) -> Int]
    BY <1>2, <1>7 DEF L
  <2>2. PICK f \in [0..L -> Int] :
            /\ f[0] = 0 /\ Most(bs) = f[L]
            /\ \A i \in 1..L : f[i] = f[i - 1] + Bounds[i] * Only(bs, i)
    BY <2>1, MostAdds DEF L
  <2>3. PICK g \in [0..L -> Int] :
            /\ g[0] = 0 /\ Most(cs) = g[L]
            /\ \A i \in 1..L : g[i] = g[i - 1] + Bounds[i] * Only(cs, i)
    BY <2>1, MostAdds DEF L
  <2> DEFINE S == {i \in 0..L : g[i] >= f[i] + (IF i # 0 /\ e(i) = 1 THEN d ELSE 0)}
  <2>4. 0 \in S
    BY <1>1, <2>2, <2>3
  <2>5. ASSUME NEW i \in 1..L, i - 1 \in S PROVE i \in S
    <3> DEFINE x == Only(bs, i)
               was == IF i = 1 THEN 0 ELSE e(i - 1)
    <3>1. /\ Bounds[i] \in Nat /\ bs[i] \in Nat /\ e(i) \in 0..1
          /\ (e(i) = 1 => d <= Bounds[i]) /\ i \in 0..L
      BY <1>1, <1>2, <1>3, SMTT(60)
    <3>2. i # 1 => /\ i - 1 \in 1..L /\ bs[i - 1] \in Nat /\ e(i - 1) \in 0..1
                   /\ e(i - 1) <= e(i) /\ cs[i - 1] = bs[i - 1] + e(i - 1)
      <4> SUFFICES ASSUME i # 1 PROVE /\ i - 1 \in 1..L /\ bs[i - 1] \in Nat
                                      /\ e(i - 1) \in 0..1 /\ e(i - 1) <= e(i)
                                      /\ cs[i - 1] = bs[i - 1] + e(i - 1)
        OBVIOUS
      <4>1. i - 1 \in 1..L /\ i \in 2..L
        BY <1>1
      <4> QED
        BY <1>2, <1>3, <1>4, <1>7, <4>1
    <3>3. x \in Int /\ Only(cs, i) = x + (e(i) - was)
      <4>1. cs[i] = bs[i] + e(i)
        BY <1>7
      <4>2. CASE i = 1
        BY <3>1, <4>1, <4>2 DEF Only
      <4>3. CASE i # 1
        <5>1. Only(bs, i) = bs[i] - bs[i - 1] /\ Only(cs, i) = cs[i] - cs[i - 1]
          BY <4>3 DEF Only
        <5>2. was = e(i - 1) /\ x = Only(bs, i)
          BY <4>3
        <5>3. /\ bs[i] \in Nat /\ bs[i - 1] \in Nat /\ e(i) \in Nat /\ e(i - 1) \in Nat
              /\ cs[i - 1] = bs[i - 1] + e(i - 1)
          BY <3>1, <3>2, <4>3
        <5> HIDE DEF x, was
        <5> QED
          BY <4>1, <5>1, <5>2, <5>3
      <4> QED
        BY <4>2, <4>3
    <3>4. was \in 0..1 /\ was <= e(i)
      BY <3>1, <3>2
    <3>5. f[i - 1] \in Int /\ g[i - 1] \in Int /\ f[i] \in Int /\ g[i] \in Int
      BY <1>1, SMTT(60)
    <3>6. g[i - 1] >= f[i - 1] + (IF was = 1 THEN d ELSE 0)
      BY <1>1, <2>5, <3>1, <3>2, <3>5
    <3> HIDE DEF x, was
    <3>7. f[i] = f[i - 1] + Bounds[i] * x
      BY <2>2 DEF x
    <3>8. g[i] = g[i - 1] + Bounds[i] * (x + (e(i) - was))
      BY <2>3, <3>3
    <3>9. g[i] >= f[i] + (IF e(i) = 1 THEN d ELSE 0)
      <4> DEFINE y == Bounds[i] * x
                 p == f[i - 1]
                 q == g[i - 1]
      <4>1. y \in Int /\ p \in Int /\ q \in Int /\ d \in Nat /\ f[i] = p + y
        BY <1>1, <3>1, <3>3, <3>5, <3>7
      <4>2. CASE e(i) = was
        <5>1. x + (e(i) - was) = x
          BY <3>1, <3>3, <3>4, <4>2
        <5>2. g[i] = q + y
          BY <3>8, <5>1
        <5>3. q >= p + (IF e(i) = 1 THEN d ELSE 0)
          BY <3>6, <4>2
        <5> HIDE DEF p, q, y
        <5> QED
          BY <4>1, <5>2, <5>3
      <4>3. CASE e(i) # was
        <5>1. e(i) = 1 /\ was = 0
          BY <3>1, <3>4, <4>3
        <5>2. x + (e(i) - was) = x + 1
          BY <3>3, <5>1
        <5>3. Bounds[i] * (x + 1) = y + Bounds[i]
          BY <3>1, <3>3, SMTT(60)
        <5>4. g[i] = q + (y + Bounds[i])
          BY <3>8, <5>2, <5>3
        <5>5. q >= p /\ d <= Bounds[i] /\ Bounds[i] \in Nat
          BY <3>1, <3>5, <3>6, <5>1
        <5> HIDE DEF p, q, y
        <5> QED
          BY <4>1, <5>1, <5>4, <5>5
      <4> QED
        BY <4>2, <4>3
    <3> QED
      BY <3>1, <3>9
  <2>6. S = 0..L
    <3>1. S \in SUBSET (0..L)
      OBVIOUS
    <3> HIDE DEF S
    <3> QED
      BY <1>1, <2>4, <2>5, <3>1, FirstWithout
  <2>7. L \in S /\ L # 0
    <3>1. L \in 0..L /\ L # 0
      BY <1>1
    <3> HIDE DEF S
    <3> QED
      BY <2>6, <3>1
  <2>8. g[L] >= f[L] + d
    BY <1>5, <2>7
  <2>9. f[L] \in Int /\ g[L] \in Int
    BY <1>1
  <2> QED
    BY <1>1, <1>2, <2>2, <2>3, <2>8, <2>9, SMTT(60)
<1>11. m.count + 1 \in Nat /\ m.sum + d \in Nat
  BY <1>1, <1>2, SMTT(60)
<1> DEFINE next == [count |-> m.count + 1, sum |-> m.sum + d, buckets |-> cs]
<1>12. /\ next.count = m.count + 1 /\ next.sum = m.sum + d /\ next.buckets = cs
  OBVIOUS
<1> HIDE DEF next
<1>13. Histogram(next)
  BY <1>1, <1>7, <1>8, <1>9, <1>10, <1>11, <1>12 DEF Histogram, L
<1> QED
  BY <1>6, <1>13 DEF next

\* Nothing observed yet.
LEMMA NoMetricIsHistogram == Histogram(NoMetric)
<1> DEFINE L == Len(Bounds)
           bs == [i \in DOMAIN Bounds |-> 0]
<1>1. L \in Nat \ {0} /\ DOMAIN Bounds = 1..L /\ \A i \in 1..L : Bounds[i] \in Nat
  BY BoundsTyped
<1>2. /\ NoMetric.count = 0 /\ NoMetric.sum = 0 /\ NoMetric.buckets = bs
      /\ bs \in [1..L -> Int] /\ bs \in [1..L -> Nat] /\ \A i \in 1..L : bs[i] = 0
  BY <1>1 DEF NoMetric
<1> HIDE DEF bs, L
<1>3. PICK f \in [0..L -> Int] :
            /\ f[0] = 0 /\ Most(bs) = f[L]
            /\ \A i \in 1..L : f[i] = f[i - 1] + Bounds[i] * Only(bs, i)
  BY <1>2, MostAdds DEF L
<1> DEFINE S == {i \in 0..L : f[i] = 0}
<1>4. S = 0..L
  <2>1. 0 \in S /\ S \in SUBSET (0..L)
    BY <1>1, <1>3
  <2>2. ASSUME NEW i \in 1..L, i - 1 \in S PROVE i \in S
    <3>1. i \in 0..L /\ f[i - 1] = 0 /\ Bounds[i] \in Nat
      BY <1>1, <2>2
    <3>2. bs[i] = 0 /\ (i # 1 => bs[i - 1] = 0)
      <4>1. i # 1 => i - 1 \in 1..L
        BY <1>1
      <4> QED
        BY <1>2, <4>1
    <3>3. Only(bs, i) = 0
      BY <3>2 DEF Only
    <3>4. Bounds[i] * 0 = 0
      BY <3>1
    <3>5. f[i] = 0
      BY <1>3, <3>1, <3>3, <3>4
    <3> QED
      BY <3>1, <3>5
  <2> HIDE DEF S
  <2> QED
    BY <1>1, <2>1, <2>2, FirstWithout
<1>5. L \in 1..L /\ f[L] = 0 /\ \A i \in 2..L : i \in 1..L /\ i - 1 \in 1..L
  BY <1>1, <1>4
<1> QED
  BY <1>1, <1>2, <1>3, <1>5, SMTT(60) DEF Histogram, L

(***************************************************************************)
(* Sums over a set.  SumFunction is recursive: what it says is the number  *)
(* of pairs below the function, and pairs can be counted.                  *)
(***************************************************************************)

Area(f, S) == {p \in S \X Nat : p[2] \in 1..f[p[1]]}

LEMMA AreaOfMore ==
    ASSUME NEW S, NEW f \in [S -> Nat], NEW T \in SUBSET S, NEW x \in T,
           IsFiniteSet(Area(f, T \ {x}))
    PROVE  /\ IsFiniteSet(Area(f, T))
           /\ Cardinality(Area(f, T)) = f[x] + Cardinality(Area(f, T \ {x}))
<1> DEFINE column == {x} \X (1..f[x])
<1>1. f[x] \in Nat
  OBVIOUS
<1>2. IsFiniteSet(column) /\ Cardinality(column) = f[x]
  <2>1. IsFiniteSet(1..f[x]) /\ Cardinality(1..f[x]) = f[x]
    BY <1>1, FS_Interval, SMTT(60)
  <2>2. IsFiniteSet({x}) /\ Cardinality({x}) = 1
    BY FS_Singleton
  <2> QED
    BY <1>1, <2>1, <2>2, FS_Product
<1>3. Area(f, T) = Area(f, T \ {x}) \cup column
  <2>1. ASSUME NEW p \in Area(f, T) PROVE p \in Area(f, T \ {x}) \cup column
    <3>1. p \in T \X Nat /\ p[2] \in 1..f[p[1]]
      BY DEF Area
    <3>2. CASE p[1] = x
      BY <3>1, <3>2
    <3>3. CASE p[1] # x
      <4>1. p \in (T \ {x}) \X Nat
        BY <3>1, <3>3
      <4> QED
        BY <3>1, <4>1 DEF Area
    <3> QED
      BY <3>2, <3>3
  <2>2. ASSUME NEW p \in column PROVE p \in Area(f, T)
    <3>1. p \in T \X Nat /\ p[1] = x /\ p[2] \in 1..f[x]
      BY <1>1
    <3> QED
      BY <3>1 DEF Area
  <2>3. Area(f, T \ {x}) \subseteq Area(f, T)
    BY DEF Area
  <2> QED
    BY <2>1, <2>2, <2>3
<1>4. Area(f, T \ {x}) \cap column = {}
  BY DEF Area
<1> HIDE DEF column
<1>5. Cardinality(Area(f, T \ {x})) \in Nat
  BY FS_CardinalityType
<1>6. IsFiniteSet(Area(f, T \ {x}) \cup column)
      /\ Cardinality(Area(f, T \ {x}) \cup column)
             = Cardinality(Area(f, T \ {x})) + Cardinality(column) - Cardinality({})
  <2> DEFINE rest == Area(f, T \ {x})
  <2>1. IsFiniteSet(rest) /\ rest \cap column = {}
    BY <1>4
  <2> HIDE DEF rest
  <2>2. /\ IsFiniteSet(rest \cup column)
        /\ Cardinality(rest \cup column)
               = Cardinality(rest) + Cardinality(column) - Cardinality(rest \cap column)
    BY <1>2, <2>1, FS_Union
  <2> QED
    BY <2>1, <2>2 DEF rest
<1>7. Cardinality({}) = 0
  BY FS_EmptySet
<1> QED
  BY <1>1, <1>2, <1>3, <1>5, <1>6, <1>7

LEMMA AreaIsFinite ==
    ASSUME NEW S, IsFiniteSet(S), NEW f \in [S -> Nat], NEW T \in SUBSET S
    PROVE  IsFiniteSet(Area(f, T)) /\ Cardinality(Area(f, T)) \in Nat
<1> DEFINE Bad == {U \in SUBSET S : ~IsFiniteSet(Area(f, U))}
<1>1. Bad = {}
  <2> SUFFICES ASSUME Bad # {} PROVE FALSE
    OBVIOUS
  <2>1. Bad \subseteq FiniteSubsetsOf(S)
    BY FS_FiniteSubsetsOfFinite
  <2>2. PICK U \in Bad : \A V \in Bad : <<V, U>> \notin StrictSubsetOrdering(S)
    BY <2>1, FS_StrictSubsetOrderingWellFounded, WFMin
  <2>3. U # {}
    <3>1. Area(f, {}) = {}
      BY DEF Area
    <3> QED
      BY <3>1, FS_EmptySet
  <2>4. PICK x \in U : TRUE
    BY <2>3
  <2>5. U \ {x} \notin Bad
    <3>1. <<U \ {x}, U>> \in StrictSubsetOrdering(S)
      BY DEF StrictSubsetOrdering
    <3> QED
      BY <2>2, <3>1
  <2>6. IsFiniteSet(Area(f, U \ {x}))
    BY <2>5
  <2> QED
    BY <2>6, AreaOfMore
<1>2. IsFiniteSet(Area(f, T))
  BY <1>1
<1> QED
  BY <1>2, FS_CardinalityType

LEMMA SumIsArea ==
    ASSUME NEW S, IsFiniteSet(S), NEW f \in [S -> Nat]
    PROVE  SumFunction(f) = Cardinality(Area(f, S))
<1> DEFINE c(s) == CHOOSE x \in s : TRUE
           Is(iter) == iter = [s \in SUBSET S |->
                                  IF s = {} THEN 0 ELSE f[c(s)] + iter[s \ {c(s)}]]
           iter == CHOOSE iter : Is(iter)
           area == [s \in SUBSET S |-> Cardinality(Area(f, s))]
<1>1. SumFunction(f) = iter[S]
  <2>1. DOMAIN f = S
    OBVIOUS
  <2> QED
    BY <2>1 DEF SumFunction, SumFunctionOnSet, FoldFunctionOnSet, MapThenFoldSet
<1>2. ASSUME NEW s \in SUBSET S, s # {}
      PROVE  /\ c(s) \in s /\ s \ {c(s)} \in SUBSET S
             /\ area[s] = f[c(s)] + area[s \ {c(s)}]
  <2>1. c(s) \in s
    BY <1>2
  <2> HIDE DEF c
  <2>2. IsFiniteSet(Area(f, s \ {c(s)}))
    BY <2>1, AreaIsFinite
  <2> QED
    BY <2>1, <2>2, AreaOfMore
<1>3. area[{}] = 0
  <2>1. Area(f, {}) = {}
    BY DEF Area
  <2> QED
    BY <2>1, FS_EmptySet
<1>4. Is(area)
  <2>1. \A s \in SUBSET S : area[s] = IF s = {} THEN 0 ELSE f[c(s)] + area[s \ {c(s)}]
    BY <1>2, <1>3
  <2>2. area = [s \in SUBSET S |-> area[s]]
    OBVIOUS
  <2> HIDE DEF area, c
  <2> QED
    BY <2>1, <2>2
<1>5. Is(iter)
  <2> HIDE DEF Is
  <2> QED
    BY <1>4
<1> HIDE DEF iter, area
<1>6. \A s \in SUBSET S : iter[s] = IF s = {} THEN 0 ELSE f[c(s)] + iter[s \ {c(s)}]
  BY <1>5
<1> HIDE DEF c
<1> DEFINE Bad == {s \in SUBSET S : iter[s] # area[s]}
<1>7. Bad = {}
  <2> SUFFICES ASSUME Bad # {} PROVE FALSE
    OBVIOUS
  <2>1. Bad \subseteq FiniteSubsetsOf(S)
    BY FS_FiniteSubsetsOfFinite
  <2>2. PICK U \in Bad : \A V \in Bad : <<V, U>> \notin StrictSubsetOrdering(S)
    BY <2>1, FS_StrictSubsetOrderingWellFounded, WFMin
  <2>3. U # {}
    BY <1>3, <1>6
  <2>4. c(U) \in U /\ U \ {c(U)} \in SUBSET S
    BY <1>2, <2>3
  <2>5. U \ {c(U)} \notin Bad
    <3>1. <<U \ {c(U)}, U>> \in StrictSubsetOrdering(S)
      BY <2>4 DEF StrictSubsetOrdering
    <3> QED
      BY <2>2, <3>1
  <2>6. iter[U \ {c(U)}] = area[U \ {c(U)}]
    BY <2>4, <2>5
  <2>7. iter[U] = f[c(U)] + iter[U \ {c(U)}] /\ area[U] = f[c(U)] + area[U \ {c(U)}]
    BY <1>2, <1>6, <2>3
  <2> QED
    BY <2>6, <2>7
<1>8. iter[S] = area[S]
  BY <1>7
<1> QED
  BY <1>1, <1>8 DEF area

\* Nowhere more: no more in all.
LEMMA SumOfLess ==
    ASSUME NEW S, IsFiniteSet(S), NEW f \in [S -> Nat], NEW g \in [S -> Nat],
           \A x \in S : g[x] <= f[x]
    PROVE  SumFunction(g) \in Nat /\ SumFunction(f) \in Nat /\ SumFunction(g) <= SumFunction(f)
<1>1. \A h \in [S -> Nat] : IsFiniteSet(Area(h, S)) /\ Cardinality(Area(h, S)) \in Nat
  BY AreaIsFinite
<1>2. Area(g, S) \subseteq Area(f, S)
  <2> SUFFICES ASSUME NEW p \in Area(g, S) PROVE p \in Area(f, S)
    OBVIOUS
  <2>1. p \in S \X Nat /\ p[2] \in 1..g[p[1]] /\ p[1] \in S /\ p[2] \in Nat
    BY DEF Area
  <2>2. g[p[1]] \in Nat /\ f[p[1]] \in Nat /\ g[p[1]] <= f[p[1]]
    BY <2>1
  <2>3. p[2] \in 1..f[p[1]]
    BY <2>1, <2>2
  <2> QED
    BY <2>1, <2>3 DEF Area
<1>3. Cardinality(Area(g, S)) <= Cardinality(Area(f, S))
  BY <1>1, <1>2, FS_Subset
<1> QED
  BY <1>1, <1>3, SumIsArea

\* One more in one place: at most one more in all.
LEMMA SumOfOneMore ==
    ASSUME NEW S, IsFiniteSet(S), NEW f \in [S -> Nat], NEW g \in [S -> Nat], NEW k \in S,
           \A x \in S : x # k => g[x] <= f[x],
           g[k] <= f[k] + 1
    PROVE  /\ SumFunction(g) \in Nat /\ SumFunction(f) \in Nat
           /\ SumFunction(g) <= SumFunction(f) + 1
<1> DEFINE new == <<k, f[k] + 1>>
<1>1. \A h \in [S -> Nat] : IsFiniteSet(Area(h, S)) /\ Cardinality(Area(h, S)) \in Nat
  BY AreaIsFinite
<1>2. Area(g, S) \subseteq Area(f, S) \cup {new}
  <2> SUFFICES ASSUME NEW p \in Area(g, S), p # new PROVE p \in Area(f, S)
    OBVIOUS
  <2>1. p \in S \X Nat /\ p[2] \in 1..g[p[1]] /\ p[1] \in S /\ p[2] \in Nat
        /\ p = <<p[1], p[2]>>
    BY DEF Area
  <2>2. g[p[1]] \in Nat /\ f[p[1]] \in Nat
    BY <2>1
  <2>3. p[2] \in 1..f[p[1]]
    <3>1. CASE p[1] = k
      <4>1. p[2] # f[k] + 1
        BY <2>1, <3>1
      <4> QED
        BY <2>1, <2>2, <3>1, <4>1
    <3>2. CASE p[1] # k
      BY <2>1, <2>2, <3>2
    <3> QED
      BY <3>1, <3>2
  <2> QED
    BY <2>1, <2>3 DEF Area
<1> HIDE DEF new
<1>3. /\ IsFiniteSet(Area(f, S) \cup {new})
      /\ Cardinality(Area(f, S) \cup {new}) <= Cardinality(Area(f, S)) + 1
  <2> DEFINE area == Area(f, S)
  <2>1. IsFiniteSet(area) /\ Cardinality(area) \in Nat
    BY <1>1
  <2> HIDE DEF area
  <2>2. /\ IsFiniteSet(area \cup {new})
        /\ Cardinality(area \cup {new})
               = IF new \in area THEN Cardinality(area) ELSE Cardinality(area) + 1
    BY <2>1, FS_AddElement
  <2>3. Cardinality(area \cup {new}) <= Cardinality(area) + 1
    BY <2>1, <2>2
  <2> QED
    BY <2>2, <2>3 DEF area
<1>4. Cardinality(Area(f, S) \cup {new}) \in Nat
  BY <1>3, FS_CardinalityType
<1>5. Cardinality(Area(g, S)) <= Cardinality(Area(f, S) \cup {new})
  BY <1>2, <1>3, FS_Subset
<1>6. Cardinality(Area(g, S)) <= Cardinality(Area(f, S)) + 1
  BY <1>1, <1>3, <1>4, <1>5
<1> QED
  BY <1>1, <1>6, SumIsArea

LEMMA SumOfNone ==
    ASSUME NEW S, IsFiniteSet(S), NEW f \in [S -> Nat], \A x \in S : f[x] = 0
    PROVE  SumFunction(f) = 0
<1>1. Area(f, S) = {}
  <2> SUFFICES ASSUME NEW p \in Area(f, S) PROVE FALSE
    OBVIOUS
  <2>1. p[1] \in S /\ p[2] \in 1..f[p[1]]
    BY DEF Area
  <2> QED
    BY <2>1
<1> QED
  BY <1>1, FS_EmptySet, SumIsArea

(***************************************************************************)
(* The gateway as a whole.                                                 *)
(***************************************************************************)

Routes == {"ask", "answer", "db"}
Statuses == {200, 201, 400, 403, 404, 429, 500}

MetricsIInv ==
    /\ DOMAIN metrics \subseteq Routes \X Statuses
    /\ \A key \in DOMAIN metrics : Histogram(metrics[key])

\* A request that waits has begun.
WaitIInv ==
    /\ waiting \in [Slots -> 0..MaxTime \cup {-1}]
    /\ \A s \in Slots : waiting[s] <= now
    /\ calls \in 0..MaxCalls /\ faults \in 0..MaxFaults

GatewayIInv ==
    /\ MarketIInv /\ LimitIInv /\ MetricsIInv /\ WaitIInv
    /\ MetricsMatchRequests /\ RefusalsAreCounted

\* An observation is seen under its route and status and under no other.
LEMMA ObserveIsSeen ==
    ASSUME MetricsIInv, NEW route \in Routes, NEW status \in Statuses, NEW d \in 0..MaxTime,
           Observe(route, status, d)
    PROVE  /\ MetricsIInv'
           /\ \A r \in Routes, s \in Statuses :
                  Seen(r, s)' = IF r = route /\ s = status THEN Seen(r, s) + 1 ELSE Seen(r, s)
<1> DEFINE key == <<route, status>>
           m == Metric(route, status)
           next == Observed(m, d)
<1>1. metrics' = [k \in DOMAIN metrics \cup {key} |-> IF k = key THEN next ELSE metrics[k]]
  BY DEF Observe, Observed
<1>2. Histogram(m)
  BY NoMetricIsHistogram DEF Metric, MetricsIInv
<1>3. Histogram(next) /\ next.count = m.count + 1
  <2>1. Histogram(next)
    BY <1>2, HistogramGrows
  <2> QED
    BY <2>1 DEF Observed
<1> HIDE DEF m, next
<1>4. DOMAIN metrics' = DOMAIN metrics \cup {key} /\ key \in Routes \X Statuses
  BY <1>1
<1>5. MetricsIInv'
  <2>1. \A k \in DOMAIN metrics' : Histogram(metrics'[k])
    BY <1>1, <1>3 DEF MetricsIInv
  <2> QED
    BY <1>4, <2>1 DEF MetricsIInv
<1>6. ASSUME NEW r \in Routes, NEW s \in Statuses
      PROVE  Seen(r, s)' = IF r = route /\ s = status THEN Seen(r, s) + 1 ELSE Seen(r, s)
  <2>1. CASE r = route /\ s = status
    <3>1. Metric(r, s)' = next
      BY <1>1, <2>1 DEF Metric
    <3> QED
      BY <1>3, <2>1, <3>1 DEF Seen, m
  <2>2. CASE ~(r = route /\ s = status)
    <3>1. <<r, s>> # key
      BY <2>2
    <3> HIDE DEF key
    <3>2. Metric(r, s)' = Metric(r, s)
      BY <1>1, <3>1 DEF Metric
    <3> QED
      BY <2>2, <3>2 DEF Seen
  <2> QED
    BY <2>1, <2>2
<1> QED
  BY <1>5, <1>6

LEMMA SeenTyped ==
    ASSUME MetricsIInv, NEW r \in Routes, NEW s \in Statuses
    PROVE  Seen(r, s) \in Nat
<1>1. Histogram(Metric(r, s))
  BY NoMetricIsHistogram DEF Metric, MetricsIInv
<1> QED
  BY <1>1 DEF Seen, Histogram

\* What is counted above the limit, by client.
Excesses == [k \in Keys |-> Excess(k)]

LEMMA ExcessTyped ==
    ASSUME LimitIInv
    PROVE  Excesses \in [Keys -> Nat] /\ IsFiniteSet(Keys)
<1>1. \A k \in DOMAIN buckets : buckets[k].count \in Nat
  BY CountersTyped DEF LimitIInv
<1>2. ASSUME NEW k \in Keys PROVE Excess(k) \in Nat
  BY <1>1, Params DEF Excess
<1> QED
  BY <1>2, RateLimitAssumption DEF Excesses

LEMMA ExcessIs == \A k \in Keys : Excesses[k] = Excess(k)
  BY DEF Excesses

\* The clients after a request: the one that was refused is one more above the
\* limit, no other is more than before.
LEMMA ExcessOfRequest ==
    ASSUME LimitIInv, LimitIInv', RateMax > 0, NEW k \in Keys, Limit(k), now' = now
    PROVE  /\ \A j \in Keys : j # k => Excess(j)' <= Excess(j)
           /\ Allows(k) => Excess(k)' <= Excess(k)
           /\ ~Allows(k) => Excess(k)' <= Excess(k) + 1
<1>1. /\ \A j \in DOMAIN buckets : buckets[j].count \in Nat /\ buckets[j].resetAt \in Int
      /\ now \in Int
  <2>1. now \in 0..MaxTime
    BY CountersTyped DEF LimitIInv
  <2> QED
    BY <2>1, CountersTyped, Params DEF LimitIInv
<1>2. /\ DOMAIN buckets' \subseteq DOMAIN Counted(k)
      /\ \A j \in DOMAIN buckets' : buckets'[j] = Counted(k)[j]
  <2>1. buckets' = Counted(k) \/ buckets' = RemoveExpired(Counted(k))
    BY Params DEF Limit
  <2> QED
    BY <2>1 DEF RemoveExpired
<1>3. ASSUME NEW j \in Keys, j # k PROVE Excess(j)' <= Excess(j)
  <2>1. Excess(j) \in Nat
    BY ExcessTyped, ExcessIs
  <2>2. CASE j \in DOMAIN buckets'
    <3>1. j \in DOMAIN buckets /\ buckets'[j] = buckets[j]
      BY <1>2, <1>3, <2>2 DEF Counted
    <3>2. Excess(j)' = Excess(j)
      BY <2>2, <3>1 DEF Excess
    <3> QED
      BY <2>1, <3>2
  <2>3. CASE j \notin DOMAIN buckets'
    BY <2>1, <2>3 DEF Excess
  <2> QED
    BY <2>2, <2>3
<1>4. Excess(k) \in Nat /\ RateMax \in Nat
  BY ExcessTyped, ExcessIs, Params
<1>5. k \in DOMAIN buckets' => buckets'[k].count = Bucket(k).count + 1
  <2>1. Counted(k)[k] = [Bucket(k) EXCEPT !.count = @ + 1]
    BY DEF Counted
  <2>2. [Bucket(k) EXCEPT !.count = @ + 1].count = Bucket(k).count + 1
    <3>1. CASE k \in DOMAIN buckets /\ buckets[k].resetAt > now
      <4>1. buckets[k] \in Counter
        BY <3>1, CountersTyped DEF LimitIInv
      <4> QED
        BY <3>1, <4>1 DEF Bucket, Counter
    <3>2. CASE ~(k \in DOMAIN buckets /\ buckets[k].resetAt > now)
      BY <3>2 DEF Bucket
    <3> QED
      BY <3>1, <3>2
  <2> QED
    BY <1>2, <2>1, <2>2
<1>6. Bucket(k).count \in Nat
  BY <1>1 DEF Bucket
<1>7. ASSUME Allows(k) PROVE Excess(k)' <= Excess(k)
  <2>1. Bucket(k).count < RateMax
    BY <1>7 DEF Allows
  <2>2. Excess(k)' = 0
    BY <1>4, <1>5, <1>6, <2>1 DEF Excess
  <2> QED
    BY <1>4, <2>2
<1>8. ASSUME ~Allows(k) PROVE Excess(k)' <= Excess(k) + 1
  <2>1. ~(Bucket(k).count < RateMax)
    BY <1>8 DEF Allows
  <2>2. k \in DOMAIN buckets /\ Bucket(k) = buckets[k]
    BY <2>1 DEF Bucket
  <2>3. CASE k \in DOMAIN buckets'
    <3>1. buckets'[k].count = buckets[k].count + 1 /\ buckets[k].count \in Nat
      BY <1>1, <1>5, <2>2, <2>3
    <3>2. Excess(k)' = buckets[k].count + 1 - RateMax /\ Excess(k) = buckets[k].count - RateMax
      BY <1>4, <1>6, <2>1, <2>2, <2>3, <3>1 DEF Excess
    <3> QED
      BY <1>4, <3>1, <3>2
  <2>4. CASE k \notin DOMAIN buckets'
    BY <1>4, <2>4 DEF Excess
  <2> QED
    BY <2>3, <2>4
<1> QED
  BY <1>3, <1>7, <1>8

\* The same of the next state.
LEMMA NextTyped ==
    /\ LimitIInv' => Excesses' \in [Keys -> Nat]
    /\ MetricsIInv' => \A r \in Routes, s \in Statuses : Seen(r, s)' \in Nat
<1>1. ASSUME LimitIInv' PROVE Excesses' \in [Keys -> Nat]
  <2>1. PICK D \in SUBSET Keys : buckets' \in [D -> Counter]
    BY <1>1 DEF LimitIInv, LimitTypeOK, Counter
  <2>2. \A k \in DOMAIN buckets' : buckets'[k].count \in Nat
    BY <2>1 DEF Counter
  <2>3. ASSUME NEW k \in Keys PROVE Excess(k)' \in Nat
    BY <2>2, Params DEF Excess
  <2> QED
    BY <2>3 DEF Excesses
<1>2. ASSUME MetricsIInv', NEW r \in Routes, NEW s \in Statuses PROVE Seen(r, s)' \in Nat
  <2>1. Histogram(Metric(r, s)')
    BY <1>2, NoMetricIsHistogram DEF Metric, MetricsIInv
  <2> QED
    BY <2>1 DEF Seen, Histogram
<1> QED
  BY <1>1, <1>2

\* A refused request is above the limit, and is observed; one that is let
\* through is not above it.
LEMMA RequestIsCounted ==
    ASSUME LimitIInv, LimitIInv', MetricsIInv, MetricsIInv', RefusalsAreCounted,
           NEW k \in Keys, Limit(k), now' = now,
           \A r \in Routes : Seen(r, 429)' >= Seen(r, 429),
           \/ Allows(k)
           \/ \E r \in Routes : Seen(r, 429)' = Seen(r, 429) + 1
    PROVE  RefusalsAreCounted'
<1> SUFFICES ASSUME RateMax > 0
             PROVE  SumFunction(Excesses') <= Seen("ask", 429)' + Seen("answer", 429)' + Seen("db", 429)'
  BY DEF RefusalsAreCounted, Excesses
<1> DEFINE f == Excesses
           g == Excesses'
           all == Seen("ask", 429) + Seen("answer", 429) + Seen("db", 429)
           after == Seen("ask", 429)' + Seen("answer", 429)' + Seen("db", 429)'
<1>1. f \in [Keys -> Nat] /\ g \in [Keys -> Nat] /\ IsFiniteSet(Keys)
  BY ExcessTyped, NextTyped
<1>2. \A r \in Routes : Seen(r, 429) \in Nat /\ Seen(r, 429)' \in Nat
  <2>1. 429 \in Statuses
    BY DEF Statuses
  <2> QED
    BY <2>1, SeenTyped, NextTyped
<1>3. SumFunction(f) <= all
  BY DEF RefusalsAreCounted, Excesses
<1>4. \A j \in Keys : f[j] = Excess(j) /\ g[j] = Excess(j)'
  BY DEF Excesses
<1>5. /\ all \in Nat /\ after \in Nat
      /\ after >= all
      /\ ~Allows(k) => after >= all + 1
  <2> DEFINE a(r) == Seen(r, 429)
             b(r) == Seen(r, 429)'
  <2>1. /\ a("ask") \in Nat /\ a("answer") \in Nat /\ a("db") \in Nat
        /\ b("ask") \in Nat /\ b("answer") \in Nat /\ b("db") \in Nat
        /\ b("ask") >= a("ask") /\ b("answer") >= a("answer") /\ b("db") >= a("db")
    BY <1>2 DEF Routes
  <2>2. ~Allows(k) => \/ b("ask") = a("ask") + 1
                      \/ b("answer") = a("answer") + 1
                      \/ b("db") = a("db") + 1
    BY DEF Routes
  <2> HIDE DEF a, b
  <2>3. /\ all = a("ask") + a("answer") + a("db")
        /\ after = b("ask") + b("answer") + b("db")
    BY DEF a, b
  <2> HIDE DEF all, after
  <2> QED
    BY <2>1, <2>2, <2>3
<1> HIDE DEF f, g, all, after
<1>6. CASE Allows(k)
  <2>1. \A j \in Keys : g[j] <= f[j]
    BY <1>4, <1>6, ExcessOfRequest
  <2>2. /\ SumFunction(g) \in Nat /\ SumFunction(f) \in Nat
        /\ SumFunction(g) <= SumFunction(f)
    BY <1>1, <2>1, SumOfLess
  <2>3. SumFunction(g) <= after
    BY <1>3, <1>5, <2>2
  <2> QED
    BY <2>3 DEF g, after
<1>7. CASE ~Allows(k)
  <2>1. /\ \A j \in Keys : j # k => g[j] <= f[j]
        /\ g[k] <= f[k] + 1
    BY <1>4, <1>7, ExcessOfRequest
  <2>2. /\ SumFunction(g) \in Nat /\ SumFunction(f) \in Nat
        /\ SumFunction(g) <= SumFunction(f) + 1
    BY <1>1, <2>1, SumOfOneMore
  <2>3. SumFunction(g) <= after
    BY <1>3, <1>5, <1>7, <2>2
  <2> QED
    BY <2>3 DEF g, after
<1> QED
  BY <1>6, <1>7

\* The requests that were answered.
Answered == {i \in DOMAIN requests : requests[i].status # "pending"}

LEMMA AnsweredIsFinite ==
    ASSUME MarketIInv
    PROVE  /\ IsFiniteSet(Answered) /\ Cardinality(Answered) \in Nat
           /\ DOMAIN requests = 1..Len(requests) /\ Len(requests) \in Nat
<1>1. DOMAIN requests = 1..Len(requests) /\ Len(requests) \in Nat
  BY DEF MarketIInv
<1>2. IsFiniteSet(1..Len(requests))
  BY <1>1, FS_Interval
<1>3. IsFiniteSet(Answered)
  BY <1>1, <1>2, FS_Subset DEF Answered
<1> QED
  BY <1>1, <1>3, FS_CardinalityType

\* createRequest adds a request when it answers 201.
LEMMA CreateIsCounted ==
    ASSUME MarketIInv, MetricsMatchRequests,
           NEW a \in Actors, NEW l \in DOMAIN lots, NEW grams \in Asks,
           CreateRequest(a, l, grams),
           Seen("ask", 201)' = IF AskStatus(a, l, grams) = 201 THEN Seen("ask", 201) + 1
                               ELSE Seen("ask", 201),
           Seen("answer", 200)' = Seen("answer", 200)
    PROVE  MetricsMatchRequests'
<1>1. Seen("ask", 201) = Len(requests) /\ Seen("answer", 200) = Cardinality(Answered)
  BY DEF MetricsMatchRequests, Answered
<1>2. Len(requests)' = Seen("ask", 201)' /\ Answered' = Answered
  <2>1. CASE AskStatus(a, l, grams) # 201
    BY <1>1, <2>1 DEF CreateRequest, Answered
  <2>2. CASE AskStatus(a, l, grams) = 201
    <3> DEFINE r == [lot |-> l, requester |-> a, grams |-> Rounded(grams),
                     status |-> "pending", by |-> {}]
    <3>1. requests' = Append(requests, r) /\ r.status = "pending"
      BY <2>2 DEF CreateRequest
    <3> HIDE DEF r
    <3>2. /\ Len(requests') = Len(requests) + 1 /\ DOMAIN requests' = 1..(Len(requests) + 1)
          /\ DOMAIN requests = 1..Len(requests) /\ Len(requests) \in Nat
          /\ \A i \in 1..Len(requests) : requests'[i] = requests[i]
          /\ requests'[Len(requests) + 1] = r
      BY <3>1 DEF MarketIInv
    <3>3. Answered' = Answered
      <4>1. ASSUME NEW i \in 1..(Len(requests) + 1), requests'[i].status # "pending"
            PROVE  i \in Answered
        BY <3>1, <3>2, <4>1 DEF Answered
      <4>2. ASSUME NEW i \in Answered
            PROVE  i \in DOMAIN requests' /\ requests'[i].status # "pending"
        BY <3>2 DEF Answered
      <4>3. Answered' = {i \in DOMAIN requests' : requests'[i].status # "pending"}
        BY DEF Answered
      <4> QED
        BY <3>2, <4>1, <4>2, <4>3
    <3> QED
      BY <1>1, <2>2, <3>2, <3>3
  <2> QED
    BY <2>1, <2>2
<1>3. Seen("ask", 201)' = Len(requests)' /\ Seen("answer", 200)' = Cardinality(Answered)'
  BY <1>1, <1>2
<1>4. Seen("answer", 200)' = Cardinality({j \in DOMAIN requests : requests[j].status # "pending"})'
  BY <1>3 DEF Answered
<1> QED
  BY <1>3, <1>4 DEF MetricsMatchRequests

\* updateRequest answers a request that was not answered when it answers 200.
LEMMA UpdateIsCounted ==
    ASSUME MarketIInv, MetricsMatchRequests,
           NEW a \in Actors, NEW i \in DOMAIN requests, NEW answer \in {"accepted", "declined"},
           UpdateRequest(a, i, answer),
           Seen("answer", 200)' = IF AnswerStatus(a, i, answer) = 200
                                  THEN Seen("answer", 200) + 1 ELSE Seen("answer", 200),
           Seen("ask", 201)' = Seen("ask", 201)
    PROVE  MetricsMatchRequests'
<1>1. Seen("ask", 201) = Len(requests) /\ Seen("answer", 200) = Cardinality(Answered)
  BY DEF MetricsMatchRequests, Answered
<1>2. Len(requests)' = Len(requests) /\ Cardinality(Answered)' = Seen("answer", 200)'
  <2>1. CASE AnswerStatus(a, i, answer) # 200
    BY <1>1, <2>1 DEF UpdateRequest, Answered
  <2>2. CASE AnswerStatus(a, i, answer) = 200
    <3>1. requests[i].status = "pending"
      BY <2>2 DEF AnswerStatus
    <3>2. requests' = [requests EXCEPT ![i].status = answer, ![i].by = {a}]
      BY <2>2 DEF UpdateRequest
    <3>3. requests \in Seq(Request) /\ requests[i] \in Request
      BY DEF MarketIInv
    <3>4. /\ DOMAIN requests' = DOMAIN requests /\ Len(requests') = Len(requests)
          /\ requests'[i].status = answer
          /\ \A j \in DOMAIN requests : j # i => requests'[j] = requests[j]
      BY <3>2, <3>3 DEF Request
    <3>5. Answered' = Answered \cup {i} /\ i \notin Answered
      <4>1. Answered' = {j \in DOMAIN requests' : requests'[j].status # "pending"}
        BY DEF Answered
      <4> QED
        BY <3>1, <3>4, <4>1 DEF Answered
    <3>6. Cardinality(Answered \cup {i}) = Cardinality(Answered) + 1
      BY <3>5, AnsweredIsFinite, FS_AddElement
    <3> QED
      BY <1>1, <2>2, <3>4, <3>5, <3>6
  <2> QED
    BY <2>1, <2>2
<1>3. Seen("ask", 201)' = Len(requests)'
  BY <1>1, <1>2
<1>4. Seen("answer", 200)' = Cardinality({j \in DOMAIN requests : requests[j].status # "pending"})'
  BY <1>2 DEF Answered
<1> QED
  BY <1>3, <1>4 DEF MetricsMatchRequests

\* When neither counters nor requests change, it is enough that no fewer 429s
\* are seen, and as many 201s and 200s.
LEMMA NothingToCount ==
    ASSUME LimitIInv, MetricsIInv, MetricsIInv', RefusalsAreCounted, buckets' = buckets,
           \A r \in Routes : Seen(r, 429)' >= Seen(r, 429)
    PROVE  RefusalsAreCounted'
<1> DEFINE a(r) == Seen(r, 429)
           b(r) == Seen(r, 429)'
           s == SumFunction(Excesses)
<1>1. /\ a("ask") \in Nat /\ a("answer") \in Nat /\ a("db") \in Nat
      /\ b("ask") \in Nat /\ b("answer") \in Nat /\ b("db") \in Nat
      /\ b("ask") >= a("ask") /\ b("answer") >= a("answer") /\ b("db") >= a("db")
  <2>1. 429 \in Statuses
    BY DEF Statuses
  <2> QED
    BY <2>1, SeenTyped, NextTyped DEF Routes
<1>2. s \in Nat
  BY ExcessTyped, SumOfLess
<1>3. Excesses' = Excesses
  BY DEF Excesses, Excess
<1>4. RateMax > 0 => s <= a("ask") + a("answer") + a("db")
  BY DEF RefusalsAreCounted, Excesses
<1>5. (RateMax > 0 => s <= b("ask") + b("answer") + b("db")) => RefusalsAreCounted'
  <2>1. SumFunction(Excesses') = s
    BY <1>3
  <2> HIDE DEF s
  <2> QED
    BY <2>1 DEF RefusalsAreCounted, Excesses
<1> HIDE DEF a, b, s
<1>6. RateMax > 0 => s <= b("ask") + b("answer") + b("db")
  BY <1>1, <1>2, <1>4
<1> QED
  BY <1>5, <1>6

LEMMA SameRequests ==
    ASSUME MetricsMatchRequests, requests' = requests,
           Seen("ask", 201)' = Seen("ask", 201), Seen("answer", 200)' = Seen("answer", 200)
    PROVE  MetricsMatchRequests'
<1>1. Seen("ask", 201)' = Len(requests)'
  BY DEF MetricsMatchRequests
<1>2. Seen("answer", 200)' = Cardinality({i \in DOMAIN requests : requests[i].status # "pending"})'
  BY DEF MetricsMatchRequests
<1> QED
  BY <1>1, <1>2 DEF MetricsMatchRequests

\* What the proofs below are about; the market and the limit are above.
Counts == MetricsIInv /\ WaitIInv /\ MetricsMatchRequests /\ RefusalsAreCounted

LEMMA RateTyped ==
    /\ MaxTime \in Nat /\ 0 \in 0..MaxTime
    /\ {200, 201, 400, 403, 404, 429, 500} = Statuses
    /\ {"ask", "answer", "db"} = Routes
  BY Params DEF Statuses, Routes

LEMMA CallIsCounted ==
    ASSUME WaitIInv, Called
    PROVE  calls' \in 0..MaxCalls /\ faults' \in 0..MaxFaults
<1>1. MaxCalls \in Nat /\ MaxFaults \in Nat
  BY GatewayAssumption
<1>2. calls \in 0..MaxCalls /\ faults \in 0..MaxFaults
  BY DEF WaitIInv
<1>3. calls < MaxCalls /\ calls' = calls + 1 /\ faults' = faults
  BY DEF Called
<1> QED
  BY <1>1, <1>2, <1>3

LEMMA AskKeepsCounts ==
    ASSUME GatewayIInv, LimitIInv', NEW a \in Actors, NEW l \in DOMAIN lots, NEW grams \in Asks,
           Ask(a, l, grams)
    PROVE  Counts'
<1> DEFINE k == KeyOf[a]
           status == IF Allows(k) THEN AskStatus(a, l, grams) ELSE 429
<1>1. /\ k \in Keys /\ Limit(k) /\ now' = now /\ waiting' = waiting /\ Called
      /\ Observe("ask", status, 0)
      /\ Allows(k) => CreateRequest(a, l, grams)
      /\ ~Allows(k) => requests' = requests
  BY GatewayAssumption DEF Ask, Refused, marketVars
<1>2. AskStatus(a, l, grams) \in {201, 400, 403, 404}
  BY DEF AskStatus
<1>3. /\ status \in Statuses
      /\ Allows(k) => status # 429 /\ status = AskStatus(a, l, grams)
      /\ ~Allows(k) => status = 429
  BY <1>2 DEF Statuses
<1> HIDE DEF status, k
<1>4. /\ MetricsIInv'
      /\ \A r \in Routes, s \in Statuses :
             Seen(r, s)' = IF r = "ask" /\ s = status THEN Seen(r, s) + 1 ELSE Seen(r, s)
  BY <1>1, <1>3, RateTyped, ObserveIsSeen DEF GatewayIInv
<1>5. \A r \in Routes, s \in Statuses : Seen(r, s) \in Nat
  BY SeenTyped DEF GatewayIInv
<1>6. WaitIInv'
  <2>1. WaitIInv
    BY DEF GatewayIInv
  <2>2. calls' \in 0..MaxCalls /\ faults' \in 0..MaxFaults
    BY <1>1, <2>1, CallIsCounted
  <2> QED
    BY <1>1, <2>1, <2>2 DEF WaitIInv
<1>7. MetricsMatchRequests'
  <2>1. /\ Seen("ask", 201)' = IF status = 201 THEN Seen("ask", 201) + 1 ELSE Seen("ask", 201)
        /\ Seen("answer", 200)' = Seen("answer", 200)
    BY <1>4, RateTyped
  <2>2. CASE Allows(k)
    BY <1>1, <1>3, <2>1, <2>2, CreateIsCounted DEF GatewayIInv
  <2>3. CASE ~Allows(k)
    BY <1>1, <1>3, <2>1, <2>3, SameRequests DEF GatewayIInv
  <2> QED
    BY <2>2, <2>3
<1>8. RefusalsAreCounted'
  <2>1. \A r \in Routes : Seen(r, 429)' >= Seen(r, 429)
    BY <1>4, <1>5, RateTyped
  <2>2. ~Allows(k) => Seen("ask", 429)' = Seen("ask", 429) + 1
    BY <1>3, <1>4, RateTyped
  <2>3. Allows(k) \/ \E r \in Routes : Seen(r, 429)' = Seen(r, 429) + 1
    BY <2>2, RateTyped
  <2> QED
    BY <1>1, <1>4, <2>1, <2>3, RequestIsCounted DEF GatewayIInv
<1> QED
  BY <1>4, <1>6, <1>7, <1>8 DEF Counts

LEMMA AnswerKeepsCounts ==
    ASSUME GatewayIInv, LimitIInv', NEW a \in Actors, NEW i \in DOMAIN requests,
           NEW answer \in {"accepted", "declined"}, Answer(a, i, answer)
    PROVE  Counts'
<1> DEFINE k == KeyOf[a]
           status == IF Allows(k) THEN AnswerStatus(a, i, answer) ELSE 429
<1>1. /\ k \in Keys /\ Limit(k) /\ now' = now /\ waiting' = waiting /\ Called
      /\ Observe("answer", status, 0)
      /\ Allows(k) => UpdateRequest(a, i, answer)
      /\ ~Allows(k) => requests' = requests
  BY GatewayAssumption DEF Answer, Refused, marketVars
<1>2. AnswerStatus(a, i, answer) \in {200, 400, 403}
  BY DEF AnswerStatus
<1>3. /\ status \in Statuses
      /\ Allows(k) => status # 429 /\ status = AnswerStatus(a, i, answer)
      /\ ~Allows(k) => status = 429
  BY <1>2 DEF Statuses
<1> HIDE DEF status, k
<1>4. /\ MetricsIInv'
      /\ \A r \in Routes, s \in Statuses :
             Seen(r, s)' = IF r = "answer" /\ s = status THEN Seen(r, s) + 1 ELSE Seen(r, s)
  BY <1>1, <1>3, RateTyped, ObserveIsSeen DEF GatewayIInv
<1>5. \A r \in Routes, s \in Statuses : Seen(r, s) \in Nat
  BY SeenTyped DEF GatewayIInv
<1>6. WaitIInv'
  <2>1. WaitIInv
    BY DEF GatewayIInv
  <2>2. calls' \in 0..MaxCalls /\ faults' \in 0..MaxFaults
    BY <1>1, <2>1, CallIsCounted
  <2> QED
    BY <1>1, <2>1, <2>2 DEF WaitIInv
<1>7. MetricsMatchRequests'
  <2>1. /\ Seen("answer", 200)' = IF status = 200 THEN Seen("answer", 200) + 1
                                  ELSE Seen("answer", 200)
        /\ Seen("ask", 201)' = Seen("ask", 201)
    BY <1>4, RateTyped
  <2>2. CASE Allows(k)
    BY <1>1, <1>3, <2>1, <2>2, UpdateIsCounted DEF GatewayIInv
  <2>3. CASE ~Allows(k)
    BY <1>1, <1>3, <2>1, <2>3, SameRequests DEF GatewayIInv
  <2> QED
    BY <2>2, <2>3
<1>8. RefusalsAreCounted'
  <2>1. \A r \in Routes : Seen(r, 429)' >= Seen(r, 429)
    BY <1>4, <1>5, RateTyped
  <2>2. ~Allows(k) => Seen("answer", 429)' = Seen("answer", 429) + 1
    BY <1>3, <1>4, RateTyped
  <2>3. Allows(k) \/ \E r \in Routes : Seen(r, 429)' = Seen(r, 429) + 1
    BY <2>2, RateTyped
  <2> QED
    BY <1>1, <1>4, <2>1, <2>3, RequestIsCounted DEF GatewayIInv
<1> QED
  BY <1>4, <1>6, <1>7, <1>8 DEF Counts

\* Metrics that stay.
LEMMA SameMetrics ==
    ASSUME metrics' = metrics
    PROVE  /\ MetricsIInv => MetricsIInv'
           /\ \A r \in Routes, s \in Statuses : Seen(r, s)' = Seen(r, s)
<1>1. \A r \in Routes, s \in Statuses : Seen(r, s)' = Seen(r, s)
  BY DEF Seen, Metric
<1> QED
  BY <1>1 DEF MetricsIInv

LEMMA StartKeepsCounts ==
    ASSUME GatewayIInv, LimitIInv', NEW k \in Keys, NEW s \in Slots, Start(k, s)
    PROVE  Counts'
<1>1. /\ Limit(k) /\ now' = now /\ requests' = requests /\ Called
      /\ \/ ~Allows(k) /\ Observe("db", 429, 0) /\ waiting' = waiting
         \/ Allows(k) /\ metrics' = metrics /\ waiting' = [waiting EXCEPT ![s] = now]
  BY DEF Start, Refused, marketVars
<1>2. now \in 0..MaxTime
  BY CountersTyped DEF GatewayIInv, LimitIInv
<1>3. WaitIInv'
  <2>1. WaitIInv
    BY DEF GatewayIInv
  <2>2. calls' \in 0..MaxCalls /\ faults' \in 0..MaxFaults
    BY <1>1, <2>1, CallIsCounted
  <2>3. waiting \in [Slots -> 0..MaxTime \cup {-1}] /\ \A t \in Slots : waiting[t] <= now
    BY <2>1 DEF WaitIInv
  <2>4. waiting' \in [Slots -> 0..MaxTime \cup {-1}]
    BY <1>1, <1>2, <2>3
  <2>5. \A t \in Slots : waiting'[t] <= now
    BY <1>1, <1>2, <2>3, Params
  <2> QED
    BY <1>1, <2>2, <2>4, <2>5 DEF WaitIInv
<1>4. \A r \in Routes, t \in Statuses : Seen(r, t) \in Nat
  BY SeenTyped DEF GatewayIInv
<1>5. CASE ~Allows(k)
  <2>1. /\ MetricsIInv'
        /\ \A r \in Routes, t \in Statuses :
               Seen(r, t)' = IF r = "db" /\ t = 429 THEN Seen(r, t) + 1 ELSE Seen(r, t)
    BY <1>1, <1>5, RateTyped, ObserveIsSeen DEF GatewayIInv
  <2>2. MetricsMatchRequests'
    <3>1. Seen("ask", 201)' = Seen("ask", 201) /\ Seen("answer", 200)' = Seen("answer", 200)
      BY <2>1, RateTyped
    <3> QED
      BY <1>1, <3>1, SameRequests DEF GatewayIInv
  <2>3. RefusalsAreCounted'
    <3>1. \A r \in Routes : Seen(r, 429)' >= Seen(r, 429)
      BY <1>4, <2>1, RateTyped
    <3>2. \E r \in Routes : Seen(r, 429)' = Seen(r, 429) + 1
      BY <2>1, RateTyped
    <3> QED
      BY <1>1, <2>1, <3>1, <3>2, RequestIsCounted DEF GatewayIInv
  <2> QED
    BY <1>3, <2>1, <2>2, <2>3 DEF Counts
<1>6. CASE Allows(k)
  <2>1. MetricsIInv' /\ \A r \in Routes, t \in Statuses : Seen(r, t)' = Seen(r, t)
    BY <1>1, <1>6, SameMetrics DEF GatewayIInv
  <2>2. MetricsMatchRequests'
    <3>1. Seen("ask", 201)' = Seen("ask", 201) /\ Seen("answer", 200)' = Seen("answer", 200)
      BY <2>1, RateTyped
    <3> QED
      BY <1>1, <3>1, SameRequests DEF GatewayIInv
  <2>3. RefusalsAreCounted'
    <3>1. \A r \in Routes : Seen(r, 429)' >= Seen(r, 429)
      BY <1>4, <2>1, RateTyped
    <3> QED
      BY <1>1, <1>6, <2>1, <3>1, RequestIsCounted DEF GatewayIInv
  <2> QED
    BY <1>3, <2>1, <2>2, <2>3 DEF Counts
<1> QED
  BY <1>5, <1>6

LEMMA FinishKeepsCounts ==
    ASSUME GatewayIInv, NEW s \in Slots, NEW status \in {200, 500}, Finish(s, status)
    PROVE  Counts'
<1>1. /\ waiting[s] >= 0 /\ Observe("db", status, now - waiting[s])
      /\ waiting' = [waiting EXCEPT ![s] = -1] /\ now' = now
      /\ buckets' = buckets /\ requests' = requests /\ calls' = calls /\ faults' = faults
  BY DEF Finish, limitVars, marketVars
<1>2. now \in 0..MaxTime /\ MaxTime \in Nat
  BY CountersTyped, Params DEF GatewayIInv, LimitIInv
<1>3. /\ waiting \in [Slots -> 0..MaxTime \cup {-1}] /\ \A t \in Slots : waiting[t] <= now
      /\ calls \in 0..MaxCalls /\ faults \in 0..MaxFaults
  BY DEF GatewayIInv, WaitIInv
<1>4. now - waiting[s] \in 0..MaxTime
  <2>1. waiting[s] \in 0..MaxTime \cup {-1} /\ waiting[s] <= now
    BY <1>3
  <2> QED
    BY <1>1, <1>2, <2>1
<1>5. WaitIInv'
  <2>1. waiting' \in [Slots -> 0..MaxTime \cup {-1}]
    BY <1>1, <1>3
  <2>2. \A t \in Slots : waiting'[t] <= now
    BY <1>1, <1>2, <1>3
  <2> QED
    BY <1>1, <1>3, <2>1, <2>2 DEF WaitIInv
<1>6. status \in Statuses /\ status # 429
  BY RateTyped
<1>7. /\ MetricsIInv'
      /\ \A r \in Routes, t \in Statuses :
             Seen(r, t)' = IF r = "db" /\ t = status THEN Seen(r, t) + 1 ELSE Seen(r, t)
  <2> DEFINE d == now - waiting[s]
  <2>1. d \in 0..MaxTime /\ Observe("db", status, d) /\ MetricsIInv
    BY <1>1, <1>4 DEF GatewayIInv
  <2> HIDE DEF d
  <2>2. "db" \in Routes
    BY RateTyped
  <2> QED
    BY <1>6, <2>1, <2>2, ObserveIsSeen
<1>8. \A r \in Routes, t \in Statuses : Seen(r, t) \in Nat
  BY SeenTyped DEF GatewayIInv
<1>9. MetricsMatchRequests'
  <2>1. Seen("ask", 201)' = Seen("ask", 201) /\ Seen("answer", 200)' = Seen("answer", 200)
    BY <1>7, RateTyped
  <2> QED
    BY <1>1, <2>1, SameRequests DEF GatewayIInv
<1>10. RefusalsAreCounted'
  <2>1. \A r \in Routes : Seen(r, 429)' >= Seen(r, 429)
    BY <1>6, <1>7, <1>8, RateTyped
  <2> QED
    BY <1>1, <1>7, <2>1, NothingToCount DEF GatewayIInv
<1> QED
  BY <1>5, <1>7, <1>9, <1>10 DEF Counts

\* The steps that observe nothing: a lot moves, the clock goes on.
LEMMA OthersKeepCounts ==
    ASSUME GatewayIInv, metrics' = metrics, buckets' = buckets, requests' = requests,
           waiting' = waiting, calls' = calls, faults' = faults, now' = now \/ Tick
    PROVE  Counts'
<1>1. MetricsIInv' /\ \A r \in Routes, t \in Statuses : Seen(r, t)' = Seen(r, t)
  BY SameMetrics DEF GatewayIInv
<1>2. \A r \in Routes, t \in Statuses : Seen(r, t) \in Nat
  BY SeenTyped DEF GatewayIInv
<1>3. WaitIInv'
  <2>1. now \in 0..MaxTime /\ MaxTime \in Nat /\ now' \in Int /\ now <= now'
    <3>1. now \in 0..MaxTime /\ MaxTime \in Nat
      BY CountersTyped, Params DEF GatewayIInv, LimitIInv
    <3> QED
      BY <3>1 DEF Tick
  <2>2. /\ waiting \in [Slots -> 0..MaxTime \cup {-1}] /\ \A t \in Slots : waiting[t] <= now
        /\ calls \in 0..MaxCalls /\ faults \in 0..MaxFaults
    BY DEF GatewayIInv, WaitIInv
  <2>3. \A t \in Slots : waiting[t] <= now'
    <3> SUFFICES ASSUME NEW t \in Slots PROVE waiting[t] <= now'
      OBVIOUS
    <3>1. waiting[t] \in Int /\ waiting[t] <= now
      BY <2>1, <2>2
    <3> QED
      BY <2>1, <3>1
  <2> QED
    BY <2>2, <2>3 DEF WaitIInv
<1>4. MetricsMatchRequests'
  <2>1. Seen("ask", 201)' = Seen("ask", 201) /\ Seen("answer", 200)' = Seen("answer", 200)
    BY <1>1, RateTyped
  <2> QED
    BY <2>1, SameRequests DEF GatewayIInv
<1>5. RefusalsAreCounted'
  <2>1. \A r \in Routes : Seen(r, 429)' >= Seen(r, 429)
    BY <1>1, <1>2, RateTyped
  <2> QED
    BY <1>1, <2>1, NothingToCount DEF GatewayIInv
<1> QED
  BY <1>1, <1>3, <1>4, <1>5 DEF Counts

\* A memory that is empty: nothing is seen and nobody is above the limit.
LEMMA EmptyCounts ==
    /\ metrics = <<>> => MetricsIInv /\ \A r \in Routes, s \in Statuses : Seen(r, s) = 0
    /\ DOMAIN buckets = {} => SumFunction(Excesses) = 0
<1>1. DOMAIN <<>> = {}
  OBVIOUS
<1>2. ASSUME metrics = <<>>
      PROVE  MetricsIInv /\ \A r \in Routes, s \in Statuses : Seen(r, s) = 0
  <2>1. \A r \in Routes, s \in Statuses : Seen(r, s) = 0
    BY <1>1, <1>2 DEF Seen, Metric, NoMetric
  <2>2. MetricsIInv
    BY <1>1, <1>2 DEF MetricsIInv
  <2> QED
    BY <2>1, <2>2
<1>3. ASSUME DOMAIN buckets = {} PROVE SumFunction(Excesses) = 0
  <2>1. Excesses \in [Keys -> Nat] /\ \A k \in Keys : Excesses[k] = 0
    BY <1>3 DEF Excesses, Excess
  <2> QED
    BY <2>1, RateLimitAssumption, SumOfNone
<1> QED
  BY <1>2, <1>3

LEMMA NoAnswers ==
    ASSUME NEW rs, rs = <<>>
    PROVE  Len(rs) = 0 /\ Cardinality({i \in DOMAIN rs : rs[i].status # "pending"}) = 0
<1>1. Len(rs) = 0 /\ {i \in DOMAIN rs : rs[i].status # "pending"} = {}
  OBVIOUS
<1> QED
  BY <1>1, FS_EmptySet

LEMMA CountsInitially == Init => Counts
<1> SUFFICES ASSUME Init PROVE Counts
  OBVIOUS
<1>1. /\ metrics = <<>> /\ buckets = <<>> /\ requests = <<>> /\ now = 0
      /\ waiting = [s \in Slots |-> -1] /\ calls = 0 /\ faults = 0
  BY DEF Init, LimitInit, MarketInit
<1>2. MetricsIInv /\ \A r \in Routes, s \in Statuses : Seen(r, s) = 0
  BY <1>1, EmptyCounts
<1>3. SumFunction(Excesses) = 0
  BY <1>1, EmptyLimit, EmptyCounts
<1>4. WaitIInv
  <2>1. MaxCalls \in Nat /\ MaxFaults \in Nat
    BY GatewayAssumption
  <2>2. 0 \in 0..MaxCalls /\ 0 \in 0..MaxFaults /\ -1 <= 0
    BY <2>1
  <2> QED
    BY <1>1, <2>2 DEF WaitIInv
<1>5. MetricsMatchRequests
  <2>1. Len(requests) = 0 /\ Cardinality({i \in DOMAIN requests : requests[i].status # "pending"}) = 0
    BY <1>1, NoAnswers
  <2>2. Seen("ask", 201) = 0 /\ Seen("answer", 200) = 0
    BY <1>2, RateTyped
  <2> QED
    BY <2>1, <2>2 DEF MetricsMatchRequests
<1>6. RefusalsAreCounted
  BY <1>2, <1>3, RateTyped DEF RefusalsAreCounted, Excesses
<1> QED
  BY <1>2, <1>4, <1>5, <1>6 DEF Counts

LEMMA RestartKeepsCounts ==
    ASSUME GatewayIInv, Restart
    PROVE  Counts'
<1>1. /\ metrics' = <<>> /\ buckets' = <<>> /\ requests' = <<>> /\ now' = now
      /\ waiting' = [s \in Slots |-> -1] /\ calls' = calls
      /\ faults < MaxFaults /\ faults' = faults + 1
  BY DEF Restart
<1>2. MetricsIInv' /\ \A r \in Routes, s \in Statuses : Seen(r, s)' = 0
  <2>1. DOMAIN <<>> = {}
    OBVIOUS
  <2>2. \A r \in Routes, s \in Statuses : Seen(r, s)' = 0
    BY <1>1, <2>1 DEF Seen, Metric, NoMetric
  <2>3. MetricsIInv'
    BY <1>1, <2>1 DEF MetricsIInv
  <2> QED
    BY <2>2, <2>3
<1>3. SumFunction(Excesses') = 0
  <2>1. DOMAIN buckets' = {}
    BY <1>1, EmptyLimit
  <2>2. Excesses' \in [Keys -> Nat] /\ \A k \in Keys : Excesses'[k] = 0
    BY <2>1 DEF Excesses, Excess
  <2> QED
    BY <2>2, RateLimitAssumption, SumOfNone
<1>4. WaitIInv'
  <2>1. MaxCalls \in Nat /\ MaxFaults \in Nat
    BY GatewayAssumption
  <2>2. calls \in 0..MaxCalls /\ faults + 1 \in 0..MaxFaults
    BY <1>1, <2>1 DEF GatewayIInv, WaitIInv
  <2>3. now' \in 0..MaxTime /\ -1 <= now'
    <3>1. now \in 0..MaxTime
      BY CountersTyped DEF GatewayIInv, LimitIInv
    <3> QED
      BY <1>1, <3>1, Params
  <2> QED
    BY <1>1, <2>2, <2>3 DEF WaitIInv
<1>5. MetricsMatchRequests'
  <2>1. /\ Len(requests') = 0
        /\ Cardinality({i \in DOMAIN requests' : requests'[i].status # "pending"}) = 0
    BY <1>1, NoAnswers
  <2>2. Seen("ask", 201)' = 0 /\ Seen("answer", 200)' = 0
    BY <1>2, RateTyped
  <2>3. Seen("ask", 201)' = Len(requests)'
    BY <2>1, <2>2
  <2>4. Seen("answer", 200)' = Cardinality({i \in DOMAIN requests : requests[i].status # "pending"})'
    BY <2>1, <2>2
  <2> QED
    BY <2>3, <2>4 DEF MetricsMatchRequests
<1>6. RefusalsAreCounted'
  BY <1>2, <1>3, RateTyped DEF RefusalsAreCounted, Excesses
<1> QED
  BY <1>2, <1>4, <1>5, <1>6 DEF Counts

LEMMA GatewayInitially == Init => GatewayIInv
  BY MarketInitially, LimitInitially, CountsInitially DEF Counts, GatewayIInv

LEMMA GatewayKeeps == GatewayIInv /\ [Next]_vars => GatewayIInv'
<1> SUFFICES ASSUME GatewayIInv, [Next]_vars PROVE GatewayIInv'
  OBVIOUS
<1>1. MarketIInv' /\ LimitIInv'
  BY StepOfMarket, MarketStepKeeps, StepOfLimit, LimitStepKeeps DEF GatewayIInv
<1>2. Counts'
  <2>1. CASE \E a \in Actors, l \in DOMAIN lots, grams \in Asks : Ask(a, l, grams)
    BY <1>1, <2>1, AskKeepsCounts
  <2>2. CASE \E a \in Actors, i \in DOMAIN requests, answer \in {"accepted", "declined"} :
                Answer(a, i, answer)
    BY <1>1, <2>2, AnswerKeepsCounts
  <2>3. CASE \E k \in Keys, s \in Slots : Start(k, s)
    BY <1>1, <2>3, StartKeepsCounts
  <2>4. CASE \E s \in Slots, status \in {200, 500} : Finish(s, status)
    BY <2>4, FinishKeepsCounts
  <2>5. CASE \E l \in DOMAIN lots : Move(l)
    BY <2>5, OthersKeepCounts DEF Move, LotMoves, limitVars
  <2>6. CASE Clock
    BY <2>6, OthersKeepCounts DEF Clock, limitVars, marketVars
  <2>7. CASE Restart
    BY <2>7, RestartKeepsCounts
  <2>8. CASE UNCHANGED vars
    BY <2>8, OthersKeepCounts DEF vars, limitVars, marketVars
  <2> QED
    BY <2>1, <2>2, <2>3, <2>4, <2>5, <2>6, <2>7, <2>8 DEF Next
<1> QED
  BY <1>1, <1>2 DEF GatewayIInv, Counts

(***************************************************************************)
(* RateLimitInterceptor, MetricsService and MarketplaceService together:   *)
(* no client gets twice its limit or more in the time of a window, nor     *)
(* less than its share, metrics are histograms and match what the memory   *)
(* holds, and the refused requests are in them, for any clients, limits,   *)
(* windows, bounds, actors and lots.                                       *)
(***************************************************************************)
THEOREM GatewayIsSound == Spec => []GatewayInv
<1>1. GatewayIInv => GatewayInv
  <2> SUFFICES ASSUME GatewayIInv PROVE GatewayInv
    OBVIOUS
  <2>1. LimitTypeOK /\ SlidingBound /\ ShareIsGiven
    BY LimitIsRight DEF GatewayIInv, LimitIInv
  <2>2. MarketTypeOK
    BY DEF GatewayIInv, MarketIInv, MarketTypeOK, Lot, Request
  <2>3. HistogramIsCumulative
    BY DEF GatewayIInv, MetricsIInv, Histogram, HistogramIsCumulative
  <2>4. TypeOK
    BY <2>1, <2>2 DEF GatewayIInv, MetricsIInv, WaitIInv, Routes, Statuses, TypeOK
  <2> QED
    BY <2>1, <2>3, <2>4 DEF GatewayIInv, GatewayInv
<1> QED
  BY <1>1, GatewayInitially, GatewayKeeps, PTL DEF Spec
================================================================================
