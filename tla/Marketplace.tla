------------------------------ MODULE Marketplace ------------------------------
(***************************************************************************)
(* MarketplaceService: requests for lots, kept in memory only.  A lot is   *)
(* moved by transfers (see Custody) while requests for it wait.            *)
(* Quantities are in grams; a request is kept in steps of ten grams.       *)
(***************************************************************************)
EXTENDS Integers, Sequences

CONSTANTS
    Actors, RoleOf,  \* actors and their roles
    Lots,            \* the lots at the start
    Asks             \* quantities asked for, in grams

Roles == {"FARMER", "COLLECTOR", "COOPERATIVE", "PACKING", "EXPORTER", "ADMIN"}
Bands == {"green", "yellow", "red"}

ASSUME MarketplaceAssumption ==
    /\ RoleOf \in [Actors -> Roles] /\ Asks \subseteq Int
    /\ Lots \in Seq([farmer : Actors, grams : Nat \ {0}, accepted : BOOLEAN, band : Bands,
                     stage : 0..3])

VARIABLES
    lots,      \* store.batches
    requests   \* in the order of their arrival; by is no field of the code

marketVars == <<lots, requests>>

MarketTypeOK ==
    /\ lots \in Seq([farmer : Actors, grams : Nat \ {0}, accepted : BOOLEAN, band : Bands,
                     stage : 0..3])
    /\ requests \in Seq([lot : DOMAIN Lots, requester : Actors, grams : Nat,
                         status : {"pending", "accepted", "declined"}, by : SUBSET Actors])

MarketInit == lots = Lots /\ requests = <<>>

\* transferCore moves the lot on; its band stays what the harvest was given.
LotMoves(l) ==
    /\ lots[l].stage < 3
    /\ lots' = [lots EXCEPT ![l].stage = @ + 1]
    /\ UNCHANGED requests

\* What lots() lists.
Listed == {l \in DOMAIN lots : lots[l].accepted /\ lots[l].stage < 3 /\ lots[l].band # "red"}

\* Math.round(kg * 100) / 100
Rounded(grams) == ((grams + 5) \div 10) * 10

MayAsk(a) == RoleOf[a] # "FARMER"

\* Mutant: the quantity of the lot is not looked at.
AskStatusUnbounded(a, l, grams) ==
    IF ~lots[l].accepted \/ lots[l].band = "red" THEN 404
    ELSE IF lots[l].farmer = a THEN 403
    ELSE IF grams <= 0 THEN 400 ELSE 201

\* createRequest; the stage of the lot is not looked at.
AskStatus(a, l, grams) ==
    IF ~lots[l].accepted \/ lots[l].band = "red" THEN 404
    ELSE IF lots[l].farmer = a THEN 403
    ELSE IF grams <= 0 \/ grams > lots[l].grams THEN 400 ELSE 201

CreateRequest(a, l, grams) ==
    /\ requests' = IF AskStatus(a, l, grams) # 201 THEN requests
                   ELSE Append(requests, [lot |-> l, requester |-> a, grams |-> Rounded(grams),
                                          status |-> "pending", by |-> {}])
    /\ UNCHANGED lots

\* The condition of updateRequest, and that of requestsFor for those who have
\* not asked themselves.
Answers(a, r) == RoleOf[a] \in {"ADMIN", "COOPERATIVE"} \/ lots[r.lot].farmer = a
RequestsFor(a) ==
    {i \in DOMAIN requests : requests[i].requester = a \/ Answers(a, requests[i])}

\* Mutant: an answer can be changed.
AnswerStatusAgain(a, i, answer) ==
    IF ~Answers(a, requests[i]) THEN 403
    ELSE IF answer \notin {"accepted", "declined"} THEN 400 ELSE 200

\* updateRequest: neither lot nor the other requests for it are looked at.
AnswerStatus(a, i, answer) ==
    IF ~Answers(a, requests[i]) THEN 403
    ELSE IF requests[i].status # "pending" \/ answer \notin {"accepted", "declined"}
    THEN 400 ELSE 200

UpdateRequest(a, i, answer) ==
    /\ requests' = IF AnswerStatus(a, i, answer) # 200 THEN requests
                   ELSE [requests EXCEPT ![i].status = answer, ![i].by = {a}]
    /\ UNCHANGED lots

\* What is listed can be had: a lot that lots() shows can be asked for, whole,
\* by whoever may ask and has not grown it.
ListedCanBeAsked ==
    \A l \in Listed, a \in Actors :
        MayAsk(a) /\ a # lots[l].farmer => AskStatus(a, l, lots[l].grams) = 201

\* A request is rounded after it is compared with the lot: it may exceed it by
\* less than ten grams, and be for nothing, and no more than that.
AskedWithinLot ==
    \A i \in DOMAIN requests : requests[i].grams < lots[requests[i].lot].grams + 10

\* While the server runs, who asked keeps the first answer, whatever is asked
\* and answered later and wherever the lot goes.
AnsweredOnce ==
    [][\A i \in DOMAIN requests : requests[i].status # "pending" /\ i \in DOMAIN requests' =>
           requests'[i] = requests[i]]_requests

\* Who asked a lot's farmer is answered by the farmer, a cooperative or an
\* admin, who sees the request; a buyer does not answer for himself.
AnsweredBySeller ==
    \A i \in DOMAIN requests : \A a \in requests[i].by :
        /\ i \in RequestsFor(a)
        /\ requests[i].requester = a => RoleOf[a] \in {"ADMIN", "COOPERATIVE"}

\* What is listed, asked for and answered belongs together.
MarketInv == ListedCanBeAsked /\ AskedWithinLot /\ AnsweredBySeller
=============================================================================
