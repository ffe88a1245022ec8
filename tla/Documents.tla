-------------------------------- MODULE Documents --------------------------------
(***************************************************************************)
(* What leaves the system: GTINs, the EPCIS document, the canonical form   *)
(* that payloads are hashed in, and the dossier.                           *)
(***************************************************************************)
EXTENDS Integers, Sequences, FiniteSets, SequencesExt, TLC

(***************************************************************************)
(* GTINs, as sequences of digits.                                          *)
(***************************************************************************)

\* The last digits of the GTINs of the crops; all begin with 89300000000.
CROP_IDENTITY ==
    [durian |-> <<1, 9>>, mango |-> <<2, 6>>, coffee |-> <<3, 3>>, dragon_fruit |-> <<4, 0>>,
     pomelo |-> <<5, 7>>, longan |-> <<6, 4>>, avocado |-> <<7, 1>>, mangosteen |-> <<8, 8>>]

Gtin(crop) == <<8, 9, 3, 0, 0, 0, 0, 0, 0, 0, 0>> \o CROP_IDENTITY[crop]

\* Weights 3, 1, 3, ... from the right, the check digit left out.
GtinWeight(i, s) == IF (Len(s) - 1 - i) % 2 = 0 THEN 3 ELSE 1

CheckSum(s) ==
    LET sum[i \in 0..(Len(s) - 1)] == IF i = 0 THEN 0 ELSE sum[i - 1] + s[i] * GtinWeight(i, s)
    IN  sum[Len(s) - 1]

IsValidGtin(s) == Len(s) \in {8, 12, 13, 14} /\ (10 - (CheckSum(s) % 10)) % 10 = s[Len(s)]

\* The GTIN of every crop is valid, and no longer when one digit is changed,
\* so that no mistyped digit leads to another crop.
GtinsAreSafe(crop) ==
    /\ IsValidGtin(Gtin(crop))
    /\ \A i \in 1..13, d \in 0..9 : d # Gtin(crop)[i] => ~IsValidGtin([Gtin(crop) EXCEPT ![i] = d])

(***************************************************************************)
(* Digital links: a GTIN, the name of a lot and its serial number.  Every  *)
(* lot of the server has serial 0001.                                      *)
(***************************************************************************)

NoLot == [gtin |-> <<>>]
LotOf(crop) == [gtin |-> Gtin(crop)]

\* getDemoGtin: the mini app guesses the GTIN from the prefix of the lot.
DemoGtin(crop) == Gtin(IF crop \in {"mango", "coffee"} THEN crop ELSE "durian")

\* resolveOrRecoverBatch: a lot is made up for a name that is not known but
\* looks like one, with the GTIN it was asked by.
Resolved(lot, gtin) == IF lot = NoLot THEN [gtin |-> gtin] ELSE lot

VerifyIdentity(lot, gtin) ==
    IF ~IsValidGtin(gtin) THEN 400
    ELSE IF Resolved(lot, gtin).gtin # gtin THEN 404 ELSE 200

\* The portal's link, made of the identity of the lot, opens it, and with a
\* digit changed it opens nothing.  The mini app's link opens the lots of three
\* crops; for the others it is answered with 404, and if it was followed before
\* the lot was there, the portal's is.
LinksOpenTheLot(crop) ==
    LET lot == LotOf(crop)
        guessed == crop \in {"durian", "mango", "coffee"} IN
    /\ VerifyIdentity(lot, Gtin(crop)) = 200
    /\ \A i \in 1..13, d \in 0..9 :
          d # Gtin(crop)[i] => VerifyIdentity(lot, [Gtin(crop) EXCEPT ![i] = d]) = 400
    /\ VerifyIdentity(lot, DemoGtin(crop)) = IF guessed THEN 200 ELSE 404
    /\ VerifyIdentity(Resolved(NoLot, DemoGtin(crop)), Gtin(crop)) = IF guessed THEN 200 ELSE 404

(***************************************************************************)
(* Canonical JSON.  A value is an atom, an array or an object; the members *)
(* of an object are a sequence, in the order they were written.            *)
(***************************************************************************)

Atom(v) == [kind |-> "atom", value |-> v]
Array(s) == [kind |-> "array", items |-> s]
Object(s) == [kind |-> "object", members |-> s]
Member(k, v) == [key |-> k, value |-> v]
Undefined == Atom("undefined")

\* JSON.stringify: no members without a value, null for an item without one.
Given(members) == SelectSeq(members, LAMBDA m : m.value # Undefined)

\* Mutant: members stay in the order they were written.
SortedAsWritten(members) == members

Sorted(members) == SortSeq(members, LAMBDA x, y : x.key < y.key)

Depth == 4 \* bound: how deep a value is nested

\* A value and all values inside of it.
Parts(v) ==
    LET Inside(x) == IF x.kind = "object" THEN {x.members[i].value : i \in DOMAIN x.members}
                     ELSE IF x.kind = "array" THEN {x.items[i] : i \in DOMAIN x.items} ELSE {}
        parts[n \in 0..Depth] ==
            IF n = 0 THEN {v} ELSE parts[n - 1] \cup UNION {Inside(x) : x \in parts[n - 1]}
    IN  parts[Depth]

\* JSON.stringify(sortValue(v)); sha256 hashes it.
Canonical(v) ==
    LET canonical[x \in Parts(v)] ==
            IF x.kind = "object"
            THEN LET ms == Sorted(Given(x.members)) IN
                     Object([i \in DOMAIN ms |-> Member(ms[i].key, canonical[ms[i].value])])
            ELSE IF x.kind = "array" THEN Array([i \in DOMAIN x.items |-> canonical[x.items[i]]])
            ELSE IF x = Undefined THEN Atom("null") ELSE x
    IN  canonical[v]

\* External: a jsonb column keeps the members in an order of its own.
Jsonb(v) ==
    LET stored[x \in Parts(v)] ==
            IF x.kind = "object"
            THEN LET ms == SortSeq(Given(x.members), LAMBDA m, n : m.key > n.key) IN
                     Object([i \in DOMAIN ms |-> Member(ms[i].key, stored[ms[i].value])])
            ELSE IF x.kind = "array" THEN Array([i \in DOMAIN x.items |-> stored[x.items[i]]])
            ELSE IF x = Undefined THEN Atom("null") ELSE x
    IN  stored[v]

\* What two values say: the same members with the same values.
SameJson(v, w) ==
    LET same[x \in Parts(v), y \in Parts(w)] ==
            /\ x.kind = y.kind
            /\ x.kind = "object" =>
                  LET m == Given(x.members)
                      n == Given(y.members) IN
                  /\ Len(m) = Len(n)
                  /\ \A i \in DOMAIN m : \E j \in DOMAIN n :
                         m[i].key = n[j].key /\ same[m[i].value, n[j].value]
            /\ x.kind = "array" => /\ Len(x.items) = Len(y.items)
                                   /\ \A i \in DOMAIN x.items : same[x.items[i], y.items[i]]
            /\ x.kind = "atom" => \/ x = y
                                  \/ {x.value, y.value} \subseteq {"undefined", "null"}
    IN  same[v, w]

\* The hash of a payload, an event or a request is the same for all who say
\* the same, in whatever order it was typed, sent or stored, and for no other.
HashIsOfTheContent(v, w) ==
    /\ Canonical(Jsonb(v)) = Canonical(v)
    /\ Canonical(v) = Canonical(w) <=> SameJson(v, w)

(***************************************************************************)
(* The EPCIS document and the dossier of a lot with its events.  An event  *)
(* read from the database has its time in UTC.                             *)
(***************************************************************************)

BIZ_STEPS == [harvested |-> "harvesting", collected |-> "collecting", packed |-> "packing",
              shipped |-> "shipping"]
DISPOSITIONS == [harvested |-> "active", collected |-> "in_transit", packed |-> "container_closed",
                 shipped |-> "in_transit"]

TimezoneOffset(zone) == IF zone \in {"Z", "none"} THEN "+00:00" ELSE zone

EpcisDocument(events) ==
    [i \in DOMAIN events |->
        [bizStep |-> BIZ_STEPS[events[i].status], disposition |-> DISPOSITIONS[events[i].status],
         offset |-> TimezoneOffset(events[i].zone), hash |-> events[i].hash]]

\* The rows of the CSV file, without the header; proofs may be missing.
CsvRows(events, proofs) ==
    [i \in DOMAIN events |->
        [status |-> events[i].status, hash |-> events[i].hash,
         proof |-> IF i \in DOMAIN proofs THEN proofs[i] ELSE ""]]

PdfHead == 12

\* The lines of the one page: simplePdf leaves out what comes after line 42.
PdfShown(events) ==
    {i \in DOMAIN events : PdfHead + 4 * i <= 42}

\* Whatever the format, all events of a lot are there, each with its own
\* proof, and told apart by their step: a lot has four stages, and the page
\* is long enough for them.
DossierIsWhole(events, proofs) ==
    /\ PdfShown(events) = DOMAIN events
    /\ \A i, j \in DOMAIN events : i # j =>
          EpcisDocument(events)[i].bizStep # EpcisDocument(events)[j].bizStep
    /\ \A i \in DOMAIN events : /\ EpcisDocument(events)[i].hash = CsvRows(events, proofs)[i].hash
                                /\ i \in DOMAIN proofs => CsvRows(events, proofs)[i].proof = proofs[i]
=============================================================================
