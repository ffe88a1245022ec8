------------------------------- MODULE Algorithms -------------------------------
(***************************************************************************)
(* The parts that only compute, each over inputs that a behaviour builds   *)
(* step by step, and three small parts with a state of their own (Listing, *)
(* History, Pilot).  A behaviour is about one topic and leaves the others  *)
(* alone.                                                                  *)
(***************************************************************************)
EXTENDS Search, History, Pilot, Merkle, Seeds, Access, Evaluation, Documents

CONSTANTS
    Leaves,       \* hashes of events
    MaxLeaves,    \* bound: leaves of a day
    MaxCorners,   \* bound: corners of a polygon
    Payloads      \* JSON values that are hashed

\* A leaf is a tuple of one; so none is the hash of two others.
ASSUME LeavesAssumption == \A leaf \in Leaves : DOMAIN leaf = {1}

VARIABLES
    topic,
    input         \* the input of the topic

vars == <<listingVars, historyVars, pilotVars, topic, input>>

Topics == {"listing", "search", "history", "pilot", "merkle", "polygon", "harvest", "access", "gtin", "payload",
           "dossier", "script"}

\* Harvests that violate any of the rules.
Harvests ==
    [plotActive : BOOLEAN, geofence : {"in", "out", "unknown"}, inside : BOOLEAN,
     seasonal : {0, 2}, kg : {1}, maxYield : {2}, reused : BOOLEAN, nearby : {2, 3},
     actor : [known : BOOLEAN, active : BOOLEAN, role : {"FARMER", "PACKING", "ADMIN"},
              owns : BOOLEAN],
     integrity : {"none", "compromised"}, accuracy : {-1, 100, 101}]

FirstInput(t) ==
    IF t = "merkle" THEN {<<<<>>, <<>>>>}
    ELSE IF t \in {"polygon", "search"} THEN {<<>>}
    ELSE IF t = "harvest" THEN Harvests
    ELSE IF t = "access" THEN Callers
    ELSE IF t = "gtin" THEN DOMAIN CROP_IDENTITY
    ELSE IF t = "payload" THEN Payloads \X Payloads
    ELSE IF t = "dossier" THEN {<<>>}
    ELSE IF t = "script" THEN {Started} ELSE {"none"}

Init ==
    /\ ListingInit /\ HistoryInit /\ PilotInit
    /\ topic \in Topics /\ input \in FirstInput(topic)
    /\ isDefault \/ topic = "history"

Computing == UNCHANGED <<listingVars, historyVars, pilotVars, topic>>

\* Events come to the day of one of two anchors.
AddLeaf(d, leaf) ==
    /\ topic = "merkle" /\ Len(input[d]) < MaxLeaves
    /\ input' = [input EXCEPT ![d] = Append(@, leaf)]
    /\ Computing

\* Rows are saved in the order of the clock, which may not have moved.
AddRow(row) ==
    /\ topic = "search" /\ Len(input) < MaxRows
    /\ row.id = Len(input) + 1
    /\ row.at \in IF input = <<>> THEN {1} ELSE {Last(input).at, Last(input).at + 1}
    /\ input' = Append(input, row)
    /\ Computing

NextLine ==
    /\ topic = "script" /\ input.line < Len(Harvested) + Len(Moves)
    /\ input' = RunLine(input)
    /\ Computing

AddCorner(p) ==
    /\ topic = "polygon" /\ Len(input) < MaxCorners
    /\ input' = Append(input, p)
    /\ Computing

\* A transfer: the event of the next stage, its time as sent or as stored.
AddEvent(zone) ==
    /\ topic = "dossier" /\ Len(input) < 4
    /\ input' = Append(input, [status |-> <<"harvested", "collected", "packed", "shipped">>[Len(input) + 1],
                               zone |-> zone, hash |-> Len(input) + 1])
    /\ Computing

Next ==
    \/ \E d \in {1, 2}, leaf \in Leaves : AddLeaf(d, leaf)
    \/ \E row \in Rows : AddRow(row)
    \/ NextLine
    \/ \E p \in Grid : AddCorner(p)
    \/ \E zone \in {"+07:00", "Z"} : AddEvent(zone)
    \/ topic = "listing" /\ ListingNext /\ UNCHANGED <<historyVars, pilotVars, topic, input>>
    \/ topic = "history" /\ HistoryNext /\ UNCHANGED <<listingVars, pilotVars, topic, input>>
    \/ topic = "pilot" /\ PilotNext /\ UNCHANGED <<listingVars, historyVars, topic, input>>

Spec == Init /\ [][Next]_vars

(***************************************************************************)
(* Properties.  What each says is at the operator it names.                *)
(***************************************************************************)

\* A list that is read to its end has been shown, and only a page that does
\* not exist is empty.
ListingInv == topic = "listing" => ListingTypeOK /\ NothingSkipped /\ EmptyMeansEnd

\* What is kept of a participant and of a harvest: the file of the field study
\* has the last answer of each participant and its summary is one of these
\* answers; the history of the phone is shown whole and true, and the server's
\* to the default actor only.
KeptInv ==
    /\ topic = "pilot" => PilotTypeOK /\ LostOnlyByTear /\ SummaryIsOnScale
    /\ topic = "history" => /\ HistoryTypeOK /\ NothingHidden /\ ShownIsTrue
                            /\ KeptStaysShown /\ OthersSeeTheirPhone

\* Every event of an anchored day has a proof, no other event has it, and the
\* root binds the day, but for events repeated at its end.
MerkleInv == topic = "merkle" => ProofsVerify(input[1]) /\ RootBinds(input[1], input[2])

\* pointInPolygon answers for the field and not for how its corners are listed,
\* and agrees with the sides of a triangle; validatePolygonShape refuses the
\* crossed shapes with four corners, and only those.
GeometryInv ==
    topic = "polygon" =>
        /\ Len(input) >= 3 => InsideIsWellDefined(input)
        /\ TriangleIsInside(input)
        /\ CrossingsAreRefused(input)

\* Rules written twice: those for harvests against each other, against the
\* results that are published of them and against the script of a new server;
\* roles of routes against those of services; queries in memory against those
\* of PostgreSQL.
RulesInv ==
    /\ topic = "harvest" => /\ AcceptedIsNotRed(input) /\ WorseNeverHelps(input)
                            /\ PublishedMatrix /\ PublishedScores
                            /\ NoiseIsNamed /\ FraudIsFlaggedOnce
    /\ topic = "script" => ScriptIsAccepted(input) /\ PlotsAreValid /\ NamesAgree
    /\ topic = "access" => RoutesMatchServices /\ ChangesAreOwned(input)
    /\ topic = "search" => SearchInv(input)

\* No digit of a crop's GTIN can be mistyped unnoticed, and a link opens its
\* lot as far as its GTIN is not guessed; payloads have one hash
\* just if they say the same; a dossier has all events in every format.
DocumentsInv ==
    /\ topic = "gtin" => GtinsAreSafe(input) /\ LinksOpenTheLot(input)
    /\ topic = "payload" => HashIsOfTheContent(input[1], input[2])
    /\ topic = "dossier" => DossierIsWhole(input, [i \in DOMAIN input |-> i])
=============================================================================
