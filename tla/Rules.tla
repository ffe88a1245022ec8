--------------------------------- MODULE Rules ---------------------------------
(***************************************************************************)
(* ValidationService: the rules for harvests and transfers, their weights  *)
(* and the band of a score.                                                *)
(***************************************************************************)
EXTENDS Integers, FiniteSets, FiniteSetsExt

RISK_WEIGHTS == [G |-> 40, Y |-> 30, D |-> 100, T |-> 15, R |-> 20, W |-> 30, A |-> 20, S |-> 100]

Severity == [info |-> 0, warning |-> 1, block |-> 2]

RiskBand(score) == IF score <= 30 THEN "green" ELSE IF score <= 70 THEN "yellow" ELSE "red"

Issue(code, severity) == [code |-> code, severity |-> severity, score |-> RISK_WEIGHTS[code]]

Summarize(issues) ==
    LET sum == MapThenSumSet(LAMBDA i : i.score, issues)
        score == IF sum < 100 THEN sum ELSE 100 IN
    [score |-> score, band |-> RiskBand(score), issues |-> issues,
     accepted |-> ~\E i \in issues : i.severity = "block"]

\* Who may harvest on a plot: rule R, which an actor that is not known passes.
MayHarvest(actor) ==
    actor.known =>
    /\ actor.active
    /\ actor.role \in {"FARMER", "COOPERATIVE", "ADMIN"}
    /\ actor.role = "FARMER" => actor.owns

\* Mutant: a coarse position is looked at before the device.
DeviceIssuesCoarseFirst(x) ==
    IF x.accuracy > 100 THEN {Issue("A", "warning")}
    ELSE IF x.integrity = "compromised" THEN {Issue("A", "block")} ELSE {}

DeviceIssues(x) ==
    IF x.integrity = "compromised" THEN {Issue("A", "block")}
    ELSE IF x.accuracy > 100 THEN {Issue("A", "warning")} ELSE {}

\* geofence is the answer of the database, "unknown" without one; inside is
\* that of pointInPolygon (see Geometry).  nearby: lots of the farmer within
\* ten minutes.  accuracy is in metres, -1 if the device gives none.
HarvestIssues(x) ==
    (IF ~x.plotActive THEN {Issue("S", "block")} ELSE {}) \cup
    (IF x.geofence = "out" \/ (x.geofence = "unknown" /\ ~x.inside) THEN {Issue("G", "block")} ELSE {}) \cup
    (IF x.seasonal + x.kg > x.maxYield THEN {Issue("Y", "warning")} ELSE {}) \cup
    (IF x.reused THEN {Issue("D", "block")} ELSE {}) \cup
    (IF x.nearby >= 3 THEN {Issue("T", "warning")} ELSE {}) \cup
    (IF ~MayHarvest(x.actor) THEN {Issue("R", "block")} ELSE {}) \cup
    DeviceIssues(x)

ValidateHarvest(x) == Summarize(HarvestIssues(x))

Order == [harvested |-> 0, collected |-> 1, packed |-> 2, shipped |-> 3]

\* Weights are in kg; 0 stands for none.
TransferIssues(from, to, kg, actual) ==
    LET off == IF actual > kg THEN actual - kg ELSE kg - actual IN
    (IF Order[to] # Order[from] + 1
     THEN {[code |-> "T", severity |-> "block", score |-> 100]} ELSE {}) \cup
    (IF actual # 0 /\ off * 10 > kg THEN {Issue("W", "warning")} ELSE {})

ValidateTransfer(from, to, kg, actual) == Summarize(TransferIssues(from, to, kg, actual))

\* Whatever comes together, a harvest that is accepted is not red, so that what
\* the marketplace hides as red was rated by something else than its harvest;
\* and a harvest that is red is refused.
AcceptedIsNotRed(x) == ValidateHarvest(x).accepted => ValidateHarvest(x).band # "red"

\* What an input can be made worse to, one thing at a time.
Worse(x) ==
    {[x EXCEPT !.plotActive = FALSE], [x EXCEPT !.geofence = "out"],
     [x EXCEPT !.inside = FALSE], [x EXCEPT !.kg = @ + 1], [x EXCEPT !.reused = TRUE],
     [x EXCEPT !.nearby = @ + 1], [x EXCEPT !.actor.active = FALSE], [x EXCEPT !.actor.owns = FALSE],
     [x EXCEPT !.integrity = "compromised"],
     [x EXCEPT !.accuracy = IF @ = -1 THEN 101 ELSE @ + 1]}

\* No rule hides another: what makes a harvest worse never lowers its score
\* and never makes a refused harvest acceptable.
WorseNeverHelps(x) ==
    \A y \in Worse(x) :
        /\ ValidateHarvest(y).score >= ValidateHarvest(x).score
        /\ ValidateHarvest(y).accepted => ValidateHarvest(x).accepted
=============================================================================
