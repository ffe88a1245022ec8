------------------------------ MODULE Evaluation ------------------------------
(***************************************************************************)
(* The evaluation of the rules in research: labelled samples, made so that *)
(* they show one thing each, are put through Rules and counted.  All       *)
(* samples of a scenario get the same answer, so a scenario stands for     *)
(* them with its number.                                                   *)
(***************************************************************************)
EXTENDS Rules, TLC

\* How often main() has each scenario.
Samples ==
    [valid |-> 1350, geofence_boundary_valid |-> 8, yield_edge_valid |-> 10,
     duplicate_document_valid |-> 7, temporal_bulk_entry_valid |-> 10, role_proxy_valid |-> 5,
     weight_moisture_loss_valid |-> 10, degraded_gps_valid |-> 30,
     geofence |-> 100, gps_spoof |-> 20, yield |-> 100, duplicate |-> 100, temporal |-> 100,
     role |-> 100, device |-> 100, weight |-> 100]

Scenarios == DOMAIN Samples

ExpectedRule ==
    [geofence |-> "G", gps_spoof |-> "G", yield |-> "Y", duplicate |-> "D", temporal |-> "T",
     role |-> "R", device |-> "A", weight |-> "W"]

ExpectedFraud(s) == s \in DOMAIN ExpectedRule

\* input(), batch() and the arguments of evaluate(), in the terms of Rules.
\* The usual quantity is any from 300 to 700; the three lots of the temporal
\* scenarios weigh 100 each and are of the same plot.
Sample(s) ==
    LET outside == s \in {"geofence", "geofence_boundary_valid"}
        bulk == s \in {"temporal", "temporal_bulk_entry_valid"} IN
    [plotActive |-> TRUE, geofence |-> "unknown", inside |-> ~outside,
     seasonal |-> IF bulk THEN 300 ELSE 0,
     kg |-> IF s \in {"yield", "yield_edge_valid"} THEN 20001 ELSE 700, maxYield |-> 20000,
     reused |-> s \in {"duplicate", "duplicate_document_valid"},
     nearby |-> IF bulk THEN 3 ELSE 0,
     actor |-> [known |-> TRUE, active |-> TRUE, role |-> "FARMER",
                owns |-> s \notin {"role", "role_proxy_valid"}],
     integrity |-> IF s = "device" THEN "compromised" ELSE "trusted",
     accuracy |-> IF s = "degraded_gps_valid" THEN 120 ELSE 28]

Result(s) ==
    IF s \in {"weight", "weight_moisture_loss_valid"}
    THEN ValidateTransfer("harvested", "collected", 1000, IF s = "weight" THEN 800 ELSE 880)
    ELSE ValidateHarvest(Sample(s))

Detected(s) == {i.code : i \in Result(s).issues}

Number(scenarios) == MapThenSumSet(LAMBDA s : Samples[s], scenarios)

\* confusion: what was expected against what was flagged.
Matrix(positive, flagged) ==
    [tp |-> Number(positive \cap flagged), fp |-> Number(flagged \ positive),
     tn |-> Number(Scenarios \ (positive \cup flagged)), fn |-> Number(positive \ flagged)]

\* Frauds against the samples a layer of rules flags.
Confusion(rules) ==
    Matrix(DOMAIN ExpectedRule, {s \in Scenarios : Detected(s) \cap rules # {}})

\* The samples made for a rule against those it flags.
PerRule(rule) ==
    Matrix({s \in DOMAIN ExpectedRule : ExpectedRule[s] = rule},
           {s \in Scenarios : rule \in Detected(s)})

\* Per mille, rounded down.
SafeDivide(numerator, denominator) ==
    IF denominator = 0 THEN 0 ELSE (1000 * numerator) \div denominator

\* Precision, recall, F1 and the rates of false positives and negatives; the
\* harmonic mean of the code is multiplied out.
Scores(c) ==
    <<SafeDivide(c.tp, c.tp + c.fp), SafeDivide(c.tp, c.tp + c.fn),
      SafeDivide(2 * c.tp, 2 * c.tp + c.fp + c.fn),
      SafeDivide(c.fp, c.fp + c.tn), SafeDivide(c.fn, c.fn + c.tp)>>

AllRules == {"G", "Y", "D", "T", "R", "W", "A"}

\* The layers of the ablation.
Layers == <<{"G"}, {"G", "Y"}, {"G", "Y", "D"}, {"G", "Y", "D", "T", "R", "W"}, AllRules>>

\* The matrices the repository publishes (research/results/fraud-metrics.json
\* and fraud-ablation.csv) are those of these rules: tp, fp, tn, fn by layer.
PublishedMatrix ==
    LET published == <<<<100, 8, 1422, 620>>, <<200, 18, 1412, 520>>, <<300, 25, 1405, 420>>,
                       <<600, 50, 1380, 120>>, <<700, 80, 1350, 20>>>> IN
    \A l \in DOMAIN Layers : LET c == Confusion(Layers[l]) IN
        <<c.tp, c.fp, c.tn, c.fn>> = published[l]

\* So are the figures: those of the whole, and the matrix of every rule.
PublishedScores ==
    LET published == [G |-> <<100, 8, 2022, 20>>, Y |-> <<100, 10, 2040, 0>>,
                      D |-> <<100, 7, 2043, 0>>, T |-> <<100, 10, 2040, 0>>,
                      R |-> <<100, 5, 2045, 0>>, W |-> <<100, 10, 2040, 0>>,
                      A |-> <<100, 30, 2020, 0>>] IN
    /\ Scores(Confusion(AllRules)) = <<897, 972, 933, 55, 27>>
    /\ \A rule \in AllRules : LET c == PerRule(rule) IN
           <<c.tp, c.fp, c.tn, c.fn>> = published[rule]

\* The noise the metrics name with numbers written by hand is the noise that
\* was made: every false positive is in one of these cases, and every case but
\* the forged positions is one.
NoiseCases ==
    [geofence_boundary_valid |-> 8, yield_edge_valid |-> 10, duplicate_document_valid |-> 7,
     temporal_bulk_entry_valid |-> 10, role_proxy_valid |-> 5, weight_moisture_loss_valid |-> 10,
     degraded_gps_valid |-> 30, gps_spoof |-> 20]

NoiseIsNamed ==
    \A s \in Scenarios :
        /\ s \in DOMAIN NoiseCases => NoiseCases[s] = Samples[s]
        /\ ~ExpectedFraud(s) /\ Detected(s) # {} <=> s \in DOMAIN NoiseCases \ {"gps_spoof"}

\* Every fraud is flagged by the rule it was made for and by no other, but for
\* the position that is forged inside of the plot, which nothing flags.
FraudIsFlaggedOnce ==
    \A s \in DOMAIN ExpectedRule :
        Detected(s) = IF s = "gps_spoof" THEN {} ELSE {ExpectedRule[s]}
=============================================================================
