--------------------------------- MODULE Pilot ---------------------------------
(***************************************************************************)
(* PilotResearchService: results of the field study in one JSON file that  *)
(* every submission reads, changes and writes whole, and the summary made  *)
(* of them.  A submission is one step of the process, but a crash inside   *)
(* writeFileSync leaves a file that cannot be parsed.                      *)
(***************************************************************************)
EXTENDS Integers, Sequences, FiniteSets, SequencesExt

CONSTANTS
    Participants,  \* ids as typed
    Upper,         \* an id in capitals
    Answers,       \* lists of scores submitted, as the questionnaire asks for them
    Torn,
    MaxSubmitted   \* bound: submissions and crashes

ASSUME PilotAssumption ==
    /\ DOMAIN Upper = Participants /\ MaxSubmitted \in Nat
    /\ Answers \subseteq Seq(0..5)
    /\ Torn \notin Seq([id : Participants, sus : Nat])

VARIABLES
    file,      \* pilot-results.json
    written,   \* what was written since the file was last torn; nothing reads it
    submitted

pilotVars == <<file, written, submitted>>

(***************************************************************************)
(* The score: ten questions, odd ones count upwards, even ones downwards.  *)
(***************************************************************************)

\* A missing or zero score counts as 3; none is bounded from above.
Points(i, score) ==
    LET s == IF score = 0 THEN 3 ELSE score
        d == IF i % 2 = 1 THEN s - 1 ELSE 5 - s IN IF d > 0 THEN d ELSE 0

\* total * 2.5, in halves.
CalculateSus(scores) ==
    LET total[i \in 0..10] == IF i = 0 THEN 0 ELSE total[i - 1] + Points(i, scores[i]) IN
    IF Len(scores) # 10 THEN 0 ELSE 5 * total[10]

\* The scores in ascending order: fewer than k are less than the k-th, and it
\* is no less than k of them.
Ascending(s) ==
    [k \in DOMAIN s |-> CHOOSE v \in {s[i] : i \in DOMAIN s} :
        /\ Cardinality({i \in DOMAIN s : s[i] < v}) < k
        /\ Cardinality({i \in DOMAIN s : s[i] <= v}) >= k]

\* Twice the median.
Median(s) ==
    LET sorted == Ascending(s)
        n == Len(s) IN
    IF n = 0 THEN 0
    ELSE IF n % 2 = 1 THEN 2 * sorted[n \div 2 + 1]
    ELSE sorted[n \div 2] + sorted[n \div 2 + 1]

(***************************************************************************)
(* The file.                                                               *)
(***************************************************************************)

Record(p, scores) == [id |-> p, sus |-> CalculateSus(scores)]

PilotTypeOK ==
    /\ file = Torn \/ file \in Seq([id : Participants, sus : Nat])
    /\ \A w \in written : w[1] \in {Upper[p] : p \in Participants} /\ w[2] \in Nat
    /\ submitted \in 0..MaxSubmitted

PilotInit == file = <<>> /\ written = {} /\ submitted = 0

\* loadRecords: what cannot be parsed is read as no records.
Records == IF file = Torn THEN <<>> ELSE file

\* Mutant: ids are compared as typed.
SubmittedAsTyped(records, r) ==
    IF \E i \in DOMAIN records : records[i].id = r.id
    THEN [i \in DOMAIN records |-> IF records[i].id = r.id THEN r ELSE records[i]]
    ELSE Append(records, r)

\* The record of the participant is replaced, or a new one appended.
Submitted(records, r) ==
    IF \E i \in DOMAIN records : Upper[records[i].id] = Upper[r.id]
    THEN LET i == SelectInSeq(records, LAMBDA x : Upper[x.id] = Upper[r.id]) IN
             [records EXCEPT ![i] = r]
    ELSE Append(records, r)

SubmitPilotResult(p, scores) ==
    /\ submitted < MaxSubmitted /\ submitted' = submitted + 1
    /\ file' = Submitted(Records, Record(p, scores))
    /\ written' = {w \in written : w[1] # Upper[p]} \cup {<<Upper[p], CalculateSus(scores)>>}

TornWrite ==
    /\ submitted < MaxSubmitted /\ submitted' = submitted + 1
    /\ file' = Torn /\ written' = {}

PilotNext ==
    \/ \E p \in Participants, scores \in Answers : SubmitPilotResult(p, scores)
    \/ TornWrite

\* getSummary: participants, and the least, median and greatest score.
Summary ==
    LET sus == [i \in DOMAIN Records |-> Records[i].sus]
        values == {sus[i] : i \in DOMAIN sus} IN
    [participants |-> Len(sus), median |-> Median(sus),
     least |-> CHOOSE v \in values : \A w \in values : v <= w,
     most |-> CHOOSE v \in values : \A w \in values : v >= w]

\* Every participant counts once, with what was submitted last, however the id
\* is typed; only a torn write loses anything, and then it loses everything.
LostOnlyByTear ==
    /\ file = Torn => written = {}
    /\ file # Torn => /\ written = {<<Upper[file[i].id], file[i].sus>> : i \in DOMAIN file}
                      /\ Cardinality(written) = Len(file)

\* Scores on the scale give 0 to 100, and the median lies between the least
\* and the greatest, with half of the participants on either side.
SummaryIsOnScale ==
    Records # <<>> =>
        /\ 0 <= Summary.least /\ Summary.most <= 200
        /\ 2 * Summary.least <= Summary.median /\ Summary.median <= 2 * Summary.most
        /\ 2 * Cardinality({i \in DOMAIN Records : 2 * Records[i].sus < Summary.median})
               <= Summary.participants
        /\ 2 * Cardinality({i \in DOMAIN Records : 2 * Records[i].sus > Summary.median})
               <= Summary.participants
=============================================================================
