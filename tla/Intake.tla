-------------------------------- MODULE Intake --------------------------------
(***************************************************************************)
(* How lots and their evidence enter the system: BatsService.createHarvest *)
(* for any number of overlapping posts, the evidence files and hashes,     *)
(* transfers with a weight slip, the batch numbers of the database, and    *)
(* the demo script of onModuleInit, which runs before the server listens.  *)
(*                                                                         *)
(* A lot is known by its batch number.  Of the rules of validateHarvest    *)
(* the two that read what other requests write are here: the yield of the  *)
(* plot and the reuse of evidence; all of them are in Rules.  Left out:    *)
(* ids asked for by the client and overlapping transfers of one lot (see   *)
(* Custody), keys (see Idempotency) and closed days (see Anchoring).       *)
(***************************************************************************)
EXTENDS Integers, Sequences, FiniteSets, FiniteSetsExt

CONSTANTS
    Plots,        \* active plots
    MaxYield,     \* the most a plot yields, in kg
    Weights,      \* quantities posted
    Photos,       \* evidence, by its hash
    Demo,         \* harvests of the demo script: plot, kg, photo
    DemoMoves,    \* demo transfers, by the number the lot should have
    Ops,          \* requests under way at once
    NoLot, NoOp,
    MaxLots,      \* bound: batch numbers
    MaxMoves,     \* bound: transfers of lots in memory when a user adds one
    MaxFaults     \* bound: failed saves, lost answers, restarts

Numbers == 1..MaxLots

\* photos of the harvest and slips of transfers; demo is the line of the
\* script, 0 for a user's lot.  late is no field of the code: the harvest was
\* validated while another one was past its validation, or unanswered.
Lots == [plot : Plots, kg : Nat, photos : SUBSET Photos, slips : SUBSET Photos,
         stage : 0..3, warned : BOOLEAN, demo : 0..Len(Demo), late : BOOLEAN]

\* A request; before is the lot a transfer puts back if its save fails.
Stages == {"locate", "number", "save", "show", "evidence"}
OpRecord == [stage : Stages, number : Numbers \cup {0}, lot : Lots, before : Lots \cup {NoLot}]

ASSUME IntakeAssumption ==
    /\ IsFiniteSet(Ops) /\ IsFiniteSet(Photos)
    /\ MaxYield \in [Plots -> Nat] /\ Weights \subseteq Nat \ {0}
    /\ Demo \in Seq([plot : Plots, kg : Nat \ {0}, photo : Photos])
    /\ \A i, j \in DOMAIN Demo : i # j => Demo[i].photo # Demo[j].photo
    /\ DemoMoves \in Seq(DOMAIN Demo)
    /\ MaxLots \in Nat /\ MaxMoves \in Nat /\ MaxFaults \in Nat
    /\ NoLot \notin Lots /\ NoOp \notin OpRecord

VARIABLES
    batches,     \* store.batches, by number
    rows,        \* the tables batches and epcis_events
    known,       \* store.evidenceHashes
    files,       \* the table evidence_files: the lot a photo names, 0 if none
    sequence,    \* bats_batch_sequence
    ops,         \* requests under way
    boot,        \* the step of the demo script; 0: start-up has failed
    unanswered,  \* lots stored since the start whose save answered an error
    faults

vars == <<batches, rows, known, files, sequence, ops, boot, unanswered, faults>>

Ready == Len(Demo) + Len(DemoMoves) + 1

TypeOK ==
    /\ batches \in [Numbers -> Lots \cup {NoLot}]
    /\ rows \in [Numbers -> Lots \cup {NoLot}]
    /\ known \subseteq Photos
    /\ files \in [Photos -> Numbers \cup {0, -1}]
    /\ sequence \in 0..MaxLots
    /\ ops \in [Ops -> OpRecord \cup {NoOp}]
    /\ boot \in 0..Ready
    /\ unanswered \subseteq Numbers
    /\ faults \in 0..MaxFaults

\* files: -1 when the table has no row, 0 for an upload no lot has named.
Init ==
    /\ batches = [n \in Numbers |-> NoLot] /\ rows = batches
    /\ known = {} /\ files = [p \in Photos |-> -1]
    /\ sequence = 0
    /\ ops = [o \in Ops |-> NoOp]
    /\ boot = 1
    /\ unanswered = {} /\ faults = 0

Known(n) == batches[n] # NoLot
Stored == {n \in Numbers : rows[n] # NoLot}
Serving == boot = Ready
Idle == \A o \in Ops : ops[o] = NoOp

At(o, stage) == ops[o] # NoOp /\ ops[o].stage = stage
Used(lot) == lot.photos \cup lot.slips

\* What ends a request of the demo script moves the script on.
Ends(o) ==
    /\ ops' = [ops EXCEPT ![o] = NoOp]
    /\ boot' = IF Serving THEN boot ELSE boot + 1

\* Mutant: the script tries a failed harvest again.
FailsRetrying(o) ==
    /\ ops' = [ops EXCEPT ![o] = NoOp]
    /\ boot' = IF boot > Len(Demo) THEN Ready ELSE boot

\* A failed demo harvest fails the start-up; a failed demo transfer is
\* caught, and the rest of the script skipped.
Fails(o) ==
    /\ ops' = [ops EXCEPT ![o] = NoOp]
    /\ boot' = IF boot > Len(Demo) THEN Ready ELSE 0

(***************************************************************************)
(* Harvests.                                                               *)
(***************************************************************************)

\* createHarvestCore up to containsPoint.
Begin(o, plot, kg, photos, demo) ==
    /\ ops[o] = NoOp /\ sequence < MaxLots
    /\ ops' = [ops EXCEPT ![o] =
          [stage |-> "locate", number |-> 0, before |-> NoLot,
           lot |-> [plot |-> plot, kg |-> kg, photos |-> photos, slips |-> {}, stage |-> 0,
                    warned |-> FALSE, demo |-> demo, late |-> FALSE]]]

Post(o, plot, kg, photos) ==
    /\ Serving
    /\ Begin(o, plot, kg, photos, 0)
    /\ UNCHANGED <<batches, rows, known, files, sequence, boot, unanswered, faults>>

\* What reduce adds up, one number after the other.
Total(kg) ==
    LET sum[n \in 0..MaxLots] == IF n = 0 THEN 0 ELSE sum[n - 1] + kg[n]
    IN  sum[MaxLots]

\* What each lot adds to the season of a plot.
Share(lots, plot) ==
    [n \in Numbers |-> IF lots[n] # NoLot /\ lots[n].plot = plot THEN lots[n].kg ELSE 0]

Yield(plot) == Total(Share(batches, plot))

PastValidation == {o \in Ops : ops[o] # NoOp /\ ops[o].stage # "locate"}

\* Used evidence blocks, too large a yield warns.
Validate(o) ==
    /\ At(o, "locate")
    /\ LET lot == ops[o].lot IN
          IF lot.photos \cap known # {} THEN Fails(o)
          ELSE /\ ops' = [ops EXCEPT ![o].stage = "number",
                     ![o].lot.warned = Yield(lot.plot) + lot.kg > MaxYield[lot.plot],
                     ![o].lot.late = PastValidation # {} \/ unanswered # {}]
               /\ UNCHANGED boot
    /\ UNCHANGED <<batches, rows, known, files, sequence, unanswered, faults>>

\* nextval is not undone by what fails later.
NextBatchSequence(o) ==
    /\ At(o, "number") /\ sequence < MaxLots
    /\ sequence' = sequence + 1
    /\ ops' = [ops EXCEPT ![o].stage = "save", ![o].number = sequence + 1]
    /\ UNCHANGED <<batches, rows, known, files, boot, unanswered, faults>>

(***************************************************************************)
(* Transfers and uploads.                                                  *)
(***************************************************************************)

\* transferCore changes the lot and then saves it; evidence is not checked.
BeginTransfer(o, n, slips) ==
    /\ ops[o] = NoOp
    /\ Known(n) /\ batches[n].stage < 3
    /\ ~\E p \in Ops : ops[p] # NoOp /\ ops[p].number = n
    /\ LET lot == [batches[n] EXCEPT !.stage = @ + 1, !.slips = @ \cup slips] IN
          /\ batches' = [batches EXCEPT ![n] = lot]
          /\ ops' = [ops EXCEPT ![o] = [stage |-> "save", number |-> n, lot |-> lot,
                                        before |-> batches[n]]]

Transfer(o, n, slips) ==
    /\ Serving
    /\ MapThenSumSet(LAMBDA m : batches[m].stage, {m \in Numbers : Known(m)}) < MaxMoves
    /\ BeginTransfer(o, n, slips)
    /\ UNCHANGED <<rows, known, files, sequence, boot, unanswered, faults>>

\* The file, then its row, which keeps the event it names.  (The mini app
\* calls it "sha256:" and the hash of the row; a photo has one name here.)
Upload(p) ==
    /\ Serving
    /\ files[p] = -1
    /\ files' = [files EXCEPT ![p] = 0]
    /\ UNCHANGED <<batches, rows, known, sequence, ops, boot, unanswered, faults>>

(***************************************************************************)
(* The demo script.                                                        *)
(***************************************************************************)

DemoHarvest(o) ==
    /\ boot \in DOMAIN Demo /\ Idle
    /\ Begin(o, Demo[boot].plot, Demo[boot].kg, {Demo[boot].photo}, boot)
    /\ UNCHANGED <<batches, rows, known, files, sequence, boot, unanswered, faults>>

\* The number of the lot is written into the script, and so are the prefix
\* and the date of the harvest it should be of.
DemoTransfer(o) ==
    /\ boot > Len(Demo) /\ ~Serving /\ Idle
    /\ LET n == DemoMoves[boot - Len(Demo)] IN
          IF n \in Numbers /\ Known(n) /\ batches[n].demo = n
          THEN BeginTransfer(o, n, {}) /\ UNCHANGED boot
          ELSE boot' = Ready /\ UNCHANGED <<batches, ops>>
    /\ UNCHANGED <<rows, known, files, sequence, unanswered, faults>>

(***************************************************************************)
(* saveBatch and what follows it.                                          *)
(***************************************************************************)

\* Mutant: the row of an upload is left as it is.
CommitsNewFiles(o) ==
    LET n == ops[o].number IN
    /\ rows' = [rows EXCEPT ![n] = ops[o].lot]
    /\ files' = [p \in Photos |-> IF p \in Used(ops[o].lot) /\ files[p] = -1 THEN n ELSE files[p]]

\* The transaction: events are replaced with what they show; a photo names its
\* last lot, and goes on naming it when a transfer made again shows another.
Commits(o) ==
    LET n == ops[o].number IN
    /\ rows' = [rows EXCEPT ![n] = ops[o].lot]
    /\ files' = [p \in Photos |-> IF p \in Used(ops[o].lot) THEN n ELSE files[p]]

Commit(o) ==
    /\ At(o, "save")
    /\ Commits(o)
    /\ ops' = [ops EXCEPT ![o].stage = "show"]
    /\ UNCHANGED <<batches, known, sequence, boot, unanswered, faults>>

\* transferCore puts its snapshot back.
RolledBack(o) ==
    batches' = IF ops[o].before = NoLot THEN batches
               ELSE [batches EXCEPT ![ops[o].number] = ops[o].before]

SaveFails(o) ==
    /\ At(o, "save")
    /\ faults < MaxFaults /\ faults' = faults + 1
    /\ RolledBack(o)
    /\ Fails(o)
    /\ UNCHANGED <<rows, known, files, sequence, unanswered>>

\* The transaction commits and its answer is lost.
SaveUnanswered(o) ==
    /\ At(o, "save")
    /\ faults < MaxFaults /\ faults' = faults + 1
    /\ Commits(o)
    /\ RolledBack(o)
    /\ unanswered' = unanswered \cup {ops[o].number}
    /\ Fails(o)
    /\ UNCHANGED <<known, sequence>>

Show(o) ==
    /\ At(o, "show")
    /\ batches' = [batches EXCEPT ![ops[o].number] = ops[o].lot]
    /\ ops' = [ops EXCEPT ![o].stage = "evidence"]
    /\ UNCHANGED <<rows, known, files, sequence, boot, unanswered, faults>>

AddEvidence(o) ==
    /\ At(o, "evidence")
    /\ known' = known \cup Used(ops[o].lot)
    /\ Ends(o)
    /\ UNCHANGED <<batches, rows, files, sequence, unanswered, faults>>

(***************************************************************************)
(* Restart: hydrate, then onModuleInit, which starts the script when there *)
(* is no batch.                                                            *)
(***************************************************************************)

\* Mutant: batch numbers go on from the number of batches.
RestartCounting ==
    /\ faults < MaxFaults /\ faults' = faults + 1
    /\ batches' = rows
    /\ known' = {p \in Photos : files[p] > 0}
    /\ ops' = [o \in Ops |-> NoOp]
    /\ boot' = IF Stored = {} THEN 1 ELSE Ready
    /\ sequence' = Cardinality(Stored)
    /\ unanswered' = {}
    /\ UNCHANGED <<rows, files>>

\* hydrate counts the files that name an event.
Restart ==
    /\ faults < MaxFaults /\ faults' = faults + 1
    /\ batches' = rows
    /\ known' = {p \in Photos : files[p] > 0}
    /\ ops' = [o \in Ops |-> NoOp]
    /\ boot' = IF Stored = {} THEN 1 ELSE Ready
    /\ unanswered' = {}
    /\ UNCHANGED <<rows, files, sequence>>

Next ==
    \/ \E o \in Ops, plot \in Plots, kg \in Weights, p \in Photos :
          Post(o, plot, kg, {p}) \/ Post(o, plot, kg, {})
    \/ \E o \in Ops, n \in Numbers : \E p \in Photos : Transfer(o, n, {p})
    \/ \E p \in Photos : Upload(p)
    \/ \E o \in Ops :
          \/ Validate(o) \/ NextBatchSequence(o) \/ Commit(o) \/ Show(o) \/ AddEvidence(o)
          \/ SaveFails(o) \/ SaveUnanswered(o)
          \/ DemoHarvest(o) \/ DemoTransfer(o)
    \/ Restart

Spec == Init /\ [][Next]_vars

(***************************************************************************)
(* Properties.                                                             *)
(***************************************************************************)

\* The reuse of evidence is checked long before the hash is remembered; still
\* two stored lots were harvested with one photo only if one of them was
\* validated while another save was under way or had lost its answer.
EvidenceUsedOnce ==
    \A l, n \in Stored : l # n /\ rows[l].photos \cap rows[n].photos # {} =>
        rows[l].late \/ rows[n].late

\* What a lot shows is known as used, slips of transfers included, as soon as
\* no request for the lot is under way, and again after every restart.
UsedIsKnown ==
    \A n \in Numbers : Known(n) =>
        \/ Used(batches[n]) \subseteq known
        \/ \E o \in Ops : ops[o] # NoOp /\ ops[o].number = n

\* A photo that was only uploaded, or whose harvest failed, can still be used.
\* What is known is shown by a stored lot, or is the slip of a transfer that
\* lost its answer and was made again with another: its file names the lot.
KnownIsUsed ==
    \A p \in known : \E n \in Stored :
        p \in Used(rows[n]) \/ (files[p] = n /\ rows[n].stage > 0)

\* A plot that yielded more than it can has a lot with a warning, unless two
\* harvests of it overlapped.
YieldIsWarned ==
    \A plot \in Plots : Yield(plot) > MaxYield[plot] =>
        \E n \in Numbers : /\ Known(n) /\ batches[n].plot = plot
                           /\ batches[n].warned \/ batches[n].late

\* Whatever fails during start-up, and however often, no demo harvest is
\* stored twice.
DemoOnce ==
    \A l, n \in Stored : l # n => rows[l].demo # rows[n].demo \/ rows[l].demo = 0

\* What stays of a lot while it is moved.
SameLot(l, m) ==
    /\ l.plot = m.plot /\ l.kg = m.kg /\ l.photos = m.photos
    /\ l.warned = m.warned /\ l.demo = m.demo

\* No later harvest takes the number of a stored one: failed saves, restarts
\* and demo runs never make numbers come again, and no warning is lost.
StoredLotsStay ==
    [][\A n \in Stored : rows'[n] # NoLot /\ SameLot(rows[n], rows'[n])]_vars

\* The life of a photo: known, used and stored agree, whatever overlaps.
EvidenceInv == TypeOK /\ EvidenceUsedOnce /\ UsedIsKnown /\ KnownIsUsed

\* What a harvest is judged by, and the lots that a start makes.
IntakeInv == YieldIsWarned /\ DemoOnce
=============================================================================
