------------------------------ MODULE IntakeProofs ------------------------------
(***************************************************************************)
(* Theorems about Intake, for any plots, photos, demo script, number of    *)
(* requests under way and number of failures.                              *)
(***************************************************************************)
EXTENDS Intake, SequenceTheorems, FiniteSetTheorems, WellFoundedInduction, TLAPS

Types ==
    /\ batches \in [Numbers -> Lots \cup {NoLot}]
    /\ rows \in [Numbers -> Lots \cup {NoLot}]
    /\ sequence \in 0..MaxLots
    /\ ops \in [Ops -> OpRecord \cup {NoOp}]
    /\ boot \in 0..Ready

\* A row is of a number that was drawn; what memory shows is a row.
Drawn ==
    /\ \A n \in Numbers : rows[n] # NoLot => n <= sequence
    /\ \A n \in Numbers : batches[n] # NoLot => rows[n] # NoLot /\ SameLot(batches[n], rows[n])

\* A request that saves a harvest has a number without a row; one that moves a
\* lot, or has saved, agrees with the row on what stays.
Agrees(op, row, last) ==
    /\ op.number <= last
    /\ op.stage \in {"locate", "number"} <=> op.number = 0
    /\ op.number = 0 => op.before = NoLot
    /\ op.stage = "save" /\ op.before = NoLot => row[op.number] = NoLot
    /\ op.stage = "save" /\ op.before # NoLot =>
          /\ row[op.number] # NoLot /\ SameLot(op.lot, row[op.number])
          /\ SameLot(op.before, row[op.number])
          /\ op.lot.stage > 0
    /\ op.stage \in {"show", "evidence"} =>
          row[op.number] # NoLot /\ SameLot(op.lot, row[op.number])

OpsAgree == \A o \in Ops : ops[o] # NoOp => Agrees(ops[o], rows, sequence)

\* No two requests work on one lot.
OwnNumbers ==
    \A o, p \in Ops : o # p /\ ops[o] # NoOp /\ ops[p] # NoOp /\ ops[o].number # 0 =>
        ops[o].number # ops[p].number

IntakeIInv == Types /\ Drawn /\ OpsAgree /\ OwnNumbers

LEMMA IntakeInitially == Init => IntakeIInv
<1> SUFFICES ASSUME Init PROVE IntakeIInv
  OBVIOUS
<1>1. Ready \in Nat \ {0}
  BY IntakeAssumption DEF Ready
<1> QED
  BY <1>1, IntakeAssumption DEF Init, IntakeIInv, Types, Drawn, OpsAgree, OwnNumbers, Numbers

\* What all steps of a request have in common: the others stay as they are.
LEMMA OthersAgree ==
    ASSUME IntakeIInv, NEW o \in Ops, NEW op,
           ops' = [ops EXCEPT ![o] = op], op \in OpRecord \cup {NoOp},
           sequence' \in 0..MaxLots, sequence <= sequence',
           op # NoOp => Agrees(op, rows', sequence'),
           op # NoOp => \A p \in Ops : p # o /\ ops[p] # NoOp /\ op.number # 0 =>
                            op.number # ops[p].number,
           \A p \in Ops : p # o /\ ops[p] # NoOp /\ ops[p].number # 0 =>
               rows'[ops[p].number] = rows[ops[p].number]
    PROVE  OpsAgree' /\ OwnNumbers' /\ ops' \in [Ops -> OpRecord \cup {NoOp}]
<1>1. ops \in [Ops -> OpRecord \cup {NoOp}] /\ sequence \in 0..MaxLots
  BY DEF IntakeIInv, Types
<1>2. \A p \in Ops : ops'[p] = IF p = o THEN op ELSE ops[p]
  BY <1>1
<1>3. ops' \in [Ops -> OpRecord \cup {NoOp}]
  BY <1>1
<1>4. OpsAgree'
  <2> SUFFICES ASSUME NEW p \in Ops, ops'[p] # NoOp
               PROVE  Agrees(ops'[p], rows', sequence')
    BY DEF OpsAgree
  <2>1. CASE p = o
    BY <1>2, <2>1 DEF Agrees
  <2>2. CASE p # o
    <3>1. ops'[p] = ops[p] /\ ops[p] \in OpRecord /\ Agrees(ops[p], rows, sequence)
      BY <1>1, <1>2, <2>2 DEF IntakeIInv, OpsAgree
    <3>2. ops[p].number \in Nat /\ sequence \in Nat /\ sequence' \in Nat
      BY <1>1, <3>1, IntakeAssumption DEF OpRecord, Numbers
    <3>3. CASE ops[p].number = 0
      BY <3>1, <3>2, <3>3 DEF Agrees
    <3>4. CASE ops[p].number # 0
      <4>1. rows'[ops[p].number] = rows[ops[p].number]
        BY <2>2, <3>1, <3>4
      <4> QED
        BY <3>1, <3>2, <4>1 DEF Agrees
    <3> QED
      BY <3>3, <3>4
  <2> QED
    BY <2>1, <2>2
<1>5. OwnNumbers'
  BY <1>2 DEF IntakeIInv, OwnNumbers
<1> QED
  BY <1>3, <1>4, <1>5

\* A request that ends disturbs nobody.
LEMMA EndAgrees ==
    ASSUME IntakeIInv, NEW o \in Ops, ops' = [ops EXCEPT ![o] = NoOp], UNCHANGED sequence,
           \A p \in Ops : p # o /\ ops[p] # NoOp /\ ops[p].number # 0 =>
               rows'[ops[p].number] = rows[ops[p].number]
    PROVE  OpsAgree' /\ OwnNumbers' /\ ops' \in [Ops -> OpRecord \cup {NoOp}]
<1>1. sequence' \in 0..MaxLots /\ sequence <= sequence'
  BY IntakeAssumption DEF IntakeIInv, Types
<1> QED
  BY <1>1, OthersAgree

LEMMA BootStays ==
    ASSUME IntakeIInv, NEW o \in Ops, \/ Ends(o) /\ (Serving \/ boot < Ready)
                                     \/ Fails(o) \/ UNCHANGED boot
    PROVE  boot' \in 0..Ready
<1>1. Len(Demo) \in Nat /\ Ready \in Nat /\ boot \in 0..Ready
  BY IntakeAssumption DEF IntakeIInv, Types, Ready
<1> QED
  BY <1>1 DEF Ends, Fails, Serving

\* The operation of a request that is at a stage.
LEMMA AtStage ==
    ASSUME IntakeIInv, NEW o \in Ops, NEW stage, At(o, stage)
    PROVE  /\ ops[o] \in OpRecord /\ ops[o] # NoOp /\ Agrees(ops[o], rows, sequence) /\ ops[o].stage = stage
           /\ ops[o].number \in Numbers \cup {0} /\ ops[o].lot \in Lots
           /\ ops[o].before \in Lots \cup {NoLot}
BY DEF IntakeIInv, Types, OpsAgree, At, OpRecord

LEMMA BeginKeeps ==
    ASSUME IntakeIInv, NEW o \in Ops, NEW plot \in Plots, NEW kg \in Nat,
           NEW photos \in SUBSET Photos, NEW demo \in 0..Len(Demo),
           Begin(o, plot, kg, photos, demo), UNCHANGED <<batches, rows, sequence, boot>>
    PROVE  IntakeIInv'
<1> DEFINE lot == [plot |-> plot, kg |-> kg, photos |-> photos, slips |-> {}, stage |-> 0,
                   warned |-> FALSE, demo |-> demo, late |-> FALSE]
           op == [stage |-> "locate", number |-> 0, before |-> NoLot, lot |-> lot]
<1>1. lot \in Lots
  BY DEF Lots
<1>2. op \in OpRecord /\ op.number = 0 /\ op.stage = "locate" /\ op.before = NoLot
  BY <1>1 DEF OpRecord, Stages
<1>3. sequence \in Nat /\ sequence \in 0..MaxLots
  BY IntakeAssumption DEF IntakeIInv, Types
<1>4. ops' = [ops EXCEPT ![o] = op]
  BY DEF Begin
<1> HIDE DEF op
<1>5. Agrees(op, rows', sequence')
  BY <1>2, <1>3 DEF Agrees
<1>6. sequence' \in 0..MaxLots /\ sequence <= sequence' /\ rows' = rows
  BY <1>3
<1>7. OpsAgree' /\ OwnNumbers' /\ ops' \in [Ops -> OpRecord \cup {NoOp}]
  BY <1>2, <1>4, <1>5, <1>6, OthersAgree
<1> QED
  BY <1>6, <1>7 DEF IntakeIInv, Types, Drawn

LEMMA ValidateKeeps ==
    ASSUME IntakeIInv, NEW o \in Ops, Validate(o)
    PROVE  IntakeIInv'
<1>1. /\ At(o, "locate")
      /\ UNCHANGED <<batches, rows, sequence>>
  BY DEF Validate
<1>2. CASE Fails(o)
  <2>1. ops' = [ops EXCEPT ![o] = NoOp] /\ boot' \in 0..Ready
    BY <1>2, BootStays DEF Fails
  <2>2. OpsAgree' /\ OwnNumbers' /\ ops' \in [Ops -> OpRecord \cup {NoOp}]
    BY <1>1, <2>1, EndAgrees
  <2> QED
    BY <1>1, <2>1, <2>2 DEF IntakeIInv, Types, Drawn
<1>3. CASE ~Fails(o)
  <2> DEFINE warned == Yield(ops[o].lot.plot) + ops[o].lot.kg > MaxYield[ops[o].lot.plot]
             late == PastValidation # {} \/ unanswered # {}
             op == [ops[o] EXCEPT !.stage = "number", !.lot.warned = warned, !.lot.late = late]
  <2>1. ops' = [ops EXCEPT ![o] = op] /\ boot' = boot
    BY <1>3 DEF Validate
  <2>2. ops[o] \in OpRecord /\ Agrees(ops[o], rows, sequence) /\ ops[o].stage = "locate"
    BY <1>1, AtStage
  <2>3. warned \in BOOLEAN /\ late \in BOOLEAN
    OBVIOUS
  <2> HIDE DEF warned, late
  <2>4. op \in OpRecord /\ op.number = ops[o].number /\ op.stage = "number"
        /\ op.before = ops[o].before
    BY <2>2, <2>3 DEF OpRecord, Stages, Lots
  <2> HIDE DEF op
  <2>5. sequence' \in 0..MaxLots /\ sequence <= sequence' /\ op.number = 0
    BY <1>1, <2>2, <2>4, IntakeAssumption DEF IntakeIInv, Types, Agrees
  <2>6. Agrees(op, rows', sequence')
    BY <1>1, <2>2, <2>4, <2>5 DEF Agrees
  <2>7. OpsAgree' /\ OwnNumbers' /\ ops' \in [Ops -> OpRecord \cup {NoOp}]
    BY <1>1, <2>1, <2>4, <2>5, <2>6, OthersAgree
  <2> QED
    BY <1>1, <2>1, <2>7 DEF IntakeIInv, Types, Drawn
<1> QED
  BY <1>2, <1>3

LEMMA NumberKeeps ==
    ASSUME IntakeIInv, NEW o \in Ops, NextBatchSequence(o)
    PROVE  IntakeIInv'
<1> DEFINE op == [ops[o] EXCEPT !.stage = "save", !.number = sequence + 1]
<1>1. /\ At(o, "number") /\ sequence < MaxLots /\ sequence' = sequence + 1
      /\ ops' = [ops EXCEPT ![o] = op]
      /\ UNCHANGED <<batches, rows, boot>>
  <2>1. ops \in [Ops -> OpRecord \cup {NoOp}]
    BY DEF IntakeIInv, Types
  <2> QED
    BY <2>1 DEF NextBatchSequence
<1>2. /\ ops[o] \in OpRecord /\ Agrees(ops[o], rows, sequence) /\ ops[o].stage = "number"
  BY <1>1, AtStage
<1>3. sequence \in Nat /\ sequence' \in 0..MaxLots /\ sequence + 1 \in Numbers
  BY <1>1, IntakeAssumption DEF IntakeIInv, Types, Numbers
<1>4. op \in OpRecord /\ op.number = sequence + 1 /\ op.stage = "save" /\ op.before = NoLot
  BY <1>2, <1>3 DEF OpRecord, Stages, Agrees
<1> HIDE DEF op
<1>5. rows[sequence + 1] = NoLot
  BY <1>3 DEF IntakeIInv, Drawn
<1>6. Agrees(op, rows', sequence')
  BY <1>1, <1>3, <1>4, <1>5 DEF Agrees
<1>7. \A p \in Ops : p # o /\ ops[p] # NoOp => op.number # ops[p].number
  <2> SUFFICES ASSUME NEW p \in Ops, ops[p] # NoOp
               PROVE  ops[p].number # sequence + 1
    BY <1>4
  <2>1. ops[p] \in OpRecord /\ ops[p].number <= sequence
    BY DEF IntakeIInv, Types, OpsAgree, Agrees
  <2>2. ops[p].number \in Nat
    BY <2>1, IntakeAssumption DEF OpRecord, Numbers
  <2> QED
    BY <1>3, <2>1, <2>2
<1>8. OpsAgree' /\ OwnNumbers' /\ ops' \in [Ops -> OpRecord \cup {NoOp}]
  <2>1. sequence <= sequence' /\ rows' = rows /\ op \in OpRecord \cup {NoOp}
    BY <1>1, <1>3, <1>4
  <2> QED
    BY <1>1, <1>3, <1>6, <1>7, <2>1, OthersAgree
<1>9. Drawn'
  BY <1>1, <1>3 DEF IntakeIInv, Drawn, Numbers
<1> QED
  BY <1>1, <1>3, <1>8, <1>9 DEF IntakeIInv, Types

\* A lot that is moved keeps all but its stage and its slips.
LEMMA MovedLot ==
    ASSUME NEW old \in Lots, old.stage < 3, NEW slips \in SUBSET Photos
    PROVE  LET lot == [old EXCEPT !.stage = @ + 1, !.slips = @ \cup slips]
           IN  /\ lot \in Lots /\ SameLot(lot, old) /\ lot # NoLot
               /\ lot.late = old.late /\ lot.warned = old.warned /\ lot.stage > 0
<1> DEFINE lot == [old EXCEPT !.stage = @ + 1, !.slips = @ \cup slips]
<1>1. old.stage \in 0..3 /\ old.slips \in SUBSET Photos
  BY DEF Lots
<1>2. old.stage + 1 \in 0..3 /\ old.slips \cup slips \in SUBSET Photos
  BY <1>1
<1>3. lot = [old EXCEPT !.stage = old.stage + 1, !.slips = old.slips \cup slips]
  OBVIOUS
<1>4. \A x \in Lots, s \in 0..3, t \in SUBSET Photos :
          LET y == [x EXCEPT !.stage = s, !.slips = t]
          IN  y \in Lots /\ SameLot(y, x) /\ y.late = x.late /\ y.warned = x.warned
  BY ZenonT(60) DEF Lots, SameLot
<1>5. lot.stage > 0
  BY <1>1, <1>3 DEF Lots
<1> HIDE DEF lot
<1>6. lot \in Lots /\ SameLot(lot, old) /\ lot.late = old.late /\ lot.warned = old.warned
  BY <1>2, <1>3, <1>4, ZenonT(60)
<1> QED
  BY <1>5, <1>6, IntakeAssumption DEF lot

LEMMA BeginTransferKeeps ==
    ASSUME IntakeIInv, NEW o \in Ops, NEW n \in Numbers, NEW slips \in SUBSET Photos,
           BeginTransfer(o, n, slips), UNCHANGED <<rows, sequence, boot>>
    PROVE  IntakeIInv'
<1> DEFINE lot == [batches[n] EXCEPT !.stage = @ + 1, !.slips = @ \cup slips]
           op == [stage |-> "save", number |-> n, lot |-> lot, before |-> batches[n]]
<1>1. /\ batches[n] \in Lots /\ batches[n] # NoLot /\ batches[n].stage < 3
      /\ ~\E p \in Ops : ops[p] # NoOp /\ ops[p].number = n
      /\ batches' = [batches EXCEPT ![n] = lot] /\ ops' = [ops EXCEPT ![o] = op]
  BY DEF BeginTransfer, Known, IntakeIInv, Types
<1>2. lot \in Lots /\ SameLot(lot, batches[n]) /\ lot.stage > 0
  BY <1>1, MovedLot
<1>3. /\ rows[n] # NoLot /\ SameLot(batches[n], rows[n]) /\ n <= sequence
      /\ sequence' = sequence /\ rows' = rows /\ n # 0
      /\ sequence' \in 0..MaxLots /\ sequence <= sequence'
  <2>1. rows[n] # NoLot /\ SameLot(batches[n], rows[n]) /\ n <= sequence
    BY <1>1 DEF IntakeIInv, Drawn
  <2>2. sequence \in 0..MaxLots /\ sequence <= sequence /\ n # 0
    BY IntakeAssumption DEF IntakeIInv, Types, Numbers
  <2> QED
    BY <2>1, <2>2
<1>4. SameLot(lot, rows[n]) /\ lot # NoLot
  BY <1>2, <1>3, IntakeAssumption DEF SameLot
<1> HIDE DEF lot
<1>5. /\ op \in OpRecord /\ op.number = n /\ op.stage = "save" /\ op.lot = lot
      /\ op.before = batches[n]
  BY <1>1, <1>2 DEF OpRecord, Stages
<1> HIDE DEF op
<1>6. Agrees(op, rows', sequence')
  BY <1>1, <1>2, <1>3, <1>4, <1>5 DEF Agrees
<1>7. OpsAgree' /\ OwnNumbers' /\ ops' \in [Ops -> OpRecord \cup {NoOp}]
  BY <1>1, <1>3, <1>5, <1>6, OthersAgree
<1>8. batches' \in [Numbers -> Lots \cup {NoLot}]
  BY <1>1, <1>2 DEF IntakeIInv, Types
<1>9. Drawn'
  BY <1>1, <1>3, <1>4 DEF IntakeIInv, Types, Drawn
<1> QED
  BY <1>3, <1>7, <1>8, <1>9 DEF IntakeIInv, Types

\* What the transaction leaves: its lot in its row, all that was stored.
LEMMA CommitsStore ==
    ASSUME IntakeIInv, NEW o \in Ops, At(o, "save"), Commits(o)
    PROVE  /\ ops[o].number \in Numbers /\ ops[o].number <= sequence
           /\ rows' \in [Numbers -> Lots \cup {NoLot}]
           /\ rows'[ops[o].number] = ops[o].lot
           /\ rows'[ops[o].number] # NoLot /\ SameLot(ops[o].lot, rows'[ops[o].number])
           /\ \A m \in Numbers : m # ops[o].number => rows'[m] = rows[m]
           /\ \A m \in Numbers : rows[m] # NoLot => rows'[m] # NoLot /\ SameLot(rows[m], rows'[m])
<1> DEFINE n == ops[o].number
           lot == ops[o].lot
<1>1. ops[o].stage = "save" /\ Agrees(ops[o], rows, sequence) /\ lot \in Lots
      /\ n \in Numbers \cup {0}
  BY AtStage
<1>2. n \in Numbers /\ n <= sequence
  BY <1>1 DEF Agrees
<1>3. rows[n] # NoLot => rows[n] \in Lots /\ SameLot(lot, rows[n])
  BY <1>1, <1>2 DEF Agrees, IntakeIInv, Types
<1>4. SameLot(lot, lot) /\ lot # NoLot
  BY <1>1, IntakeAssumption DEF SameLot
<1>5. rows' = [rows EXCEPT ![n] = lot] /\ rows \in [Numbers -> Lots \cup {NoLot}]
  BY DEF Commits, IntakeIInv, Types
<1>7. /\ rows' \in [Numbers -> Lots \cup {NoLot}] /\ rows'[n] = lot
      /\ \A m \in Numbers : m # n => rows'[m] = rows[m]
  BY <1>1, <1>2, <1>5
<1>8. ASSUME NEW m \in Numbers, rows[m] # NoLot
      PROVE  rows'[m] # NoLot /\ SameLot(rows[m], rows'[m])
  <2>1. CASE m = n
    BY <1>3, <1>4, <1>7, <1>8, <2>1 DEF SameLot
  <2>2. CASE m # n
    BY <1>7, <1>8, <2>2 DEF SameLot
  <2> QED
    BY <2>1, <2>2
<1> QED
  BY <1>2, <1>4, <1>7, <1>8

\* The others have other rows.
LEMMA OthersRows ==
    ASSUME IntakeIInv, NEW o \in Ops, At(o, "save"), Commits(o)
    PROVE  \A p \in Ops : p # o /\ ops[p] # NoOp /\ ops[p].number # 0 =>
               rows'[ops[p].number] = rows[ops[p].number]
<1> SUFFICES ASSUME NEW p \in Ops, p # o, ops[p] # NoOp, ops[p].number # 0
             PROVE  rows'[ops[p].number] = rows[ops[p].number]
  OBVIOUS
<1>1. ops[p].number \in Numbers
  BY DEF IntakeIInv, Types, OpRecord
<1>2. ops[p].number # ops[o].number
  BY DEF IntakeIInv, OwnNumbers, At
<1> QED
  BY <1>1, <1>2, CommitsStore

LEMMA CommitKeeps ==
    ASSUME IntakeIInv, NEW o \in Ops, Commit(o)
    PROVE  IntakeIInv'
<1> DEFINE n == ops[o].number
           op == [ops[o] EXCEPT !.stage = "show"]
<1>1. /\ At(o, "save") /\ Commits(o) /\ ops' = [ops EXCEPT ![o] = op]
      /\ UNCHANGED <<batches, sequence, boot>>
  BY DEF Commit
<1>2. ops[o] \in OpRecord /\ ops[o] # NoOp /\ Agrees(ops[o], rows, sequence)
      /\ ops[o].stage = "save"
  BY <1>1, AtStage
<1>3. op \in OpRecord /\ op.number = n /\ op.stage = "show" /\ op.lot = ops[o].lot
      /\ op.before = ops[o].before
  BY <1>2 DEF OpRecord, Stages
<1> HIDE DEF op
<1>4. sequence' \in 0..MaxLots /\ sequence <= sequence' /\ sequence' = sequence
  BY <1>1, IntakeAssumption DEF IntakeIInv, Types
<1>5. n \in Numbers /\ n # 0 /\ rows'[n] # NoLot /\ SameLot(ops[o].lot, rows'[n])
      /\ n <= sequence
  BY <1>1, CommitsStore DEF Numbers
<1>6. Agrees(op, rows', sequence')
  BY <1>3, <1>4, <1>5 DEF Agrees
<1>7. \A p \in Ops : p # o /\ ops[p] # NoOp /\ op.number # 0 => op.number # ops[p].number
  BY <1>2, <1>3 DEF IntakeIInv, OwnNumbers
<1>8. OpsAgree' /\ OwnNumbers' /\ ops' \in [Ops -> OpRecord \cup {NoOp}]
  <2>1. \A p \in Ops : p # o /\ ops[p] # NoOp /\ ops[p].number # 0 =>
            rows'[ops[p].number] = rows[ops[p].number]
    BY <1>1, OthersRows
  <2> QED
    BY <1>1, <1>3, <1>4, <1>6, <1>7, <2>1, OthersAgree
<1>9. Drawn' /\ rows' \in [Numbers -> Lots \cup {NoLot}]
  BY <1>1, <1>4, <1>5, CommitsStore DEF IntakeIInv, Drawn, SameLot
<1> QED
  BY <1>1, <1>4, <1>8, <1>9 DEF IntakeIInv, Types

\* The snapshot of a transfer is of the lot that is stored.
LEMMA RollbackKeeps ==
    ASSUME IntakeIInv, NEW o \in Ops, At(o, "save"), RolledBack(o),
           \A m \in Numbers : rows[m] # NoLot => rows'[m] # NoLot /\ SameLot(rows[m], rows'[m])
    PROVE  /\ batches' \in [Numbers -> Lots \cup {NoLot}]
           /\ \A m \in Numbers : batches'[m] # NoLot => rows'[m] # NoLot
                                                         /\ SameLot(batches'[m], rows'[m])
<1>1. batches \in [Numbers -> Lots \cup {NoLot}]
  BY DEF IntakeIInv, Types
<1>2. \A m \in Numbers : batches[m] # NoLot => rows'[m] # NoLot /\ SameLot(batches[m], rows'[m])
  BY DEF IntakeIInv, Drawn, SameLot
<1>3. CASE ops[o].before = NoLot
  BY <1>1, <1>2, <1>3 DEF RolledBack
<1>4. CASE ops[o].before # NoLot
  <2>1. /\ Agrees(ops[o], rows, sequence) /\ ops[o].stage = "save"
        /\ ops[o].number \in Numbers \cup {0} /\ ops[o].before \in Lots \cup {NoLot}
    BY AtStage
  <2>2. /\ ops[o].number \in Numbers /\ rows[ops[o].number] # NoLot
        /\ SameLot(ops[o].before, rows[ops[o].number])
    BY <1>4, <2>1 DEF Agrees
  <2>3. batches' = [batches EXCEPT ![ops[o].number] = ops[o].before]
    BY <1>4 DEF RolledBack
  <2>4. rows'[ops[o].number] # NoLot /\ SameLot(ops[o].before, rows'[ops[o].number])
    BY <2>2 DEF SameLot
  <2> QED
    BY <1>1, <1>2, <2>1, <2>2, <2>3, <2>4
<1> QED
  BY <1>3, <1>4

LEMMA SaveFailsKeeps ==
    ASSUME IntakeIInv, NEW o \in Ops, SaveFails(o)
    PROVE  IntakeIInv'
<1>1. /\ At(o, "save") /\ RolledBack(o) /\ Fails(o) /\ rows' = rows /\ sequence' = sequence
      /\ ops' = [ops EXCEPT ![o] = NoOp]
  BY DEF SaveFails, Fails
<1>2. boot' \in 0..Ready
  BY <1>1, BootStays
<1>3. OpsAgree' /\ OwnNumbers' /\ ops' \in [Ops -> OpRecord \cup {NoOp}]
  BY <1>1, EndAgrees
<1>4. /\ batches' \in [Numbers -> Lots \cup {NoLot}]
      /\ \A m \in Numbers : batches'[m] # NoLot => rows'[m] # NoLot /\ SameLot(batches'[m], rows'[m])
  <2>1. \A m \in Numbers : rows[m] # NoLot => rows'[m] # NoLot /\ SameLot(rows[m], rows'[m])
    BY <1>1 DEF SameLot
  <2> QED
    BY <1>1, <2>1, RollbackKeeps
<1>5. Drawn'
  BY <1>1, <1>4 DEF IntakeIInv, Drawn
<1> QED
  BY <1>1, <1>2, <1>3, <1>4, <1>5 DEF IntakeIInv, Types

LEMMA SaveUnansweredKeeps ==
    ASSUME IntakeIInv, NEW o \in Ops, SaveUnanswered(o)
    PROVE  IntakeIInv'
<1>1. /\ At(o, "save") /\ Commits(o) /\ RolledBack(o) /\ Fails(o) /\ sequence' = sequence
      /\ ops' = [ops EXCEPT ![o] = NoOp]
  BY DEF SaveUnanswered, Fails
<1>2. boot' \in 0..Ready
  BY <1>1, BootStays
<1>3. OpsAgree' /\ OwnNumbers' /\ ops' \in [Ops -> OpRecord \cup {NoOp}]
  <2>1. \A p \in Ops : p # o /\ ops[p] # NoOp /\ ops[p].number # 0 =>
            rows'[ops[p].number] = rows[ops[p].number]
    BY <1>1, OthersRows
  <2> QED
    BY <1>1, <2>1, EndAgrees
<1>4. /\ ops[o].number <= sequence /\ rows' \in [Numbers -> Lots \cup {NoLot}]
      /\ \A m \in Numbers : m # ops[o].number => rows'[m] = rows[m]
      /\ \A m \in Numbers : rows[m] # NoLot => rows'[m] # NoLot /\ SameLot(rows[m], rows'[m])
  BY <1>1, CommitsStore
<1>5. /\ batches' \in [Numbers -> Lots \cup {NoLot}]
      /\ \A m \in Numbers : batches'[m] # NoLot => rows'[m] # NoLot /\ SameLot(batches'[m], rows'[m])
  BY <1>1, <1>4, RollbackKeeps
<1>6. Drawn'
  BY <1>1, <1>4, <1>5 DEF IntakeIInv, Drawn
<1> QED
  BY <1>1, <1>2, <1>3, <1>4, <1>5, <1>6 DEF IntakeIInv, Types

LEMMA ShowKeeps ==
    ASSUME IntakeIInv, NEW o \in Ops, Show(o)
    PROVE  IntakeIInv'
<1> DEFINE n == ops[o].number
           op == [ops[o] EXCEPT !.stage = "evidence"]
<1>1. /\ At(o, "show") /\ batches' = [batches EXCEPT ![n] = ops[o].lot]
      /\ ops' = [ops EXCEPT ![o] = op] /\ UNCHANGED <<rows, sequence, boot>>
  BY DEF Show
<1>2. /\ ops[o] \in OpRecord /\ ops[o] # NoOp /\ Agrees(ops[o], rows, sequence)
      /\ ops[o].stage = "show" /\ ops[o].lot \in Lots /\ n \in Numbers \cup {0}
  BY <1>1, AtStage
<1>3. op \in OpRecord /\ op.number = n /\ op.stage = "evidence" /\ op.lot = ops[o].lot
      /\ op.before = ops[o].before
  BY <1>2 DEF OpRecord, Stages
<1> HIDE DEF op
<1>4. n \in Numbers /\ n # 0 /\ rows[n] # NoLot /\ SameLot(ops[o].lot, rows[n])
  BY <1>2 DEF Agrees, Numbers
<1>5. sequence' \in 0..MaxLots /\ sequence <= sequence' /\ sequence' = sequence
  BY <1>1, IntakeAssumption DEF IntakeIInv, Types
<1>6. Agrees(op, rows', sequence')
  BY <1>1, <1>2, <1>3, <1>4, <1>5 DEF Agrees
<1>7. \A p \in Ops : p # o /\ ops[p] # NoOp /\ op.number # 0 => op.number # ops[p].number
  BY <1>2, <1>3 DEF IntakeIInv, OwnNumbers
<1>8. OpsAgree' /\ OwnNumbers' /\ ops' \in [Ops -> OpRecord \cup {NoOp}]
  BY <1>1, <1>3, <1>5, <1>6, <1>7, OthersAgree
<1>9. Drawn' /\ batches' \in [Numbers -> Lots \cup {NoLot}]
  BY <1>1, <1>2, <1>4 DEF IntakeIInv, Types, Drawn
<1> QED
  BY <1>1, <1>5, <1>8, <1>9 DEF IntakeIInv, Types

LEMMA AddEvidenceKeeps ==
    ASSUME IntakeIInv, NEW o \in Ops, AddEvidence(o)
    PROVE  IntakeIInv'
<1>1. Ends(o) /\ ops' = [ops EXCEPT ![o] = NoOp] /\ UNCHANGED <<batches, rows, sequence>>
  BY DEF AddEvidence, Ends
<1>2. boot' \in 0..Ready
  <2>1. Serving \/ boot < Ready
    <3>1. Ready \in Nat /\ boot \in 0..Ready
      BY LenProperties, IntakeAssumption DEF IntakeIInv, Types, Ready
    <3> QED
      BY <3>1 DEF Serving
  <2> QED
    BY <1>1, <2>1, BootStays
<1>3. OpsAgree' /\ OwnNumbers' /\ ops' \in [Ops -> OpRecord \cup {NoOp}]
  BY <1>1, EndAgrees
<1> QED
  BY <1>1, <1>2, <1>3 DEF IntakeIInv, Types, Drawn

LEMMA RestartKeeps ==
    ASSUME IntakeIInv, Restart
    PROVE  IntakeIInv'
<1>1. /\ batches' = rows /\ rows' = rows /\ sequence' = sequence
      /\ ops' = [o \in Ops |-> NoOp] /\ boot' \in {1, Ready}
  BY DEF Restart
<1>2. Ready \in Nat \ {0}
  BY IntakeAssumption DEF Ready
<1>3. Types'
  BY <1>1, <1>2 DEF IntakeIInv, Types
<1>4. Drawn' /\ OpsAgree' /\ OwnNumbers'
  BY <1>1 DEF IntakeIInv, Drawn, SameLot, OpsAgree, OwnNumbers
<1> QED
  BY <1>3, <1>4 DEF IntakeIInv

LEMMA DemoHarvestKeeps ==
    ASSUME IntakeIInv, NEW o \in Ops, DemoHarvest(o)
    PROVE  IntakeIInv'
<1> DEFINE line == Demo[boot]
<1>1. boot \in DOMAIN Demo /\ Begin(o, line.plot, line.kg, {line.photo}, boot)
      /\ UNCHANGED <<batches, rows, sequence, boot>>
  BY DEF DemoHarvest
<1>2. line.plot \in Plots /\ line.kg \in Nat /\ {line.photo} \in SUBSET Photos
      /\ boot \in 0..Len(Demo)
  <2>1. line \in [plot : Plots, kg : Nat \ {0}, photo : Photos] /\ boot \in 0..Len(Demo)
    <3>1. /\ Demo \in [1..Len(Demo) -> [plot : Plots, kg : Nat \ {0}, photo : Photos]]
          /\ DOMAIN Demo = 1..Len(Demo) /\ Len(Demo) \in Nat
      BY IntakeAssumption, LenProperties
    <3> QED
      BY <1>1, <3>1
  <2> QED
    BY <2>1
<1> HIDE DEF line
<1> QED
  BY <1>1, <1>2, BeginKeeps

LEMMA DemoTransferKeeps ==
    ASSUME IntakeIInv, NEW o \in Ops, DemoTransfer(o)
    PROVE  IntakeIInv'
<1> DEFINE n == DemoMoves[boot - Len(Demo)]
<1>1. rows' = rows /\ sequence' = sequence
  BY DEF DemoTransfer
<1>2. CASE n \in Numbers /\ BeginTransfer(o, n, {}) /\ boot' = boot
  BY <1>1, <1>2, BeginTransferKeeps
<1>3. CASE boot' = Ready /\ batches' = batches /\ ops' = ops
  <2>1. boot' \in 0..Ready
    BY <1>3, IntakeAssumption DEF Ready
  <2> QED
    BY <1>1, <1>3, <2>1 DEF IntakeIInv, Types, Drawn, OpsAgree, OwnNumbers
<1> QED
  BY <1>2, <1>3 DEF DemoTransfer

LEMMA StepKeeps == IntakeIInv /\ [Next]_vars => IntakeIInv'
<1> SUFFICES ASSUME IntakeIInv, [Next]_vars PROVE IntakeIInv'
  OBVIOUS
<1>1. ASSUME NEW o \in Ops, NEW plot \in Plots, NEW kg \in Weights, NEW photos \in SUBSET Photos,
             Post(o, plot, kg, photos)
      PROVE  IntakeIInv'
  <2>1. kg \in Nat /\ 0 \in 0..Len(Demo)
    BY IntakeAssumption
  <2> QED
    BY <1>1, <2>1, BeginKeeps DEF Post
<1>2. ASSUME NEW o \in Ops, NEW n \in Numbers, NEW slips \in SUBSET Photos, Transfer(o, n, slips)
      PROVE  IntakeIInv'
  BY <1>2, BeginTransferKeeps DEF Transfer
<1>3. ASSUME NEW p \in Photos, Upload(p) PROVE IntakeIInv'
  BY <1>3 DEF Upload, IntakeIInv, Types, Drawn, OpsAgree, OwnNumbers
<1>4. ASSUME NEW o \in Ops,
             \/ Validate(o) \/ NextBatchSequence(o) \/ Commit(o) \/ Show(o) \/ AddEvidence(o)
             \/ SaveFails(o) \/ SaveUnanswered(o) \/ DemoHarvest(o) \/ DemoTransfer(o)
      PROVE  IntakeIInv'
  BY <1>4, ValidateKeeps, NumberKeeps, CommitKeeps, ShowKeeps, AddEvidenceKeeps,
     SaveFailsKeeps, SaveUnansweredKeeps, DemoHarvestKeeps, DemoTransferKeeps
<1>5. CASE UNCHANGED vars
  BY <1>5 DEF vars, IntakeIInv, Types, Drawn, OpsAgree, OwnNumbers
<1>6. CASE Next
  <2>1. ASSUME NEW o \in Ops, NEW plot \in Plots, NEW kg \in Weights, NEW p \in Photos,
               Post(o, plot, kg, {p}) \/ Post(o, plot, kg, {})
        PROVE  IntakeIInv'
    <3>1. {p} \in SUBSET Photos /\ {} \in SUBSET Photos
      OBVIOUS
    <3> QED
      BY <1>1, <2>1, <3>1
  <2>2. ASSUME NEW o \in Ops, NEW n \in Numbers, NEW p \in Photos, Transfer(o, n, {p})
        PROVE  IntakeIInv'
    BY <1>2, <2>2
  <2> QED
    BY <1>3, <1>4, <1>6, <2>1, <2>2, RestartKeeps DEF Next
<1> QED
  BY <1>5, <1>6

\* A step leaves every row as it is, or is a transaction.
LEMMA RowsStay ==
    ASSUME IntakeIInv, [Next]_vars
    PROVE  \A n \in Numbers : rows[n] # NoLot => rows'[n] # NoLot /\ SameLot(rows[n], rows'[n])
<1>1. CASE UNCHANGED rows
  BY <1>1 DEF SameLot
<1>2. ASSUME NEW o \in Ops, Commit(o) \/ SaveUnanswered(o)
      PROVE  \A n \in Numbers : rows[n] # NoLot => rows'[n] # NoLot /\ SameLot(rows[n], rows'[n])
  <2>1. At(o, "save") /\ Commits(o)
    BY <1>2, SMTT(60) DEF Commit, SaveUnanswered
  <2> QED
    BY <2>1, CommitsStore
<1>3. (\E o \in Ops : Commit(o) \/ SaveUnanswered(o)) \/ UNCHANGED rows
  BY DEF Next, vars, Post, Transfer, Upload, Validate, NextBatchSequence, Show, AddEvidence,
         SaveFails, DemoHarvest, DemoTransfer, Restart
<1> QED
  BY <1>1, <1>2, <1>3

(***************************************************************************)
(* The theorem.  In the database a lot keeps its plot, its weight, its     *)
(* photos and its line of the demo script for good: BatsService draws each *)
(* number from nextval, no two requests hold one number, and a request     *)
(* that moves a lot holds what hydrate or the harvest before it had.       *)
(***************************************************************************)
THEOREM LotsStay == Spec => StoredLotsStay
<1>1. IntakeIInv /\ [Next]_vars =>
          [\A n \in Stored : rows'[n] # NoLot /\ SameLot(rows[n], rows'[n])]_vars
  BY RowsStay DEF Stored
<1>2. IntakeIInv /\ [Next]_vars => IntakeIInv'
  BY StepKeeps
<1> QED
  BY <1>1, <1>2, IntakeInitially, PTL DEF Spec, StoredLotsStay

(***************************************************************************)
(* The life of a photo.  A lot is late when it was validated while another *)
(* harvest was past its validation or had lost its answer; of the harvests *)
(* under way one at most is not late, and the photos of that one are used  *)
(* by no stored lot that is not late.                                      *)
(***************************************************************************)

Under == {o \in Ops : ops[o] # NoOp}

\* The requests of a harvest that was validated in time.
OnTime == {o \in PastValidation : ops[o].before = NoLot /\ ~ops[o].lot.late}

OneOnTime == \A o, p \in OnTime : o = p

OnTimeIsNew ==
    \A o \in OnTime : ops[o].stage \in {"number", "save"} =>
        \A n \in Stored : ops[o].lot.photos \cap rows[n].photos # {} => rows[n].late

\* Being late is part of a lot, as its photos are.
LateStays ==
    /\ \A n \in Numbers : Known(n) => batches[n].late = rows[n].late
    /\ \A o \in Under :
          /\ ops[o].before # NoLot =>
                /\ ops[o].before.late = rows[ops[o].number].late
                /\ ops[o].lot.late = rows[ops[o].number].late
          /\ ops[o].stage \in {"show", "evidence"} =>
                ops[o].lot.late = rows[ops[o].number].late

\* The photos of a stored lot are known unless its request still has to tell
\* or its answer was lost.
RowsAreKnown ==
    \A n \in Stored :
        \/ rows[n].photos \subseteq known
        \/ n \in unanswered
        \/ \E o \in Under : ops[o].stage \in {"show", "evidence"} /\ ops[o].number = n

\* The table of files names the lots that show a photo, and no others but
\* those a transfer was made again for.
FilesNamed ==
    /\ \A n \in Stored : \A p \in Used(rows[n]) : files[p] \in Numbers
    /\ \A p \in Photos : files[p] \in Numbers =>
          /\ files[p] \in Stored
          /\ p \in Used(rows[files[p]]) \/ rows[files[p]].stage > 0

\* What memory knows, the table of files can tell again.
KnownIsNamed == \A p \in known : files[p] \in Numbers

\* What a request is about to tell, or to put back.
TellsWhatIsStored ==
    \A o \in Under :
        /\ ops[o].stage \in {"show", "evidence"} =>
              Used(ops[o].lot) \subseteq Used(rows[ops[o].number])
        /\ ops[o].stage = "evidence" => batches[ops[o].number] = ops[o].lot
        /\ ops[o].before # NoLot => Used(ops[o].before) \subseteq known

RestTypes ==
    /\ known \subseteq Photos
    /\ files \in [Photos -> Numbers \cup {0, -1}]
    /\ unanswered \subseteq Numbers
    /\ faults \in 0..MaxFaults

EvidenceIInv ==
    /\ RestTypes /\ OneOnTime /\ OnTimeIsNew /\ LateStays /\ RowsAreKnown
    /\ FilesNamed /\ TellsWhatIsStored
    /\ EvidenceUsedOnce /\ UsedIsKnown /\ KnownIsNamed

\* The operation of any request under way.
LEMMA AboutRequest ==
    ASSUME IntakeIInv, NEW o \in Under
    PROVE  /\ o \in Ops /\ ops[o] # NoOp /\ ops[o] \in OpRecord
           /\ Agrees(ops[o], rows, sequence)
           /\ ops[o].number \in Numbers \cup {0} /\ ops[o].lot \in Lots
           /\ ops[o].before \in Lots \cup {NoLot}
           /\ ops[o].stage \in Stages
BY DEF IntakeIInv, Types, OpsAgree, OpRecord, Under

LEMMA EvidenceInitially == Init => EvidenceIInv
<1> SUFFICES ASSUME Init PROVE EvidenceIInv
  OBVIOUS
<1>1. Under = {} /\ OnTime = {} /\ Stored = {} /\ \A n \in Numbers : ~Known(n)
  BY DEF Init, Under, OnTime, PastValidation, Stored, Known
<1>2. RestTypes /\ KnownIsNamed
  BY IntakeAssumption DEF Init, RestTypes, KnownIsNamed
<1>3. FilesNamed
  BY <1>1 DEF Init, FilesNamed, Numbers
<1>4. OneOnTime /\ OnTimeIsNew /\ LateStays /\ RowsAreKnown /\ TellsWhatIsStored
  BY <1>1 DEF OneOnTime, OnTimeIsNew, LateStays, RowsAreKnown, TellsWhatIsStored
<1>5. EvidenceUsedOnce /\ UsedIsKnown
  BY <1>1 DEF EvidenceUsedOnce, UsedIsKnown
<1> QED
  BY <1>2, <1>3, <1>4, <1>5 DEF EvidenceIInv

\* A request that comes, draws its number or fails before it saves.
LEMMA EarlyStepKeepsEvidence ==
    ASSUME IntakeIInv, EvidenceIInv, NEW o \in Ops, NEW op,
           ops' = [ops EXCEPT ![o] = op],
           op # NoOp => op.before = NoLot /\ op.stage \in {"locate", "number", "save"},
           op # NoOp /\ op.stage # "locate" => At(o, "number") /\ op.lot = ops[o].lot,
           ops[o] # NoOp => ops[o].stage \in {"locate", "number"},
           UNCHANGED <<batches, rows, known, files, unanswered, faults>>
    PROVE  EvidenceIInv'
<1>1. \A p \in Ops : ops'[p] = IF p = o THEN op ELSE ops[p]
  BY DEF IntakeIInv, Types
<1>2. o \in Under => ops[o].number = 0 /\ ops[o].before = NoLot
  BY AboutRequest DEF Agrees, Under
<1>3. Stored' = Stored /\ \A n \in Numbers : Known(n)' = Known(n)
  BY DEF Stored, Known
<1>4. /\ \A p \in Under' : p # o => p \in Under /\ ops'[p] = ops[p]
      /\ \A p \in Under : p # o => p \in Under' /\ ops'[p] = ops[p]
  BY <1>1 DEF Under
<1>5. /\ \A p \in OnTime' : p \in OnTime
      /\ \A p \in OnTime' : ops'[p].lot = ops[p].lot
                            /\ (ops'[p].stage \in {"number", "save"} =>
                                   ops[p].stage \in {"number", "save"})
  <2> SUFFICES ASSUME NEW p \in OnTime'
               PROVE  p \in OnTime /\ ops'[p].lot = ops[p].lot
                      /\ (ops'[p].stage \in {"number", "save"} =>
                             ops[p].stage \in {"number", "save"})
    OBVIOUS
  <2>1. p \in Ops /\ ops'[p] # NoOp /\ ops'[p].stage # "locate" /\ ops'[p].before = NoLot
        /\ ~ops'[p].lot.late
    BY DEF OnTime, PastValidation
  <2>2. CASE p = o
    <3>1. ops'[p] = op /\ At(o, "number") /\ op.lot = ops[o].lot
      BY <1>1, <2>1, <2>2
    <3>2. ops[o].before = NoLot
      BY <1>2, <3>1 DEF At, Under
    <3> QED
      BY <2>1, <2>2, <3>1, <3>2 DEF At, OnTime, PastValidation
  <2>3. CASE p # o
    BY <1>1, <2>1, <2>3 DEF OnTime, PastValidation
  <2> QED
    BY <2>2, <2>3
<1>6. OneOnTime' /\ OnTimeIsNew'
  BY <1>3, <1>5 DEF EvidenceIInv, OneOnTime, OnTimeIsNew
<1>7. o \in Under' => /\ ops'[o].before = NoLot
                      /\ ops'[o].stage \notin {"show", "evidence"}
  BY <1>1 DEF Under
<1>8. LateStays' /\ TellsWhatIsStored'
  BY <1>3, <1>4, <1>7, SMTT(60) DEF EvidenceIInv, LateStays, TellsWhatIsStored
<1>9. RowsAreKnown'
  <2>1. \A p \in Under : ops[p].stage \in {"show", "evidence"} => p # o
    BY DEF Under
  <2> QED
    BY <1>3, <1>4, <2>1 DEF EvidenceIInv, RowsAreKnown
<1>10. UsedIsKnown'
  <2>1. \A p \in Under : ops[p].number \in Numbers => p # o
    BY <1>2 DEF Numbers
  <2> QED
    BY <1>3, <1>4, <2>1 DEF EvidenceIInv, UsedIsKnown, Under
<1>11. RestTypes' /\ FilesNamed' /\ EvidenceUsedOnce' /\ KnownIsNamed'
  BY <1>3 DEF EvidenceIInv, RestTypes, FilesNamed, EvidenceUsedOnce, KnownIsNamed
<1> QED
  BY <1>6, <1>8, <1>9, <1>10, <1>11 DEF EvidenceIInv

LEMMA BeginKeepsEvidence ==
    ASSUME IntakeIInv, EvidenceIInv, NEW o \in Ops, NEW plot, NEW kg, NEW photos, NEW demo,
           Begin(o, plot, kg, photos, demo),
           UNCHANGED <<batches, rows, known, files, unanswered, faults>>
    PROVE  EvidenceIInv'
<1> DEFINE lot == [plot |-> plot, kg |-> kg, photos |-> photos, slips |-> {}, stage |-> 0,
                   warned |-> FALSE, demo |-> demo, late |-> FALSE]
           op == [stage |-> "locate", number |-> 0, before |-> NoLot, lot |-> lot]
<1>1. ops[o] = NoOp /\ ops' = [ops EXCEPT ![o] = op]
  BY DEF Begin
<1>2. op.stage = "locate" /\ op.before = NoLot
  OBVIOUS
<1> HIDE DEF op
<1> QED
  BY <1>1, <1>2, EarlyStepKeepsEvidence

LEMMA NumberKeepsEvidence ==
    ASSUME IntakeIInv, EvidenceIInv, NEW o \in Ops, NextBatchSequence(o)
    PROVE  EvidenceIInv'
<1> DEFINE op == [ops[o] EXCEPT !.stage = "save", !.number = sequence + 1]
<1>1. /\ At(o, "number") /\ ops' = [ops EXCEPT ![o] = op]
      /\ UNCHANGED <<batches, rows, known, files, unanswered, faults>>
  BY DEF NextBatchSequence, IntakeIInv, Types
<1>2. /\ ops[o] \in OpRecord /\ ops[o].stage = "number" /\ ops[o].before = NoLot
  BY <1>1, AtStage DEF Agrees
<1>3. op.stage = "save" /\ op.before = NoLot /\ op.lot = ops[o].lot
  BY <1>2 DEF OpRecord
<1> HIDE DEF op
<1> QED
  BY <1>1, <1>2, <1>3, EarlyStepKeepsEvidence

\* What a photo must not be to be accepted: used by a stored lot whose request
\* is over and had its answer.
LEMMA ValidateKeepsEvidence ==
    ASSUME IntakeIInv, EvidenceIInv, NEW o \in Ops, Validate(o)
    PROVE  EvidenceIInv'
<1>1. /\ At(o, "locate") /\ UNCHANGED <<batches, rows, known, files, unanswered, faults>>
  BY DEF Validate
<1>2. /\ ops[o] \in OpRecord /\ ops[o] # NoOp /\ ops[o].stage = "locate"
      /\ ops[o].number = 0 /\ ops[o].before = NoLot
  BY <1>1, AtStage DEF Agrees
<1>3. CASE Fails(o)
  BY <1>1, <1>2, <1>3, EarlyStepKeepsEvidence DEF Fails
<1>4. CASE ~Fails(o)
  <2> DEFINE warned == Yield(ops[o].lot.plot) + ops[o].lot.kg > MaxYield[ops[o].lot.plot]
             late == PastValidation # {} \/ unanswered # {}
             op == [ops[o] EXCEPT !.stage = "number", !.lot.warned = warned, !.lot.late = late]
  <2>1. ops' = [ops EXCEPT ![o] = op] /\ ops[o].lot.photos \cap known = {}
    BY <1>4 DEF Validate
  <2>2. late \in BOOLEAN
    OBVIOUS
  <2> HIDE DEF warned
  <2>3. /\ op.number = 0 /\ op.stage = "number" /\ op.before = NoLot
        /\ op.lot.photos = ops[o].lot.photos /\ op.lot.late = late
    BY <1>2 DEF OpRecord, Lots
  <2> HIDE DEF op, late
  <2>4. \A p \in Ops : ops'[p] = IF p = o THEN op ELSE ops[p]
    BY <2>1 DEF IntakeIInv, Types
  <2>5. Stored' = Stored /\ \A n \in Numbers : Known(n)' = Known(n)
    BY <1>1 DEF Stored, Known
  <2>6. /\ \A p \in Under' : p = o \/ (p \in Under /\ ops'[p] = ops[p])
        /\ \A p \in Under : p = o \/ (p \in Under' /\ ops'[p] = ops[p])
    BY <2>4 DEF Under
  <2>7. /\ \A p \in OnTime' : p = o \/ (p \in OnTime /\ ops'[p] = ops[p])
        /\ o \in OnTime' => ~late
        /\ OnTime \subseteq PastValidation
    BY <2>3, <2>4 DEF OnTime, PastValidation
  <2>8. OneOnTime'
    BY <2>7 DEF EvidenceIInv, OneOnTime, late
  <2>9. ASSUME ~late, NEW n \in Stored
        PROVE  ops[o].lot.photos \cap rows[n].photos = {}
    <3>1. PastValidation = {} /\ unanswered = {}
      BY <2>9 DEF late
    <3>2. \A p \in Under : ops[p].stage \notin {"show", "evidence"}
      BY <3>1 DEF Under, PastValidation
    <3>3. rows[n].photos \subseteq known
      BY <3>1, <3>2 DEF EvidenceIInv, RowsAreKnown
    <3> QED
      BY <2>1, <3>3
  <2>10. OnTimeIsNew'
    <3> SUFFICES ASSUME NEW p \in OnTime', ops'[p].stage \in {"number", "save"},
                        NEW n \in Stored, ops'[p].lot.photos \cap rows[n].photos # {}
                 PROVE  rows[n].late
      BY <1>1, <2>5 DEF OnTimeIsNew
    <3>1. CASE p = o
      BY <2>3, <2>4, <2>7, <2>9, <3>1
    <3>2. CASE p # o
      BY <2>7, <3>2 DEF EvidenceIInv, OnTimeIsNew
    <3> QED
      BY <3>1, <3>2
  <2>11. LateStays' /\ TellsWhatIsStored'
    BY <1>1, <2>3, <2>4, <2>5, <2>6 DEF EvidenceIInv, LateStays, TellsWhatIsStored
  <2>12. RowsAreKnown'
    BY <1>1, <1>2, <2>5, <2>6 DEF EvidenceIInv, RowsAreKnown
  <2>13. UsedIsKnown'
    <3>1. \A n \in Numbers : n # 0
      BY DEF Numbers
    <3> QED
      BY <1>1, <1>2, <2>5, <2>6, <3>1 DEF EvidenceIInv, UsedIsKnown, Under
  <2>14. RestTypes' /\ FilesNamed' /\ EvidenceUsedOnce' /\ KnownIsNamed'
    BY <1>1, <2>5 DEF EvidenceIInv, RestTypes, FilesNamed, EvidenceUsedOnce, KnownIsNamed
  <2> QED
    BY <2>8, <2>10, <2>11, <2>12, <2>13, <2>14 DEF EvidenceIInv
<1> QED
  BY <1>3, <1>4

LEMMA BeginTransferKeepsEvidence ==
    ASSUME IntakeIInv, EvidenceIInv, NEW o \in Ops, NEW n \in Numbers, NEW slips \in SUBSET Photos,
           BeginTransfer(o, n, slips), UNCHANGED <<rows, known, files, unanswered, faults>>
    PROVE  EvidenceIInv'
<1> DEFINE lot == [batches[n] EXCEPT !.stage = @ + 1, !.slips = @ \cup slips]
           op == [stage |-> "save", number |-> n, lot |-> lot, before |-> batches[n]]
<1>1. /\ batches[n] \in Lots /\ batches[n] # NoLot /\ ops[o] = NoOp
      /\ \A p \in Under : ops[p].number # n
      /\ batches' = [batches EXCEPT ![n] = lot] /\ ops' = [ops EXCEPT ![o] = op]
  BY DEF BeginTransfer, Known, IntakeIInv, Types, Under
<1>2. lot.late = batches[n].late /\ lot \in Lots
  <2>1. batches[n].stage < 3
    BY DEF BeginTransfer
  <2> QED
    BY <1>1, <2>1, MovedLot
<1> HIDE DEF lot
<1>3. op.number = n /\ op.stage = "save" /\ op.lot = lot /\ op.before = batches[n] /\ op # NoOp
  <2>1. op \in OpRecord
    BY <1>1, <1>2 DEF OpRecord, Stages
  <2> QED
    BY <2>1, IntakeAssumption
<1> HIDE DEF op
<1>4. \A p \in Ops : ops'[p] = IF p = o THEN op ELSE ops[p]
  BY <1>1 DEF IntakeIInv, Types
<1>5. /\ \A p \in Under' : p = o \/ (p \in Under /\ ops'[p] = ops[p])
      /\ \A p \in Under : p # o /\ p \in Under' /\ ops'[p] = ops[p]
  BY <1>1, <1>4 DEF Under
<1>6. Stored' = Stored
  BY DEF Stored
<1>7. /\ \A m \in Numbers : m # n => batches'[m] = batches[m]
      /\ batches'[n] = lot
  BY <1>1 DEF IntakeIInv, Types
<1>8. batches[n].late = rows[n].late
  BY <1>1 DEF EvidenceIInv, LateStays, Known
<1>9. OneOnTime' /\ OnTimeIsNew'
  <2>1. \A p \in OnTime' : p \in OnTime /\ ops'[p] = ops[p]
    BY <1>1, <1>3, <1>4 DEF OnTime, PastValidation
  <2> QED
    BY <1>6, <2>1 DEF EvidenceIInv, OneOnTime, OnTimeIsNew
<1>10. LateStays'
  <2>1. \A m \in Numbers : Known(m)' => batches'[m].late = rows[m].late
    BY <1>2, <1>7, <1>8 DEF EvidenceIInv, LateStays, Known
  <2>2. \A p \in Under' :
          /\ ops'[p].before # NoLot =>
                /\ ops'[p].before.late = rows[ops'[p].number].late
                /\ ops'[p].lot.late = rows[ops'[p].number].late
          /\ ops'[p].stage \in {"show", "evidence"} =>
                ops'[p].lot.late = rows[ops'[p].number].late
    <3>1. ops'[o] = op
      BY <1>4
    <3> QED
      BY <1>2, <1>3, <1>5, <1>8, <3>1 DEF EvidenceIInv, LateStays
  <2> QED
    BY <2>1, <2>2 DEF LateStays
<1>11. RowsAreKnown'
  BY <1>5, <1>6 DEF EvidenceIInv, RowsAreKnown
<1>12. TellsWhatIsStored'
  <2>1. Used(batches[n]) \subseteq known
    BY <1>1 DEF EvidenceIInv, UsedIsKnown, Known, Under
  <2>2. ASSUME NEW p \in Under, ops[p].stage = "evidence"
        PROVE  batches'[ops[p].number] = batches[ops[p].number]
    <3>1. ops[p].number \in Numbers
      BY <2>2, AboutRequest DEF Agrees
    <3> QED
      BY <1>1, <1>7, <3>1
  <2>3. ops'[o] = op
    BY <1>4
  <2> QED
    BY <1>3, <1>5, <2>1, <2>2, <2>3 DEF EvidenceIInv, TellsWhatIsStored
<1>13. UsedIsKnown'
  <2> SUFFICES ASSUME NEW m \in Numbers, Known(m)',
                      \A p \in Under' : ops'[p].number # m
               PROVE  Used(batches'[m]) \subseteq known
    BY DEF UsedIsKnown, Under
  <2>1. o \in Under' /\ ops'[o] = op
    BY <1>3, <1>4 DEF Under
  <2>2. m # n
    BY <1>3, <2>1
  <2> QED
    BY <1>5, <1>7, <2>2 DEF EvidenceIInv, UsedIsKnown, Known, Under
<1>14. RestTypes' /\ FilesNamed' /\ EvidenceUsedOnce' /\ KnownIsNamed'
  BY <1>6 DEF EvidenceIInv, RestTypes, FilesNamed, EvidenceUsedOnce, KnownIsNamed
<1> QED
  BY <1>9, <1>10, <1>11, <1>12, <1>13, <1>14 DEF EvidenceIInv

LEMMA UploadKeepsEvidence ==
    ASSUME IntakeIInv, EvidenceIInv, NEW p \in Photos, Upload(p)
    PROVE  EvidenceIInv'
<1>1. /\ files[p] = -1 /\ files' = [files EXCEPT ![p] = 0]
      /\ UNCHANGED <<batches, rows, known, ops, unanswered, faults>>
  BY DEF Upload
<1>2. -1 \notin Numbers /\ 0 \notin Numbers
  BY DEF Numbers
<1>3. /\ files' \in [Photos -> Numbers \cup {0, -1}]
      /\ \A q \in Photos : files[q] \in Numbers \/ files'[q] \in Numbers => files'[q] = files[q]
  BY <1>1, <1>2 DEF EvidenceIInv, RestTypes
<1>4. \A n \in Stored : Used(rows[n]) \subseteq Photos
  BY DEF Stored, IntakeIInv, Types, Lots, Used
<1>5. FilesNamed'
  BY <1>1, <1>3, <1>4 DEF EvidenceIInv, FilesNamed, Stored
<1>6. OneOnTime' /\ OnTimeIsNew' /\ LateStays' /\ RowsAreKnown' /\ TellsWhatIsStored'
  BY <1>1, SMTT(60) DEF EvidenceIInv, OneOnTime, OnTimeIsNew, LateStays, RowsAreKnown, TellsWhatIsStored,
     OnTime, PastValidation, Under, Stored, Known
<1>7. RestTypes' /\ EvidenceUsedOnce' /\ UsedIsKnown' /\ KnownIsNamed'
  BY <1>1, <1>3 DEF EvidenceIInv, RestTypes, EvidenceUsedOnce, UsedIsKnown, KnownIsNamed,
     Stored, Known
<1> QED
  BY <1>5, <1>6, <1>7 DEF EvidenceIInv

\* What the transaction does to what is stored.
LEMMA CommitsEvidence ==
    ASSUME IntakeIInv, EvidenceIInv, NEW o \in Ops, At(o, "save"), Commits(o)
    PROVE  LET n == ops[o].number IN
           /\ Used(ops[o].lot) \subseteq Used(rows'[n]) /\ rows'[n].late = ops[o].lot.late
           /\ rows'[n].photos = ops[o].lot.photos
           /\ Stored' = Stored \cup {n}
           /\ \A m \in Stored : /\ rows'[m].photos = rows[m].photos
                                /\ rows'[m].late = rows[m].late
                                /\ m # n => Used(rows[m]) \subseteq Used(rows'[m])
           /\ files' \in [Photos -> Numbers \cup {0, -1}] /\ FilesNamed'
           /\ \A p \in Photos : files[p] \in Numbers => files'[p] \in Numbers
           /\ EvidenceUsedOnce'
           /\ \A p \in OnTime : p # o /\ ops[p].stage \in {"number", "save"} =>
                 \A m \in Stored' : ops[p].lot.photos \cap rows'[m].photos # {} => rows'[m].late
<1> DEFINE n == ops[o].number
           lot == ops[o].lot
<1>1. /\ ops[o] # NoOp /\ ops[o].stage = "save" /\ Agrees(ops[o], rows, sequence) /\ lot \in Lots
      /\ o \in Under
  BY AtStage DEF Under
<1>2. /\ n \in Numbers /\ rows'[n] # NoLot
      /\ \A m \in Numbers : m # n => rows'[m] = rows[m]
      /\ \A m \in Numbers : rows[m] # NoLot => rows'[m] # NoLot /\ SameLot(rows[m], rows'[m])
      /\ SameLot(lot, rows'[n])
  BY CommitsStore
<1>3. rows'[n] = lot
  BY CommitsStore
<1>5. rows[n] # NoLot => rows[n].late = lot.late /\ ops[o].before # NoLot
  BY <1>1 DEF Agrees, EvidenceIInv, LateStays
<1>6. rows[n] = NoLot => ops[o].before = NoLot
  BY <1>1 DEF Agrees
<1>7. Stored' = Stored \cup {n} /\ Stored \subseteq Numbers
  BY <1>2 DEF Stored
<1>8. \A m \in Stored : /\ rows'[m].photos = rows[m].photos
                        /\ rows'[m].late = rows[m].late
                        /\ m # n => Used(rows[m]) \subseteq Used(rows'[m])
  <2> SUFFICES ASSUME NEW m \in Stored
               PROVE  /\ rows'[m].photos = rows[m].photos
                      /\ rows'[m].late = rows[m].late
                      /\ m # n => Used(rows[m]) \subseteq Used(rows'[m])
    OBVIOUS
  <2>1. m \in Numbers /\ rows[m] # NoLot /\ rows'[m].photos = rows[m].photos
    BY <1>2 DEF Stored, SameLot
  <2>2. CASE m # n
    BY <1>2, <2>1, <2>2
  <2>3. CASE m = n
    BY <1>3, <1>5, <2>1, <2>3
  <2> QED
    BY <2>1, <2>2, <2>3
<1>9. files' = [p \in Photos |-> IF p \in Used(lot) THEN n ELSE files[p]]
      /\ files' \in [Photos -> Numbers \cup {0, -1}]
  BY <1>2 DEF Commits, EvidenceIInv, RestTypes
<1>10. \A m \in Stored' : Used(rows'[m]) \subseteq Photos
  BY CommitsStore DEF Stored, Lots, Used
\* A lot that had a row is saved by a transfer.
<1>moved. rows[n] # NoLot => lot.stage > 0
  BY <1>1, <1>5 DEF Agrees
<1>named. \A p \in Photos : files[p] \in Numbers => files'[p] \in Numbers
  BY <1>2, <1>9
<1>11. FilesNamed'
  <2>1. ASSUME NEW m \in Stored', NEW p \in Used(rows'[m])
        PROVE  files'[p] \in Numbers
    <3>1. p \in Photos
      BY <1>10
    <3>2. CASE p \in Used(lot)
      BY <1>2, <1>9, <3>1, <3>2
    <3>3. CASE p \notin Used(lot)
      <4>1. m \in Stored /\ p \in Used(rows[m])
        <5>1. CASE m = n
          BY <1>3, <2>1, <3>3, <5>1
        <5>2. CASE m # n
          BY <1>2, <1>7, <2>1, <5>2
        <5> QED
          BY <5>1, <5>2
      <4> QED
        BY <1>9, <3>1, <3>3, <4>1 DEF EvidenceIInv, FilesNamed
    <3> QED
      BY <3>2, <3>3
  <2>2. ASSUME NEW p \in Photos, files'[p] \in Numbers
        PROVE  /\ files'[p] \in Stored'
               /\ p \in Used(rows'[files'[p]]) \/ rows'[files'[p]].stage > 0
    <3>1. CASE p \in Used(lot)
      BY <1>3, <1>7, <1>9, <3>1
    <3>2. CASE p \notin Used(lot)
      <4>1. files'[p] = files[p]
        BY <1>9, <3>2
      <4>2. /\ files[p] \in Stored
            /\ p \in Used(rows[files[p]]) \/ rows[files[p]].stage > 0
        BY <2>2, <4>1 DEF EvidenceIInv, FilesNamed
      <4>3. CASE files[p] = n
        BY <1>3, <1>7, <1>moved, <4>1, <4>2, <4>3 DEF Stored
      <4>4. CASE files[p] # n
        <5>1. rows'[files[p]] = rows[files[p]]
          BY <1>2, <1>7, <4>2, <4>4
        <5> QED
          BY <1>7, <4>1, <4>2, <5>1
      <4> QED
        BY <4>3, <4>4
    <3> QED
      BY <3>1, <3>2
  <2> QED
    BY <2>1, <2>2 DEF FilesNamed
<1>12. ASSUME rows[n] = NoLot, ~lot.late, NEW m \in Stored,
              lot.photos \cap rows[m].photos # {}
       PROVE  rows[m].late
  <2>1. o \in OnTime
    BY <1>1, <1>6, <1>12 DEF OnTime, PastValidation
  <2> QED
    BY <1>1, <1>12, <2>1 DEF EvidenceIInv, OnTimeIsNew
<1>13. rows'[n].photos = lot.photos /\ rows'[n].late = lot.late
  BY <1>3
<1>14. EvidenceUsedOnce'
  <2> SUFFICES ASSUME NEW l \in Stored', NEW m \in Stored', l # m,
                      rows'[l].photos \cap rows'[m].photos # {}
               PROVE  rows'[l].late \/ rows'[m].late
    BY DEF EvidenceUsedOnce
  <2>1. CASE l \in Stored /\ m \in Stored
    BY <1>8, <2>1 DEF EvidenceIInv, EvidenceUsedOnce
  <2>2. CASE l \notin Stored
    <3>1. l = n /\ rows[n] = NoLot /\ m \in Stored
      BY <1>2, <1>7, <2>2 DEF Stored
    <3> QED
      BY <1>8, <1>12, <1>13, <3>1
  <2>3. CASE m \notin Stored
    <3>1. m = n /\ rows[n] = NoLot /\ l \in Stored
      BY <1>2, <1>7, <2>3 DEF Stored
    <3> QED
      BY <1>8, <1>12, <1>13, <3>1
  <2> QED
    BY <2>1, <2>2, <2>3
<1>15. ASSUME NEW p \in OnTime, p # o, ops[p].stage \in {"number", "save"},
              NEW m \in Stored', ops[p].lot.photos \cap rows'[m].photos # {}
       PROVE  rows'[m].late
  <2>1. CASE m \in Stored
    BY <1>8, <1>15, <2>1 DEF EvidenceIInv, OnTimeIsNew
  <2>2. CASE m \notin Stored
    <3>1. m = n /\ rows[n] = NoLot
      BY <1>2, <1>7, <2>2 DEF Stored
    <3>2. o \notin OnTime
      BY <1>15 DEF EvidenceIInv, OneOnTime
    <3>3. lot.late
      BY <1>1, <1>6, <3>1, <3>2 DEF OnTime, PastValidation
    <3> QED
      BY <1>13, <3>1, <3>3
  <2> QED
    BY <2>1, <2>2
<1> QED
  BY <1>3, <1>7, <1>8, <1>9, <1>11, <1>13, <1>14, <1>15, <1>named

\* After the transaction the request has still to show the lot.
LEMMA CommitKeepsEvidence ==
    ASSUME IntakeIInv, EvidenceIInv, NEW o \in Ops, Commit(o)
    PROVE  EvidenceIInv'
<1> DEFINE n == ops[o].number
           lot == ops[o].lot
           op == [ops[o] EXCEPT !.stage = "show"]
<1>1. /\ At(o, "save") /\ Commits(o) /\ ops' = [ops EXCEPT ![o] = op]
      /\ UNCHANGED <<batches, known, unanswered, faults>>
  BY DEF Commit
<1>2. /\ ops[o] \in OpRecord /\ ops[o] # NoOp /\ ops[o].stage = "save" /\ o \in Under
      /\ Agrees(ops[o], rows, sequence)
  BY <1>1, AtStage DEF Under
<1>3. /\ op.number = n /\ op.stage = "show" /\ op.lot = lot /\ op.before = ops[o].before
      /\ op # NoOp
  <2>1. op \in OpRecord
    BY <1>2 DEF OpRecord, Stages
  <2> QED
    BY <1>2, <2>1, IntakeAssumption DEF OpRecord
<1> HIDE DEF op
<1>4. \A p \in Ops : ops'[p] = IF p = o THEN op ELSE ops[p]
  BY <1>1 DEF IntakeIInv, Types
<1>5. /\ \A p \in Under' : p = o \/ (p \in Under /\ ops'[p] = ops[p])
      /\ \A p \in Under : p = o \/ (p \in Under' /\ ops'[p] = ops[p])
      /\ o \in Under' /\ ops'[o] = op
  BY <1>3, <1>4 DEF Under
<1>6. /\ n \in Numbers /\ Used(lot) \subseteq Used(rows'[n]) /\ rows'[n].late = lot.late
      /\ Stored' = Stored \cup {n}
      /\ \A m \in Stored : /\ rows'[m].photos = rows[m].photos
                           /\ rows'[m].late = rows[m].late
                           /\ m # n => Used(rows[m]) \subseteq Used(rows'[m])
      /\ files' \in [Photos -> Numbers \cup {0, -1}] /\ FilesNamed' /\ EvidenceUsedOnce'
      /\ \A p \in Photos : files[p] \in Numbers => files'[p] \in Numbers
      /\ \A p \in OnTime : p # o /\ ops[p].stage \in {"number", "save"} =>
            \A m \in Stored' : ops[p].lot.photos \cap rows'[m].photos # {} => rows'[m].late
  BY <1>1, CommitsStore, CommitsEvidence
<1>7. OneOnTime' /\ OnTimeIsNew'
  <2>1. \A p \in OnTime' : p \in OnTime /\ (p # o => ops'[p] = ops[p])
    BY <1>2, <1>3, <1>4 DEF OnTime, PastValidation
  <2>2. OnTimeIsNew'
    BY <1>3, <1>4, <1>6, <2>1 DEF OnTimeIsNew
  <2> QED
    BY <2>1, <2>2 DEF EvidenceIInv, OneOnTime
\* A request that has a row has one that is stored.
<1>8. \A p \in Under : /\ ops[p].before # NoLot => ops[p].number \in Stored
                       /\ ops[p].stage \in {"show", "evidence"} => ops[p].number \in Stored
  BY AboutRequest DEF Agrees, Stored, Stages
<1>9. LateStays'
  <2>1. \A m \in Numbers : Known(m)' => batches'[m].late = rows'[m].late
    BY <1>1, <1>6 DEF EvidenceIInv, LateStays, Known, Stored, IntakeIInv, Drawn
  <2>2. \A p \in Under' :
          /\ ops'[p].before # NoLot =>
                /\ ops'[p].before.late = rows'[ops'[p].number].late
                /\ ops'[p].lot.late = rows'[ops'[p].number].late
          /\ ops'[p].stage \in {"show", "evidence"} =>
                ops'[p].lot.late = rows'[ops'[p].number].late
    BY <1>2, <1>3, <1>5, <1>6, <1>8 DEF EvidenceIInv, LateStays
  <2> QED
    BY <2>1, <2>2 DEF LateStays
<1>10. RowsAreKnown'
  BY <1>1, <1>2, <1>3, <1>5, <1>6 DEF EvidenceIInv, RowsAreKnown
<1>11. TellsWhatIsStored'
  <2> SUFFICES ASSUME NEW p \in Under'
               PROVE  /\ ops'[p].stage \in {"show", "evidence"} =>
                            Used(ops'[p].lot) \subseteq Used(rows'[ops'[p].number])
                      /\ ops'[p].stage = "evidence" => batches[ops'[p].number] = ops'[p].lot
                      /\ ops'[p].before # NoLot => Used(ops'[p].before) \subseteq known
    BY <1>1 DEF TellsWhatIsStored
  <2>1. CASE p = o
    BY <1>2, <1>3, <1>5, <1>6, <2>1 DEF EvidenceIInv, TellsWhatIsStored
  <2>2. CASE p # o
    <3>1. p \in Under /\ ops'[p] = ops[p] /\ ops[p].number # n
      BY <1>2, <1>5, <1>6, <2>2 DEF Under, IntakeIInv, OwnNumbers, Numbers
    <3> QED
      BY <1>6, <1>8, <3>1 DEF EvidenceIInv, TellsWhatIsStored
  <2> QED
    BY <2>1, <2>2
<1>12. UsedIsKnown'
  BY <1>1, <1>3, <1>5 DEF EvidenceIInv, UsedIsKnown, Known, Under
<1>13. KnownIsNamed'
  BY <1>1, <1>6 DEF EvidenceIInv, KnownIsNamed, RestTypes
<1>14. RestTypes'
  BY <1>1, <1>6 DEF EvidenceIInv, RestTypes
<1> QED
  BY <1>6, <1>7, <1>9, <1>10, <1>11, <1>12, <1>13, <1>14 DEF EvidenceIInv

\* A request that ends by putting back what it found leaves nothing to tell.
LEMMA RollbackKeepsEvidence ==
    ASSUME IntakeIInv, EvidenceIInv, NEW o \in Ops, At(o, "save"), RolledBack(o),
           ops' = [ops EXCEPT ![o] = NoOp], known' = known,
           Stored \subseteq Stored',
           \A m \in Stored : /\ rows'[m].photos = rows[m].photos
                             /\ rows'[m].late = rows[m].late
                             /\ m # ops[o].number => Used(rows[m]) \subseteq Used(rows'[m])
    PROVE  /\ LateStays' /\ TellsWhatIsStored' /\ UsedIsKnown' /\ OneOnTime'
           /\ \A p \in OnTime' : p \in OnTime /\ p # o /\ ops'[p] = ops[p]
           /\ \A p \in Under : p = o \/ (p \in Under' /\ ops'[p] = ops[p])
<1> DEFINE n == ops[o].number
           before == ops[o].before
<1>1. /\ ops[o] \in OpRecord /\ ops[o] # NoOp /\ ops[o].stage = "save" /\ o \in Under
      /\ Agrees(ops[o], rows, sequence) /\ n \in Numbers \cup {0} /\ before \in Lots \cup {NoLot}
  BY AtStage DEF Under
<1>2. \A p \in Ops : ops'[p] = IF p = o THEN NoOp ELSE ops[p]
  BY DEF IntakeIInv, Types
<1>3. /\ \A p \in Under' : p \in Under /\ p # o /\ ops'[p] = ops[p]
      /\ \A p \in Under : p = o \/ (p \in Under' /\ ops'[p] = ops[p])
      /\ \A p \in OnTime' : p \in OnTime /\ p # o /\ ops'[p] = ops[p]
  BY <1>2 DEF Under, OnTime, PastValidation
<1>4. \A p \in Under : /\ ops[p].before # NoLot => ops[p].number \in Stored
                       /\ ops[p].stage \in {"show", "evidence"} => ops[p].number \in Stored
  BY AboutRequest DEF Agrees, Stored, Stages
<1>5. n \in Numbers
  BY <1>1 DEF Agrees
<1>6. \A p \in Under' : ops'[p].number # n
  BY <1>1, <1>3, <1>5 DEF IntakeIInv, OwnNumbers, Under, Numbers
<1>7. /\ \A m \in Numbers : m # n => batches'[m] = batches[m]
      /\ before = NoLot => batches'[n] = NoLot
      /\ before # NoLot => batches'[n] = before /\ Used(before) \subseteq known
                           /\ before.late = rows[n].late
  <2>1. batches \in [Numbers -> Lots \cup {NoLot}]
    BY DEF IntakeIInv, Types
  <2>2. CASE before = NoLot
    <3>1. batches' = batches
      BY <2>2 DEF RolledBack
    <3>2. rows[n] = NoLot
      BY <1>1, <2>2 DEF Agrees
    <3>3. batches[n] = NoLot
      BY <1>5, <3>2 DEF IntakeIInv, Drawn
    <3> QED
      BY <2>2, <3>1, <3>3
  <2>3. CASE before # NoLot
    <3>1. batches' = [batches EXCEPT ![n] = before]
      BY <2>3 DEF RolledBack
    <3> QED
      BY <1>1, <1>5, <2>1, <2>3, <3>1 DEF EvidenceIInv, TellsWhatIsStored, LateStays
  <2> QED
    BY <2>2, <2>3
<1>8. LateStays'
  <2>1. \A m \in Numbers : Known(m)' => batches'[m].late = rows'[m].late
    <3> SUFFICES ASSUME NEW m \in Numbers, batches'[m] # NoLot
                 PROVE  batches'[m].late = rows'[m].late
      BY DEF Known
    <3>1. CASE m = n
      BY <1>1, <1>4, <1>7, <3>1
    <3>2. CASE m # n
      BY <1>7, <3>2 DEF EvidenceIInv, LateStays, Known, Stored, IntakeIInv, Drawn
    <3> QED
      BY <3>1, <3>2
  <2> QED
    BY <1>3, <1>4, <2>1 DEF EvidenceIInv, LateStays
<1>9. TellsWhatIsStored'
  <2> SUFFICES ASSUME NEW p \in Under'
               PROVE  /\ ops'[p].stage \in {"show", "evidence"} =>
                            Used(ops'[p].lot) \subseteq Used(rows'[ops'[p].number])
                      /\ ops'[p].stage = "evidence" => batches'[ops'[p].number] = ops'[p].lot
                      /\ ops'[p].before # NoLot => Used(ops'[p].before) \subseteq known
    BY DEF TellsWhatIsStored
  <2>1. p \in Under /\ ops'[p] = ops[p] /\ ops[p].number # n
    BY <1>3, <1>6
  <2>2. ops[p].stage = "evidence" => ops[p].number \in Numbers
    BY <1>4, <2>1 DEF Stored
  <2> QED
    BY <1>4, <1>7, <2>1, <2>2, SMTT(60) DEF EvidenceIInv, TellsWhatIsStored
<1>10. UsedIsKnown'
  <2> SUFFICES ASSUME NEW m \in Numbers, batches'[m] # NoLot,
                      \A p \in Under' : ops'[p].number # m
               PROVE  Used(batches'[m]) \subseteq known
    BY DEF UsedIsKnown, Known, Under
  <2>1. CASE m = n
    BY <1>7, <2>1
  <2>2. CASE m # n
    BY <1>3, <1>7, <2>2 DEF EvidenceIInv, UsedIsKnown, Known, Under
  <2> QED
    BY <2>1, <2>2
<1>11. OneOnTime'
  BY <1>3 DEF EvidenceIInv, OneOnTime
<1> QED
  BY <1>3, <1>8, <1>9, <1>10, <1>11

LEMMA SaveFailsKeepsEvidence ==
    ASSUME IntakeIInv, EvidenceIInv, NEW o \in Ops, SaveFails(o)
    PROVE  EvidenceIInv'
<1>1. /\ At(o, "save") /\ RolledBack(o) /\ ops' = [ops EXCEPT ![o] = NoOp]
      /\ faults < MaxFaults /\ faults' = faults + 1
      /\ UNCHANGED <<rows, known, files, unanswered>>
  BY DEF SaveFails, Fails
<1>2. Stored' = Stored
  BY <1>1 DEF Stored
<1>3. /\ LateStays' /\ TellsWhatIsStored' /\ UsedIsKnown' /\ OneOnTime'
      /\ \A p \in OnTime' : p \in OnTime /\ ops'[p] = ops[p]
      /\ \A p \in Under : p = o \/ (p \in Under' /\ ops'[p] = ops[p])
  BY <1>1, <1>2, RollbackKeepsEvidence
<1>4. ops[o].stage = "save"
  BY <1>1, AtStage
<1>5. OnTimeIsNew' /\ RowsAreKnown'
  BY <1>1, <1>2, <1>3, <1>4 DEF EvidenceIInv, OnTimeIsNew, RowsAreKnown
<1>6. faults' \in 0..MaxFaults
  BY <1>1, IntakeAssumption DEF EvidenceIInv, RestTypes
<1>7. RestTypes' /\ FilesNamed' /\ EvidenceUsedOnce' /\ KnownIsNamed'
  BY <1>1, <1>2, <1>6 DEF EvidenceIInv, RestTypes, FilesNamed, EvidenceUsedOnce, KnownIsNamed
<1> QED
  BY <1>3, <1>5, <1>7 DEF EvidenceIInv

LEMMA SaveUnansweredKeepsEvidence ==
    ASSUME IntakeIInv, EvidenceIInv, NEW o \in Ops, SaveUnanswered(o)
    PROVE  EvidenceIInv'
<1> DEFINE n == ops[o].number
<1>1. /\ At(o, "save") /\ Commits(o) /\ RolledBack(o) /\ ops' = [ops EXCEPT ![o] = NoOp]
      /\ unanswered' = unanswered \cup {n}
      /\ faults < MaxFaults /\ faults' = faults + 1 /\ known' = known
  BY DEF SaveUnanswered, Fails
<1>2. /\ n \in Numbers /\ Stored' = Stored \cup {n}
      /\ \A m \in Stored : /\ rows'[m].photos = rows[m].photos
                           /\ rows'[m].late = rows[m].late
                           /\ m # n => Used(rows[m]) \subseteq Used(rows'[m])
      /\ files' \in [Photos -> Numbers \cup {0, -1}] /\ FilesNamed' /\ EvidenceUsedOnce'
      /\ \A p \in Photos : files[p] \in Numbers => files'[p] \in Numbers
      /\ \A p \in OnTime : p # o /\ ops[p].stage \in {"number", "save"} =>
            \A m \in Stored' : ops[p].lot.photos \cap rows'[m].photos # {} => rows'[m].late
  BY <1>1, CommitsStore, CommitsEvidence
<1>3. /\ LateStays' /\ TellsWhatIsStored' /\ UsedIsKnown' /\ OneOnTime'
      /\ \A p \in OnTime' : p \in OnTime /\ p # o /\ ops'[p] = ops[p]
      /\ \A p \in Under : p = o \/ (p \in Under' /\ ops'[p] = ops[p])
  BY <1>1, <1>2, RollbackKeepsEvidence
<1>4. ops[o].stage = "save"
  BY <1>1, AtStage
<1>5. OnTimeIsNew'
  BY <1>2, <1>3 DEF OnTimeIsNew
<1>6. RowsAreKnown'
  BY <1>1, <1>2, <1>3, <1>4 DEF EvidenceIInv, RowsAreKnown
<1>7. faults' \in 0..MaxFaults
  BY <1>1, IntakeAssumption DEF EvidenceIInv, RestTypes
<1>8. RestTypes' /\ KnownIsNamed'
  BY <1>1, <1>2, <1>7 DEF EvidenceIInv, RestTypes, KnownIsNamed
<1> QED
  BY <1>2, <1>3, <1>5, <1>6, <1>8 DEF EvidenceIInv

LEMMA ShowKeepsEvidence ==
    ASSUME IntakeIInv, EvidenceIInv, NEW o \in Ops, Show(o)
    PROVE  EvidenceIInv'
<1> DEFINE n == ops[o].number
           lot == ops[o].lot
           op == [ops[o] EXCEPT !.stage = "evidence"]
<1>1. /\ At(o, "show") /\ batches' = [batches EXCEPT ![n] = lot] /\ ops' = [ops EXCEPT ![o] = op]
      /\ UNCHANGED <<rows, known, files, unanswered, faults>>
  BY DEF Show
<1>2. /\ ops[o] \in OpRecord /\ ops[o] # NoOp /\ ops[o].stage = "show" /\ o \in Under
      /\ Agrees(ops[o], rows, sequence) /\ n \in Numbers \cup {0}
  BY <1>1, AtStage DEF Under
<1>3. /\ op.number = n /\ op.stage = "evidence" /\ op.lot = lot /\ op.before = ops[o].before
      /\ op # NoOp
  <2>1. op \in OpRecord
    BY <1>2 DEF OpRecord, Stages
  <2> QED
    BY <1>2, <2>1, IntakeAssumption DEF OpRecord
<1> HIDE DEF op
<1>4. \A p \in Ops : ops'[p] = IF p = o THEN op ELSE ops[p]
  BY <1>1 DEF IntakeIInv, Types
<1>5. /\ \A p \in Under' : p = o \/ (p \in Under /\ ops'[p] = ops[p])
      /\ \A p \in Under : p = o \/ (p \in Under' /\ ops'[p] = ops[p])
      /\ o \in Under' /\ ops'[o] = op
  BY <1>3, <1>4 DEF Under
<1>6. n \in Numbers /\ Stored' = Stored
  BY <1>1, <1>2 DEF Agrees, Stored
<1>7. /\ \A m \in Numbers : m # n => batches'[m] = batches[m]
      /\ batches'[n] = lot
  BY <1>1, <1>6 DEF IntakeIInv, Types
<1>8. lot.late = rows[n].late /\ Used(lot) \subseteq Used(rows[n])
  BY <1>2 DEF EvidenceIInv, LateStays, TellsWhatIsStored
<1>9. OneOnTime' /\ OnTimeIsNew'
  <2>1. /\ \A p \in OnTime' : p \in OnTime /\ (p # o => ops'[p] = ops[p])
        /\ ops'[o].stage = "evidence"
    BY <1>2, <1>3, <1>4 DEF OnTime, PastValidation
  <2> QED
    BY <1>1, <1>6, <2>1 DEF EvidenceIInv, OneOnTime, OnTimeIsNew
<1>10. LateStays'
  <2>1. \A m \in Numbers : Known(m)' => batches'[m].late = rows[m].late
    BY <1>7, <1>8 DEF EvidenceIInv, LateStays, Known
  <2>2. \A p \in Under' :
          /\ ops'[p].before # NoLot =>
                /\ ops'[p].before.late = rows[ops'[p].number].late
                /\ ops'[p].lot.late = rows[ops'[p].number].late
          /\ ops'[p].stage \in {"show", "evidence"} =>
                ops'[p].lot.late = rows[ops'[p].number].late
    BY <1>2, <1>3, <1>5, <1>8 DEF EvidenceIInv, LateStays
  <2> QED
    BY <1>1, <2>1, <2>2 DEF LateStays
<1>11. RowsAreKnown'
  BY <1>1, <1>2, <1>3, <1>5, <1>6 DEF EvidenceIInv, RowsAreKnown
<1>12. TellsWhatIsStored'
  <2> SUFFICES ASSUME NEW p \in Under'
               PROVE  /\ ops'[p].stage \in {"show", "evidence"} =>
                            Used(ops'[p].lot) \subseteq Used(rows[ops'[p].number])
                      /\ ops'[p].stage = "evidence" => batches'[ops'[p].number] = ops'[p].lot
                      /\ ops'[p].before # NoLot => Used(ops'[p].before) \subseteq known
    BY <1>1 DEF TellsWhatIsStored
  <2>1. CASE p = o
    BY <1>2, <1>3, <1>5, <1>7, <1>8, <2>1 DEF EvidenceIInv, TellsWhatIsStored
  <2>2. CASE p # o
    <3>1. p \in Under /\ ops'[p] = ops[p] /\ ops[p].number # n
      BY <1>2, <1>5, <1>6, <2>2 DEF Under, IntakeIInv, OwnNumbers, Numbers
    <3>2. ops[p].stage = "evidence" => ops[p].number \in Numbers
      BY <3>1, AboutRequest DEF Agrees
    <3> QED
      BY <1>7, <3>1, <3>2 DEF EvidenceIInv, TellsWhatIsStored
  <2> QED
    BY <2>1, <2>2
<1>13. UsedIsKnown'
  <2> SUFFICES ASSUME NEW m \in Numbers, batches'[m] # NoLot,
                      \A p \in Under' : ops'[p].number # m
               PROVE  Used(batches'[m]) \subseteq known
    BY <1>1 DEF UsedIsKnown, Known, Under
  <2>1. m # n
    BY <1>3, <1>5
  <2> QED
    BY <1>3, <1>5, <1>7, <2>1 DEF EvidenceIInv, UsedIsKnown, Known, Under
<1>14. RestTypes' /\ FilesNamed' /\ EvidenceUsedOnce' /\ KnownIsNamed'
  BY <1>1, <1>6 DEF EvidenceIInv, RestTypes, FilesNamed, EvidenceUsedOnce, KnownIsNamed
<1> QED
  BY <1>9, <1>10, <1>11, <1>12, <1>13, <1>14 DEF EvidenceIInv

\* The request that ends has told all that its lot shows.
LEMMA AddEvidenceKeepsEvidence ==
    ASSUME IntakeIInv, EvidenceIInv, NEW o \in Ops, AddEvidence(o)
    PROVE  EvidenceIInv'
<1> DEFINE n == ops[o].number
           lot == ops[o].lot
<1>1. /\ At(o, "evidence") /\ known' = known \cup Used(lot) /\ ops' = [ops EXCEPT ![o] = NoOp]
      /\ UNCHANGED <<batches, rows, files, unanswered, faults>>
  BY DEF AddEvidence, Ends
<1>2. /\ ops[o].stage = "evidence" /\ o \in Under /\ lot \in Lots
      /\ Agrees(ops[o], rows, sequence) /\ n \in Numbers \cup {0}
  BY <1>1, AtStage DEF Under
<1>3. \A p \in Ops : ops'[p] = IF p = o THEN NoOp ELSE ops[p]
  BY <1>1 DEF IntakeIInv, Types
<1>4. /\ \A p \in Under' : p \in Under /\ p # o /\ ops'[p] = ops[p]
      /\ \A p \in Under : p = o \/ (p \in Under' /\ ops'[p] = ops[p])
      /\ \A p \in OnTime' : p \in OnTime /\ ops'[p] = ops[p]
  BY <1>3 DEF Under, OnTime, PastValidation
<1>5. /\ n \in Numbers /\ n \in Stored /\ Stored' = Stored /\ rows[n].photos = lot.photos
      /\ \A m \in Numbers : Known(m)' = Known(m)
  BY <1>1, <1>2 DEF Agrees, Stored, SameLot, Known
<1>6. Used(lot) \subseteq Used(rows[n]) /\ batches[n] = lot /\ Used(lot) \subseteq Photos
  BY <1>2 DEF EvidenceIInv, TellsWhatIsStored, Used, Lots
<1>7. OneOnTime' /\ OnTimeIsNew' /\ LateStays'
  BY <1>1, <1>4, <1>5 DEF EvidenceIInv, OneOnTime, OnTimeIsNew, LateStays
<1>8. RowsAreKnown'
  <2> SUFFICES ASSUME NEW m \in Stored, m \notin unanswered,
                      \A p \in Under' : ~(ops'[p].stage \in {"show", "evidence"}
                                          /\ ops'[p].number = m)
               PROVE  rows[m].photos \subseteq known'
    BY <1>1, <1>5 DEF RowsAreKnown
  <2>1. CASE m = n
    BY <1>1, <1>5, <2>1 DEF Used
  <2>2. CASE m # n
    BY <1>1, <1>4, <2>2 DEF EvidenceIInv, RowsAreKnown
  <2> QED
    BY <2>1, <2>2
<1>9. TellsWhatIsStored'
  BY <1>1, <1>4 DEF EvidenceIInv, TellsWhatIsStored
<1>10. UsedIsKnown'
  <2> SUFFICES ASSUME NEW m \in Numbers, Known(m),
                      \A p \in Under' : ops'[p].number # m
               PROVE  Used(batches[m]) \subseteq known'
    BY <1>1, <1>5 DEF UsedIsKnown, Under
  <2>1. CASE m = n
    BY <1>1, <1>6, <2>1
  <2>2. CASE m # n
    BY <1>1, <1>4, <2>2 DEF EvidenceIInv, UsedIsKnown, Under
  <2> QED
    BY <2>1, <2>2
<1>11. KnownIsNamed'
  <2>1. \A q \in Used(lot) : files[q] \in Numbers
    BY <1>5, <1>6 DEF EvidenceIInv, FilesNamed
  <2> QED
    BY <1>1, <2>1 DEF EvidenceIInv, KnownIsNamed
<1>12. RestTypes' /\ FilesNamed' /\ EvidenceUsedOnce'
  BY <1>1, <1>5, <1>6 DEF EvidenceIInv, RestTypes, FilesNamed, EvidenceUsedOnce
<1> QED
  BY <1>7, <1>8, <1>9, <1>10, <1>11, <1>12 DEF EvidenceIInv

\* hydrate knows again what the table of files names.
LEMMA RestartKeepsEvidence ==
    ASSUME IntakeIInv, EvidenceIInv, Restart
    PROVE  EvidenceIInv'
<1>1. /\ batches' = rows /\ known' = {p \in Photos : files[p] > 0} /\ unanswered' = {}
      /\ ops' = [o \in Ops |-> NoOp] /\ faults < MaxFaults /\ faults' = faults + 1
      /\ UNCHANGED <<rows, files>>
  BY DEF Restart
<1>2. Under' = {} /\ OnTime' = {} /\ Stored' = Stored
  BY <1>1 DEF Under, OnTime, PastValidation, Stored
<1>3. \A p \in Photos : files[p] > 0 <=> files[p] \in Numbers
  BY IntakeAssumption, SMTT(60) DEF EvidenceIInv, RestTypes, Numbers
<1>4. \A n \in Stored : Used(rows[n]) \subseteq known' /\ rows[n].photos \subseteq known'
  <2> SUFFICES ASSUME NEW n \in Stored PROVE Used(rows[n]) \subseteq known'
    BY DEF Used
  <2>1. Used(rows[n]) \subseteq Photos
    BY DEF Stored, IntakeIInv, Types, Lots, Used
  <2> QED
    BY <1>1, <1>3, <2>1 DEF EvidenceIInv, FilesNamed
<1>5. \A n \in Numbers : Known(n)' => n \in Stored /\ batches'[n] = rows[n]
  BY <1>1 DEF Known, Stored
<1>6. OneOnTime' /\ OnTimeIsNew' /\ LateStays' /\ RowsAreKnown' /\ TellsWhatIsStored'
  BY <1>1, <1>2, <1>4, <1>5 DEF OneOnTime, OnTimeIsNew, LateStays, RowsAreKnown,
     TellsWhatIsStored
<1>7. UsedIsKnown'
  BY <1>4, <1>5 DEF UsedIsKnown
<1>8. KnownIsNamed'
  BY <1>1, <1>3 DEF KnownIsNamed
<1>9. faults' \in 0..MaxFaults
  BY <1>1, IntakeAssumption DEF EvidenceIInv, RestTypes
<1>10. RestTypes' /\ FilesNamed' /\ EvidenceUsedOnce'
  BY <1>1, <1>2, <1>9 DEF EvidenceIInv, RestTypes, FilesNamed, EvidenceUsedOnce
<1> QED
  BY <1>6, <1>7, <1>8, <1>10 DEF EvidenceIInv

LEMMA StepKeepsEvidence == IntakeIInv /\ EvidenceIInv /\ [Next]_vars => EvidenceIInv'
<1> SUFFICES ASSUME IntakeIInv, EvidenceIInv, [Next]_vars PROVE EvidenceIInv'
  OBVIOUS
<1>1. ASSUME NEW o \in Ops, NEW plot, NEW kg, NEW photos, Post(o, plot, kg, photos)
      PROVE  EvidenceIInv'
  BY <1>1, BeginKeepsEvidence DEF Post
<1>2. ASSUME NEW o \in Ops, NEW n \in Numbers, NEW p \in Photos, Transfer(o, n, {p})
      PROVE  EvidenceIInv'
  <2>1. {p} \in SUBSET Photos
    OBVIOUS
  <2> QED
    BY <1>2, <2>1, BeginTransferKeepsEvidence DEF Transfer
<1>3. CASE UNCHANGED <<batches, rows, known, files, ops, unanswered, faults>>
  <2>1. /\ OnTime' = OnTime /\ Under' = Under /\ Stored' = Stored
        /\ \A n \in Numbers : Known(n)' = Known(n)
    BY <1>3 DEF OnTime, PastValidation, Under, Stored, Known
  <2>2. OneOnTime' /\ OnTimeIsNew' /\ LateStays' /\ RowsAreKnown' /\ TellsWhatIsStored'
    BY <1>3, <2>1 DEF EvidenceIInv, OneOnTime, OnTimeIsNew, LateStays, RowsAreKnown,
       TellsWhatIsStored
  <2>3. RestTypes' /\ FilesNamed' /\ EvidenceUsedOnce' /\ UsedIsKnown' /\ KnownIsNamed'
    BY <1>3, <2>1 DEF EvidenceIInv, RestTypes, FilesNamed, EvidenceUsedOnce, UsedIsKnown,
       KnownIsNamed
  <2> QED
    BY <2>2, <2>3 DEF EvidenceIInv
<1>4. ASSUME NEW o \in Ops, DemoHarvest(o) PROVE EvidenceIInv'
  BY <1>4, BeginKeepsEvidence DEF DemoHarvest
<1>5. ASSUME NEW o \in Ops, DemoTransfer(o) PROVE EvidenceIInv'
  <2> DEFINE n == DemoMoves[boot - Len(Demo)]
  <2>1. CASE n \in Numbers /\ BeginTransfer(o, n, {})
    BY <1>5, <2>1, BeginTransferKeepsEvidence DEF DemoTransfer
  <2>2. CASE UNCHANGED <<batches, ops>>
    BY <1>3, <1>5, <2>2 DEF DemoTransfer
  <2> QED
    BY <1>5, <2>1, <2>2 DEF DemoTransfer
<1>6. ASSUME NEW o \in Ops,
             \/ Validate(o) \/ NextBatchSequence(o) \/ Commit(o) \/ Show(o) \/ AddEvidence(o)
             \/ SaveFails(o) \/ SaveUnanswered(o)
      PROVE  EvidenceIInv'
  BY <1>6, ValidateKeepsEvidence, NumberKeepsEvidence, CommitKeepsEvidence, ShowKeepsEvidence,
     AddEvidenceKeepsEvidence, SaveFailsKeepsEvidence, SaveUnansweredKeepsEvidence
<1>7. CASE UNCHANGED vars
  BY <1>3, <1>7 DEF vars
<1> QED
  BY <1>1, <1>2, <1>4, <1>5, <1>6, <1>7, UploadKeepsEvidence, RestartKeepsEvidence DEF Next

LEMMA EvidenceIsSafe == Spec => [](IntakeIInv /\ EvidenceIInv)
<1>1. Init => IntakeIInv /\ EvidenceIInv
  BY IntakeInitially, EvidenceInitially
<1>2. (IntakeIInv /\ EvidenceIInv) /\ [Next]_vars => (IntakeIInv /\ EvidenceIInv)'
  BY StepKeeps, StepKeepsEvidence
<1> QED
  BY <1>1, <1>2, PTL DEF Spec

(***************************************************************************)
(* The theorem.  validateHarvest asks evidenceHashes, which createHarvest  *)
(* fills only after saveBatch; still two stored lots were harvested with   *)
(* one photo only if one of them was validated while another save was      *)
(* under way or unanswered.  What lots show is remembered when no request  *)
(* for them is under way, and hydrate remembers nothing else.              *)
(***************************************************************************)
THEOREM EvidenceFitsTogether == Spec => []EvidenceInv
<1>1. EvidenceIInv => KnownIsUsed
  BY DEF EvidenceIInv, RestTypes, KnownIsNamed, FilesNamed, KnownIsUsed
<1>2. IntakeIInv /\ EvidenceIInv => EvidenceInv
  BY <1>1 DEF IntakeIInv, Types, EvidenceIInv, RestTypes, EvidenceInv, TypeOK
<1> QED
  BY <1>2, EvidenceIsSafe, PTL

(***************************************************************************)
(* The demo script.                                                        *)
(***************************************************************************)

\* A harvest of the script is of the line the script is at, and a failed
\* start-up does nothing.
LineRuns ==
    /\ \A o \in Under : ops[o].before = NoLot /\ ops[o].lot.demo # 0 => ops[o].lot.demo = boot
    /\ boot = 0 => Under = {}

\* While the harvests of the script run, nothing else does.
OneRuns == boot \in DOMAIN Demo => \A o, p \in Under : o = p

\* A line is stored only by its own request, which then moves the script on.
LinesStored ==
    boot \in DOMAIN Demo =>
        \A n \in Stored :
            /\ rows[n].demo <= boot
            /\ rows[n].demo = boot => \E o \in Under : ops[o].stage \in {"show", "evidence"}

ScriptRuns == LineRuns /\ OneRuns /\ LinesStored

DemoIInv == ScriptRuns /\ DemoOnce

LEMMA DemoInitially == Init => DemoIInv
BY IntakeAssumption DEF Init, DemoIInv, ScriptRuns, LineRuns, OneRuns, LinesStored, DemoOnce, Under, Stored

\* The lines of the script come before its transfers, and both before Ready.
LEMMA ScriptLines ==
    ASSUME IntakeIInv
    PROVE  /\ Len(Demo) \in Nat /\ DOMAIN Demo = 1..Len(Demo) /\ boot \in 0..Ready
           /\ Ready \in Nat /\ Ready > Len(Demo)
BY IntakeAssumption, LenProperties DEF IntakeIInv, Types, Ready

\* A harvest of the script is the only request there is.
LEMMA DemoAlone ==
    ASSUME IntakeIInv, DemoIInv, NEW o \in Under, ops[o].before = NoLot, ops[o].lot.demo # 0
    PROVE  boot \in DOMAIN Demo /\ boot = ops[o].lot.demo /\ Under = {o}
<1>1. ops[o].lot.demo \in 0..Len(Demo) /\ ops[o].lot.demo = boot
  BY AboutRequest DEF Lots, DemoIInv, ScriptRuns, LineRuns
<1>2. boot \in DOMAIN Demo
  BY <1>1, ScriptLines
<1> QED
  BY <1>1, <1>2 DEF DemoIInv, ScriptRuns, LineRuns, OneRuns, LinesStored

\* A request that comes or goes on by itself, while rows and script stay.
LEMMA StepKeepsDemo ==
    ASSUME IntakeIInv, DemoIInv, NEW o \in Ops, NEW op, op # NoOp, ops' = [ops EXCEPT ![o] = op],
           UNCHANGED <<rows, boot>>, boot # 0,
           op.before = NoLot /\ op.lot.demo # 0 => op.lot.demo = boot,
           boot \in DOMAIN Demo => o \in Under \/ Under = {},
           o \in Under /\ ops[o].stage \in {"show", "evidence"} => op.stage \in {"show", "evidence"}
    PROVE  DemoIInv'
<1>1. \A p \in Ops : ops'[p] = IF p = o THEN op ELSE ops[p]
  BY DEF IntakeIInv, Types
<1>2. /\ Under' = Under \cup {o} /\ ops'[o] = op
      /\ \A p \in Under' : p # o => p \in Under /\ ops'[p] = ops[p]
      /\ \A p \in Under : p # o => ops'[p] = ops[p]
  BY <1>1 DEF Under
<1>3. Stored' = Stored
  BY DEF Stored
<1>4. LineRuns'
  BY <1>2 DEF DemoIInv, ScriptRuns, LineRuns
<1>5. OneRuns'
  BY <1>2 DEF DemoIInv, ScriptRuns, OneRuns
<1>6. LinesStored'
  <2> SUFFICES ASSUME boot \in DOMAIN Demo, NEW n \in Stored
               PROVE  /\ rows[n].demo <= boot
                      /\ rows[n].demo = boot =>
                            \E p \in Under' : ops'[p].stage \in {"show", "evidence"}
    BY <1>3 DEF LinesStored
  <2>1. rows[n].demo <= boot
    BY DEF DemoIInv, ScriptRuns, LinesStored
  <2>2. ASSUME rows[n].demo = boot
        PROVE  \E p \in Under' : ops'[p].stage \in {"show", "evidence"}
    <3>1. PICK p \in Under : ops[p].stage \in {"show", "evidence"}
      BY <2>2 DEF DemoIInv, ScriptRuns, LinesStored
    <3> QED
      BY <1>2, <3>1
  <2> QED
    BY <2>1, <2>2
<1> QED
  BY <1>3, <1>4, <1>5, <1>6 DEF DemoIInv, DemoOnce, ScriptRuns

\* A failure ends the start-up, or the rest of the script.
LEMMA FailureKeepsDemo ==
    ASSUME IntakeIInv, DemoIInv, NEW o \in Under, Fails(o), DemoOnce'
    PROVE  DemoIInv'
<1>1. /\ \A p \in Ops : ops'[p] = IF p = o THEN NoOp ELSE ops[p]
      /\ boot' = IF boot > Len(Demo) THEN Ready ELSE 0
  BY DEF Fails, IntakeIInv, Types
<1>2. \A p \in Under' : p \in Under /\ p # o /\ ops'[p] = ops[p]
  BY <1>1 DEF Under
<1>3. boot' \notin DOMAIN Demo
  BY <1>1, ScriptLines
<1>4. boot' = 0 => Under' = {}
  <2> SUFFICES ASSUME boot' = 0 PROVE Under' = {}
    OBVIOUS
  <2>1. boot \in 0..Len(Demo)
    BY <1>1, ScriptLines
  <2>2. boot \in DOMAIN Demo
    BY <2>1, ScriptLines DEF DemoIInv, ScriptRuns, LineRuns, OneRuns, LinesStored
  <2> QED
    BY <1>2, <2>2 DEF DemoIInv, ScriptRuns, LineRuns, OneRuns, LinesStored
<1>5. \A p \in Under' : ~(ops'[p].before = NoLot /\ ops'[p].lot.demo # 0)
  BY <1>2, DemoAlone
<1> QED
  BY <1>3, <1>4, <1>5 DEF DemoIInv, ScriptRuns, LineRuns, OneRuns, LinesStored

\* A line of the script is not stored before its own request saves it.
LEMMA CommitsDemo ==
    ASSUME IntakeIInv, DemoIInv, NEW o \in Ops, At(o, "save"), Commits(o)
    PROVE  LET n == ops[o].number IN
           /\ DemoOnce' /\ Stored' = Stored \cup {n}
           /\ \A m \in Stored : rows'[m].demo = rows[m].demo
           /\ n \notin Stored => rows'[n].demo \in {0, boot}
<1> DEFINE n == ops[o].number
<1>1. /\ ops[o] # NoOp /\ ops[o].stage = "save" /\ Agrees(ops[o], rows, sequence)
      /\ o \in Under
  BY AtStage DEF Under
<1>2. /\ n \in Numbers /\ rows'[n] # NoLot /\ rows'[n].demo = ops[o].lot.demo
      /\ \A m \in Numbers : m # n => rows'[m] = rows[m]
      /\ \A m \in Numbers : rows[m] # NoLot => rows'[m] # NoLot /\ rows'[m].demo = rows[m].demo
  BY CommitsStore DEF SameLot
<1>3. Stored' = Stored \cup {n} /\ \A m \in Stored : rows'[m].demo = rows[m].demo
  BY <1>2 DEF Stored
<1>4. ASSUME n \notin Stored
      PROVE  /\ rows'[n].demo \in {0, boot}
             /\ \A m \in Stored : rows'[n].demo # 0 => rows[m].demo # rows'[n].demo
  <2>1. ops[o].before = NoLot
    BY <1>1, <1>2, <1>4 DEF Agrees, Stored
  <2>2. CASE rows'[n].demo = 0
    BY <2>2
  <2>3. CASE rows'[n].demo # 0
    <3>1. boot \in DOMAIN Demo /\ boot = rows'[n].demo /\ Under = {o}
      BY <1>1, <1>2, <2>1, <2>3, DemoAlone
    <3>2. \A m \in Stored : rows[m].demo # boot
      BY <1>1, <3>1 DEF DemoIInv, ScriptRuns, LineRuns, OneRuns, LinesStored
    <3> QED
      BY <3>1, <3>2
  <2> QED
    BY <2>2, <2>3
<1>5. DemoOnce'
  <2> SUFFICES ASSUME NEW l \in Stored', NEW m \in Stored', l # m, rows'[l].demo = rows'[m].demo
               PROVE  rows'[l].demo = 0
    BY DEF DemoOnce
  <2>1. CASE l \in Stored /\ m \in Stored
    BY <1>3, <2>1 DEF DemoIInv, DemoOnce
  <2>2. CASE l \notin Stored
    BY <1>3, <1>4, <2>2
  <2>3. CASE m \notin Stored
    BY <1>3, <1>4, <2>3
  <2> QED
    BY <2>1, <2>2, <2>3
<1> QED
  BY <1>3, <1>4, <1>5

LEMMA CommitKeepsDemo ==
    ASSUME IntakeIInv, DemoIInv, NEW o \in Ops, Commit(o)
    PROVE  DemoIInv'
<1> DEFINE n == ops[o].number
           op == [ops[o] EXCEPT !.stage = "show"]
<1>1. At(o, "save") /\ Commits(o) /\ ops' = [ops EXCEPT ![o] = op] /\ boot' = boot
  BY DEF Commit
<1>2. /\ ops[o] \in OpRecord /\ ops[o] # NoOp /\ ops[o].stage = "save" /\ o \in Under
  BY <1>1, AtStage DEF Under
<1>3. op.stage = "show" /\ op.lot = ops[o].lot /\ op.before = ops[o].before /\ op # NoOp
  <2>1. op \in OpRecord
    BY <1>2 DEF OpRecord, Stages
  <2> QED
    BY <1>2, <2>1, IntakeAssumption DEF OpRecord
<1> HIDE DEF op
<1>4. /\ \A p \in Ops : ops'[p] = IF p = o THEN op ELSE ops[p]
      /\ Under' = Under /\ ops'[o] = op
      /\ \A p \in Under : p # o => ops'[p] = ops[p]
  BY <1>1, <1>2, <1>3 DEF IntakeIInv, Types, Under
<1>5. /\ DemoOnce' /\ Stored' = Stored \cup {n}
      /\ \A m \in Stored : rows'[m].demo = rows[m].demo
      /\ n \notin Stored => rows'[n].demo \in {0, boot}
  BY <1>1, CommitsDemo
<1>6. boot \in DOMAIN Demo => \A m \in Stored' : rows'[m].demo <= boot
  <2>1. boot \in Nat
    BY ScriptLines
  <2> QED
    BY <1>5, <2>1 DEF DemoIInv, ScriptRuns, LineRuns, OneRuns, LinesStored
<1>7. \A p \in Under : ops'[p].before = ops[p].before /\ ops'[p].lot = ops[p].lot
  BY <1>3, <1>4
<1>8. ScriptRuns'
  BY <1>1, <1>2, <1>3, <1>4, <1>6, <1>7 DEF DemoIInv, ScriptRuns, LineRuns, OneRuns, LinesStored
<1> QED
  BY <1>5, <1>8 DEF DemoIInv

\* A line that is done moves the script on.
LEMMA AddEvidenceKeepsDemo ==
    ASSUME IntakeIInv, DemoIInv, NEW o \in Ops, AddEvidence(o)
    PROVE  DemoIInv'
<1>1. /\ At(o, "evidence") /\ ops' = [ops EXCEPT ![o] = NoOp] /\ rows' = rows
      /\ boot' = IF Serving THEN boot ELSE boot + 1
  BY DEF AddEvidence, Ends
<1>2. o \in Under
  BY <1>1 DEF At, Under
<1>3. \A p \in Under' : p \in Under /\ p # o /\ ops'[p] = ops[p]
  BY <1>1 DEF Under, IntakeIInv, Types
<1>4. Stored' = Stored /\ DemoOnce'
  BY <1>1 DEF Stored, DemoIInv, DemoOnce
<1>5. boot \in 1..Ready
  BY <1>2, ScriptLines DEF DemoIInv, ScriptRuns, LineRuns
<1>6. \A p \in Under' : ~(ops'[p].before = NoLot /\ ops'[p].lot.demo # 0)
  BY <1>2, <1>3, DemoAlone
<1>7. boot' # 0
  BY <1>1, <1>5, ScriptLines
<1>8. ASSUME boot' \in DOMAIN Demo
      PROVE  /\ Under' = {}
             /\ \A n \in Stored : rows[n].demo < boot'
  <2>1. boot \in DOMAIN Demo /\ boot' = boot + 1
    BY <1>1, <1>5, <1>8, ScriptLines DEF Serving
  <2>2. Under' = {}
    BY <1>2, <1>3, <2>1 DEF DemoIInv, ScriptRuns, OneRuns
  <2>3. ASSUME NEW n \in Stored PROVE rows[n].demo < boot'
    <3>1. rows[n].demo <= boot /\ rows[n].demo \in Nat
      BY <2>1 DEF DemoIInv, ScriptRuns, LinesStored, Stored, IntakeIInv, Types, Lots
    <3> QED
      BY <1>5, <2>1, <3>1
  <2> QED
    BY <2>2, <2>3
<1>9. LineRuns' /\ OneRuns'
  BY <1>6, <1>7, <1>8 DEF LineRuns, OneRuns
<1>10. LinesStored'
  <2>1. ASSUME boot' \in DOMAIN Demo, NEW n \in Stored
        PROVE  rows[n].demo <= boot' /\ rows[n].demo # boot'
    <3>1. rows[n].demo \in Nat /\ boot' \in Nat /\ rows[n].demo < boot'
      BY <1>1, <1>5, <1>8, <2>1 DEF Stored, IntakeIInv, Types, Lots
    <3> QED
      BY <3>1
  <2> QED
    BY <1>1, <1>4, <2>1 DEF LinesStored
<1> QED
  BY <1>4, <1>9, <1>10 DEF DemoIInv, ScriptRuns

LEMMA RestartKeepsDemo ==
    ASSUME IntakeIInv, DemoIInv, Restart
    PROVE  DemoIInv'
<1>1. /\ ops' = [o \in Ops |-> NoOp] /\ rows' = rows
      /\ boot' = IF Stored = {} THEN 1 ELSE Ready
  BY DEF Restart
<1>2. Under' = {} /\ Stored' = Stored
  BY <1>1 DEF Under, Stored
<1>3. boot' \in DOMAIN Demo => Stored = {}
  BY <1>1, ScriptLines
<1>4. LineRuns' /\ OneRuns' /\ LinesStored'
  BY <1>2, <1>3 DEF LineRuns, OneRuns, LinesStored
<1> QED
  BY <1>1, <1>2, <1>4 DEF DemoIInv, ScriptRuns, DemoOnce

LEMMA BeginKeepsDemo ==
    ASSUME IntakeIInv, DemoIInv, NEW o \in Ops, NEW plot \in Plots, NEW kg \in Nat,
           NEW photos \in SUBSET Photos, NEW demo \in 0..Len(Demo),
           Begin(o, plot, kg, photos, demo), UNCHANGED <<rows, boot>>, boot # 0,
           demo # 0 => demo = boot, boot \in DOMAIN Demo => Under = {}
    PROVE  DemoIInv'
<1> DEFINE lot == [plot |-> plot, kg |-> kg, photos |-> photos, slips |-> {}, stage |-> 0,
                   warned |-> FALSE, demo |-> demo, late |-> FALSE]
           op == [stage |-> "locate", number |-> 0, before |-> NoLot, lot |-> lot]
<1>1. lot \in Lots
  BY DEF Lots
<1>2. op \in OpRecord /\ op.lot.demo = demo
  BY <1>1 DEF OpRecord, Stages
<1>3. op # NoOp
  BY <1>2, IntakeAssumption
<1>4. ops' = [ops EXCEPT ![o] = op] /\ o \notin Under
  BY DEF Begin, Under
<1> HIDE DEF op
<1> QED
  BY <1>2, <1>3, <1>4, StepKeepsDemo

\* A request that goes on stays the request it was.
LEMMA GoesOnKeepsDemo ==
    ASSUME IntakeIInv, DemoIInv, NEW o \in Under, NEW op \in OpRecord,
           ops' = [ops EXCEPT ![o] = op], UNCHANGED <<rows, boot>>,
           op.before = ops[o].before, op.lot.demo = ops[o].lot.demo,
           ops[o].stage \in {"show", "evidence"} => op.stage \in {"show", "evidence"}
    PROVE  DemoIInv'
<1>1. op # NoOp /\ boot # 0 /\ o \in Ops
  BY IntakeAssumption DEF DemoIInv, ScriptRuns, LineRuns, Under
<1>2. op.before = NoLot /\ op.lot.demo # 0 => op.lot.demo = boot
  BY DEF DemoIInv, ScriptRuns, LineRuns
<1> QED
  BY <1>1, <1>2, StepKeepsDemo

LEMMA BeginTransferKeepsDemo ==
    ASSUME IntakeIInv, DemoIInv, NEW o \in Ops, NEW n \in Numbers, NEW slips \in SUBSET Photos,
           BeginTransfer(o, n, slips), UNCHANGED <<rows, boot>>, boot # 0, boot \notin DOMAIN Demo
    PROVE  DemoIInv'
<1> DEFINE lot == [batches[n] EXCEPT !.stage = @ + 1, !.slips = @ \cup slips]
           op == [stage |-> "save", number |-> n, lot |-> lot, before |-> batches[n]]
<1>1. /\ batches[n] \in Lots /\ batches[n] # NoLot /\ batches[n].stage < 3
      /\ ops' = [ops EXCEPT ![o] = op] /\ o \notin Under
  BY DEF BeginTransfer, Known, IntakeIInv, Types, Under
<1>2. lot \in Lots
  BY <1>1, MovedLot
<1> HIDE DEF lot
<1>3. op \in OpRecord /\ op.before # NoLot
  BY <1>1, <1>2 DEF OpRecord, Stages
<1>4. op # NoOp
  BY <1>3, IntakeAssumption, SMTT(60)
<1> HIDE DEF op
<1> QED
  BY <1>1, <1>3, <1>4, StepKeepsDemo

LEMMA ValidateKeepsDemo ==
    ASSUME IntakeIInv, DemoIInv, NEW o \in Ops, Validate(o)
    PROVE  DemoIInv'
<1>1. At(o, "locate") /\ rows' = rows
  BY DEF Validate
<1>2. ops[o] \in OpRecord /\ ops[o].stage = "locate" /\ o \in Under
  BY <1>1, AtStage DEF Under
<1>3. CASE Fails(o)
  <2>1. DemoOnce'
    BY <1>1 DEF DemoIInv, DemoOnce, Stored
  <2> QED
    BY <1>2, <1>3, <2>1, FailureKeepsDemo
<1>4. CASE ~Fails(o)
  <2> DEFINE warned == Yield(ops[o].lot.plot) + ops[o].lot.kg > MaxYield[ops[o].lot.plot]
             late == PastValidation # {} \/ unanswered # {}
             op == [ops[o] EXCEPT !.stage = "number", !.lot.warned = warned, !.lot.late = late]
  <2>1. ops' = [ops EXCEPT ![o] = op] /\ boot' = boot
    BY <1>4 DEF Validate
  <2>2. warned \in BOOLEAN /\ late \in BOOLEAN
    OBVIOUS
  <2> HIDE DEF warned, late
  <2>3. op \in OpRecord /\ op.before = ops[o].before /\ op.lot.demo = ops[o].lot.demo
    BY <1>2, <2>2 DEF OpRecord, Stages, Lots
  <2> HIDE DEF op
  <2> QED
    BY <1>1, <1>2, <2>1, <2>3, GoesOnKeepsDemo
<1> QED
  BY <1>3, <1>4

LEMMA StepKeepsScript == IntakeIInv /\ DemoIInv /\ [Next]_vars => DemoIInv'
<1> SUFFICES ASSUME IntakeIInv, DemoIInv, [Next]_vars PROVE DemoIInv'
  OBVIOUS
<1>1. ASSUME UNCHANGED <<rows, ops>>, boot' = boot \/ (boot > Len(Demo) /\ boot' = Ready)
      PROVE  DemoIInv'
  <2>1. Under' = Under /\ Stored' = Stored /\ DemoOnce'
    BY <1>1 DEF Under, Stored, DemoIInv, DemoOnce
  <2>2. CASE boot' = boot
    BY <1>1, <2>1, <2>2 DEF DemoIInv, ScriptRuns, LineRuns, OneRuns, LinesStored
  <2>3. CASE boot > Len(Demo) /\ boot' = Ready
    <3>1. boot' # 0 /\ boot' \notin DOMAIN Demo /\ boot \notin DOMAIN Demo
      BY <2>3, ScriptLines
    <3>2. \A o \in Under : ~(ops[o].before = NoLot /\ ops[o].lot.demo # 0)
      BY <3>1, DemoAlone
    <3> QED
      BY <1>1, <2>1, <3>1, <3>2 DEF DemoIInv, ScriptRuns, LineRuns, OneRuns, LinesStored
  <2> QED
    BY <1>1, <2>2, <2>3
<1>2. Serving => boot # 0 /\ boot \notin DOMAIN Demo
  BY ScriptLines DEF Serving
<1>3. ASSUME NEW o \in Ops, NEW plot \in Plots, NEW kg \in Weights, NEW photos \in SUBSET Photos,
             Post(o, plot, kg, photos)
      PROVE  DemoIInv'
  <2>1. kg \in Nat /\ 0 \in 0..Len(Demo)
    BY IntakeAssumption
  <2> QED
    BY <1>2, <1>3, <2>1, BeginKeepsDemo DEF Post
<1>4. ASSUME NEW o \in Ops, NEW n \in Numbers, NEW slips \in SUBSET Photos, Transfer(o, n, slips)
      PROVE  DemoIInv'
  BY <1>2, <1>4, BeginTransferKeepsDemo DEF Transfer
<1>5. ASSUME NEW p \in Photos, Upload(p) PROVE DemoIInv'
  BY <1>1, <1>5 DEF Upload
<1>6. ASSUME NEW o \in Ops, NextBatchSequence(o) PROVE DemoIInv'
  <2> DEFINE op == [ops[o] EXCEPT !.stage = "save", !.number = sequence + 1]
  <2>1. /\ At(o, "number") /\ ops' = [ops EXCEPT ![o] = op] /\ UNCHANGED <<rows, boot>>
        /\ sequence < MaxLots
    BY <1>6 DEF NextBatchSequence, IntakeIInv, Types
  <2>2. /\ ops[o] \in OpRecord /\ ops[o].stage = "number" /\ o \in Under
        /\ sequence + 1 \in Numbers
    BY <2>1, AtStage, IntakeAssumption DEF Under, IntakeIInv, Types, Numbers
  <2>3. op \in OpRecord /\ op.before = ops[o].before /\ op.lot = ops[o].lot
    BY <2>2 DEF OpRecord, Stages
  <2> HIDE DEF op
  <2> QED
    BY <2>1, <2>2, <2>3, GoesOnKeepsDemo
<1>7. ASSUME NEW o \in Ops, Show(o) PROVE DemoIInv'
  <2> DEFINE op == [ops[o] EXCEPT !.stage = "evidence"]
  <2>1. At(o, "show") /\ ops' = [ops EXCEPT ![o] = op] /\ UNCHANGED <<rows, boot>>
    BY <1>7 DEF Show
  <2>2. ops[o] \in OpRecord /\ o \in Under
    BY <2>1, AtStage DEF Under
  <2>3. op \in OpRecord /\ op.before = ops[o].before /\ op.lot = ops[o].lot
        /\ op.stage = "evidence"
    BY <2>2 DEF OpRecord, Stages
  <2> HIDE DEF op
  <2> QED
    BY <2>1, <2>2, <2>3, GoesOnKeepsDemo
<1>8. ASSUME NEW o \in Ops, SaveFails(o) \/ SaveUnanswered(o) PROVE DemoIInv'
  <2>1. At(o, "save") /\ Fails(o) /\ (rows' = rows \/ Commits(o)) /\ o \in Under
    BY <1>8 DEF SaveFails, SaveUnanswered, At, Under
  <2>2. DemoOnce'
    <3>1. CASE rows' = rows
      BY <3>1 DEF DemoIInv, DemoOnce, Stored
    <3>2. CASE Commits(o)
      BY <2>1, <3>2, CommitsDemo
    <3> QED
      BY <2>1, <3>1, <3>2
  <2> QED
    BY <2>1, <2>2, FailureKeepsDemo
<1>9. ASSUME NEW o \in Ops, DemoHarvest(o) PROVE DemoIInv'
  <2> DEFINE line == Demo[boot]
  <2>1. boot \in DOMAIN Demo /\ Idle /\ Begin(o, line.plot, line.kg, {line.photo}, boot)
        /\ UNCHANGED <<rows, boot>>
    BY <1>9 DEF DemoHarvest
  <2>2. boot \in 0..Len(Demo) /\ boot # 0
    BY <2>1, ScriptLines
  <2>3. line \in [plot : Plots, kg : Nat \ {0}, photo : Photos]
    <3>1. Demo \in [1..Len(Demo) -> [plot : Plots, kg : Nat \ {0}, photo : Photos]]
      BY IntakeAssumption, LenProperties
    <3> QED
      BY <2>1, <3>1, ScriptLines
  <2>4. line.plot \in Plots /\ line.kg \in Nat /\ {line.photo} \in SUBSET Photos
    BY <2>3
  <2>5. Under = {}
    BY <2>1 DEF Idle, Under
  <2> HIDE DEF line
  <2> QED
    BY <2>1, <2>2, <2>4, <2>5, BeginKeepsDemo
<1>10. ASSUME NEW o \in Ops, DemoTransfer(o) PROVE DemoIInv'
  <2> DEFINE n == DemoMoves[boot - Len(Demo)]
  <2>1. boot > Len(Demo) /\ rows' = rows
    BY <1>10 DEF DemoTransfer
  <2>2. boot # 0 /\ boot \notin DOMAIN Demo
    BY <2>1, ScriptLines
  <2>3. CASE n \in Numbers /\ BeginTransfer(o, n, {}) /\ boot' = boot
    BY <2>1, <2>2, <2>3, BeginTransferKeepsDemo
  <2>4. CASE boot' = Ready /\ ops' = ops
    BY <1>1, <2>1, <2>4
  <2> QED
    BY <1>10, <2>3, <2>4 DEF DemoTransfer
<1>11. CASE UNCHANGED vars
  BY <1>1, <1>11 DEF vars
<1>12. CASE Next
  <2>1. ASSUME NEW o \in Ops, NEW plot \in Plots, NEW kg \in Weights, NEW p \in Photos,
               Post(o, plot, kg, {p}) \/ Post(o, plot, kg, {})
        PROVE  DemoIInv'
    <3>1. {p} \in SUBSET Photos /\ {} \in SUBSET Photos
      OBVIOUS
    <3> QED
      BY <1>3, <2>1, <3>1
  <2>2. ASSUME NEW o \in Ops, NEW n \in Numbers, NEW p \in Photos, Transfer(o, n, {p})
        PROVE  DemoIInv'
    BY <1>4, <2>2
  <2>3. ASSUME NEW o \in Ops,
               \/ Validate(o) \/ NextBatchSequence(o) \/ Commit(o) \/ Show(o) \/ AddEvidence(o)
               \/ SaveFails(o) \/ SaveUnanswered(o) \/ DemoHarvest(o) \/ DemoTransfer(o)
        PROVE  DemoIInv'
    BY <1>6, <1>7, <1>8, <1>9, <1>10, <2>3, ValidateKeepsDemo, CommitKeepsDemo,
       AddEvidenceKeepsDemo
  <2> QED
    BY <1>5, <1>12, <2>1, <2>2, <2>3, RestartKeepsDemo DEF Next
<1> QED
  BY <1>11, <1>12

LEMMA DemoIsSafe == Spec => [](IntakeIInv /\ DemoIInv)
<1>1. Init => IntakeIInv /\ DemoIInv
  BY IntakeInitially, DemoInitially
<1>2. (IntakeIInv /\ DemoIInv) /\ [Next]_vars => (IntakeIInv /\ DemoIInv)'
  BY StepKeeps, StepKeepsScript
<1> QED
  BY <1>1, <1>2, PTL DEF Spec

(***************************************************************************)
(* The theorem.  onModuleInit starts the demo script only when hydrate     *)
(* finds no batch, and a line that fails throws and ends the start-up:     *)
(* whatever fails and however often the process starts again, no line of   *)
(* the script is stored twice.                                             *)
(***************************************************************************)
THEOREM DemoHarvestsOnce == Spec => []DemoOnce
<1>1. IntakeIInv /\ DemoIInv => DemoOnce
  BY DEF DemoIInv
<1> QED
  BY <1>1, DemoIsSafe, PTL

(***************************************************************************)
(* The yield of a plot.  Total is recursive; that it adds up, and changes  *)
(* by what one share changes, follows from the least number for which it   *)
(* would not.                                                              *)
(***************************************************************************)

LEMMA LastNumber == MaxLots \in Nat
BY IntakeAssumption

\* A set of numbers up to a bound has a least one: of its subsets that have
\* none, one would be smallest.
LEMMA MinExists ==
    ASSUME NEW S \in SUBSET (0..MaxLots), S # {}
    PROVE  \E x \in S : \A y \in S : x <= y
<1> DEFINE T == {U \in SUBSET S : U # {} /\ ~\E x \in U : \A y \in U : x <= y}
<1> SUFFICES ASSUME T # {} PROVE FALSE
  OBVIOUS
<1>1. IsFiniteSet(S) /\ S \subseteq Int
  <2>1. IsFiniteSet(0..MaxLots) /\ 0..MaxLots \subseteq Int
    BY LastNumber, FS_Interval
  <2> QED
    BY <2>1, FS_Subset
<1>2. T \subseteq FiniteSubsetsOf(S)
  BY <1>1, FS_FiniteSubsetsOfFinite
<1>3. PICK U \in T : \A V \in T : <<V, U>> \notin StrictSubsetOrdering(S)
  BY <1>1, <1>2, FS_StrictSubsetOrderingWellFounded, WFMin
<1>4. PICK x \in U : TRUE
  OBVIOUS
<1>5. U \ {x} \notin T
  <2>1. <<U \ {x}, U>> \in StrictSubsetOrdering(S)
    BY DEF StrictSubsetOrdering
  <2> QED
    BY <1>3, <2>1
<1>6. CASE U \ {x} = {}
  BY <1>1, <1>6
<1>7. CASE U \ {x} # {}
  <2>1. PICK m \in U \ {x} : \A y \in U \ {x} : m <= y
    BY <1>5, <1>7
  <2>2. m \in Int /\ x \in Int
    BY <1>1
  <2>3. CASE m <= x
    BY <2>1, <2>3
  <2>4. CASE ~(m <= x)
    BY <1>1, <2>1, <2>2, <2>4
  <2> QED
    BY <2>3, <2>4
<1> QED
  BY <1>6, <1>7

\* A function that adds up the first k shares.
Adds(f, kg, k) == /\ f \in [0..k -> Nat] /\ f[0] = 0
                  /\ \A n \in 1..k : f[n] = f[n - 1] + kg[n]

\* Every number of shares can be added up: to the first that could not, one
\* would be added.
LEMMA AddsExists ==
    ASSUME NEW kg \in [Numbers -> Nat]
    PROVE  \E f : Adds(f, kg, MaxLots)
<1> DEFINE S == {k \in 0..MaxLots : ~\E f : Adds(f, kg, k)}
<1> SUFFICES S = {}
  BY LastNumber
<1> SUFFICES ASSUME S # {} PROVE FALSE
  OBVIOUS
<1>1. PICK k \in S : \A j \in S : k <= j
  <2>1. S \in SUBSET (0..MaxLots)
    OBVIOUS
  <2> HIDE DEF S
  <2> QED
    BY <2>1, MinExists
<1>2. k # 0
  <2>1. Adds([n \in 0..0 |-> 0], kg, 0)
    BY DEF Adds
  <2> QED
    BY <2>1
<1>3. PICK f : Adds(f, kg, k - 1)
  <2>1. k - 1 \in 0..MaxLots /\ ~(k <= k - 1)
    BY <1>2, LastNumber
  <2> QED
    BY <1>1, <2>1
<1> DEFINE g == [n \in 0..k |-> IF n = k THEN f[k - 1] + kg[k] ELSE f[n]]
<1>4. k \in Numbers
  BY <1>2, LastNumber DEF Numbers
<1>5. Adds(g, kg, k)
  <2>1. kg[k] \in Nat /\ k - 1 \in 0..(k - 1) /\ f[k - 1] \in Nat
    BY <1>3, <1>4, LastNumber DEF Adds, Numbers
  <2>2. \A n \in 0..k : n # k => n \in 0..(k - 1) /\ f[n] \in Nat
    BY <1>3, <1>4, LastNumber DEF Adds, Numbers
  <2>3. g \in [0..k -> Nat]
    BY <2>1, <2>2
  <2>4. g[0] = 0
    BY <1>2, <1>3, <1>4, LastNumber DEF Adds, Numbers
  <2>5. ASSUME NEW n \in 1..k PROVE g[n] = g[n - 1] + kg[n]
    <3>1. n - 1 \in 0..k /\ n - 1 # k /\ n \in 0..k
      BY <1>4, LastNumber DEF Numbers
    <3>2. CASE n = k
      BY <3>1, <3>2
    <3>3. CASE n # k
      <4>1. n \in 1..(k - 1)
        BY <1>4, <3>3, LastNumber DEF Numbers
      <4>2. f[n] = f[n - 1] + kg[n]
        BY <1>3, <4>1 DEF Adds
      <4> QED
        BY <3>1, <3>3, <4>2
    <3> QED
      BY <3>2, <3>3
  <2> HIDE DEF g
  <2> QED
    BY <2>3, <2>4, <2>5 DEF Adds
<1> QED
  BY <1>1, <1>5

\* That is what Total does.
LEMMA TotalAdds ==
    ASSUME NEW kg \in [Numbers -> Nat]
    PROVE  \E f : Adds(f, kg, MaxLots) /\ Total(kg) = f[MaxLots]
<1> DEFINE Is(sum) == sum = [n \in 0..MaxLots |-> IF n = 0 THEN 0 ELSE sum[n - 1] + kg[n]]
           s == CHOOSE sum : Is(sum)
<1>1. PICK f : Adds(f, kg, MaxLots)
  BY AddsExists
<1>2. Is(f)
  BY <1>1, LastNumber DEF Adds
<1>3. Is(s)
  BY <1>2
<1>4. Total(kg) = s[MaxLots]
  BY DEF Total
<1> HIDE DEF s
<1> DEFINE S == {n \in 0..MaxLots : s[n] # f[n]}
<1>5. S = {}
  <2> SUFFICES ASSUME S # {} PROVE FALSE
    OBVIOUS
  <2>1. PICK k \in S : \A j \in S : k <= j
    <3>1. S \in SUBSET (0..MaxLots)
      OBVIOUS
    <3> HIDE DEF S
    <3> QED
      BY <3>1, MinExists
  <2>2. k # 0
    BY <1>1, <1>3 DEF Adds
  <2>3. k \in 1..MaxLots /\ k - 1 \in 0..MaxLots /\ ~(k <= k - 1)
    BY <2>2, LastNumber
  <2>4. s[k - 1] = f[k - 1]
    BY <2>1, <2>3
  <2>5. s[k] = s[k - 1] + kg[k]
    BY <1>3, <2>2, <2>3
  <2>6. f[k] = f[k - 1] + kg[k]
    BY <1>1, <2>3 DEF Adds
  <2> QED
    BY <2>4, <2>5, <2>6
<1>6. s[MaxLots] = f[MaxLots]
  BY <1>5, LastNumber
<1> QED
  BY <1>1, <1>4, <1>6

\* If one share changes, the total changes by as much.
LEMMA TotalChanges ==
    ASSUME NEW old \in [Numbers -> Nat], NEW new \in [Numbers -> Nat], NEW m \in Numbers,
           \A n \in Numbers : n # m => new[n] = old[n]
    PROVE  Total(new) = Total(old) - old[m] + new[m]
<1>1. PICK f : Adds(f, old, MaxLots) /\ Total(old) = f[MaxLots]
  BY TotalAdds
<1>2. PICK g : Adds(g, new, MaxLots) /\ Total(new) = g[MaxLots]
  BY TotalAdds
<1> DEFINE d(n) == IF n < m THEN 0 ELSE new[m] - old[m]
           S == {n \in 0..MaxLots : g[n] # f[n] + d(n)}
<1>3. m \in 1..MaxLots /\ new[m] \in Nat /\ old[m] \in Nat
  BY DEF Numbers
<1>4. S = {}
  <2> SUFFICES ASSUME S # {} PROVE FALSE
    OBVIOUS
  <2>1. PICK k \in S : \A j \in S : k <= j
    <3>1. S \in SUBSET (0..MaxLots)
      OBVIOUS
    <3> HIDE DEF S
    <3> QED
      BY <3>1, MinExists
  <2>2. k # 0
    BY <1>1, <1>2, <1>3, LastNumber DEF Adds
  <2>3. k \in 1..MaxLots /\ k - 1 \in 0..MaxLots /\ ~(k <= k - 1) /\ k \in Numbers
    BY <2>2, LastNumber DEF Numbers
  <2>4. g[k - 1] = f[k - 1] + d(k - 1)
    BY <2>1, <2>3
  <2>5. f[k] = f[k - 1] + old[k] /\ g[k] = g[k - 1] + new[k]
    BY <1>1, <1>2, <2>3 DEF Adds
  <2>6. f[k - 1] \in Nat /\ old[k] \in Nat /\ new[k] \in Nat
    BY <1>1, <2>3 DEF Adds
  <2>7. g[k] # f[k] + d(k)
    BY <2>1
  <2>8. k # m => new[k] = old[k]
    BY <2>3
  <2> HIDE DEF S
  <2>9. CASE k < m
    BY <1>3, <2>3, <2>4, <2>5, <2>6, <2>7, <2>8, <2>9
  <2>10. CASE k = m
    BY <1>3, <2>3, <2>4, <2>5, <2>6, <2>7, <2>10
  <2>11. CASE k > m
    BY <1>3, <2>3, <2>4, <2>5, <2>6, <2>7, <2>8, <2>11
  <2> QED
    BY <1>3, <2>3, <2>9, <2>10, <2>11
<1>5. MaxLots \in 0..MaxLots /\ ~(MaxLots < m)
  BY <1>3, LastNumber
<1>6. f[MaxLots] \in Nat /\ g[MaxLots] = f[MaxLots] + d(MaxLots)
  BY <1>1, <1>4, <1>5 DEF Adds
<1> QED
  BY <1>1, <1>2, <1>3, <1>5, <1>6

(***************************************************************************)
(* A plot yields no more than it can unless one of its lots has a warning  *)
(* or is late; the weight of a harvest in time without a warning still     *)
(* fits when it is stored and when it is shown.                            *)
(***************************************************************************)

Flagged(lots, plot) ==
    \E n \in Numbers : lots[n] # NoLot /\ lots[n].plot = plot /\ (lots[n].warned \/ lots[n].late)

Fits(lots, plot, kg) ==
    Total(Share(lots, plot)) + kg <= MaxYield[plot] \/ Flagged(lots, plot)

PlotsFit == \A plot \in Plots : Fits(batches, plot, 0) /\ Fits(rows, plot, 0)

Unwarned == {o \in OnTime : ~ops[o].lot.warned}

HarvestFits ==
    \A o \in Unwarned :
        /\ ops[o].stage \in {"number", "save"} => Fits(rows, ops[o].lot.plot, ops[o].lot.kg)
        /\ ops[o].stage \in {"number", "save", "show"} =>
              Fits(batches, ops[o].lot.plot, ops[o].lot.kg)

\* Memory shows what is stored, unless its request still has to show it or its
\* answer was lost.
RowsAreShown ==
    \A n \in Stored :
        \/ Known(n) \/ n \in unanswered
        \/ \E o \in Under : ops[o].stage = "show" /\ ops[o].number = n

MovedAreKnown == \A o \in Under : ops[o].before # NoLot => Known(ops[o].number)

YieldIInv == PlotsFit /\ HarvestFits /\ RowsAreShown /\ MovedAreKnown

LEMMA ShareOfLots ==
    ASSUME NEW lots \in [Numbers -> Lots \cup {NoLot}], NEW plot
    PROVE  Share(lots, plot) \in [Numbers -> Nat]
BY DEF Share, Lots

\* Lots that stay what they are weigh and warn as before.
LEMMA SameLotsFit ==
    ASSUME NEW old \in [Numbers -> Lots \cup {NoLot}], NEW new \in [Numbers -> Lots \cup {NoLot}],
           \A n \in Numbers : new[n] = NoLot <=> old[n] = NoLot,
           \A n \in Numbers : old[n] # NoLot => SameLot(old[n], new[n]) /\ old[n].late = new[n].late,
           NEW plot, NEW kg, Fits(old, plot, kg)
    PROVE  Fits(new, plot, kg)
<1>1. Share(new, plot) = Share(old, plot)
  BY DEF Share, SameLot
<1>2. Flagged(old, plot) => Flagged(new, plot)
  BY DEF Flagged, SameLot
<1> QED
  BY <1>1, <1>2 DEF Fits

\* One more lot changes nothing for other plots, and is no harm to its own if
\* it is flagged.
LEMMA NewLotFits ==
    ASSUME NEW old \in [Numbers -> Lots \cup {NoLot}], NEW new \in [Numbers -> Lots \cup {NoLot}],
           NEW m \in Numbers, old[m] = NoLot, new[m] # NoLot,
           \A n \in Numbers : n # m => new[n] = old[n],
           NEW plot, NEW kg, Fits(old, plot, kg),
           new[m].plot = plot => new[m].warned \/ new[m].late
    PROVE  Fits(new, plot, kg)
<1>1. CASE new[m].plot = plot
  BY <1>1 DEF Fits, Flagged
<1>2. CASE new[m].plot # plot
  <2>1. Share(new, plot) = Share(old, plot)
    BY <1>2 DEF Share
  <2>2. Flagged(old, plot) => Flagged(new, plot)
    BY DEF Flagged
  <2> QED
    BY <2>1, <2>2 DEF Fits
<1> QED
  BY <1>1, <1>2

\* One more lot that still fits.
LEMMA NewLotOfPlotFits ==
    ASSUME NEW old \in [Numbers -> Lots \cup {NoLot}], NEW new \in [Numbers -> Lots \cup {NoLot}],
           NEW m \in Numbers, old[m] = NoLot, new[m] # NoLot,
           \A n \in Numbers : n # m => new[n] = old[n],
           Fits(old, new[m].plot, new[m].kg)
    PROVE  Fits(new, new[m].plot, 0)
<1> DEFINE plot == new[m].plot
           a == Share(old, plot)
           b == Share(new, plot)
<1>1. a \in [Numbers -> Nat] /\ b \in [Numbers -> Nat]
  BY ShareOfLots
<1>2. a[m] = 0 /\ b[m] = new[m].kg /\ new[m].kg \in Nat
  BY DEF Share, Lots
<1>3. \A n \in Numbers : n # m => b[n] = a[n]
  BY DEF Share
<1>4. Total(a) \in Nat /\ Total(b) = Total(a) - a[m] + b[m]
  <2> HIDE DEF a, b
  <2>1. Total(b) = Total(a) - a[m] + b[m]
    BY <1>1, <1>3, TotalChanges
  <2>2. PICK f : Adds(f, a, MaxLots) /\ Total(a) = f[MaxLots]
    BY <1>1, TotalAdds
  <2>3. MaxLots \in 0..MaxLots
    BY LastNumber
  <2> QED
    BY <2>1, <2>2, <2>3 DEF Adds
<1>5. Flagged(old, plot) => Flagged(new, plot)
  BY DEF Flagged
<1>6. CASE Total(a) + new[m].kg <= MaxYield[plot]
  <2>1. Total(b) = Total(a) + new[m].kg /\ Total(b) + 0 = Total(b)
    BY <1>2, <1>4
  <2> QED
    BY <1>6, <2>1 DEF Fits
<1>7. CASE Flagged(old, plot)
  BY <1>5, <1>7 DEF Fits
<1> QED
  BY <1>6, <1>7 DEF Fits

\* A new lot of a harvest under way: it is flagged, or was found to fit.
LEMMA HarvestedLotFits ==
    ASSUME NEW old \in [Numbers -> Lots \cup {NoLot}], NEW new \in [Numbers -> Lots \cup {NoLot}],
           NEW m \in Numbers, old[m] = NoLot, new[m] # NoLot,
           \A n \in Numbers : n # m => new[n] = old[n],
           \/ new[m].warned \/ new[m].late
           \/ Fits(old, new[m].plot, new[m].kg),
           NEW plot, Fits(old, plot, 0)
    PROVE  Fits(new, plot, 0)
<1>1. CASE new[m].warned \/ new[m].late \/ new[m].plot # plot
  BY <1>1, NewLotFits
<1>2. CASE Fits(old, new[m].plot, new[m].kg) /\ new[m].plot = plot
  BY <1>2, NewLotOfPlotFits
<1> QED
  BY <1>1, <1>2

LEMMA YieldInitially == Init => YieldIInv
<1> SUFFICES ASSUME Init PROVE YieldIInv
  OBVIOUS
<1>1. Under = {} /\ Unwarned = {} /\ Stored = {}
  BY DEF Init, Under, Unwarned, OnTime, PastValidation, Stored
<1>2. ASSUME NEW plot \in Plots PROVE Fits(batches, plot, 0)
  <2> DEFINE a == Share(batches, plot)
  <2>1. a = [n \in Numbers |-> 0]
    BY DEF Init, Share
  <2> HIDE DEF a
  <2>2. a \in [Numbers -> Nat]
    BY <2>1
  <2>3. PICK f : Adds(f, a, MaxLots) /\ Total(a) = f[MaxLots]
    BY <2>2, TotalAdds
  <2> DEFINE S == {n \in 0..MaxLots : f[n] # 0}
  <2>4. S = {}
    <3> SUFFICES ASSUME S # {} PROVE FALSE
      OBVIOUS
    <3>1. PICK k \in S : \A j \in S : k <= j
      <4>1. S \in SUBSET (0..MaxLots)
        OBVIOUS
      <4> HIDE DEF S
      <4> QED
        BY <4>1, MinExists
    <3>2. k # 0
      BY <2>3 DEF Adds
    <3>3. k \in 1..MaxLots /\ k - 1 \in 0..MaxLots /\ ~(k <= k - 1) /\ k \in Numbers
      BY <3>2, LastNumber DEF Numbers
    <3>4. f[k] = f[k - 1] + a[k] /\ f[k - 1] = 0 /\ a[k] = 0
      BY <2>1, <2>3, <3>1, <3>3 DEF Adds
    <3>5. f[k] # 0
      BY <3>1
    <3> QED
      BY <3>4, <3>5
  <2>5. Total(a) = 0
    BY <2>3, <2>4, LastNumber
  <2>6. MaxYield[plot] \in Nat
    BY IntakeAssumption
  <2> QED
    BY <2>5, <2>6 DEF Fits, a
<1>3. PlotsFit
  BY <1>2 DEF Init, PlotsFit
<1> QED
  BY <1>1, <1>3 DEF YieldIInv, HarvestFits, RowsAreShown, MovedAreKnown

\* A request that comes, draws its number, or ends before it saves.
LEMMA EarlyStepKeepsYield ==
    ASSUME IntakeIInv, YieldIInv, NEW o \in Ops, NEW op,
           ops' = [ops EXCEPT ![o] = op],
           op # NoOp => op.before = NoLot /\ op.stage \in {"locate", "number", "save"},
           op # NoOp /\ op.stage # "locate" => At(o, "number") /\ op.lot = ops[o].lot,
           ops[o] # NoOp => ops[o].stage \in {"locate", "number"},
           UNCHANGED <<batches, rows, unanswered>>
    PROVE  YieldIInv'
<1>1. \A p \in Ops : ops'[p] = IF p = o THEN op ELSE ops[p]
  BY DEF IntakeIInv, Types
<1>2. o \in Under => ops[o].before = NoLot
  BY AboutRequest DEF Agrees, Under
<1>3. Stored' = Stored /\ \A n \in Numbers : Known(n)' = Known(n)
  BY DEF Stored, Known
<1>4. /\ \A p \in Under' : p # o => p \in Under /\ ops'[p] = ops[p]
      /\ \A p \in Under : p # o => p \in Under' /\ ops'[p] = ops[p]
      /\ o \in Under' => ops'[o].before = NoLot
  BY <1>1 DEF Under
<1>5. ASSUME NEW p \in Unwarned'
      PROVE  p \in Unwarned /\ ops'[p].lot = ops[p].lot
             /\ (p = o => ops[p].stage = "number") /\ (p # o => ops'[p] = ops[p])
  <2>1. p \in Ops /\ ops'[p] # NoOp /\ ops'[p].stage # "locate" /\ ops'[p].before = NoLot
        /\ ~ops'[p].lot.late /\ ~ops'[p].lot.warned
    BY DEF Unwarned, OnTime, PastValidation
  <2>2. CASE p = o
    <3>1. ops'[p] = op /\ At(o, "number") /\ op.lot = ops[o].lot
      BY <1>1, <2>1, <2>2
    <3>2. ops[o].before = NoLot
      BY <1>2, <3>1 DEF At, Under
    <3> QED
      BY <2>1, <2>2, <3>1, <3>2 DEF At, Unwarned, OnTime, PastValidation
  <2>3. CASE p # o
    BY <1>1, <2>1, <2>3 DEF Unwarned, OnTime, PastValidation
  <2> QED
    BY <2>2, <2>3
<1>6. HarvestFits'
  BY <1>5 DEF YieldIInv, HarvestFits
<1>7. PlotsFit'
  BY DEF YieldIInv, PlotsFit
<1>8. RowsAreShown'
  <2> SUFFICES ASSUME NEW n \in Stored', ~Known(n), n \notin unanswered
               PROVE  \E p \in Under' : ops'[p].stage = "show" /\ ops'[p].number = n
    BY <1>3 DEF RowsAreShown, Stored
  <2>1. PICK p \in Under : ops[p].stage = "show" /\ ops[p].number = n
    BY <1>3 DEF YieldIInv, RowsAreShown
  <2>2. p # o
    BY <2>1 DEF Under
  <2> QED
    BY <1>4, <2>1, <2>2
<1>9. MovedAreKnown'
  <2>1. \A p \in Under' : ops'[p].before # NoLot => p # o
    BY <1>4
  <2>2. \A p \in Under : ops[p].before # NoLot => ops[p].number \in Numbers
    BY AboutRequest DEF Agrees
  <2> QED
    BY <1>3, <1>4, <2>1, <2>2 DEF YieldIInv, MovedAreKnown
<1> QED
  BY <1>6, <1>7, <1>8, <1>9 DEF YieldIInv

\* When nothing is under way and no answer was lost, memory shows all that is
\* stored: what fits in memory fits in the table.
LEMMA NothingHidden ==
    ASSUME IntakeIInv, EvidenceIInv, YieldIInv, PastValidation = {}, unanswered = {},
           NEW plot, NEW kg, Fits(batches, plot, kg)
    PROVE  Fits(rows, plot, kg)
<1>1. \A n \in Numbers : rows[n] # NoLot => batches[n] # NoLot
  <2>1. \A p \in Under : ops[p].stage # "show"
    BY DEF Under, PastValidation
  <2> QED
    BY <2>1 DEF YieldIInv, RowsAreShown, Stored, Known
<1>2. \A n \in Numbers : batches[n] # NoLot =>
          rows[n] # NoLot /\ SameLot(batches[n], rows[n]) /\ batches[n].late = rows[n].late
  BY DEF IntakeIInv, Drawn, EvidenceIInv, LateStays, Known
<1>3. batches \in [Numbers -> Lots \cup {NoLot}] /\ rows \in [Numbers -> Lots \cup {NoLot}]
  BY DEF IntakeIInv, Types
<1> QED
  BY <1>1, <1>2, <1>3, SameLotsFit

LEMMA ValidateKeepsYield ==
    ASSUME IntakeIInv, EvidenceIInv, YieldIInv, NEW o \in Ops, Validate(o)
    PROVE  YieldIInv'
<1>1. /\ At(o, "locate") /\ UNCHANGED <<batches, rows, known, files, unanswered, faults>>
  BY DEF Validate
<1>2. /\ ops[o] \in OpRecord /\ ops[o] # NoOp /\ ops[o].stage = "locate"
      /\ ops[o].number = 0 /\ ops[o].before = NoLot /\ ops[o].lot \in Lots
  BY <1>1, AtStage DEF Agrees
<1>3. CASE Fails(o)
  BY <1>1, <1>2, <1>3, EarlyStepKeepsYield DEF Fails
<1>4. CASE ~Fails(o)
  <2> DEFINE plot == ops[o].lot.plot
             kg == ops[o].lot.kg
             warned == Yield(plot) + kg > MaxYield[plot]
             late == PastValidation # {} \/ unanswered # {}
             op == [ops[o] EXCEPT !.stage = "number", !.lot.warned = warned, !.lot.late = late]
  <2>1. ops' = [ops EXCEPT ![o] = op]
    BY <1>4 DEF Validate
  <2>2. late \in BOOLEAN /\ warned \in BOOLEAN
    OBVIOUS
  <2>3. Yield(plot) \in Nat /\ kg \in Nat /\ MaxYield[plot] \in Nat
    <3> DEFINE a == Share(batches, plot)
    <3>1. a \in [Numbers -> Nat]
      BY ShareOfLots DEF IntakeIInv, Types
    <3> HIDE DEF a
    <3>2. PICK f : Adds(f, a, MaxLots) /\ Total(a) = f[MaxLots]
      BY <3>1, TotalAdds
    <3>3. Total(a) \in Nat
      BY <3>2, LastNumber DEF Adds
    <3>4. plot \in Plots /\ kg \in Nat
      BY <1>2 DEF Lots
    <3> QED
      BY <3>3, <3>4, IntakeAssumption DEF Yield, a
  <2>4. ~warned => Fits(batches, plot, kg)
    BY <2>3 DEF Fits, Yield
  <2>5. ~warned /\ ~late => Fits(rows, plot, kg)
    BY <2>4, NothingHidden DEF late
  <2> HIDE DEF warned
  <2>6. /\ op.number = 0 /\ op.stage = "number" /\ op.before = NoLot
        /\ op.lot.plot = plot /\ op.lot.kg = kg /\ op.lot.warned = warned /\ op.lot.late = late
    BY <1>2, <2>2 DEF OpRecord, Lots
  <2> HIDE DEF op, late, plot, kg
  <2>7. \A p \in Ops : ops'[p] = IF p = o THEN op ELSE ops[p]
    BY <2>1 DEF IntakeIInv, Types
  <2>8. Stored' = Stored /\ \A n \in Numbers : Known(n)' = Known(n)
    BY <1>1 DEF Stored, Known
  <2>9. /\ \A p \in Under' : p = o \/ (p \in Under /\ ops'[p] = ops[p])
        /\ \A p \in Under : p = o \/ (p \in Under' /\ ops'[p] = ops[p])
    BY <2>7 DEF Under
  <2>10. /\ \A p \in Unwarned' : p = o \/ (p \in Unwarned /\ ops'[p] = ops[p])
         /\ o \in Unwarned' => ~warned /\ ~late
         /\ ops'[o] = op
    BY <2>6, <2>7 DEF Unwarned, OnTime, PastValidation
  <2>11. HarvestFits'
    <3> SUFFICES ASSUME NEW p \in Unwarned'
                 PROVE  /\ ops'[p].stage \in {"number", "save"} =>
                              Fits(rows, ops'[p].lot.plot, ops'[p].lot.kg)
                        /\ ops'[p].stage \in {"number", "save", "show"} =>
                              Fits(batches, ops'[p].lot.plot, ops'[p].lot.kg)
      BY <1>1 DEF HarvestFits
    <3>1. CASE p = o
      BY <2>4, <2>5, <2>6, <2>10, <3>1
    <3>2. CASE p # o
      BY <2>10, <3>2 DEF YieldIInv, HarvestFits
    <3> QED
      BY <3>1, <3>2
  <2>12. PlotsFit'
    BY <1>1 DEF YieldIInv, PlotsFit
  <2>13. RowsAreShown'
    <3> SUFFICES ASSUME NEW n \in Stored', ~Known(n), n \notin unanswered
                 PROVE  \E p \in Under' : ops'[p].stage = "show" /\ ops'[p].number = n
      BY <1>1, <2>8 DEF RowsAreShown, Stored
    <3>1. PICK p \in Under : ops[p].stage = "show" /\ ops[p].number = n
      BY <2>8 DEF YieldIInv, RowsAreShown
    <3> QED
      BY <1>2, <2>9, <3>1
  <2>14. MovedAreKnown'
    <3>1. \A p \in Under : ops[p].before # NoLot => ops[p].number \in Numbers
      BY AboutRequest DEF Agrees
    <3>2. \A p \in Under' : ops'[p].before # NoLot => p # o
      BY <2>6, <2>10
    <3> QED
      BY <2>8, <2>9, <3>1, <3>2 DEF YieldIInv, MovedAreKnown
  <2> QED
    BY <2>11, <2>12, <2>13, <2>14 DEF YieldIInv
<1> QED
  BY <1>3, <1>4

LEMMA BeginTransferKeepsYield ==
    ASSUME IntakeIInv, EvidenceIInv, YieldIInv, NEW o \in Ops, NEW n \in Numbers,
           NEW slips \in SUBSET Photos,
           BeginTransfer(o, n, slips), UNCHANGED <<rows, unanswered>>
    PROVE  YieldIInv'
<1> DEFINE lot == [batches[n] EXCEPT !.stage = @ + 1, !.slips = @ \cup slips]
           op == [stage |-> "save", number |-> n, lot |-> lot, before |-> batches[n]]
<1>1. /\ batches[n] \in Lots /\ batches[n] # NoLot /\ ops[o] = NoOp /\ batches[n].stage < 3
      /\ batches' = [batches EXCEPT ![n] = lot] /\ ops' = [ops EXCEPT ![o] = op]
  BY DEF BeginTransfer, Known, IntakeIInv, Types
<1>2. lot.late = batches[n].late /\ lot \in Lots /\ SameLot(lot, batches[n])
  BY <1>1, MovedLot
<1>3. lot # NoLot
  BY <1>2, IntakeAssumption
<1> HIDE DEF lot
<1>4. op.number = n /\ op.stage = "save" /\ op.before = batches[n] /\ op # NoOp
  <2>1. op \in OpRecord
    BY <1>1, <1>2 DEF OpRecord, Stages
  <2> QED
    BY <2>1, IntakeAssumption
<1> HIDE DEF op
<1>5. \A p \in Ops : ops'[p] = IF p = o THEN op ELSE ops[p]
  BY <1>1 DEF IntakeIInv, Types
<1>6. /\ \A p \in Under' : p = o \/ (p \in Under /\ ops'[p] = ops[p])
      /\ \A p \in Under : p # o /\ p \in Under' /\ ops'[p] = ops[p]
      /\ ops'[o] = op
  BY <1>1, <1>5 DEF Under
<1>7. /\ batches' \in [Numbers -> Lots \cup {NoLot}] /\ batches \in [Numbers -> Lots \cup {NoLot}]
      /\ \A m \in Numbers : m # n => batches'[m] = batches[m]
      /\ batches'[n] = lot
  BY <1>1, <1>2 DEF IntakeIInv, Types
<1>8. /\ \A m \in Numbers : batches'[m] = NoLot <=> batches[m] = NoLot
      /\ \A m \in Numbers : batches[m] # NoLot =>
            SameLot(batches[m], batches'[m]) /\ batches[m].late = batches'[m].late
  BY <1>1, <1>2, <1>3, <1>7 DEF SameLot
<1>9. \A plot, kg : Fits(batches, plot, kg) => Fits(batches', plot, kg)
  BY <1>7, <1>8, SameLotsFit
<1>10. Stored' = Stored /\ \A m \in Numbers : Known(m)' = Known(m)
  BY <1>8 DEF Stored, Known
<1>11. PlotsFit'
  BY <1>9 DEF YieldIInv, PlotsFit
<1>12. HarvestFits'
  <2>1. \A p \in Unwarned' : p \in Unwarned /\ ops'[p] = ops[p]
    BY <1>1, <1>4, <1>5 DEF Unwarned, OnTime, PastValidation
  <2> QED
    BY <1>9, <2>1 DEF YieldIInv, HarvestFits
<1>13. RowsAreShown'
  BY <1>6, <1>10 DEF YieldIInv, RowsAreShown, Stored
<1>14. MovedAreKnown'
  <2>1. \A p \in Under : ops[p].before # NoLot => ops[p].number \in Numbers
    BY AboutRequest DEF Agrees
  <2>2. Known(n)
    BY <1>1 DEF Known
  <2> QED
    BY <1>4, <1>6, <1>10, <2>1, <2>2 DEF YieldIInv, MovedAreKnown
<1> QED
  BY <1>11, <1>12, <1>13, <1>14 DEF YieldIInv

\* A harvest in time excludes every other; a late one is flagged.
LEMMA HarvestsFlagged ==
    ASSUME IntakeIInv, EvidenceIInv, NEW o \in Under, NEW p \in Unwarned, p # o,
           ops[o].before = NoLot, ops[o].stage # "locate"
    PROVE  ops[o].lot.late
BY DEF EvidenceIInv, OneOnTime, Unwarned, OnTime, PastValidation, Under

\* What the transaction does to the yield of the stored lots.
LEMMA CommitsFit ==
    ASSUME IntakeIInv, EvidenceIInv, YieldIInv, NEW o \in Ops, At(o, "save"), Commits(o)
    PROVE  /\ \A plot \in Plots : Fits(rows', plot, 0)
           /\ \A p \in Unwarned : p # o /\ ops[p].stage \in {"number", "save"} =>
                 Fits(rows', ops[p].lot.plot, ops[p].lot.kg)
<1> DEFINE n == ops[o].number
           lot == ops[o].lot
<1>1. /\ o \in Under /\ ops[o].stage = "save" /\ Agrees(ops[o], rows, sequence) /\ lot \in Lots
  BY AtStage DEF Under
<1>2. /\ n \in Numbers /\ rows' \in [Numbers -> Lots \cup {NoLot}]
      /\ rows \in [Numbers -> Lots \cup {NoLot}]
      /\ rows'[n] # NoLot /\ SameLot(lot, rows'[n])
      /\ \A m \in Numbers : m # n => rows'[m] = rows[m]
      /\ \A m \in Numbers : rows[m] # NoLot => rows'[m] # NoLot /\ SameLot(rows[m], rows'[m])
  BY CommitsStore DEF IntakeIInv, Types
<1>3. /\ rows'[n].late = lot.late
      /\ \A m \in Numbers : rows[m] # NoLot => rows[m].late = rows'[m].late
  BY CommitsEvidence DEF Stored
<1>4. \A p \in Unwarned : ops[p].stage \in {"number", "save"} =>
          Fits(rows, ops[p].lot.plot, ops[p].lot.kg)
  BY DEF YieldIInv, HarvestFits
<1>5. \A plot \in Plots : Fits(rows, plot, 0)
  BY DEF YieldIInv, PlotsFit
<1>6. CASE rows[n] # NoLot
  <2>1. \A m \in Numbers : rows'[m] = NoLot <=> rows[m] = NoLot
    BY <1>2, <1>6
  <2>2. \A plot, kg : Fits(rows, plot, kg) => Fits(rows', plot, kg)
    BY <1>2, <1>3, <2>1, SameLotsFit
  <2> QED
    BY <1>4, <1>5, <2>2
<1>7. CASE rows[n] = NoLot
  <2>1. ops[o].before = NoLot
    BY <1>1, <1>7 DEF Agrees
  <2>2. \/ rows'[n].warned \/ rows'[n].late
        \/ Fits(rows, rows'[n].plot, rows'[n].kg)
    <3>1. CASE o \in Unwarned
      BY <1>1, <1>2, <1>4, <3>1 DEF SameLot
    <3>2. CASE o \notin Unwarned
      BY <1>1, <1>2, <1>3, <2>1, <3>2 DEF SameLot, Unwarned, OnTime, PastValidation, Under
    <3> QED
      BY <3>1, <3>2
  <2>3. \A plot \in Plots : Fits(rows', plot, 0)
    BY <1>2, <1>5, <1>7, <2>2, HarvestedLotFits
  <2>4. ASSUME NEW p \in Unwarned, p # o, ops[p].stage \in {"number", "save"}
        PROVE  Fits(rows', ops[p].lot.plot, ops[p].lot.kg)
    <3>1. rows'[n].late
      BY <1>1, <1>3, <2>1, <2>4, HarvestsFlagged
    <3> QED
      BY <1>2, <1>4, <1>7, <2>4, <3>1, NewLotFits
  <2> QED
    BY <2>3, <2>4
<1> QED
  BY <1>6, <1>7

LEMMA CommitKeepsYield ==
    ASSUME IntakeIInv, EvidenceIInv, YieldIInv, NEW o \in Ops, Commit(o)
    PROVE  YieldIInv'
<1> DEFINE n == ops[o].number
           op == [ops[o] EXCEPT !.stage = "show"]
<1>1. /\ At(o, "save") /\ Commits(o) /\ ops' = [ops EXCEPT ![o] = op]
      /\ UNCHANGED <<batches, unanswered>>
  BY DEF Commit
<1>2. /\ ops[o] \in OpRecord /\ ops[o] # NoOp /\ ops[o].stage = "save" /\ o \in Under
  BY <1>1, AtStage DEF Under
<1>3. /\ op.number = n /\ op.stage = "show" /\ op.lot = ops[o].lot
      /\ op.before = ops[o].before /\ op # NoOp
  <2>1. op \in OpRecord
    BY <1>2 DEF OpRecord, Stages
  <2> QED
    BY <1>2, <2>1, IntakeAssumption DEF OpRecord
<1> HIDE DEF op
<1>4. \A p \in Ops : ops'[p] = IF p = o THEN op ELSE ops[p]
  BY <1>1 DEF IntakeIInv, Types
<1>5. /\ \A p \in Under' : p = o \/ (p \in Under /\ ops'[p] = ops[p])
      /\ \A p \in Under : p = o \/ (p \in Under' /\ ops'[p] = ops[p])
      /\ o \in Under' /\ ops'[o] = op
  BY <1>3, <1>4 DEF Under
<1>6. Stored' = Stored \cup {n} /\ \A m \in Numbers : Known(m)' = Known(m)
  BY <1>1, CommitsEvidence DEF Known
<1>7. /\ \A plot \in Plots : Fits(rows', plot, 0)
      /\ \A p \in Unwarned : p # o /\ ops[p].stage \in {"number", "save"} =>
            Fits(rows', ops[p].lot.plot, ops[p].lot.kg)
  BY <1>1, CommitsFit
<1>8. PlotsFit'
  BY <1>1, <1>7 DEF YieldIInv, PlotsFit
<1>9. HarvestFits'
  <2>1. \A p \in Unwarned' : p \in Unwarned /\ ops'[p].lot = ops[p].lot /\ (p # o => ops'[p] = ops[p])
    BY <1>2, <1>3, <1>4 DEF Unwarned, OnTime, PastValidation
  <2> QED
    BY <1>1, <1>2, <1>3, <1>5, <1>7, <2>1 DEF YieldIInv, HarvestFits
<1>10. RowsAreShown'
  <2> SUFFICES ASSUME NEW m \in Stored', ~Known(m), m \notin unanswered
               PROVE  \E p \in Under' : ops'[p].stage = "show" /\ ops'[p].number = m
    BY <1>1, <1>6, CommitsStore DEF RowsAreShown, Stored
  <2>1. CASE m = n
    BY <1>3, <1>5, <2>1
  <2>2. CASE m # n
    <3>1. PICK p \in Under : ops[p].stage = "show" /\ ops[p].number = m
      BY <1>6, <2>2 DEF YieldIInv, RowsAreShown
    <3> QED
      BY <1>2, <1>5, <3>1
  <2> QED
    BY <2>1, <2>2
<1>11. MovedAreKnown'
  <2>1. \A p \in Under : ops[p].before # NoLot => ops[p].number \in Numbers
    BY AboutRequest DEF Agrees
  <2> QED
    BY <1>2, <1>3, <1>5, <1>6, <2>1 DEF YieldIInv, MovedAreKnown
<1> QED
  BY <1>8, <1>9, <1>10, <1>11 DEF YieldIInv

\* Putting a snapshot back changes neither weights nor warnings.
LEMMA RolledBackFits ==
    ASSUME IntakeIInv, EvidenceIInv, YieldIInv, NEW o \in Ops, At(o, "save"), RolledBack(o)
    PROVE  /\ \A plot, kg : Fits(batches, plot, kg) => Fits(batches', plot, kg)
           /\ \A m \in Numbers : Known(m)' = Known(m)
<1> DEFINE n == ops[o].number
           before == ops[o].before
<1>1. batches \in [Numbers -> Lots \cup {NoLot}]
  BY DEF IntakeIInv, Types
<1>2. CASE before = NoLot
  BY <1>2 DEF RolledBack, Known
<1>3. CASE before # NoLot
  <2>1. /\ o \in Under /\ ops[o].stage = "save" /\ Agrees(ops[o], rows, sequence)
        /\ n \in Numbers \cup {0} /\ before \in Lots
    BY <1>3, AtStage DEF Under
  <2>2. /\ n \in Numbers /\ SameLot(before, rows[n]) /\ before.late = rows[n].late
        /\ batches[n] # NoLot
    BY <1>3, <2>1 DEF Agrees, EvidenceIInv, LateStays, YieldIInv, MovedAreKnown, Known
  <2>3. SameLot(batches[n], before) /\ batches[n].late = before.late
    BY <2>2 DEF IntakeIInv, Drawn, SameLot, EvidenceIInv, LateStays, Known
  <2>4. batches' = [batches EXCEPT ![n] = before] /\ before # NoLot
    BY <1>3 DEF RolledBack
  <2> HIDE DEF n, before
  <2>5. /\ batches' \in [Numbers -> Lots \cup {NoLot}]
        /\ \A m \in Numbers : m # n => batches'[m] = batches[m]
        /\ batches'[n] = before
    BY <1>1, <2>1, <2>2, <2>4
  <2>6. /\ \A m \in Numbers : batches'[m] = NoLot <=> batches[m] = NoLot
        /\ \A m \in Numbers : batches[m] # NoLot =>
              SameLot(batches[m], batches'[m]) /\ batches[m].late = batches'[m].late
    BY <2>2, <2>3, <2>4, <2>5 DEF SameLot
  <2>7. \A plot, kg : Fits(batches, plot, kg) => Fits(batches', plot, kg)
    BY <1>1, <2>5, <2>6, SameLotsFit
  <2> QED
    BY <2>6, <2>7 DEF Known
<1> QED
  BY <1>2, <1>3

\* A request that ends after its save failed or was not answered.
LEMMA FailureKeepsYield ==
    ASSUME IntakeIInv, EvidenceIInv, YieldIInv, NEW o \in Ops, At(o, "save"), RolledBack(o),
           ops' = [ops EXCEPT ![o] = NoOp],
           \/ UNCHANGED <<rows, unanswered>>
           \/ Commits(o) /\ unanswered' = unanswered \cup {ops[o].number}
    PROVE  YieldIInv'
<1>1. /\ \A p \in Under' : p \in Under /\ p # o /\ ops'[p] = ops[p]
      /\ \A p \in Under : p # o => p \in Under' /\ ops'[p] = ops[p]
  BY DEF IntakeIInv, Types, Under
<1>2. \A p \in Unwarned' : p \in Unwarned /\ p # o /\ ops'[p] = ops[p]
  BY DEF IntakeIInv, Types, Unwarned, OnTime, PastValidation
<1>3. /\ \A plot, kg : Fits(batches, plot, kg) => Fits(batches', plot, kg)
      /\ \A m \in Numbers : Known(m)' = Known(m)
  BY RolledBackFits
<1>4. /\ \A plot \in Plots : Fits(rows', plot, 0)
      /\ \A p \in Unwarned : p # o /\ ops[p].stage \in {"number", "save"} =>
            Fits(rows', ops[p].lot.plot, ops[p].lot.kg)
  <2>1. CASE rows' = rows
    BY <2>1 DEF YieldIInv, PlotsFit, HarvestFits
  <2>2. CASE Commits(o)
    BY <2>2, CommitsFit
  <2> QED
    BY <2>1, <2>2
<1>5. PlotsFit'
  BY <1>3, <1>4 DEF YieldIInv, PlotsFit
<1>6. HarvestFits'
  BY <1>2, <1>3, <1>4 DEF YieldIInv, HarvestFits
<1>7. RowsAreShown'
  <2> SUFFICES ASSUME NEW m \in Stored', ~Known(m), m \notin unanswered'
               PROVE  \E p \in Under' : ops'[p].stage = "show" /\ ops'[p].number = m
    <3>1. Stored' \subseteq Numbers
      BY DEF Stored
    <3> QED
      BY <1>3, <3>1 DEF RowsAreShown
  <2>1. m \in Stored /\ m \notin unanswered
    <3>1. CASE UNCHANGED <<rows, unanswered>>
      BY <3>1 DEF Stored
    <3>2. CASE Commits(o) /\ unanswered' = unanswered \cup {ops[o].number}
      BY <3>2, CommitsEvidence
    <3> QED
      BY <3>1, <3>2
  <2>2. PICK p \in Under : ops[p].stage = "show" /\ ops[p].number = m
    BY <2>1 DEF YieldIInv, RowsAreShown
  <2>3. p # o
    BY <2>2 DEF At
  <2> QED
    BY <1>1, <2>2, <2>3
<1>8. MovedAreKnown'
  <2>1. \A p \in Under : ops[p].before # NoLot => ops[p].number \in Numbers
    BY AboutRequest DEF Agrees
  <2> QED
    BY <1>1, <1>3, <2>1 DEF YieldIInv, MovedAreKnown
<1> QED
  BY <1>5, <1>6, <1>7, <1>8 DEF YieldIInv

\* A lot that is shown was moved, and weighs as before, or is a new one, which
\* is flagged or fits.
LEMMA ShowKeepsYield ==
    ASSUME IntakeIInv, EvidenceIInv, YieldIInv, NEW o \in Ops, Show(o)
    PROVE  YieldIInv'
<1> DEFINE n == ops[o].number
           lot == ops[o].lot
           op == [ops[o] EXCEPT !.stage = "evidence"]
<1>1. /\ At(o, "show") /\ batches' = [batches EXCEPT ![n] = lot]
      /\ ops' = [ops EXCEPT ![o] = op] /\ UNCHANGED <<rows, unanswered>>
  BY DEF Show
<1>2. /\ ops[o] \in OpRecord /\ ops[o] # NoOp /\ ops[o].stage = "show" /\ o \in Under
      /\ Agrees(ops[o], rows, sequence) /\ lot \in Lots /\ n \in Numbers \cup {0}
  BY <1>1, AtStage DEF Under
<1>3. /\ op.number = n /\ op.stage = "evidence" /\ op.lot = lot /\ op.before = ops[o].before
      /\ op # NoOp
  <2>1. op \in OpRecord
    BY <1>2 DEF OpRecord, Stages
  <2> QED
    BY <1>2, <2>1, IntakeAssumption DEF OpRecord
<1> HIDE DEF op
<1>4. /\ n \in Numbers /\ SameLot(lot, rows[n]) /\ lot.late = rows[n].late /\ lot # NoLot
      /\ rows[n] # NoLot
  BY <1>2, IntakeAssumption DEF Agrees, EvidenceIInv, LateStays
<1>5. \A p \in Ops : ops'[p] = IF p = o THEN op ELSE ops[p]
  BY <1>1 DEF IntakeIInv, Types
<1>6. /\ \A p \in Under' : p = o \/ (p \in Under /\ ops'[p] = ops[p])
      /\ \A p \in Under : p = o \/ (p \in Under' /\ ops'[p] = ops[p])
      /\ ops'[o] = op
  BY <1>3, <1>5 DEF Under
<1>7. /\ batches \in [Numbers -> Lots \cup {NoLot}] /\ batches' \in [Numbers -> Lots \cup {NoLot}]
      /\ \A m \in Numbers : m # n => batches'[m] = batches[m]
      /\ batches'[n] = lot
  BY <1>1, <1>2, <1>4 DEF IntakeIInv, Types
<1>8. \A m \in Numbers : batches'[m] # NoLot <=> Known(m) \/ m = n
  BY <1>4, <1>7 DEF Known
<1>9. \A p \in Unwarned : ops[p].stage \in {"number", "save", "show"} =>
          Fits(batches, ops[p].lot.plot, ops[p].lot.kg)
  BY DEF YieldIInv, HarvestFits
<1>10. \A plot \in Plots : Fits(batches, plot, 0)
  BY DEF YieldIInv, PlotsFit
<1>11. /\ \A plot \in Plots : Fits(batches', plot, 0)
       /\ \A p \in Unwarned : p # o /\ ops[p].stage \in {"number", "save", "show"} =>
             Fits(batches', ops[p].lot.plot, ops[p].lot.kg)
  <2>1. CASE batches[n] # NoLot
    <3>1. SameLot(batches[n], lot) /\ batches[n].late = lot.late
      BY <1>4, <2>1 DEF IntakeIInv, Drawn, SameLot, EvidenceIInv, LateStays, Known
    <3>2. /\ \A m \in Numbers : batches'[m] = NoLot <=> batches[m] = NoLot
          /\ \A m \in Numbers : batches[m] # NoLot =>
                SameLot(batches[m], batches'[m]) /\ batches[m].late = batches'[m].late
      BY <1>4, <1>7, <2>1, <3>1 DEF SameLot
    <3>3. \A plot, kg : Fits(batches, plot, kg) => Fits(batches', plot, kg)
      BY <1>7, <3>2, SameLotsFit
    <3> QED
      BY <1>9, <1>10, <3>3
  <2>2. CASE batches[n] = NoLot
    <3>1. ops[o].before = NoLot
      BY <1>2, <2>2 DEF YieldIInv, MovedAreKnown, Known
    <3>2. lot.warned \/ lot.late \/ Fits(batches, lot.plot, lot.kg)
      <4>1. CASE o \in Unwarned
        BY <1>2, <1>9, <4>1
      <4>2. CASE o \notin Unwarned
        BY <1>2, <3>1, <4>2 DEF Unwarned, OnTime, PastValidation, Under
      <4> QED
        BY <4>1, <4>2
    <3>3. \A plot \in Plots : Fits(batches', plot, 0)
      <4> HIDE DEF n, lot
      <4> QED
        BY <1>4, <1>7, <1>10, <2>2, <3>2, HarvestedLotFits
    <3>4. ASSUME NEW p \in Unwarned, p # o, ops[p].stage \in {"number", "save", "show"}
          PROVE  Fits(batches', ops[p].lot.plot, ops[p].lot.kg)
      <4>1. lot.late
        BY <1>2, <3>1, <3>4, HarvestsFlagged
      <4>2. Fits(batches, ops[p].lot.plot, ops[p].lot.kg)
        BY <1>9, <3>4
      <4> HIDE DEF n, lot
      <4> QED
        BY <1>4, <1>7, <2>2, <4>1, <4>2, NewLotFits
    <3> QED
      BY <3>3, <3>4
  <2> QED
    BY <2>1, <2>2
<1>12. PlotsFit'
  BY <1>1, <1>11 DEF YieldIInv, PlotsFit
<1>13. HarvestFits'
  <2>1. \A p \in Unwarned' : p \in Unwarned /\ ops'[p].lot = ops[p].lot /\ (p # o => ops'[p] = ops[p])
    BY <1>2, <1>3, <1>5 DEF Unwarned, OnTime, PastValidation
  <2> QED
    BY <1>1, <1>3, <1>6, <1>11, <2>1 DEF YieldIInv, HarvestFits
<1>14. RowsAreShown'
  <2> SUFFICES ASSUME NEW m \in Stored', ~Known(m)', m \notin unanswered
               PROVE  \E p \in Under' : ops'[p].stage = "show" /\ ops'[p].number = m
    BY <1>1 DEF RowsAreShown
  <2>1. m \in Stored /\ m # n /\ ~Known(m)
    BY <1>1, <1>8 DEF Stored, Known
  <2>2. PICK p \in Under : ops[p].stage = "show" /\ ops[p].number = m
    BY <2>1 DEF YieldIInv, RowsAreShown
  <2> QED
    BY <1>6, <2>1, <2>2
<1>15. MovedAreKnown'
  <2>1. \A p \in Under : ops[p].before # NoLot => ops[p].number \in Numbers
    BY AboutRequest DEF Agrees
  <2> QED
    BY <1>2, <1>3, <1>6, <1>8, <2>1 DEF YieldIInv, MovedAreKnown, Known
<1> QED
  BY <1>12, <1>13, <1>14, <1>15 DEF YieldIInv

LEMMA AddEvidenceKeepsYield ==
    ASSUME IntakeIInv, YieldIInv, NEW o \in Ops, AddEvidence(o)
    PROVE  YieldIInv'
<1>1. /\ At(o, "evidence") /\ ops' = [ops EXCEPT ![o] = NoOp]
      /\ UNCHANGED <<batches, rows, unanswered>>
  BY DEF AddEvidence, Ends
<1>2. /\ \A p \in Under' : p \in Under /\ ops'[p] = ops[p]
      /\ \A p \in Under : p # o => p \in Under' /\ ops'[p] = ops[p]
  BY <1>1 DEF IntakeIInv, Types, Under
<1>3. \A p \in Unwarned' : p \in Unwarned /\ ops'[p] = ops[p]
  BY <1>1 DEF IntakeIInv, Types, Unwarned, OnTime, PastValidation
<1>4. PlotsFit' /\ HarvestFits'
  BY <1>1, <1>3 DEF YieldIInv, PlotsFit, HarvestFits
<1>5. RowsAreShown'
  <2>1. \A p \in Under : ops[p].stage = "show" => p # o
    BY <1>1 DEF At
  <2> QED
    BY <1>1, <1>2, <2>1 DEF YieldIInv, RowsAreShown, Stored, Known
<1>6. MovedAreKnown'
  BY <1>1, <1>2 DEF YieldIInv, MovedAreKnown, Known
<1> QED
  BY <1>4, <1>5, <1>6 DEF YieldIInv

LEMMA RestartKeepsYield ==
    ASSUME YieldIInv, Restart
    PROVE  YieldIInv'
<1>1. batches' = rows /\ rows' = rows /\ ops' = [o \in Ops |-> NoOp]
  BY DEF Restart
<1>2. Under' = {} /\ Unwarned' = {} /\ \A n \in Stored' : Known(n)'
  BY <1>1 DEF Under, Unwarned, OnTime, PastValidation, Stored, Known
<1>3. PlotsFit'
  BY <1>1 DEF YieldIInv, PlotsFit
<1> QED
  BY <1>2, <1>3 DEF YieldIInv, HarvestFits, RowsAreShown, MovedAreKnown

LEMMA StepKeepsYield ==
    IntakeIInv /\ EvidenceIInv /\ YieldIInv /\ [Next]_vars => YieldIInv'
<1> SUFFICES ASSUME IntakeIInv, EvidenceIInv, YieldIInv, [Next]_vars PROVE YieldIInv'
  OBVIOUS
<1>1. ASSUME UNCHANGED <<batches, rows, ops, unanswered>> PROVE YieldIInv'
  BY <1>1 DEF YieldIInv, PlotsFit, HarvestFits, RowsAreShown, MovedAreKnown, Unwarned, OnTime,
     PastValidation, Under, Stored, Known
<1>2. ASSUME NEW o \in Ops, NEW plot, NEW kg, NEW photos, NEW demo,
             Begin(o, plot, kg, photos, demo), UNCHANGED <<batches, rows, unanswered>>
      PROVE  YieldIInv'
  <2> DEFINE lot == [plot |-> plot, kg |-> kg, photos |-> photos, slips |-> {}, stage |-> 0,
                     warned |-> FALSE, demo |-> demo, late |-> FALSE]
             op == [stage |-> "locate", number |-> 0, before |-> NoLot, lot |-> lot]
  <2>1. ops[o] = NoOp /\ ops' = [ops EXCEPT ![o] = op]
    BY <1>2 DEF Begin
  <2>2. op.stage = "locate" /\ op.before = NoLot
    OBVIOUS
  <2> HIDE DEF op
  <2> QED
    BY <1>2, <2>1, <2>2, EarlyStepKeepsYield
<1>3. ASSUME NEW o \in Ops, NextBatchSequence(o) PROVE YieldIInv'
  <2> DEFINE op == [ops[o] EXCEPT !.stage = "save", !.number = sequence + 1]
  <2>1. /\ At(o, "number") /\ ops' = [ops EXCEPT ![o] = op]
        /\ UNCHANGED <<batches, rows, unanswered>>
    BY <1>3 DEF NextBatchSequence, IntakeIInv, Types
  <2>2. /\ ops[o] \in OpRecord /\ ops[o].stage = "number" /\ ops[o].before = NoLot
    BY <2>1, AtStage DEF Agrees
  <2>3. op.stage = "save" /\ op.before = NoLot /\ op.lot = ops[o].lot
    BY <2>2 DEF OpRecord
  <2> HIDE DEF op
  <2> QED
    BY <2>1, <2>2, <2>3, EarlyStepKeepsYield
<1>4. ASSUME NEW o \in Ops, SaveFails(o) \/ SaveUnanswered(o) PROVE YieldIInv'
  <2>1. /\ At(o, "save") /\ RolledBack(o) /\ ops' = [ops EXCEPT ![o] = NoOp]
        /\ \/ UNCHANGED <<rows, unanswered>>
           \/ Commits(o) /\ unanswered' = unanswered \cup {ops[o].number}
    BY <1>4 DEF SaveFails, SaveUnanswered, Fails
  <2> QED
    BY <2>1, FailureKeepsYield
<1>5. ASSUME NEW o \in Ops, NEW n \in Numbers, NEW slips \in SUBSET Photos, Transfer(o, n, slips)
      PROVE  YieldIInv'
  BY <1>5, BeginTransferKeepsYield DEF Transfer
<1>6. ASSUME NEW o \in Ops, DemoTransfer(o) PROVE YieldIInv'
  <2> DEFINE n == DemoMoves[boot - Len(Demo)]
  <2>1. UNCHANGED <<rows, unanswered>>
    BY <1>6 DEF DemoTransfer
  <2>2. CASE n \in Numbers /\ BeginTransfer(o, n, {})
    BY <2>1, <2>2, BeginTransferKeepsYield
  <2>3. CASE UNCHANGED <<batches, ops>>
    BY <1>1, <2>1, <2>3
  <2> QED
    BY <1>6, <2>2, <2>3 DEF DemoTransfer
<1>7. ASSUME NEW o \in Ops, DemoHarvest(o) PROVE YieldIInv'
  BY <1>2, <1>7 DEF DemoHarvest
<1>8. CASE UNCHANGED vars
  BY <1>1, <1>8 DEF vars
<1>9. CASE Next
  <2>1. ASSUME NEW o \in Ops, NEW plot \in Plots, NEW kg \in Weights, NEW p \in Photos,
               Post(o, plot, kg, {p}) \/ Post(o, plot, kg, {})
        PROVE  YieldIInv'
    BY <1>2, <2>1 DEF Post
  <2>2. ASSUME NEW o \in Ops, NEW n \in Numbers, NEW p \in Photos, Transfer(o, n, {p})
        PROVE  YieldIInv'
    BY <1>5, <2>2
  <2>3. ASSUME NEW p \in Photos, Upload(p) PROVE YieldIInv'
    BY <1>1, <2>3 DEF Upload
  <2>4. ASSUME NEW o \in Ops,
               \/ Validate(o) \/ NextBatchSequence(o) \/ Commit(o) \/ Show(o) \/ AddEvidence(o)
               \/ SaveFails(o) \/ SaveUnanswered(o) \/ DemoHarvest(o) \/ DemoTransfer(o)
        PROVE  YieldIInv'
    BY <1>3, <1>4, <1>6, <1>7, <2>4, ValidateKeepsYield, CommitKeepsYield, ShowKeepsYield,
       AddEvidenceKeepsYield
  <2> QED
    BY <1>9, <2>1, <2>2, <2>3, <2>4, RestartKeepsYield DEF Next
<1> QED
  BY <1>8, <1>9

\* That every plot fits is what the property says.
LEMMA FittingIsWarned == IntakeIInv /\ YieldIInv => YieldIsWarned
<1> SUFFICES ASSUME IntakeIInv, YieldIInv, NEW plot \in Plots, Yield(plot) > MaxYield[plot]
             PROVE  Flagged(batches, plot)
  BY DEF YieldIsWarned, Flagged, Known
<1> DEFINE a == Share(batches, plot)
<1>1. a \in [Numbers -> Nat]
  BY ShareOfLots DEF IntakeIInv, Types
<1>2. Total(a) \in Nat
  <2> HIDE DEF a
  <2>1. PICK f : Adds(f, a, MaxLots) /\ Total(a) = f[MaxLots]
    BY <1>1, TotalAdds
  <2> QED
    BY <2>1, LastNumber DEF Adds
<1>3. MaxYield[plot] \in Nat
  BY IntakeAssumption
<1>4. Total(a) > MaxYield[plot]
  BY DEF Yield
<1>5. Total(a) + 0 <= MaxYield[plot] \/ Flagged(batches, plot)
  BY DEF YieldIInv, PlotsFit, Fits
<1> HIDE DEF a
<1> QED
  BY <1>2, <1>3, <1>4, <1>5

(***************************************************************************)
(* The theorem.  A plot that yielded more than it can has a lot with the   *)
(* warning of validateHarvest, or one that was validated while another     *)
(* save was under way or unanswered, although what is summed up is memory, *)
(* and lots reach memory after the table; and the lots of the demo script  *)
(* are stored once.                                                        *)
(***************************************************************************)
THEOREM HarvestsAreJudged == Spec => []IntakeInv
<1>1. Init => IntakeIInv /\ EvidenceIInv /\ YieldIInv
  BY IntakeInitially, EvidenceInitially, YieldInitially
<1>2. (IntakeIInv /\ EvidenceIInv /\ YieldIInv) /\ [Next]_vars
          => (IntakeIInv /\ EvidenceIInv /\ YieldIInv)'
  BY StepKeeps, StepKeepsEvidence, StepKeepsYield
<1>3. IntakeIInv /\ YieldIInv => YieldIsWarned
  BY FittingIsWarned
<1>4. Spec => []YieldIsWarned
  BY <1>1, <1>2, <1>3, PTL DEF Spec
<1> QED
  BY <1>4, DemoHarvestsOnce, PTL DEF IntakeInv
================================================================================
