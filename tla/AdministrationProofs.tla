------------------------ MODULE AdministrationProofs ------------------------
(***************************************************************************)
(* Theorems about Plots and Registry, the two parts of administration, for *)
(* any plots, codes, polygons, people, ids, phones, number of requests     *)
(* under way and number of failures.                                       *)
(***************************************************************************)
EXTENDS Plots, Registry, TLAPS

(***************************************************************************)
(* Plots.                                                                  *)
(***************************************************************************)

\* A request that may still write its plot.
Pending(op) == op # NoOp /\ op.stage # "audit"

\* No two rows have one code.
RowCodesUnique ==
    \A i, j \in PlotIds : i # j /\ rows[i] # NoPlot /\ rows[j] # NoPlot =>
        rows[i].code # rows[j].code

\* Only one request is about to write a plot that is not dirty.
OneWriter ==
    \A o, p \in Ops : Pending(ops[o]) /\ Pending(ops[p]) /\ ops[o].id = ops[p].id =>
        o = p \/ ops[o].id \in dirty

\* What such a request knows of the map and of the row.
Agrees(op, plot, row) ==
    /\ op.stage \in {"inspect", "save"} => plot = row
    /\ op.stage = "row" => plot = op.plot
    /\ op.kind \in {"create", "mobile"} => row = NoPlot
    /\ (op.kind = "form" => op.fresh) /\ row # NoPlot =>
          \A field \in Fields \ op.chosen : op.plot[field] = row[field]

OpsAgree ==
    \A o \in Ops : Pending(ops[o]) /\ ops[o].id \notin dirty =>
        Agrees(ops[o], plots[ops[o].id], rows[ops[o].id])

\* The rows a plot overlaps when it is written as an active one.
Collides(tab, i, shape) ==
    {j \in PlotIds : j # i /\ tab[j] # NoPlot /\ tab[j].status = "active"
                     /\ tab[j].shape \cap shape # {}}

\* What is past its inspection overlaps no active row, or raced one; a plot
\* that is not inspected is not active.
InspectedAreClear ==
    \A o \in Ops : Pending(ops[o]) =>
        /\ ops[o].kind = "mobile" => ops[o].plot.status # "active"
        /\ ops[o].kind # "mobile" /\ ops[o].stage \in {"save", "row"} =>
              ops[o].id \in raced \/ Collides(rows, ops[o].id, ops[o].plot.shape) = {}

PlotsIInv ==
    /\ PlotsTypeOK
    /\ QuietPlotsMatch /\ RowCodesUnique /\ OneWriter /\ OpsAgree
    /\ ActiveRowsDisjoint /\ InspectedAreClear

LEMMA PlotsInitially == PlotsInit => PlotsIInv
<1> SUFFICES ASSUME PlotsInit PROVE PlotsIInv
  OBVIOUS
<1>1. \A i \in PlotIds : plots[i] = IF i \in SeedIds THEN Seed[i] ELSE NoPlot
  BY DEF PlotsInit
<1>2. \A i \in SeedIds : Seed[i] \in FarmPlots /\ Seed[i] # NoPlot /\ i \in PlotIds
  BY PlotsAssumption DEF PlotIds
<1>3. PlotsTypeOK
  BY <1>1, <1>2, PlotsAssumption DEF PlotsInit, PlotsTypeOK
<1>4. rows = plots /\ \A o \in Ops : ~Pending(ops[o])
  BY DEF PlotsInit, Pending
<1>5. \A i \in PlotIds : rows[i] # NoPlot => i \in SeedIds /\ rows[i] = Seed[i]
  BY <1>1, <1>4
<1>6. QuietPlotsMatch /\ OneWriter /\ OpsAgree /\ InspectedAreClear
  BY <1>4 DEF QuietPlotsMatch, OneWriter, OpsAgree, InspectedAreClear
<1>7. RowCodesUnique /\ ActiveRowsDisjoint
  BY <1>5, PlotsAssumption DEF RowCodesUnique, ActiveRowsDisjoint, ActiveRows
<1> QED
  BY <1>3, <1>6, <1>7 DEF PlotsIInv

(***************************************************************************)
(* What every step of a request has in common.                             *)
(***************************************************************************)

\* The other requests stay as they are.
LEMMA OthersStay ==
    ASSUME PlotsIInv, NEW o \in Ops, NEW op, ops' = [ops EXCEPT ![o] = op]
    PROVE  /\ ops'[o] = op
           /\ \A p \in Ops : p # o => ops'[p] = ops[p]
           /\ op \in Requests \cup {NoOp} => ops' \in [Ops -> Requests \cup {NoOp}]
BY DEF PlotsIInv, PlotsTypeOK

\* A request that goes on, or ends, is still the only one.
LEMMA WriterStays ==
    ASSUME PlotsIInv, NEW o \in Ops, NEW op, ops' = [ops EXCEPT ![o] = op],
           Pending(op) => Pending(ops[o]) /\ op.id = ops[o].id,
           dirty \subseteq dirty'
    PROVE  OneWriter'
<1> SUFFICES ASSUME NEW p \in Ops, NEW q \in Ops, Pending(ops'[p]), Pending(ops'[q]),
                    ops'[p].id = ops'[q].id, p # q
             PROVE  ops'[p].id \in dirty'
  BY DEF OneWriter, Pending
<1>1. \A r \in Ops : Pending(ops'[r]) => Pending(ops[r]) /\ ops'[r].id = ops[r].id
  BY OthersStay
<1> QED
  BY <1>1 DEF PlotsIInv, OneWriter

LEMMA BeginKeeps ==
    ASSUME PlotsIInv, NEW o \in Ops, NEW kind \in Kinds, NEW i \in PlotIds,
           NEW plot \in FarmPlots, NEW stage \in Stages, NEW chosen \in SUBSET Fields,
           Begin(o, kind, i, plot, chosen, stage),
           UNCHANGED <<rows, listed, raced, faults>>,
           \/ stage = "inspect" /\ kind # "mobile" /\ plots' = plots
           \/ /\ stage = "row" /\ kind = "mobile" /\ plot.status # "active"
              /\ plots' = [plots EXCEPT ![i] = plot],
           kind \in {"create", "mobile"} => plots[i] = NoPlot,
           \A field \in Fields \ chosen :
               /\ kind = "form" => plot[field] = listed[i][field]
               /\ kind = "status" => plot[field] = plots[i][field]
    PROVE  PlotsIInv'
<1> DEFINE op == [kind |-> kind, id |-> i, plot |-> plot, stage |-> stage,
                  chosen |-> chosen, fresh |-> listed[i] = plots[i]]
<1>1. /\ ops[o] = NoOp /\ ops' = [ops EXCEPT ![o] = op]
      /\ dirty' = (IF Busy(i) THEN dirty \cup {i} ELSE dirty)
      /\ requests < MaxRequests /\ requests' = requests + 1
  BY DEF Begin
<1>2. /\ op \in Requests /\ op # NoOp /\ op.kind = kind /\ op.id = i /\ op.plot = plot
      /\ op.stage = stage /\ op.chosen = chosen /\ op.fresh = (listed[i] = plots[i])
  <2>1. op \in Requests
    BY DEF Requests
  <2> QED
    BY <2>1, PlotsAssumption
<1> HIDE DEF op
<1>3. ops'[o] = op /\ \A p \in Ops : p # o => ops'[p] = ops[p]
  BY <1>1, OthersStay
<1>4. Pending(op) /\ ~Pending(ops[o])
  BY <1>1, <1>2 DEF Pending
<1>5. PlotsTypeOK'
  <2>1. ops' \in [Ops -> Requests \cup {NoOp}]
    BY <1>1, <1>2, OthersStay
  <2>2. plots' \in [PlotIds -> FarmPlots \cup {NoPlot}] /\ dirty' \subseteq PlotIds
    BY <1>1 DEF PlotsIInv, PlotsTypeOK
  <2>3. requests' \in 0..MaxRequests
    BY <1>1, PlotsAssumption DEF PlotsIInv, PlotsTypeOK
  <2> QED
    BY <2>1, <2>2, <2>3 DEF PlotsIInv, PlotsTypeOK
<1>6. \A j \in PlotIds : j # i => plots'[j] = plots[j] /\ (j \in dirty' <=> j \in dirty)
                                  /\ (Busy(j)' <=> Busy(j))
  <2> SUFFICES ASSUME NEW j \in PlotIds, j # i
               PROVE  plots'[j] = plots[j] /\ (j \in dirty' <=> j \in dirty)
                      /\ (Busy(j)' <=> Busy(j))
    OBVIOUS
  <2>1. plots'[j] = plots[j] /\ (j \in dirty' <=> j \in dirty)
    BY <1>1 DEF PlotsIInv, PlotsTypeOK
  <2>2. Busy(j)' <=> Busy(j)
    BY <1>2, <1>3, <1>4 DEF Busy, Pending
  <2> QED
    BY <2>1, <2>2
<1>7. Busy(i)'
  BY <1>2, <1>3, <1>4 DEF Busy, Pending
<1>8. QuietPlotsMatch'
  <2> SUFFICES ASSUME NEW j \in PlotIds, j \notin dirty', ~Busy(j)'
               PROVE  plots'[j] = rows[j]
    BY DEF QuietPlotsMatch
  <2> QED
    BY <1>6, <1>7 DEF PlotsIInv, QuietPlotsMatch
<1>9. OneWriter'
  <2> SUFFICES ASSUME NEW p \in Ops, NEW q \in Ops, Pending(ops'[p]), Pending(ops'[q]),
                      ops'[p].id = ops'[q].id, p # q
               PROVE  ops'[p].id \in dirty'
    BY DEF OneWriter, Pending
  <2>1. CASE p # o /\ q # o
    BY <1>1, <1>3, <2>1 DEF PlotsIInv, OneWriter
  <2>2. CASE p = o \/ q = o
    <3>1. Busy(i)
      BY <1>2, <1>3, <2>2 DEF Busy, Pending
    <3> QED
      BY <1>1, <1>2, <1>3, <2>2, <3>1
  <2> QED
    BY <2>1, <2>2
<1>10. OpsAgree'
  <2> SUFFICES ASSUME NEW p \in Ops, Pending(ops'[p]), ops'[p].id \notin dirty'
               PROVE  Agrees(ops'[p], plots'[ops'[p].id], rows[ops'[p].id])
    BY DEF OpsAgree, Pending
  <2>1. CASE p = o
    <3>1. ~Busy(i) /\ i \notin dirty
      BY <1>1, <1>2, <1>3, <2>1
    <3>2. plots[i] = rows[i]
      BY <3>1 DEF PlotsIInv, QuietPlotsMatch
    <3>3. plots'[i] = IF stage = "row" THEN plot ELSE plots[i]
      BY DEF PlotsIInv, PlotsTypeOK
    <3>4. /\ stage \in {"inspect", "save"} => plots'[i] = rows[i]
          /\ stage = "row" => plots'[i] = plot
          /\ kind \in {"create", "mobile"} => rows[i] = NoPlot
      BY <3>2, <3>3
    <3>5. ASSUME kind = "form" => listed[i] = plots[i], rows[i] # NoPlot,
                 NEW field \in Fields \ chosen
          PROVE  plot[field] = rows[i][field]
      <4>1. kind \in {"form", "status"}
        BY <3>4, <3>5 DEF Kinds
      <4> QED
        BY <4>1, <3>2, <3>5
    <3> QED
      BY <1>2, <1>3, <2>1, <3>4, <3>5 DEF Agrees
  <2>2. CASE p # o
    <3>1. ops'[p] = ops[p] /\ ops[p] \in Requests /\ ops[p].id \in PlotIds
      BY <1>3, <2>2 DEF PlotsIInv, PlotsTypeOK, Pending, Requests
    <3>2. ops[p].id # i
      BY <1>1, <3>1 DEF Busy, Pending
    <3> QED
      BY <1>6, <3>1, <3>2 DEF PlotsIInv, OpsAgree
  <2> QED
    BY <2>1, <2>2
<1>11. InspectedAreClear'
  <2> SUFFICES ASSUME NEW p \in Ops, Pending(ops'[p])
               PROVE  /\ ops'[p].kind = "mobile" => ops'[p].plot.status # "active"
                      /\ ops'[p].kind # "mobile" /\ ops'[p].stage \in {"save", "row"} =>
                            ops'[p].id \in raced
                            \/ Collides(rows, ops'[p].id, ops'[p].plot.shape) = {}
    BY DEF InspectedAreClear, Pending, Collides
  <2>1. CASE p = o
    BY <1>2, <1>3, <2>1
  <2>2. CASE p # o
    BY <1>3, <2>2 DEF PlotsIInv, InspectedAreClear
  <2> QED
    BY <2>1, <2>2
<1>12. RowCodesUnique' /\ ActiveRowsDisjoint'
  BY DEF PlotsIInv, RowCodesUnique, ActiveRowsDisjoint, ActiveRows
<1> QED
  BY <1>5, <1>8, <1>9, <1>10, <1>11, <1>12 DEF PlotsIInv

LEMMA CreatePlotKeeps ==
    ASSUME PlotsIInv, NEW o \in Ops, NEW i \in AdminIds, NEW plot \in FarmPlots,
           CreatePlot(o, i, plot)
    PROVE  PlotsIInv'
<1>1. i \in PlotIds /\ plots[i] = NoPlot
  BY DEF PlotIds, CreatePlot, Known
<1>2. /\ Begin(o, "create", i, plot, Fields, "inspect")
      /\ UNCHANGED <<plots, rows, listed, raced, faults>>
  BY DEF CreatePlot
<1> QED
  BY <1>1, <1>2, BeginKeeps DEF Kinds, Stages

LEMMA SaveFormKeeps ==
    ASSUME PlotsIInv, NEW o \in Ops, NEW i \in PlotIds, NEW plot \in FarmPlots, SaveForm(o, i, plot)
    PROVE  PlotsIInv'
<1> DEFINE chosen == Changed(i, plot)
<1>1. chosen \in SUBSET Fields /\ \A field \in Fields \ chosen : plot[field] = listed[i][field]
  BY DEF Changed
<1>2. /\ Begin(o, "form", i, plot, chosen, "inspect")
      /\ UNCHANGED <<plots, rows, listed, raced, faults>>
  BY DEF SaveForm
<1> HIDE DEF chosen
<1> QED
  BY <1>1, <1>2, BeginKeeps DEF Kinds, Stages

LEMMA SetStatusKeeps ==
    ASSUME PlotsIInv, NEW o \in Ops, NEW i \in PlotIds, NEW status \in PlotStatus,
           SetStatus(o, i, status)
    PROVE  PlotsIInv'
<1> DEFINE plot == [plots[i] EXCEPT !.status = status]
<1>1. plots[i] \in FarmPlots
  BY DEF SetStatus, Known, PlotsIInv, PlotsTypeOK
<1>2. /\ plot \in FarmPlots /\ {"status"} \in SUBSET Fields
      /\ \A field \in Fields \ {"status"} : plot[field] = plots[i][field]
  BY <1>1 DEF FarmPlots, Fields
<1>3. /\ Begin(o, "status", i, plot, {"status"}, "inspect")
      /\ UNCHANGED <<plots, rows, listed, raced, faults>>
  BY DEF SetStatus
<1> HIDE DEF plot
<1> QED
  BY <1>2, <1>3, BeginKeeps DEF Kinds, Stages

LEMMA MobilePlotKeeps ==
    ASSUME PlotsIInv, NEW o \in Ops, NEW i \in RandomIds, NEW code \in Codes, NEW shape \in Shapes,
           MobilePlot(o, i, code, shape)
    PROVE  PlotsIInv'
<1> DEFINE plot == [code |-> code, shape |-> shape, status |-> "pending"]
<1>1. plot \in FarmPlots /\ plot.status # "active" /\ i \in PlotIds /\ plots[i] = NoPlot
  BY DEF FarmPlots, PlotStatus, PlotIds, MobilePlot, Known
<1>2. /\ Begin(o, "mobile", i, plot, Fields, "row") /\ plots' = [plots EXCEPT ![i] = plot]
      /\ UNCHANGED <<rows, listed, raced, faults>>
  BY DEF MobilePlot
<1> HIDE DEF plot
<1> QED
  BY <1>1, <1>2, BeginKeeps DEF Kinds, Stages

\* The plot of a registration is dirty, so nothing is said of it.
LEMMA RegisterPlotKeeps ==
    ASSUME PlotsIInv, NEW i \in RandomIds, NEW code \in Codes, NEW shape \in Shapes,
           RegisterPlot(i, code, shape)
    PROVE  PlotsIInv'
<1>1. /\ i \in PlotIds /\ dirty' = dirty \cup {i} /\ requests < MaxRequests
      /\ requests' = requests + 1 /\ UNCHANGED <<rows, listed, ops, raced, faults>>
      /\ plots' \in [PlotIds -> FarmPlots \cup {NoPlot}]
      /\ \A j \in PlotIds : j # i => plots'[j] = plots[j]
  BY DEF RegisterPlot, PlotIds, PlotsIInv, PlotsTypeOK, FarmPlots, PlotStatus
<1>2. PlotsTypeOK'
  <2>1. requests' \in 0..MaxRequests
    BY <1>1, PlotsAssumption DEF PlotsIInv, PlotsTypeOK
  <2> QED
    BY <1>1, <2>1 DEF PlotsIInv, PlotsTypeOK
<1>3. QuietPlotsMatch'
  BY <1>1 DEF PlotsIInv, QuietPlotsMatch, Busy
<1>4. OpsAgree'
  <2> SUFFICES ASSUME NEW o \in Ops, Pending(ops[o]), ops[o].id \notin dirty'
               PROVE  Agrees(ops[o], plots'[ops[o].id], rows[ops[o].id])
    BY <1>1 DEF OpsAgree, Pending
  <2>1. ops[o].id \in PlotIds /\ ops[o].id # i
    BY <1>1 DEF PlotsIInv, PlotsTypeOK, Pending, Requests
  <2> QED
    BY <1>1, <2>1 DEF PlotsIInv, OpsAgree
<1>5. OneWriter' /\ InspectedAreClear' /\ RowCodesUnique' /\ ActiveRowsDisjoint'
  BY <1>1 DEF PlotsIInv, OneWriter, InspectedAreClear, Collides, Pending, RowCodesUnique,
              ActiveRowsDisjoint, ActiveRows
<1> QED
  BY <1>2, <1>3, <1>4, <1>5 DEF PlotsIInv

LEMMA LoadAdminKeeps ==
    ASSUME PlotsIInv, LoadAdmin
    PROVE  PlotsIInv'
BY DEF LoadAdmin, PlotsIInv, PlotsTypeOK, QuietPlotsMatch, Busy, OneWriter, OpsAgree, Agrees,
       InspectedAreClear, Collides, Pending, RowCodesUnique, ActiveRowsDisjoint, ActiveRows

LEMMA RestartKeeps ==
    ASSUME PlotsIInv, Restart
    PROVE  PlotsIInv'
<1>1. /\ plots' = rows /\ rows' = rows /\ dirty' = {} /\ listed' = listed /\ raced' = raced
      /\ ops' = [o \in Ops |-> NoOp] /\ requests' = requests /\ faults < MaxFaults
      /\ faults' = faults + 1
  BY DEF Restart
<1>2. \A o \in Ops : ~Pending(ops'[o])
  BY <1>1 DEF Pending
<1>3. PlotsTypeOK'
  BY <1>1, PlotsAssumption DEF PlotsIInv, PlotsTypeOK
<1>4. QuietPlotsMatch' /\ OneWriter' /\ OpsAgree' /\ InspectedAreClear'
  BY <1>1, <1>2 DEF QuietPlotsMatch, OneWriter, OpsAgree, InspectedAreClear, Pending
<1>5. RowCodesUnique' /\ ActiveRowsDisjoint'
  BY <1>1 DEF PlotsIInv, RowCodesUnique, ActiveRowsDisjoint, ActiveRows
<1> QED
  BY <1>3, <1>4, <1>5 DEF PlotsIInv

(***************************************************************************)
(* The steps of a request.                                                 *)
(***************************************************************************)

LEMMA InspectKeeps ==
    ASSUME PlotsIInv, NEW o \in Ops, Inspect(o)
    PROVE  PlotsIInv'
<1> DEFINE op == IF Overlapping(ops[o].id, ops[o].plot.shape) = {}
                 THEN [ops[o] EXCEPT !.stage = "save"] ELSE NoOp
           i == ops[o].id
<1>1. /\ Pending(ops[o]) /\ ops[o].stage = "inspect" /\ ops[o] \in Requests /\ i \in PlotIds
      /\ UNCHANGED <<plots, rows, listed, raced, dirty, requests, faults>>
      /\ ops' = [ops EXCEPT ![o] = op]
  BY DEF Inspect, At, Moves, Ends, Pending, PlotsIInv, PlotsTypeOK, Requests
<1>2. op = NoOp \/ /\ op \in Requests /\ op.stage = "save" /\ op.id = i /\ op.kind = ops[o].kind
                   /\ op.plot = ops[o].plot /\ op.chosen = ops[o].chosen /\ op.fresh = ops[o].fresh
                   /\ Collides(rows, i, ops[o].plot.shape) = {}
  BY <1>1 DEF Requests, Stages, Overlapping, Collides, ActiveRows
<1> HIDE DEF op
<1>3. ops'[o] = op /\ \A p \in Ops : p # o => ops'[p] = ops[p]
  BY <1>1, OthersStay
<1>4. PlotsTypeOK'
  BY <1>1, <1>2, OthersStay DEF PlotsIInv, PlotsTypeOK
<1>5. OneWriter'
  BY <1>1, <1>2, WriterStays DEF Pending
<1>6. QuietPlotsMatch'
  <2> SUFFICES ASSUME NEW j \in PlotIds, j \notin dirty, ~Busy(j)'
               PROVE  plots[j] = rows[j]
    BY <1>1 DEF QuietPlotsMatch
  <2>1. CASE Busy(j)
    <3>1. j = i
      BY <1>3, <2>1 DEF Busy
    <3>2. Agrees(ops[o], plots[i], rows[i])
      BY <1>1, <3>1 DEF PlotsIInv, OpsAgree
    <3> QED
      BY <1>1, <3>1, <3>2 DEF Agrees
  <2>2. CASE ~Busy(j)
    BY <2>2 DEF PlotsIInv, QuietPlotsMatch
  <2> QED
    BY <2>1, <2>2
<1>7. OpsAgree'
  <2> SUFFICES ASSUME NEW p \in Ops, Pending(ops'[p]), ops'[p].id \notin dirty
               PROVE  Agrees(ops'[p], plots[ops'[p].id], rows[ops'[p].id])
    BY <1>1 DEF OpsAgree, Pending
  <2>1. CASE p = o
    <3>1. Agrees(ops[o], plots[i], rows[i])
      BY <1>1, <1>2, <1>3, <2>1 DEF PlotsIInv, OpsAgree, Pending
    <3> QED
      BY <1>1, <1>2, <1>3, <2>1, <3>1 DEF Agrees, Pending
  <2>2. CASE p # o
    BY <1>3, <2>2 DEF PlotsIInv, OpsAgree
  <2> QED
    BY <2>1, <2>2
<1>8. InspectedAreClear'
  <2> SUFFICES ASSUME NEW p \in Ops, Pending(ops'[p])
               PROVE  /\ ops'[p].kind = "mobile" => ops'[p].plot.status # "active"
                      /\ ops'[p].kind # "mobile" /\ ops'[p].stage \in {"save", "row"} =>
                            ops'[p].id \in raced
                            \/ Collides(rows, ops'[p].id, ops'[p].plot.shape) = {}
    BY <1>1 DEF InspectedAreClear, Pending, Collides
  <2>1. CASE p = o
    BY <1>1, <1>2, <1>3, <2>1 DEF PlotsIInv, InspectedAreClear, Pending
  <2>2. CASE p # o
    BY <1>3, <2>2 DEF PlotsIInv, InspectedAreClear
  <2> QED
    BY <2>1, <2>2
<1>9. RowCodesUnique' /\ ActiveRowsDisjoint'
  BY <1>1 DEF PlotsIInv, RowCodesUnique, ActiveRowsDisjoint, ActiveRows
<1> QED
  BY <1>4, <1>5, <1>6, <1>7, <1>8, <1>9 DEF PlotsIInv

LEMMA SavePlotKeeps ==
    ASSUME PlotsIInv, NEW o \in Ops, SavePlot(o)
    PROVE  PlotsIInv'
<1> DEFINE op == [ops[o] EXCEPT !.stage = "row"]
           i == ops[o].id
<1>1. /\ Pending(ops[o]) /\ ops[o].stage = "save" /\ ops[o] \in Requests /\ i \in PlotIds
      /\ ops[o].plot \in FarmPlots /\ plots' = [plots EXCEPT ![i] = ops[o].plot]
      /\ UNCHANGED <<rows, listed, raced, dirty, requests, faults>>
      /\ ops' = [ops EXCEPT ![o] = op]
  BY DEF SavePlot, At, Moves, Pending, PlotsIInv, PlotsTypeOK, Requests
<1>2. /\ op \in Requests /\ op.stage = "row" /\ op.id = i /\ op.kind = ops[o].kind
      /\ op.plot = ops[o].plot /\ op.chosen = ops[o].chosen /\ op.fresh = ops[o].fresh /\ Pending(op)
  <2>1. /\ op \in Requests /\ op.stage = "row" /\ op.id = i /\ op.kind = ops[o].kind
        /\ op.plot = ops[o].plot /\ op.chosen = ops[o].chosen /\ op.fresh = ops[o].fresh
    BY <1>1 DEF Requests, Stages
  <2> QED
    BY <2>1, PlotsAssumption DEF Pending
<1> HIDE DEF op
<1>3. ops'[o] = op /\ \A p \in Ops : p # o => ops'[p] = ops[p]
  BY <1>1, OthersStay
<1>4. /\ plots'[i] = op.plot /\ plots' \in [PlotIds -> FarmPlots \cup {NoPlot}]
      /\ \A j \in PlotIds : j # i => plots'[j] = plots[j]
  BY <1>1, <1>2 DEF PlotsIInv, PlotsTypeOK
<1>5. PlotsTypeOK'
  BY <1>1, <1>2, <1>4, OthersStay DEF PlotsIInv, PlotsTypeOK
<1>6. OneWriter'
  BY <1>1, <1>2, WriterStays
<1>7. QuietPlotsMatch'
  <2> SUFFICES ASSUME NEW j \in PlotIds, j \notin dirty, ~Busy(j)'
               PROVE  plots'[j] = rows[j]
    BY <1>1 DEF QuietPlotsMatch
  <2>1. j # i
    BY <1>2, <1>3 DEF Busy, Pending
  <2>2. ~Busy(j)
    BY <1>3, <2>1 DEF Busy
  <2> QED
    BY <1>4, <2>1, <2>2 DEF PlotsIInv, QuietPlotsMatch
<1>8. OpsAgree'
  <2> SUFFICES ASSUME NEW p \in Ops, Pending(ops'[p]), ops'[p].id \notin dirty
               PROVE  Agrees(ops'[p], plots'[ops'[p].id], rows[ops'[p].id])
    BY <1>1 DEF OpsAgree, Pending
  <2>1. CASE p = o
    <3>1. Agrees(ops[o], plots[i], rows[i])
      BY <1>1, <1>2, <1>3, <2>1 DEF PlotsIInv, OpsAgree
    <3> QED
      BY <1>2, <1>3, <1>4, <2>1, <3>1 DEF Agrees
  <2>2. CASE p # o
    <3>1. ops'[p] = ops[p] /\ ops[p].id \in PlotIds
      BY <1>3, <2>2 DEF PlotsIInv, PlotsTypeOK, Pending, Requests
    <3>2. ops[p].id # i
      BY <1>1, <2>2, <3>1 DEF PlotsIInv, OneWriter
    <3> QED
      BY <1>4, <3>1, <3>2 DEF PlotsIInv, OpsAgree
  <2> QED
    BY <2>1, <2>2
<1>9. InspectedAreClear'
  <2> SUFFICES ASSUME NEW p \in Ops, Pending(ops'[p])
               PROVE  /\ ops'[p].kind = "mobile" => ops'[p].plot.status # "active"
                      /\ ops'[p].kind # "mobile" /\ ops'[p].stage \in {"save", "row"} =>
                            ops'[p].id \in raced
                            \/ Collides(rows, ops'[p].id, ops'[p].plot.shape) = {}
    BY <1>1 DEF InspectedAreClear, Pending, Collides
  <2>1. CASE p = o
    BY <1>1, <1>2, <1>3, <2>1 DEF PlotsIInv, InspectedAreClear
  <2>2. CASE p # o
    BY <1>3, <2>2 DEF PlotsIInv, InspectedAreClear
  <2> QED
    BY <2>1, <2>2
<1>10. RowCodesUnique' /\ ActiveRowsDisjoint'
  BY <1>1 DEF PlotsIInv, RowCodesUnique, ActiveRowsDisjoint, ActiveRows
<1> QED
  BY <1>5, <1>6, <1>7, <1>8, <1>9, <1>10 DEF PlotsIInv

\* The row: the other requests past their inspection are raced from now on.
LEMMA RowWrittenKeeps ==
    ASSUME PlotsIInv, NEW o \in Ops, RowWritten(o)
    PROVE  PlotsIInv'
<1> DEFINE op == IF ops[o].kind = "mobile" THEN NoOp ELSE [ops[o] EXCEPT !.stage = "audit"]
           i == ops[o].id
           plot == ops[o].plot
<1>1. /\ Pending(ops[o]) /\ ops[o].stage = "row" /\ ops[o] \in Requests /\ i \in PlotIds
      /\ plot \in FarmPlots /\ CodeFree(i, plot.code)
      /\ rows' = [rows EXCEPT ![i] = plot] /\ raced' = raced \cup Inspected(i)
      /\ UNCHANGED <<plots, listed, dirty, requests, faults>>
      /\ ops' = [ops EXCEPT ![o] = op]
  BY DEF RowWritten, At, Moves, Ends, Pending, PlotsIInv, PlotsTypeOK, Requests
<1>2. op \in Requests \cup {NoOp} /\ ~Pending(op)
  BY <1>1 DEF Requests, Stages, Pending
<1> HIDE DEF op
<1>3. ops'[o] = op /\ \A p \in Ops : p # o => ops'[p] = ops[p]
  BY <1>1, OthersStay
<1>4. /\ rows'[i] = plot /\ rows' \in [PlotIds -> FarmPlots \cup {NoPlot}]
      /\ \A j \in PlotIds : j # i => rows'[j] = rows[j]
  BY <1>1 DEF PlotsIInv, PlotsTypeOK
<1>5. \A p \in Ops : Pending(ops[p]) => ops[p] \in Requests /\ ops[p].id \in PlotIds
  BY DEF PlotsIInv, PlotsTypeOK, Pending, Requests
<1>6. PlotsTypeOK'
  <2>1. Inspected(i) \subseteq PlotIds
    BY <1>5 DEF Inspected, Pending
  <2>2. ops' \in [Ops -> Requests \cup {NoOp}]
    BY <1>1, <1>2, OthersStay
  <2> QED
    BY <1>1, <1>4, <2>1, <2>2 DEF PlotsIInv, PlotsTypeOK
<1>7. OneWriter'
  BY <1>1, <1>2, WriterStays
<1>8. QuietPlotsMatch'
  <2> SUFFICES ASSUME NEW j \in PlotIds, j \notin dirty, ~Busy(j)'
               PROVE  plots[j] = rows'[j]
    BY <1>1 DEF QuietPlotsMatch
  <2>1. CASE j = i
    <3>1. Agrees(ops[o], plots[i], rows[i])
      BY <1>1, <2>1 DEF PlotsIInv, OpsAgree
    <3> QED
      BY <1>1, <1>4, <2>1, <3>1 DEF Agrees
  <2>2. CASE j # i
    <3>1. ~Busy(j)
      BY <1>3, <2>2 DEF Busy
    <3> QED
      BY <1>4, <2>2, <3>1 DEF PlotsIInv, QuietPlotsMatch
  <2> QED
    BY <2>1, <2>2
<1>9. OpsAgree'
  <2> SUFFICES ASSUME NEW p \in Ops, Pending(ops'[p]), ops'[p].id \notin dirty
               PROVE  Agrees(ops'[p], plots[ops'[p].id], rows'[ops'[p].id])
    BY <1>1 DEF OpsAgree, Pending
  <2>1. p # o /\ ops'[p] = ops[p]
    BY <1>2, <1>3
  <2>2. ops[p].id \in PlotIds /\ ops[p].id # i
    BY <1>1, <1>5, <2>1 DEF PlotsIInv, OneWriter
  <2> QED
    BY <1>4, <2>1, <2>2 DEF PlotsIInv, OpsAgree
<1>10. \A shape : Collides(rows', i, shape) = Collides(rows, i, shape)
  BY <1>4 DEF Collides
<1>11. InspectedAreClear'
  <2> SUFFICES ASSUME NEW p \in Ops, Pending(ops'[p])
               PROVE  /\ ops'[p].kind = "mobile" => ops'[p].plot.status # "active"
                      /\ ops'[p].kind # "mobile" /\ ops'[p].stage \in {"save", "row"} =>
                            ops'[p].id \in raced'
                            \/ Collides(rows', ops'[p].id, ops'[p].plot.shape) = {}
    BY <1>1 DEF InspectedAreClear, Pending, Collides
  <2>1. ops'[p] = ops[p]
    BY <1>2, <1>3
  <2>2. CASE ops[p].id = i
    <3>1. Collides(rows', ops'[p].id, ops'[p].plot.shape)
             = Collides(rows, ops[p].id, ops[p].plot.shape)
      BY <1>10, <2>1, <2>2
    <3>2. Pending(ops[p]) /\ raced \subseteq raced'
      BY <1>1, <2>1
    <3> QED
      BY <2>1, <3>1, <3>2 DEF PlotsIInv, InspectedAreClear
  <2>3. CASE ops[p].id # i
    <3>1. ops[p].kind # "mobile" /\ ops[p].stage \in {"save", "row"} => ops[p].id \in Inspected(i)
      BY <2>1, <2>3 DEF Inspected, Pending
    <3> QED
      BY <1>1, <2>1, <3>1 DEF PlotsIInv, InspectedAreClear
  <2> QED
    BY <2>2, <2>3
<1>12. RowCodesUnique'
  BY <1>1, <1>4 DEF PlotsIInv, RowCodesUnique, CodeFree
<1>13. ActiveRowsDisjoint'
  <2>1. \A k \in PlotIds : k # i /\ rows[k] # NoPlot /\ rows[k].status = "active"
                           /\ plot.status = "active" /\ rows[k].shape \cap plot.shape # {} =>
                               i \in raced
    <3> SUFFICES ASSUME NEW k \in PlotIds, k # i, rows[k] # NoPlot, rows[k].status = "active",
                        plot.status = "active", rows[k].shape \cap plot.shape # {}
                 PROVE  i \in raced
      OBVIOUS
    <3>1. k \in Collides(rows, i, plot.shape)
      BY DEF Collides
    <3> QED
      BY <1>1, <3>1 DEF PlotsIInv, InspectedAreClear
  <2> SUFFICES ASSUME NEW j \in PlotIds, NEW k \in PlotIds, j # k,
                      rows'[j] # NoPlot, rows'[j].status = "active",
                      rows'[k] # NoPlot, rows'[k].status = "active",
                      rows'[j].shape \cap rows'[k].shape # {}
               PROVE  {j, k} \cap raced' # {}
    BY DEF ActiveRowsDisjoint, ActiveRows
  <2>2. CASE j # i /\ k # i
    BY <1>1, <1>4, <2>2 DEF PlotsIInv, ActiveRowsDisjoint, ActiveRows
  <2>3. CASE j = i
    BY <1>1, <1>4, <2>1, <2>3
  <2>4. CASE k = i
    <3>1. rows'[k].shape \cap rows'[j].shape # {}
      OBVIOUS
    <3> QED
      BY <1>1, <1>4, <2>1, <2>4, <3>1
  <2> QED
    BY <2>2, <2>3, <2>4
<1> QED
  BY <1>6, <1>7, <1>8, <1>9, <1>11, <1>12, <1>13 DEF PlotsIInv

LEMMA RowRefusedKeeps ==
    ASSUME PlotsIInv, NEW o \in Ops, RowRefused(o)
    PROVE  PlotsIInv'
<1> DEFINE i == ops[o].id
<1>1. /\ Pending(ops[o]) /\ i \in PlotIds /\ dirty' = dirty \cup {i}
      /\ UNCHANGED <<plots, rows, listed, raced, requests>>
      /\ ops' = [ops EXCEPT ![o] = NoOp]
      /\ faults' = faults \/ (faults < MaxFaults /\ faults' = faults + 1)
  <2>1. ops[o] # NoOp /\ ops[o].stage = "row" /\ ops[o] \in Requests /\ i \in PlotIds
    BY DEF RowRefused, At, PlotsIInv, PlotsTypeOK, Requests
  <2>2. faults' = faults \/ (faults < MaxFaults /\ faults' = faults + 1)
    BY DEF RowRefused
  <2> QED
    BY <2>1, <2>2 DEF RowRefused, Ends, Pending
<1>2. ops'[o] = NoOp /\ \A p \in Ops : p # o => ops'[p] = ops[p]
  BY <1>1, OthersStay
<1>3. \A p \in Ops : Pending(ops'[p]) => ops'[p] = ops[p]
  BY <1>2 DEF Pending
<1>4. PlotsTypeOK'
  <2>1. ops' \in [Ops -> Requests \cup {NoOp}]
    BY <1>1, OthersStay
  <2>2. faults' \in 0..MaxFaults
    BY <1>1, PlotsAssumption DEF PlotsIInv, PlotsTypeOK
  <2> QED
    BY <1>1, <2>1, <2>2 DEF PlotsIInv, PlotsTypeOK
<1>5. OneWriter'
  BY <1>1, WriterStays DEF Pending
<1>6. QuietPlotsMatch'
  <2> SUFFICES ASSUME NEW j \in PlotIds, j \notin dirty', ~Busy(j)'
               PROVE  plots[j] = rows[j]
    BY <1>1 DEF QuietPlotsMatch
  <2>1. j # i /\ ~Busy(j)
    BY <1>1, <1>2 DEF Busy
  <2> QED
    BY <1>1, <2>1 DEF PlotsIInv, QuietPlotsMatch
<1>7. OpsAgree' /\ InspectedAreClear'
  BY <1>1, <1>3 DEF PlotsIInv, OpsAgree, InspectedAreClear, Collides
<1>8. RowCodesUnique' /\ ActiveRowsDisjoint'
  BY <1>1 DEF PlotsIInv, RowCodesUnique, ActiveRowsDisjoint, ActiveRows
<1> QED
  BY <1>4, <1>5, <1>6, <1>7, <1>8 DEF PlotsIInv

LEMMA AuditKeeps ==
    ASSUME PlotsIInv, NEW o \in Ops, Audit(o)
    PROVE  PlotsIInv'
<1>1. /\ ops[o].stage = "audit" /\ ops' = [ops EXCEPT ![o] = NoOp]
      /\ UNCHANGED <<plots, rows, listed, raced, dirty, requests, faults>>
  BY DEF Audit, At, Ends
<1>2. ops'[o] = NoOp /\ \A p \in Ops : p # o => ops'[p] = ops[p]
  BY <1>1, OthersStay
<1>3. \A p \in Ops : (Pending(ops'[p]) <=> Pending(ops[p])) /\ (Pending(ops[p]) => ops'[p] = ops[p])
  BY <1>1, <1>2 DEF Pending
<1>4. PlotsTypeOK'
  BY <1>1, OthersStay DEF PlotsIInv, PlotsTypeOK
<1>5. \A j \in PlotIds : Busy(j)' <=> Busy(j)
  BY <1>3 DEF Busy, Pending
<1>6. QuietPlotsMatch'
  BY <1>1, <1>5 DEF PlotsIInv, QuietPlotsMatch
<1>7. OneWriter'
  BY <1>1, WriterStays DEF Pending
<1>8. OpsAgree' /\ InspectedAreClear'
  BY <1>1, <1>3 DEF PlotsIInv, OpsAgree, InspectedAreClear, Collides
<1>9. RowCodesUnique' /\ ActiveRowsDisjoint'
  BY <1>1 DEF PlotsIInv, RowCodesUnique, ActiveRowsDisjoint, ActiveRows
<1> QED
  BY <1>4, <1>6, <1>7, <1>8, <1>9 DEF PlotsIInv

LEMMA StepKeeps ==
    ASSUME PlotsIInv, [PlotsNext]_plotsVars
    PROVE  PlotsIInv'
<1>1. CASE UNCHANGED plotsVars
  BY <1>1 DEF plotsVars, PlotsIInv, PlotsTypeOK, QuietPlotsMatch, Busy, OneWriter, OpsAgree, Agrees,
              InspectedAreClear, Collides, Pending, RowCodesUnique, ActiveRowsDisjoint, ActiveRows
<1>2. CASE LoadAdmin \/ Restart
  BY <1>2, LoadAdminKeeps, RestartKeeps
<1>3. CASE \E o \in Ops, i \in AdminIds, plot \in FarmPlots : CreatePlot(o, i, plot)
  BY <1>3, CreatePlotKeeps
<1>4. CASE \E o \in Ops, i \in PlotIds, plot \in FarmPlots : SaveForm(o, i, plot)
  BY <1>4, SaveFormKeeps
<1>5. CASE \E o \in Ops, i \in PlotIds, status \in {"active", "inactive"} : SetStatus(o, i, status)
  <2>1. {"active", "inactive"} \subseteq PlotStatus
    BY DEF PlotStatus
  <2> QED
    BY <1>5, <2>1, SetStatusKeeps
<1>6. CASE \E o \in Ops, i \in RandomIds, code \in Codes, shape \in Shapes :
              MobilePlot(o, i, code, shape)
  BY <1>6, MobilePlotKeeps
<1>7. CASE \E i \in RandomIds, code \in Codes, shape \in Shapes : RegisterPlot(i, code, shape)
  BY <1>7, RegisterPlotKeeps
<1>8. CASE \E o \in Ops : Inspect(o) \/ SavePlot(o) \/ RowWritten(o) \/ RowRefused(o) \/ Audit(o)
  BY <1>8, InspectKeeps, SavePlotKeeps, RowWrittenKeeps, RowRefusedKeeps, AuditKeeps
<1> QED
  BY <1>1, <1>2, <1>3, <1>4, <1>5, <1>6, <1>7, <1>8 DEF PlotsNext

(***************************************************************************)
(* Theorems.                                                               *)
(***************************************************************************)

\* Two plots of the map nothing is said against are two rows, and the
\* database lets no two rows have one code.
LEMMA CodesFollow ==
    ASSUME PlotsIInv
    PROVE  CodesSettle
<1> SUFFICES ASSUME NEW i \in Known, NEW j \in Known, i # j, plots[i].code = plots[j].code,
                    i \notin dirty, ~Busy(i), j \notin dirty, ~Busy(j)
             PROVE  FALSE
  BY DEF CodesSettle
<1>1. i \in PlotIds /\ j \in PlotIds /\ plots[i] # NoPlot /\ plots[j] # NoPlot
  BY DEF Known
<1>2. plots[i] = rows[i] /\ plots[j] = rows[j]
  BY <1>1 DEF PlotsIInv, QuietPlotsMatch
<1> QED
  BY <1>1, <1>2 DEF PlotsIInv, RowCodesUnique

\* The map and the table farm_plots agree where no write is under way or
\* failed, two active plots overlap only if they raced, and two plots share a
\* code only while one of them is on its way to the table.
THEOREM PlotsFitTogether == PlotsSpec => []PlotsInv
<1>1. PlotsIInv => PlotsInv
  BY CodesFollow DEF PlotsIInv, PlotsInv
<1> QED
  BY <1>1, PlotsInitially, StepKeeps, PTL DEF PlotsSpec

\* What EditsKeepTheRest says of a step.
RestIsKept ==
    \A i \in PlotIds \ dirty, field \in Fields :
        rows[i] # NoPlot /\ rows'[i][field] # rows[i][field] =>
            \E o \in Ops : /\ ops[o] # NoOp /\ ops[o].id = i
                           /\ \/ field \in ops[o].chosen
                              \/ ops[o].kind = "form" /\ ~ops[o].fresh

LEMMA OnlyRowWrittenWrites ==
    ASSUME [PlotsNext]_plotsVars
    PROVE  rows' = rows \/ \E o \in Ops : RowWritten(o)
BY DEF PlotsNext, plotsVars, LoadAdmin, Restart, CreatePlot, SaveForm, SetStatus, MobilePlot, RegisterPlot,
       Inspect, SavePlot, RowRefused, Audit

LEMMA StepKeepsRest ==
    ASSUME PlotsIInv, [PlotsNext]_plotsVars
    PROVE  RestIsKept
<1> SUFFICES ASSUME NEW i \in PlotIds \ dirty, NEW field \in Fields, rows[i] # NoPlot,
                    rows'[i][field] # rows[i][field]
             PROVE  \E o \in Ops : /\ ops[o] # NoOp /\ ops[o].id = i
                                   /\ \/ field \in ops[o].chosen
                                      \/ ops[o].kind = "form" /\ ~ops[o].fresh
  BY DEF RestIsKept
<1>1. PICK o \in Ops : RowWritten(o)
  BY OnlyRowWrittenWrites
<1>2. /\ Pending(ops[o]) /\ ops[o].stage = "row" /\ ops[o] \in Requests
      /\ rows' = [rows EXCEPT ![ops[o].id] = ops[o].plot]
  BY <1>1 DEF RowWritten, At, Pending, PlotsIInv, PlotsTypeOK
<1>3. ops[o].id = i /\ rows'[i] = ops[o].plot
  BY <1>2 DEF PlotsIInv, PlotsTypeOK
<1>4. Agrees(ops[o], plots[i], rows[i])
  BY <1>2, <1>3 DEF PlotsIInv, OpsAgree
<1>5. \/ field \in ops[o].chosen
      \/ ops[o].kind = "form" /\ ~ops[o].fresh
  BY <1>3, <1>4 DEF Agrees
<1> QED
  BY <1>2, <1>3, <1>5 DEF Pending

\* No edit undoes another one unless its form was old or writes of the plot
\* overlapped or failed, whatever lies between the page and the row.
THEOREM EditsUndoNothing == PlotsSpec => EditsKeepTheRest
<1>1. PlotsIInv /\ [PlotsNext]_plotsVars => RestIsKept
  BY StepKeepsRest
<1>2. PlotsIInv /\ [PlotsNext]_plotsVars => PlotsIInv'
  BY StepKeeps
<1> QED
  BY <1>1, <1>2, PlotsInitially, PTL DEF PlotsSpec, EditsKeepTheRest, RestIsKept

(***************************************************************************)
(* Accounts.                                                               *)
(***************************************************************************)

\* A request whose write of an actor is still to come.
Due(op) == op # NoWrite /\ op.kind # "audit"

\* It writes an actor the map has.
WritersAreKnown == \A o \in Writers : Due(writes[o]) => actors[writes[o].id] # NoActor

\* It is the only one, unless the actor is soiled.
LoneWriter ==
    \A o, p \in Writers : Due(writes[o]) /\ Due(writes[p]) /\ writes[o].id = writes[p].id =>
        o = p \/ writes[o].id \in soiled

\* What the updates of AuthService write, given the row.
Updated(kind, new, row) ==
    IF kind = "phone" THEN [row EXCEPT !.phone = new.phone] ELSE [row EXCEPT !.status = new.status]

\* What it writes is the actor of the map, also when it writes one column.
AccountAgrees(op, actor, row) ==
    /\ op.row = actor
    /\ op.kind \in {"phone", "close"} => row # NoActor /\ op.row = Updated(op.kind, op.row, row)

WritesAgree ==
    \A o \in Writers : Due(writes[o]) /\ writes[o].id \notin soiled =>
        AccountAgrees(writes[o], actors[writes[o].id], table[writes[o].id])

\* What is about to be audited is stored.
AuditsAreStored ==
    \A o \in Writers : writes[o] # NoWrite /\ writes[o].kind = "audit" => table[writes[o].id] # NoActor

\* A page waits for the creation of an actor of its own person.
AskingWaits ==
    \A p \in People : asking[p] # NoWrite =>
        /\ writes[asking[p]] # NoWrite
        /\ writes[asking[p]].kind \in {"plot", "create"} /\ writes[asking[p]].row.who = p

\* The contacts of an actor are those of the person it was made for, or none.
HasContacts(row) ==
    row.phone \in {PhoneOf[row.who], NoPhone} /\ row.zalo \in {ZaloOf[row.who], NoZalo, Blank}

\* So are those of an actor nobody edited.
ContactsKept == \A i \in KnownIds : i \notin edited \cup soiled => HasContacts(actors[i])

\* A device's account is its person's, whether it is active or not.
AccountsKept ==
    \A p \in People : account[p] \in AllIds /\ account[p] \notin edited \cup soiled =>
        actors[account[p]] # NoActor /\ actors[account[p]].who = p

RegistryIInv ==
    /\ RegistryTypeOK
    /\ QuietRowsMatch /\ WritersAreKnown /\ LoneWriter /\ WritesAgree
    /\ AuditsAreStored /\ AuditedIsStored
    /\ AskingWaits /\ ContactsKept /\ AccountsKept /\ ActiveContactsUnique

\* Two actors that can be told apart neither by phone nor by Zalo id.
Alike(i, a, j, b) ==
    \/ /\ a.phone # NoPhone /\ a.phone = b.phone
       /\ RoleOf[a.who] = RoleOf[b.who] /\ i \notin UuidIds /\ j \notin UuidIds
    \/ a.zalo \notin {NoZalo, Blank} /\ a.zalo = b.zalo

LEMMA ContactsUniqueMeans ==
    ActiveContactsUnique <=>
        \A i, j \in AllIds :
            /\ actors[i] # NoActor /\ actors[i].status = "active" /\ i \notin edited \cup soiled
            /\ actors[j] # NoActor /\ actors[j].status = "active" /\ j \notin edited \cup soiled
            /\ i # j
            => ~Alike(i, actors[i], j, actors[j])
BY DEF ActiveContactsUnique, Active, KnownIds, Alike, RoleOfId

LEMMA RegistryInitially == RegistryInit => RegistryIInv
<1> SUFFICES ASSUME RegistryInit PROVE RegistryIInv
  OBVIOUS
<1>1. /\ \A i \in AllIds : actors[i] = NoActor
      /\ table = actors /\ logs = {} /\ edited = {} /\ soiled = {}
      /\ \A o \in Writers : writes[o] = NoWrite
      /\ \A p \in People : asking[p] = NoWrite /\ account[p] = NoAccount
  BY DEF RegistryInit
<1>2. RegistryTypeOK
  BY RegistryAssumption DEF RegistryInit, RegistryTypeOK
<1>3. QuietRowsMatch /\ WritersAreKnown /\ LoneWriter /\ WritesAgree /\ AuditsAreStored
      /\ AuditedIsStored /\ AskingWaits
  BY <1>1 DEF QuietRowsMatch, WritersAreKnown, LoneWriter, WritesAgree, AuditsAreStored,
              AuditedIsStored, AskingWaits, Due
<1>4. ContactsKept /\ AccountsKept /\ ActiveContactsUnique
  BY <1>1, RegistryAssumption DEF ContactsKept, AccountsKept, ActiveContactsUnique, KnownIds, Active
<1> QED
  BY <1>2, <1>3, <1>4 DEF RegistryIInv

(***************************************************************************)
(* What the steps have in common.                                          *)
(***************************************************************************)

\* The other requests stay as they are.
LEMMA OtherAccountsStay ==
    ASSUME RegistryIInv, NEW o \in Writers, NEW op, writes' = [writes EXCEPT ![o] = op]
    PROVE  /\ writes'[o] = op
           /\ \A p \in Writers : p # o => writes'[p] = writes[p]
           /\ op \in Writes \cup {NoWrite} => writes' \in [Writers -> Writes \cup {NoWrite}]
BY DEF RegistryIInv, RegistryTypeOK

\* What the fields of a request are.
LEMMA RequestFields ==
    ASSUME RegistryIInv, NEW o \in Writers, writes[o] # NoWrite
    PROVE  /\ writes[o] \in Writes /\ writes[o].kind \in WriteKinds /\ writes[o].id \in AllIds
           /\ writes[o].row \in Actors
BY DEF RegistryIInv, RegistryTypeOK, Writes

\* Nobody waits for a request that is not there.
LEMMA NobodyWaits ==
    ASSUME RegistryIInv, NEW o \in Writers, writes[o] = NoWrite, NEW p \in People
    PROVE  asking[p] # o
BY RegistryAssumption DEF RegistryIInv, AskingWaits

\* A request that begins to write an actor: the map has the new actor, and
\* what is not soiled or edited by the step is as the invariant wants it.
LEMMA BeginWriteKeeps ==
    ASSUME RegistryIInv, NEW o \in Writers, NEW kind \in WriteKinds \ {"audit"}, NEW i \in AllIds,
           NEW row \in Actors, BeginWrite(o, kind, i, row), UNCHANGED <<table, account, logs, failures>>,
           soiled \subseteq soiled', soiled' \subseteq soiled \cup {i},
           edited \subseteq edited', edited' \subseteq edited \cup {i},
           Writing(i) => i \in soiled',
           kind \in {"phone", "close"} =>
               actors[i] # NoActor /\ row = Updated(kind, row, actors[i]),
           \/ asking' = asking
           \/ \E p \in People : /\ asking' = [asking EXCEPT ![p] = o]
                                /\ kind \in {"plot", "create"} /\ row.who = p,
           i \notin edited' \cup soiled' =>
               /\ HasContacts(row)
               /\ actors[i] # NoActor => row.who = actors[i].who
               /\ row.status = "active" =>
                     \A j \in Active \ {i} : ~Alike(i, row, j, actors[j])
    PROVE  RegistryIInv'
<1> DEFINE op == [kind |-> kind, id |-> i, row |-> row]
<1>1. /\ writes[o] = NoWrite /\ writes' = [writes EXCEPT ![o] = op]
      /\ posts < MaxPosts /\ posts' = posts + 1
      /\ actors' = [actors EXCEPT ![i] = row]
  BY DEF BeginWrite
<1>2. op \in Writes /\ op.kind = kind /\ op.id = i /\ op.row = row /\ op # NoWrite /\ Due(op)
  <2>1. op \in Writes
    BY DEF Writes
  <2> QED
    BY <2>1, RegistryAssumption DEF Due
<1> HIDE DEF op
<1>3. /\ writes'[o] = op /\ (\A p \in Writers : p # o => writes'[p] = writes[p])
      /\ writes' \in [Writers -> Writes \cup {NoWrite}]
  BY <1>1, <1>2, OtherAccountsStay
<1>4. /\ actors'[i] = row /\ \A j \in AllIds : j # i => actors'[j] = actors[j]
      /\ actors' \in [AllIds -> Actors \cup {NoActor}] /\ row # NoActor
  BY <1>1, RegistryAssumption DEF RegistryIInv, RegistryTypeOK
<1>5. \A p \in Writers : Due(writes[p]) /\ writes[p].id = i => i \in soiled'
  BY DEF Writing, Due
<1>6. RegistryTypeOK'
  <2>1. posts' \in 0..MaxPosts
    BY <1>1, RegistryAssumption DEF RegistryIInv, RegistryTypeOK
  <2>2. asking' \in [People -> Writers \cup {NoWrite}]
    BY DEF RegistryIInv, RegistryTypeOK
  <2>3. soiled' \subseteq AllIds /\ edited' \subseteq AllIds
    BY DEF RegistryIInv, RegistryTypeOK
  <2> QED
    BY <1>3, <1>4, <2>1, <2>2, <2>3 DEF RegistryIInv, RegistryTypeOK
<1>7. QuietRowsMatch'
  <2> SUFFICES ASSUME NEW j \in AllIds, j \notin soiled', ~Writing(j)'
               PROVE  actors'[j] = table[j]
    BY DEF QuietRowsMatch
  <2>1. j # i
    BY <1>2, <1>3 DEF Writing, Due
  <2>2. ~Writing(j)
    BY <1>1, <1>3 DEF Writing
  <2> QED
    BY <1>4, <2>1, <2>2 DEF RegistryIInv, QuietRowsMatch
<1>8. WritersAreKnown'
  <2> SUFFICES ASSUME NEW p \in Writers, Due(writes'[p])
               PROVE  actors'[writes'[p].id] # NoActor
    BY DEF WritersAreKnown, Due
  <2>1. CASE p = o
    BY <1>2, <1>3, <1>4, <2>1
  <2>2. CASE p # o
    <3>1. writes'[p] = writes[p] /\ writes[p].id \in AllIds /\ actors[writes[p].id] # NoActor
      BY <1>3, <2>2, RequestFields DEF RegistryIInv, WritersAreKnown, Due
    <3> QED
      BY <1>4, <3>1
  <2> QED
    BY <2>1, <2>2
<1>9. LoneWriter'
  <2> SUFFICES ASSUME NEW p \in Writers, NEW q \in Writers, Due(writes'[p]), Due(writes'[q]),
                      writes'[p].id = writes'[q].id, p # q
               PROVE  writes'[p].id \in soiled'
    BY DEF LoneWriter, Due
  <2>1. CASE p # o /\ q # o
    BY <1>3, <2>1 DEF RegistryIInv, LoneWriter
  <2>2. CASE p = o \/ q = o
    BY <1>2, <1>3, <1>5, <2>2
  <2> QED
    BY <2>1, <2>2
<1>10. WritesAgree'
  <2> SUFFICES ASSUME NEW p \in Writers, Due(writes'[p]), writes'[p].id \notin soiled'
               PROVE  AccountAgrees(writes'[p], actors'[writes'[p].id], table[writes'[p].id])
    BY DEF WritesAgree, Due
  <2>1. CASE p = o
    <3>1. i \notin soiled /\ ~Writing(i)
      BY <1>2, <1>3, <2>1
    <3>2. actors[i] = table[i]
      BY <3>1 DEF RegistryIInv, QuietRowsMatch
    <3> QED
      BY <1>2, <1>3, <1>4, <2>1, <3>2 DEF AccountAgrees
  <2>2. CASE p # o
    <3>1. writes'[p] = writes[p] /\ writes[p].id \in AllIds /\ writes[p].id # i
      BY <1>3, <1>5, <2>2, RequestFields DEF Due
    <3> QED
      BY <1>4, <3>1 DEF RegistryIInv, WritesAgree
  <2> QED
    BY <2>1, <2>2
<1>11. AuditsAreStored' /\ AuditedIsStored'
  BY <1>2, <1>3 DEF RegistryIInv, AuditsAreStored, AuditedIsStored, Due
<1>12. AskingWaits'
  <2> SUFFICES ASSUME NEW p \in People, asking'[p] # NoWrite
               PROVE  /\ writes'[asking'[p]] # NoWrite
                      /\ writes'[asking'[p]].kind \in {"plot", "create"}
                      /\ writes'[asking'[p]].row.who = p
    BY DEF AskingWaits
  <2>1. CASE asking'[p] = asking[p]
    <3>1. asking[p] \in Writers /\ asking[p] # o
      BY <1>1, <2>1, NobodyWaits DEF RegistryIInv, RegistryTypeOK
    <3> QED
      BY <1>3, <2>1, <3>1 DEF RegistryIInv, AskingWaits
  <2>2. CASE asking'[p] # asking[p]
    <3>1. asking'[p] = o /\ kind \in {"plot", "create"} /\ row.who = p
      BY <2>2 DEF RegistryIInv, RegistryTypeOK
    <3> QED
      BY <1>2, <1>3, <3>1
  <2> QED
    BY <2>1, <2>2
<1>13. ContactsKept'
  BY <1>4 DEF RegistryIInv, ContactsKept, KnownIds
<1>14. AccountsKept'
  <2> SUFFICES ASSUME NEW p \in People, account[p] \in AllIds, account[p] \notin edited' \cup soiled'
               PROVE  actors'[account[p]] # NoActor /\ actors'[account[p]].who = p
    BY DEF AccountsKept
  <2>1. actors[account[p]] # NoActor /\ actors[account[p]].who = p
    BY DEF RegistryIInv, AccountsKept
  <2> QED
    BY <1>4, <2>1
<1>15. ActiveContactsUnique'
  <2>1. \A j, k \in AllIds :
            /\ actors'[j] # NoActor /\ actors'[j].status = "active" /\ j \notin edited' \cup soiled'
            /\ actors'[k] # NoActor /\ actors'[k].status = "active" /\ k \notin edited' \cup soiled'
            /\ j # k
            => ~Alike(j, actors'[j], k, actors'[k])
    <3> SUFFICES ASSUME NEW j \in AllIds, NEW k \in AllIds, j # k,
                        actors'[j] # NoActor, actors'[j].status = "active",
                        actors'[k] # NoActor, actors'[k].status = "active",
                        j \notin edited' \cup soiled', k \notin edited' \cup soiled'
                 PROVE  ~Alike(j, actors'[j], k, actors'[k])
      OBVIOUS
    <3>1. CASE j # i /\ k # i
      BY <1>4, <3>1, ContactsUniqueMeans DEF RegistryIInv
    <3>2. CASE j = i
      <4>1. k \in Active \ {i}
        BY <1>4, <3>2 DEF Active, KnownIds
      <4> QED
        BY <1>4, <3>2, <4>1
    <3>3. CASE k = i
      <4>1. j \in Active \ {i}
        BY <1>4, <3>3 DEF Active, KnownIds
      <4>2. ~Alike(k, actors'[k], j, actors'[j])
        BY <1>4, <3>3, <4>1
      <4> QED
        BY <4>2 DEF Alike
    <3> QED
      BY <3>1, <3>2, <3>3
  <2> QED
    BY <2>1 DEF ActiveContactsUnique, Active, KnownIds, Alike, RoleOfId
<1> QED
  BY <1>6, <1>7, <1>8, <1>9, <1>10, <1>11, <1>12, <1>13, <1>14, <1>15 DEF RegistryIInv

(***************************************************************************)
(* Requests that write an actor.                                           *)
(***************************************************************************)

\* The actor made for a person has a type and that person's contacts.
LEMMA NewIsActor ==
    ASSUME NEW p \in People, NEW phone \in {PhoneOf[p], NoPhone},
           NEW zalo \in {ZaloOf[p], NoZalo, Blank}
    PROVE  LET row == New(p, phone, zalo)
           IN  /\ row \in Actors /\ row.who = p /\ row.status = "active"
               /\ row.phone = phone /\ row.zalo = zalo /\ HasContacts(row)
BY DEF New, Actors, Phones, Zalos, HasContacts

LEMMA IdsAreIds ==
    ASSUME NEW p \in People
    PROVE  Ids[RoleOf[p]] \subseteq AllIds
BY RegistryAssumption DEF AllIds

\* A person no active actor is found for gets one, whatever has its id.
LEMMA CreateKeeps ==
    ASSUME RegistryIInv, NEW o \in Writers, NEW p \in People, NEW kind \in {"plot", "create"},
           NEW phone \in {PhoneOf[p], NoPhone}, NEW zalo \in {ZaloOf[p], NoZalo},
           phone # NoPhone => ByPhone(p) = {}, zalo # NoZalo => ByZalo(p) = {},
           Create(o, p, kind, New(p, phone, zalo))
    PROVE  RegistryIInv'
<1> DEFINE row == New(p, phone, zalo)
<1>1. PICK i \in Ids[RoleOf[p]] : /\ BeginWrite(o, kind, i, row)
                                  /\ soiled' = IF actors[i] = NoActor THEN soiled ELSE soiled \cup {i}
  BY DEF Create
<1>2. i \in AllIds
  BY <1>1, IdsAreIds
<1>3. asking' = [asking EXCEPT ![p] = o] /\ UNCHANGED <<table, account, logs, edited, failures>>
  BY DEF Create
<1>4. Writing(i) => i \in soiled'
  BY <1>1 DEF RegistryIInv, WritersAreKnown, Writing, Due
<1>row. /\ row \in Actors /\ row.who = p /\ row.status = "active"
        /\ row.phone = phone /\ row.zalo = zalo /\ HasContacts(row)
  BY NewIsActor
<1> HIDE DEF row
<1>5. \A j \in Active \ {i} : ~Alike(i, row, j, actors[j])
  <2> SUFFICES ASSUME NEW j \in Active, Alike(i, row, j, actors[j])
               PROVE  FALSE
    OBVIOUS
  <2>1. CASE phone # NoPhone /\ phone = actors[j].phone /\ RoleOf[p] = RoleOf[actors[j].who]
    <3>1. j \in ByPhone(p)
      BY <2>1 DEF ByPhone, RoleOfId
    <3> QED
      BY <2>1, <3>1
  <2>2. CASE zalo # NoZalo /\ zalo = actors[j].zalo
    <3>1. j \in ByZalo(p)
      BY <2>2 DEF ByZalo
    <3> QED
      BY <2>2, <3>1
  <2> QED
    BY <1>row, <2>1, <2>2 DEF Alike
<1>6. i \notin edited' \cup soiled' =>
          /\ HasContacts(row)
          /\ actors[i] # NoActor => row.who = actors[i].who
  BY <1>1, <1>row
<1>7. kind \in WriteKinds \ {"audit"} /\ kind \notin {"phone", "close"}
  BY DEF WriteKinds
<1> QED
  BY <1>1, <1>2, <1>3, <1>4, <1>5, <1>6, <1>7, <1>row, BeginWriteKeeps, ZenonT(60)

LEMMA RegistrationKeeps ==
    ASSUME RegistryIInv, NEW o \in Writers, NEW p \in People,
           RegisterFarmer(o, p) \/ RegisterCollector(o, p) \/ ExchangeZaloToken(o, p)
    PROVE  RegistryIInv'
<1>1. CASE RegisterFarmer(o, p)
  BY <1>1, CreateKeeps DEF RegisterFarmer
<1>2. CASE RegisterCollector(o, p)
  BY <1>2, CreateKeeps DEF RegisterCollector
<1>3. CASE ExchangeZaloToken(o, p)
  BY <1>3, CreateKeeps DEF ExchangeZaloToken
<1> QED
  BY <1>1, <1>2, <1>3

LEMMA UpdateProfileKeeps ==
    ASSUME RegistryIInv, NEW o \in Writers, NEW p \in People, NEW phone \in Phones \ {NoPhone},
           UpdateProfile(o, p, phone)
    PROVE  RegistryIInv'
<1> DEFINE i == account[p]
           row == [actors[i] EXCEPT !.phone = phone]
<1>1. i \in AllIds /\ actors[i] # NoActor /\ actors[i] \in Actors
  BY DEF UpdateProfile, Verified, Active, KnownIds, RegistryIInv, RegistryTypeOK
<1>2. row \in Actors /\ row = Updated("phone", row, actors[i])
  BY <1>1 DEF Actors, Updated
<1>3. /\ BeginWrite(o, "phone", i, row) /\ UNCHANGED <<table, asking, account, logs, failures>>
      /\ edited' = edited \cup {i} /\ soiled' = IF Writing(i) THEN soiled \cup {i} ELSE soiled
  BY DEF UpdateProfile, Soil
<1> HIDE DEF row, i
<1> QED
  BY <1>1, <1>2, <1>3, BeginWriteKeeps DEF WriteKinds

LEMMA DeleteProfileKeeps ==
    ASSUME RegistryIInv, NEW o \in Writers, NEW p \in People, DeleteProfile(o, p)
    PROVE  RegistryIInv'
<1> DEFINE i == account[p]
           row == [actors[i] EXCEPT !.status = "inactive"]
<1>1. i \in AllIds /\ actors[i] # NoActor /\ actors[i] \in Actors
  BY DEF DeleteProfile, Verified, Active, KnownIds, RegistryIInv, RegistryTypeOK
<1>2. /\ row \in Actors /\ row = Updated("close", row, actors[i]) /\ row.status # "active"
      /\ row.who = actors[i].who /\ row.phone = actors[i].phone /\ row.zalo = actors[i].zalo
  BY <1>1 DEF Actors, Updated
<1>3. /\ BeginWrite(o, "close", i, row) /\ UNCHANGED <<table, asking, account, logs, edited, failures>>
      /\ soiled' = IF Writing(i) THEN soiled \cup {i} ELSE soiled
  BY DEF DeleteProfile, Soil
<1>4. i \notin edited \cup soiled => HasContacts(row)
  BY <1>1, <1>2 DEF RegistryIInv, ContactsKept, KnownIds, HasContacts
<1> HIDE DEF row, i
<1> QED
  BY <1>1, <1>2, <1>3, <1>4, BeginWriteKeeps DEF WriteKinds

\* An actor of the administrator may share a phone, not a Zalo id.
LEMMA AdminCreateKeeps ==
    ASSUME RegistryIInv, NEW o \in Writers, NEW p \in People,
           NEW zalo \in {ZaloOf[p], Blank}, AdminCreate(o, p, zalo)
    PROVE  RegistryIInv'
<1> DEFINE row == New(p, PhoneOf[p], zalo)
<1>1. PICK i \in UuidIds : i \notin KnownIds /\ ZaloAllowed(i, zalo) /\ BeginWrite(o, "upsert", i, row)
  BY DEF AdminCreate
<1>2. i \in AllIds /\ actors[i] = NoActor
  BY <1>1 DEF AllIds, KnownIds
<1>3. UNCHANGED <<table, asking, account, logs, edited, soiled, failures>>
  BY DEF AdminCreate
<1>4. ~Writing(i)
  BY <1>2 DEF RegistryIInv, WritersAreKnown, Writing, Due
<1>row. /\ row \in Actors /\ row.who = p /\ row.zalo = zalo /\ HasContacts(row)
  BY NewIsActor
<1> HIDE DEF row
<1>5. \A j \in Active \ {i} : ~Alike(i, row, j, actors[j])
  BY <1>1, <1>row DEF Alike, ZaloAllowed, Active
<1> QED
  BY <1>1, <1>2, <1>3, <1>4, <1>5, <1>row, BeginWriteKeeps DEF WriteKinds

LEMMA AdminUpdateKeeps ==
    ASSUME RegistryIInv, NEW o \in Writers, NEW i \in KnownIds, NEW status \in {"active", "inactive"},
           NEW phone \in (Phones \ {NoPhone}) \cup {actors[i].phone},
           NEW zalo \in (Zalos \ {NoZalo}) \cup {actors[i].zalo, Blank},
           AdminUpdate(o, i, phone, zalo, status)
    PROVE  RegistryIInv'
<1> DEFINE row == [actors[i] EXCEPT !.phone = phone, !.zalo = zalo, !.status = status]
<1>1. i \in AllIds /\ actors[i] # NoActor /\ actors[i] \in Actors
  BY DEF KnownIds, RegistryIInv, RegistryTypeOK
<1>2. row \in Actors
  BY <1>1 DEF Actors
<1>3. /\ BeginWrite(o, "upsert", i, row) /\ UNCHANGED <<table, asking, account, logs, failures>>
      /\ edited' = edited \cup {i} /\ soiled' = IF Writing(i) THEN soiled \cup {i} ELSE soiled
  BY DEF AdminUpdate, Soil
<1> HIDE DEF row
<1> QED
  BY <1>1, <1>2, <1>3, BeginWriteKeeps DEF WriteKinds

(***************************************************************************)
(* Sessions of the devices.                                                *)
(***************************************************************************)

\* An active actor found for a person nobody edited is that person's.
LEMMA MatchIsHolder ==
    ASSUME RegistryIInv, NEW p \in People, NEW i \in ByPhone(p) \cup ByZalo(p),
           i \notin edited \cup soiled
    PROVE  actors[i] # NoActor /\ actors[i].who = p
<1>1. i \in KnownIds /\ actors[i] # NoActor /\ actors[i] \in Actors
  BY DEF ByPhone, ByZalo, Active, KnownIds, RegistryIInv, RegistryTypeOK
<1>2. actors[i].who \in People
  BY <1>1 DEF Actors
<1>3. HasContacts(actors[i])
  BY <1>1 DEF RegistryIInv, ContactsKept
<1>contacts. \A q \in People : q # p =>
                 /\ RoleOf[q] = RoleOf[p] => PhoneOf[q] # PhoneOf[p] \/ PhoneOf[q] = NoPhone
                 /\ ZaloOf[q] # ZaloOf[p] \/ ZaloOf[q] = NoZalo
  BY RegistryAssumption
<1>4. CASE i \in ByPhone(p)
  <2>1. /\ PhoneOf[p] # NoPhone /\ PhoneOf[actors[i].who] = PhoneOf[p]
        /\ RoleOf[actors[i].who] = RoleOf[p]
    BY <1>3, <1>4 DEF ByPhone, HasContacts, RoleOfId
  <2> QED
    BY <1>1, <1>2, <1>contacts, <2>1
<1>5. CASE i \in ByZalo(p)
  <2>1. ZaloOf[p] \in Zalos
    BY DEF Zalos
  <2>2. ZaloOf[p] # NoZalo /\ ZaloOf[actors[i].who] = ZaloOf[p]
    BY <1>3, <1>5, <2>1, RegistryAssumption DEF ByZalo, HasContacts
  <2> QED
    BY <1>1, <1>2, <1>contacts, <2>2
<1> QED
  BY <1>1, <1>4, <1>5

LEMMA ExistingKeeps ==
    ASSUME RegistryIInv, NEW p \in People, Existing(p)
    PROVE  RegistryIInv'
<1>1. PICK i \in ByPhone(p) \cup ByZalo(p) : account' = [account EXCEPT ![p] = i]
  BY DEF Existing
<1>2. UNCHANGED <<actors, table, writes, asking, logs, edited, soiled, posts, failures>>
  BY DEF Existing
<1>3. i \in AllIds
  BY DEF ByPhone, ByZalo, Active, KnownIds
<1>4. RegistryTypeOK'
  BY <1>1, <1>2, <1>3 DEF RegistryIInv, RegistryTypeOK
<1>5. AccountsKept'
  <2> SUFFICES ASSUME NEW q \in People, account'[q] \in AllIds, account'[q] \notin edited \cup soiled
               PROVE  actors[account'[q]] # NoActor /\ actors[account'[q]].who = q
    BY <1>2 DEF AccountsKept
  <2>1. CASE q = p
    BY <1>1, <2>1, MatchIsHolder DEF RegistryIInv, RegistryTypeOK
  <2>2. CASE q # p
    BY <1>1, <2>2 DEF RegistryIInv, RegistryTypeOK, AccountsKept
  <2> QED
    BY <2>1, <2>2
<1>6. /\ QuietRowsMatch' /\ WritersAreKnown' /\ LoneWriter' /\ WritesAgree' /\ AuditsAreStored'
      /\ AuditedIsStored' /\ AskingWaits' /\ ContactsKept' /\ ActiveContactsUnique'
  BY <1>2 DEF RegistryIInv, QuietRowsMatch, Writing, WritersAreKnown, LoneWriter, WritesAgree,
              Due, AuditsAreStored, AuditedIsStored, AskingWaits, ContactsKept, KnownIds,
              ActiveContactsUnique, Active, RoleOfId
<1> QED
  BY <1>4, <1>5, <1>6 DEF RegistryIInv

LEMMA LocalAccountKeeps ==
    ASSUME RegistryIInv, NEW p \in People, LocalAccount(p)
    PROVE  RegistryIInv'
<1>1. /\ account' = [account EXCEPT ![p] = Local] /\ asking' = [asking EXCEPT ![p] = NoWrite]
      /\ UNCHANGED <<actors, table, writes, logs, edited, soiled, posts, failures>>
  BY DEF LocalAccount
<1>2. RegistryTypeOK'
  BY <1>1 DEF RegistryIInv, RegistryTypeOK
<1>3. AccountsKept' /\ AskingWaits'
  BY <1>1, RegistryAssumption DEF RegistryIInv, RegistryTypeOK, AccountsKept, AskingWaits
<1>4. /\ QuietRowsMatch' /\ WritersAreKnown' /\ LoneWriter' /\ WritesAgree' /\ AuditsAreStored'
      /\ AuditedIsStored' /\ ContactsKept' /\ ActiveContactsUnique'
  BY <1>1 DEF RegistryIInv, QuietRowsMatch, Writing, WritersAreKnown, LoneWriter, WritesAgree,
              Due, AuditsAreStored, AuditedIsStored, ContactsKept, KnownIds,
              ActiveContactsUnique, Active, RoleOfId
<1> QED
  BY <1>2, <1>3, <1>4 DEF RegistryIInv

(***************************************************************************)
(* The database.                                                           *)
(***************************************************************************)

\* A request that goes on or ends, and whose actor may become soiled, leaves
\* the parts of the invariant that do not read the rows.
LEMMA GoesOnKeeps ==
    ASSUME RegistryIInv, NEW o \in Writers, writes[o] # NoWrite, NEW op, writes' = [writes EXCEPT ![o] = op],
           Due(op) => Due(writes[o]) /\ op.id = writes[o].id,
           actors' = actors, edited' = edited, soiled \subseteq soiled',
           \A p \in People : asking'[p] # NoWrite =>
               /\ asking'[p] = asking[p]
               /\ asking[p] = o => op # NoWrite /\ op.kind \in {"plot", "create"} /\ op.row = writes[o].row,
           \A p \in People : account'[p] # account[p] =>
               account'[p] = writes[o].id /\ asking[p] = o /\ Due(writes[o])
    PROVE  /\ WritersAreKnown' /\ LoneWriter' /\ AskingWaits' /\ ContactsKept' /\ AccountsKept'
           /\ ActiveContactsUnique'
<1>1. writes'[o] = op /\ \A p \in Writers : p # o => writes'[p] = writes[p]
  BY OtherAccountsStay
<1>2. \A p \in Writers : Due(writes'[p]) => Due(writes[p]) /\ writes'[p].id = writes[p].id
  BY <1>1
<1>3. WritersAreKnown' /\ LoneWriter'
  BY <1>2 DEF RegistryIInv, WritersAreKnown, LoneWriter, Due
<1>4. AskingWaits'
  <2> SUFFICES ASSUME NEW p \in People, asking'[p] # NoWrite
               PROVE  /\ writes'[asking'[p]] # NoWrite
                      /\ writes'[asking'[p]].kind \in {"plot", "create"}
                      /\ writes'[asking'[p]].row.who = p
    BY DEF AskingWaits
  <2>1. asking'[p] = asking[p] /\ asking[p] \in Writers
    BY DEF RegistryIInv, RegistryTypeOK
  <2>2. /\ writes[asking[p]] # NoWrite /\ writes[asking[p]].kind \in {"plot", "create"}
        /\ writes[asking[p]].row.who = p
    BY <2>1 DEF RegistryIInv, AskingWaits
  <2> QED
    BY <1>1, <2>1, <2>2
<1>5. ContactsKept' /\ ActiveContactsUnique'
  BY DEF RegistryIInv, ContactsKept, ActiveContactsUnique, Active, KnownIds, RoleOfId
<1>6. AccountsKept'
  <2> SUFFICES ASSUME NEW p \in People, account'[p] \in AllIds, account'[p] \notin edited \cup soiled
               PROVE  actors[account'[p]] # NoActor /\ actors[account'[p]].who = p
    BY DEF AccountsKept
  <2>1. CASE account'[p] = account[p]
    BY <2>1 DEF RegistryIInv, AccountsKept
  <2>2. CASE account'[p] # account[p]
    <3>1. account'[p] = writes[o].id /\ asking[p] = o /\ Due(writes[o])
      BY <2>2
    <3>2. writes[o].row.who = p
      BY <3>1, RegistryAssumption DEF RegistryIInv, AskingWaits
    <3>3. actors[writes[o].id] # NoActor /\ writes[o].row = actors[writes[o].id]
      BY <3>1 DEF RegistryIInv, WritersAreKnown, WritesAgree, AccountAgrees
    <3> QED
      BY <3>1, <3>2, <3>3
  <2> QED
    BY <2>1, <2>2
<1> QED
  BY <1>3, <1>4, <1>5, <1>6

\* What the answer to a request does to the devices.
LEMMA ReplyKeeps ==
    ASSUME RegistryIInv, NEW o \in Writers, Reply(o, writes[o].id)
    PROVE  /\ \A p \in People : asking'[p] # NoWrite => asking'[p] = asking[p] /\ asking[p] # o
           /\ \A p \in People : account'[p] # account[p] =>
                  account'[p] = writes[o].id /\ asking[p] = o
           /\ asking' \in [People -> Writers \cup {NoWrite}]
           /\ writes[o].id \in AllIds => account' \in [People -> AllIds \cup {NoAccount, Local}]
BY DEF Reply, RegistryIInv, RegistryTypeOK

\* A request that is refused or given up makes its actor soiled.
LEMMA EndsDirtyKeeps ==
    ASSUME RegistryIInv, NEW o \in Writers, Due(writes[o]), writes' = [writes EXCEPT ![o] = NoWrite],
           soiled' = soiled \cup {writes[o].id}, UNCHANGED <<actors, table, logs, edited, posts>>,
           failures' \in 0..MaxFailures,
           \A p \in People : asking'[p] # NoWrite => asking'[p] = asking[p] /\ asking[p] # o,
           \A p \in People : account'[p] # account[p] => account'[p] = writes[o].id /\ asking[p] = o,
           asking' \in [People -> Writers \cup {NoWrite}],
           account' \in [People -> AllIds \cup {NoAccount, Local}]
    PROVE  RegistryIInv'
<1>1. writes'[o] = NoWrite /\ \A p \in Writers : p # o => writes'[p] = writes[p]
  BY OtherAccountsStay
<1>2. \A p \in Writers : writes'[p] # NoWrite => writes'[p] = writes[p]
  BY <1>1
<1>3. RegistryTypeOK'
  <2>1. writes' \in [Writers -> Writes \cup {NoWrite}] /\ soiled' \subseteq AllIds
    BY OtherAccountsStay, RequestFields DEF RegistryIInv, RegistryTypeOK, Due
  <2> QED
    BY <2>1 DEF RegistryIInv, RegistryTypeOK
<1>4. QuietRowsMatch'
  <2> SUFFICES ASSUME NEW j \in AllIds, j \notin soiled', ~Writing(j)'
               PROVE  actors[j] = table[j]
    BY DEF QuietRowsMatch
  <2>1. j # writes[o].id /\ ~Writing(j)
    BY <1>1 DEF Writing
  <2> QED
    BY <2>1 DEF RegistryIInv, QuietRowsMatch
<1>5. /\ WritersAreKnown' /\ LoneWriter' /\ AskingWaits' /\ ContactsKept' /\ AccountsKept'
      /\ ActiveContactsUnique'
  BY GoesOnKeeps DEF Due
<1>6. WritesAgree' /\ AuditsAreStored' /\ AuditedIsStored'
  BY <1>2 DEF RegistryIInv, WritesAgree, Due, AuditsAreStored, AuditedIsStored
<1> QED
  BY <1>3, <1>4, <1>5, <1>6 DEF RegistryIInv

LEMMA PlotRejectedKeeps ==
    ASSUME RegistryIInv, NEW o \in Writers, PlotRejected(o)
    PROVE  RegistryIInv'
<1>1. /\ writes[o] # NoWrite /\ writes[o].kind = "plot" /\ Due(writes[o]) /\ writes[o] \in Writes
      /\ UNCHANGED <<actors, table, account, logs, edited, posts, failures>>
  BY RequestFields DEF PlotRejected, Due
<1>2. CASE writes' = [writes EXCEPT ![o].kind = "create"] /\ UNCHANGED <<asking, soiled>>
  <2> DEFINE op == [writes[o] EXCEPT !.kind = "create"]
  <2>1. op \in Writes /\ op.kind = "create" /\ op.id = writes[o].id /\ op.row = writes[o].row
    BY <1>1 DEF Writes, WriteKinds
  <2>2. writes' = [writes EXCEPT ![o] = op] /\ op # NoWrite /\ Due(op)
    BY <1>2, <2>1, RegistryAssumption DEF Due
  <2> HIDE DEF op
  <2>3. writes'[o] = op /\ (\A p \in Writers : p # o => writes'[p] = writes[p])
        /\ writes' \in [Writers -> Writes \cup {NoWrite}]
    BY <2>1, <2>2, OtherAccountsStay
  <2>4. RegistryTypeOK'
    BY <1>1, <1>2, <2>3 DEF RegistryIInv, RegistryTypeOK
  <2>5. QuietRowsMatch'
    <3>1. \A j \in AllIds : Writing(j)' <=> Writing(j)
      BY <1>1, <2>1, <2>2, <2>3 DEF Writing, Due
    <3> QED
      BY <1>1, <1>2, <3>1 DEF RegistryIInv, QuietRowsMatch
  <2>6. /\ WritersAreKnown' /\ LoneWriter' /\ AskingWaits' /\ ContactsKept' /\ AccountsKept'
        /\ ActiveContactsUnique'
    BY <1>1, <1>2, <2>1, <2>2, GoesOnKeeps
  <2>7. WritesAgree'
    BY <1>1, <1>2, <2>1, <2>2, <2>3 DEF RegistryIInv, WritesAgree, AccountAgrees, Due
  <2>8. AuditsAreStored' /\ AuditedIsStored'
    BY <1>1, <2>1, <2>3 DEF RegistryIInv, AuditsAreStored, AuditedIsStored
  <2> QED
    BY <2>4, <2>5, <2>6, <2>7, <2>8 DEF RegistryIInv
<1>3. CASE /\ writes' = [writes EXCEPT ![o] = NoWrite]
           /\ asking' = [p \in People |-> IF asking[p] = o THEN NoWrite ELSE asking[p]]
           /\ soiled' = soiled \cup {writes[o].id}
  <2>1. /\ \A p \in People : asking'[p] # NoWrite => asking'[p] = asking[p] /\ asking[p] # o
        /\ asking' \in [People -> Writers \cup {NoWrite}]
        /\ account' \in [People -> AllIds \cup {NoAccount, Local}] /\ failures' \in 0..MaxFailures
    BY <1>1, <1>3 DEF RegistryIInv, RegistryTypeOK
  <2> QED
    BY <1>1, <1>3, <2>1, EndsDirtyKeeps
<1> QED
  BY <1>2, <1>3 DEF PlotRejected

LEMMA ActorRowRefusedKeeps ==
    ASSUME RegistryIInv, NEW o \in Writers, ActorRowRefused(o)
    PROVE  RegistryIInv'
<1>1. Due(writes[o]) /\ writes[o].id \in AllIds
  BY RequestFields DEF ActorRowRefused, IsWrite, Due
<1>2. /\ writes' = [writes EXCEPT ![o] = NoWrite] /\ soiled' = soiled \cup {writes[o].id}
      /\ UNCHANGED <<actors, table, logs, edited, posts>> /\ Reply(o, writes[o].id)
  BY DEF ActorRowRefused
<1>3. failures' \in 0..MaxFailures
  <2>1. failures' = failures \/ (failures < MaxFailures /\ failures' = failures + 1)
    BY DEF ActorRowRefused
  <2> QED
    BY <2>1, RegistryAssumption DEF RegistryIInv, RegistryTypeOK
<1> QED
  BY <1>1, <1>2, <1>3, ReplyKeeps, EndsDirtyKeeps

\* What is written is an actor, and the actor of the map unless it is soiled.
LEMMA WrittenIsActor ==
    ASSUME RegistryIInv, NEW o \in Writers, IsWrite(o), Possible(writes[o])
    PROVE  /\ Written(writes[o]) \in Actors
           /\ writes[o].id \notin soiled => Written(writes[o]) = actors[writes[o].id]
<1>1. /\ writes[o].kind \in {"create", "phone", "close", "upsert"} /\ writes[o] \in Writes
      /\ writes[o].id \in AllIds /\ writes[o].row \in Actors /\ Due(writes[o])
  BY RequestFields DEF IsWrite, Due
<1>2. writes[o].id \notin soiled => AccountAgrees(writes[o], actors[writes[o].id], table[writes[o].id])
  BY <1>1 DEF RegistryIInv, WritesAgree
<1>3. CASE writes[o].kind \in {"create", "upsert"}
  BY <1>1, <1>2, <1>3 DEF Written, AccountAgrees
<1>4. CASE writes[o].kind = "phone"
  <2>1. table[writes[o].id] \in Actors
    BY <1>1, <1>4 DEF Possible, RegistryIInv, RegistryTypeOK
  <2>2. Written(writes[o]) = [table[writes[o].id] EXCEPT !.phone = writes[o].row.phone]
    BY <1>4 DEF Written
  <2> QED
    BY <1>1, <1>2, <1>4, <2>1, <2>2 DEF Actors, AccountAgrees, Updated
<1>5. CASE writes[o].kind = "close"
  <2>1. table[writes[o].id] \in Actors
    BY <1>1, <1>5 DEF Possible, RegistryIInv, RegistryTypeOK
  <2>2. Written(writes[o]) = [table[writes[o].id] EXCEPT !.status = writes[o].row.status]
    BY <1>5 DEF Written
  <2> QED
    BY <1>1, <1>2, <1>5, <2>1, <2>2 DEF Actors, AccountAgrees, Updated
<1> QED
  BY <1>1, <1>3, <1>4, <1>5

LEMMA ActorRowWrittenKeeps ==
    ASSUME RegistryIInv, NEW o \in Writers, ActorRowWritten(o)
    PROVE  RegistryIInv'
<1> DEFINE i == writes[o].id
           op == IF writes[o].kind = "upsert" THEN [writes[o] EXCEPT !.kind = "audit"] ELSE NoWrite
           row == Written(writes[o])
<1>1. /\ Due(writes[o]) /\ writes[o] # NoWrite /\ writes[o] \in Writes /\ i \in AllIds
      /\ writes' = [writes EXCEPT ![o] = op] /\ table' = [table EXCEPT ![i] = row]
      /\ Reply(o, i) /\ UNCHANGED <<actors, logs, edited, soiled, posts, failures>>
  BY RequestFields DEF ActorRowWritten, IsWrite, Due, Done
<1>2. row \in Actors /\ row # NoActor /\ (i \notin soiled => row = actors[i])
  BY WrittenIsActor, RegistryAssumption DEF ActorRowWritten
<1>3. /\ op \in Writes \cup {NoWrite} /\ ~Due(op) /\ (op # NoWrite => op.id = i)
  BY <1>1 DEF Writes, WriteKinds, Due
<1> HIDE DEF op, row
<1>4. /\ writes'[o] = op /\ (\A p \in Writers : p # o => writes'[p] = writes[p])
      /\ writes' \in [Writers -> Writes \cup {NoWrite}]
  BY <1>1, <1>3, OtherAccountsStay
<1>5. /\ table'[i] = row /\ table' \in [AllIds -> Actors \cup {NoActor}]
      /\ \A j \in AllIds : j # i => table'[j] = table[j]
  BY <1>1, <1>2 DEF RegistryIInv, RegistryTypeOK
<1>6. RegistryTypeOK'
  BY <1>1, <1>4, <1>5, ReplyKeeps DEF RegistryIInv, RegistryTypeOK
<1>7. QuietRowsMatch'
  <2> SUFFICES ASSUME NEW j \in AllIds, j \notin soiled, ~Writing(j)'
               PROVE  actors[j] = table'[j]
    BY <1>1 DEF QuietRowsMatch
  <2>1. CASE j = i
    BY <1>2, <1>5, <2>1
  <2>2. CASE j # i
    <3>1. ~Writing(j)
      BY <1>4, <2>2 DEF Writing
    <3> QED
      BY <1>5, <2>2, <3>1 DEF RegistryIInv, QuietRowsMatch
  <2> QED
    BY <2>1, <2>2
<1>8. /\ WritersAreKnown' /\ LoneWriter' /\ AskingWaits' /\ ContactsKept' /\ AccountsKept'
      /\ ActiveContactsUnique'
  <2>1. /\ \A p \in People : asking'[p] # NoWrite => asking'[p] = asking[p] /\ asking[p] # o
        /\ \A p \in People : account'[p] # account[p] => account'[p] = writes[o].id /\ asking[p] = o
    BY <1>1, ReplyKeeps
  <2>2. /\ Due(op) => Due(writes[o]) /\ op.id = writes[o].id
        /\ actors' = actors /\ edited' = edited /\ soiled \subseteq soiled'
    BY <1>1, <1>3
  <2> HIDE DEF i
  <2> QED
    BY <1>1, <2>1, <2>2, GoesOnKeeps
<1>9. WritesAgree'
  <2> SUFFICES ASSUME NEW p \in Writers, Due(writes'[p]), writes'[p].id \notin soiled
               PROVE  AccountAgrees(writes'[p], actors[writes'[p].id], table'[writes'[p].id])
    BY <1>1 DEF WritesAgree, Due
  <2>1. p # o /\ writes'[p] = writes[p]
    BY <1>3, <1>4
  <2>2. writes[p].id \in AllIds /\ writes[p].id # i
    BY <1>1, <2>1, RequestFields DEF RegistryIInv, LoneWriter, Due
  <2> QED
    BY <1>5, <2>1, <2>2 DEF RegistryIInv, WritesAgree
<1>10. \A j \in AllIds : table[j] # NoActor => table'[j] # NoActor
  BY <1>2, <1>5
<1>11. AuditsAreStored'
  <2> SUFFICES ASSUME NEW p \in Writers, writes'[p] # NoWrite, writes'[p].kind = "audit"
               PROVE  table'[writes'[p].id] # NoActor
    BY DEF AuditsAreStored
  <2>1. CASE p = o
    BY <1>2, <1>3, <1>4, <1>5, <2>1
  <2>2. CASE p # o
    BY <1>4, <1>10, <2>2, RequestFields DEF RegistryIInv, AuditsAreStored
  <2> QED
    BY <2>1, <2>2
<1>12. AuditedIsStored'
  BY <1>1, <1>10 DEF RegistryIInv, RegistryTypeOK, AuditedIsStored
<1> QED
  BY <1>6, <1>7, <1>8, <1>9, <1>11, <1>12 DEF RegistryIInv

LEMMA AuditActorKeeps ==
    ASSUME RegistryIInv, NEW o \in Writers, AuditActor(o)
    PROVE  RegistryIInv'
<1>1. /\ writes[o] # NoWrite /\ writes[o].kind = "audit" /\ writes' = [writes EXCEPT ![o] = NoWrite]
      /\ logs' = logs \cup {writes[o].id} /\ ~Due(writes[o]) /\ writes[o].id \in AllIds
      /\ UNCHANGED <<actors, table, asking, account, edited, soiled, posts, failures>>
  BY RequestFields DEF AuditActor, Due
<1>2. /\ writes'[o] = NoWrite /\ (\A p \in Writers : p # o => writes'[p] = writes[p])
      /\ writes' \in [Writers -> Writes \cup {NoWrite}]
  BY <1>1, OtherAccountsStay
<1>3. RegistryTypeOK'
  BY <1>1, <1>2 DEF RegistryIInv, RegistryTypeOK
<1>4. QuietRowsMatch'
  <2>1. \A j \in AllIds : Writing(j)' <=> Writing(j)
    BY <1>1, <1>2 DEF Writing
  <2> QED
    BY <1>1, <2>1 DEF RegistryIInv, QuietRowsMatch
<1>5. \A p \in People : asking[p] # o
  BY <1>1, RegistryAssumption DEF RegistryIInv, AskingWaits
<1>6. /\ WritersAreKnown' /\ LoneWriter' /\ AskingWaits' /\ ContactsKept' /\ AccountsKept'
      /\ ActiveContactsUnique'
  BY <1>1, <1>5, GoesOnKeeps DEF Due
<1>7. WritesAgree' /\ AuditsAreStored' /\ AuditedIsStored'
  BY <1>1, <1>2 DEF RegistryIInv, WritesAgree, Due, AuditsAreStored, AuditedIsStored
<1> QED
  BY <1>3, <1>4, <1>6, <1>7 DEF RegistryIInv

\* Where a restart finds no write under way, map and table agreed.
LEMMA HydrateActorsKeeps ==
    ASSUME RegistryIInv, HydrateActors
    PROVE  RegistryIInv'
<1>1. /\ actors' = table /\ writes' = [o \in Writers |-> NoWrite] /\ asking' = [p \in People |-> NoWrite]
      /\ soiled' = soiled \cup {i \in AllIds : Writing(i)}
      /\ failures < MaxFailures /\ failures' = failures + 1
      /\ UNCHANGED <<table, account, logs, edited, posts>>
  BY DEF HydrateActors
<1>2. \A i \in AllIds : i \notin soiled' => i \notin soiled /\ actors'[i] = actors[i]
  BY <1>1 DEF RegistryIInv, QuietRowsMatch
<1>3. RegistryTypeOK'
  <2>1. failures' \in 0..MaxFailures
    BY <1>1, RegistryAssumption DEF RegistryIInv, RegistryTypeOK
  <2>2. writes' \in [Writers -> Writes \cup {NoWrite}] /\ asking' \in [People -> Writers \cup {NoWrite}]
        /\ soiled' \subseteq AllIds
    BY <1>1 DEF RegistryIInv, RegistryTypeOK
  <2> QED
    BY <1>1, <2>1, <2>2 DEF RegistryIInv, RegistryTypeOK
<1>4. /\ QuietRowsMatch' /\ WritersAreKnown' /\ LoneWriter' /\ WritesAgree' /\ AuditsAreStored'
      /\ AskingWaits'
  BY <1>1 DEF QuietRowsMatch, WritersAreKnown, LoneWriter, WritesAgree, AuditsAreStored, AskingWaits,
              Due
<1>5. AuditedIsStored' /\ ContactsKept' /\ AccountsKept'
  BY <1>1, <1>2 DEF RegistryIInv, AuditedIsStored, ContactsKept, AccountsKept, KnownIds
<1>6. ActiveContactsUnique'
  BY <1>1, <1>2 DEF RegistryIInv, ActiveContactsUnique, Active, KnownIds, RoleOfId
<1> QED
  BY <1>3, <1>4, <1>5, <1>6 DEF RegistryIInv

LEMMA RegistryStepKeeps ==
    ASSUME RegistryIInv, [RegistryNext]_registryVars
    PROVE  RegistryIInv'
<1>1. CASE UNCHANGED registryVars
  BY <1>1 DEF registryVars, RegistryIInv, RegistryTypeOK, QuietRowsMatch, Writing, WritersAreKnown, LoneWriter,
              WritesAgree, Due, AuditsAreStored, AuditedIsStored, AskingWaits, ContactsKept,
              AccountsKept, KnownIds, ActiveContactsUnique, Active, RoleOfId
<1>2. CASE RegistryNext
  <2>1. CASE \E p \in People : Existing(p) \/ LocalAccount(p)
    BY <2>1, ExistingKeeps, LocalAccountKeeps
  <2>2. CASE \E o \in Writers, p \in People :
                \/ RegisterFarmer(o, p) \/ RegisterCollector(o, p) \/ ExchangeZaloToken(o, p)
                \/ DeleteProfile(o, p)
                \/ \E zalo \in {ZaloOf[p], Blank} : AdminCreate(o, p, zalo)
    BY <2>2, RegistrationKeeps, DeleteProfileKeeps, AdminCreateKeeps
  <2>3. CASE \E o \in Writers, p \in People, phone \in Phones \ {NoPhone} : UpdateProfile(o, p, phone)
    BY <2>3, UpdateProfileKeeps
  <2>4. CASE \E o \in Writers, i \in KnownIds, status \in {"active", "inactive"} :
                \E phone \in (Phones \ {NoPhone}) \cup {actors[i].phone},
                   zalo \in (Zalos \ {NoZalo}) \cup {actors[i].zalo, Blank} :
                      AdminUpdate(o, i, phone, zalo, status)
    BY <2>4, AdminUpdateKeeps
  <2>5. CASE \E o \in Writers : PlotRejected(o) \/ ActorRowWritten(o) \/ ActorRowRefused(o) \/ AuditActor(o)
    BY <2>5, PlotRejectedKeeps, ActorRowWrittenKeeps, ActorRowRefusedKeeps, AuditActorKeeps
  <2> QED
    BY <1>2, <2>1, <2>2, <2>3, <2>4, <2>5, HydrateActorsKeeps DEF RegistryNext
<1> QED
  BY <1>1, <1>2

(***************************************************************************)
(* Theorems.                                                               *)
(***************************************************************************)

\* The accounts in memory, their rows, the sessions of the devices and the
\* audit log fit together.
THEOREM AccountsFitTogether == RegistrySpec => []RegistryInv
<1>1. RegistryIInv => RegistryInv
  BY DEF RegistryIInv, RegistryInv, SessionNamesHolder, Verified, Active, KnownIds, AccountsKept
<1> QED
  BY <1>1, RegistryInitially, RegistryStepKeeps, PTL DEF RegistrySpec

\* Registration looks for a phone in the map only, and still no two active
\* accounts of a role have one.
THEOREM ContactsAreUnique == RegistrySpec => []ActiveContactsUnique
<1>1. RegistryIInv => ActiveContactsUnique
  BY DEF RegistryIInv
<1> QED
  BY <1>1, RegistryInitially, RegistryStepKeeps, PTL DEF RegistrySpec

\* What ClosedStaysClosed says of a step.
ClosedIsKept ==
    \A i \in KnownIds \ Active : i \notin edited' \cup soiled' =>
        actors'[i] # NoActor /\ actors'[i].status = "inactive"

LEMMA StepKeepsClosed ==
    ASSUME RegistryIInv, [RegistryNext]_registryVars
    PROVE  ClosedIsKept
<1> SUFFICES ASSUME NEW i \in KnownIds \ Active, i \notin edited' \cup soiled'
             PROVE  actors'[i] # NoActor /\ actors'[i].status = "inactive"
  BY DEF ClosedIsKept
<1>1. /\ i \in AllIds /\ actors[i] # NoActor /\ actors[i] \in Actors
      /\ actors[i].status = "inactive"
  BY DEF KnownIds, Active, RegistryIInv, RegistryTypeOK, Actors
<1> SUFFICES actors'[i] = actors[i]
  BY <1>1
<1>2. ASSUME NEW o \in Writers, NEW kind, NEW j, NEW row, BeginWrite(o, kind, j, row), j # i
      PROVE  actors'[i] = actors[i]
  BY <1>1, <1>2 DEF BeginWrite, RegistryIInv, RegistryTypeOK
<1>3. CASE \E o \in Writers, p \in People, kind \in {"plot", "create"}, row \in Actors :
                Create(o, p, kind, row)
  BY <1>1, <1>2, <1>3 DEF Create
<1>4. CASE \E o \in Writers, p \in People : DeleteProfile(o, p)
  BY <1>2, <1>4 DEF DeleteProfile, Verified
<1>5. CASE \E o \in Writers, p \in People : \E zalo \in {ZaloOf[p], Blank} : AdminCreate(o, p, zalo)
  BY <1>2, <1>5 DEF AdminCreate
<1>6. CASE \E o \in Writers, p \in People, phone \in Phones \ {NoPhone} : UpdateProfile(o, p, phone)
  BY <1>2, <1>6 DEF UpdateProfile
<1>7. CASE \E o \in Writers, j \in KnownIds, status \in {"active", "inactive"} :
                \E phone \in (Phones \ {NoPhone}) \cup {actors[j].phone},
                   zalo \in (Zalos \ {NoZalo}) \cup {actors[j].zalo, Blank} :
                      AdminUpdate(o, j, phone, zalo, status)
  BY <1>2, <1>7 DEF AdminUpdate
<1>8. CASE HydrateActors
  BY <1>1, <1>8 DEF HydrateActors, RegistryIInv, QuietRowsMatch
<1>9. CASE \/ \E p \in People : Existing(p) \/ LocalAccount(p)
           \/ \E o \in Writers : PlotRejected(o) \/ ActorRowWritten(o) \/ ActorRowRefused(o) \/ AuditActor(o)
           \/ UNCHANGED registryVars
  BY <1>9 DEF Existing, LocalAccount, PlotRejected, ActorRowWritten, ActorRowRefused, AuditActor, registryVars
<1>10. CASE \E o \in Writers, p \in People :
                RegisterFarmer(o, p) \/ RegisterCollector(o, p) \/ ExchangeZaloToken(o, p)
  BY <1>3, <1>10, NewIsActor DEF RegisterFarmer, RegisterCollector, ExchangeZaloToken
<1> QED
  BY <1>4, <1>5, <1>6, <1>7, <1>8, <1>9, <1>10 DEF RegistryNext

\* An account its user closed is not opened again by registrations, logins,
\* other requests or restarts.
THEOREM ClosedAccountsStayClosed == RegistrySpec => ClosedStaysClosed
<1>1. RegistryIInv /\ [RegistryNext]_registryVars => ClosedIsKept
  BY StepKeepsClosed
<1>2. RegistryIInv /\ [RegistryNext]_registryVars => RegistryIInv'
  BY RegistryStepKeeps
<1> QED
  BY <1>1, <1>2, RegistryInitially, PTL DEF RegistrySpec, ClosedStaysClosed, ClosedIsKept
=============================================================================
