--------------------------------- MODULE Plots ---------------------------------
(***************************************************************************)
(* Farm plots: AdminService (createPlot, updatePlot, deletePlot) as the    *)
(* admin page calls it, plots made by a farmer's registration or by a      *)
(* harvest from the mini app, the map store.plots and the table farm_plots *)
(* whose rows the admin page lists and inspectPolygon compares.            *)
(*                                                                         *)
(* A request awaits the inspection, the row and the audit row; it works on *)
(* a copy of the plot made before the first of them.  A shape is a set of  *)
(* cells.  Left out: farmer, crop, place, and the area, which the          *)
(* inspection takes from the shape.                                        *)
(***************************************************************************)
EXTENDS Integers, FiniteSets

CONSTANTS
    SeedIds,      \* plots that are there from the start
    AdminIds,     \* ids createPlot makes from a UUID
    RandomIds,    \* ids the mini app makes
    Codes,        \* planting area codes
    Shapes,       \* polygons, as sets of cells
    Seed,         \* the plot of each seed id
    Ops,          \* requests under way at once
    Choices,      \* bound: statuses chosen in the form
    NoPlot, NoOp,
    MaxRequests,  \* bound: requests
    MaxFaults     \* bound: failed writes and restarts

PlotIds == SeedIds \cup AdminIds \cup RandomIds
PlotStatus == {"active", "inactive", "pending"}
FarmPlots == [code : Codes, shape : Shapes, status : PlotStatus]

Stages == {"inspect", "save", "row", "audit"}
Kinds == {"create", "form", "status", "mobile"}
Fields == {"code", "shape", "status"}
Requests == [kind : Kinds, id : PlotIds, plot : FarmPlots, stage : Stages,
             chosen : SUBSET Fields, fresh : BOOLEAN]

ASSUME PlotsAssumption ==
    /\ NoPlot \notin FarmPlots /\ NoOp \notin Requests
    /\ SeedIds \cap (AdminIds \cup RandomIds) = {} /\ AdminIds \cap RandomIds = {}
    /\ Seed \in [SeedIds -> FarmPlots] /\ Choices \subseteq PlotStatus
    /\ \A i, j \in SeedIds : i # j =>
          Seed[i].code # Seed[j].code /\ Seed[i].shape \cap Seed[j].shape = {}
    /\ MaxRequests \in Nat /\ MaxFaults \in Nat

VARIABLES
    plots,     \* store.plots
    rows,      \* the table farm_plots
    listed,    \* the plots the admin page shows
    ops,       \* what each request is about to do, with its copy of the plot;
               \* chosen: the fields in which it differs from what was there,
               \* fresh: the page it comes from showed the plot as it was
    raced,     \* plots written between the inspection and the write of another
    dirty,     \* plots with a failed write, overlapping requests, or no row
    requests, faults

plotsVars == <<plots, rows, listed, ops, raced, dirty, requests, faults>>

PlotsTypeOK ==
    /\ plots \in [PlotIds -> FarmPlots \cup {NoPlot}]
    /\ rows \in [PlotIds -> FarmPlots \cup {NoPlot}]
    /\ listed \in [PlotIds -> FarmPlots \cup {NoPlot}]
    /\ ops \in [Ops -> Requests \cup {NoOp}]
    /\ raced \subseteq PlotIds /\ dirty \subseteq PlotIds
    /\ requests \in 0..MaxRequests /\ faults \in 0..MaxFaults

PlotsInit ==
    /\ plots = [i \in PlotIds |-> IF i \in SeedIds THEN Seed[i] ELSE NoPlot]
    /\ rows = plots /\ listed = plots
    /\ ops = [o \in Ops |-> NoOp]
    /\ raced = {} /\ dirty = {}
    /\ requests = 0 /\ faults = 0

Known == {i \in PlotIds : plots[i] # NoPlot}
Busy(i) == \E o \in Ops : ops[o] # NoOp /\ ops[o].id = i /\ ops[o].stage # "audit"

Begin(o, kind, i, plot, chosen, stage) ==
    /\ ops[o] = NoOp
    /\ requests < MaxRequests
    /\ requests' = requests + 1
    /\ ops' = [ops EXCEPT ![o] = [kind |-> kind, id |-> i, plot |-> plot, stage |-> stage,
                                   chosen |-> chosen, fresh |-> listed[i] = plots[i]]]
    /\ dirty' = IF Busy(i) THEN dirty \cup {i} ELSE dirty

At(o, stage) == ops[o] # NoOp /\ ops[o].stage = stage
Moves(o, stage) == ops' = [ops EXCEPT ![o].stage = stage]
Ends(o) == ops' = [ops EXCEPT ![o] = NoOp]

(***************************************************************************)
(* Requests of the admin page.                                             *)
(***************************************************************************)

\* loadAdmin lists the rows, not the map.
LoadAdmin ==
    /\ listed # rows
    /\ listed' = rows
    /\ UNCHANGED <<plots, rows, ops, raced, dirty, requests, faults>>

\* The code is compared with the map, before the inspection.
CreatePlot(o, i, plot) ==
    /\ i \in AdminIds \ Known /\ rows[i] = NoPlot /\ ~Busy(i)
    /\ plot.status \in Choices
    /\ ~\E j \in Known : plots[j].code = plot.code
    /\ Begin(o, "create", i, plot, Fields, "inspect")
    /\ UNCHANGED <<plots, rows, listed, raced, faults>>

Changed(i, plot) == {field \in Fields : plot[field] # listed[i][field]}

\* Mutant: an edit makes the plot active.
SaveFormActive(o, i, plot) ==
    /\ i \in Known /\ listed[i] # NoPlot
    /\ plot.status \in Choices \cup {listed[i].status}
    /\ Begin(o, "form", i, [plot EXCEPT !.status = "active"], Changed(i, plot), "inspect")
    /\ UNCHANGED <<plots, rows, listed, raced, faults>>

\* savePlot of the page sends every field of the form: what the admin changed
\* in it, and the rest as the page showed it when the form was opened.  The
\* code is not compared with anything.
SaveForm(o, i, plot) ==
    /\ i \in Known /\ listed[i] # NoPlot
    /\ plot.status \in Choices \cup {listed[i].status}
    /\ Begin(o, "form", i, plot, Changed(i, plot), "inspect")
    /\ UNCHANGED <<plots, rows, listed, raced, faults>>

\* Mutant: a change of status alone is not inspected.
SetStatusAtOnce(o, i, status) ==
    /\ i \in Known /\ listed[i] # NoPlot
    /\ Begin(o, "status", i, [plots[i] EXCEPT !.status = status], {"status"}, "save")
    /\ UNCHANGED <<plots, rows, listed, raced, faults>>

\* approvePlot and softDelete send the status alone; updatePlot copies the
\* rest from the map.
SetStatus(o, i, status) ==
    /\ i \in Known /\ listed[i] # NoPlot
    /\ Begin(o, "status", i, [plots[i] EXCEPT !.status = status], {"status"}, "inspect")
    /\ UNCHANGED <<plots, rows, listed, raced, faults>>

(***************************************************************************)
(* Plots of the mini app.                                                  *)
(***************************************************************************)

\* createPlotFromMobileHarvest: no check of the code and no inspection.
MobilePlot(o, i, code, shape) ==
    /\ i \in RandomIds \ Known
    /\ LET plot == [code |-> code, shape |-> shape, status |-> "pending"] IN
          /\ Begin(o, "mobile", i, plot, Fields, "row")
          /\ plots' = [plots EXCEPT ![i] = plot]
    /\ UNCHANGED <<rows, listed, raced, faults>>

\* registerFarmer: the plot replaces any plot of its id in the map; its row
\* is never written.
RegisterPlot(i, code, shape) ==
    /\ i \in RandomIds
    /\ requests < MaxRequests /\ requests' = requests + 1
    /\ plots' = [plots EXCEPT ![i] = [code |-> code, shape |-> shape, status |-> "pending"]]
    /\ dirty' = dirty \cup {i}
    /\ UNCHANGED <<rows, listed, ops, raced, faults>>

(***************************************************************************)
(* The rest of a request.                                                  *)
(***************************************************************************)

ActiveRows == {j \in PlotIds : rows[j] # NoPlot /\ rows[j].status = "active"}

Overlapping(i, shape) == {j \in ActiveRows \ {i} : rows[j].shape \cap shape # {}}

\* inspectPolygon; a plot is inspected whatever its new status.
Inspect(o) ==
    /\ At(o, "inspect")
    /\ IF Overlapping(ops[o].id, ops[o].plot.shape) = {} THEN Moves(o, "save") ELSE Ends(o)
    /\ UNCHANGED <<plots, rows, listed, raced, dirty, requests, faults>>

\* savePlot: the map first.
SavePlot(o) ==
    /\ At(o, "save")
    /\ plots' = [plots EXCEPT ![ops[o].id] = ops[o].plot]
    /\ Moves(o, "row")
    /\ UNCHANGED <<rows, listed, raced, dirty, requests, faults>>

CodeFree(i, code) == ~\E j \in PlotIds \ {i} : rows[j] # NoPlot /\ rows[j].code = code

Inspected(i) ==
    {ops[p].id : p \in {q \in Ops : ops[q] # NoOp /\ ops[q].id # i /\ ops[q].kind # "mobile"
                                     /\ ops[q].stage \in {"save", "row"}}}

\* The upsert; a plot of the mini app is not in the audit log.
RowWritten(o) ==
    /\ At(o, "row")
    /\ LET i == ops[o].id IN
          /\ CodeFree(i, ops[o].plot.code)
          /\ rows' = [rows EXCEPT ![i] = ops[o].plot]
          /\ raced' = raced \cup Inspected(i)
    /\ IF ops[o].kind = "mobile" THEN Ends(o) ELSE Moves(o, "audit")
    /\ UNCHANGED <<plots, listed, dirty, requests, faults>>

\* The unique code or the database rejects; the map keeps the plot.
RowRefused(o) ==
    /\ At(o, "row")
    /\ \/ ~CodeFree(ops[o].id, ops[o].plot.code) /\ UNCHANGED faults
       \/ faults < MaxFaults /\ faults' = faults + 1
    /\ Ends(o)
    /\ dirty' = dirty \cup {ops[o].id}
    /\ UNCHANGED <<plots, rows, listed, raced, requests>>

Audit(o) ==
    /\ At(o, "audit")
    /\ Ends(o)
    /\ UNCHANGED <<plots, rows, listed, raced, dirty, requests, faults>>

\* hydrate rebuilds the map from the rows: what only the map had is gone.
Restart ==
    /\ faults < MaxFaults /\ faults' = faults + 1
    /\ plots' = rows
    /\ dirty' = {}
    /\ ops' = [o \in Ops |-> NoOp]
    /\ UNCHANGED <<rows, listed, raced, requests>>

PlotsNext ==
    \/ LoadAdmin \/ Restart
    \/ \E o \in Ops, i \in AdminIds, plot \in FarmPlots : CreatePlot(o, i, plot)
    \/ \E o \in Ops, i \in PlotIds, plot \in FarmPlots : SaveForm(o, i, plot)
    \/ \E o \in Ops, i \in PlotIds, status \in {"active", "inactive"} : SetStatus(o, i, status)
    \/ \E o \in Ops, i \in RandomIds, code \in Codes, shape \in Shapes :
          MobilePlot(o, i, code, shape)
    \/ \E i \in RandomIds, code \in Codes, shape \in Shapes : RegisterPlot(i, code, shape)
    \/ \E o \in Ops : Inspect(o) \/ SavePlot(o) \/ RowWritten(o) \/ RowRefused(o) \/ Audit(o)

PlotsSpec == PlotsInit /\ [][PlotsNext]_plotsVars

(***************************************************************************)
(* Properties.                                                             *)
(***************************************************************************)

\* The map goes first and the row may fail; still they agree on every plot
\* no request is about to write, unless a write of it failed, two requests
\* for it overlapped, or a registration put it into the map alone.
QuietPlotsMatch ==
    \A i \in PlotIds : i \notin dirty /\ ~Busy(i) => plots[i] = rows[i]

\* Two active plots overlap only if one was written between the inspection
\* and the write of the other: however plots are made, approved, edited or
\* reloaded, no other way around the inspection exists.
ActiveRowsDisjoint ==
    \A i, j \in ActiveRows : i # j /\ rows[i].shape \cap rows[j].shape # {} =>
        {i, j} \cap raced # {}

\* Two plots of the map share a code only while one of them is being saved,
\* or after a write of one failed or never happened.
CodesSettle ==
    \A i, j \in Known : i # j /\ plots[i].code = plots[j].code =>
        \E k \in {i, j} : k \in dirty \/ Busy(k)

\* No edit undoes another one: the code, the shape and the status of a row
\* change only by a request whose sender changed that field, however many
\* awaits, refusals and restarts lie between the page and the row, unless the
\* form showed the plot as it no longer was, or writes of the plot overlapped
\* or failed.  A form sends every field, and on an old page does undo.
EditsKeepTheRest ==
    [][\A i \in PlotIds \ dirty, field \in Fields :
          rows[i] # NoPlot /\ rows'[i][field] # rows[i][field] =>
              \E o \in Ops : /\ ops[o] # NoOp /\ ops[o].id = i
                             /\ \/ field \in ops[o].chosen
                                \/ ops[o].kind = "form" /\ ~ops[o].fresh]_plotsVars

\* Plots in memory and their rows fit together, and to each other.
PlotsInv == PlotsTypeOK /\ QuietPlotsMatch /\ ActiveRowsDisjoint /\ CodesSettle
=============================================================================
