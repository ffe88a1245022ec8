-------------------------------- MODULE History --------------------------------
(***************************************************************************)
(* HistoryPage of the mini app: what it shows of the harvests kept on the  *)
(* phone and those on the server.  The page asks the server when it opens  *)
(* and merges the answer with the history it read before it asked; every   *)
(* change of the history on the phone is merged into what is shown, and    *)
(* there what is shown wins.  Of the answer the page keeps the batches of  *)
(* the session's actor; but the API's batches name no actor, and the page  *)
(* takes them all for those of the default actor, FARMER-0001.             *)
(***************************************************************************)
EXTENDS Integers

CONSTANT Lots   \* names of lots; the phone chooses them and the server keeps them

VARIABLES
    isDefault,  \* whether the session's actor is FARMER-0001, for good
    local,      \* bats_harvest_history
    server,     \* what the server has of these lots
    shown,      \* the batches of the page
    open,       \* whether the page is open
    fetching,   \* the history read by the fetch under way
    seen,       \* what the page kept of the answer; nothing reads it
    overtaken   \* the history changed during the last fetch; nothing reads it

historyVars == <<isDefault, local, server, shown, open, fetching, seen, overtaken>>

Nothing == [i \in Lots |-> "absent"]
NotFetching == [i \in Lots |-> "none"]

HistoryTypeOK ==
    /\ local \in [Lots -> {"absent", "PENDING_SYNC", "HARVESTED", "FAILED_VALIDATION"}]
    /\ server \in [Lots -> {"absent", "HARVESTED", "COLLECTED"}]
    /\ shown \in [Lots -> {"absent", "PENDING_SYNC", "HARVESTED", "FAILED_VALIDATION", "COLLECTED"}]
    /\ fetching = NotFetching \/ fetching \in [Lots -> {"absent", "PENDING_SYNC", "HARVESTED", "FAILED_VALIDATION"}]
    /\ seen \in [Lots -> {"absent", "HARVESTED", "COLLECTED"}]
    /\ isDefault \in BOOLEAN /\ open \in BOOLEAN /\ overtaken \in BOOLEAN

HistoryInit ==
    /\ local = Nothing /\ server = Nothing /\ shown = Nothing /\ seen = Nothing
    /\ open = FALSE /\ fetching = NotFetching /\ overtaken = FALSE
    /\ isDefault \in BOOLEAN

\* mergeBatches: the first argument wins.
MergeBatches(server1, local1) ==
    [i \in Lots |-> IF server1[i] # "absent" THEN server1[i] ELSE local1[i]]

(***************************************************************************)
(* The history on the phone; an open page hears of every change.           *)
(***************************************************************************)

WriteAllHistory(items) ==
    /\ local' = items
    /\ shown' = IF open THEN MergeBatches(shown, items) ELSE shown
    /\ UNCHANGED <<isDefault, server, open, fetching, seen>>

Submit(i) ==
    /\ local[i] = "absent" /\ server[i] = "absent"
    /\ WriteAllHistory([local EXCEPT ![i] = "PENDING_SYNC"])
    /\ overtaken' = FALSE

\* What the queue hears from the server (see OfflineQueue).
MarkHarvestHistoryStatus(i, status) ==
    /\ local[i] # "absent"
    /\ status = "HARVESTED" => server[i] # "absent"
    /\ WriteAllHistory([local EXCEPT ![i] = status])
    /\ overtaken' = FALSE

ClearHarvestHistory ==
    /\ WriteAllHistory(Nothing)
    /\ overtaken' = FALSE

(***************************************************************************)
(* The server.                                                             *)
(***************************************************************************)

\* A harvest of this phone or of another one.
Store(i) ==
    /\ server[i] = "absent"
    /\ server' = [server EXCEPT ![i] = "HARVESTED"]
    /\ UNCHANGED <<isDefault, local, shown, open, fetching, seen, overtaken>>

Receive(i) ==
    /\ server[i] = "HARVESTED"
    /\ server' = [server EXCEPT ![i] = "COLLECTED"]
    /\ UNCHANGED <<isDefault, local, shown, open, fetching, seen, overtaken>>

(***************************************************************************)
(* The page.                                                               *)
(***************************************************************************)

\* It opens empty and asks.
OpenPage ==
    /\ ~open /\ open' = TRUE
    /\ fetching' = local
    /\ shown' = Nothing /\ seen' = Nothing /\ overtaken' = FALSE
    /\ UNCHANGED <<isDefault, local, server>>

ClosePage ==
    /\ open /\ open' = FALSE
    /\ fetching' = NotFetching /\ shown' = Nothing /\ seen' = Nothing /\ overtaken' = FALSE
    /\ UNCHANGED <<isDefault, local, server>>

\* What the server may say: one page of its lots, some as they were when it
\* was asked.
ServerAnswers == {a \in [Lots -> {"absent", "HARVESTED", "COLLECTED"}] :
                      \A i \in Lots :
                          \/ a[i] \in {"absent", server[i]}
                          \/ a[i] = "HARVESTED" /\ server[i] = "COLLECTED"}

\* The answer, as far as it is kept, replaces what is shown, with the history
\* as it was.
Answered ==
    /\ fetching # NotFetching
    /\ seen' \in IF isDefault THEN ServerAnswers ELSE {Nothing}
    /\ shown' = MergeBatches(seen', fetching)
    /\ overtaken' = (fetching # local)
    /\ fetching' = NotFetching
    /\ UNCHANGED <<isDefault, local, server, open>>

NotAnswered ==
    /\ fetching # NotFetching
    /\ shown' = fetching
    /\ overtaken' = (fetching # local)
    /\ fetching' = NotFetching
    /\ UNCHANGED <<isDefault, local, server, open, seen>>

HistoryNext ==
    \/ \E i \in Lots :
          \/ Submit(i) \/ Store(i) \/ Receive(i)
          \/ \E status \in {"HARVESTED", "FAILED_VALIDATION"} : MarkHarvestHistoryStatus(i, status)
    \/ ClearHarvestHistory \/ OpenPage \/ ClosePage \/ Answered \/ NotAnswered

\* An open page that has asked shows every harvest kept on the phone, unless
\* the last answer was to a question asked before that harvest was kept.
NothingHidden ==
    open /\ fetching = NotFetching /\ ~overtaken =>
        \A i \in Lots : local[i] # "absent" => shown[i] # "absent"

\* What the page kept of the server's answer stays shown until the page is
\* closed, however the history on the phone changes.  That is something only
\* for the default actor.
KeptStaysShown == open => \A i \in Lots : seen[i] # "absent" => shown[i] = seen[i]

\* For any other actor the page shows what the phone kept and no more: no
\* collection is ever seen there.
OthersSeeTheirPhone ==
    ~isDefault => seen = Nothing /\ \A i \in Lots : shown[i] # "COLLECTED"

\* Nothing is shown as delivered that the server does not have.
ShownIsTrue ==
    \A i \in Lots : shown[i] \in {"HARVESTED", "COLLECTED"} => server[i] # "absent"
=============================================================================
