------------------------------ MODULE Anchoring ------------------------------
(***************************************************************************)
(* Daily anchoring: AnchorService.anchorDate run by overlapping callers    *)
(* (scheduler ticks and admin requests), StoreService.saveAnchor, the      *)
(* BATSAnchor contract, and the three ways an EPCIS event enters a day     *)
(* while that happens.  A handler is cut into one action per await: Node   *)
(* runs the code between two awaits without interruption.                  *)
(*                                                                         *)
(* A Merkle root stands for the set of events it commits to: dailyTree     *)
(* sorts the leaves by time and id, so the set determines the root, and    *)
(* the zero root of the empty day is {}.                                   *)
(***************************************************************************)
EXTENDS Integers, FiniteSets

CONSTANTS
    LastDay,      \* bound: business days are 1..LastDay
    Events,       \* the EPCIS events that may be recorded
    Day,          \* the business day of each event's eventTime
    Kind,         \* how each event arrives: "harvest", "transfer", "recover"
    Batch,        \* the batch each event belongs to
    Ticks,        \* bound: scheduler runs in flight at once
    Requests,     \* bound: POST admin/anchors/:date in flight at once
    FaultKinds,   \* which outside failures may happen
    MaxFaults,    \* bound: how many of them
    MaxAttempts   \* bound on attemptCount

Days == 1..LastDay
Callers == Ticks \cup Requests
Kinds == {"harvest", "transfer", "recover"}
AllFaults == {"anchorDb", "batchDb", "read", "send", "receipt", "crash"}

\* A batch is a harvest with at most one transfer, or a recovered lot: how
\* updates of one batch collide is not the subject here.
ASSUME AnchoringAssumption ==
    /\ LastDay \in Nat \ {0}
    /\ Day \in [Events -> Days]
    /\ Kind \in [Events -> Kinds]
    /\ Ticks \cap Requests = {}
    /\ FaultKinds \subseteq AllFaults
    /\ MaxFaults \in Nat
    /\ MaxAttempts \in Nat \ {0}
    /\ \A e, f \in Events :
          /\ Batch[e] = Batch[f]
          /\ Kind[e] = "recover" \/ (Kind[e] = "transfer" <=> Kind[f] = "transfer")
          => e = f

VARIABLES
    today,       \* the current business day
    events,      \* events of store.batches, in memory
    eventsDb,    \* rows of epcis_events
    accept,      \* where the handler recording each event stands
    anchors,     \* store.anchors, in memory
    anchorsDb,   \* rows of anchors
    cooling,     \* days whose nextAttemptAt is still in the future
    callers,     \* the anchorDate calls in flight
    chain,       \* BATSAnchor.anchors: the root registered for each day
    orphans,     \* broadcast transactions nobody waits for any more
    faults,      \* failures so far
    crowded,     \* since the last start, days two calls anchored at once
    shaken,      \* days confirmed beside another call, or anchored again
    unsaved      \* days whose last upsert was refused; nothing reads these three

eventVars == <<events, eventsDb, accept>>
anchorVars == <<anchors, anchorsDb, cooling>>
chainVars == <<chain, orphans>>
marks == <<crowded, shaken, unsaved>>
vars == <<today, eventVars, anchorVars, callers, chainVars, faults, marks>>

Roots == SUBSET Events
Statuses == {"none", "pending", "confirmed", "failed"}

\* An AnchorRecord; retry says that nextAttemptAt is set.
Records == [status : Statuses, root : Roots, attempt : 0..MaxAttempts, retry : BOOLEAN]
NoRecord == [status |-> "none", root |-> {}, attempt |-> 0, retry |-> FALSE]

\* An anchorDate call: the await it is at, and the locals it captured.
Pcs == {"idle", "verify", "savePending", "send", "wait", "saveConfirmed", "saveFailed"}
Calls == [pc : Pcs, day : Days, root : Roots, attempt : 0..MaxAttempts,
          tx : {"none", "pooled", "mined", "reverted"}]
Idle == [pc |-> "idle", day |-> 1, root |-> {}, attempt |-> 0, tx |-> "none"]

Transactions == [day : Days, root : Roots]

TypeOK ==
    /\ today \in 1..(LastDay + 1)
    /\ events \in Roots
    /\ eventsDb \in Roots
    /\ accept \in [Events -> {"idle", "saving", "committed", "done"}]
    /\ anchors \in [Days -> Records]
    /\ anchorsDb \in [Days -> Records]
    /\ cooling \in SUBSET Days
    /\ callers \in [Callers -> Calls]
    /\ chain \in [Days -> Roots]
    /\ orphans \in SUBSET Transactions
    /\ faults \in 0..MaxFaults
    /\ crowded \in SUBSET Days /\ shaken \in SUBSET Days /\ unsaved \in SUBSET Days

Init ==
    /\ today = 1
    /\ events = {}
    /\ eventsDb = {}
    /\ accept = [e \in Events |-> "idle"]
    /\ anchors = [d \in Days |-> NoRecord]
    /\ anchorsDb = [d \in Days |-> NoRecord]
    /\ cooling = {}
    /\ callers = [c \in Callers |-> Idle]
    /\ chain = [d \in Days |-> {}]
    /\ orphans = {}
    /\ faults = 0
    /\ crowded = {} /\ shaken = {} /\ unsaved = {}

Fault(kind) ==
    /\ kind \in FaultKinds
    /\ faults < MaxFaults
    /\ faults' = faults + 1

(***************************************************************************)
(* Recording events.                                                       *)
(***************************************************************************)

\* BatsService.assertDayOpen: only a confirmed record closes the day.
DayOpen(d) == anchors[d].status # "confirmed"

BatchExists(e) == \E f \in events : Batch[f] = Batch[e]

\* Mutant: the batch is put into memory before it is saved.
HarvestShownEarly(e) ==
    /\ Kind[e] = "harvest" /\ accept[e] = "idle"
    /\ DayOpen(Day[e])
    /\ accept' = [accept EXCEPT ![e] = "saving"]
    /\ events' = events \cup {e}
    /\ UNCHANGED <<today, eventsDb, anchorVars, callers, chainVars, faults, marks>>

\* createHarvestCore checks the day, then awaits the geofence, the sequence
\* and the batch transaction before the batch reaches memory.
HarvestAccept(e) ==
    /\ Kind[e] = "harvest" /\ accept[e] = "idle"
    /\ DayOpen(Day[e])
    /\ accept' = [accept EXCEPT ![e] = "saving"]
    /\ UNCHANGED <<today, events, eventsDb, anchorVars, callers, chainVars, faults, marks>>

HarvestCommit(e) ==
    /\ Kind[e] = "harvest" /\ accept[e] = "saving"
    /\ eventsDb' = eventsDb \cup {e}
    /\ accept' = [accept EXCEPT ![e] = "committed"]
    /\ UNCHANGED <<today, events, anchorVars, callers, chainVars, faults, marks>>

HarvestVisible(e) ==
    /\ Kind[e] = "harvest" /\ accept[e] = "committed"
    /\ events' = events \cup {e}
    /\ accept' = [accept EXCEPT ![e] = "done"]
    /\ UNCHANGED <<today, eventsDb, anchorVars, callers, chainVars, faults, marks>>

HarvestFails(e) ==
    /\ Kind[e] = "harvest" /\ accept[e] = "saving"
    /\ Fault("batchDb")
    /\ accept' = [accept EXCEPT ![e] = "idle"]
    /\ UNCHANGED <<today, events, eventsDb, anchorVars, callers, chainVars, marks>>

\* transferCore pushes the event into the batch in memory and then saves it.
TransferPush(e) ==
    /\ Kind[e] = "transfer" /\ accept[e] = "idle"
    /\ DayOpen(Day[e])
    /\ BatchExists(e)
    /\ events' = events \cup {e}
    /\ accept' = [accept EXCEPT ![e] = "saving"]
    /\ UNCHANGED <<today, eventsDb, anchorVars, callers, chainVars, faults, marks>>

\* A failed save puts the snapshot taken before the push back.
TransferFails(e) ==
    /\ Kind[e] = "transfer" /\ accept[e] = "saving"
    /\ Fault("batchDb")
    /\ events' = events \ {e}
    /\ accept' = [accept EXCEPT ![e] = "idle"]
    /\ UNCHANGED <<today, eventsDb, anchorVars, callers, chainVars, marks>>

\* resolveOrRecoverBatch fabricates a batch dated now for an unknown lot,
\* whatever the state of the day, and does not wait for the save.
Recover(e) ==
    /\ Kind[e] = "recover" /\ accept[e] = "idle"
    /\ today = Day[e]
    /\ ~BatchExists(e)
    /\ events' = events \cup {e}
    /\ accept' = [accept EXCEPT ![e] = "saving"]
    /\ UNCHANGED <<today, eventsDb, anchorVars, callers, chainVars, faults, marks>>

\* Its save error is swallowed: the event stays, in memory only.
RecoverFails(e) ==
    /\ Kind[e] = "recover" /\ accept[e] = "saving"
    /\ Fault("batchDb")
    /\ accept' = [accept EXCEPT ![e] = "done"]
    /\ UNCHANGED <<today, events, eventsDb, anchorVars, callers, chainVars, marks>>

\* The transaction of a transfer or a recovery commits: saveBatch writes every
\* event the batch object holds by then.
InMemoryCommit(e) ==
    /\ Kind[e] # "harvest" /\ accept[e] = "saving"
    /\ eventsDb' = eventsDb \cup {f \in events : Batch[f] = Batch[e]}
    /\ accept' = [accept EXCEPT ![e] = "done"]
    /\ UNCHANGED <<today, events, anchorVars, callers, chainVars, faults, marks>>

Record(e) ==
    \/ HarvestAccept(e) \/ HarvestCommit(e) \/ HarvestVisible(e) \/ HarvestFails(e)
    \/ TransferPush(e) \/ TransferFails(e)
    \/ Recover(e) \/ RecoverFails(e)
    \/ InMemoryCommit(e)

(***************************************************************************)
(* Anchoring a day.                                                        *)
(***************************************************************************)

DailyRoot(d) == {e \in events : Day[e] = d}

Goto(c, pc) == callers' = [callers EXCEPT ![c].pc = pc]
Return(c) == callers' = [callers EXCEPT ![c] = Idle]

\* What a call writes about its day: always its own captured root.
RecordOf(call, status) ==
    [status |-> status, root |-> call.root, attempt |-> call.attempt,
     retry |-> status = "failed"]

\* saveAnchor sets the map at once and upserts the row at a later step.
Remember(call, status) ==
    anchors' = [anchors EXCEPT ![call.day] = RecordOf(call, status)]
Persist(call, status) ==
    /\ anchorsDb' = [anchorsDb EXCEPT ![call.day] = RecordOf(call, status)]
    /\ unsaved' = unsaved \ {call.day}
    /\ UNCHANGED <<crowded, shaken>>

\* The upsert is refused.
Unsave(call) ==
    /\ unsaved' = unsaved \cup {call.day}
    /\ UNCHANGED <<crowded, shaken>>

\* The call is anchoring the day; another call is.
OnDay(c, d) == callers[c].day = d /\ callers[c].pc \notin {"idle", "verify"}
Beside(c, d) == \E x \in Callers \ {c} : OnDay(x, d)

StartAttempt(c, d, root, attempt) ==
    LET call == [pc |-> "savePending", day |-> d, root |-> root,
                 attempt |-> attempt, tx |-> "none"]
    IN  /\ callers' = [callers EXCEPT ![c] = call]
        /\ Remember(call, "pending")
        /\ crowded' = IF Beside(c, d) THEN crowded \cup {d} ELSE crowded
        /\ UNCHANGED <<anchorsDb, cooling, unsaved>>

\* anchorDate up to its first await.  A day without events and a confirmed
\* day whose root has changed are refused without a change of state.
AnchorDate(c, d) ==
    LET root == DailyRoot(d)
        attempt == anchors[d].attempt + 1
    IN  /\ callers[c].pc = "idle"
        /\ root # {}
        /\ attempt <= MaxAttempts
        /\ \/ /\ anchors[d].status # "confirmed"
              /\ StartAttempt(c, d, root, attempt)
           \/ /\ anchors[d].status = "confirmed" /\ anchors[d].root = root
              /\ callers' = [callers EXCEPT ![c] =
                    [pc |-> "verify", day |-> d, root |-> root,
                     attempt |-> attempt, tx |-> "none"]]
              /\ UNCHANGED <<anchorVars, crowded, unsaved>>
        /\ UNCHANGED <<today, eventVars, chainVars, faults, shaken>>

\* Mutant: a day that was tried once is not tried again.
SchedulerRunOnce(c) ==
    LET d == today - 1
    IN  /\ d \in Days
        /\ anchors[d].status = "none"
        /\ AnchorDate(c, d)

\* AnchorSchedulerService.runOnce: yesterday only, not when confirmed, not
\* before nextAttemptAt.
SchedulerRun(c) ==
    LET d == today - 1
    IN  /\ d \in Days
        /\ anchors[d].status # "confirmed"
        /\ ~(anchors[d].retry /\ d \in cooling)
        /\ AnchorDate(c, d)

AdminPost(c) == \E d \in Days : AnchorDate(c, d)

\* isRootOnChain answers true: the existing record is returned.
RootIsOnChain(c) ==
    /\ callers[c].pc = "verify"
    /\ chain[callers[c].day] = callers[c].root
    /\ Return(c)
    /\ UNCHANGED <<today, eventVars, anchorVars, chainVars, faults, marks>>

\* It answers false, or the read fails and its catch answers false: the day
\* is anchored again, over the confirmed record.
RootNotSeen(c) ==
    LET call == callers[c]
        honest == chain[call.day] # call.root
    IN  /\ call.pc = "verify"
        /\ ~honest => "read" \in FaultKinds /\ faults < MaxFaults
        /\ faults' = IF honest THEN faults ELSE faults + 1
        /\ StartAttempt(c, call.day, call.root, call.attempt)
        /\ shaken' = shaken \cup {call.day}
        /\ UNCHANGED <<today, eventVars, chainVars>>

\* Mutant: the first save already says "confirmed".
ConfirmedOnSending(c) ==
    /\ callers[c].pc = "savePending"
    /\ Persist(callers[c], "confirmed")
    /\ Goto(c, "send")
    /\ UNCHANGED <<today, eventVars, anchors, cooling, chainVars, faults>>

PendingSaved(c) ==
    /\ callers[c].pc = "savePending"
    /\ Persist(callers[c], "pending")
    /\ Goto(c, "send")
    /\ UNCHANGED <<today, eventVars, anchors, cooling, chainVars, faults>>

\* This await is outside the try: the call rejects and memory keeps "pending".
PendingSaveFails(c) ==
    /\ callers[c].pc = "savePending"
    /\ Fault("anchorDb")
    /\ Return(c)
    /\ Unsave(callers[c])
    /\ UNCHANGED <<today, eventVars, anchorVars, chainVars>>

\* The gas estimate of anchorDailyRoot succeeds and the transaction is sent.
SendTransaction(c) ==
    /\ callers[c].pc = "send"
    /\ chain[callers[c].day] = {}
    /\ callers' = [callers EXCEPT ![c].pc = "wait", ![c].tx = "pooled"]
    /\ UNCHANGED <<today, eventVars, anchorVars, chainVars, faults, marks>>

\* Mutant: the contract does not refuse a second root.
RegisterAgain(d, root) == chain' = [chain EXCEPT ![d] = root]

\* BATSAnchor.anchorDailyRoot: the first root of a day stays.
Register(d, root) ==
    chain' = IF chain[d] = {} THEN [chain EXCEPT ![d] = root] ELSE chain

\* Mutant: a reverted transaction passes for a mined one.
MineUnchecked(c) ==
    LET call == callers[c]
    IN  /\ call.tx = "pooled"
        /\ Register(call.day, call.root)
        /\ callers' = [callers EXCEPT ![c].tx = "mined"]
        /\ UNCHANGED <<today, eventVars, anchorVars, orphans, faults, marks>>

MineTransaction(c) ==
    LET call == callers[c]
    IN  /\ call.tx = "pooled"
        /\ Register(call.day, call.root)
        /\ callers' = [callers EXCEPT ![c].tx =
              IF chain[call.day] = {} THEN "mined" ELSE "reverted"]
        /\ UNCHANGED <<today, eventVars, anchorVars, orphans, faults, marks>>

MineOrphan(t) ==
    /\ t \in orphans
    /\ Register(t.day, t.root)
    /\ orphans' = orphans \ {t}
    /\ UNCHANGED <<today, eventVars, anchorVars, callers, faults, marks>>

\* Mutant: the receipt is not waited for.
ConfirmUnmined(c) ==
    /\ callers[c].pc = "wait"
    /\ Goto(c, "saveConfirmed")
    /\ Remember(callers[c], "confirmed")
    /\ UNCHANGED <<today, eventVars, anchorsDb, cooling, chainVars, faults, marks>>

\* Mutant: the success is counted as one more attempt.
ConfirmCounted(c) ==
    /\ callers[c].pc = "wait" /\ callers[c].tx = "mined"
    /\ Goto(c, "saveConfirmed")
    /\ anchors' = [anchors EXCEPT ![callers[c].day] =
          [RecordOf(callers[c], "confirmed") EXCEPT !.attempt = @ + 1]]
    /\ UNCHANGED <<today, eventVars, anchorsDb, cooling, chainVars, faults, marks>>

\* The receipt and the network id arrive: the record becomes confirmed.
Confirm(c) ==
    /\ callers[c].pc = "wait" /\ callers[c].tx = "mined"
    /\ Goto(c, "saveConfirmed")
    /\ Remember(callers[c], "confirmed")
    /\ shaken' = IF Beside(c, callers[c].day) THEN shaken \cup {callers[c].day} ELSE shaken
    /\ UNCHANGED <<today, eventVars, anchorsDb, cooling, chainVars, faults, crowded, unsaved>>

ConfirmedSaved(c) ==
    /\ callers[c].pc = "saveConfirmed"
    /\ Persist(callers[c], "confirmed")
    /\ Return(c)
    /\ UNCHANGED <<today, eventVars, anchors, cooling, chainVars, faults>>

\* The catch block: the record becomes failed, with a nextAttemptAt.
Catch(c) ==
    /\ callers' = [callers EXCEPT ![c].pc = "saveFailed", ![c].tx = "none"]
    /\ Remember(callers[c], "failed")
    /\ cooling' = cooling \cup {callers[c].day}
    /\ UNCHANGED <<today, eventVars, anchorsDb, chain, marks>>

Abandon(c) ==
    IF callers[c].tx = "pooled"
    THEN orphans \cup {[day |-> callers[c].day, root |-> callers[c].root]}
    ELSE orphans

\* The estimate reverts with DateAlreadyAnchored.
SendRejected(c) ==
    /\ callers[c].pc = "send"
    /\ chain[callers[c].day] # {}
    /\ Catch(c)
    /\ UNCHANGED <<orphans, faults>>

\* The send fails, before the broadcast or after it.
SendFails(c) ==
    /\ callers[c].pc = "send"
    /\ Fault("send")
    /\ Catch(c)
    /\ UNCHANGED orphans

SendResponseLost(c) ==
    /\ callers[c].pc = "send"
    /\ chain[callers[c].day] = {}
    /\ Fault("receipt")
    /\ Catch(c)
    /\ orphans' = orphans \cup {[day |-> callers[c].day, root |-> callers[c].root]}

TransactionReverted(c) ==
    /\ callers[c].pc = "wait" /\ callers[c].tx = "reverted"
    /\ Catch(c)
    /\ UNCHANGED <<orphans, faults>>

\* wait() or getNetwork() throws, whatever became of the transaction.
ReceiptLost(c) ==
    /\ callers[c].pc = "wait"
    /\ Fault("receipt")
    /\ Catch(c)
    /\ orphans' = Abandon(c)

ConfirmedSaveFails(c) ==
    /\ callers[c].pc = "saveConfirmed"
    /\ Fault("anchorDb")
    /\ Catch(c)
    /\ UNCHANGED orphans

\* Mutant: the failure is noted in memory only.
FailedUnsaved(c) ==
    /\ callers[c].pc = "saveFailed"
    /\ Return(c)
    /\ UNCHANGED <<today, eventVars, anchorVars, chainVars, faults, marks>>

FailedSaved(c) ==
    /\ callers[c].pc = "saveFailed"
    /\ Persist(callers[c], "failed")
    /\ Return(c)
    /\ UNCHANGED <<today, eventVars, anchors, cooling, chainVars, faults>>

FailedSaveFails(c) ==
    /\ callers[c].pc = "saveFailed"
    /\ Fault("anchorDb")
    /\ Return(c)
    /\ Unsave(callers[c])
    /\ UNCHANGED <<today, eventVars, anchorVars, chainVars>>

\* The steps of a call that need no failure of the outside world.
Advance(c) ==
    \/ RootIsOnChain(c) \/ PendingSaved(c) \/ SendTransaction(c) \/ SendRejected(c)
    \/ Confirm(c) \/ ConfirmedSaved(c) \/ TransactionReverted(c) \/ FailedSaved(c)

Disturb(c) ==
    \/ RootNotSeen(c) \/ PendingSaveFails(c) \/ SendFails(c) \/ SendResponseLost(c)
    \/ ReceiptLost(c) \/ ConfirmedSaveFails(c) \/ FailedSaveFails(c)

(***************************************************************************)
(* Time and restarts.                                                      *)
(***************************************************************************)

NextDay ==
    /\ today <= LastDay
    /\ today' = today + 1
    /\ UNCHANGED <<eventVars, anchorVars, callers, chainVars, faults, marks>>

BackoffElapses(d) ==
    /\ d \in cooling
    /\ cooling' = cooling \ {d}
    /\ UNCHANGED <<today, eventVars, anchors, anchorsDb, callers, chainVars, faults, marks>>

\* The process dies with every call in flight; hydrate reloads the maps.  A
\* client resends an event that was not stored, but a fabricated one is gone.
Crash ==
    /\ Fault("crash")
    /\ events' = eventsDb
    /\ accept' = [e \in Events |->
          IF e \in eventsDb \/ (Kind[e] = "recover" /\ accept[e] # "idle")
          THEN "done" ELSE "idle"]
    /\ anchors' = anchorsDb
    /\ callers' = [c \in Callers |-> Idle]
    /\ orphans' = orphans \cup
          {[day |-> callers[c].day, root |-> callers[c].root] :
              c \in {x \in Callers : callers[x].tx = "pooled"}}
    /\ crowded' = {} /\ shaken' = {} /\ unsaved' = {}
    /\ UNCHANGED <<today, eventsDb, anchorsDb, cooling, chain>>

Next ==
    \/ \E e \in Events : Record(e)
    \/ \E c \in Ticks : SchedulerRun(c)
    \/ \E c \in Requests : AdminPost(c)
    \/ \E c \in Callers : Advance(c) \/ Disturb(c) \/ MineTransaction(c)
    \/ \E t \in orphans : MineOrphan(t)
    \/ NextDay
    \/ \E d \in Days : BackoffElapses(d)
    \/ Crash

Spec == Init /\ [][Next]_vars

\* A call that can proceed does (the event loop and the RPC node answer), the
\* chain mines what it was sent, time passes, and setInterval keeps firing.
Fairness ==
    /\ \A c \in Callers : WF_vars(Advance(c)) /\ WF_vars(MineTransaction(c))
    /\ \A c \in Ticks : WF_vars(SchedulerRun(c))
    /\ \A d \in Days : WF_vars(BackoffElapses(d))

FairSpec == Spec /\ Fairness

(***************************************************************************)
(* Properties.                                                             *)
(***************************************************************************)

\* The root a confirmed record names is the one registered for its day.
Registered(record, d) ==
    record.status = "confirmed" => chain[d] = record.root /\ chain[d] # {}

\* A record that says "confirmed", in memory or in the database, names the
\* root the contract holds for that day, however callers, lost receipts and
\* restarts interleave (anchorDate confirms only its own mined transaction).
ConfirmedIsOnChain ==
    \A d \in Days : Registered(anchors[d], d) /\ Registered(anchorsDb[d], d)

\* The harvests of a set of events are rows of the database.
HarvestsStored(root) == \A e \in root : Kind[e] = "harvest" => e \in eventsDb

\* No root on the contract commits to a harvest that the database could still
\* lose: a harvest becomes visible to dailyTree only after its transaction.
AnchoredHarvestsAreStored ==
    \A d \in Days : HarvestsStored(chain[d])

\* What the two invariants above rest on: a call under way captured a root
\* that is not the zero root, waits for its own transaction only, and confirms
\* only once that transaction registered its root.
HonestCall(c) ==
    /\ callers[c].pc # "idle" => callers[c].root # {}
    /\ callers[c].tx # "none" => callers[c].pc \in {"wait", "saveConfirmed"}
    /\ callers[c].pc = "saveConfirmed" => callers[c].tx = "mined"
    /\ callers[c].tx = "mined" => chain[callers[c].day] = callers[c].root

CallsAreHonest ==
    /\ \A c \in Callers : HonestCall(c)
    /\ \A t \in orphans : t.root # {}

\* Every root on its way to the contract commits to stored harvests only.
HarvestsAreStored ==
    /\ HarvestsStored(events)
    /\ \A e \in Events : accept[e] = "committed" => e \in eventsDb
    /\ \A c \in Callers : HarvestsStored(callers[c].root)
    /\ \A t \in orphans : HarvestsStored(t.root)

\* The inductive invariant of the proofs.
AnchoringInv ==
    /\ CallsAreHonest
    /\ ConfirmedIsOnChain
    /\ HarvestsAreStored
    /\ AnchoredHarvestsAreStored

\* The contract holds a root for the day, no record says so, and no call in
\* flight has seen its transaction mined.
Lost(d) ==
    /\ chain[d] # {}
    /\ anchors[d].status # "confirmed"
    /\ anchorsDb[d].status # "confirmed"
    /\ \A c \in Callers : ~(callers[c].day = d /\ callers[c].tx = "mined")

\* Such a day stays lost: every retry of anchorDate ends in
\* DateAlreadyAnchored, so neither scheduler nor admin ever confirms it.
LostIsFinal == [][\A d \in Days : Lost(d) => Lost(d)']_vars

\* A confirmed row of the anchors table is written over, by an upsert without a
\* condition, only on a day that was confirmed beside another call, or that was
\* anchored again because the chain could not be read, since the last start:
\* retries, refused upserts, lost receipts and restarts never do it.
ConfirmedRowStays ==
    [][\A d \in Days \ shaken :
        anchorsDb[d].status = "confirmed" => anchorsDb[d]' = anchorsDb[d]]_vars

\* No call is anchoring the day.
Quiet(d) == \A c \in Callers : ~OnDay(c, d)

\* While no call is anchoring a day, memory and the anchors table agree about
\* it, unless its last upsert was refused or two calls anchored it at once
\* since the last start; the next attempt makes good a refused upsert.
QuietRecordsAgree ==
    \A d \in Days : Quiet(d) /\ d \notin unsaved \cup crowded => anchors[d] = anchorsDb[d]

\* The day is anchored by one call at most, and memory is ahead of the row by
\* the record that call is about to write.
Agreed(d) ==
    /\ \A c, x \in Callers : OnDay(c, d) /\ OnDay(x, d) => c = x
    /\ \A c \in Callers : OnDay(c, d) =>
          /\ callers[c].pc = "savePending" => anchors[d] = RecordOf(callers[c], "pending")
          /\ callers[c].pc = "saveConfirmed" => anchors[d] = RecordOf(callers[c], "confirmed")
          /\ callers[c].pc = "saveFailed" => anchors[d] = RecordOf(callers[c], "failed")
          /\ callers[c].pc \in {"send", "wait"} => anchors[d] = anchorsDb[d]
    /\ Quiet(d) /\ d \notin unsaved => anchors[d] = anchorsDb[d]

\* A day whose row is confirmed is confirmed in memory, where only the call
\* that confirmed it is still at work, to write the row.
Settled(d) ==
    /\ anchorsDb[d].status = "confirmed" => anchors[d].status = "confirmed"
    /\ \A c \in Callers : OnDay(c, d) =>
          /\ anchors[d].status = "confirmed" =>
                callers[c].pc = "saveConfirmed" /\ ~Beside(c, d)
          /\ callers[c].pc = "saveConfirmed" =>
                anchors[d].status = "confirmed" /\ anchorsDb[d].status # "confirmed"

\* The invariant of the records that the marks are for.
RecordsInv ==
    /\ \A d \in Days \ crowded : Agreed(d)
    /\ \A d \in Days \ shaken : Settled(d)

\* A day with a stored event is confirmed while it is yesterday, unless the next
\* day begins first or its root was registered by a transaction nobody waits
\* for: through failed sends and restarts the scheduler keeps trying.
SchedulerConfirmsYesterday ==
    \A d \in Days :
        (today = d + 1 /\ DailyRoot(d) \cap eventsDb # {}) ~>
            (anchors[d].status = "confirmed" \/ today # d + 1 \/ Lost(d))

\* The detailed anchoring seals and claims roots as the ledger allows.
Ledger == INSTANCE AnchorLedger WITH
    LedgerDays <- Days,
    LedgerRoots <- Roots,
    NoRoot <- {},
    sealed <- chain,
    claimed <- [d \in Days |->
        IF anchors[d].status = "confirmed" THEN anchors[d].root ELSE {}]

LedgerSpec == Ledger!LedgerSpec
=============================================================================
