------------------------------- MODULE Custody -------------------------------
(***************************************************************************)
(* The custody of one lot: createHarvestCore, transferCore and             *)
(* resolveOrRecoverBatch on the batch object that store.batches shares     *)
(* between handlers, and StoreService.saveBatch, whose transaction reads   *)
(* that object while other handlers change it.  A handler is cut into one  *)
(* action per await; an object is named after the request that made it.    *)
(*                                                                         *)
(* Stages are 1 harvested, 2 collected, 3 packed, 4 shipped.  The event of *)
(* a stage has the id event-<lot>-<stage>, so an object and the table hold *)
(* one event per stage, the last one: a repetition has the same row.  Left *)
(* out: the columns an update does not touch (quantity, eventTime, actor), *)
(* evidence rows, the closed day (Anchoring) and rejected harvests, which  *)
(* change nothing.                                                         *)
(***************************************************************************)
EXTENDS Integers, FiniteSets

CONSTANTS
    Requests,      \* the requests that concern the lot
    Stage,         \* the stage each request records
    Lookups,       \* those that are public lookups of the lot
    Score,         \* the risk score of the issues each request raises
    NoOne,         \* no request
    Boot,          \* the object that hydrate makes
    MaxInFlight,   \* bound: handlers under way at once
    FaultKinds,    \* which outside failures may happen
    MaxFaults      \* bound: how many of them

Stages == 1..4
AllFaults == {"tx", "answer", "crash"}

\* A lookup fabricates a harvest without issues; the others are POSTs.
ASSUME CustodyAssumption ==
    /\ Stage \in [Requests -> Stages]
    /\ Lookups \subseteq {r \in Requests : Stage[r] = 1}
    /\ Score \in [Requests -> 0..100]
    /\ \A r \in Lookups : Score[r] = 0
    /\ NoOne \notin Requests /\ Boot \notin Requests /\ NoOne # Boot
    /\ MaxInFlight \in Nat
    /\ FaultKinds \subseteq AllFaults
    /\ MaxFaults \in Nat

VARIABLES
    heap,     \* batch objects: a harvest's batch, a transfer's snapshot, hydrate's
    batch,    \* the object store.batches holds for the lot
    pc,       \* the await each handler is at
    held,     \* the object each handler saves
    sent,     \* the batches row each transaction took from its object
    written,  \* the events each transaction wrote
    lock,     \* the transaction that holds the lock of the lot's row
    row,      \* the row of batches
    rows,     \* the rows of epcis_events
    answer,   \* what each POST was answered
    faults,   \* failures so far
    stale,    \* transactions that took their row before another one stored one
    parted    \* since the last start: a save that others ran beside or built on
              \* was undone, or the lot was made twice; nothing reads these two

handlerVars == <<pc, held, sent, written, answer>>
dbVars == <<lock, row, rows>>
marks == <<stale, parted>>
vars == <<heap, batch, handlerVars, dbVars, faults, marks>>

Bands == {"green", "yellow", "red"}
Logs == [Stages -> Requests \cup {NoOne}]
Rows == [stage : 0..4, score : 0..100, band : Bands]
Objects == [head : Rows, log : Logs]
Places == Requests \cup {Boot}

Pcs == {"new", "begin", "locking", "writing", "committing", "committed", "done"}
Answers == {"none", "ok", "refused", "error", "lost"}

NoEvents == [s \in Stages |-> NoOne]
NoRow == [stage |-> 0, score |-> 0, band |-> "green"]
NoObject == [head |-> NoRow, log |-> NoEvents]

TypeOK ==
    /\ heap \in [Places -> Objects]
    /\ batch \in Places \cup {NoOne}
    /\ pc \in [Requests -> Pcs]
    /\ held \in [Requests -> Places]
    /\ sent \in [Requests -> Rows]
    /\ written \in [Requests -> Logs]
    /\ lock \in Requests \cup {NoOne}
    /\ row \in Rows
    /\ rows \in Logs
    /\ answer \in [Requests -> Answers]
    /\ faults \in 0..MaxFaults
    /\ stale \subseteq Requests /\ parted \in BOOLEAN

Init ==
    /\ heap = [o \in Places |-> NoObject]
    /\ batch = NoOne
    /\ pc = [r \in Requests |-> "new"]
    /\ held = [r \in Requests |-> Boot]
    /\ sent = [r \in Requests |-> NoRow]
    /\ written = [r \in Requests |-> NoEvents]
    /\ lock = NoOne
    /\ row = NoRow
    /\ rows = NoEvents
    /\ answer = [r \in Requests |-> "none"]
    /\ faults = 0
    /\ stale = {} /\ parted = FALSE

Fault(kind) ==
    /\ kind \in FaultKinds
    /\ faults < MaxFaults
    /\ faults' = faults + 1

InFlight == {r \in Requests : pc[r] \notin {"new", "done"}}
Saving == {r \in Requests : pc[r] \in {"locking", "writing", "committing"}}

Goto(r, label) == pc' = [pc EXCEPT ![r] = label]

(***************************************************************************)
(* The handlers up to the call of saveBatch.                               *)
(***************************************************************************)

RiskBand(score) ==
    IF score <= 30 THEN "green" ELSE IF score <= 70 THEN "yellow" ELSE "red"

Capped(score) == IF score <= 100 THEN score ELSE 100

\* A new batch with its harvest event.
Origin(r) ==
    [head |-> [stage |-> 1, score |-> Score[r], band |-> RiskBand(Score[r])],
     log |-> [NoEvents EXCEPT ![1] = r]]

\* Mutant: the score is not capped at 100.
AdvancedUncapped(object, r) ==
    [head |-> [object.head EXCEPT !.stage = Stage[r], !.score = @ + Score[r]],
     log |-> [object.log EXCEPT ![Stage[r]] = r]]

\* The pushes and assignments of transferCore.
Advanced(object, r) ==
    [head |-> [object.head EXCEPT !.stage = Stage[r], !.score = Capped(@ + Score[r])],
     log |-> [object.log EXCEPT ![Stage[r]] = r]]

Begin(r, object) ==
    /\ Cardinality(InFlight) < MaxInFlight
    /\ pc[r] = "new"
    /\ Goto(r, "begin")
    /\ held' = [held EXCEPT ![r] = object]
    /\ UNCHANGED <<sent, written, answer, dbVars, faults, stale>>

\* The lot is there, or a request that makes it is under way.
Exists == batch # NoOne \/ \E r \in InFlight : Stage[r] = 1

\* createHarvestCore makes its batch whether or not the lot id is in use.
Harvest(r) ==
    /\ Stage[r] = 1 /\ r \notin Lookups
    /\ Begin(r, r)
    /\ heap' = [heap EXCEPT ![r] = Origin(r)]
    /\ parted' = (parted \/ Exists)
    /\ UNCHANGED batch

\* resolveOrRecoverBatch fabricates a lot it does not find.
Lookup(r) ==
    /\ r \in Lookups
    /\ batch = NoOne
    /\ Begin(r, r)
    /\ heap' = [heap EXCEPT ![r] = Origin(r)]
    /\ parted' = (parted \/ Exists)
    /\ batch' = r

\* Mutant: the transfer is not compared with the stage of the batch.
TransferUnchecked(r) ==
    /\ Stage[r] # 1
    /\ batch # NoOne
    /\ Begin(r, batch)
    /\ heap' = [heap EXCEPT ![r] = heap[batch], ![batch] = Advanced(heap[batch], r)]
    /\ UNCHANGED <<batch, parted>>

\* transferCore clones the batch and then changes it in place.
Transfer(r) ==
    /\ Stage[r] # 1
    /\ batch # NoOne
    /\ Stage[r] = heap[batch].head.stage + 1
    /\ Begin(r, batch)
    /\ heap' = [heap EXCEPT ![r] = heap[batch], ![batch] = Advanced(heap[batch], r)]
    /\ UNCHANGED <<batch, parted>>

\* The lot is unknown, or validateTransfer blocks the step.
Refuse(r) ==
    /\ Stage[r] # 1 /\ pc[r] = "new"
    /\ \/ batch = NoOne
       \/ batch # NoOne /\ Stage[r] # heap[batch].head.stage + 1
    /\ Goto(r, "done")
    /\ answer' = [answer EXCEPT ![r] = "refused"]
    /\ UNCHANGED <<heap, batch, held, sent, written, dbVars, faults, marks>>

(***************************************************************************)
(* saveBatch.                                                              *)
(***************************************************************************)

\* Mutant: the handler is answered when its transaction has begun.
AnswerEarly(r) ==
    /\ pc[r] = "begin"
    /\ sent' = [sent EXCEPT ![r] = heap[held[r]].head]
    /\ answer' = [answer EXCEPT ![r] = IF r \in Lookups THEN "none" ELSE "ok"]
    /\ Goto(r, "locking")
    /\ UNCHANGED <<heap, batch, held, written, dbVars, faults, marks>>

\* The transaction has begun: the arguments of the batch upsert are read.
CaptureRow(r) ==
    /\ pc[r] = "begin"
    /\ sent' = [sent EXCEPT ![r] = heap[held[r]].head]
    /\ Goto(r, "locking")
    /\ UNCHANGED <<heap, batch, held, written, answer, dbVars, faults, marks>>

\* The upsert takes the lock of the row and keeps it until the end.
LockRow(r) ==
    /\ pc[r] = "locking"
    /\ lock = NoOne
    /\ lock' = r
    /\ Goto(r, "writing")
    /\ UNCHANGED <<heap, batch, held, sent, written, answer, row, rows, faults, marks>>

\* Mutant: only the event of the request is written.
WriteOwnEvent(r) ==
    /\ pc[r] = "writing"
    /\ written' = [written EXCEPT ![r] = [NoEvents EXCEPT ![Stage[r]] = r]]
    /\ Goto(r, "committing")
    /\ UNCHANGED <<heap, batch, held, sent, answer, dbVars, faults, marks>>

\* The loop over batch.events follows the live array to its end.
WriteEvents(r) ==
    /\ pc[r] = "writing"
    /\ written' = [written EXCEPT ![r] = heap[held[r]].log]
    /\ Goto(r, "committing")
    /\ UNCHANGED <<heap, batch, held, sent, answer, dbVars, faults, marks>>

\* Mutant: the events of the lot are replaced by those of the object.
Replaced(log) == log

\* An upsert per event: the events written replace those of their stages.
Upserted(log) == [s \in Stages |-> IF log[s] = NoOne THEN rows[s] ELSE log[s]]

Store(r) ==
    /\ pc[r] = "committing"
    /\ row' = sent[r]
    /\ rows' = Upserted(written[r])
    /\ lock' = NoOne
    /\ stale' = (stale \cup Saving) \ {r}

Commit(r) ==
    /\ Store(r)
    /\ Goto(r, "committed")
    /\ UNCHANGED <<heap, batch, held, sent, written, answer, faults, parted>>

\* After the commit the object saved goes into store.batches.
Finish(r) ==
    /\ pc[r] = "committed"
    /\ batch' = held[r]
    /\ Goto(r, "done")
    /\ answer' = [answer EXCEPT ![r] = IF r \in Lookups THEN "none" ELSE "ok"]
    /\ UNCHANGED <<heap, held, sent, written, dbVars, faults, marks>>

\* Mutant: the snapshot is not put back.
AfterFailureKept(r) == batch

\* What a failed save leaves in store.batches: a transfer its snapshot, a
\* harvest nothing, a lookup the batch it fabricated.
AfterFailure(r) == IF Stage[r] # 1 THEN r ELSE batch

\* The transfer is not the last that changed its object, or not alone.
Shared(r) == Stage[r] # 1 /\ (InFlight # {r} \/ heap[held[r]].head.stage # Stage[r])

\* The save rejects: the handler ends, a POST with an error.
Reject(r) ==
    /\ parted' = (parted \/ Shared(r))
    /\ batch' = AfterFailure(r)
    /\ Goto(r, "done")
    /\ answer' = [answer EXCEPT ![r] = IF r \in Lookups THEN "none" ELSE "error"]
    /\ UNCHANGED <<heap, held, sent, written>>

\* The transaction is rolled back.
SaveFails(r) ==
    /\ pc[r] \in {"begin", "locking", "writing", "committing"}
    /\ Fault("tx")
    /\ Reject(r)
    /\ lock' = IF lock = r THEN NoOne ELSE lock
    /\ stale' = stale \ {r}
    /\ UNCHANGED <<row, rows>>

\* The transaction commits, and the answer to COMMIT is lost.
CommitAnswerLost(r) ==
    /\ Store(r)
    /\ Fault("answer")
    /\ Reject(r)

\* The process dies, connections break; hydrate reads the lot, its events in the order of time.
Crash ==
    /\ Fault("crash")
    /\ heap' = [heap EXCEPT ![Boot] = [head |-> row, log |-> rows]]
    /\ batch' = IF row.stage = 0 THEN NoOne ELSE Boot
    /\ lock' = NoOne
    /\ pc' = [r \in Requests |-> IF r \in InFlight THEN "done" ELSE pc[r]]
    /\ answer' = [r \in Requests |->
          IF r \in InFlight \ Lookups THEN "lost" ELSE answer[r]]
    /\ stale' = {} /\ parted' = FALSE
    /\ UNCHANGED <<held, sent, written, row, rows>>

Step(r) ==
    \/ Harvest(r) \/ Lookup(r) \/ Transfer(r) \/ Refuse(r)
    \/ CaptureRow(r) \/ LockRow(r) \/ WriteEvents(r) \/ Commit(r) \/ Finish(r)
    \/ SaveFails(r) \/ CommitAnswerLost(r)

Next == (\E r \in Requests : Step(r)) \/ Crash

Spec == Init /\ [][Next]_vars

(***************************************************************************)
(* Properties.                                                             *)
(***************************************************************************)

\* The stages an event of which is there, and the custody chain without gaps.
Recorded(log) == {s \in Stages : log[s] # NoOne}
Unbroken(log) == \A s \in Recorded(log) : \A t \in 1..s : t \in Recorded(log)

\* However saves of one lot overlap, fail or are cut short, the events table
\* never holds a stage without all the stages before it.
CustodyUnbroken == Unbroken(rows)

\* An answered POST survives: its stage is in the events table for good.
AnsweredIsStored ==
    \A r \in Requests : answer[r] = "ok" => Stage[r] \in Recorded(rows)

\* The lot as the database has it is well-formed: scores, bands and stages stay
\* in their ranges whatever is added up, and the custody chain has no gaps.
LotInv == TypeOK /\ CustodyUnbroken

\* Seen from outside, saves that overlap, fail and are cut short are one chain
\* of requests, each in its place, that never gets shorter, and answers that
\* are never taken back.
Chain == INSTANCE CustodyChain WITH
    Posts <- Requests,
    StageOf <- Stage,
    NoPost <- NoOne,
    chain <- rows,
    vouched <- {r \in Requests : answer[r] = "ok"}

ChainSpec == Chain!ChainSpec

\* An object, or the row and the rows it is read back as, is sound: the batch
\* stands at a stage whose event it has, and its chain is unbroken.
Sound(head, log) ==
    /\ Unbroken(log)
    /\ head.stage # 0 => head.stage \in Recorded(log)

\* The object is not one a request has yet to make.
Made(o) == o = Boot \/ pc[o] # "new"

\* A handler under way saves an object that has its event; what its
\* transaction took from the object, and is about to commit, is sound.
HandlerInv(r) ==
    /\ r \in InFlight =>
          /\ Made(held[r])
          /\ heap[held[r]].head.stage # 0
          /\ Stage[r] \in Recorded(heap[held[r]].log)
          /\ Stage[r] # 1 => heap[r].head.stage # 0
    /\ pc[r] \in {"locking", "writing", "committing"} =>
          /\ sent[r].stage # 0
          /\ sent[r].stage \in Recorded(heap[held[r]].log)
    /\ pc[r] = "committing" =>
          /\ Unbroken(written[r])
          /\ Stage[r] \in Recorded(written[r])
          /\ sent[r].stage \in Recorded(written[r])
    /\ pc[r] = "committed" => Stage[r] \in Recorded(rows)

\* The inductive invariant of the proofs: every object, and the lot as the
\* database holds it, is sound, whatever handlers do with them.
CustodyInv ==
    /\ \A o \in Places : Sound(heap[o].head, heap[o].log)
    /\ batch # NoOne => Made(batch) /\ heap[batch].head.stage # 0
    /\ \A r \in Requests : HandlerInv(r)
    /\ Sound(row, rows)
    /\ AnsweredIsStored

\* With no handler under way, memory holds the lot as the database does.
QuietMemoryMatchesDb ==
    InFlight = {} =>
        IF batch = NoOne THEN row = NoRow
        ELSE heap[batch] = [head |-> row, log |-> rows]

\* A POST answered with an error has left no event behind.
RefusedLeavesNoTrace ==
    \A r \in Requests : answer[r] \in {"error", "refused"} => rows[Stage[r]] # r

\* A handler that holds the row, as every one that writes does.
HoldsRow(r) == pc[r] \in {"writing", "committing"} => lock = r

\* While memory and database have not parted: the handlers under way save one
\* object, the batch, or one of them is making it; the row is at most one stage
\* ahead of the batch, and not ahead of what a handler saves; a transaction
\* took a row no older than the one it finds, unless it is stale.
Together(r) ==
    /\ IF batch = NoOne
       THEN InFlight = {r} /\ Stage[r] = 1 /\ heap[held[r]].head.stage = 1
       ELSE held[r] = batch
    /\ row.stage <= heap[held[r]].head.stage
    /\ Stage[r] # 1 => held[r] # r /\ heap[r].head.stage = Stage[r] - 1
    /\ r \in Saving =>
          /\ sent[r].stage <= heap[held[r]].head.stage
          /\ row.stage <= sent[r].stage \/ r \in stale

RowInv ==
    /\ \A r \in Requests : HoldsRow(r)
    /\ ~parted =>
          /\ \A r \in InFlight : Together(r)
          /\ row.stage <= IF batch = NoOne THEN 1 ELSE heap[batch].head.stage + 1

\* The stage in the batches row goes back only by a transaction that had taken
\* its row before another one stored one, or after memory and database had
\* parted, and then until the next start at the latest: other overlaps,
\* rollbacks, lost answers to COMMIT, lookups and restarts never do it.
RowNeverGoesBack ==
    [][row'.stage < row.stage => lock \in stale \/ parted]_row

=============================================================================
