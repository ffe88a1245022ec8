----------------------------- MODULE Idempotency -----------------------------
(***************************************************************************)
(* The idempotency-key protocol around createHarvest and transfer in the   *)
(* PostgreSQL mode: BatsService.claim, StoreService.claimIdempotency,      *)
(* completeIdempotency and releaseIdempotency, with the recorded operation *)
(* itself as one transaction that commits or fails.  A request is one HTTP *)
(* attempt; attempts with the same key overlap, fail and are resent.       *)
(*                                                                         *)
(* expiresAt is left out: in this mode only hydrate reads it, and the map  *)
(* it fills is consulted only for keys claimed since the restart.          *)
(***************************************************************************)
EXTENDS Integers, FiniteSets

CONSTANTS
    Requests,     \* bound: the HTTP attempts
    Key,          \* the idempotency key each attempt carries
    Body,         \* actor, endpoint and request hash of each attempt
    NoBody,       \* the body of no request
    FaultKinds,   \* which outside failures may happen
    MaxFaults     \* bound: how many of each kind

Keys == {Key[r] : r \in Requests}
Bodies == {Body[r] : r \in Requests} \cup {NoBody}
AllFaults == {"commitUnknown", "completeDb", "releaseDb", "crash"}

ASSUME IdempotencyAssumption ==
    /\ FaultKinds \subseteq AllFaults
    /\ MaxFaults \in Nat
    /\ \A r \in Requests : Body[r] # NoBody

VARIABLES
    pc,        \* the await each attempt is at
    read,      \* the row an attempt found when its insert met a conflict
    answer,    \* what the client of each attempt was told
    memory,    \* store.idempotencyKeys
    db,        \* rows of idempotency_keys
    effects,   \* attempts whose operation was committed
    faults     \* failures so far, of each kind

vars == <<pc, read, answer, memory, db, effects, faults>>

Pcs == {"new", "won", "lookup", "hydrate", "core", "committed", "completing",
        "releasing", "done"}
Answers == {"none", "created", "replayed", "mismatch", "inProgress", "error"}

\* An idempotency record; by is the attempt whose response is in responseBody.
Records == [status : {"none", "processing", "completed"}, body : Bodies,
            by : SUBSET Requests]
NoRecord == [status |-> "none", body |-> NoBody, by |-> {}]

TypeOK ==
    /\ pc \in [Requests -> Pcs]
    /\ read \in [Requests -> Records]
    /\ answer \in [Requests -> Answers]
    /\ memory \in [Keys -> Records]
    /\ db \in [Keys -> Records]
    /\ effects \in SUBSET Requests
    /\ faults \in [AllFaults -> 0..MaxFaults]

Init ==
    /\ pc = [r \in Requests |-> "new"]
    /\ read = [r \in Requests |-> NoRecord]
    /\ answer = [r \in Requests |-> "none"]
    /\ memory = [k \in Keys |-> NoRecord]
    /\ db = [k \in Keys |-> NoRecord]
    /\ effects = {}
    /\ faults = [kind \in AllFaults |-> 0]

Fault(kind) ==
    /\ kind \in FaultKinds
    /\ faults[kind] < MaxFaults
    /\ faults' = [faults EXCEPT ![kind] = @ + 1]

Goto(r, label) == pc' = [pc EXCEPT ![r] = label]

Finish(r, result) ==
    /\ pc' = [pc EXCEPT ![r] = "done"]
    /\ read' = [read EXCEPT ![r] = NoRecord]
    /\ answer' = [answer EXCEPT ![r] = result]

Claim(r) == [status |-> "processing", body |-> Body[r], by |-> {}]

\* Mutants: ON CONFLICT DO UPDATE, for any row or for a completed one.
InsertOver(r) ==
    /\ pc[r] = "new"
    /\ db' = [db EXCEPT ![Key[r]] = Claim(r)]
    /\ Goto(r, "won")
    /\ UNCHANGED <<read, answer, memory, effects, faults>>

InsertOverCompleted(r) ==
    /\ pc[r] = "new"
    /\ \/ /\ db[Key[r]].status # "processing"
          /\ db' = [db EXCEPT ![Key[r]] = Claim(r)]
          /\ Goto(r, "won")
       \/ /\ db[Key[r]].status = "processing"
          /\ Goto(r, "lookup")
          /\ UNCHANGED db
    /\ UNCHANGED <<read, answer, memory, effects, faults>>

\* INSERT ... ON CONFLICT DO NOTHING runs in the database.
Insert(r) ==
    /\ pc[r] = "new"
    /\ \/ /\ db[Key[r]] = NoRecord
          /\ db' = [db EXCEPT ![Key[r]] = Claim(r)]
          /\ Goto(r, "won")
       \/ /\ db[Key[r]] # NoRecord
          /\ Goto(r, "lookup")
          /\ UNCHANGED db
    /\ UNCHANGED <<read, answer, memory, effects, faults>>

\* One row was inserted: the claim is noted in memory and the operation runs.
Won(r) ==
    /\ pc[r] = "won"
    /\ memory' = [memory EXCEPT ![Key[r]] = Claim(r)]
    /\ Goto(r, "core")
    /\ UNCHANGED <<read, answer, db, effects, faults>>

\* findUniqueOrThrow reads the row that was in the way, if it is still there.
Lookup(r) ==
    /\ pc[r] = "lookup"
    /\ \/ /\ db[Key[r]] # NoRecord
          /\ read' = [read EXCEPT ![r] = db[Key[r]]]
          /\ Goto(r, "hydrate")
          /\ UNCHANGED answer
       \/ /\ db[Key[r]] = NoRecord
          /\ Finish(r, "error")
    /\ UNCHANGED <<memory, db, effects, faults>>

\* Mutant: the status of the record is handed out for the answer.
HydrateRaw(r) ==
    /\ pc[r] = "hydrate"
    /\ memory' = [memory EXCEPT ![Key[r]] = read[r]]
    /\ Finish(r, read[r].status)
    /\ UNCHANGED <<db, effects, faults>>

\* The row read replaces the record in memory, then claim decides the answer.
Hydrate(r) ==
    /\ pc[r] = "hydrate"
    /\ memory' = [memory EXCEPT ![Key[r]] = read[r]]
    /\ Finish(r,
          IF read[r].body # Body[r] THEN "mismatch"
          ELSE IF read[r].status = "completed" THEN "replayed" ELSE "inProgress")
    /\ UNCHANGED <<db, effects, faults>>

\* releaseIdempotency up to its await; it leaves alone what is not processing.
Release(r) ==
    \/ /\ memory[Key[r]].status = "processing"
       /\ memory' = [memory EXCEPT ![Key[r]] = NoRecord]
       /\ Goto(r, "releasing")
       /\ UNCHANGED <<read, answer>>
    \/ /\ memory[Key[r]].status # "processing"
       /\ Finish(r, "error")
       /\ UNCHANGED memory

\* Mutant: a failed operation completes its key.
CoreFailsCompleting(r) ==
    /\ pc[r] = "core"
    /\ Goto(r, "completing")
    /\ UNCHANGED <<read, answer, memory, db, effects, faults>>

\* createHarvestCore or transferCore throws without a trace in the database.
CoreFails(r) ==
    /\ pc[r] = "core"
    /\ Release(r)
    /\ UNCHANGED <<db, effects, faults>>

CoreCommits(r) ==
    /\ pc[r] = "core"
    /\ effects' = effects \cup {r}
    /\ Goto(r, "committed")
    /\ UNCHANGED <<read, answer, memory, db, faults>>

\* The batch transaction commits but its outcome never arrives: saveBatch throws.
CommitUnknown(r) ==
    /\ pc[r] = "committed"
    /\ Fault("commitUnknown")
    /\ Release(r)
    /\ UNCHANGED <<db, effects>>

\* completeIdempotency: the memory record first, then the row.
Complete(r) ==
    /\ pc[r] = "committed"
    /\ memory' = [memory EXCEPT ![Key[r]].status = "completed", ![Key[r]].by = {r}]
    /\ Goto(r, "completing")
    /\ UNCHANGED <<read, answer, db, effects, faults>>

CompleteSaved(r) ==
    /\ pc[r] = "completing"
    /\ db' = [db EXCEPT ![Key[r]].status = "completed", ![Key[r]].by = {r}]
    /\ Finish(r, "created")
    /\ UNCHANGED <<memory, effects, faults>>

\* The update fails inside the try: the catch block releases the key.
CompleteFails(r) ==
    /\ pc[r] = "completing"
    /\ Fault("completeDb")
    /\ Release(r)
    /\ UNCHANGED <<db, effects>>

\* deleteMany where status is processing.
Released(r) ==
    /\ pc[r] = "releasing"
    /\ db' = IF db[Key[r]].status = "processing"
             THEN [db EXCEPT ![Key[r]] = NoRecord] ELSE db
    /\ Finish(r, "error")
    /\ UNCHANGED <<memory, effects, faults>>

ReleaseFails(r) ==
    /\ pc[r] = "releasing"
    /\ Fault("releaseDb")
    /\ Finish(r, "error")
    /\ UNCHANGED <<memory, db, effects>>

\* The process dies; hydrate reloads the keys; clients see a broken connection.
Crash ==
    /\ Fault("crash")
    /\ memory' = db
    /\ pc' = [r \in Requests |-> IF pc[r] = "new" THEN "new" ELSE "done"]
    /\ read' = [r \in Requests |-> NoRecord]
    /\ answer' = [r \in Requests |->
          IF pc[r] \notin {"new", "done"} THEN "error" ELSE answer[r]]
    /\ UNCHANGED <<db, effects>>

Step(r) ==
    \/ Insert(r) \/ Won(r) \/ Lookup(r) \/ Hydrate(r)
    \/ CoreFails(r) \/ CoreCommits(r) \/ CommitUnknown(r)
    \/ Complete(r) \/ CompleteSaved(r) \/ CompleteFails(r)
    \/ Released(r) \/ ReleaseFails(r)

Next == (\E r \in Requests : Step(r)) \/ Crash

Spec == Init /\ [][Next]_vars

(***************************************************************************)
(* Properties.                                                             *)
(***************************************************************************)

\* The attempt holds its key: it inserted the row and has not let go of it.
Owns(r) == pc[r] \in {"won", "core", "committed", "completing", "releasing"}

\* Two attempts with one key are never both between claim and release, so the
\* guarded operation never runs twice at once, whatever fails in between.
OneOwner ==
    \A r, s \in Requests : Owns(r) /\ Owns(s) /\ Key[r] = Key[s] => r = s

\* A replay hands out the response of a committed operation, with that body.
RepliesAreEffects ==
    \A k \in Keys :
        db[k].status = "completed" =>
            \E r \in effects : db[k].by = {r} /\ Key[r] = k /\ Body[r] = db[k].body

\* A created answer is never taken back: its row stays completed with its
\* response, so every later attempt is answered with it.
CreatedIsReplayable ==
    [][\A k \in Keys : db[k].status = "completed" => db'[k] = db[k]]_vars

\* No answer about the commit or the completion of an operation was lost.
NothingLost == \A kind \in {"commitUnknown", "completeDb"} : faults[kind] = 0

\* One key, one committed operation.
AtMostOneEffect ==
    \A r, s \in effects : Key[r] = Key[s] => r = s

\* As long as that is so, no crash, failed release or order of resends makes a
\* key commit two operations.
DuplicateNeedsLostAnswer == NothingLost => AtMostOneEffect

\* What OneOwner rests on, the inductive invariant of the proofs: an attempt
\* that holds a key has its own row in processing and, while it runs, a record
\* in memory (so completeIdempotency never returns early), and it completes
\* only what was committed.
HoldsItsRow(r) ==
    /\ Owns(r) => db[Key[r]].status = "processing" /\ db[Key[r]].body = Body[r]
    /\ pc[r] \in {"core", "committed", "completing"} => memory[Key[r]] # NoRecord
    /\ pc[r] \in {"committed", "completing"} => r \in effects
    /\ pc[r] = "hydrate" => read[r] # NoRecord

IdempotencyInv ==
    /\ OneOwner
    /\ \A r \in Requests : HoldsItsRow(r)
    /\ RepliesAreEffects
=============================================================================
