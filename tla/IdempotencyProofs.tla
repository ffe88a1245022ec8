-------------------------- MODULE IdempotencyProofs --------------------------
(***************************************************************************)
(* Whatever fails and however attempts interleave: a key has one owner, a  *)
(* replay is the response of a committed operation, and a created answer   *)
(* is never taken back.                                                    *)
(***************************************************************************)
EXTENDS Idempotency, TLAPS

(***************************************************************************)
(* Types.                                                                  *)
(***************************************************************************)

\* What is written into a row or a map is an idempotency record.
LEMMA RecordsWritten ==
    ASSUME NEW r \in Requests
    PROVE  /\ Key[r] \in Keys
           /\ Claim(r) \in Records
           /\ NoRecord \in Records
           /\ \A old \in Records :
                 [old EXCEPT !.status = "completed", !.by = {r}] \in Records
BY DEF Keys, Claim, Records, NoRecord, Bodies

\* An attempt moves to another await.
LEMMA GotoKeepsType ==
    ASSUME TypeOK, NEW r \in Requests, NEW label \in Pcs, Goto(r, label)
    PROVE  pc' \in [Requests -> Pcs]
BY DEF TypeOK, Goto

\* An attempt answers its client.
LEMMA FinishKeepsType ==
    ASSUME TypeOK, NEW r \in Requests, NEW result \in Answers, Finish(r, result)
    PROVE  /\ pc' \in [Requests -> Pcs]
           /\ read' \in [Requests -> Records]
           /\ answer' \in [Requests -> Answers]
BY RecordsWritten DEF TypeOK, Finish, Pcs

\* The catch block keeps the types of what it touches.
LEMMA ReleaseKeepsType ==
    ASSUME TypeOK, NEW r \in Requests, Release(r)
    PROVE  /\ pc' \in [Requests -> Pcs]
           /\ read' \in [Requests -> Records]
           /\ answer' \in [Requests -> Answers]
           /\ memory' \in [Keys -> Records]
<1>1. CASE memory[Key[r]].status = "processing"
  <2>1. "releasing" \in Pcs
    BY DEF Pcs
  <2>2. /\ Goto(r, "releasing")
        /\ memory' = [memory EXCEPT ![Key[r]] = NoRecord]
        /\ UNCHANGED <<read, answer>>
    BY <1>1 DEF Release
  <2>3. QED
    BY <2>1, <2>2, GotoKeepsType, RecordsWritten DEF TypeOK
<1>2. CASE memory[Key[r]].status # "processing"
  <2>1. "error" \in Answers
    BY DEF Answers
  <2>2. Finish(r, "error") /\ UNCHANGED memory
    BY <1>2 DEF Release
  <2>3. QED
    BY <2>1, <2>2, FinishKeepsType DEF TypeOK
<1>3. QED
  BY <1>1, <1>2

\* One more failure is within the bound.
LEMMA FaultKeepsType ==
    ASSUME TypeOK, NEW kind, Fault(kind)
    PROVE  faults' \in [AllFaults -> 0..MaxFaults]
BY IdempotencyAssumption DEF TypeOK, Fault

\* A step of an attempt keeps the types.
LEMMA StepKeepsType ==
    ASSUME TypeOK, NEW r \in Requests, Step(r) PROVE TypeOK'
<1>0. /\ Key[r] \in Keys /\ Claim(r) \in Records /\ NoRecord \in Records
      /\ \A old \in Records :
            [old EXCEPT !.status = "completed", !.by = {r}] \in Records
  BY RecordsWritten
<1>1. CASE Insert(r)
  <2>1. db' \in [Keys -> Records]
    BY <1>0, <1>1 DEF Insert, TypeOK
  <2>2. pc' \in [Requests -> Pcs]
    BY <1>1 DEF Insert, TypeOK, Goto, Pcs
  <2>3. QED
    BY <1>1, <2>1, <2>2 DEF Insert, TypeOK
<1>2. CASE Won(r)
  BY <1>0, <1>2 DEF Won, TypeOK, Goto, Pcs
<1>3. CASE Lookup(r)
  <2>1. CASE db[Key[r]] # NoRecord
    <3>1. /\ read' = [read EXCEPT ![r] = db[Key[r]]]
          /\ Goto(r, "hydrate")
          /\ UNCHANGED <<answer, memory, db, effects, faults>>
      BY <1>3, <2>1 DEF Lookup
    <3>2. QED
      BY <1>0, <3>1 DEF TypeOK, Goto, Pcs
  <2>2. CASE db[Key[r]] = NoRecord
    <3>1. Finish(r, "error") /\ UNCHANGED <<memory, db, effects, faults>>
      BY <1>3, <2>2 DEF Lookup
    <3>2. QED
      BY <3>1, FinishKeepsType DEF TypeOK, Answers
  <2>3. QED
    BY <2>1, <2>2
<1>4. CASE Hydrate(r)
  <2>1. PICK result \in Answers : Finish(r, result)
    BY <1>4 DEF Hydrate, Answers
  <2>2. QED
    BY <1>4, <2>1, FinishKeepsType DEF Hydrate, TypeOK
<1>5. CASE CoreFails(r)
  BY <1>5, ReleaseKeepsType DEF CoreFails, TypeOK
<1>6. CASE CoreCommits(r)
  BY <1>6 DEF CoreCommits, TypeOK, Goto, Pcs
<1>7. CASE CommitUnknown(r)
  BY <1>7, ReleaseKeepsType, FaultKeepsType DEF CommitUnknown, TypeOK
<1>8. CASE Complete(r)
  <2>1. memory' = [memory EXCEPT ![Key[r]] =
                       [memory[Key[r]] EXCEPT !.status = "completed", !.by = {r}]]
    BY <1>8 DEF Complete
  <2>2. memory' \in [Keys -> Records]
    BY <1>0, <2>1 DEF TypeOK
  <2>3. QED
    BY <1>8, <2>2 DEF Complete, TypeOK, Goto, Pcs
<1>9. CASE CompleteSaved(r)
  <2>1. db' = [db EXCEPT ![Key[r]] =
                   [db[Key[r]] EXCEPT !.status = "completed", !.by = {r}]]
    BY <1>9 DEF CompleteSaved
  <2>2. db' \in [Keys -> Records]
    BY <1>0, <2>1 DEF TypeOK
  <2>3. QED
    BY <1>9, <2>2, FinishKeepsType DEF CompleteSaved, TypeOK, Answers
<1>10. CASE CompleteFails(r)
  BY <1>10, ReleaseKeepsType, FaultKeepsType DEF CompleteFails, TypeOK
<1>11. CASE Released(r)
  BY <1>0, <1>11, FinishKeepsType DEF Released, TypeOK, Answers
<1>12. CASE ReleaseFails(r)
  BY <1>12, FinishKeepsType, FaultKeepsType DEF ReleaseFails, TypeOK, Answers
<1>13. QED
  BY <1>1, <1>2, <1>3, <1>4, <1>5, <1>6, <1>7, <1>8, <1>9, <1>10, <1>11, <1>12
     DEF Step

\* A crash keeps the types.
LEMMA CrashKeepsType ==
    ASSUME TypeOK, Crash PROVE TypeOK'
<1>1. NoRecord \in Records
  BY DEF NoRecord, Records, Bodies
<1>2. QED
  BY <1>1, FaultKeepsType DEF Crash, TypeOK, Pcs, Answers

\* Every variable keeps its type in every reachable state.
THEOREM IdempotencyTypeCorrect == Spec => []TypeOK
<1>1. Init => TypeOK
  BY IdempotencyAssumption
     DEF Init, TypeOK, Pcs, Answers, NoRecord, Records, Bodies
<1>2. TypeOK /\ [Next]_vars => TypeOK'
  <2> SUFFICES ASSUME TypeOK, [Next]_vars PROVE TypeOK'
    OBVIOUS
  <2>1. CASE UNCHANGED vars
    BY <2>1 DEF vars, TypeOK
  <2>2. QED
    BY <2>1, StepKeepsType, CrashKeepsType DEF Next
<1>3. QED
  BY <1>1, <1>2, PTL DEF Spec

(***************************************************************************)
(* The inductive invariant.                                                *)
(***************************************************************************)

\* A step moves the attempt that takes it and nobody else.
LEMMA OthersStay ==
    ASSUME TypeOK, NEW r \in Requests, Step(r), NEW s \in Requests, s # r
    PROVE  pc'[s] = pc[s] /\ read'[s] = read[s]
BY DEF Step, Insert, Won, Lookup, Hydrate, CoreFails, CoreCommits, CommitUnknown,
       Complete, CompleteSaved, CompleteFails, Released, ReleaseFails, Release,
       Goto, Finish, TypeOK

\* Only a free key is acquired: an attempt owns its key after a step if it
\* owned it before, or if its insert met no row.
LEMMA HowToOwn ==
    ASSUME TypeOK, NEW r \in Requests, Step(r), Owns(r)'
    PROVE  Owns(r) \/ (db[Key[r]] = NoRecord /\ Insert(r))
BY DEF Step, Insert, Won, Lookup, Hydrate, CoreFails, CoreCommits, CommitUnknown,
       Complete, CompleteSaved, CompleteFails, Released, ReleaseFails, Release,
       Goto, Finish, TypeOK, Owns

\* A step leaves the key with one owner at most.
LEMMA OneOwnerStays ==
    ASSUME TypeOK, IdempotencyInv, NEW r \in Requests, Step(r)
    PROVE  OneOwner'
<1> SUFFICES ASSUME NEW s \in Requests, NEW t \in Requests,
                    Owns(s)', Owns(t)', Key[s] = Key[t], s # t
             PROVE  FALSE
  BY DEF OneOwner
<1>1. ASSUME NEW x \in Requests, Owns(x)', x # r PROVE Owns(x)
  BY <1>1, OthersStay DEF Owns
<1>2. Owns(s) \/ Owns(t)
  BY <1>1
<1>3. CASE Owns(s) /\ Owns(t)
  BY <1>3 DEF IdempotencyInv, OneOwner
<1>4. ASSUME NEW x \in Requests, NEW y \in Requests, Key[x] = Key[y],
             Owns(x), Owns(y)', ~Owns(y)
      PROVE  FALSE
  <2>1. y = r
    BY <1>4, <1>1
  <2>2. db[Key[x]] = NoRecord
    BY <1>4, <2>1, HowToOwn
  <2>3. db[Key[x]].status = "processing"
    BY <1>4 DEF IdempotencyInv, HoldsItsRow
  <2>4. QED
    BY <2>2, <2>3 DEF NoRecord
<1>5. QED
  BY <1>2, <1>3, <1>4

\* The rows of the keys an attempt does not carry are left alone, and so is
\* the row of its own key while another attempt owns it.
LEMMA RowsOfOthersStay ==
    ASSUME TypeOK, IdempotencyInv, NEW r \in Requests, Step(r),
           NEW s \in Requests, Owns(s), s # r
    PROVE  /\ db'[Key[s]] = db[Key[s]]
           /\ memory[Key[s]] # NoRecord => memory'[Key[s]] # NoRecord
<1>1. Owns(r) => Key[r] # Key[s]
  BY DEF IdempotencyInv, OneOwner
<1>2. db[Key[s]] # NoRecord
  BY DEF IdempotencyInv, HoldsItsRow, NoRecord
<1>3. Key[r] \in Keys /\ Key[s] \in Keys
  BY RecordsWritten
<1>4. ASSUME Owns(r)
      PROVE  /\ db'[Key[s]] = db[Key[s]]
             /\ memory'[Key[s]] = memory[Key[s]]
  BY <1>1, <1>3, <1>4
     DEF Step, Insert, Won, Lookup, Hydrate, CoreFails, CoreCommits, CommitUnknown,
         Complete, CompleteSaved, CompleteFails, Released, ReleaseFails, Release,
         TypeOK, Owns
<1>5. CASE Insert(r)
  BY <1>2, <1>3, <1>5 DEF Insert, TypeOK
<1>6. CASE Lookup(r)
  BY <1>6 DEF Lookup
<1>7. CASE Hydrate(r)
  <2>1. read[r] # NoRecord
    BY <1>7 DEF IdempotencyInv, HoldsItsRow, Hydrate
  <2>2. QED
    BY <1>3, <1>7, <2>1 DEF Hydrate, TypeOK
<1>8. Owns(r) \/ Insert(r) \/ Lookup(r) \/ Hydrate(r)
  BY DEF Step, Won, CoreFails, CoreCommits, CommitUnknown, Complete,
         CompleteSaved, CompleteFails, Released, ReleaseFails, Owns
<1>9. QED
  BY <1>4, <1>5, <1>6, <1>7, <1>8

\* What is committed stays committed.
LEMMA EffectsGrow ==
    ASSUME NEW r \in Requests, Step(r) PROVE effects \subseteq effects'
BY DEF Step, Insert, Won, Lookup, Hydrate, CoreFails, CoreCommits, CommitUnknown,
       Complete, CompleteSaved, CompleteFails, Released, ReleaseFails

\* An attempt that does not move goes on holding its row.
LEMMA OthersHoldTheirRow ==
    ASSUME TypeOK, IdempotencyInv, NEW r \in Requests, Step(r),
           NEW s \in Requests, s # r
    PROVE  HoldsItsRow(s)'
<1>1. HoldsItsRow(s)
  BY DEF IdempotencyInv
<1>2. CASE Owns(s)
  BY <1>1, <1>2, OthersStay, RowsOfOthersStay, EffectsGrow DEF HoldsItsRow, Owns
<1>3. CASE ~Owns(s)
  BY <1>1, <1>3, OthersStay DEF HoldsItsRow, Owns
<1>4. QED
  BY <1>2, <1>3

\* Nor does the attempt that moves lose its row while it goes on.
LEMMA MoverHoldsItsRow ==
    ASSUME TypeOK, IdempotencyInv, NEW r \in Requests, Step(r)
    PROVE  HoldsItsRow(r)'
<1> USE DEF HoldsItsRow, Owns
<1>0. Key[r] \in Keys
  BY RecordsWritten
<1>1. HoldsItsRow(r)
  BY DEF IdempotencyInv
<1>2. CASE Insert(r)
  BY <1>0, <1>1, <1>2 DEF Insert, TypeOK, Goto, Claim
<1>3. CASE Won(r)
  BY <1>0, <1>1, <1>3 DEF Won, TypeOK, Goto, Claim, NoRecord
<1>4. CASE Lookup(r)
  BY <1>0, <1>1, <1>4 DEF Lookup, TypeOK, Goto, Finish
<1>5. CASE Hydrate(r)
  BY <1>0, <1>1, <1>5 DEF Hydrate, TypeOK, Finish
<1>6. ASSUME Release(r), UNCHANGED <<db, effects>>, Owns(r) PROVE HoldsItsRow(r)'
  BY <1>0, <1>1, <1>6 DEF Release, TypeOK, Goto, Finish
<1>7. CASE CoreFails(r)
  BY <1>6, <1>7 DEF CoreFails
<1>8. CASE CoreCommits(r)
  BY <1>0, <1>1, <1>8 DEF CoreCommits, TypeOK, Goto
<1>9. CASE CommitUnknown(r)
  BY <1>6, <1>9 DEF CommitUnknown
<1>10. CASE Complete(r)
  <2>1. memory'[Key[r]].status = "completed"
    <3>1. memory'[Key[r]] =
              [memory[Key[r]] EXCEPT !.status = "completed", !.by = {r}]
      BY <1>0, <1>10 DEF Complete, TypeOK
    <3>2. memory[Key[r]] \in Records
      BY <1>0 DEF TypeOK
    <3>3. QED
      BY <3>1, <3>2 DEF Records
  <2>2. pc'[r] = "completing" /\ pc[r] = "committed"
    BY <1>10 DEF Complete, TypeOK, Goto
  <2>3. UNCHANGED <<db, effects>>
    BY <1>10 DEF Complete
  <2>4. QED
    BY <1>1, <2>1, <2>2, <2>3 DEF NoRecord
<1>11. CASE CompleteSaved(r)
  BY <1>11 DEF CompleteSaved, TypeOK, Finish
<1>12. CASE CompleteFails(r)
  BY <1>6, <1>12 DEF CompleteFails
<1>13. CASE Released(r)
  BY <1>13 DEF Released, TypeOK, Finish
<1>14. CASE ReleaseFails(r)
  BY <1>14 DEF ReleaseFails, TypeOK, Finish
<1>15. QED
  BY <1>2, <1>3, <1>4, <1>5, <1>7, <1>8, <1>9, <1>10, <1>11, <1>12, <1>13, <1>14
     DEF Step

\* A completed row is written by the owner of the key, and never changed.
LEMMA CompletedRows ==
    ASSUME TypeOK, IdempotencyInv, NEW r \in Requests, Step(r), NEW k \in Keys
    PROVE  /\ db[k].status = "completed" => db'[k] = db[k]
           /\ db'[k] # db[k] /\ db'[k].status = "completed" =>
                 /\ r \in effects /\ Key[r] = k
                 /\ db'[k].by = {r} /\ db'[k].body = Body[r]
<1>1. Owns(r) => db[Key[r]].status = "processing" /\ db[Key[r]].body = Body[r]
  BY DEF IdempotencyInv, HoldsItsRow
<1>2. CASE Insert(r)
  <2>1. CASE db[Key[r]] = NoRecord /\ db' = [db EXCEPT ![Key[r]] = Claim(r)]
    <3>1. CASE k = Key[r]
      <4>1. db[k].status = "none" /\ db'[k].status = "processing"
        BY <2>1, <3>1 DEF TypeOK, Claim, NoRecord
      <4>2. QED
        BY <4>1
    <3>2. CASE k # Key[r]
      BY <2>1, <3>2 DEF TypeOK
    <3>3. QED
      BY <3>1, <3>2
  <2>2. CASE UNCHANGED db
    BY <2>2
  <2>3. QED
    BY <1>2, <2>1, <2>2 DEF Insert
<1>3. CASE CompleteSaved(r)
  <2>1. r \in effects
    BY <1>3 DEF IdempotencyInv, HoldsItsRow, CompleteSaved
  <2>2. db[Key[r]] \in Records /\ Key[r] \in Keys
    BY RecordsWritten DEF TypeOK
  <2>3. db' = [db EXCEPT ![Key[r]] =
                   [db[Key[r]] EXCEPT !.status = "completed", !.by = {r}]]
    BY <1>3 DEF CompleteSaved
  <2>4. db[Key[r]].status = "processing" /\ db[Key[r]].body = Body[r]
    BY <1>1, <1>3 DEF CompleteSaved, Owns
  <2>5. CASE k # Key[r]
    BY <2>3, <2>5 DEF TypeOK
  <2>6. CASE k = Key[r]
    <3>1. db'[k] = [db[Key[r]] EXCEPT !.status = "completed", !.by = {r}]
      BY <2>2, <2>3, <2>6 DEF TypeOK
    <3>2. db'[k].by = {r} /\ db'[k].body = Body[r]
      BY <2>2, <2>4, <3>1 DEF Records
    <3>3. QED
      BY <2>1, <2>4, <2>6, <3>2
  <2>7. QED
    BY <2>5, <2>6
<1>4. CASE Released(r)
  BY <1>4 DEF Released, TypeOK, NoRecord
<1>5. CASE UNCHANGED db
  BY <1>5
<1>6. QED
  BY <1>2, <1>3, <1>4, <1>5
     DEF Step, Won, Lookup, Hydrate, CoreFails, CoreCommits, CommitUnknown,
         Complete, CompleteFails, ReleaseFails

\* Every replay stays the response of a committed operation.
LEMMA RepliesStayEffects ==
    ASSUME TypeOK, IdempotencyInv, NEW r \in Requests, Step(r)
    PROVE  RepliesAreEffects'
<1> SUFFICES ASSUME NEW k \in Keys, db'[k].status = "completed"
             PROVE  \E s \in effects' :
                        db'[k].by = {s} /\ Key[s] = k /\ Body[s] = db'[k].body
  BY DEF RepliesAreEffects
<1>1. CASE db'[k] = db[k]
  BY <1>1, EffectsGrow DEF IdempotencyInv, RepliesAreEffects
<1>2. CASE db'[k] # db[k]
  BY <1>2, CompletedRows, EffectsGrow
<1>3. QED
  BY <1>1, <1>2

\* A restart leaves no attempt in flight and every row as it was.
LEMMA CrashKeepsInv ==
    ASSUME TypeOK, IdempotencyInv, Crash PROVE IdempotencyInv'
<1>1. \A r \in Requests : pc'[r] \in {"new", "done"}
  BY DEF Crash
<1>2. OneOwner' /\ \A r \in Requests : HoldsItsRow(r)'
  BY <1>1 DEF OneOwner, HoldsItsRow, Owns
<1>3. RepliesAreEffects'
  BY DEF IdempotencyInv, RepliesAreEffects, Crash
<1>4. QED
  BY <1>2, <1>3 DEF IdempotencyInv

\* The inductive invariant holds in every reachable state.
THEOREM IdempotencyInvariant == Spec => []IdempotencyInv
<1>1. Init => IdempotencyInv
  BY DEF Init, IdempotencyInv, OneOwner, HoldsItsRow, Owns, RepliesAreEffects, NoRecord
<1>2. TypeOK /\ IdempotencyInv /\ [Next]_vars => IdempotencyInv'
  <2> SUFFICES ASSUME TypeOK, IdempotencyInv, [Next]_vars PROVE IdempotencyInv'
    OBVIOUS
  <2>1. ASSUME NEW r \in Requests, Step(r) PROVE IdempotencyInv'
    BY <2>1, OneOwnerStays, OthersHoldTheirRow, MoverHoldsItsRow, RepliesStayEffects
       DEF IdempotencyInv
  <2>2. CASE UNCHANGED vars
    BY <2>2 DEF vars, IdempotencyInv, OneOwner, HoldsItsRow, Owns, RepliesAreEffects
  <2>3. QED
    BY <2>1, <2>2, CrashKeepsInv DEF Next
<1>3. QED
  BY <1>1, <1>2, IdempotencyTypeCorrect, PTL DEF Spec

\* No two attempts with one key are ever between claim and release together.
THEOREM KeysHaveOneOwner == Spec => []OneOwner
<1>1. IdempotencyInv => OneOwner
  BY DEF IdempotencyInv
<1>2. QED
  BY <1>1, IdempotencyInvariant, PTL

\* Every completed row holds the response of a committed operation.
THEOREM ReplaysAreCommitted == Spec => []RepliesAreEffects
<1>1. IdempotencyInv => RepliesAreEffects
  BY DEF IdempotencyInv
<1>2. QED
  BY <1>1, IdempotencyInvariant, PTL

\* A completed row is never changed again.
THEOREM CreatedAnswersLast == Spec => CreatedIsReplayable
<1>1. TypeOK /\ IdempotencyInv /\ [Next]_vars =>
          [\A k \in Keys : db[k].status = "completed" => db'[k] = db[k]]_vars
  <2> SUFFICES ASSUME TypeOK, IdempotencyInv, Next, NEW k \in Keys,
                      db[k].status = "completed"
               PROVE  db'[k] = db[k]
    OBVIOUS
  <2>1. CASE Crash
    BY <2>1 DEF Crash
  <2>2. QED
    BY <2>1, CompletedRows DEF Next
<1>2. QED
  BY <1>1, IdempotencyTypeCorrect, IdempotencyInvariant, PTL DEF Spec, CreatedIsReplayable

(***************************************************************************)
(* Without lost answers.                                                   *)
(***************************************************************************)

\* The key of a committed operation stays taken: its row is there, and nobody
\* owns it but the attempt that committed, on its way to completion.
KeyIsTaken(e) ==
    /\ db[Key[e]] # NoRecord
    /\ \A s \in Requests :
          Owns(s) /\ Key[s] = Key[e] => s = e /\ pc[e] \in {"committed", "completing"}

EffectsInv == NothingLost => AtMostOneEffect /\ \A e \in effects : KeyIsTaken(e)

\* What was lost stays lost.
LEMMA FaultsGrow ==
    ASSUME TypeOK, Next, NothingLost' PROVE NothingLost
<1>1. \A kind \in AllFaults : faults[kind] <= faults'[kind]
  <2>1. ASSUME NEW kind, Fault(kind)
        PROVE  \A k \in AllFaults : faults[k] <= faults'[k]
    BY <2>1 DEF Fault, TypeOK
  <2>2. CASE UNCHANGED faults
    BY <2>2, IdempotencyAssumption, SMTT(60) DEF TypeOK
  <2>3. UNCHANGED faults \/ \E kind : Fault(kind)
    BY DEF Next, Step, Insert, Won, Lookup, Hydrate, CoreFails, CoreCommits,
           CommitUnknown, Complete, CompleteSaved, CompleteFails, Released,
           ReleaseFails, Crash
  <2>4. QED
    BY <2>1, <2>2, <2>3
<1>2. \A kind \in AllFaults : faults[kind] \in Nat
  BY IdempotencyAssumption DEF TypeOK
<1>3. QED
  BY <1>1, <1>2 DEF NothingLost, AllFaults

\* Only a commit adds an operation.
LEMMA HowToCommit ==
    ASSUME NEW r \in Requests, Step(r)
    PROVE  effects' = effects \/ (CoreCommits(r) /\ effects' = effects \cup {r})
BY DEF Step, Insert, Won, Lookup, Hydrate, CoreFails, CoreCommits, CommitUnknown,
       Complete, CompleteSaved, CompleteFails, Released, ReleaseFails

\* An attempt that runs its operation has a key under which nothing is committed.
LEMMA NothingBeforeCommit ==
    ASSUME NEW r \in Requests, pc[r] = "core", NEW e \in effects, e \in Requests,
           Key[e] = Key[r], KeyIsTaken(e)
    PROVE  FALSE
BY DEF KeyIsTaken, Owns

\* The key of a committed operation stays taken.
LEMMA KeyStaysTaken ==
    ASSUME TypeOK, IdempotencyInv, NEW r \in Requests, Step(r), NothingLost',
           NEW e \in Requests, KeyIsTaken(e)
    PROVE  KeyIsTaken(e)'
<1>1. Key[r] \in Keys /\ Key[e] \in Keys
  BY RecordsWritten
<1>2. ASSUME NEW s \in Requests, s # r PROVE Owns(s)' <=> Owns(s)
  BY <1>2, OthersStay DEF Owns
<1>3. CASE Key[r] # Key[e]
  <2>1. db'[Key[e]] = db[Key[e]]
    BY <1>1, <1>3
       DEF Step, Insert, Won, Lookup, Hydrate, CoreFails, CoreCommits, CommitUnknown,
           Complete, CompleteSaved, CompleteFails, Released, ReleaseFails, TypeOK
  <2>2. e # r /\ pc'[e] = pc[e]
    BY <1>3, OthersStay
  <2>3. QED
    BY <1>2, <1>3, <2>1, <2>2 DEF KeyIsTaken
<1>4. CASE Key[r] = Key[e] /\ Owns(r)
  <2>1. r = e /\ pc[r] \in {"committed", "completing"}
    BY <1>4 DEF KeyIsTaken
  <2>2. ~CommitUnknown(r) /\ ~CompleteFails(r)
    BY IdempotencyAssumption
       DEF CommitUnknown, CompleteFails, Fault, NothingLost, TypeOK, AllFaults
  <2>3. CASE Complete(r)
    <3>1. pc'[r] = "completing" /\ UNCHANGED db
      BY <2>3 DEF Complete, Goto, TypeOK
    <3>2. QED
      BY <1>2, <2>1, <3>1 DEF KeyIsTaken
  <2>4. CASE CompleteSaved(r)
    <3>1. pc'[r] = "done"
      BY <2>4 DEF CompleteSaved, Finish, TypeOK
    <3>2. db'[Key[r]].status = "completed"
      <4>1. db'[Key[r]] = [db[Key[r]] EXCEPT !.status = "completed", !.by = {r}]
        BY <1>1, <2>4 DEF CompleteSaved, TypeOK
      <4>2. db[Key[r]] \in Records
        BY <1>1 DEF TypeOK
      <4>3. QED
        BY <4>1, <4>2 DEF Records
    <3>3. db'[Key[e]] # NoRecord
      BY <2>1, <3>2 DEF NoRecord
    <3>4. ~Owns(r)'
      BY <3>1 DEF Owns
    <3>5. \A s \in Requests : Owns(s)' /\ Key[s] = Key[e] => FALSE
      BY <1>2, <2>1, <3>4 DEF KeyIsTaken
    <3>6. QED
      BY <3>3, <3>5 DEF KeyIsTaken
  <2>5. QED
    BY <2>1, <2>2, <2>3, <2>4
       DEF Step, Insert, Won, Lookup, Hydrate, CoreFails, CoreCommits, Released,
           ReleaseFails
<1>5. CASE Key[r] = Key[e] /\ ~Owns(r)
  <2>1. UNCHANGED db
    BY <1>5
       DEF Step, Insert, Won, Lookup, Hydrate, CoreFails, CoreCommits, CommitUnknown,
           Complete, CompleteSaved, CompleteFails, Released, ReleaseFails, Owns,
           KeyIsTaken
  <2>2. ~Owns(r)'
    BY <1>5, HowToOwn DEF KeyIsTaken
  <2>3. r # e => pc'[e] = pc[e]
    BY OthersStay
  <2>4. QED
    BY <1>2, <1>5, <2>1, <2>2, <2>3 DEF KeyIsTaken
<1>6. QED
  BY <1>3, <1>4, <1>5

\* A step of an attempt keeps the invariant.
LEMMA StepKeepsEffectsInv ==
    ASSUME TypeOK, IdempotencyInv, EffectsInv, NEW r \in Requests, Step(r)
    PROVE  EffectsInv'
<1> SUFFICES ASSUME NothingLost'
             PROVE  AtMostOneEffect' /\ \A e \in effects' : KeyIsTaken(e)'
  BY DEF EffectsInv
<1>1. AtMostOneEffect /\ \A e \in effects : KeyIsTaken(e)
  BY FaultsGrow DEF EffectsInv, Next
<1>2. effects \subseteq Requests
  BY DEF TypeOK
<1>3. \A e \in effects : KeyIsTaken(e)'
  BY <1>1, <1>2, KeyStaysTaken
<1>4. CASE effects' = effects
  BY <1>1, <1>3, <1>4 DEF AtMostOneEffect
<1>5. CASE CoreCommits(r) /\ effects' = effects \cup {r}
  <2>1. pc[r] = "core" /\ pc'[r] = "committed" /\ UNCHANGED db
    BY <1>5 DEF CoreCommits, Goto, TypeOK
  <2>2. AtMostOneEffect'
    BY <1>1, <1>2, <1>5, <2>1, NothingBeforeCommit DEF AtMostOneEffect
  <2>3. db[Key[r]] # NoRecord
    BY <2>1 DEF IdempotencyInv, HoldsItsRow, Owns, NoRecord
  <2>4. OneOwner' /\ Owns(r)'
    BY <2>1, OneOwnerStays DEF Owns
  <2>5. KeyIsTaken(r)'
    BY <2>1, <2>3, <2>4 DEF KeyIsTaken, OneOwner
  <2>6. QED
    BY <1>3, <1>5, <2>2, <2>5
<1>6. QED
  BY <1>4, <1>5, HowToCommit

\* A restart leaves every row and no owner.
LEMMA CrashKeepsEffectsInv ==
    ASSUME TypeOK, EffectsInv, Crash PROVE EffectsInv'
<1>1. \A r \in Requests : ~Owns(r)'
  BY DEF Crash, Owns
<1>2. UNCHANGED <<db, effects>>
  BY DEF Crash
<1>3. NothingLost' => NothingLost
  BY FaultsGrow DEF Next
<1>4. QED
  BY <1>1, <1>2, <1>3 DEF EffectsInv, AtMostOneEffect, KeyIsTaken

\* createHarvest, transfer: while the answers about commits and completions
\* arrive, a key commits one operation, whatever crashes and resends there are.
THEOREM DuplicatesNeedLostAnswers == Spec => []DuplicateNeedsLostAnswer
<1>1. Init => EffectsInv
  BY DEF Init, EffectsInv, AtMostOneEffect
<1>2. TypeOK /\ IdempotencyInv /\ EffectsInv /\ [Next]_vars => EffectsInv'
  <2> SUFFICES ASSUME TypeOK, IdempotencyInv, EffectsInv, [Next]_vars
               PROVE  EffectsInv'
    OBVIOUS
  <2>1. CASE UNCHANGED vars
    BY <2>1 DEF vars, EffectsInv, NothingLost, AtMostOneEffect, KeyIsTaken, Owns
  <2>2. QED
    BY <2>1, StepKeepsEffectsInv, CrashKeepsEffectsInv DEF Next
<1>3. EffectsInv => DuplicateNeedsLostAnswer
  BY DEF EffectsInv, DuplicateNeedsLostAnswer
<1>4. QED
  BY <1>1, <1>2, <1>3, IdempotencyTypeCorrect, IdempotencyInvariant, PTL DEF Spec
=============================================================================
