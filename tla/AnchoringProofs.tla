--------------------------- MODULE AnchoringProofs ---------------------------
(***************************************************************************)
(* Proofs about Anchoring for any days, events, callers and faults: types, *)
(* the inductive invariant, and the step properties that follow from it.   *)
(***************************************************************************)
EXTENDS Anchoring, TLAPS

(***************************************************************************)
(* Types.                                                                  *)
(***************************************************************************)

\* What a call writes about its day is an anchor record.
LEMMA RecordOfType ==
    ASSUME NEW call \in Calls, NEW status \in Statuses
    PROVE  RecordOf(call, status) \in Records
BY DEF Calls, Records, RecordOf

\* The rows and maps of anchors keep their type when a call writes one.
LEMMA WriteType ==
    ASSUME NEW call \in Calls, NEW status \in Statuses,
           NEW table \in [Days -> Records]
    PROVE  [table EXCEPT ![call.day] = RecordOf(call, status)] \in [Days -> Records]
<1>1. RecordOf(call, status) \in Records
  BY RecordOfType
<1>2. call.day \in Days
  BY DEF Calls
<1>3. QED
  BY <1>1, <1>2

\* StartAttempt leaves well-typed calls and records.
LEMMA StartAttemptType ==
    ASSUME TypeOK, NEW c \in Callers, NEW d \in Days, NEW root \in Roots,
           NEW attempt \in 0..MaxAttempts, StartAttempt(c, d, root, attempt)
    PROVE  /\ callers' \in [Callers -> Calls] /\ anchors' \in [Days -> Records]
           /\ crowded' \in SUBSET Days /\ unsaved' \in SUBSET Days
<1> DEFINE call == [pc |-> "savePending", day |-> d, root |-> root,
                    attempt |-> attempt, tx |-> "none"]
<1>1. call \in Calls
  BY DEF Calls, Pcs
<1>2. callers' = [callers EXCEPT ![c] = call]
  BY DEF StartAttempt
<1>3. anchors' = [anchors EXCEPT ![call.day] = RecordOf(call, "pending")]
  BY DEF StartAttempt, Remember
<1>4. anchors' \in [Days -> Records]
  BY <1>1, <1>3, WriteType DEF TypeOK, Statuses
<1>5. crowded' \in SUBSET Days /\ unsaved' \in SUBSET Days
  BY DEF StartAttempt, TypeOK
<1>6. QED
  BY <1>1, <1>2, <1>4, <1>5 DEF TypeOK

\* A save, done or refused, keeps the types of the marks.
LEMMA SaveType ==
    ASSUME TypeOK, NEW call \in Calls, NEW status \in Statuses, Persist(call, status) \/ Unsave(call)
    PROVE  /\ crowded' \in SUBSET Days /\ shaken' \in SUBSET Days /\ unsaved' \in SUBSET Days
           /\ Persist(call, status) => anchorsDb' \in [Days -> Records]
<1>1. call.day \in Days
  BY DEF Calls
<1>2. Persist(call, status) => anchorsDb' \in [Days -> Records]
  BY WriteType DEF Persist, TypeOK
<1>3. QED
  BY <1>1, <1>2 DEF Persist, Unsave, TypeOK

\* The catch block leaves well-typed calls and records.
LEMMA CatchType ==
    ASSUME TypeOK, NEW c \in Callers, Catch(c)
    PROVE  /\ callers' \in [Callers -> Calls]
           /\ anchors' \in [Days -> Records]
           /\ cooling' \in SUBSET Days
<1>1. callers[c] \in Calls
  BY DEF TypeOK
<1>2. anchors' \in [Days -> Records]
  BY <1>1, WriteType DEF TypeOK, Catch, Remember, Statuses
<1>3. callers' \in [Callers -> Calls]
  BY <1>1 DEF TypeOK, Catch, Calls, Pcs
<1>4. cooling' \in SUBSET Days
  BY <1>1 DEF TypeOK, Catch, Calls
<1>5. QED
  BY <1>2, <1>3, <1>4

\* The caller that returns is idle.
LEMMA IdleType == Idle \in Calls
BY AnchoringAssumption DEF Idle, Calls, Pcs, Days, Roots

\* A step of an event's handler keeps the types.
LEMMA RecordKeepsType ==
    ASSUME TypeOK, NEW e \in Events, Record(e)
    PROVE  TypeOK'
<1> USE DEF TypeOK, eventVars, anchorVars, chainVars, marks, Fault
<1>1. CASE HarvestAccept(e)
  BY <1>1 DEF HarvestAccept
<1>2. CASE HarvestCommit(e)
  BY <1>2 DEF HarvestCommit, Roots
<1>3. CASE HarvestVisible(e)
  BY <1>3 DEF HarvestVisible, Roots
<1>4. CASE HarvestFails(e)
  BY <1>4, AnchoringAssumption DEF HarvestFails
<1>5. CASE TransferPush(e)
  BY <1>5 DEF TransferPush, Roots
<1>6. CASE TransferFails(e)
  BY <1>6, AnchoringAssumption DEF TransferFails, Roots
<1>7. CASE Recover(e)
  BY <1>7 DEF Recover, Roots
<1>8. CASE RecoverFails(e)
  BY <1>8, AnchoringAssumption DEF RecoverFails
<1>9. CASE InMemoryCommit(e)
  BY <1>9 DEF InMemoryCommit, Roots
<1>10. QED
  BY <1>1, <1>2, <1>3, <1>4, <1>5, <1>6, <1>7, <1>8, <1>9 DEF Record

\* The first step of anchorDate keeps the types.
LEMMA AnchorDateKeepsType ==
    ASSUME TypeOK, NEW c \in Callers, NEW d \in Days, AnchorDate(c, d)
    PROVE  TypeOK'
<1> DEFINE root == DailyRoot(d)
           attempt == anchors[d].attempt + 1
           call == [pc |-> "verify", day |-> d, root |-> root,
                    attempt |-> attempt, tx |-> "none"]
<1>1. root \in Roots
  BY DEF DailyRoot, TypeOK, Roots
<1>2. attempt \in 0..MaxAttempts
  BY AnchoringAssumption DEF AnchorDate, TypeOK, Records
<1>3. UNCHANGED <<today, events, eventsDb, accept, chain, orphans, faults, shaken>>
  BY DEF AnchorDate, eventVars, chainVars
<1>4. CASE StartAttempt(c, d, root, attempt)
  <2> HIDE DEF root, attempt
  <2>1. /\ callers' \in [Callers -> Calls] /\ anchors' \in [Days -> Records]
        /\ crowded' \in SUBSET Days /\ unsaved' \in SUBSET Days
    BY <1>1, <1>2, <1>4, StartAttemptType
  <2>2. QED
    BY <1>3, <1>4, <2>1 DEF TypeOK, StartAttempt
<1>5. CASE /\ callers' = [callers EXCEPT ![c] = call]
           /\ UNCHANGED <<anchorVars, crowded, unsaved>>
  <2> HIDE DEF root, attempt
  <2>1. call \in Calls
    BY <1>1, <1>2 DEF Calls, Pcs
  <2>2. QED
    BY <1>3, <1>5, <2>1 DEF TypeOK, anchorVars
<1>6. QED
  BY <1>4, <1>5 DEF AnchorDate

\* A step of a call in flight that no failure causes keeps the types.
LEMMA AdvanceKeepsType ==
    ASSUME TypeOK, NEW c \in Callers, Advance(c)
    PROVE  TypeOK'
<1>1. callers[c] \in Calls
  BY DEF TypeOK
<1> USE DEF eventVars, anchorVars, chainVars, marks
<1>2. CASE RootIsOnChain(c)
  BY <1>2, IdleType DEF RootIsOnChain, Return, TypeOK
<1>3. CASE PendingSaved(c)
  <2>1. callers' \in [Callers -> Calls]
    BY <1>1, <1>3 DEF PendingSaved, Goto, TypeOK, Calls, Pcs
  <2>2. /\ anchorsDb' \in [Days -> Records]
        /\ crowded' \in SUBSET Days /\ shaken' \in SUBSET Days /\ unsaved' \in SUBSET Days
    BY <1>1, <1>3, SaveType DEF PendingSaved, Statuses
  <2>3. QED
    BY <1>3, <2>1, <2>2 DEF PendingSaved, TypeOK
<1>4. CASE SendTransaction(c)
  <2>1. callers' \in [Callers -> Calls]
    BY <1>1, <1>4 DEF SendTransaction, TypeOK, Calls, Pcs
  <2>2. QED
    BY <1>4, <2>1 DEF SendTransaction, TypeOK
<1>5. CASE SendRejected(c)
  BY <1>5, CatchType DEF SendRejected, Catch, TypeOK
<1>6. CASE Confirm(c)
  <2>1. callers' \in [Callers -> Calls]
    BY <1>1, <1>6 DEF Confirm, Goto, TypeOK, Calls, Pcs
  <2>2. anchors' \in [Days -> Records]
    BY <1>1, <1>6, WriteType DEF Confirm, Remember, TypeOK, Statuses
  <2>3. shaken' \in SUBSET Days
    BY <1>1, <1>6 DEF Confirm, TypeOK, Calls
  <2>4. QED
    BY <1>6, <2>1, <2>2, <2>3 DEF Confirm, TypeOK
<1>7. CASE ConfirmedSaved(c)
  <2>1. callers' \in [Callers -> Calls]
    BY <1>7, IdleType DEF ConfirmedSaved, Return, TypeOK
  <2>2. /\ anchorsDb' \in [Days -> Records]
        /\ crowded' \in SUBSET Days /\ shaken' \in SUBSET Days /\ unsaved' \in SUBSET Days
    BY <1>1, <1>7, SaveType DEF ConfirmedSaved, Statuses
  <2>3. QED
    BY <1>7, <2>1, <2>2 DEF ConfirmedSaved, TypeOK
<1>8. CASE TransactionReverted(c)
  BY <1>8, CatchType DEF TransactionReverted, Catch, TypeOK
<1>9. CASE FailedSaved(c)
  <2>1. callers' \in [Callers -> Calls]
    BY <1>9, IdleType DEF FailedSaved, Return, TypeOK
  <2>2. /\ anchorsDb' \in [Days -> Records]
        /\ crowded' \in SUBSET Days /\ shaken' \in SUBSET Days /\ unsaved' \in SUBSET Days
    BY <1>1, <1>9, SaveType DEF FailedSaved, Statuses
  <2>3. QED
    BY <1>9, <2>1, <2>2 DEF FailedSaved, TypeOK
<1>10. QED
  BY <1>2, <1>3, <1>4, <1>5, <1>6, <1>7, <1>8, <1>9 DEF Advance

\* A call abandoned in mid-air leaves a transaction behind, well-typed.
LEMMA OrphanType ==
    ASSUME TypeOK, NEW c \in Callers
    PROVE  /\ [day |-> callers[c].day, root |-> callers[c].root] \in Transactions
           /\ Abandon(c) \in SUBSET Transactions
BY DEF TypeOK, Abandon, Calls, Transactions

\* One more fault is within the bound.
LEMMA FaultType ==
    ASSUME TypeOK, NEW kind, Fault(kind)
    PROVE  faults' \in 0..MaxFaults
BY AnchoringAssumption DEF TypeOK, Fault

\* A step of a call in flight that a failure causes keeps the types.
LEMMA DisturbKeepsType ==
    ASSUME TypeOK, NEW c \in Callers, Disturb(c)
    PROVE  TypeOK'
<1>1. callers[c] \in Calls
  BY DEF TypeOK
<1> USE DEF eventVars, anchorVars, chainVars, marks
<1>2. CASE RootNotSeen(c)
  <2>1. /\ callers' \in [Callers -> Calls] /\ anchors' \in [Days -> Records]
        /\ crowded' \in SUBSET Days /\ unsaved' \in SUBSET Days
    BY <1>1, <1>2, StartAttemptType DEF RootNotSeen, Calls
  <2>2. faults' \in 0..MaxFaults
    BY <1>2, AnchoringAssumption DEF RootNotSeen, TypeOK
  <2>3. shaken' \in SUBSET Days
    BY <1>1, <1>2 DEF RootNotSeen, TypeOK, Calls
  <2>4. QED
    BY <1>2, <2>1, <2>2, <2>3 DEF RootNotSeen, StartAttempt, TypeOK
<1>3. CASE PendingSaveFails(c)
  <2>1. crowded' \in SUBSET Days /\ shaken' \in SUBSET Days /\ unsaved' \in SUBSET Days
    BY <1>1, <1>3, SaveType DEF PendingSaveFails, Statuses
  <2>2. QED
    BY <1>3, <2>1, FaultType, IdleType DEF PendingSaveFails, Return, TypeOK
<1>4. CASE SendFails(c)
  BY <1>4, FaultType, CatchType DEF SendFails, Catch, TypeOK
<1>5. CASE SendResponseLost(c)
  <2>1. orphans' \in SUBSET Transactions
    BY <1>5, OrphanType DEF SendResponseLost, TypeOK
  <2>2. QED
    BY <1>5, <2>1, FaultType, CatchType DEF SendResponseLost, Catch, TypeOK
<1>6. CASE ReceiptLost(c)
  <2>1. orphans' \in SUBSET Transactions
    BY <1>6, OrphanType DEF ReceiptLost
  <2>2. QED
    BY <1>6, <2>1, FaultType, CatchType DEF ReceiptLost, Catch, TypeOK
<1>7. CASE ConfirmedSaveFails(c)
  BY <1>7, FaultType, CatchType DEF ConfirmedSaveFails, Catch, TypeOK
<1>8. CASE FailedSaveFails(c)
  <2>1. crowded' \in SUBSET Days /\ shaken' \in SUBSET Days /\ unsaved' \in SUBSET Days
    BY <1>1, <1>8, SaveType DEF FailedSaveFails, Statuses
  <2>2. QED
    BY <1>8, <2>1, FaultType, IdleType DEF FailedSaveFails, Return, TypeOK
<1>9. QED
  BY <1>2, <1>3, <1>4, <1>5, <1>6, <1>7, <1>8 DEF Disturb

\* Mining a transaction keeps the types, whoever sent it.
LEMMA MineKeepsType ==
    ASSUME TypeOK
    PROVE  /\ \A c \in Callers : MineTransaction(c) => TypeOK'
           /\ \A t \in orphans : MineOrphan(t) => TypeOK'
<1> USE DEF eventVars, anchorVars, chainVars, marks
<1>1. ASSUME NEW c \in Callers, MineTransaction(c) PROVE TypeOK'
  <2>1. callers[c] \in Calls
    BY DEF TypeOK
  <2>2. chain' \in [Days -> Roots]
    BY <1>1, <2>1 DEF MineTransaction, Register, TypeOK, Calls
  <2>3. callers' \in [Callers -> Calls]
    BY <1>1, <2>1 DEF MineTransaction, TypeOK, Calls
  <2>4. QED
    BY <1>1, <2>2, <2>3 DEF MineTransaction, TypeOK
<1>2. ASSUME NEW t \in orphans, MineOrphan(t) PROVE TypeOK'
  <2>1. t \in Transactions
    BY DEF TypeOK
  <2>2. chain' \in [Days -> Roots]
    BY <1>2, <2>1 DEF MineOrphan, Register, TypeOK, Transactions
  <2>3. QED
    BY <1>2, <2>2 DEF MineOrphan, TypeOK
<1>3. QED
  BY <1>1, <1>2

\* A crash keeps the types.
LEMMA CrashKeepsType ==
    ASSUME TypeOK, Crash
    PROVE  TypeOK'
<1>1. callers' \in [Callers -> Calls]
  BY IdleType DEF Crash
<1>2. orphans' \in SUBSET Transactions
  BY OrphanType, ZenonT(60) DEF Crash, TypeOK
<1>3. faults' \in 0..MaxFaults
  BY FaultType DEF Crash
<1>4. QED
  BY <1>1, <1>2, <1>3 DEF Crash, TypeOK

\* No step, and no stuttering, breaks a type.
LEMMA NextKeepsType == TypeOK /\ [Next]_vars => TypeOK'
<1> SUFFICES ASSUME TypeOK, [Next]_vars PROVE TypeOK'
  OBVIOUS
<1>1. ASSUME NEW e \in Events, Record(e) PROVE TypeOK'
  BY <1>1, RecordKeepsType
<1>2. ASSUME NEW c \in Ticks, SchedulerRun(c) PROVE TypeOK'
  BY <1>2, AnchorDateKeepsType DEF SchedulerRun, Callers
<1>3. ASSUME NEW c \in Requests, AdminPost(c) PROVE TypeOK'
  BY <1>3, AnchorDateKeepsType DEF AdminPost, Callers
<1>4. ASSUME NEW c \in Callers, Advance(c) \/ Disturb(c) \/ MineTransaction(c)
      PROVE TypeOK'
  BY <1>4, AdvanceKeepsType, DisturbKeepsType, MineKeepsType
<1>5. ASSUME NEW t \in orphans, MineOrphan(t) PROVE TypeOK'
  BY <1>5, MineKeepsType
<1>6. CASE NextDay
  BY <1>6, AnchoringAssumption
     DEF NextDay, TypeOK, eventVars, anchorVars, chainVars, marks
<1>7. ASSUME NEW d \in Days, BackoffElapses(d) PROVE TypeOK'
  BY <1>7 DEF BackoffElapses, TypeOK, eventVars, chainVars, marks
<1>8. CASE Crash
  BY <1>8, CrashKeepsType
<1>9. CASE UNCHANGED vars
  BY <1>9 DEF vars, eventVars, anchorVars, chainVars, marks, TypeOK
<1>10. QED
  BY <1>1, <1>2, <1>3, <1>4, <1>5, <1>6, <1>7, <1>8, <1>9 DEF Next

\* Every variable keeps its type in every reachable state.
THEOREM AnchoringTypeCorrect == Spec => []TypeOK
<1>1. Init => TypeOK
  <2>1. NoRecord \in Records
    BY AnchoringAssumption DEF NoRecord, Records, Roots, Statuses
  <2>2. QED
    BY <2>1, IdleType, AnchoringAssumption DEF Init, TypeOK, Roots, Days, Transactions
<1>2. QED
  BY <1>1, NextKeepsType, PTL DEF Spec

(***************************************************************************)
(* What only grows: the roots of the contract and the stored events.       *)
(***************************************************************************)

\* The contract never replaces a root it holds.
LEMMA SealsAreFinal ==
    ASSUME TypeOK, [Next]_vars
    PROVE  \A d \in Days : chain[d] # {} => chain'[d] = chain[d]
<1>1. ASSUME NEW c \in Callers, MineTransaction(c)
      PROVE  \A d \in Days : chain[d] # {} => chain'[d] = chain[d]
  BY <1>1 DEF MineTransaction, Register, TypeOK
<1>2. ASSUME NEW t \in orphans, MineOrphan(t)
      PROVE  \A d \in Days : chain[d] # {} => chain'[d] = chain[d]
  BY <1>2 DEF MineOrphan, Register, TypeOK
<1>3. ASSUME NEW e \in Events, Record(e) PROVE UNCHANGED chain
  BY <1>3 DEF Record, HarvestAccept, HarvestCommit, HarvestVisible, HarvestFails,
     TransferPush, TransferFails, Recover, RecoverFails, InMemoryCommit, chainVars
<1>4. ASSUME NEW c \in Callers, NEW d \in Days, AnchorDate(c, d) PROVE UNCHANGED chain
  BY <1>4 DEF AnchorDate, chainVars
<1>5. ASSUME NEW c \in Callers, Advance(c) PROVE UNCHANGED chain
  BY <1>5 DEF Advance, RootIsOnChain, PendingSaved, SendTransaction, SendRejected,
     Confirm, ConfirmedSaved, TransactionReverted, FailedSaved, Catch, chainVars
<1>6. ASSUME NEW c \in Callers, Disturb(c) PROVE UNCHANGED chain
  BY <1>6 DEF Disturb, RootNotSeen, PendingSaveFails, SendFails, SendResponseLost,
     ReceiptLost, ConfirmedSaveFails, FailedSaveFails, Catch, chainVars
<1>7. QED
  BY <1>1, <1>2, <1>3, <1>4, <1>5, <1>6
     DEF Next, SchedulerRun, AdminPost, Callers, NextDay, BackoffElapses, Crash,
         vars, chainVars

\* A stored event is never deleted.
LEMMA StoreGrows ==
    ASSUME TypeOK, [Next]_vars
    PROVE  eventsDb \subseteq eventsDb'
<1>1. ASSUME NEW e \in Events, Record(e) PROVE eventsDb \subseteq eventsDb'
  BY <1>1 DEF Record, HarvestAccept, HarvestCommit, HarvestVisible, HarvestFails,
     TransferPush, TransferFails, Recover, RecoverFails, InMemoryCommit
<1>2. ASSUME NEW c \in Callers, NEW d \in Days, AnchorDate(c, d)
      PROVE UNCHANGED eventsDb
  BY <1>2 DEF AnchorDate, eventVars
<1>3. ASSUME NEW c \in Callers, Advance(c) PROVE UNCHANGED eventsDb
  BY <1>3 DEF Advance, RootIsOnChain, PendingSaved, SendTransaction, SendRejected,
     Confirm, ConfirmedSaved, TransactionReverted, FailedSaved, Catch, eventVars
<1>4. ASSUME NEW c \in Callers, Disturb(c) PROVE UNCHANGED eventsDb
  BY <1>4 DEF Disturb, RootNotSeen, PendingSaveFails, SendFails, SendResponseLost,
     ReceiptLost, ConfirmedSaveFails, FailedSaveFails, Catch, eventVars
<1>5. QED
  BY <1>1, <1>2, <1>3, <1>4
     DEF Next, SchedulerRun, AdminPost, Callers, MineTransaction, MineOrphan,
         NextDay, BackoffElapses, Crash, vars, eventVars

(***************************************************************************)
(* Calls are honest.                                                       *)
(***************************************************************************)

\* A call that does not move stays honest: its root, if mined, is final.
LEMMA OthersStayHonest ==
    ASSUME TypeOK, [Next]_vars, NEW c \in Callers, HonestCall(c),
           callers'[c] = callers[c]
    PROVE  HonestCall(c)'
<1>1. callers[c].day \in Days
  BY DEF TypeOK, Calls
<1>2. callers[c].tx = "mined" => chain'[callers[c].day] = callers[c].root
  BY <1>1, SealsAreFinal DEF HonestCall
<1>3. QED
  BY <1>2 DEF HonestCall

\* An idle call is honest.
LEMMA IdleIsHonest ==
    ASSUME NEW c \in Callers, callers'[c] = Idle
    PROVE  HonestCall(c)'
BY DEF HonestCall, Idle

\* A call about to save its pending record is honest.
LEMMA StartIsHonest ==
    ASSUME TypeOK, NEW c \in Callers, NEW d \in Days, NEW root \in Roots, NEW attempt,
           root # {}, StartAttempt(c, d, root, attempt)
    PROVE  HonestCall(c)'
BY DEF HonestCall, StartAttempt, TypeOK

\* A call in its catch block is honest.
LEMMA CatchIsHonest ==
    ASSUME TypeOK, NEW c \in Callers, HonestCall(c), callers[c].pc # "idle", Catch(c)
    PROVE  HonestCall(c)'
BY DEF HonestCall, Catch, TypeOK, Calls

\* The call that moves stays honest.
LEMMA MoverStaysHonest ==
    ASSUME TypeOK, [Next]_vars, NEW c \in Callers, HonestCall(c),
           \/ Advance(c) \/ Disturb(c) \/ MineTransaction(c)
           \/ \E d \in Days : AnchorDate(c, d)
    PROVE  HonestCall(c)'
<1>1. callers[c] \in Calls
  BY DEF TypeOK
<1>2. CASE RootIsOnChain(c) \/ ConfirmedSaved(c) \/ FailedSaved(c)
           \/ PendingSaveFails(c) \/ FailedSaveFails(c)
  BY <1>2, IdleIsHonest DEF RootIsOnChain, ConfirmedSaved, FailedSaved,
     PendingSaveFails, FailedSaveFails, Return, TypeOK
<1>3. CASE SendRejected(c) \/ TransactionReverted(c) \/ SendFails(c)
           \/ SendResponseLost(c) \/ ReceiptLost(c) \/ ConfirmedSaveFails(c)
  BY <1>3, CatchIsHonest DEF SendRejected, TransactionReverted, SendFails,
     SendResponseLost, ReceiptLost, ConfirmedSaveFails
<1>4. CASE RootNotSeen(c)
  BY <1>1, <1>4, StartIsHonest DEF RootNotSeen, HonestCall, Calls
<1>5. CASE PendingSaved(c)
  BY <1>1, <1>5 DEF PendingSaved, Goto, HonestCall, TypeOK, Calls
<1>6. CASE SendTransaction(c)
  BY <1>1, <1>6 DEF SendTransaction, HonestCall, TypeOK, Calls
<1>7. CASE Confirm(c)
  BY <1>1, <1>7 DEF Confirm, Goto, HonestCall, TypeOK, Calls, chainVars
<1>8. CASE MineTransaction(c)
  <2>1. callers[c].pc \in {"wait", "saveConfirmed"} /\ callers[c].pc # "saveConfirmed"
    BY <1>8 DEF MineTransaction, HonestCall
  <2>2. QED
    BY <1>1, <1>8, <2>1 DEF MineTransaction, Register, HonestCall, TypeOK, Calls
<1>9. ASSUME NEW d \in Days, AnchorDate(c, d) PROVE HonestCall(c)'
  <2>1. DailyRoot(d) \in Roots /\ DailyRoot(d) # {}
    BY <1>9 DEF AnchorDate, DailyRoot, TypeOK, Roots
  <2>2. CASE StartAttempt(c, d, DailyRoot(d), anchors[d].attempt + 1)
    BY <2>1, <2>2, StartIsHonest
  <2>3. CASE callers' = [callers EXCEPT ![c] =
                [pc |-> "verify", day |-> d, root |-> DailyRoot(d),
                 attempt |-> anchors[d].attempt + 1, tx |-> "none"]]
    BY <2>1, <2>3 DEF HonestCall, TypeOK
  <2>4. QED
    BY <1>9, <2>2, <2>3 DEF AnchorDate
<1>10. QED
  BY <1>2, <1>3, <1>4, <1>5, <1>6, <1>7, <1>8, <1>9 DEF Advance, Disturb

\* Orphaned transactions carry a root.
LEMMA OrphansKeepRoots ==
    ASSUME TypeOK, CallsAreHonest, [Next]_vars
    PROVE  \A t \in orphans' : t.root # {}
<1>1. \A c \in Callers : callers[c].tx = "pooled" => callers[c].root # {}
  BY DEF CallsAreHonest, HonestCall
<1>2. ASSUME NEW c \in Callers, Disturb(c) PROVE \A t \in orphans' : t.root # {}
  BY <1>1, <1>2 DEF CallsAreHonest, HonestCall, Disturb, RootNotSeen, PendingSaveFails,
     SendFails, SendResponseLost, ReceiptLost, ConfirmedSaveFails, FailedSaveFails,
     Abandon, chainVars
<1>3. CASE Crash
  BY <1>1, <1>3 DEF CallsAreHonest, Crash
<1>4. ASSUME NEW c \in Callers, Advance(c) PROVE UNCHANGED orphans
  BY <1>4 DEF Advance, RootIsOnChain, PendingSaved, SendTransaction, SendRejected,
     Confirm, ConfirmedSaved, TransactionReverted, FailedSaved, Catch, chainVars
<1>5. ASSUME NEW e \in Events, Record(e) PROVE UNCHANGED orphans
  BY <1>5 DEF Record, HarvestAccept, HarvestCommit, HarvestVisible, HarvestFails,
     TransferPush, TransferFails, Recover, RecoverFails, InMemoryCommit, chainVars
<1>6. ASSUME NEW c \in Callers, NEW d \in Days, AnchorDate(c, d) PROVE UNCHANGED orphans
  BY <1>6 DEF AnchorDate, chainVars
<1>7. ASSUME NEW t \in orphans, MineOrphan(t) PROVE orphans' \subseteq orphans
  BY <1>7 DEF MineOrphan
<1>8. QED
  BY <1>2, <1>3, <1>4, <1>5, <1>6, <1>7
     DEF CallsAreHonest, Next, SchedulerRun, AdminPost, Callers, MineTransaction,
         NextDay, BackoffElapses, vars, chainVars

\* A step of one call leaves the other calls alone.
LEMMA OneCallMoves ==
    ASSUME TypeOK, NEW c \in Callers,
           \/ Advance(c) \/ Disturb(c) \/ MineTransaction(c)
           \/ \E d \in Days : AnchorDate(c, d)
    PROVE  \A x \in Callers : x # c => callers'[x] = callers[x]
<1>1. CASE Advance(c)
  BY <1>1 DEF TypeOK, Advance, RootIsOnChain, PendingSaved, SendTransaction,
     SendRejected, Confirm, ConfirmedSaved, TransactionReverted, FailedSaved, Catch,
     Goto, Return
<1>2. CASE Disturb(c)
  BY <1>2 DEF TypeOK, Disturb, RootNotSeen, PendingSaveFails, SendFails,
     SendResponseLost, ReceiptLost, ConfirmedSaveFails, FailedSaveFails, Catch,
     Return, StartAttempt
<1>3. CASE MineTransaction(c)
  BY <1>3 DEF TypeOK, MineTransaction
<1>4. CASE \E d \in Days : AnchorDate(c, d)
  BY <1>4 DEF TypeOK, AnchorDate, StartAttempt
<1>5. QED
  BY <1>1, <1>2, <1>3, <1>4

\* The steps that belong to no call leave the calls alone, except a crash.
LEMMA NobodyMoves ==
    ASSUME \/ \E e \in Events : Record(e)
           \/ \E t \in orphans : MineOrphan(t)
           \/ NextDay
           \/ \E d \in Days : BackoffElapses(d)
           \/ UNCHANGED vars
    PROVE  UNCHANGED callers
BY DEF Record, HarvestAccept, HarvestCommit, HarvestVisible, HarvestFails,
   TransferPush, TransferFails, Recover, RecoverFails, InMemoryCommit, MineOrphan,
   NextDay, BackoffElapses, vars

\* Every step leaves every call, and every orphan, honest.
LEMMA HonestyIsInductive ==
    ASSUME TypeOK, CallsAreHonest, [Next]_vars
    PROVE  CallsAreHonest'
<1>1. ASSUME NEW c \in Callers PROVE HonestCall(c)'
  <2>1. HonestCall(c)
    BY DEF CallsAreHonest
  <2>2. CASE callers'[c] = callers[c]
    BY <2>1, <2>2, OthersStayHonest
  <2>3. CASE Crash
    BY <2>3, IdleIsHonest DEF Crash
  <2>4. CASE \E x \in Callers : \/ Advance(x) \/ Disturb(x) \/ MineTransaction(x)
                               \/ \E d \in Days : AnchorDate(x, d)
    BY <2>1, <2>2, <2>4, OneCallMoves, MoverStaysHonest
  <2>5. QED
    BY <2>2, <2>3, <2>4, NobodyMoves DEF Next, SchedulerRun, AdminPost, Callers
<1>2. \A t \in orphans' : t.root # {}
  BY OrphansKeepRoots
<1>3. QED
  BY <1>1, <1>2 DEF CallsAreHonest

(***************************************************************************)
(* Confirmed records are on the chain.                                     *)
(***************************************************************************)

\* A table of records all of which are registered stays so when a call writes
\* its record, if that record says "confirmed" of a registered root only.
LEMMA WriteStaysRegistered ==
    ASSUME TypeOK, [Next]_vars, NEW table \in [Days -> Records],
           \A d \in Days : Registered(table[d], d),
           NEW call \in Calls, NEW status \in Statuses,
           status = "confirmed" => chain[call.day] = call.root /\ call.root # {}
    PROVE  \A d \in Days :
              LET record == [table EXCEPT ![call.day] = RecordOf(call, status)][d]
              IN  record.status = "confirmed" => chain'[d] = record.root /\ chain'[d] # {}
<1>1. call.day \in Days
  BY DEF Calls
<1>2. \A d \in Days : chain[d] # {} => chain'[d] = chain[d]
  BY SealsAreFinal
<1>3. QED
  BY <1>1, <1>2 DEF Registered, RecordOf

\* Every step leaves each table alone, lets a call write into it, "confirmed"
\* being written by a call that saw its transaction mined only, or,
\* in a crash, replaces the memory by the database.
LEMMA HowRecordsChange ==
    ASSUME TypeOK, CallsAreHonest, [Next]_vars
    PROVE  \/ UNCHANGED <<anchors, anchorsDb>>
           \/ Crash
           \/ \E call \in Calls, status \in Statuses :
                /\ status = "confirmed" => call.tx = "mined" /\ \E c \in Callers : call = callers[c]
                /\ \/ Remember(call, status) /\ UNCHANGED anchorsDb
                   \/ Persist(call, status) /\ UNCHANGED anchors
<1> DEFINE Good ==
      \E call \in Calls, status \in Statuses :
         /\ status = "confirmed" => call.tx = "mined" /\ \E c \in Callers : call = callers[c]
         /\ \/ Remember(call, status) /\ UNCHANGED anchorsDb
            \/ Persist(call, status) /\ UNCHANGED anchors
<1>0. \A c \in Callers : callers[c] \in Calls
  BY DEF TypeOK
<1>1. ASSUME NEW c \in Callers, NEW d \in Days, NEW root \in Roots,
             NEW attempt \in 0..MaxAttempts, StartAttempt(c, d, root, attempt)
      PROVE  Good
  <2> DEFINE call == [pc |-> "savePending", day |-> d, root |-> root,
                      attempt |-> attempt, tx |-> "none"]
  <2>1. call \in Calls
    BY DEF Calls, Pcs
  <2>2. Remember(call, "pending") /\ UNCHANGED anchorsDb
    BY <1>1 DEF StartAttempt
  <2>3. QED
    BY <2>1, <2>2 DEF Statuses
<1>2. ASSUME NEW c \in Callers, Catch(c) PROVE Good
  BY <1>0, <1>2 DEF Catch, Statuses
<1>3. ASSUME NEW c \in Callers, Advance(c) PROVE Good \/ UNCHANGED <<anchors, anchorsDb>>
  <2>1. CASE RootIsOnChain(c) \/ SendTransaction(c)
    BY <2>1 DEF RootIsOnChain, SendTransaction, anchorVars
  <2>2. CASE PendingSaved(c)
    BY <1>0, <2>2 DEF PendingSaved, Statuses
  <2>3. CASE SendRejected(c) \/ TransactionReverted(c)
    BY <1>2, <2>3 DEF SendRejected, TransactionReverted
  <2>4. CASE Confirm(c) \/ ConfirmedSaved(c)
    <3>1. callers[c].tx = "mined"
      BY <2>4 DEF Confirm, ConfirmedSaved, CallsAreHonest, HonestCall
    <3>2. QED
      BY <1>0, <2>4, <3>1 DEF Confirm, ConfirmedSaved, Statuses
  <2>5. CASE FailedSaved(c)
    BY <1>0, <2>5 DEF FailedSaved, Statuses
  <2>6. QED
    BY <1>3, <2>1, <2>2, <2>3, <2>4, <2>5 DEF Advance
<1>4. ASSUME NEW c \in Callers, Disturb(c) PROVE Good \/ UNCHANGED <<anchors, anchorsDb>>
  <2>1. CASE RootNotSeen(c)
    BY <1>0, <1>1, <2>1 DEF RootNotSeen, Calls
  <2>2. CASE PendingSaveFails(c) \/ FailedSaveFails(c)
    BY <2>2 DEF PendingSaveFails, FailedSaveFails, anchorVars
  <2>3. CASE SendFails(c) \/ SendResponseLost(c) \/ ReceiptLost(c) \/ ConfirmedSaveFails(c)
    BY <1>2, <2>3 DEF SendFails, SendResponseLost, ReceiptLost, ConfirmedSaveFails
  <2>4. QED
    BY <1>4, <2>1, <2>2, <2>3 DEF Disturb
<1>5. ASSUME NEW c \in Callers, NEW d \in Days, AnchorDate(c, d)
      PROVE  Good \/ UNCHANGED <<anchors, anchorsDb>>
  <2>1. DailyRoot(d) \in Roots
    BY DEF DailyRoot, TypeOK, Roots
  <2>2. anchors[d].attempt + 1 \in 0..MaxAttempts
    BY <1>5, AnchoringAssumption DEF AnchorDate, TypeOK, Records
  <2>3. QED
    BY <1>1, <1>5, <2>1, <2>2 DEF AnchorDate, anchorVars
<1>6. ASSUME NEW e \in Events, Record(e) PROVE UNCHANGED <<anchors, anchorsDb>>
  BY <1>6 DEF Record, HarvestAccept, HarvestCommit, HarvestVisible, HarvestFails,
     TransferPush, TransferFails, Recover, RecoverFails, InMemoryCommit, anchorVars
<1> HIDE DEF Good
<1>7. Good \/ Crash \/ UNCHANGED <<anchors, anchorsDb>>
  BY <1>3, <1>4, <1>5, <1>6
     DEF Next, SchedulerRun, AdminPost, Callers, MineTransaction, MineOrphan,
         NextDay, BackoffElapses, vars, anchorVars
<1>8. QED
  BY <1>7 DEF Good

\* Every step leaves the confirmed records registered on the contract.
LEMMA ConfirmationIsInductive ==
    ASSUME TypeOK, CallsAreHonest, ConfirmedIsOnChain, [Next]_vars
    PROVE  ConfirmedIsOnChain'
<1>1. \A d \in Days : chain[d] # {} => chain'[d] = chain[d]
  BY SealsAreFinal
<1>2. CASE UNCHANGED <<anchors, anchorsDb>>
  BY <1>1, <1>2 DEF ConfirmedIsOnChain, Registered
<1>3. CASE Crash
  BY <1>1, <1>3 DEF ConfirmedIsOnChain, Registered, Crash
<1>4. ASSUME NEW call \in Calls, NEW status \in Statuses,
             status = "confirmed" =>
                call.tx = "mined" /\ \E c \in Callers : call = callers[c],
             \/ Remember(call, status) /\ UNCHANGED anchorsDb
             \/ Persist(call, status) /\ UNCHANGED anchors
      PROVE  ConfirmedIsOnChain'
  <2>0. status = "confirmed" => chain[call.day] = call.root /\ call.root # {}
    BY <1>4 DEF CallsAreHonest, HonestCall
  <2>1. CASE Remember(call, status) /\ UNCHANGED anchorsDb
    <3>1. anchors \in [Days -> Records] /\ \A d \in Days : Registered(anchors[d], d)
      BY DEF TypeOK, ConfirmedIsOnChain
    <3>2. \A d \in Days : anchors'[d].status = "confirmed" =>
              chain'[d] = anchors'[d].root /\ chain'[d] # {}
      BY <2>0, <2>1, <3>1, WriteStaysRegistered DEF Remember
    <3>3. QED
      BY <1>1, <2>1, <3>2 DEF ConfirmedIsOnChain, Registered
  <2>2. CASE Persist(call, status) /\ UNCHANGED anchors
    <3>1. anchorsDb \in [Days -> Records] /\ \A d \in Days : Registered(anchorsDb[d], d)
      BY DEF TypeOK, ConfirmedIsOnChain
    <3>2. \A d \in Days : anchorsDb'[d].status = "confirmed" =>
              chain'[d] = anchorsDb'[d].root /\ chain'[d] # {}
      BY <2>0, <2>2, <3>1, WriteStaysRegistered DEF Persist
    <3>3. QED
      BY <1>1, <2>2, <3>2 DEF ConfirmedIsOnChain, Registered
  <2>3. QED
    BY <1>4, <2>1, <2>2
<1>5. QED
  BY <1>2, <1>3, <1>4, HowRecordsChange

(***************************************************************************)
(* Anchored harvests are stored.                                           *)
(***************************************************************************)

\* The harvests in memory, and those whose transaction committed, are rows.
LEMMA MemoryHarvestsStayStored ==
    ASSUME TypeOK, HarvestsAreStored, [Next]_vars
    PROVE  /\ \A e \in events' : Kind[e] = "harvest" => e \in eventsDb'
           /\ \A e \in Events :
                 accept'[e] = "committed" => e \in eventsDb'
<1> DEFINE Goal ==
      /\ \A e \in events' : Kind[e] = "harvest" => e \in eventsDb'
      /\ \A e \in Events :
            accept'[e] = "committed" => e \in eventsDb'
<1>0. eventsDb \subseteq eventsDb'
  BY StoreGrows
<1> USE DEF HarvestsAreStored, HarvestsStored, TypeOK
<1>1. ASSUME NEW e \in Events, Record(e) PROVE Goal
  <2>1. CASE HarvestAccept(e) \/ HarvestFails(e)
    BY <2>1 DEF HarvestAccept, HarvestFails
  <2>2. CASE HarvestCommit(e)
    BY <2>2 DEF HarvestCommit
  <2>3. CASE HarvestVisible(e)
    BY <2>3 DEF HarvestVisible
  <2>4. CASE TransferPush(e) \/ TransferFails(e)
    BY <2>4 DEF TransferPush, TransferFails
  <2>5. CASE Recover(e) \/ RecoverFails(e)
    BY <2>5 DEF Recover, RecoverFails
  <2>6. CASE InMemoryCommit(e)
    BY <2>6 DEF InMemoryCommit
  <2>7. QED
    BY <1>1, <2>1, <2>2, <2>3, <2>4, <2>5, <2>6 DEF Record
<1>2. ASSUME Crash PROVE Goal
  BY <1>2 DEF Crash
<1>3. ASSUME UNCHANGED <<events, eventsDb, accept>> PROVE Goal
  BY <1>3
<1>4. ASSUME NEW c \in Callers,
             \/ Advance(c) \/ Disturb(c) \/ MineTransaction(c)
             \/ \E d \in Days : AnchorDate(c, d)
      PROVE UNCHANGED <<events, eventsDb, accept>>
  BY <1>4 DEF Advance, RootIsOnChain, PendingSaved, SendTransaction, SendRejected,
     Confirm, ConfirmedSaved, TransactionReverted, FailedSaved, Catch, Disturb,
     RootNotSeen, PendingSaveFails, SendFails, SendResponseLost, ReceiptLost,
     ConfirmedSaveFails, FailedSaveFails, MineTransaction, AnchorDate, eventVars
<1> HIDE DEF Goal, HarvestsAreStored, HarvestsStored, TypeOK
<1>5. ASSUME NEW c \in Ticks, SchedulerRun(c) PROVE Goal
  BY <1>3, <1>4, <1>5 DEF SchedulerRun, Callers
<1>6. ASSUME NEW c \in Requests, AdminPost(c) PROVE Goal
  BY <1>3, <1>4, <1>6 DEF AdminPost, Callers
<1>7. ASSUME NEW c \in Callers, Advance(c) \/ Disturb(c) \/ MineTransaction(c)
      PROVE Goal
  BY <1>3, <1>4, <1>7
<1>8. ASSUME NEW t \in orphans, MineOrphan(t) PROVE Goal
  BY <1>3, <1>8 DEF MineOrphan, eventVars
<1>9. ASSUME NEW d \in Days, BackoffElapses(d) PROVE Goal
  BY <1>3, <1>9 DEF BackoffElapses, eventVars
<1>10. ASSUME NextDay PROVE Goal
  BY <1>3, <1>10 DEF NextDay, eventVars
<1>11. ASSUME UNCHANGED vars PROVE Goal
  BY <1>3, <1>11 DEF vars, eventVars
<1>12. Goal
  BY <1>1, <1>2, <1>5, <1>6, <1>7, <1>8, <1>9, <1>10, <1>11 DEF Next
<1>13. QED
  BY <1>12 DEF Goal

\* Any root of stored harvests stays one.
LEMMA StoredRootsStay ==
    ASSUME TypeOK, [Next]_vars, NEW root, HarvestsStored(root)
    PROVE  \A e \in root : Kind[e] = "harvest" => e \in eventsDb'
BY StoreGrows DEF HarvestsStored

\* Where the roots of the calls, the orphans and the contract come from.
LEMMA RootsComeFromMemory ==
    ASSUME TypeOK, [Next]_vars
    PROVE  /\ \A c \in Callers :
                \/ callers'[c].root = callers[c].root
                \/ callers'[c].root = {}
                \/ callers'[c].root \subseteq events
           /\ \A t \in orphans' :
                t \in orphans \/ \E c \in Callers : t.root = callers[c].root
           /\ \A d \in Days :
                \/ chain'[d] = chain[d]
                \/ \E c \in Callers : chain'[d] = callers[c].root
                \/ \E t \in orphans : chain'[d] = t.root
<1> DEFINE CallRoots == \A c \in Callers :
                \/ callers'[c].root = callers[c].root
                \/ callers'[c].root = {}
                \/ callers'[c].root \subseteq events
           OrphanRoots == \A t \in orphans' :
                t \in orphans \/ \E c \in Callers : t.root = callers[c].root
           ChainRoots == \A d \in Days :
                \/ chain'[d] = chain[d]
                \/ \E c \in Callers : chain'[d] = callers[c].root
                \/ \E t \in orphans : chain'[d] = t.root
<1> USE DEF TypeOK, chainVars
<1>0. \A c \in Callers : callers[c] \in Calls
  OBVIOUS
<1>1. ASSUME NEW c \in Callers, Advance(c) PROVE CallRoots /\ UNCHANGED chainVars
  <2>1. UNCHANGED chainVars
    BY <1>1 DEF Advance, RootIsOnChain, PendingSaved, SendTransaction, SendRejected,
       Confirm, ConfirmedSaved, TransactionReverted, FailedSaved, Catch
  <2>2. \A x \in Callers : x # c => callers'[x] = callers[x]
    BY <1>1, OneCallMoves
  <2>3. callers'[c].root \in {callers[c].root, {}}
    <3>1. CASE RootIsOnChain(c) \/ ConfirmedSaved(c) \/ FailedSaved(c)
      BY <3>1 DEF RootIsOnChain, ConfirmedSaved, FailedSaved, Return, Idle
    <3>2. CASE PendingSaved(c) \/ Confirm(c)
      BY <1>0, <3>2 DEF PendingSaved, Confirm, Goto, Calls
    <3>3. CASE SendTransaction(c)
      BY <1>0, <3>3 DEF SendTransaction, Calls
    <3>4. CASE SendRejected(c) \/ TransactionReverted(c)
      BY <1>0, <3>4 DEF SendRejected, TransactionReverted, Catch, Calls
    <3>5. QED
      BY <1>1, <3>1, <3>2, <3>3, <3>4 DEF Advance
  <2>4. QED
    BY <2>1, <2>2, <2>3
<1>2. ASSUME NEW c \in Callers, Disturb(c) PROVE CallRoots /\ OrphanRoots /\ UNCHANGED chain
  <2>1. UNCHANGED chain
    BY <1>2 DEF Disturb, RootNotSeen, PendingSaveFails, SendFails, SendResponseLost,
       ReceiptLost, ConfirmedSaveFails, FailedSaveFails, Catch
  <2>2. OrphanRoots
    BY <1>2 DEF Disturb, RootNotSeen, PendingSaveFails, SendFails, SendResponseLost,
       ReceiptLost, ConfirmedSaveFails, FailedSaveFails, Abandon
  <2>3. \A x \in Callers : x # c => callers'[x] = callers[x]
    BY <1>2, OneCallMoves
  <2>4. callers'[c].root \in {callers[c].root, {}}
    <3>1. CASE PendingSaveFails(c) \/ FailedSaveFails(c)
      BY <3>1 DEF PendingSaveFails, FailedSaveFails, Return, Idle
    <3>2. CASE RootNotSeen(c)
      BY <3>2 DEF RootNotSeen, StartAttempt
    <3>3. CASE SendFails(c) \/ SendResponseLost(c) \/ ReceiptLost(c) \/ ConfirmedSaveFails(c)
      BY <1>0, <3>3 DEF SendFails, SendResponseLost, ReceiptLost, ConfirmedSaveFails,
         Catch, Calls
    <3>4. QED
      BY <1>2, <3>1, <3>2, <3>3 DEF Disturb
  <2>5. QED
    BY <2>1, <2>2, <2>3, <2>4
<1>3. ASSUME NEW c \in Callers, MineTransaction(c)
      PROVE CallRoots /\ ChainRoots /\ UNCHANGED orphans
  BY <1>3 DEF MineTransaction, Register, Calls
<1>4. ASSUME NEW t \in orphans, MineOrphan(t)
      PROVE UNCHANGED callers /\ ChainRoots /\ orphans' \subseteq orphans
  BY <1>4 DEF MineOrphan, Register, Transactions
<1>5. ASSUME NEW c \in Callers, NEW d \in Days, AnchorDate(c, d)
      PROVE CallRoots /\ UNCHANGED chainVars
  <2>1. DailyRoot(d) \subseteq events
    BY DEF DailyRoot
  <2>2. QED
    BY <1>5, <2>1 DEF AnchorDate, StartAttempt
<1>6. CASE Crash
  BY <1>6 DEF Crash, Idle
<1>7. ASSUME NEW e \in Events, Record(e) PROVE UNCHANGED <<callers, chain, orphans>>
  BY <1>7 DEF Record, HarvestAccept, HarvestCommit, HarvestVisible, HarvestFails,
     TransferPush, TransferFails, Recover, RecoverFails, InMemoryCommit
<1>8. CASE UNCHANGED <<callers, chain, orphans>>
  BY <1>8
<1> HIDE DEF CallRoots, OrphanRoots, ChainRoots
<1>9. (UNCHANGED callers => CallRoots) /\ (orphans' \subseteq orphans => OrphanRoots)
      /\ (UNCHANGED chain => ChainRoots)
  BY DEF CallRoots, OrphanRoots, ChainRoots
<1>10. CallRoots /\ OrphanRoots /\ ChainRoots
  BY <1>1, <1>2, <1>3, <1>4, <1>5, <1>6, <1>7, <1>8, <1>9
     DEF Next, SchedulerRun, AdminPost, Callers, NextDay, BackoffElapses, vars,
         Crash, CallRoots, OrphanRoots
<1>11. QED
  BY <1>10 DEF CallRoots, OrphanRoots, ChainRoots

\* Every step leaves the harvests behind every root stored.
LEMMA StorageIsInductive ==
    ASSUME TypeOK, HarvestsAreStored, AnchoredHarvestsAreStored, [Next]_vars
    PROVE  HarvestsAreStored' /\ AnchoredHarvestsAreStored'
<1> DEFINE Kept(root) == \A e \in root : Kind[e] = "harvest" => e \in eventsDb'
<1>1. Kept(events) /\ Kept({}) /\ \A root : root \subseteq events => Kept(root)
  BY StoredRootsStay DEF HarvestsAreStored
<1>2. (\A c \in Callers : Kept(callers[c].root)) /\ (\A t \in orphans : Kept(t.root))
  BY StoredRootsStay DEF HarvestsAreStored
<1>3. \A d \in Days : Kept(chain[d])
  BY StoredRootsStay DEF AnchoredHarvestsAreStored
<1> HIDE DEF Kept
<1>4. /\ \A c \in Callers : Kept(callers'[c].root)
      /\ \A t \in orphans' : Kept(t.root)
      /\ \A d \in Days : Kept(chain'[d])
  <2>1. \A c \in Callers : Kept(callers'[c].root)
    BY <1>1, <1>2, RootsComeFromMemory
  <2>2. \A t \in orphans' : Kept(t.root)
    BY <1>2, RootsComeFromMemory
  <2>3. \A d \in Days : Kept(chain'[d])
    BY <1>2, <1>3, RootsComeFromMemory
  <2>4. QED
    BY <2>1, <2>2, <2>3
<1>5. QED
  BY <1>4, MemoryHarvestsStayStored
     DEF Kept, HarvestsAreStored, AnchoredHarvestsAreStored, HarvestsStored

(***************************************************************************)
(* The invariant and what follows from it.                                 *)
(***************************************************************************)

\* The service starts without calls, records and roots.
LEMMA InitEstablishes == Init => AnchoringInv
BY DEF Init, AnchoringInv, CallsAreHonest, HonestCall, ConfirmedIsOnChain, Registered,
   HarvestsAreStored, AnchoredHarvestsAreStored, HarvestsStored, Idle, NoRecord

\* The three parts together are inductive.
LEMMA NextPreserves == TypeOK /\ AnchoringInv /\ [Next]_vars => AnchoringInv'
BY HonestyIsInductive, ConfirmationIsInductive, StorageIsInductive DEF AnchoringInv

\* The inductive invariant holds in every reachable state.
THEOREM AnchoringInvariant == Spec => []AnchoringInv
BY InitEstablishes, NextPreserves, AnchoringTypeCorrect, PTL DEF Spec

\* A confirmed record always names the root the contract holds for its day.
THEOREM ConfirmedRootsAreOnChain == Spec => []ConfirmedIsOnChain
<1>1. AnchoringInv => ConfirmedIsOnChain
  BY DEF AnchoringInv
<1>2. QED
  BY <1>1, AnchoringInvariant, PTL

\* The harvests under an anchored root are always in the database.
THEOREM AnchoredHarvestsAreDurable == Spec => []AnchoredHarvestsAreStored
<1>1. AnchoringInv => AnchoredHarvestsAreStored
  BY DEF AnchoringInv
<1>2. QED
  BY <1>1, AnchoringInvariant, PTL

\* A transaction is seen mined only by a call that saw it before, or that
\* registers its root on a day without one.
LEMMA OnlyTheFirstIsMined ==
    ASSUME TypeOK, [Next]_vars, NEW c \in Callers, callers'[c].tx = "mined"
    PROVE  \/ callers[c].tx = "mined" /\ callers'[c].day = callers[c].day
           \/ chain[callers'[c].day] = {}
<1>0. callers[c] \in Calls
  BY DEF TypeOK
<1>1. CASE callers'[c] = callers[c]
  BY <1>1
<1>2. CASE Advance(c)
  <2>1. CASE RootIsOnChain(c) \/ ConfirmedSaved(c) \/ FailedSaved(c)
    BY <2>1 DEF RootIsOnChain, ConfirmedSaved, FailedSaved, Return, TypeOK, Idle
  <2>2. CASE PendingSaved(c) \/ Confirm(c)
    BY <1>0, <2>2 DEF PendingSaved, Confirm, Goto, TypeOK, Calls
  <2>3. CASE SendTransaction(c)
    BY <1>0, <2>3 DEF SendTransaction, TypeOK, Calls
  <2>4. CASE SendRejected(c) \/ TransactionReverted(c)
    BY <1>0, <2>4 DEF SendRejected, TransactionReverted, Catch, TypeOK, Calls
  <2>5. QED
    BY <1>2, <2>1, <2>2, <2>3, <2>4 DEF Advance
<1>3. CASE Disturb(c)
  <2>1. CASE RootNotSeen(c)
    BY <2>1 DEF RootNotSeen, StartAttempt, TypeOK
  <2>2. CASE PendingSaveFails(c) \/ FailedSaveFails(c)
    BY <2>2 DEF PendingSaveFails, FailedSaveFails, Return, TypeOK, Idle
  <2>3. CASE SendFails(c) \/ SendResponseLost(c) \/ ReceiptLost(c) \/ ConfirmedSaveFails(c)
    BY <1>0, <2>3 DEF SendFails, SendResponseLost, ReceiptLost, ConfirmedSaveFails,
       Catch, TypeOK, Calls
  <2>4. QED
    BY <1>3, <2>1, <2>2, <2>3 DEF Disturb
<1>4. CASE MineTransaction(c)
  BY <1>0, <1>4 DEF MineTransaction, TypeOK, Calls
<1>5. CASE \E d \in Days : AnchorDate(c, d)
  BY <1>5 DEF AnchorDate, StartAttempt, TypeOK
<1>6. CASE Crash
  BY <1>6 DEF Crash, Idle
<1>7. CASE \E x \in Callers : \/ Advance(x) \/ Disturb(x) \/ MineTransaction(x)
                             \/ \E d \in Days : AnchorDate(x, d)
  BY <1>1, <1>2, <1>3, <1>4, <1>5, <1>7, OneCallMoves
<1>8. QED
  BY <1>1, <1>6, <1>7, NobodyMoves DEF Next, SchedulerRun, AdminPost, Callers

\* A lost day stays lost.
LEMMA LostStaysLost ==
    ASSUME TypeOK, AnchoringInv, [Next]_vars, NEW d \in Days, Lost(d)
    PROVE  Lost(d)'
<1>1. chain'[d] # {}
  BY SealsAreFinal DEF Lost
<1>2. \A c \in Callers : ~(callers'[c].day = d /\ callers'[c].tx = "mined")
  BY OnlyTheFirstIsMined DEF Lost
<1>3. anchors'[d].status # "confirmed" /\ anchorsDb'[d].status # "confirmed"
  <2>1. CASE UNCHANGED <<anchors, anchorsDb>>
    BY <2>1 DEF Lost
  <2>2. CASE Crash
    BY <2>2 DEF Crash, Lost
  <2>3. ASSUME NEW call \in Calls, NEW status \in Statuses,
               status = "confirmed" =>
                  call.tx = "mined" /\ \E c \in Callers : call = callers[c],
               \/ Remember(call, status) /\ UNCHANGED anchorsDb
               \/ Persist(call, status) /\ UNCHANGED anchors
        PROVE  anchors'[d].status # "confirmed" /\ anchorsDb'[d].status # "confirmed"
    <3>1. CASE call.day = d
      <4>1. status # "confirmed"
        BY <2>3, <3>1 DEF Lost
      <4>2. QED
        BY <2>3, <4>1 DEF Lost, Remember, Persist, RecordOf, TypeOK
    <3>2. CASE call.day # d
      BY <2>3, <3>2 DEF Lost, Remember, Persist, TypeOK
    <3>3. QED
      BY <3>1, <3>2
  <2>4. QED
    BY <2>1, <2>2, <2>3, HowRecordsChange DEF AnchoringInv
<1>4. QED
  BY <1>1, <1>2, <1>3 DEF Lost

\* Once a day is lost no retry ever confirms it.
THEOREM LossIsFinal == Spec => LostIsFinal
<1>1. TypeOK /\ AnchoringInv /\ [Next]_vars
        => [\A d \in Days : Lost(d) => Lost(d)']_vars
  BY LostStaysLost
<1>2. QED
  BY <1>1, AnchoringTypeCorrect, AnchoringInvariant, PTL DEF Spec, LostIsFinal

(***************************************************************************)
(* Anchoring implements the ledger.                                        *)
(***************************************************************************)

\* A step moves the contract or the records, never both.
LEMMA ChainOrRecords ==
    ASSUME [Next]_vars
    PROVE  UNCHANGED chain \/ UNCHANGED <<anchors, anchorsDb>>
<1>1. ASSUME NEW c \in Callers, Advance(c) PROVE UNCHANGED chain
  BY <1>1 DEF Advance, RootIsOnChain, PendingSaved, SendTransaction, SendRejected,
     Confirm, ConfirmedSaved, TransactionReverted, FailedSaved, Catch, chainVars
<1>2. ASSUME NEW c \in Callers, Disturb(c) PROVE UNCHANGED chain
  BY <1>2 DEF Disturb, RootNotSeen, PendingSaveFails, SendFails, SendResponseLost,
     ReceiptLost, ConfirmedSaveFails, FailedSaveFails, Catch, chainVars
<1>3. ASSUME NEW c \in Callers, NEW d \in Days, AnchorDate(c, d) PROVE UNCHANGED chain
  BY <1>3 DEF AnchorDate, chainVars
<1>4. ASSUME NEW e \in Events, Record(e) PROVE UNCHANGED chain
  BY <1>4 DEF Record, HarvestAccept, HarvestCommit, HarvestVisible, HarvestFails,
     TransferPush, TransferFails, Recover, RecoverFails, InMemoryCommit, chainVars
<1>5. QED
  BY <1>1, <1>2, <1>3, <1>4
     DEF Next, SchedulerRun, AdminPost, Callers, MineTransaction, MineOrphan,
         NextDay, BackoffElapses, Crash, vars, anchorVars, chainVars

\* The contract gains at most one root at a time, and not the zero root.
LEMMA ChainStep ==
    ASSUME TypeOK, CallsAreHonest, [Next]_vars
    PROVE  \/ UNCHANGED chain
           \/ \E d \in Days, root \in Roots :
                /\ chain[d] = {} /\ root # {}
                /\ chain' = [chain EXCEPT ![d] = root]
<1>1. ASSUME NEW c \in Callers, MineTransaction(c)
      PROVE \/ UNCHANGED chain
            \/ \E d \in Days, root \in Roots :
                /\ chain[d] = {} /\ root # {}
                /\ chain' = [chain EXCEPT ![d] = root]
  <2>1. callers[c] \in Calls /\ callers[c].root # {}
    BY <1>1 DEF MineTransaction, TypeOK, CallsAreHonest, HonestCall
  <2>2. QED
    BY <1>1, <2>1 DEF MineTransaction, Register, Calls
<1>2. ASSUME NEW t \in orphans, MineOrphan(t)
      PROVE \/ UNCHANGED chain
            \/ \E d \in Days, root \in Roots :
                /\ chain[d] = {} /\ root # {}
                /\ chain' = [chain EXCEPT ![d] = root]
  <2>1. t \in Transactions /\ t.root # {}
    BY DEF TypeOK, CallsAreHonest
  <2>2. QED
    BY <1>2, <2>1 DEF MineOrphan, Register, Transactions
<1>3. ASSUME NEW c \in Callers, Advance(c) \/ Disturb(c) PROVE UNCHANGED chain
  BY <1>3 DEF Advance, RootIsOnChain, PendingSaved, SendTransaction, SendRejected,
     Confirm, ConfirmedSaved, TransactionReverted, FailedSaved, Catch, Disturb,
     RootNotSeen, PendingSaveFails, SendFails, SendResponseLost, ReceiptLost,
     ConfirmedSaveFails, FailedSaveFails, chainVars
<1>4. ASSUME NEW c \in Callers, NEW d \in Days, AnchorDate(c, d) PROVE UNCHANGED chain
  BY <1>4 DEF AnchorDate, chainVars
<1>5. ASSUME NEW e \in Events, Record(e) PROVE UNCHANGED chain
  BY <1>5 DEF Record, HarvestAccept, HarvestCommit, HarvestVisible, HarvestFails,
     TransferPush, TransferFails, Recover, RecoverFails, InMemoryCommit, chainVars
<1>6. CASE Crash \/ NextDay \/ (\E d \in Days : BackoffElapses(d)) \/ UNCHANGED vars
  BY <1>6 DEF Crash, NextDay, BackoffElapses, vars, chainVars
<1>7. QED
  BY <1>1, <1>2, <1>3, <1>4, <1>5, <1>6 DEF Next, SchedulerRun, AdminPost, Callers

\* Every step is a step of the ledger or leaves it as it is.
LEMMA StepIsLedgerStep ==
    ASSUME TypeOK, AnchoringInv, [Next]_vars
    PROVE  [Ledger!LedgerNext]_(Ledger!ledgerVars)
<1> DEFINE claimed == [d \in Days |->
        IF anchors[d].status = "confirmed" THEN anchors[d].root ELSE {}]
<1> USE DEF Ledger!LedgerNext, Ledger!ledgerVars
<1>1. CASE ~UNCHANGED chain
  <2>1. UNCHANGED <<anchors, anchorsDb>>
    BY <1>1, ChainOrRecords
  <2>2. PICK d \in Days, root \in Roots :
            /\ chain[d] = {} /\ root # {}
            /\ chain' = [chain EXCEPT ![d] = root]
    BY <1>1, ChainStep DEF AnchoringInv
  <2>3. Ledger!Seal(d, root)
    BY <2>1, <2>2 DEF Ledger!Seal
  <2>4. QED
    BY <2>3
<1>2. CASE UNCHANGED chain /\ UNCHANGED <<anchors, anchorsDb>>
  BY <1>2
<1>3. CASE UNCHANGED chain /\ Crash
  <2> DEFINE kept == {d \in Days : anchorsDb[d].status = "confirmed"}
  <2>1. \A d \in Days : anchorsDb[d].status = "confirmed" => chain[d] = anchorsDb[d].root
    BY DEF AnchoringInv, ConfirmedIsOnChain, Registered
  <2>2. claimed' = [d \in Days |-> IF d \in kept THEN chain[d] ELSE {}]
    BY <1>3, <2>1 DEF Crash
  <2>3. kept \in SUBSET Days
    OBVIOUS
  <2> HIDE DEF kept
  <2>4. \E k \in SUBSET Days :
            claimed' = [d \in Days |-> IF d \in k THEN chain[d] ELSE {}]
    BY <2>2, <2>3
  <2>5. QED
    BY <1>3, <2>4 DEF Ledger!Reload
<1>4. ASSUME UNCHANGED chain,
             NEW call \in Calls, NEW status \in Statuses,
             \/ Remember(call, status) /\ UNCHANGED anchorsDb
             \/ Persist(call, status) /\ UNCHANGED anchors
      PROVE  [Ledger!LedgerNext]_(Ledger!ledgerVars)
  <2>1. CASE Persist(call, status) /\ UNCHANGED anchors
    BY <1>4, <2>1
  <2>2. CASE Remember(call, status)
    <3>1. call.day \in Days
      BY DEF Calls
    <3>2. anchors'[call.day].status = status /\ anchors'[call.day].root = call.root
      BY <2>2, <3>1 DEF Remember, RecordOf, TypeOK
    <3>3. \A d \in Days : d # call.day => anchors'[d] = anchors[d]
      BY <2>2 DEF Remember, TypeOK
    <3>4. CASE status = "confirmed"
      <4>1. chain[call.day] = call.root /\ chain[call.day] # {}
        BY <1>4, <3>1, <3>2, <3>4, NextPreserves
           DEF AnchoringInv, ConfirmedIsOnChain, Registered
      <4>2. claimed' = [claimed EXCEPT ![call.day] = chain[call.day]]
        BY <3>1, <3>2, <3>3, <3>4, <4>1
      <4>3. Ledger!Claim(call.day)
        BY <1>4, <4>1, <4>2 DEF Ledger!Claim
      <4>4. QED
        BY <3>1, <4>3
    <3>5. CASE status # "confirmed"
      <4>1. claimed' = [claimed EXCEPT ![call.day] = {}]
        BY <3>1, <3>2, <3>3, <3>5
      <4>2. Ledger!Withdraw(call.day)
        BY <1>4, <4>1 DEF Ledger!Withdraw
      <4>3. QED
        BY <3>1, <4>2
    <3>6. QED
      BY <3>4, <3>5
  <2>3. QED
    BY <1>4, <2>1, <2>2
<1>5. QED
  BY <1>1, <1>2, <1>3, <1>4, HowRecordsChange DEF AnchoringInv

\* Anchoring implements AnchorLedger: seals are final, and the service claims
\* a sealed root only.
THEOREM AnchoringImplementsLedger == Spec => LedgerSpec
<1>1. Init => Ledger!LedgerInit
  BY DEF Init, Ledger!LedgerInit, NoRecord
<1>2. TypeOK /\ AnchoringInv /\ [Next]_vars => [Ledger!LedgerNext]_(Ledger!ledgerVars)
  BY StepIsLedgerStep
<1>3. QED
  BY <1>1, <1>2, AnchoringTypeCorrect, AnchoringInvariant, PTL
     DEF Spec, LedgerSpec, Ledger!LedgerSpec

(***************************************************************************)
(* Memory and the table, day by day.                                       *)
(***************************************************************************)

\* What a step of a call on a day leaves alone: the other calls, the other
\* days, and the marks that only a restart takes back.
StaysOnDay(c, d) ==
    /\ d \in Days
    /\ \A x \in Callers \ {c} : callers'[x] = callers[x]
    /\ callers[c].pc \notin {"idle", "verify"} => callers[c].day = d
    /\ callers'[c].pc \notin {"idle", "verify"} => callers'[c].day = d
    /\ \A e \in Days \ {d} :
          /\ anchors'[e] = anchors[e] /\ anchorsDb'[e] = anchorsDb[e]
          /\ e \in unsaved' <=> e \in unsaved
    /\ crowded \subseteq crowded' /\ shaken \subseteq shaken'

\* The steps of a call on a day, by what they do to its records.  It looks at
\* the day, or returns having looked.
Looks(c, d) ==
    /\ ~OnDay(c, d) /\ callers'[c].pc \in {"idle", "verify"}
    /\ UNCHANGED <<anchors, anchorsDb, unsaved>>

\* It starts an attempt.
Starts(c, d) ==
    /\ ~OnDay(c, d) /\ callers'[c].pc = "savePending"
    /\ anchors'[d] = RecordOf(callers'[c], "pending")
    /\ UNCHANGED <<anchorsDb, unsaved>>
    /\ Beside(c, d) => d \in crowded'
    /\ anchors[d].status # "confirmed" \/ d \in shaken'

\* It sends its transaction, or sees it mined.
GoesOn(c, d) ==
    /\ OnDay(c, d)
    /\ \/ callers'[c].pc = callers[c].pc
       \/ callers[c].pc = "send" /\ callers'[c].pc = "wait"
    /\ \A status \in Statuses : RecordOf(callers'[c], status) = RecordOf(callers[c], status)
    /\ UNCHANGED <<anchors, anchorsDb, unsaved>>

\* It ends in the catch block.
GivesUp(c, d) ==
    /\ OnDay(c, d) /\ callers[c].pc \in {"send", "wait", "saveConfirmed"}
    /\ callers'[c].pc = "saveFailed"
    /\ anchors'[d] = RecordOf(callers'[c], "failed")
    /\ UNCHANGED <<anchorsDb, unsaved>>

\* It confirms the day.
Confirms(c, d) ==
    /\ OnDay(c, d) /\ callers[c].pc = "wait" /\ callers'[c].pc = "saveConfirmed"
    /\ anchors'[d] = RecordOf(callers'[c], "confirmed")
    /\ UNCHANGED <<anchorsDb, unsaved>>
    /\ Beside(c, d) => d \in shaken'

\* It writes the row, with the status that goes with its await.
Writes(c, d) ==
    /\ OnDay(c, d) /\ UNCHANGED anchors
    /\ \/ /\ callers[c].pc = "savePending" /\ callers'[c].pc = "send"
          /\ anchorsDb'[d] = RecordOf(callers[c], "pending")
       \/ /\ callers[c].pc = "saveConfirmed" /\ callers'[c].pc = "idle"
          /\ anchorsDb'[d] = RecordOf(callers[c], "confirmed")
       \/ /\ callers[c].pc = "saveFailed" /\ callers'[c].pc = "idle"
          /\ anchorsDb'[d] = RecordOf(callers[c], "failed")

\* Its write is refused.
IsRefused(c, d) ==
    /\ OnDay(c, d) /\ callers[c].pc \in {"savePending", "saveFailed"}
    /\ callers'[c].pc = "idle" /\ d \in unsaved'
    /\ UNCHANGED <<anchors, anchorsDb>>

WorksOn(c, d) ==
    /\ StaysOnDay(c, d)
    /\ \/ Looks(c, d) \/ Starts(c, d) \/ GoesOn(c, d) \/ GivesUp(c, d)
       \/ Confirms(c, d) \/ Writes(c, d) \/ IsRefused(c, d)

\* The start of an attempt.
LEMMA StartWorks ==
    ASSUME TypeOK, NEW c \in Callers, NEW d \in Days, NEW root, NEW attempt,
           StartAttempt(c, d, root, attempt), callers[c].pc \in {"idle", "verify"},
           \/ anchors[d].status # "confirmed" /\ shaken' = shaken
           \/ shaken' = shaken \cup {d}
    PROVE  WorksOn(c, d)
<1> DEFINE call == [pc |-> "savePending", day |-> d, root |-> root,
                    attempt |-> attempt, tx |-> "none"]
<1>1. /\ callers'[c] = call /\ \A x \in Callers \ {c} : callers'[x] = callers[x]
      /\ anchors' = [anchors EXCEPT ![d] = RecordOf(call, "pending")]
      /\ UNCHANGED <<anchorsDb, unsaved>>
      /\ crowded' = IF Beside(c, d) THEN crowded \cup {d} ELSE crowded
  BY DEF StartAttempt, Remember, TypeOK
<1>2. call.pc = "savePending" /\ call.day = d
  OBVIOUS
<1> HIDE DEF call
<1>3. StaysOnDay(c, d)
  BY <1>1, <1>2 DEF StaysOnDay, TypeOK
<1>4. Starts(c, d)
  BY <1>1, <1>2 DEF Starts, OnDay, TypeOK
<1> QED
  BY <1>3, <1>4 DEF WorksOn

\* The catch block.
LEMMA CatchWorks ==
    ASSUME TypeOK, NEW c \in Callers, Catch(c),
           callers[c].pc \in {"send", "wait", "saveConfirmed"}
    PROVE  WorksOn(c, callers[c].day)
<1> DEFINE d == callers[c].day
           call == [callers[c] EXCEPT !.pc = "saveFailed", !.tx = "none"]
<1>1. callers[c] \in Calls /\ d \in Days
  BY DEF TypeOK, Calls
<1>2. call.pc = "saveFailed" /\ call.day = d
      /\ RecordOf(call, "failed") = RecordOf(callers[c], "failed")
  BY <1>1 DEF Calls, RecordOf
<1>3. /\ callers'[c] = call /\ \A x \in Callers \ {c} : callers'[x] = callers[x]
      /\ anchors' = [anchors EXCEPT ![d] = RecordOf(call, "failed")]
      /\ UNCHANGED <<anchorsDb, crowded, shaken, unsaved>>
  BY <1>1, <1>2 DEF Catch, Remember, marks, TypeOK
<1> HIDE DEF call, d
<1>4. StaysOnDay(c, d)
  BY <1>1, <1>2, <1>3 DEF StaysOnDay, TypeOK, d
<1>5. GivesUp(c, d)
  BY <1>1, <1>2, <1>3 DEF GivesUp, OnDay, TypeOK, d
<1> QED
  BY <1>4, <1>5 DEF WorksOn, d

\* A call that moves on without its record being touched.
LEMMA GoesOnWorks ==
    ASSUME TypeOK, NEW c \in Callers, callers[c].pc \notin {"idle", "verify"},
           SendTransaction(c) \/ MineTransaction(c)
    PROVE  WorksOn(c, callers[c].day)
<1> DEFINE d == callers[c].day
<1>1. callers[c] \in Calls /\ d \in Days
  BY DEF TypeOK, Calls
<1>2. UNCHANGED <<anchors, anchorsDb, crowded, shaken, unsaved>>
  BY DEF SendTransaction, MineTransaction, anchorVars, marks
<1>3. /\ callers'[c].day = d /\ callers'[c].root = callers[c].root
      /\ callers'[c].attempt = callers[c].attempt
      /\ \/ callers'[c].pc = callers[c].pc
         \/ callers[c].pc = "send" /\ callers'[c].pc = "wait"
      /\ \A x \in Callers \ {c} : callers'[x] = callers[x]
  <2>1. CASE SendTransaction(c)
    BY <1>1, <2>1 DEF SendTransaction, TypeOK, Calls
  <2>2. CASE MineTransaction(c)
    BY <1>1, <2>2 DEF MineTransaction, TypeOK, Calls
  <2> QED
    BY <2>1, <2>2
<1> HIDE DEF d
<1>4. StaysOnDay(c, d)
  BY <1>1, <1>2, <1>3 DEF StaysOnDay, d
<1>5. GoesOn(c, d)
  BY <1>2, <1>3 DEF GoesOn, OnDay, RecordOf, d
<1> QED
  BY <1>4, <1>5 DEF WorksOn, d

\* The receipt.
LEMMA ConfirmWorks ==
    ASSUME TypeOK, NEW c \in Callers, Confirm(c)
    PROVE  WorksOn(c, callers[c].day)
<1> DEFINE d == callers[c].day
           call == [callers[c] EXCEPT !.pc = "saveConfirmed"]
<1>1. callers[c] \in Calls /\ d \in Days /\ callers[c].pc = "wait"
  BY DEF TypeOK, Calls, Confirm
<1>2. call.pc = "saveConfirmed" /\ call.day = d
      /\ RecordOf(call, "confirmed") = RecordOf(callers[c], "confirmed")
  BY <1>1 DEF Calls, RecordOf
<1>3. /\ callers'[c] = call /\ \A x \in Callers \ {c} : callers'[x] = callers[x]
      /\ anchors' = [anchors EXCEPT ![d] = RecordOf(call, "confirmed")]
      /\ UNCHANGED <<anchorsDb, crowded, unsaved>>
      /\ shaken' = IF Beside(c, d) THEN shaken \cup {d} ELSE shaken
  BY <1>1, <1>2 DEF Confirm, Goto, Remember, TypeOK
<1> HIDE DEF call, d
<1>4. StaysOnDay(c, d)
  BY <1>1, <1>2, <1>3 DEF StaysOnDay, TypeOK, d
<1>5. Confirms(c, d)
  BY <1>1, <1>2, <1>3 DEF Confirms, OnDay, TypeOK, d
<1> QED
  BY <1>4, <1>5 DEF WorksOn, d

\* A save, done or refused.
LEMMA SaveWorks ==
    ASSUME TypeOK, NEW c \in Callers,
           \/ PendingSaved(c) \/ ConfirmedSaved(c) \/ FailedSaved(c)
           \/ PendingSaveFails(c) \/ FailedSaveFails(c)
    PROVE  WorksOn(c, callers[c].day)
<1> DEFINE d == callers[c].day
           Save(pc, next, status) ==
              /\ callers[c].pc = pc /\ callers'[c].pc = next
              /\ anchorsDb' = [anchorsDb EXCEPT ![d] = RecordOf(callers[c], status)]
<1>1. callers[c] \in Calls /\ d \in Days /\ callers[c].pc \notin {"idle", "verify"}
  BY DEF TypeOK, Calls, PendingSaved, ConfirmedSaved, FailedSaved, PendingSaveFails,
         FailedSaveFails
<1>2. /\ \A x \in Callers \ {c} : callers'[x] = callers[x]
      /\ callers'[c].pc # "idle" => callers'[c].day = d
      /\ UNCHANGED <<anchors, crowded, shaken>>
      /\ unsaved' \in {unsaved \ {d}, unsaved \cup {d}}
  BY <1>1 DEF PendingSaved, ConfirmedSaved, FailedSaved, PendingSaveFails, FailedSaveFails,
     Goto, Return, Idle, Persist, Unsave, anchorVars, TypeOK, Calls
<1>3. \/ Save("savePending", "send", "pending")
      \/ Save("saveConfirmed", "idle", "confirmed")
      \/ Save("saveFailed", "idle", "failed")
      \/ /\ callers[c].pc \in {"savePending", "saveFailed"} /\ callers'[c].pc = "idle"
         /\ anchorsDb' = anchorsDb /\ d \in unsaved'
  BY <1>1 DEF PendingSaved, ConfirmedSaved, FailedSaved, PendingSaveFails, FailedSaveFails,
     Goto, Return, Idle, Persist, Unsave, anchorVars, TypeOK, Calls
<1>4. StaysOnDay(c, d)
  BY <1>1, <1>2, <1>3 DEF StaysOnDay, TypeOK
<1>5. Writes(c, d) \/ IsRefused(c, d)
  BY <1>1, <1>2, <1>3 DEF Writes, IsRefused, OnDay, TypeOK
<1> QED
  BY <1>4, <1>5 DEF WorksOn

\* A look at the chain.
LEMMA LookWorks ==
    ASSUME TypeOK, NEW c \in Callers, NEW d \in Days,
           \/ RootIsOnChain(c)
           \/ AnchorDate(c, d) /\ callers'[c].pc = "verify" /\ UNCHANGED <<anchorVars, crowded, unsaved>>
    PROVE  WorksOn(c, d)
<1>1. /\ callers[c].pc \in {"idle", "verify"} /\ callers'[c].pc \in {"idle", "verify"}
      /\ UNCHANGED <<anchors, anchorsDb, crowded, shaken, unsaved>>
      /\ \A x \in Callers \ {c} : callers'[x] = callers[x]
  BY OneCallMoves DEF RootIsOnChain, AnchorDate, Return, Idle, anchorVars, marks, TypeOK, Advance
<1> QED
  BY <1>1 DEF WorksOn, StaysOnDay, Looks, OnDay

\* Every step of a call works on a day.
LEMMA MoverWorks ==
    ASSUME TypeOK, CallsAreHonest, NEW c \in Callers,
           \/ Advance(c) \/ Disturb(c) \/ MineTransaction(c)
           \/ \E d \in Days : AnchorDate(c, d)
    PROVE  \E d \in Days : WorksOn(c, d)
<1>1. callers[c] \in Calls /\ callers[c].day \in Days
  BY DEF TypeOK, Calls
<1>2. CASE \/ PendingSaved(c) \/ ConfirmedSaved(c) \/ FailedSaved(c)
           \/ PendingSaveFails(c) \/ FailedSaveFails(c)
  BY <1>1, <1>2, SaveWorks
<1>3. CASE SendRejected(c) \/ TransactionReverted(c) \/ SendFails(c) \/ SendResponseLost(c)
           \/ ReceiptLost(c) \/ ConfirmedSaveFails(c)
  <2>1. Catch(c) /\ callers[c].pc \in {"send", "wait", "saveConfirmed"}
    BY <1>3 DEF SendRejected, TransactionReverted, SendFails, SendResponseLost, ReceiptLost,
       ConfirmedSaveFails
  <2> QED
    BY <1>1, <2>1, CatchWorks
<1>4. CASE Confirm(c)
  BY <1>1, <1>4, ConfirmWorks
<1>5. CASE SendTransaction(c) \/ MineTransaction(c)
  <2>1. callers[c].pc \notin {"idle", "verify"}
    BY <1>5 DEF SendTransaction, MineTransaction, CallsAreHonest, HonestCall
  <2> QED
    BY <1>1, <1>5, <2>1, GoesOnWorks
<1>6. CASE RootIsOnChain(c)
  BY <1>1, <1>6, LookWorks
<1>7. CASE RootNotSeen(c)
  <2>1. /\ callers[c].pc = "verify" /\ shaken' = shaken \cup {callers[c].day}
        /\ StartAttempt(c, callers[c].day, callers[c].root, callers[c].attempt)
    BY <1>7 DEF RootNotSeen
  <2> QED
    BY <1>1, <2>1, StartWorks
<1>8. ASSUME NEW d \in Days, AnchorDate(c, d) PROVE WorksOn(c, d)
  <2>1. callers[c].pc = "idle" /\ shaken' = shaken
    BY <1>8 DEF AnchorDate
  <2>2. CASE /\ anchors[d].status # "confirmed"
             /\ StartAttempt(c, d, DailyRoot(d), anchors[d].attempt + 1)
    BY <2>1, <2>2, StartWorks
  <2>3. CASE /\ callers' = [callers EXCEPT ![c] =
                   [pc |-> "verify", day |-> d, root |-> DailyRoot(d),
                    attempt |-> anchors[d].attempt + 1, tx |-> "none"]]
             /\ UNCHANGED <<anchorVars, crowded, unsaved>>
    <3>1. callers'[c].pc = "verify"
      BY <2>3 DEF TypeOK
    <3> QED
      BY <1>8, <2>3, <3>1, LookWorks
  <2> QED
    BY <1>8, <2>2, <2>3 DEF AnchorDate
<1> QED
  BY <1>2, <1>3, <1>4, <1>5, <1>6, <1>7, <1>8 DEF Advance, Disturb

\* On every other day the calls at work are the same.
LEMMA OtherDays ==
    ASSUME NEW c \in Callers, NEW d \in Days, StaysOnDay(c, d), NEW e \in Days, e # d
    PROVE  /\ \A x \in Callers : OnDay(x, e) => OnDay(x, e)' /\ callers'[x] = callers[x]
           /\ \A x \in Callers : OnDay(x, e)' => OnDay(x, e)
           /\ anchors'[e] = anchors[e] /\ anchorsDb'[e] = anchorsDb[e]
           /\ e \in unsaved' <=> e \in unsaved
BY DEF StaysOnDay, OnDay

\* So they stay agreed and settled.
LEMMA OtherDaysStay ==
    ASSUME NEW c \in Callers, NEW d \in Days, StaysOnDay(c, d), NEW e \in Days, e # d
    PROVE  (Agreed(e) => Agreed(e)') /\ (Settled(e) => Settled(e)')
<1>1. /\ \A x \in Callers : OnDay(x, e) => OnDay(x, e)' /\ callers'[x] = callers[x]
      /\ \A x \in Callers : OnDay(x, e)' => OnDay(x, e)
      /\ anchors'[e] = anchors[e] /\ anchorsDb'[e] = anchorsDb[e]
      /\ e \in unsaved' <=> e \in unsaved
  BY OtherDays
<1>2. Quiet(e)' => Quiet(e)
  BY <1>1 DEF Quiet
<1>3. \A x \in Callers : Beside(x, e)' => Beside(x, e)
  BY <1>1 DEF Beside
<1>4. Agreed(e) => Agreed(e)'
  BY <1>1, <1>2 DEF Agreed, RecordOf
<1>5. Settled(e) => Settled(e)'
  BY <1>1, <1>3 DEF Settled
<1> QED
  BY <1>4, <1>5

\* On the day itself the other calls stay where they are.
LEMMA OthersOnTheDay ==
    ASSUME NEW c \in Callers, NEW d \in Days, StaysOnDay(c, d)
    PROVE  /\ \A x \in Callers \ {c} : OnDay(x, d)' <=> OnDay(x, d)
           /\ Beside(c, d)' <=> Beside(c, d)
           /\ OnDay(c, d)' <=> callers'[c].pc \notin {"idle", "verify"}
BY DEF StaysOnDay, OnDay, Beside

\* The day a lone call works on stays agreed.
LEMMA DayStaysAgreed ==
    ASSUME NEW c \in Callers, NEW d \in Days, WorksOn(c, d), Agreed(d), d \notin crowded',
           TypeOK
    PROVE  Agreed(d)'
<1>1. /\ \A x \in Callers \ {c} : OnDay(x, d)' <=> OnDay(x, d)
      /\ \A x \in Callers \ {c} : callers'[x] = callers[x]
      /\ OnDay(c, d)' <=> callers'[c].pc \notin {"idle", "verify"}
  BY OthersOnTheDay DEF WorksOn, StaysOnDay
<1>2. CASE Looks(c, d)
  <2>1. ~OnDay(c, d)' /\ UNCHANGED <<anchors, anchorsDb, unsaved>> /\ ~OnDay(c, d)
    BY <1>1, <1>2 DEF Looks
  <2>2. \A x \in Callers : (OnDay(x, d)' <=> OnDay(x, d)) /\ (OnDay(x, d) => callers'[x] = callers[x])
    BY <1>1, <2>1
  <2>3. Quiet(d)' => Quiet(d)
    BY <2>2 DEF Quiet
  <2> QED
    BY <2>1, <2>2, <2>3 DEF Agreed, RecordOf
<1>3. ASSUME OnDay(c, d)' => \A x \in Callers \ {c} : ~OnDay(x, d),
             OnDay(c, d)' =>
                /\ callers'[c].pc = "savePending" => anchors'[d] = RecordOf(callers'[c], "pending")
                /\ callers'[c].pc = "saveConfirmed" => anchors'[d] = RecordOf(callers'[c], "confirmed")
                /\ callers'[c].pc = "saveFailed" => anchors'[d] = RecordOf(callers'[c], "failed")
                /\ callers'[c].pc \in {"send", "wait"} => anchors'[d] = anchorsDb'[d],
             ~OnDay(c, d)' =>
                /\ \A x \in Callers \ {c} : ~OnDay(x, d)
                /\ d \notin unsaved' => anchors'[d] = anchorsDb'[d]
      PROVE  Agreed(d)'
  <2>1. \A x \in Callers \ {c} : ~OnDay(x, d)'
    BY <1>1, <1>3
  <2> QED
    BY <1>3, <2>1 DEF Agreed, Quiet, RecordOf
<1>4. CASE Starts(c, d)
  <2>1. OnDay(c, d)' /\ \A x \in Callers \ {c} : ~OnDay(x, d)
    BY <1>1, <1>4 DEF Starts, Beside
  <2> QED
    BY <1>3, <1>4, <2>1 DEF Starts
<1>5. ASSUME OnDay(c, d) PROVE \A x \in Callers \ {c} : ~OnDay(x, d)
  BY <1>5 DEF Agreed
<1>6. CASE GoesOn(c, d)
  <2>1. OnDay(c, d) /\ UNCHANGED <<anchors, anchorsDb>>
    BY <1>6 DEF GoesOn
  <2>2. OnDay(c, d)'
    BY <1>1, <1>6, <2>1 DEF GoesOn, OnDay
  <2>3. /\ callers'[c].pc = "savePending" => anchors'[d] = RecordOf(callers'[c], "pending")
        /\ callers'[c].pc = "saveConfirmed" => anchors'[d] = RecordOf(callers'[c], "confirmed")
        /\ callers'[c].pc = "saveFailed" => anchors'[d] = RecordOf(callers'[c], "failed")
        /\ callers'[c].pc \in {"send", "wait"} => anchors'[d] = anchorsDb'[d]
    BY <1>6, <2>1 DEF GoesOn, Agreed, Statuses
  <2> QED
    BY <1>3, <1>5, <2>1, <2>2, <2>3
<1>7. CASE GivesUp(c, d)
  BY <1>1, <1>3, <1>5, <1>7 DEF GivesUp
<1>8. CASE Confirms(c, d)
  BY <1>1, <1>3, <1>5, <1>8 DEF Confirms
<1>9. CASE Writes(c, d)
  <2>1. OnDay(c, d) /\ anchors'[d] = anchorsDb'[d] /\ callers'[c].pc \in {"send", "idle"}
    BY <1>9 DEF Writes, Agreed
  <2> QED
    BY <1>1, <1>3, <1>5, <2>1
<1>10. CASE IsRefused(c, d)
  <2>1. OnDay(c, d) /\ callers'[c].pc = "idle" /\ d \in unsaved'
    BY <1>10 DEF IsRefused
  <2> QED
    BY <1>1, <1>3, <1>5, <2>1
<1> QED
  BY <1>2, <1>4, <1>6, <1>7, <1>8, <1>9, <1>10 DEF WorksOn

\* The day stays settled, and a confirmed row of it as it is.
LEMMA DayStaysSettled ==
    ASSUME NEW c \in Callers, NEW d \in Days, WorksOn(c, d), Settled(d), d \notin shaken'
    PROVE  /\ Settled(d)'
           /\ anchorsDb[d].status = "confirmed" => anchorsDb'[d] = anchorsDb[d]
<1>1. /\ \A x \in Callers \ {c} : OnDay(x, d)' <=> OnDay(x, d)
      /\ \A x \in Callers \ {c} : callers'[x] = callers[x]
      /\ OnDay(c, d)' <=> callers'[c].pc \notin {"idle", "verify"}
  BY OthersOnTheDay DEF WorksOn, StaysOnDay
<1>2. \A call, status : RecordOf(call, status).status = status
  BY DEF RecordOf
<1>3. \A x \in Callers \ {c} : OnDay(x, d) /\ OnDay(c, d) => Beside(x, d) /\ Beside(c, d)
  BY DEF Beside
<1>4. CASE Looks(c, d) \/ GoesOn(c, d)
  <2>1. UNCHANGED <<anchors, anchorsDb>>
        /\ \A x \in Callers : OnDay(x, d)' <=> OnDay(x, d)
    BY <1>1, <1>4 DEF Looks, GoesOn, OnDay
  <2>2. \A x \in Callers : Beside(x, d)' <=> Beside(x, d)
    BY <2>1 DEF Beside
  <2>3. OnDay(c, d) => (callers'[c].pc = "saveConfirmed" <=> callers[c].pc = "saveConfirmed")
    BY <1>4 DEF Looks, GoesOn
  <2> QED
    BY <1>1, <2>1, <2>2, <2>3 DEF Settled
<1>5. CASE Starts(c, d)
  <2>1. anchorsDb' = anchorsDb /\ anchorsDb[d].status # "confirmed" /\ anchors'[d].status = "pending"
    BY <1>2, <1>5 DEF Starts, Settled
  <2>2. \A x \in Callers : OnDay(x, d)' => callers'[x].pc # "saveConfirmed"
    BY <1>1, <1>5 DEF Starts, Settled
  <2> QED
    BY <2>1, <2>2 DEF Settled
<1>6. CASE GivesUp(c, d)
  <2>1. anchorsDb' = anchorsDb /\ anchors'[d].status = "failed" /\ OnDay(c, d)
    BY <1>2, <1>6 DEF GivesUp
  <2>2. anchorsDb[d].status # "confirmed"
    BY <1>6, <2>1 DEF GivesUp, Settled
  <2>3. \A x \in Callers : OnDay(x, d)' => callers'[x].pc # "saveConfirmed"
    BY <1>1, <1>3, <1>6, <2>1 DEF GivesUp, Settled
  <2> QED
    BY <2>1, <2>2, <2>3 DEF Settled
<1>7. CASE Confirms(c, d)
  <2>1. anchorsDb' = anchorsDb /\ anchors'[d].status = "confirmed" /\ OnDay(c, d)
        /\ callers'[c].pc = "saveConfirmed" /\ ~Beside(c, d)
    BY <1>2, <1>7 DEF Confirms
  <2>2. anchorsDb[d].status # "confirmed"
    BY <1>7, <2>1 DEF Confirms, Settled
  <2>3. \A x \in Callers : OnDay(x, d)' => x = c
    BY <1>1, <1>3, <2>1
  <2>4. ~Beside(c, d)'
    BY <2>3 DEF Beside
  <2> QED
    BY <2>1, <2>2, <2>3, <2>4 DEF Settled
<1>8. CASE Writes(c, d)
  <2>1. OnDay(c, d) /\ anchors' = anchors
    BY <1>8 DEF Writes
  <2>2. CASE /\ callers[c].pc \in {"savePending", "saveFailed"}
             /\ anchorsDb'[d].status # "confirmed" /\ callers'[c].pc \in {"send", "idle"}
    <3>1. anchors[d].status # "confirmed" /\ anchorsDb[d].status # "confirmed"
      BY <2>1, <2>2 DEF Settled
    <3>2. \A x \in Callers : OnDay(x, d)' => callers'[x].pc # "saveConfirmed"
      BY <1>1, <2>1, <2>2, <3>1 DEF Settled
    <3> QED
      BY <2>1, <2>2, <3>1, <3>2 DEF Settled
  <2>3. CASE callers[c].pc = "saveConfirmed" /\ callers'[c].pc = "idle"
    <3>1. anchors[d].status = "confirmed" /\ anchorsDb[d].status # "confirmed" /\ ~Beside(c, d)
      BY <2>1, <2>3 DEF Settled
    <3>2. \A x \in Callers : ~OnDay(x, d)'
      BY <1>1, <1>3, <2>1, <2>3, <3>1
    <3> QED
      BY <2>1, <3>1, <3>2 DEF Settled
  <2> QED
    BY <1>2, <1>8, <2>2, <2>3 DEF Writes
<1>9. CASE IsRefused(c, d)
  <2>1. UNCHANGED <<anchors, anchorsDb>> /\ OnDay(c, d) /\ ~OnDay(c, d)'
    BY <1>1, <1>9 DEF IsRefused
  <2>2. \A x \in Callers : (OnDay(x, d)' => OnDay(x, d) /\ callers'[x] = callers[x])
                           /\ (Beside(x, d)' => Beside(x, d))
    BY <1>1, <2>1 DEF Beside
  <2> QED
    BY <2>1, <2>2 DEF Settled
<1> QED
  BY <1>4, <1>5, <1>6, <1>7, <1>8, <1>9 DEF WorksOn

\* Every step keeps the records of all days, and the confirmed rows.
LEMMA RecordsStay ==
    ASSUME TypeOK, CallsAreHonest, RecordsInv, [Next]_vars
    PROVE  /\ RecordsInv'
           /\ \A d \in Days \ shaken :
                 anchorsDb[d].status = "confirmed" => anchorsDb'[d] = anchorsDb[d]
<1> DEFINE Goal ==
      /\ RecordsInv'
      /\ \A d \in Days \ shaken :
            anchorsDb[d].status = "confirmed" => anchorsDb'[d] = anchorsDb[d]
<1>1. ASSUME NEW c \in Callers,
             \/ Advance(c) \/ Disturb(c) \/ MineTransaction(c)
             \/ \E d \in Days : AnchorDate(c, d)
      PROVE  Goal
  <2>1. PICK d \in Days : WorksOn(c, d)
    BY <1>1, MoverWorks
  <2>2. StaysOnDay(c, d) /\ crowded \subseteq crowded' /\ shaken \subseteq shaken'
    BY <2>1 DEF WorksOn, StaysOnDay
  <2>3. ASSUME NEW e \in Days, e \notin crowded' PROVE Agreed(e)'
    BY <2>1, <2>2, <2>3, OtherDaysStay, DayStaysAgreed DEF RecordsInv
  <2>4. ASSUME NEW e \in Days, e \notin shaken'
        PROVE  /\ Settled(e)'
               /\ anchorsDb[e].status = "confirmed" => anchorsDb'[e] = anchorsDb[e]
    BY <2>1, <2>2, <2>4, OtherDaysStay, OtherDays, DayStaysSettled DEF RecordsInv
  <2>5. ASSUME NEW e \in Days, e \notin shaken, e \in shaken'
        PROVE  anchorsDb'[e] = anchorsDb[e]
    BY <1>1, <2>5
       DEF Advance, Disturb, AnchorDate, RootIsOnChain, PendingSaved, SendTransaction,
           SendRejected, Confirm, ConfirmedSaved, TransactionReverted, FailedSaved, RootNotSeen,
           PendingSaveFails, SendFails, SendResponseLost, ReceiptLost, ConfirmedSaveFails,
           FailedSaveFails, MineTransaction, StartAttempt, Catch, Persist, Unsave, marks, anchorVars
  <2> QED
    BY <2>3, <2>4, <2>5 DEF RecordsInv
<1>2. ASSUME UNCHANGED <<callers, anchors, anchorsDb, crowded, shaken, unsaved>> PROVE Goal
  BY <1>2 DEF RecordsInv, Agreed, Settled, OnDay, Beside, Quiet, RecordOf
<1>3. ASSUME Crash PROVE Goal
  <2>1. anchors' = anchorsDb /\ anchorsDb' = anchorsDb /\ \A c \in Callers : callers'[c].pc = "idle"
    BY <1>3 DEF Crash, Idle
  <2>2. \A c \in Callers, d \in Days : ~OnDay(c, d)'
    BY <2>1 DEF OnDay
  <2> QED
    BY <2>1, <2>2 DEF RecordsInv, Agreed, Settled
<1>4. ASSUME NEW e \in Events, Record(e)
      PROVE  UNCHANGED <<callers, anchors, anchorsDb, crowded, shaken, unsaved>>
  BY <1>4 DEF Record, HarvestAccept, HarvestCommit, HarvestVisible, HarvestFails,
     TransferPush, TransferFails, Recover, RecoverFails, InMemoryCommit, anchorVars, marks
<1> HIDE DEF Goal
<1>5. Goal
  BY <1>1, <1>2, <1>3, <1>4
     DEF Next, SchedulerRun, AdminPost, Callers, MineOrphan, NextDay, BackoffElapses, vars,
         anchorVars, marks
<1> QED
  BY <1>5 DEF Goal

LEMMA RecordsInitially == Init => RecordsInv
BY DEF Init, Idle, RecordsInv, Agreed, Settled, OnDay, NoRecord

LEMMA RecordsInvariant == Spec => []RecordsInv
<1>1. TypeOK /\ AnchoringInv /\ RecordsInv /\ [Next]_vars => RecordsInv'
  BY RecordsStay DEF AnchoringInv
<1> QED
  BY <1>1, RecordsInitially, AnchoringTypeCorrect, AnchoringInvariant, PTL DEF Spec

\* saveAnchor sets the map first and the row at its await: however callers,
\* refused upserts, failures and restarts interleave, memory and row agree
\* about a day no call is anchoring, unless its last upsert was refused or two
\* calls anchored it at once since the last start.
THEOREM RecordsAgree == Spec => []QuietRecordsAgree
<1>1. TypeOK /\ RecordsInv => QuietRecordsAgree
  BY DEF RecordsInv, Agreed, QuietRecordsAgree
<1> QED
  BY <1>1, RecordsInvariant, AnchoringTypeCorrect, PTL

\* anchorDate refuses a day that is confirmed, or asks the chain first, and
\* saveAnchor upserts without a condition: for any number of callers, a
\* confirmed row is written over only on a day that was confirmed beside
\* another call, or anchored again after a failed read, since the last start.
THEOREM ConfirmedRowsStay == Spec => ConfirmedRowStays
<1>1. TypeOK /\ AnchoringInv /\ RecordsInv /\ [Next]_vars =>
          [\A d \in Days \ shaken :
              anchorsDb[d].status = "confirmed" => anchorsDb[d]' = anchorsDb[d]]_vars
  BY RecordsStay DEF AnchoringInv
<1> QED
  BY <1>1, RecordsInvariant, AnchoringTypeCorrect, AnchoringInvariant, PTL
     DEF Spec, ConfirmedRowStays
=============================================================================
