---------------------------- MODULE CustodyProofs ----------------------------
(***************************************************************************)
(* For any number of requests about a lot, however their saves overlap and *)
(* fail: the events table holds an unbroken custody chain, a POST that was *)
(* answered keeps its stage in it, and the stage of the lot's row goes     *)
(* back only in the two ways that RowNeverGoesBack names.                  *)
(***************************************************************************)
EXTENDS Custody, FiniteSetTheorems, TLAPS

(***************************************************************************)
(* Types.                                                                  *)
(***************************************************************************)

\* A harvest's batch is well-typed.
LEMMA OriginType ==
    ASSUME NEW r \in Requests PROVE Origin(r) \in Objects
<1>1. Score[r] \in 0..100 /\ RiskBand(Score[r]) \in Bands
  BY CustodyAssumption DEF RiskBand, Bands
<1>2. [NoEvents EXCEPT ![1] = r] \in Logs
  BY DEF NoEvents, Logs, Stages
<1>3. QED
  BY <1>1, <1>2 DEF Origin, Objects, Rows

\* So is a batch after a transfer.
LEMMA AdvancedType ==
    ASSUME NEW r \in Requests, NEW object \in Objects
    PROVE  Advanced(object, r) \in Objects
<1>1. Stage[r] \in Stages /\ Score[r] \in 0..100
  BY CustodyAssumption
<1>2. Capped(object.head.score + Score[r]) \in 0..100
  BY <1>1, SMTT(60) DEF Capped, Objects, Rows
<1>3. [object.head EXCEPT !.stage = Stage[r],
                          !.score = Capped(object.head.score + Score[r])] \in Rows
  <2> DEFINE score == Capped(object.head.score + Score[r])
  <2>1. object.head \in Rows /\ Stage[r] \in 0..4 /\ score \in 0..100
    BY <1>1, <1>2 DEF Objects, Stages
  <2> HIDE DEF score
  <2>2. [object.head EXCEPT !.stage = Stage[r], !.score = score] \in Rows
    BY <2>1 DEF Rows
  <2>3. QED
    BY <2>2 DEF score
<1>4. [object.log EXCEPT ![Stage[r]] = r] \in Logs
  BY <1>1 DEF Objects, Logs
<1>5. QED
  BY <1>3, <1>4 DEF Advanced, Objects

\* A place is a request's or hydrate's; an object has a head and a log.
LEMMA PlaceType ==
    /\ \A r \in Requests : r \in Places /\ r # NoOne /\ r # Boot
    /\ Boot \in Places /\ Boot # NoOne
    /\ NoObject \in Objects /\ NoRow \in Rows /\ NoEvents \in Logs
BY CustodyAssumption
   DEF Places, NoObject, NoRow, NoEvents, Objects, Rows, Logs, Stages, Bands

\* The start of a handler keeps the types of what it touches.
LEMMA BeginKeepsType ==
    ASSUME TypeOK, NEW r \in Requests, NEW o \in Places, Begin(r, o)
    PROVE  /\ pc' \in [Requests -> Pcs]
           /\ held' \in [Requests -> Places]
           /\ UNCHANGED <<sent, written, answer, lock, row, rows, faults>>
BY DEF Begin, Goto, TypeOK, Pcs, dbVars

\* The marks of a step of a handler are well-typed.
LEMMA MarksType ==
    ASSUME TypeOK, NEW r \in Requests, Step(r)
    PROVE  stale' \subseteq Requests /\ parted' \in BOOLEAN
<1>1. parted \in BOOLEAN /\ stale \subseteq Requests /\ Saving \subseteq Requests
  BY DEF TypeOK, Saving
<1>2. stale' \in {stale, stale \ {r}, (stale \cup Saving) \ {r}}
  BY DEF Step, Harvest, Lookup, Transfer, Begin, Refuse, CaptureRow, LockRow, WriteEvents,
         Commit, Finish, SaveFails, CommitAnswerLost, Store, marks
<1>3. \/ parted' = parted \/ parted' = (parted \/ Exists) \/ parted' = (parted \/ Shared(r))
  BY DEF Step, Harvest, Lookup, Transfer, Refuse, CaptureRow, LockRow, WriteEvents,
         Commit, Finish, SaveFails, CommitAnswerLost, Reject, marks
<1>4. parted' \in BOOLEAN
  BY <1>1, <1>3, Zenon
<1>5. QED
  BY <1>1, <1>2, <1>4

\* A step of a handler keeps the types.
LEMMA StepKeepsType ==
    ASSUME TypeOK, NEW r \in Requests, Step(r) PROVE TypeOK'
<1> DEFINE Marked == stale' \subseteq Requests /\ parted' \in BOOLEAN
<1>0. Marked
  BY MarksType
<1>1. ASSUME Harvest(r) \/ Lookup(r) PROVE TypeOK'
  <2>1. /\ Begin(r, r)
        /\ heap' = [heap EXCEPT ![r] = Origin(r)]
        /\ batch' \in {batch, r}
    BY <1>1 DEF Harvest, Lookup
  <2>2. QED
    BY <1>0, <2>1, PlaceType, BeginKeepsType, OriginType DEF TypeOK
<1>2. CASE Transfer(r)
  <2>1. batch \in Places
    BY <1>2 DEF Transfer, TypeOK
  <2>2. Advanced(heap[batch], r) \in Objects
    BY <2>1, AdvancedType DEF TypeOK
  <2>3. heap' \in [Places -> Objects]
    BY <1>2, <2>1, <2>2, PlaceType DEF Transfer, TypeOK
  <2>4. QED
    BY <1>0, <1>2, <2>1, <2>3, BeginKeepsType DEF Transfer, TypeOK
<1>3. CASE Refuse(r)
  BY <1>0, <1>3 DEF Refuse, Goto, TypeOK, Pcs, Answers, dbVars
<1>4. CASE CaptureRow(r)
  <2>1. heap[held[r]].head \in Rows
    BY DEF TypeOK, Objects
  <2>2. QED
    BY <1>0, <1>4, <2>1 DEF CaptureRow, Goto, TypeOK, Pcs, dbVars
<1>5. CASE LockRow(r)
  BY <1>0, <1>5 DEF LockRow, Goto, TypeOK, Pcs
<1>6. CASE WriteEvents(r)
  <2>1. heap[held[r]].log \in Logs
    BY DEF TypeOK, Objects
  <2>2. QED
    BY <1>0, <1>6, <2>1 DEF WriteEvents, Goto, TypeOK, Pcs, dbVars
<1>7. CASE Commit(r)
  <2>1. Upserted(written[r]) \in Logs
    BY DEF Upserted, TypeOK, Logs
  <2>2. QED
    BY <1>0, <1>7, <2>1 DEF Commit, Store, Goto, TypeOK, Pcs
<1>8. CASE Finish(r)
  BY <1>0, <1>8 DEF Finish, Goto, TypeOK, Pcs, Answers, dbVars
<1>9. CASE SaveFails(r) \/ CommitAnswerLost(r)
  <2>1. Reject(r) /\ faults' \in 0..MaxFaults
    BY <1>9, CustodyAssumption DEF SaveFails, CommitAnswerLost, Fault, TypeOK
  <2>2. batch' \in Places \cup {NoOne}
    BY <2>1, PlaceType DEF Reject, AfterFailure, TypeOK
  <2>3. lock' \in Requests \cup {NoOne} /\ row' \in Rows /\ rows' \in Logs
    BY <1>9, SMTT(60) DEF SaveFails, CommitAnswerLost, Store, Upserted, TypeOK, Logs
  <2>4. QED
    BY <1>0, <2>1, <2>2, <2>3 DEF Reject, Goto, TypeOK, Pcs, Answers
<1>10. QED
  BY <1>1, <1>2, <1>3, <1>4, <1>5, <1>6, <1>7, <1>8, <1>9 DEF Step

\* A crash keeps the types.
LEMMA CrashKeepsType ==
    ASSUME TypeOK, Crash PROVE TypeOK'
<1>1. faults' \in 0..MaxFaults
  BY CustodyAssumption DEF Crash, Fault, TypeOK
<1>2. heap' \in [Places -> Objects] /\ batch' \in Places \cup {NoOne}
  BY PlaceType DEF Crash, TypeOK, Objects
<1>3. pc' \in [Requests -> Pcs] /\ answer' \in [Requests -> Answers]
  BY DEF Crash, TypeOK, Pcs, Answers
<1>4. QED
  BY <1>1, <1>2, <1>3 DEF Crash, TypeOK

\* Every variable keeps its type in every reachable state.
THEOREM CustodyTypeCorrect == Spec => []TypeOK
<1>1. Init => TypeOK
  <2> SUFFICES ASSUME Init PROVE TypeOK
    OBVIOUS
  <2>1. faults \in 0..MaxFaults
    BY CustodyAssumption DEF Init
  <2>2. heap \in [Places -> Objects] /\ held \in [Requests -> Places]
    BY PlaceType DEF Init
  <2>3. sent \in [Requests -> Rows] /\ written \in [Requests -> Logs] /\ row \in Rows /\ rows \in Logs
    BY PlaceType DEF Init
  <2>4. pc \in [Requests -> Pcs] /\ answer \in [Requests -> Answers]
    BY DEF Init, Pcs, Answers
  <2>5. QED
    BY <2>1, <2>2, <2>3, <2>4 DEF Init, TypeOK
<1>2. TypeOK /\ [Next]_vars => TypeOK'
  <2> SUFFICES ASSUME TypeOK, [Next]_vars PROVE TypeOK'
    OBVIOUS
  <2>1. CASE UNCHANGED vars
    BY <2>1 DEF vars, handlerVars, dbVars, marks, TypeOK
  <2>2. QED
    BY <2>1, StepKeepsType, CrashKeepsType DEF Next
<1>3. QED
  BY <1>1, <1>2, PTL DEF Spec

(***************************************************************************)
(* Chains of stages.                                                       *)
(***************************************************************************)

\* The batch of a harvest is sound.
LEMMA OriginIsSound ==
    ASSUME NEW r \in Requests
    PROVE  /\ Sound(Origin(r).head, Origin(r).log)
           /\ Origin(r).head.stage = 1
           /\ 1 \in Recorded(Origin(r).log)
BY PlaceType DEF Origin, Sound, Unbroken, Recorded, NoEvents, Stages

\* A sound batch that takes its next stage is sound, and loses no event.
LEMMA AdvancedIsSound ==
    ASSUME NEW r \in Requests, NEW object \in Objects,
           Sound(object.head, object.log), object.head.stage # 0,
           Stage[r] = object.head.stage + 1
    PROVE  /\ Sound(Advanced(object, r).head, Advanced(object, r).log)
           /\ Advanced(object, r).head.stage = Stage[r]
           /\ Recorded(Advanced(object, r).log) = Recorded(object.log) \cup {Stage[r]}
<1> DEFINE next == Advanced(object, r)
<1>1. Stage[r] \in Stages /\ object.head \in Rows /\ object.log \in Logs
  BY CustodyAssumption DEF Objects
<1>2. next.head.stage = Stage[r]
  BY <1>1 DEF Advanced, Rows
<1>3. Recorded(next.log) = Recorded(object.log) \cup {Stage[r]}
  BY <1>1, PlaceType DEF Advanced, Recorded, Logs
<1>4. Unbroken(next.log)
  BY <1>1, <1>3 DEF Unbroken, Sound, Stages, Rows, Recorded
<1>5. QED
  BY <1>2, <1>3, <1>4 DEF Sound

\* Writing a log adds its stages to the table.
LEMMA UpsertAddsStages ==
    ASSUME NEW log, Unbroken(log), Unbroken(rows)
    PROVE  /\ Recorded(Upserted(log)) = Recorded(rows) \cup Recorded(log)
           /\ Unbroken(Upserted(log))
<1>1. Recorded(Upserted(log)) = Recorded(rows) \cup Recorded(log)
  BY DEF Recorded, Upserted
<1>2. QED
  BY <1>1 DEF Unbroken

(***************************************************************************)
(* The invariant.                                                          *)
(***************************************************************************)

\* What the steps of handlers never take back: a made object loses no event
\* and stays a batch, the table loses no stage, a handler stays started.
Grows ==
    /\ \A o \in Places : Made(o) =>
          /\ Made(o)'
          /\ Recorded(heap[o].log) \subseteq Recorded(heap'[o].log)
          /\ heap[o].head.stage # 0 => heap'[o].head.stage # 0
    /\ Recorded(rows) \subseteq Recorded(rows')

\* A handler that starts moves from new to begin, with its object.
LEMMA BeginMoves ==
    ASSUME TypeOK, NEW r \in Requests, NEW o \in Places, Begin(r, o)
    PROVE  /\ pc[r] = "new" /\ pc'[r] = "begin" /\ held'[r] = o
           /\ \A s \in Requests \ {r} : pc'[s] = pc[s] /\ held'[s] = held[s]
           /\ ~Made(r)
           /\ UNCHANGED <<sent, written, answer, row, rows>>
BY PlaceType DEF Begin, Goto, TypeOK, Made, dbVars

\* A transfer changes the batch and its own snapshot, two objects.
LEMMA TransferChanges ==
    ASSUME TypeOK, CustodyInv, NEW r \in Requests, Transfer(r)
    PROVE  /\ batch \in Places /\ r # batch /\ Made(batch)
           /\ heap[batch].head.stage # 0
           /\ Sound(heap[batch].head, heap[batch].log)
           /\ Stage[r] = heap[batch].head.stage + 1
           /\ heap[batch] \in Objects
           /\ heap'[r] = heap[batch]
           /\ heap'[batch] = Advanced(heap[batch], r)
           /\ \A o \in Places \ {r, batch} : heap'[o] = heap[o]
           /\ batch' = batch
           /\ Begin(r, batch)
<1>1. batch \in Places /\ batch # NoOne
  BY DEF Transfer, TypeOK
<1>2. Made(batch) /\ heap[batch].head.stage # 0
      /\ Sound(heap[batch].head, heap[batch].log)
  BY <1>1 DEF CustodyInv
<1>3. Begin(r, batch) /\ r # batch
  BY <1>1, <1>2, BeginMoves DEF Transfer
<1>4. QED
  BY <1>1, <1>2, <1>3, PlaceType DEF Transfer, TypeOK

\* The batch it changes stays sound, keeps its events and has one more.
LEMMA TransferAddsEvent ==
    ASSUME TypeOK, CustodyInv, NEW r \in Requests, Transfer(r)
    PROVE  /\ heap'[batch].head.stage # 0
           /\ Sound(heap'[batch].head, heap'[batch].log)
           /\ Stage[r] \in Recorded(heap'[batch].log)
           /\ Recorded(heap[batch].log) \subseteq Recorded(heap'[batch].log)
<1> DEFINE before == heap[batch]
<1>1. /\ before \in Objects /\ before.head.stage # 0
      /\ Sound(before.head, before.log)
      /\ Stage[r] = before.head.stage + 1
      /\ heap'[batch] = Advanced(before, r)
  BY TransferChanges
<1> HIDE DEF before
<1>2. /\ Sound(Advanced(before, r).head, Advanced(before, r).log)
      /\ Advanced(before, r).head.stage = Stage[r]
      /\ Recorded(Advanced(before, r).log) = Recorded(before.log) \cup {Stage[r]}
  BY <1>1, AdvancedIsSound
<1>3. Stage[r] # 0
  BY CustodyAssumption DEF Stages
<1>4. QED
  BY <1>1, <1>2, <1>3 DEF before

\* The start of a harvest or of a lookup makes one object.
LEMMA OriginChanges ==
    ASSUME TypeOK, NEW r \in Requests, Harvest(r) \/ Lookup(r)
    PROVE  /\ Stage[r] = 1
           /\ heap'[r] = Origin(r)
           /\ \A o \in Places \ {r} : heap'[o] = heap[o]
           /\ batch' \in {batch, r}
           /\ Begin(r, r)
BY PlaceType, CustodyAssumption DEF Harvest, Lookup, TypeOK

\* A later step of a handler leaves the objects alone.
LEMMA LaterSteps ==
    ASSUME TypeOK, NEW r \in Requests,
           \/ Refuse(r) \/ CaptureRow(r) \/ LockRow(r) \/ WriteEvents(r)
           \/ Commit(r) \/ Finish(r) \/ SaveFails(r) \/ CommitAnswerLost(r)
    PROVE  /\ UNCHANGED <<heap, held>>
           /\ pc'[r] # "new"
           /\ \A s \in Requests \ {r} :
                 pc'[s] = pc[s] /\ sent'[s] = sent[s] /\ written'[s] = written[s]
                 /\ answer'[s] = answer[s]
BY DEF Refuse, CaptureRow, LockRow, WriteEvents, Commit, Finish, SaveFails,
       CommitAnswerLost, Store, Reject, Goto, TypeOK

\* The steps of handlers only add.
LEMMA StepGrows ==
    ASSUME TypeOK, CustodyInv, NEW r \in Requests, Step(r) PROVE Grows
<1>1. ASSUME Harvest(r) \/ Lookup(r) PROVE Grows
  BY <1>1, OriginChanges, BeginMoves, PlaceType DEF Grows, Made, Places
<1>2. CASE Transfer(r)
  <2>1. /\ Recorded(heap[batch].log) \subseteq Recorded(heap'[batch].log)
        /\ heap'[batch].head.stage # 0
    BY <1>2, TransferAddsEvent
  <2>2. QED
    BY <1>2, <2>1, TransferChanges, BeginMoves, PlaceType DEF Grows, Made, Places
<1>3. ASSUME \/ Refuse(r) \/ CaptureRow(r) \/ LockRow(r) \/ WriteEvents(r)
             \/ Commit(r) \/ Finish(r) \/ SaveFails(r) \/ CommitAnswerLost(r)
      PROVE  Grows
  <2>1. Recorded(rows) \subseteq Recorded(rows')
    <3>1. CASE Store(r)
      BY <3>1 DEF Store, Upserted, Recorded
    <3>2. CASE UNCHANGED rows
      BY <3>2
    <3>3. QED
      BY <1>3, <3>1, <3>2
         DEF Refuse, CaptureRow, LockRow, WriteEvents, Commit, Finish, SaveFails,
             CommitAnswerLost, dbVars
  <2>2. QED
    BY <1>3, <2>1, LaterSteps DEF Grows, Made, Places
<1>4. QED
  BY <1>1, <1>2, <1>3 DEF Step

\* Every object stays sound.
LEMMA ObjectsStaySound ==
    ASSUME TypeOK, CustodyInv, NEW r \in Requests, Step(r), NEW o \in Places
    PROVE  Sound(heap'[o].head, heap'[o].log)
<1>1. Sound(heap[o].head, heap[o].log)
  BY DEF CustodyInv
<1>2. ASSUME Harvest(r) \/ Lookup(r) PROVE Sound(heap'[o].head, heap'[o].log)
  BY <1>1, <1>2, OriginChanges, OriginIsSound
<1>3. CASE Transfer(r)
  BY <1>1, <1>3, TransferChanges, TransferAddsEvent
<1>4. CASE UNCHANGED heap
  BY <1>1, <1>4
<1>5. QED
  BY <1>2, <1>3, <1>4, LaterSteps DEF Step

\* The object in store.batches stays a made batch.
LEMMA BatchStaysMade ==
    ASSUME TypeOK, CustodyInv, NEW r \in Requests, Step(r), batch' # NoOne
    PROVE  Made(batch)' /\ heap'[batch'].head.stage # 0
<1>1. Grows
  BY StepGrows
<1>2. batch # NoOne => batch \in Places /\ Made(batch) /\ heap[batch].head.stage # 0
  BY DEF CustodyInv, TypeOK
<1>3. CASE batch' = batch
  BY <1>1, <1>2, <1>3 DEF Grows, Made
<1>4. CASE Lookup(r) /\ batch' = r
  BY <1>4, OriginChanges, OriginIsSound, BeginMoves, PlaceType DEF Made
<1>5. CASE Finish(r)
  <2>1. r \in InFlight /\ held[r] \in Places
    BY <1>5 DEF Finish, InFlight, TypeOK
  <2>2. Made(held[r]) /\ heap[held[r]].head.stage # 0
    BY <2>1 DEF CustodyInv, HandlerInv
  <2>3. QED
    BY <1>1, <1>5, <2>1, <2>2 DEF Grows, Finish, Made
<1>6. CASE Reject(r) /\ Stage[r] # 1 /\ r \in InFlight
  <2>1. r \in InFlight
    BY <1>6
  <2>2. heap[r].head.stage # 0
    BY <1>6, <2>1 DEF CustodyInv, HandlerInv
  <2>3. batch' = r /\ pc'[r] = "done"
    BY <1>6 DEF Reject, AfterFailure, Goto, TypeOK
  <2>4. QED
    BY <1>6, <2>2, <2>3 DEF Reject, Made
<1>7. batch' = batch \/ (Lookup(r) /\ batch' = r) \/ Finish(r)
      \/ (Reject(r) /\ Stage[r] # 1 /\ r \in InFlight)
  BY DEF Step, Harvest, Lookup, Transfer, Refuse, CaptureRow, LockRow, WriteEvents,
         Commit, SaveFails, CommitAnswerLost, Store, Reject, AfterFailure, InFlight
<1>8. QED
  BY <1>3, <1>4, <1>5, <1>6, <1>7

\* A handler that does not move keeps its part of the invariant.
LEMMA OthersStay ==
    ASSUME TypeOK, CustodyInv, NEW r \in Requests, Step(r),
           NEW s \in Requests, s # r
    PROVE  HandlerInv(s)'
<1>1. HandlerInv(s) /\ Grows
  BY StepGrows DEF CustodyInv
<1>2. /\ pc'[s] = pc[s] /\ held'[s] = held[s]
      /\ sent'[s] = sent[s] /\ written'[s] = written[s]
  <2>1. ASSUME NEW o \in Places, Begin(r, o) PROVE <1>2!1 /\ <1>2!2
    BY <2>1, BeginMoves
  <2>2. QED
    BY <2>1, OriginChanges, TransferChanges, LaterSteps, PlaceType DEF Step
<1>3. held[s] \in Places /\ s \in Places
  BY PlaceType DEF TypeOK
<1>4. s \in InFlight' <=> s \in InFlight
  BY <1>2 DEF InFlight
<1>5. s \in InFlight => Made(s)
  BY DEF InFlight, Made
<1>6. pc[s] \in {"locking", "writing", "committing"} => s \in InFlight
  BY DEF InFlight
<1>7. QED
  BY <1>1, <1>2, <1>3, <1>4, <1>5, <1>6 DEF HandlerInv, Grows

(***************************************************************************)
(* The handler that moves.                                                 *)
(***************************************************************************)

\* A handler that starts a harvest or a lookup.
LEMMA OriginMoves ==
    ASSUME TypeOK, CustodyInv, NEW r \in Requests, Harvest(r) \/ Lookup(r)
    PROVE  HandlerInv(r)'
<1>1. Begin(r, r) /\ Stage[r] = 1 /\ heap'[r] = Origin(r)
  BY OriginChanges
<1>2. pc'[r] = "begin" /\ held'[r] = r
  BY <1>1, BeginMoves, PlaceType
<1>3. heap'[r].head.stage # 0 /\ 1 \in Recorded(heap'[r].log)
  BY <1>1, OriginIsSound
<1>4. QED
  BY <1>1, <1>2, <1>3 DEF HandlerInv, Made

\* A handler that starts a transfer.
LEMMA TransferMoves ==
    ASSUME TypeOK, CustodyInv, NEW r \in Requests, Transfer(r)
    PROVE  HandlerInv(r)'
<1>1. /\ batch \in Places /\ Made(batch)
      /\ heap'[r] = heap[batch] /\ heap[batch].head.stage # 0
      /\ Begin(r, batch)
  BY TransferChanges
<1>2. /\ pc'[r] = "begin" /\ held'[r] = batch
      /\ \A s \in Requests \ {r} : pc'[s] = pc[s]
  BY <1>1, BeginMoves
<1>3. /\ heap'[batch].head.stage # 0
      /\ Stage[r] \in Recorded(heap'[batch].log)
  BY TransferAddsEvent
<1>4. batch = Boot \/ pc'[batch] # "new"
  BY <1>1, <1>2 DEF Made, Places
<1>5. QED
  BY <1>1, <1>2, <1>3, <1>4 DEF HandlerInv, Made

\* A handler that goes on.
LEMMA LaterMoves ==
    ASSUME TypeOK, CustodyInv, NEW r \in Requests,
           \/ Refuse(r) \/ CaptureRow(r) \/ LockRow(r) \/ WriteEvents(r)
           \/ Commit(r) \/ Finish(r) \/ SaveFails(r) \/ CommitAnswerLost(r)
    PROVE  HandlerInv(r)'
<1> DEFINE object == heap[held[r]]
<1>1. HandlerInv(r) /\ held[r] \in Places
  BY DEF CustodyInv, TypeOK
<1>2. Sound(object.head, object.log)
  BY <1>1 DEF CustodyInv
<1>3. UNCHANGED <<heap, held>> /\ (Made(held[r]) => Made(held[r])')
  BY LaterSteps, <1>1 DEF Made, Places
<1>4. CASE Refuse(r) \/ Finish(r) \/ Reject(r)
  <2>1. pc'[r] = "done"
    BY <1>4 DEF Refuse, Finish, Reject, Goto, TypeOK
  <2>2. QED
    BY <2>1 DEF HandlerInv, InFlight
<1>5. ASSUME r \in InFlight, pc'[r] \in {"locking", "writing", "committing", "committed"},
             pc'[r] \in {"locking", "writing", "committing"} =>
                sent'[r].stage # 0 /\ sent'[r].stage \in Recorded(object.log),
             pc'[r] = "committing" =>
                /\ Unbroken(written'[r]) /\ Stage[r] \in Recorded(written'[r])
                /\ sent'[r].stage \in Recorded(written'[r]),
             pc'[r] = "committed" => Stage[r] \in Recorded(rows')
      PROVE  HandlerInv(r)'
  BY <1>1, <1>3, <1>5 DEF HandlerInv, Recorded, Made
<1>6. CASE CaptureRow(r)
  <2>1. pc[r] = "begin" /\ pc'[r] = "locking" /\ sent'[r] = object.head
    BY <1>6 DEF CaptureRow, Goto, TypeOK
  <2>2. r \in InFlight
    BY <2>1 DEF InFlight
  <2>3. object.head.stage # 0 /\ object.head.stage \in Recorded(object.log)
    BY <1>1, <1>2, <2>2 DEF HandlerInv, Sound
  <2>4. QED
    BY <1>5, <2>1, <2>2, <2>3
<1>7. CASE LockRow(r)
  <2>1. pc[r] = "locking" /\ pc'[r] = "writing" /\ UNCHANGED sent
    BY <1>7 DEF LockRow, Goto, TypeOK
  <2>2. r \in InFlight
    BY <2>1 DEF InFlight
  <2>3. sent[r].stage # 0 /\ sent[r].stage \in Recorded(object.log)
    BY <1>1, <2>1 DEF HandlerInv
  <2>4. QED
    BY <1>5, <2>1, <2>2, <2>3
<1>8. CASE WriteEvents(r)
  <2>1. /\ pc[r] = "writing" /\ pc'[r] = "committing" /\ UNCHANGED sent
        /\ written'[r] = object.log
    BY <1>8 DEF WriteEvents, Goto, TypeOK
  <2>2. r \in InFlight
    BY <2>1 DEF InFlight
  <2>3. /\ sent[r].stage # 0 /\ sent[r].stage \in Recorded(object.log)
        /\ Stage[r] \in Recorded(object.log) /\ Unbroken(object.log)
    BY <1>1, <1>2, <2>1, <2>2 DEF HandlerInv, Sound
  <2>4. QED
    BY <1>5, <2>1, <2>2, <2>3
<1>9. CASE Commit(r)
  <2>1. /\ pc[r] = "committing" /\ pc'[r] = "committed"
        /\ rows' = Upserted(written[r])
    BY <1>9 DEF Commit, Store, Goto, TypeOK
  <2>2. r \in InFlight
    BY <2>1 DEF InFlight
  <2>3. Stage[r] \in Recorded(rows')
    <3>1. Unbroken(written[r]) /\ Stage[r] \in Recorded(written[r])
      BY <1>1, <2>1 DEF HandlerInv
    <3>2. Unbroken(rows)
      BY DEF CustodyInv, Sound
    <3>3. QED
      BY <2>1, <3>1, <3>2, UpsertAddsStages
  <2>4. QED
    BY <1>5, <2>1, <2>2, <2>3
<1>10. QED
  BY <1>4, <1>6, <1>7, <1>8, <1>9 DEF SaveFails, CommitAnswerLost

(***************************************************************************)
(* The database, the answers and the crash.                                *)
(***************************************************************************)

\* The row and the rows stay sound: a commit adds an unbroken chain to one,
\* and its row stands at a stage of it.
LEMMA RowsStaySound ==
    ASSUME TypeOK, CustodyInv, NEW r \in Requests, Step(r)
    PROVE  Sound(row', rows')
<1>1. Sound(row, rows)
  BY DEF CustodyInv
<1>2. CASE Store(r)
  <2>1. row' = sent[r] /\ rows' = Upserted(written[r]) /\ pc[r] = "committing"
    BY <1>2 DEF Store
  <2>2. Unbroken(written[r]) /\ sent[r].stage \in Recorded(written[r])
    BY <2>1 DEF CustodyInv, HandlerInv
  <2>3. QED
    BY <1>1, <2>1, <2>2, UpsertAddsStages DEF Sound
<1>3. CASE UNCHANGED <<row, rows>>
  BY <1>1, <1>3
<1>4. QED
  BY <1>2, <1>3
     DEF Step, Harvest, Lookup, Transfer, Begin, Refuse, CaptureRow, LockRow,
         WriteEvents, Commit, Finish, SaveFails, CommitAnswerLost, dbVars

\* An answer comes after the commit, and what is committed stays.
LEMMA AnsweredStays ==
    ASSUME TypeOK, CustodyInv, NEW r \in Requests, Step(r)
    PROVE  AnsweredIsStored'
<1>1. AnsweredIsStored /\ Recorded(rows) \subseteq Recorded(rows')
  BY StepGrows DEF CustodyInv, Grows
<1>2. CASE Finish(r)
  <2>1. Stage[r] \in Recorded(rows)
    BY <1>2 DEF Finish, CustodyInv, HandlerInv
  <2>2. \A s \in Requests \ {r} : answer'[s] = answer[s]
    BY <1>2, LaterSteps
  <2>3. QED
    BY <1>1, <2>1, <2>2 DEF AnsweredIsStored, Recorded
<1>3. ASSUME \A s \in Requests : answer'[s] = "ok" => answer[s] = "ok"
      PROVE  AnsweredIsStored'
  BY <1>1, <1>3 DEF AnsweredIsStored, Recorded
<1>4. Finish(r) \/ \A s \in Requests : answer'[s] = "ok" => answer[s] = "ok"
  BY DEF Step, Harvest, Lookup, Transfer, Begin, Refuse, CaptureRow, LockRow,
         WriteEvents, Commit, SaveFails, CommitAnswerLost, Reject, TypeOK
<1>5. QED
  BY <1>2, <1>3, <1>4

\* A step of a handler keeps the invariant.
LEMMA StepKeepsInv ==
    ASSUME TypeOK, CustodyInv, NEW r \in Requests, Step(r)
    PROVE  CustodyInv'
<1>1. \A o \in Places : Sound(heap'[o].head, heap'[o].log)
  BY ObjectsStaySound
<1>2. batch' # NoOne => Made(batch)' /\ heap'[batch'].head.stage # 0
  BY BatchStaysMade
<1>3. HandlerInv(r)'
  BY OriginMoves, TransferMoves, LaterMoves DEF Step
<1>4. \A s \in Requests : HandlerInv(s)'
  BY <1>3, OthersStay
<1>5. Sound(row', rows') /\ AnsweredIsStored'
  BY RowsStaySound, AnsweredStays
<1>6. QED
  BY <1>1, <1>2, <1>4, <1>5 DEF CustodyInv, Sound, Unbroken, Recorded

\* A crash leaves what the database holds, as a sound object.
LEMMA CrashKeepsInv ==
    ASSUME TypeOK, CustodyInv, Crash PROVE CustodyInv'
<1>1. /\ heap'[Boot] = [head |-> row, log |-> rows]
      /\ \A o \in Places \ {Boot} : heap'[o] = heap[o]
      /\ batch' = IF row.stage = 0 THEN NoOne ELSE Boot
      /\ UNCHANGED <<held, sent, written, row, rows>>
  BY PlaceType DEF Crash, TypeOK
<1>2. /\ \A r \in Requests : pc'[r] \in {"new", "done"}
      /\ \A r \in Requests : answer'[r] = "ok" => answer[r] = "ok"
  BY DEF Crash, InFlight, TypeOK
<1>3. Sound(row, rows)
  BY DEF CustodyInv
<1>4. \A o \in Places : Sound(heap'[o].head, heap'[o].log)
  BY <1>1, <1>3 DEF CustodyInv
<1>5. batch' # NoOne => Made(batch)' /\ heap'[batch'].head.stage # 0
  BY <1>1 DEF Made
<1>6. \A r \in Requests : HandlerInv(r)'
  BY <1>2 DEF HandlerInv, InFlight
<1>7. AnsweredIsStored'
  BY <1>1, <1>2 DEF CustodyInv, AnsweredIsStored, Recorded
<1>8. QED
  BY <1>1, <1>3, <1>4, <1>5, <1>6, <1>7 DEF CustodyInv, Sound, Unbroken, Recorded

(***************************************************************************)
(* The theorems.                                                           *)
(***************************************************************************)

\* The inductive invariant holds in every reachable state: objects, saves in
\* flight and the database hold sound chains only.
THEOREM CustodyInvariant == Spec => []CustodyInv
<1>1. Init => CustodyInv
  <2> SUFFICES ASSUME Init PROVE CustodyInv
    OBVIOUS
  <2>1. Recorded(NoEvents) = {} /\ NoRow.stage = 0
    BY DEF Recorded, NoEvents, NoRow
  <2>2. Sound(NoRow, NoEvents)
    BY <2>1 DEF Sound, Unbroken
  <2>3. \A o \in Places : heap[o].head = NoRow /\ heap[o].log = NoEvents
    BY DEF Init, NoObject
  <2>4. \A r \in Requests : HandlerInv(r)
    BY DEF Init, HandlerInv, InFlight
  <2>5. QED
    BY <2>2, <2>3, <2>4 DEF Init, CustodyInv, AnsweredIsStored
<1>2. TypeOK /\ CustodyInv /\ [Next]_vars => CustodyInv'
  <2> SUFFICES ASSUME TypeOK, CustodyInv, [Next]_vars PROVE CustodyInv'
    OBVIOUS
  <2>1. CASE UNCHANGED vars
    BY <2>1
       DEF vars, handlerVars, dbVars, CustodyInv, HandlerInv, InFlight, Made,
           AnsweredIsStored, Sound, Unbroken, Recorded
  <2>2. QED
    BY <2>1, StepKeepsInv, CrashKeepsInv DEF Next
<1>3. QED
  BY <1>1, <1>2, CustodyTypeCorrect, PTL DEF Spec

\* saveBatch: however many saves of a lot overlap, the rows of the lot stay
\* in their ranges, and the events table never holds a stage without the
\* stages before it.
THEOREM ChainIsUnbroken == Spec => []LotInv
<1>1. TypeOK /\ CustodyInv => LotInv
  BY DEF CustodyInv, Sound, CustodyUnbroken, LotInv
<1>2. QED
  BY <1>1, CustodyTypeCorrect, CustodyInvariant, PTL

\* createHarvest and transfer: a POST that was answered keeps its stage in the
\* events table, whatever later saves, rollbacks and restarts do.
THEOREM AnswersAreStored == Spec => []AnsweredIsStored
<1>1. CustodyInv => AnsweredIsStored
  BY DEF CustodyInv
<1>2. QED
  BY <1>1, CustodyInvariant, PTL

(***************************************************************************)
(* The chain of CustodyChain.                                              *)
(***************************************************************************)

\* Every event is at the stage its request is for.
Placed(log) == \A s \in Recorded(log) : Stage[log[s]] = s

\* What the refinement needs besides: events are in their places in objects,
\* saves and the table, and only a handler that is done has been answered.
ChainInv ==
    /\ \A o \in Places : Placed(heap[o].log)
    /\ \A r \in Requests : Placed(written[r])
    /\ Placed(rows)
    /\ \A r \in Requests : answer[r] # "none" => pc[r] = "done"

\* A harvest and a transfer put their event in its place.
LEMMA EventsArePlaced ==
    ASSUME NEW r \in Requests
    PROVE  /\ Placed(Origin(r).log) \/ Stage[r] # 1
           /\ \A object \in Objects :
                 Placed(object.log) => Placed(Advanced(object, r).log)
<1>1. Stage[r] \in Stages
  BY CustodyAssumption
<1>2. Stage[r] = 1 => Placed(Origin(r).log)
  BY DEF Origin, Placed, Recorded, NoEvents, Stages
<1>3. ASSUME NEW object \in Objects, Placed(object.log)
      PROVE  Placed(Advanced(object, r).log)
  <2>1. Advanced(object, r).log = [object.log EXCEPT ![Stage[r]] = r]
    BY DEF Advanced
  <2>2. object.log \in Logs
    BY DEF Objects
  <2>3. QED
    BY <1>1, <1>3, <2>1, <2>2 DEF Placed, Recorded, Logs
<1>4. QED
  BY <1>2, <1>3

\* An upsert leaves every event in its place.
LEMMA UpsertIsPlaced ==
    ASSUME NEW log, Placed(log), Placed(rows) PROVE Placed(Upserted(log))
BY DEF Placed, Recorded, Upserted

\* A step of a handler keeps the events in their places.
LEMMA StepKeepsChain ==
    ASSUME TypeOK, CustodyInv, ChainInv, NEW r \in Requests, Step(r)
    PROVE  ChainInv'
<1>1. ASSUME Harvest(r) \/ Lookup(r) PROVE ChainInv'
  <2>1. /\ \A o \in Places : Placed(heap'[o].log)
        /\ UNCHANGED <<written, rows, answer>>
    BY <1>1, OriginChanges, EventsArePlaced, BeginMoves, PlaceType DEF ChainInv
  <2>2. \A s \in Requests : answer'[s] # "none" => pc'[s] = "done"
    BY <1>1, <2>1, OriginChanges, BeginMoves, PlaceType DEF ChainInv
  <2>3. QED
    BY <2>1, <2>2 DEF ChainInv, Placed, Recorded
<1>2. CASE Transfer(r)
  <2>1. /\ batch \in Places /\ heap'[r] = heap[batch]
        /\ heap'[batch] = Advanced(heap[batch], r) /\ heap[batch] \in Objects
        /\ \A o \in Places \ {r, batch} : heap'[o] = heap[o]
        /\ Begin(r, batch)
    BY <1>2, TransferChanges
  <2>2. Placed(heap'[batch].log)
    BY <2>1, EventsArePlaced DEF ChainInv
  <2>3. \A o \in Places : Placed(heap'[o].log)
    BY <2>1, <2>2 DEF ChainInv
  <2>4. /\ UNCHANGED <<written, rows, answer>>
        /\ \A s \in Requests : answer'[s] # "none" => pc'[s] = "done"
    BY <2>1, BeginMoves DEF ChainInv
  <2>5. QED
    BY <2>3, <2>4 DEF ChainInv, Placed, Recorded
<1>3. ASSUME \/ Refuse(r) \/ CaptureRow(r) \/ LockRow(r) \/ WriteEvents(r)
             \/ Commit(r) \/ Finish(r) \/ SaveFails(r) \/ CommitAnswerLost(r)
      PROVE  ChainInv'
  <2>1. /\ UNCHANGED heap
        /\ \A s \in Requests \ {r} :
              pc'[s] = pc[s] /\ written'[s] = written[s] /\ answer'[s] = answer[s]
    BY <1>3, LaterSteps
  <2>2. \A o \in Places : Placed(heap'[o].log)
    BY <2>1 DEF ChainInv
  <2>3. Placed(written'[r])
    <3>1. written'[r] = written[r] \/ written'[r] = heap[held[r]].log
      BY <1>3 DEF Refuse, CaptureRow, LockRow, WriteEvents, Commit, Finish,
                  SaveFails, CommitAnswerLost, Reject, TypeOK
    <3>2. QED
      BY <3>1 DEF ChainInv, TypeOK
  <2>4. Placed(rows')
    <3>1. rows' = rows \/ rows' = Upserted(written[r])
      BY <1>3 DEF Refuse, CaptureRow, LockRow, WriteEvents, Commit, Finish,
                  SaveFails, CommitAnswerLost, Store, dbVars
    <3>2. QED
      BY <3>1, UpsertIsPlaced DEF ChainInv
  <2>5. answer'[r] # "none" => pc'[r] = "done"
    <3>1. CASE Refuse(r) \/ Finish(r) \/ SaveFails(r) \/ CommitAnswerLost(r)
      BY <3>1 DEF Refuse, Finish, SaveFails, CommitAnswerLost, Reject, Goto, TypeOK
    <3>2. CASE CaptureRow(r) \/ LockRow(r) \/ WriteEvents(r)
      BY <3>2 DEF CaptureRow, LockRow, WriteEvents, ChainInv
    <3>3. CASE Commit(r)
      BY <3>3 DEF Commit, Store, ChainInv
    <3>4. QED
      BY <1>3, <3>1, <3>2, <3>3
  <2>6. QED
    BY <2>1, <2>2, <2>3, <2>4, <2>5 DEF ChainInv, Placed, Recorded
<1>4. QED
  BY <1>1, <1>2, <1>3 DEF Step

\* So does a crash.
LEMMA CrashKeepsChain ==
    ASSUME TypeOK, ChainInv, Crash PROVE ChainInv'
<1>1. \A o \in Places : Placed(heap'[o].log)
  BY DEF Crash, ChainInv, TypeOK
<1>2. UNCHANGED <<written, rows>>
  BY DEF Crash
<1>3. \A r \in Requests : answer'[r] # "none" => pc'[r] = "done"
  BY DEF Crash, ChainInv, InFlight
<1>4. QED
  BY <1>1, <1>2, <1>3 DEF ChainInv, Placed, Recorded

\* The table is one of the chains of CustodyChain.
LEMMA RowsAreAChain ==
    ASSUME NEW log \in Logs, Unbroken(log), Placed(log)
    PROVE  log \in Chain!Chains /\ Chain!Extent(log) = Recorded(log)
BY DEF Chain!Chains, Chain!Extent, Logs, Stages, Unbroken, Placed, Recorded

\* Every step records a longer chain, vouches for a request, or does neither.
LEMMA StepIsChainStep ==
    ASSUME TypeOK, CustodyInv, ChainInv, TypeOK', CustodyInv', ChainInv', [Next]_vars
    PROVE  [Chain!ChainNext]_(Chain!chainVars)
<1> DEFINE Vouched == {r \in Requests : answer[r] = "ok"}
<1>1. ASSUME rows' = rows, \A r \in Requests : answer'[r] = "ok" <=> answer[r] = "ok"
      PROVE  UNCHANGED Chain!chainVars
  BY <1>1 DEF Chain!chainVars
<1>2. ASSUME NEW r \in Requests, Store(r), pc[r] = "committing",
             \A s \in Requests : answer'[s] = "ok" <=> answer[s] = "ok"
      PROVE  Chain!ChainNext
  <2>1. Unbroken(rows) /\ Unbroken(written[r])
    BY <1>2 DEF CustodyInv, Sound, HandlerInv
  <2>2. Recorded(rows) \subseteq Recorded(rows')
    BY <1>2, <2>1, UpsertAddsStages DEF Store
  <2>3. rows \in Logs /\ rows' \in Logs /\ Placed(rows) /\ Placed(rows') /\ Unbroken(rows')
    BY DEF TypeOK, ChainInv, CustodyInv, Sound, Placed, Unbroken, Recorded
  <2>4. rows' \in Chain!Chains /\ Chain!Extent(rows) \subseteq Chain!Extent(rows')
    BY <2>1, <2>2, <2>3, RowsAreAChain
  <2>5. Vouched' = Vouched
    BY <1>2
  <2>6. QED
    BY <2>4, <2>5 DEF Chain!ChainNext, Chain!Record, Chain!Extent, Chain!Chains
<1>3. ASSUME NEW r \in Requests, Finish(r)
      PROVE  [Chain!ChainNext]_(Chain!chainVars)
  <2>1. /\ rows' = rows /\ pc[r] = "committed"
        /\ \A s \in Requests \ {r} : answer'[s] = answer[s]
        /\ answer'[r] \in {"ok", "none"}
    BY <1>3 DEF Finish, TypeOK, dbVars
  <2>2. answer[r] = "none" /\ Stage[r] \in Recorded(rows)
    BY <2>1 DEF ChainInv, CustodyInv, HandlerInv
  <2>3. CASE answer'[r] = "none"
    BY <1>1, <2>1, <2>2, <2>3
  <2>4. CASE answer'[r] = "ok"
    <3>1. Vouched' = Vouched \cup {r}
      BY <2>1, <2>4
    <3>2. rows \in Logs /\ Placed(rows) /\ Unbroken(rows)
      BY DEF TypeOK, ChainInv, CustodyInv, Sound
    <3>3. Stage[r] \in Chain!Extent(rows)
      BY <2>2, <3>2, RowsAreAChain
    <3>4. QED
      BY <2>1, <3>1, <3>3 DEF Chain!ChainNext, Chain!Vouch
  <2>5. QED
    BY <2>1, <2>3, <2>4
<1>4. ASSUME NEW r \in Requests, Step(r)
      PROVE  [Chain!ChainNext]_(Chain!chainVars)
  <2>1. ASSUME NEW o \in Places, Begin(r, o)
        PROVE  [Chain!ChainNext]_(Chain!chainVars)
    BY <1>1, <2>1, BeginMoves
  <2>2. ASSUME Harvest(r) \/ Lookup(r) \/ Transfer(r)
        PROVE  [Chain!ChainNext]_(Chain!chainVars)
    BY <2>1, <2>2, OriginChanges, TransferChanges, PlaceType
  <2>3. CASE Refuse(r)
    BY <1>1, <2>3 DEF Refuse, dbVars, ChainInv, TypeOK
  <2>4. CASE CaptureRow(r) \/ LockRow(r) \/ WriteEvents(r)
    BY <1>1, <2>4 DEF CaptureRow, LockRow, WriteEvents, dbVars
  <2>5. CASE Commit(r)
    BY <1>2, <2>5 DEF Commit, Store
  <2>6. ASSUME pc[r] # "done", Reject(r)
        PROVE  \A s \in Requests : answer'[s] = "ok" <=> answer[s] = "ok"
    <3>1. answer[r] = "none"
      BY <2>6 DEF ChainInv
    <3>2. /\ \A s \in Requests \ {r} : answer'[s] = answer[s]
          /\ answer'[r] \in {"none", "error"}
      BY <2>6 DEF Reject, TypeOK
    <3>3. QED
      BY <3>1, <3>2
  <2>7. CASE SaveFails(r)
    BY <1>1, <2>6, <2>7 DEF SaveFails
  <2>8. CASE CommitAnswerLost(r)
    BY <1>2, <2>6, <2>8 DEF CommitAnswerLost, Store
  <2>9. QED
    BY <1>3, <1>4, <2>2, <2>3, <2>4, <2>5, <2>7, <2>8 DEF Step
<1>5. CASE Crash
  <2>1. rows' = rows /\ \A r \in Requests : answer'[r] = "ok" <=> answer[r] = "ok"
    BY <1>5 DEF Crash, ChainInv, InFlight
  <2>2. QED
    BY <1>1, <2>1
<1>6. CASE UNCHANGED vars
  BY <1>1, <1>6 DEF vars, handlerVars, dbVars
<1>7. QED
  BY <1>4, <1>5, <1>6 DEF Next

\* Custody implements CustodyChain: whatever saves overlap, fail or are cut
\* short, the table is a chain of requests in their places that never loses a
\* stage, and a POST is vouched for only when its stage is in it, for good.
THEOREM CustodyImplementsChain == Spec => ChainSpec
<1>1. Init => Chain!ChainInit
  BY DEF Init, Chain!ChainInit, NoEvents, Stages
<1>2. Init => ChainInv
  BY PlaceType DEF Init, ChainInv, Placed, Recorded, NoEvents, NoObject
<1>3. TypeOK /\ CustodyInv /\ ChainInv /\ [Next]_vars => ChainInv'
  <2> SUFFICES ASSUME TypeOK, CustodyInv, ChainInv, [Next]_vars PROVE ChainInv'
    OBVIOUS
  <2>1. CASE UNCHANGED vars
    BY <2>1 DEF vars, handlerVars, dbVars, ChainInv, Placed, Recorded
  <2>2. QED
    BY <2>1, StepKeepsChain, CrashKeepsChain DEF Next
<1>4. /\ TypeOK /\ CustodyInv /\ ChainInv /\ TypeOK' /\ CustodyInv' /\ ChainInv' /\ [Next]_vars
      => [Chain!ChainNext]_(Chain!chainVars)
  BY StepIsChainStep
<1>5. QED
  BY <1>1, <1>2, <1>3, <1>4, CustodyTypeCorrect, CustodyInvariant, PTL
     DEF Spec, ChainSpec, Chain!ChainSpec

(***************************************************************************)
(* One handler at a time.                                                  *)
(***************************************************************************)

\* Handlers do not overlap, no answer to a COMMIT is lost, and the lot is
\* harvested once and never made up by a lookup.
OneAtATime ==
    /\ MaxInFlight <= 1
    /\ "answer" \notin FaultKinds
    /\ Lookups = {}
    /\ \A r, s \in Requests : Stage[r] = 1 /\ Stage[s] = 1 => r = s

\* The lot as the database holds it, and as an object that was just read.
Stored == [head |-> row, log |-> rows]

\* Before the harvest there is nothing.
Unborn == batch = NoOne /\ row = NoRow /\ rows = NoEvents

\* What the handler under way has changed: a harvest made a batch that is not
\* shown yet, a transfer advanced the batch and keeps what is stored.
Changed(r) ==
    IF Stage[r] = 1
    THEN Unborn /\ held[r] = r /\ heap[r] = Origin(r)
    ELSE /\ batch = held[r] /\ held[r] # r
         /\ heap[r] = Stored /\ heap[held[r]] = Advanced(Stored, r)
         /\ Stage[r] = row.stage + 1

\* The handler under way from the first change to the answer.
Serial(r) ==
    /\ answer[r] = "none"
    /\ pc[r] # "committed" => Changed(r) /\ rows[Stage[r]] # r
    /\ pc[r] \in {"locking", "writing", "committing"} => sent[r] = heap[held[r]].head
    /\ pc[r] = "committing" => written[r] = heap[held[r]].log
    /\ pc[r] = "committed" =>
          /\ heap[held[r]] = Stored /\ row.stage # 0
          /\ Stage[r] # 1 => batch = held[r]

\* A request that stored its event was not refused.
TracesAreAnswered ==
    \A r \in Requests : rows[Stage[r]] = r =>
        pc[r] \in {"committed", "done"} /\ answer[r] \notin {"error", "refused"}

\* A request that has not begun has no answer.
FreshAreUnanswered == \A r \in Requests : pc[r] = "new" => answer[r] = "none"

\* The inductive invariant of the serial lot.
SerialInv ==
    /\ \A r, s \in InFlight : r = s
    /\ \A r \in Requests : Stage[r] = 1 /\ pc[r] = "new" => Unborn
    /\ row.stage = 0 => row = NoRow /\ rows = NoEvents
    /\ QuietMemoryMatchesDb
    /\ \A r \in InFlight : Serial(r)
    /\ TracesAreAnswered /\ FreshAreUnanswered

\* The answer to the lock of the process: who begins, begins alone.
LEMMA BeginsAlone ==
    ASSUME OneAtATime, TypeOK, SerialInv, NEW r \in Requests, NEW o \in Places, Begin(r, o)
    PROVE  InFlight = {} /\ InFlight' = {r} /\ pc'[r] = "begin"
<1>1. InFlight = {}
  <2> SUFFICES ASSUME NEW s \in InFlight PROVE FALSE
    OBVIOUS
  <2>1. InFlight = {s}
    BY DEF SerialInv
  <2>2. Cardinality(InFlight) = 1
    BY <2>1, FS_Singleton
  <2> QED
    BY <2>2, CustodyAssumption DEF Begin, OneAtATime
<1>2. pc'[r] = "begin" /\ \A s \in Requests \ {r} : pc'[s] = pc[s]
  BY BeginMoves
<1> QED
  BY <1>1, <1>2 DEF InFlight

\* A handler that goes on is the only one, and stays it or ends.
LEMMA GoesOnAlone ==
    ASSUME TypeOK, SerialInv, NEW r \in InFlight,
           \A s \in Requests \ {r} : pc'[s] = pc[s]
    PROVE  InFlight = {r} /\ InFlight' \subseteq {r}
BY DEF SerialInv, InFlight

\* The harvest begins.
LEMMA HarvestKeepsSerial ==
    ASSUME OneAtATime, TypeOK, CustodyInv, SerialInv, NEW r \in Requests, Harvest(r)
    PROVE  SerialInv'
<1>1. /\ Stage[r] = 1 /\ heap'[r] = Origin(r) /\ batch' = batch /\ Begin(r, r)
      /\ pc[r] = "new" /\ held'[r] = r /\ r \in Places
      /\ UNCHANGED <<sent, written, answer, row, rows>>
      /\ \A s \in Requests \ {r} : pc'[s] = pc[s]
  BY OriginChanges, BeginMoves, PlaceType, ZenonT(60) DEF Harvest
<1>2. InFlight' = {r} /\ pc'[r] = "begin"
  BY <1>1, BeginsAlone
<1>3. Unborn /\ batch' = NoOne
  BY <1>1 DEF SerialInv, Unborn
<1>4. \A s \in Requests : Stage[s] = 1 /\ pc'[s] = "new" => Unborn'
  BY <1>1, <1>2 DEF OneAtATime
<1>5. rows[Stage[r]] # r
  BY <1>1, <1>3, PlaceType DEF Unborn, NoEvents, Stages
<1>6. answer'[r] = "none"
  BY <1>1 DEF SerialInv, FreshAreUnanswered
<1>7. Serial(r)'
  BY <1>1, <1>2, <1>3, <1>5, <1>6 DEF Serial, Changed, Unborn
<1>8. TracesAreAnswered'
  BY <1>1, <1>2, <1>5 DEF SerialInv, TracesAreAnswered
<1>9. FreshAreUnanswered'
  BY <1>1, <1>2 DEF SerialInv, FreshAreUnanswered
<1> QED
  BY <1>1, <1>2, <1>4, <1>7, <1>8, <1>9 DEF SerialInv, QuietMemoryMatchesDb

\* A transfer begins.
LEMMA TransferKeepsSerial ==
    ASSUME OneAtATime, TypeOK, CustodyInv, SerialInv, NEW r \in Requests, Transfer(r)
    PROVE  SerialInv'
<1>1. /\ batch \in Places /\ r # batch /\ Stage[r] = heap[batch].head.stage + 1
      /\ heap'[r] = heap[batch] /\ heap'[batch] = Advanced(heap[batch], r)
      /\ batch' = batch /\ Begin(r, batch) /\ batch # NoOne /\ Stage[r] # 1
  BY TransferChanges DEF Transfer
<1>2. /\ pc[r] = "new" /\ held'[r] = batch
      /\ UNCHANGED <<sent, written, answer, row, rows>>
      /\ \A s \in Requests \ {r} : pc'[s] = pc[s]
  BY <1>1, BeginMoves
<1>3. InFlight = {} /\ InFlight' = {r} /\ pc'[r] = "begin"
  BY <1>1, BeginsAlone
<1>4. heap[batch] = Stored /\ Stored' = Stored
  BY <1>1, <1>2, <1>3 DEF SerialInv, QuietMemoryMatchesDb, Stored
<1>5. \A s \in Requests : Stage[s] = 1 => pc[s] # "new"
  BY <1>1 DEF SerialInv, Unborn
<1>6. rows[Stage[r]] # r
  BY <1>2 DEF SerialInv, TracesAreAnswered
<1>7. Changed(r)'
  <2>1. heap'[r] = Stored' /\ heap'[held'[r]] = Advanced(Stored', r) /\ batch' = held'[r]
    BY <1>1, <1>2, <1>4
  <2>2. Stage[r] = row'.stage + 1 /\ held'[r] # r
    BY <1>1, <1>2, <1>4 DEF Stored
  <2> QED
    BY <1>1, <2>1, <2>2 DEF Changed, Advanced, Stored
<1>8. Serial(r)'
  BY <1>2, <1>3, <1>6, <1>7 DEF SerialInv, FreshAreUnanswered, Serial
<1>9. TracesAreAnswered' /\ FreshAreUnanswered'
  BY <1>2, <1>3, <1>6 DEF SerialInv, TracesAreAnswered, FreshAreUnanswered
<1>10. \A s \in Requests : Stage[s] = 1 => pc'[s] # "new"
  BY <1>2, <1>3, <1>5
<1> QED
  BY <1>2, <1>3, <1>8, <1>9, <1>10 DEF SerialInv, QuietMemoryMatchesDb

\* A request that is refused.
LEMMA RefuseKeepsSerial ==
    ASSUME OneAtATime, TypeOK, SerialInv, NEW r \in Requests, Refuse(r)
    PROVE  SerialInv'
<1>1. /\ Stage[r] # 1 /\ pc[r] = "new" /\ pc'[r] = "done"
      /\ UNCHANGED <<heap, batch, held, sent, written, row, rows>>
      /\ \A s \in Requests \ {r} : pc'[s] = pc[s] /\ answer'[s] = answer[s]
  BY DEF Refuse, Goto, TypeOK, dbVars
<1>2. InFlight' = InFlight /\ r \notin InFlight
  BY <1>1 DEF InFlight
<1>3. rows[Stage[r]] # r
  BY <1>1 DEF SerialInv, TracesAreAnswered
<1>4. \A s \in InFlight : Serial(s) => Serial(s)'
  BY <1>1, <1>2 DEF InFlight, Serial, Changed, Unborn, Stored, Advanced
<1>5. TracesAreAnswered' /\ FreshAreUnanswered'
  BY <1>1, <1>3 DEF SerialInv, TracesAreAnswered, FreshAreUnanswered
<1> QED
  BY <1>1, <1>2, <1>4, <1>5 DEF SerialInv, QuietMemoryMatchesDb, Unborn

\* What the handler under way does before the commit.
LEMMA SaveKeepsSerial ==
    ASSUME TypeOK, SerialInv, NEW r \in Requests, CaptureRow(r) \/ LockRow(r) \/ WriteEvents(r)
    PROVE  SerialInv'
<1>1. /\ pc[r] \in {"begin", "locking", "writing"} /\ r \in InFlight
      /\ pc'[r] \in {"locking", "writing", "committing"}
      /\ UNCHANGED <<heap, batch, held, answer, row, rows>>
      /\ \A s \in Requests \ {r} : pc'[s] = pc[s]
      /\ sent'[r] = heap[held[r]].head \/ (pc[r] # "begin" /\ sent'[r] = sent[r])
      /\ pc'[r] = "committing" => written'[r] = heap[held[r]].log
  <2> USE DEF Goto, TypeOK, dbVars, InFlight
  <2>1. CASE CaptureRow(r)
    BY <2>1 DEF CaptureRow
  <2>2. CASE LockRow(r)
    BY <2>2 DEF LockRow
  <2>3. CASE WriteEvents(r)
    BY <2>3 DEF WriteEvents
  <2> QED
    BY <2>1, <2>2, <2>3
<1>2. InFlight' = {r}
  <2>1. InFlight' \subseteq {r}
    BY <1>1, GoesOnAlone
  <2> QED
    BY <1>1, <2>1 DEF InFlight
<1>3. Serial(r)
  BY <1>1 DEF SerialInv
<1>4. Changed(r) => Changed(r)'
  BY <1>1 DEF Changed, Unborn, Stored, Advanced
<1>5. Serial(r)'
  BY <1>1, <1>3, <1>4 DEF Serial
<1>6. TracesAreAnswered' /\ FreshAreUnanswered'
  BY <1>1, <1>3 DEF SerialInv, TracesAreAnswered, FreshAreUnanswered, Serial
<1>7. \A s \in Requests : Stage[s] = 1 /\ pc'[s] = "new" => Unborn'
  BY <1>1 DEF SerialInv, Unborn
<1> QED
  BY <1>1, <1>2, <1>5, <1>6, <1>7 DEF SerialInv, QuietMemoryMatchesDb

\* What a commit stores is the object: a first batch, or the lot advanced.
LEMMA CommitStoresObject ==
    ASSUME TypeOK, SerialInv, NEW r \in Requests, pc[r] = "committing", Store(r)
    PROVE  /\ heap[held[r]] = [head |-> row', log |-> rows'] /\ row'.stage = Stage[r]
           /\ rows'[Stage[r]] = r /\ \A s \in Stages \ {Stage[r]} : rows'[s] = rows[s]
           /\ row.stage <= Stage[r]
<1> DEFINE object == heap[held[r]]
<1>1. r \in InFlight /\ Serial(r) /\ Stage[r] \in Stages
  BY CustodyAssumption DEF SerialInv, InFlight
<1>2. row' = object.head /\ rows' = Upserted(object.log) /\ Changed(r)
  BY <1>1 DEF Store, Serial
<1>3. object \in Objects /\ row \in Rows /\ rows \in Logs /\ NoOne # r
  BY PlaceType DEF TypeOK
<1>4. CASE Stage[r] = 1
  <2>1. object = Origin(r) /\ rows = NoEvents /\ row = NoRow
    BY <1>2, <1>4 DEF Changed, Unborn
  <2>2. /\ object.head.stage = 1 /\ object.log[1] = r
        /\ \A s \in Stages \ {1} : object.log[s] = NoOne
    BY <2>1 DEF Origin, NoEvents, Stages
  <2>3. rows' = object.log
    BY <1>2, <1>3, <2>1, <2>2 DEF Upserted, Objects, Logs, NoEvents
  <2> QED
    BY <1>2, <1>3, <1>4, <2>1, <2>2, <2>3 DEF Objects, NoEvents, NoRow, Stages
<1>5. CASE Stage[r] # 1
  <2>1. object = Advanced(Stored, r) /\ Stage[r] = row.stage + 1
    BY <1>2, <1>5 DEF Changed
  <2>2. /\ object.head = [row EXCEPT !.stage = Stage[r], !.score = Capped(@ + Score[r])]
        /\ object.log = [rows EXCEPT ![Stage[r]] = r]
    BY <2>1 DEF Advanced, Stored
  <2> HIDE DEF object
  <2>3. object.head.stage = Stage[r]
    BY <1>3, <2>2 DEF Rows
  <2>4. /\ rows' = object.log /\ rows'[Stage[r]] = r
        /\ \A s \in Stages \ {Stage[r]} : rows'[s] = rows[s]
    BY <1>1, <1>2, <1>3, <2>2 DEF Upserted, Objects, Logs
  <2>5. object = [head |-> row', log |-> rows']
    BY <1>2, <1>3, <2>4 DEF Objects
  <2>6. row.stage <= Stage[r]
    BY <1>3, <2>1 DEF Rows
  <2> QED
    BY <1>2, <2>3, <2>4, <2>5, <2>6 DEF object
<1> QED
  BY <1>4, <1>5

\* The transaction commits.
LEMMA CommitKeepsSerial ==
    ASSUME OneAtATime, TypeOK, SerialInv, NEW r \in Requests, Commit(r)
    PROVE  SerialInv'
<1>1. /\ pc[r] = "committing" /\ pc'[r] = "committed" /\ Store(r) /\ r \in InFlight
      /\ UNCHANGED <<heap, batch, held, sent, written, answer>>
      /\ \A s \in Requests \ {r} : pc'[s] = pc[s]
  BY DEF Commit, Store, Goto, TypeOK, InFlight
<1>2. InFlight' = {r}
  <2>1. InFlight' \subseteq {r}
    BY <1>1, GoesOnAlone
  <2> QED
    BY <1>1, <2>1 DEF InFlight
<1>3. /\ heap[held[r]] = Stored' /\ row'.stage = Stage[r]
      /\ rows'[Stage[r]] = r /\ \A s \in Stages \ {Stage[r]} : rows'[s] = rows[s]
  BY <1>1, CommitStoresObject DEF Stored
<1>4. Stage \in [Requests -> Stages] /\ Stage[r] # 0
  BY CustodyAssumption DEF Stages
<1>5. Serial(r) /\ Changed(r)
  BY <1>1 DEF SerialInv, Serial
<1>6. Serial(r)'
  <2>1. heap'[held'[r]] = Stored'
    BY <1>1, <1>3
  <2> QED
    BY <1>1, <1>3, <1>4, <1>5, <2>1 DEF Serial, Changed
<1>7. TracesAreAnswered' /\ FreshAreUnanswered'
  BY <1>1, <1>3, <1>4, <1>5 DEF SerialInv, TracesAreAnswered, FreshAreUnanswered, Serial
<1>8. \A s \in Requests : Stage[s] = 1 => pc'[s] # "new"
  <2>1. CASE Stage[r] = 1
    BY <1>1, <2>1 DEF OneAtATime
  <2>2. CASE Stage[r] # 1
    <3>1. batch # NoOne
      BY <1>5, <2>2, PlaceType DEF Changed, TypeOK, Places
    <3> QED
      BY <1>1, <3>1 DEF SerialInv, Unborn
  <2> QED
    BY <2>1, <2>2
<1> QED
  BY <1>2, <1>3, <1>4, <1>6, <1>7, <1>8 DEF SerialInv, QuietMemoryMatchesDb

\* The handler ends: its batch is shown and the request answered.
LEMMA FinishKeepsSerial ==
    ASSUME TypeOK, SerialInv, NEW r \in Requests, Finish(r)
    PROVE  SerialInv'
<1>1. /\ pc[r] = "committed" /\ pc'[r] = "done" /\ batch' = held[r] /\ r \in InFlight
      /\ UNCHANGED <<heap, held, sent, written, row, rows>>
      /\ answer'[r] \in {"none", "ok"}
      /\ \A s \in Requests \ {r} : pc'[s] = pc[s] /\ answer'[s] = answer[s]
  BY DEF Finish, Goto, TypeOK, dbVars, InFlight
<1>2. InFlight' = {}
  <2>1. InFlight' \subseteq {r}
    BY <1>1, GoesOnAlone
  <2> QED
    BY <1>1, <2>1 DEF InFlight
<1>3. heap[held[r]] = Stored /\ row.stage # 0
  BY <1>1 DEF SerialInv, Serial
<1>4. QuietMemoryMatchesDb'
  <2>1. batch' # NoOne /\ heap'[batch'] = Stored'
    <3>1. held[r] \in Places /\ NoOne \notin Places
      BY CustodyAssumption DEF TypeOK, Places
    <3> QED
      BY <1>1, <1>3, <3>1 DEF Stored
  <2> QED
    BY <2>1 DEF QuietMemoryMatchesDb, Stored
<1>5. TracesAreAnswered' /\ FreshAreUnanswered'
  BY <1>1 DEF SerialInv, TracesAreAnswered, FreshAreUnanswered
<1>6. \A s \in Requests : Stage[s] = 1 => pc'[s] # "new"
  BY <1>1, <1>3 DEF SerialInv, Unborn, NoRow
<1> QED
  BY <1>1, <1>2, <1>4, <1>5, <1>6 DEF SerialInv

\* The save is rolled back: what it changed is taken back.
LEMMA SaveFailsKeepsSerial ==
    ASSUME OneAtATime, TypeOK, SerialInv, NEW r \in Requests, SaveFails(r)
    PROVE  SerialInv'
<1>1. /\ pc[r] \in {"begin", "locking", "writing", "committing"} /\ pc'[r] = "done"
      /\ batch' = AfterFailure(r) /\ r \in InFlight
      /\ UNCHANGED <<heap, held, sent, written, row, rows>>
      /\ \A s \in Requests \ {r} : pc'[s] = pc[s] /\ answer'[s] = answer[s]
  BY DEF SaveFails, Reject, Goto, TypeOK, InFlight
<1>2. InFlight' = {}
  <2>1. InFlight' \subseteq {r}
    BY <1>1, GoesOnAlone
  <2> QED
    BY <1>1, <2>1 DEF InFlight
<1>3. Changed(r) /\ rows[Stage[r]] # r
  BY <1>1 DEF SerialInv, Serial
<1>4. QuietMemoryMatchesDb'
  <2>1. CASE Stage[r] = 1
    BY <1>1, <1>3, <2>1 DEF AfterFailure, Changed, Unborn, QuietMemoryMatchesDb
  <2>2. CASE Stage[r] # 1
    BY <1>1, <1>3, <2>2, PlaceType DEF AfterFailure, Changed, QuietMemoryMatchesDb, Stored
  <2> QED
    BY <2>1, <2>2
<1>5. TracesAreAnswered' /\ FreshAreUnanswered'
  BY <1>1, <1>3 DEF SerialInv, TracesAreAnswered, FreshAreUnanswered
<1>6. \A s \in Requests : Stage[s] = 1 => pc'[s] # "new"
  <2>1. CASE Stage[r] = 1
    BY <1>1, <2>1 DEF OneAtATime
  <2>2. CASE Stage[r] # 1
    <3>1. batch # NoOne
      BY <1>3, <2>2, PlaceType DEF Changed, TypeOK, Places
    <3> QED
      BY <1>1, <3>1 DEF SerialInv, Unborn
  <2> QED
    BY <2>1, <2>2
<1> QED
  BY <1>1, <1>2, <1>4, <1>5, <1>6 DEF SerialInv

\* The process dies and reads the lot again.
LEMMA CrashKeepsSerial ==
    ASSUME TypeOK, SerialInv, Crash
    PROVE  SerialInv'
<1>1. /\ heap'[Boot] = Stored /\ batch' = (IF row.stage = 0 THEN NoOne ELSE Boot)
      /\ UNCHANGED <<row, rows>>
  BY PlaceType DEF Crash, TypeOK, Stored
<1>2. \A s \in Requests :
          /\ pc'[s] = IF s \in InFlight THEN "done" ELSE pc[s]
          /\ answer'[s] = IF s \in InFlight \ Lookups THEN "lost" ELSE answer[s]
  BY DEF Crash
<1>3. InFlight' = {}
  BY <1>2 DEF InFlight
<1>4. QuietMemoryMatchesDb'
  BY <1>1, PlaceType DEF SerialInv, QuietMemoryMatchesDb, Stored
<1>5. TracesAreAnswered' /\ FreshAreUnanswered'
  BY <1>1, <1>2 DEF SerialInv, TracesAreAnswered, FreshAreUnanswered, InFlight, Serial
<1>6. \A s \in Requests : Stage[s] = 1 /\ pc'[s] = "new" => Unborn'
  BY <1>1, <1>2 DEF SerialInv, Unborn, NoRow
<1> QED
  BY <1>1, <1>3, <1>4, <1>5, <1>6 DEF SerialInv

\* A step of a lot that is served by one handler at a time.
LEMMA NextKeepsSerial ==
    ASSUME OneAtATime, TypeOK, CustodyInv, SerialInv, [Next]_vars
    PROVE  SerialInv'
<1>1. ASSUME NEW r \in Requests, Step(r) PROVE SerialInv'
  <2>1. ~Lookup(r) /\ ~CommitAnswerLost(r)
    BY DEF OneAtATime, Lookup, CommitAnswerLost, Fault
  <2> QED
    BY <1>1, <2>1, HarvestKeepsSerial, TransferKeepsSerial, RefuseKeepsSerial, SaveKeepsSerial,
       CommitKeepsSerial, FinishKeepsSerial, SaveFailsKeepsSerial DEF Step
<1>2. CASE UNCHANGED vars
  <2>1. UNCHANGED <<heap, batch, pc, held, sent, written, answer, row, rows>>
    BY <1>2 DEF vars, handlerVars, dbVars
  <2>2. InFlight' = InFlight /\ Stored' = Stored /\ Unborn' = Unborn
    BY <2>1 DEF InFlight, Stored, Unborn
  <2>3. \A r \in InFlight : Serial(r) => Serial(r)'
    <3>1. \A r \in InFlight : Changed(r) => Changed(r)'
      BY <2>1, <2>2 DEF Changed, Unborn, Advanced
    <3> QED
      BY <2>1, <2>2, <3>1 DEF Serial
  <2>4. QuietMemoryMatchesDb' /\ TracesAreAnswered' /\ FreshAreUnanswered'
    BY <2>1, <2>2 DEF SerialInv, QuietMemoryMatchesDb, TracesAreAnswered, FreshAreUnanswered
  <2> QED
    BY <2>1, <2>2, <2>3, <2>4 DEF SerialInv
<1> QED
  BY <1>1, <1>2, CrashKeepsSerial DEF Next

LEMMA SerialInitially == Init => SerialInv
<1> SUFFICES ASSUME Init PROVE SerialInv
  OBVIOUS
<1>1. InFlight = {}
  BY DEF Init, InFlight
<1>2. TracesAreAnswered /\ FreshAreUnanswered
  BY PlaceType, CustodyAssumption DEF Init, TracesAreAnswered, FreshAreUnanswered, NoEvents
<1> QED
  BY <1>1, <1>2 DEF Init, SerialInv, QuietMemoryMatchesDb, Unborn

LEMMA SerialIsInvariant ==
    ASSUME OneAtATime
    PROVE  Spec => [](TypeOK /\ CustodyInv /\ SerialInv)
<1>1. TypeOK /\ CustodyInv /\ SerialInv /\ [Next]_vars => SerialInv'
  BY NextKeepsSerial
<1> QED
  BY <1>1, SerialInitially, CustodyTypeCorrect, CustodyInvariant, PTL DEF Spec

\* createHarvest and transfer, one at a time: between two handlers the batch
\* in memory is the row and the events of the database, after any sequence of
\* saves, rollbacks and restarts.
THEOREM MemoryIsTheDatabase ==
    ASSUME OneAtATime
    PROVE  Spec => []QuietMemoryMatchesDb
<1>1. SerialInv => QuietMemoryMatchesDb
  BY DEF SerialInv
<1> QED
  BY <1>1, SerialIsInvariant, PTL

\* transferCore's rollback, one handler at a time: a POST that was answered
\* with an error left no event behind.
THEOREM RollbackLeavesNoTrace ==
    ASSUME OneAtATime
    PROVE  Spec => []RefusedLeavesNoTrace
<1>1. SerialInv => RefusedLeavesNoTrace
  BY DEF SerialInv, TracesAreAnswered, RefusedLeavesNoTrace
<1> QED
  BY <1>1, SerialIsInvariant, PTL

(***************************************************************************)
(* The row of the lot, whatever overlaps.                                  *)
(***************************************************************************)

\* A handler under way has begun, and the object it saves has been made.
LEMMA HeldIsMade ==
    ASSUME TypeOK, CustodyInv, NEW s \in InFlight
    PROVE  s \in Requests /\ held[s] \in Places /\ Made(held[s]) /\ Made(s)
BY PlaceType DEF CustodyInv, HandlerInv, InFlight, TypeOK, Made

\* The stages compared are numbers.
LEMMA StagesAreNumbers ==
    ASSUME TypeOK, NEW r \in Requests
    PROVE  /\ held[r] \in Places /\ held[r] # NoOne
           /\ heap[held[r]].head.stage \in Nat
           /\ sent[r].stage \in Nat /\ row.stage \in Nat
<1>1. held[r] \in Places
  BY DEF TypeOK
<1>2. heap[held[r]].head \in Rows /\ sent[r] \in Rows /\ row \in Rows
  BY <1>1 DEF TypeOK, Objects
<1>3. \A head \in Rows : head.stage \in Nat
  BY DEF Rows
<1>4. NoOne \notin Places
  BY CustodyAssumption DEF Places
<1> QED
  BY <1>1, <1>2, <1>3, <1>4

\* Who writes holds the lock.
LEMMA LockIsHeld ==
    ASSUME TypeOK, RowInv, NEW r \in Requests, Step(r), NEW s \in Requests
    PROVE  HoldsRow(s)'
<1>1. HoldsRow(s) /\ HoldsRow(r)
  BY DEF RowInv
<1>2. ASSUME NEW o \in Places, Begin(r, o) PROVE HoldsRow(s)'
  BY <1>1, <1>2 DEF HoldsRow, Begin, Goto, TypeOK, dbVars
<1>3. CASE Harvest(r) \/ Lookup(r) \/ Transfer(r)
  BY <1>2, <1>3, PlaceType DEF Harvest, Lookup, Transfer, TypeOK
<1>4. CASE Refuse(r) \/ CaptureRow(r) \/ Finish(r)
  BY <1>1, <1>4 DEF HoldsRow, Refuse, CaptureRow, Finish, Goto, TypeOK, dbVars
<1>5. CASE LockRow(r)
  BY <1>1, <1>5, PlaceType DEF HoldsRow, LockRow, Goto, TypeOK
<1>6. CASE WriteEvents(r)
  BY <1>1, <1>6 DEF HoldsRow, WriteEvents, Goto, TypeOK, dbVars
<1>7. CASE Commit(r) \/ CommitAnswerLost(r)
  BY <1>1, <1>7 DEF HoldsRow, Commit, CommitAnswerLost, Store, Reject, Goto, TypeOK
<1>8. CASE SaveFails(r)
  BY <1>1, <1>8 DEF HoldsRow, SaveFails, Reject, Goto, TypeOK
<1> QED
  BY <1>3, <1>4, <1>5, <1>6, <1>7, <1>8 DEF Step

\* The part of the invariant that holds while nothing has parted.
Joined ==
    /\ \A r \in InFlight : Together(r)
    /\ row.stage <= IF batch = NoOne THEN 1 ELSE heap[batch].head.stage + 1

\* The harvest or the lookup that makes the lot is the only one under way.
LEMMA OriginStaysJoined ==
    ASSUME TypeOK, CustodyInv, Joined, NEW r \in Requests, Harvest(r) \/ Lookup(r), ~Exists
    PROVE  Joined'
<1>1. /\ Stage[r] = 1 /\ heap'[r] = Origin(r) /\ Begin(r, r)
      /\ batch' \in {batch, r} /\ batch = NoOne
  BY OriginChanges DEF Exists
<1>2. /\ pc[r] = "new" /\ pc'[r] = "begin" /\ held'[r] = r
      /\ UNCHANGED <<sent, row>> /\ \A s \in Requests \ {r} : pc'[s] = pc[s]
  BY <1>1, BeginMoves, PlaceType
<1>3. InFlight = {}
  BY <1>1 DEF Joined, Together, Exists
<1>4. InFlight' = {r} /\ r \notin Saving'
  BY <1>2, <1>3 DEF InFlight, Saving
<1>5. heap'[r].head.stage = 1
  BY <1>1, OriginIsSound
<1>6. row.stage <= 1
  BY <1>1 DEF Joined
<1>7. batch' = r \/ batch' = NoOne
  BY <1>1
<1>8. Together(r)'
  BY <1>1, <1>2, <1>4, <1>5, <1>6, <1>7, PlaceType DEF Together
<1>9. row'.stage <= IF batch' = NoOne THEN 1 ELSE heap'[batch'].head.stage + 1
  <2>1. row'.stage \in Nat /\ row'.stage <= 1
    BY <1>2, <1>6 DEF TypeOK, Rows
  <2>2. CASE batch' = NoOne
    BY <2>1, <2>2
  <2>3. CASE batch' = r
    BY <1>5, <2>1, <2>3, PlaceType
  <2> QED
    BY <1>7, <2>2, <2>3
<1> QED
  BY <1>4, <1>8, <1>9 DEF Joined

\* A transfer advances the object of all the handlers under way.
LEMMA TransferStaysJoined ==
    ASSUME TypeOK, CustodyInv, Joined, NEW r \in Requests, Transfer(r)
    PROVE  Joined'
<1> DEFINE before == heap[batch].head.stage
<1>1. /\ batch \in Places /\ r # batch /\ Stage[r] = before + 1 /\ batch # NoOne /\ Stage[r] # 1
      /\ heap[batch] \in Objects
      /\ heap'[r] = heap[batch] /\ heap'[batch] = Advanced(heap[batch], r)
      /\ \A o \in Places \ {r, batch} : heap'[o] = heap[o]
      /\ batch' = batch /\ Begin(r, batch)
  BY TransferChanges DEF Transfer
<1>2. /\ pc[r] = "new" /\ pc'[r] = "begin" /\ held'[r] = batch /\ ~Made(r)
      /\ UNCHANGED <<sent, row>> /\ stale' = stale
      /\ \A s \in Requests \ {r} : pc'[s] = pc[s] /\ held'[s] = held[s]
  BY <1>1, BeginMoves DEF Begin
<1>3. before \in Nat /\ Stage[r] \in Nat /\ row.stage \in Nat
  BY <1>1, CustodyAssumption DEF Objects, Rows, Stages, TypeOK
<1>4. heap'[batch].head.stage = before + 1
  <2>1. Advanced(heap[batch], r).head.stage = Stage[r]
    BY <1>1 DEF Advanced, Objects, Rows
  <2> QED
    BY <1>1, <2>1
<1> HIDE DEF before
<1>5. row.stage <= before + 1
  BY <1>1 DEF Joined, before
<1>6. Together(r)'
  <2>1. r \notin Saving'
    BY <1>2 DEF Saving
  <2>2. heap'[r].head.stage = Stage[r] - 1
    BY <1>1, <1>3 DEF before
  <2> QED
    BY <1>1, <1>2, <1>4, <1>5, <2>1, <2>2 DEF Together
<1>7. ASSUME NEW s \in InFlight, s # r PROVE Together(s)'
  <2>1. Together(s) /\ s \in Requests /\ held[s] = batch /\ Made(s)
    BY <1>1, <1>7, HeldIsMade DEF Joined, Together
  <2>2. s \in Saving' <=> s \in Saving
    BY <1>2, <1>7, <2>1 DEF Saving
  <2>3. held'[s] = batch /\ sent'[s] = sent[s] /\ sent[s].stage \in Nat
    BY <1>2, <1>7, <2>1 DEF TypeOK, Rows
  <2>4. Stage[s] # 1 => s # batch /\ heap'[s] = heap[s]
    BY <1>1, <1>7, <2>1, PlaceType DEF Together
  <2>5. row.stage <= before
    BY <2>1 DEF Together, before
  <2>6. row'.stage <= heap'[held'[s]].head.stage
    BY <1>2, <1>3, <1>4, <2>3, <2>5
  <2>7. s \in Saving' =>
            /\ sent'[s].stage <= heap'[held'[s]].head.stage
            /\ row'.stage <= sent'[s].stage \/ s \in stale'
    BY <1>2, <1>3, <1>4, <2>1, <2>2, <2>3 DEF Together, before
  <2>8. Stage[s] # 1 => held'[s] # s /\ heap'[s].head.stage = Stage[s] - 1
    BY <2>1, <2>3, <2>4 DEF Together
  <2> QED
    BY <1>1, <2>3, <2>6, <2>7, <2>8 DEF Together
<1>8. \A s \in InFlight' : s \in InFlight \/ s = r
  BY <1>2 DEF InFlight
<1>9. row'.stage <= heap'[batch'].head.stage + 1
  BY <1>1, <1>2, <1>3, <1>4, <1>5
<1> QED
  BY <1>1, <1>6, <1>7, <1>8, <1>9 DEF Joined

\* A step that changes neither objects nor row nor the marks, of a handler
\* that goes on with its transaction.
LEMMA SaveStaysJoined ==
    ASSUME TypeOK, CustodyInv, Joined, NEW r \in Requests,
           \/ Refuse(r) \/ CaptureRow(r) \/ LockRow(r) \/ WriteEvents(r)
    PROVE  Joined'
<1>1. /\ UNCHANGED <<heap, batch, held, row, stale>>
      /\ pc[r] = "new" <=> Refuse(r)
      /\ Refuse(r) => pc'[r] = "done"
      /\ ~Refuse(r) => /\ r \in InFlight
                       /\ pc'[r] \in {"locking", "writing", "committing"}
                       /\ sent'[r] = heap[held[r]].head \/ (r \in Saving /\ sent'[r] = sent[r])
      /\ \A s \in Requests \ {r} : pc'[s] = pc[s] /\ sent'[s] = sent[s]
  <2> USE DEF Goto, TypeOK, dbVars, marks, InFlight, Saving
  <2>1. CASE Refuse(r)
    BY <2>1 DEF Refuse
  <2>2. CASE CaptureRow(r)
    BY <2>2 DEF CaptureRow, Refuse
  <2>3. CASE LockRow(r)
    BY <2>3 DEF LockRow, Refuse
  <2>4. CASE WriteEvents(r)
    BY <2>4 DEF WriteEvents, Refuse
  <2> QED
    BY <2>1, <2>2, <2>3, <2>4
<1>2. InFlight' = InFlight
  BY <1>1 DEF InFlight
<1>3. ASSUME NEW s \in InFlight PROVE Together(s)'
  <2>1. Together(s) /\ s \in Requests /\ heap[held[s]].head \in Rows
    BY <1>3 DEF Joined, InFlight, TypeOK, Objects
  <2>2. row.stage <= heap[held[s]].head.stage
    BY <2>1 DEF Together
  <2>3. s \in Saving' =>
            /\ sent'[s].stage <= heap'[held'[s]].head.stage
            /\ row'.stage <= sent'[s].stage \/ s \in stale'
    <3>1. CASE sent'[s] = heap[held[s]].head
      BY <1>1, <2>1, <2>2, <3>1 DEF Rows
    <3>2. CASE s \in Saving /\ sent'[s] = sent[s]
      BY <1>1, <2>1, <3>2 DEF Together
    <3>3. CASE s # r
      <4>1. s \in Saving' <=> s \in Saving
        BY <1>1, <2>1, <3>3 DEF Saving
      <4> QED
        BY <1>1, <2>1, <3>2, <3>3, <4>1
    <3> QED
      BY <1>1, <1>3, <3>1, <3>2, <3>3 DEF InFlight
  <2> QED
    BY <1>1, <1>2, <2>1, <2>3 DEF Together
<1> QED
  BY <1>1, <1>2, <1>3 DEF Joined

\* Handlers under way beside a handler save the object it saves, the batch.
LEMMA OneObject ==
    ASSUME TypeOK, Joined, NEW r \in InFlight, NEW s \in InFlight, s # r
    PROVE  batch # NoOne /\ held[s] = batch /\ held[r] = batch
BY DEF Joined, Together

\* What a commit stores is not ahead of the object, and makes stale the
\* transactions that took their row before.
LEMMA StoreStaysBehind ==
    ASSUME TypeOK, Joined, NEW r \in Requests, Store(r)
    PROVE  /\ r \in InFlight /\ row' = sent[r]
           /\ row'.stage <= heap[held[r]].head.stage
           /\ \A s \in Saving \ {r} : s \in stale'
BY DEF Store, Joined, Together, InFlight, Saving

\* The handlers beside one that commits go on as before.
LEMMA OthersStayJoined ==
    ASSUME TypeOK, CustodyInv, Joined, NEW r \in InFlight, NEW s \in InFlight, s # r,
           UNCHANGED <<heap, held, sent>>, pc'[s] = pc[s], batch' = batch,
           Store(r) \/ (row' = row /\ stale \ {r} \subseteq stale')
    PROVE  Together(s)'
<1>1. batch # NoOne /\ held[s] = batch /\ held[r] = batch /\ Together(s) /\ s \in Requests
  BY OneObject DEF Joined, InFlight
<1>2. s \in Saving' <=> s \in Saving
  BY <1>1 DEF Saving
<1>3. row'.stage <= heap[held[s]].head.stage
  <2>1. CASE Store(r)
    BY <1>1, <2>1, StoreStaysBehind DEF InFlight
  <2>2. CASE row' = row
    BY <1>1, <2>2 DEF Together
  <2> QED
    BY <2>1, <2>2
<1>4. s \in Saving => row'.stage <= sent[s].stage \/ s \in stale'
  <2>1. CASE Store(r)
    BY <2>1, StoreStaysBehind DEF InFlight
  <2>2. CASE row' = row /\ stale \ {r} \subseteq stale'
    BY <1>1, <2>2 DEF Together
  <2> QED
    BY <2>1, <2>2
<1> QED
  BY <1>1, <1>2, <1>3, <1>4 DEF Together

\* The transaction commits.
LEMMA CommitStaysJoined ==
    ASSUME TypeOK, CustodyInv, Joined, NEW r \in Requests, Commit(r)
    PROVE  Joined'
<1>1. /\ Store(r) /\ pc'[r] = "committed" /\ UNCHANGED <<heap, batch, held, sent>>
      /\ \A s \in Requests \ {r} : pc'[s] = pc[s]
  BY DEF Commit, Goto, TypeOK
<1>2. /\ r \in InFlight /\ row' = sent[r] /\ row'.stage <= heap[held[r]].head.stage
      /\ Together(r)
  BY <1>1, StoreStaysBehind DEF Joined
<1>3. InFlight' = InFlight /\ r \notin Saving'
  BY <1>1, <1>2 DEF InFlight, Saving
<1>4. Together(r)'
  BY <1>1, <1>2, <1>3 DEF Together
<1>5. \A s \in InFlight \ {r} : Together(s)'
  BY <1>1, <1>2, OthersStayJoined DEF InFlight
<1>6. row'.stage \in Nat /\ heap[held[r]].head.stage \in Nat
  BY <1>2, StagesAreNumbers
<1>7. row'.stage <= IF batch' = NoOne THEN 1 ELSE heap'[batch'].head.stage + 1
  BY <1>1, <1>2, <1>6 DEF Together
<1> QED
  BY <1>3, <1>4, <1>5, <1>7 DEF Joined

\* The handler ends with its object in store.batches.
LEMMA FinishStaysJoined ==
    ASSUME TypeOK, CustodyInv, Joined, NEW r \in Requests, Finish(r)
    PROVE  Joined'
<1>1. /\ r \in InFlight /\ pc'[r] = "done" /\ batch' = held[r]
      /\ UNCHANGED <<heap, held, sent, row, stale>>
      /\ \A s \in Requests \ {r} : pc'[s] = pc[s]
  BY DEF Finish, Goto, TypeOK, InFlight, dbVars, marks
<1>2. Together(r) /\ InFlight' = InFlight \ {r}
  BY <1>1 DEF Joined, InFlight
<1>3. \A s \in InFlight \ {r} : Together(s)'
  <2> SUFFICES ASSUME NEW s \in InFlight \ {r} PROVE Together(s)'
    OBVIOUS
  <2>1. batch' = batch
    BY <1>1, OneObject
  <2> QED
    BY <1>1, <2>1, OthersStayJoined DEF InFlight
<1>4. row'.stage <= heap'[batch'].head.stage + 1 /\ batch' # NoOne
  <2>1. row.stage <= heap[held[r]].head.stage
    BY <1>2 DEF Together
  <2>2. row.stage \in Nat /\ heap[held[r]].head.stage \in Nat /\ held[r] # NoOne
    BY <1>1, StagesAreNumbers DEF InFlight
  <2> QED
    BY <1>1, <2>1, <2>2
<1> QED
  BY <1>2, <1>3, <1>4 DEF Joined

\* A save that is undone, and that no other one ran beside or built on, leaves
\* the row at most one stage ahead.
LEMMA RejectStaysJoined ==
    ASSUME TypeOK, CustodyInv, Joined, NEW r \in InFlight, Reject(r), ~Shared(r),
           Store(r) \/ (row' = row /\ stale' = stale \ {r})
    PROVE  Joined'
<1>1. /\ pc'[r] = "done" /\ batch' = AfterFailure(r) /\ r \in Requests
      /\ UNCHANGED <<heap, held, sent>>
      /\ \A s \in Requests \ {r} : pc'[s] = pc[s]
  BY DEF Reject, Goto, TypeOK, InFlight
<1>2. Together(r) /\ InFlight' = InFlight \ {r}
  BY <1>1 DEF Joined, InFlight
<1>3. row'.stage <= heap[held[r]].head.stage
  BY <1>1, <1>2, StoreStaysBehind DEF Together
<1>4. /\ row.stage \in Nat /\ row'.stage \in Nat
      /\ heap[held[r]].head.stage \in Nat /\ Stage[r] \in Nat
  <2>1. row' = row \/ row' = sent[r]
    BY DEF Store
  <2> QED
    BY <1>1, <2>1, StagesAreNumbers, CustodyAssumption DEF Stages
<1>5. CASE Stage[r] = 1
  <2>1. batch' = batch
    BY <1>1, <1>5 DEF AfterFailure
  <2>2. \A s \in InFlight \ {r} : Together(s)'
    BY <1>1, <2>1, OthersStayJoined DEF InFlight
  <2>3. row'.stage <= IF batch' = NoOne THEN 1 ELSE heap'[batch'].head.stage + 1
    BY <1>1, <1>2, <1>3, <1>4, <2>1 DEF Together
  <2> QED
    BY <1>2, <2>2, <2>3 DEF Joined
<1>6. CASE Stage[r] # 1
  <2>1. InFlight' = {} /\ heap[held[r]].head.stage = Stage[r]
    BY <1>2, <1>6 DEF Shared
  <2>2. batch' = r /\ heap'[r].head.stage = Stage[r] - 1
    BY <1>1, <1>2, <1>6 DEF AfterFailure, Together
  <2>3. row'.stage <= heap'[batch'].head.stage + 1 /\ batch' # NoOne
    BY <1>1, <1>3, <1>4, <2>1, <2>2, PlaceType
  <2> QED
    BY <2>1, <2>3 DEF Joined
<1> QED
  BY <1>5, <1>6

\* A step of a handler keeps memory and row together, or parts them.
LEMMA StepStaysJoined ==
    ASSUME TypeOK, CustodyInv, RowInv, NEW r \in Requests, Step(r), ~parted'
    PROVE  Joined'
<1>1. CASE Harvest(r) \/ Lookup(r)
  <2>1. ~parted /\ ~Exists
    BY <1>1, Zenon DEF Harvest, Lookup
  <2> QED
    BY <1>1, <2>1, OriginStaysJoined DEF RowInv, Joined
<1>2. CASE SaveFails(r) \/ CommitAnswerLost(r)
  <2>1. ~parted /\ ~Shared(r)
    BY <1>2, Zenon DEF SaveFails, CommitAnswerLost, Reject
  <2>2. Reject(r) /\ r \in InFlight
    BY <1>2 DEF SaveFails, CommitAnswerLost, Store, InFlight
  <2>3. Store(r) \/ (row' = row /\ stale' = stale \ {r})
    BY <1>2 DEF SaveFails, CommitAnswerLost
  <2> QED
    BY <2>1, <2>2, <2>3, RejectStaysJoined DEF RowInv, Joined
<1>3. ASSUME \/ Transfer(r) \/ Refuse(r) \/ CaptureRow(r) \/ LockRow(r) \/ WriteEvents(r)
             \/ Commit(r) \/ Finish(r)
      PROVE  Joined'
  <2>1. parted' = parted
    BY <1>3 DEF Transfer, Refuse, CaptureRow, LockRow, WriteEvents, Commit, Finish, marks
  <2>2. Joined
    BY <2>1 DEF RowInv, Joined
  <2> QED
    BY <1>3, <2>2, TransferStaysJoined, SaveStaysJoined, CommitStaysJoined, FinishStaysJoined
<1> QED
  BY <1>1, <1>2, <1>3 DEF Step

\* The invariant of the row holds in every reachable state: until memory and
\* row have parted, the transactions that are not stale store no older stage.
THEOREM RowInvariant == Spec => []RowInv
<1>1. Init => RowInv
  <2> SUFFICES ASSUME Init PROVE RowInv
    OBVIOUS
  <2>1. InFlight = {} /\ row.stage = 0 /\ batch = NoOne
    BY DEF Init, InFlight, NoRow
  <2>2. \A r \in Requests : HoldsRow(r)
    BY DEF Init, HoldsRow
  <2> QED
    BY <2>1, <2>2 DEF RowInv
<1>2. TypeOK /\ CustodyInv /\ RowInv /\ [Next]_vars => RowInv'
  <2> SUFFICES ASSUME TypeOK, CustodyInv, RowInv, [Next]_vars PROVE RowInv'
    OBVIOUS
  <2>1. ASSUME NEW r \in Requests, Step(r) PROVE RowInv'
    <3>1. \A s \in Requests : HoldsRow(s)'
      BY <2>1, LockIsHeld
    <3>2. ~parted' => Joined'
      BY <2>1, StepStaysJoined
    <3> QED
      BY <3>1, <3>2 DEF RowInv, Joined
  <2>2. CASE Crash
    <3>1. /\ \A r \in Requests : pc'[r] \in {"new", "done"}
          /\ heap'[Boot].head = row /\ row' = row /\ row.stage \in Nat
          /\ batch' = IF row.stage = 0 THEN NoOne ELSE Boot
      BY <2>2, PlaceType DEF Crash, InFlight, TypeOK, Rows
    <3>2. InFlight' = {} /\ \A r \in Requests : HoldsRow(r)'
      BY <3>1 DEF InFlight, HoldsRow
    <3>3. row'.stage <= IF batch' = NoOne THEN 1 ELSE heap'[batch'].head.stage + 1
      BY <3>1, PlaceType
    <3> QED
      BY <3>2, <3>3 DEF RowInv
  <2>3. CASE UNCHANGED vars
    <3>1. /\ UNCHANGED <<heap, batch, pc, held, sent, lock, row, stale, parted>>
      BY <2>3 DEF vars, handlerVars, dbVars, marks
    <3>2. InFlight' = InFlight /\ Saving' = Saving
      BY <3>1 DEF InFlight, Saving
    <3> QED
      BY <3>1, <3>2 DEF RowInv, HoldsRow, Together
  <2> QED
    BY <2>1, <2>2, <2>3 DEF Next
<1> QED
  BY <1>1, <1>2, CustodyTypeCorrect, CustodyInvariant, PTL DEF Spec

\* saveBatch, whatever saves overlap, fail or are cut short: the stage in the
\* row of the lot goes back only by a transaction that took its row before
\* another stored one, or once memory and database have parted.
THEOREM TheRowAdvances == Spec => RowNeverGoesBack
<1>1. TypeOK /\ RowInv /\ [Next]_vars
      => [row'.stage < row.stage => lock \in stale \/ parted]_row
  <2> SUFFICES ASSUME TypeOK, RowInv, [Next]_vars, row' # row, row'.stage < row.stage, ~parted
               PROVE  lock \in stale
    OBVIOUS
  <2>1. PICK r \in Requests : Store(r)
    BY DEF vars, handlerVars, dbVars, marks, Next, Step, Harvest, Lookup, Transfer, Begin, Refuse,
           CaptureRow, LockRow, WriteEvents, Commit, Finish, SaveFails, CommitAnswerLost, Crash
  <2>2. r \in InFlight /\ r \in Saving /\ lock = r /\ row' = sent[r]
    BY <2>1 DEF Store, InFlight, Saving, RowInv, HoldsRow
  <2>3. row.stage <= sent[r].stage \/ r \in stale
    BY <2>2 DEF RowInv, Together
  <2>4. row.stage \in Nat /\ row'.stage \in Nat
    BY <2>2 DEF TypeOK, Rows, InFlight
  <2> QED
    BY <2>2, <2>3, <2>4
<1> QED
  BY <1>1, CustodyTypeCorrect, RowInvariant, PTL DEF Spec, RowNeverGoesBack
=============================================================================
