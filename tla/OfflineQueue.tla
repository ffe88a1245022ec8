----------------------------- MODULE OfflineQueue -----------------------------
(***************************************************************************)
(* The mini app's path from a submitted form to the server: the submit     *)
(* handlers of HarvestPage and CollectorPage, the local history, the       *)
(* queue in IndexedDB with its localStorage fallback, the recovery of      *)
(* pending history by QueuePage, overlapping runs of syncHarvestQueue,     *)
(* requests that outlive their timeout, and the server as the app meets    *)
(* it: idempotency keys, evidence reuse, roles, commits whose answer is    *)
(* lost, restarts (its inside is in Idempotency and Custody).              *)
(*                                                                         *)
(* A reported form is a number, in the order of submission.  An await is a *)
(* boundary between actions, except where the continuation runs as a       *)
(* microtask of the same event: a queue read and the plan made from it, a  *)
(* deletion and the history mark after it.  Left out: attempts, lastError, *)
(* notifications, tokens, localStorage that rejects a write.               *)
(***************************************************************************)
EXTENDS Integers, FiniteSets, FiniteSetsExt

CONSTANTS
    Forms,        \* 1..n: the forms submitted, oldest first
    Transfers,    \* those of CollectorPage; the others are harvests
    Photos,       \* those with photos as evidence
    Stock,        \* those whose photos are the constant ones of the fallback
    Invalid,      \* those the server's rules refuse in any case
    Syncs,        \* runs of syncHarvestQueue that may overlap
    Loads,        \* loads of QueuePage that may overlap
    NoOne,        \* the sender of a request nobody waits for
    Worlds,       \* how many entries queue fallback and history may keep, and
                  \* (bounds) the forms submitted, the syncs and loads that
                  \* run, whether IndexedDB works at first, and how many
                  \* timeouts, overloads, restarts and failures there are
    MaxItems      \* bound: queue items made

ASSUME OfflineAssumption ==
    /\ IsFiniteSet(Forms) /\ Forms = 1..Cardinality(Forms)
    /\ Transfers \subseteq Forms /\ Stock \subseteq Photos
    /\ Photos \subseteq Forms /\ Invalid \subseteq Forms
    /\ Syncs \cap Forms = {} /\ NoOne \notin Syncs \cup Forms
    /\ Worlds \subseteq [room : Nat \ {0}, forms : SUBSET Forms, syncs : SUBSET Syncs,
                      loads : SUBSET Loads, idbUp : BOOLEAN, faults : Nat]
    /\ MaxItems \in Nat

VARIABLES
    world,     \* a member of Worlds, for good; its room scales slice(0, 100)
    page,      \* where the submit handler of each form is
    history,   \* bats_harvest_history: the status shown for each form
    idb,       \* the items in IndexedDB
    fallback,  \* the items in localStorage
    idbUp,     \* whether IndexedDB works in this WebView
    made,      \* how many queue items were made
    plan,      \* forms each QueuePage load has yet to queue again
    todo,      \* items each sync has yet to deal with
    net,       \* requests under way
    commits,   \* what the server committed, with key and evidence
    known,     \* the commits in the server's memory
    claim,     \* the row of idempotency_keys for each key
    lost,      \* keys with a commit or a completion whose answer was lost
    keys,      \* the idempotency keys each form was sent under
    fate,      \* forms the user cleared from the device
    faults     \* failures so far

device == <<history, idb, fallback, idbUp, made>>
server == <<commits, known, claim, lost>>
vars == <<world, page, device, plan, todo, net, server, keys, fate, faults>>

\* The evidence a payload names: the photos as local paths or as uploaded
\* hashes, the constant hash of a form without photos, the constant hash of
\* a recovered payload.
Evidence == {"paths", "hashes", "none", "recovered"}
Statuses == {"absent", "PENDING_SYNC", "DONE", "FAILED_VALIDATION"}

\* An item's id is its idempotency key and stands for createdAt as well.
Items == [id : 1..MaxItems, form : Forms, ev : Evidence]
Senders == Forms \cup Syncs \cup {NoOne}
Keys == {-f : f \in Forms} \cup 1..MaxItems
Codes == {"none", "ok", "invalid", "conflict", "forbidden", "overload"}
Requests == [by : Senders, key : Keys, form : Forms, ev : Evidence,
             st : {"sent", "running", "answered"}, code : Codes]
Commits == [key : Keys, form : Forms, ev : Evidence]
Claims == [st : {"none", "processing", "completed"}, ev : Evidence]
NoClaim == [st |-> "none", ev |-> "none"]

TypeOK ==
    /\ world \in Worlds
    /\ page \in [Forms -> {"new", "waiting", "queueing", "done"}]
    /\ history \in [Forms -> Statuses]
    /\ idb \subseteq Items /\ fallback \subseteq Items
    /\ idbUp \in BOOLEAN
    /\ made \in 0..MaxItems
    /\ plan \in [Loads -> SUBSET Forms]
    /\ todo \in [Syncs -> SUBSET Items]
    /\ net \subseteq Requests
    /\ commits \subseteq Commits /\ known \subseteq commits
    /\ claim \in [Keys -> Claims] /\ lost \subseteq Keys
    /\ keys \in [Forms -> SUBSET Keys]
    /\ fate \in [Forms -> {"kept", "cleared", "left", "gone"}]
    /\ faults \in 0..world.faults

Init ==
    /\ world \in Worlds
    /\ page = [f \in Forms |-> "new"]
    /\ history = [f \in Forms |-> "absent"]
    /\ idb = {} /\ fallback = {}
    /\ idbUp = world.idbUp
    /\ made = 0
    /\ plan = [l \in Loads |-> {}]
    /\ todo = [s \in Syncs |-> {}]
    /\ net = {} /\ commits = {} /\ known = {}
    /\ claim = [k \in Keys |-> NoClaim] /\ lost = {}
    /\ keys = [f \in Forms |-> {}]
    /\ fate = [f \in Forms |-> "kept"]
    /\ faults = 0

Fault ==
    /\ faults < world.faults
    /\ faults' = faults + 1

(***************************************************************************)
(* Local storage.                                                          *)
(***************************************************************************)

\* The newest entries, as many as there is room for.
Newest(S) == {e \in S : Cardinality({x \in S : x > e}) < world.room}

Kept(shown) == Newest({g \in Forms : shown[g] # "absent"})

\* saveHarvestHistory puts the form in; the oldest entry may fall out.
Saved(f, status) ==
    LET shown == [history EXCEPT ![f] = status]
    IN  [g \in Forms |-> IF g \in Kept(shown) THEN shown[g] ELSE "absent"]

\* markHarvestHistoryStatus changes the entry if there is one.
Marked(f, status) ==
    [history EXCEPT ![f] = IF @ = "absent" THEN @ ELSE status]

\* writeFallbackQueue sorts newest first and cuts the rest.
WriteFallback(items) ==
    fallback' = {i \in items : i.id \in Newest({j.id : j \in items})}

Without(items, f) == {i \in items : i.form # f}

\* persistQueueItem: the database, or else the fallback.
Persist(item) ==
    \/ /\ idbUp
       /\ idb' = {i \in idb : i.id # item.id} \cup {item}
       /\ UNCHANGED fallback
    \/ /\ ~idbUp
       /\ WriteFallback({item} \cup Without(fallback, item.form))
       /\ UNCHANGED idb

\* deleteIndexedDbQueueItem by id, deleteFallbackQueueItem by local id.
Delete(item) ==
    /\ idb' = IF idbUp THEN {i \in idb : i.id # item.id} ELSE idb
    /\ WriteFallback(Without(fallback, item.form))

Visible == fallback \cup IF idbUp THEN idb ELSE {}

\* readQueuedHarvests keeps one item per form: the fallback's, or any of the
\* database's, whose order is that of random ids.
Reads ==
    {R \in SUBSET Visible :
        /\ {i.form : i \in R} = {i.form : i \in Visible}
        /\ \A i, j \in R : i.form = j.form => i = j
        /\ \A i \in fallback : \E j \in R : j.form = i.form /\ j \in fallback}

\* enqueueHarvest makes an item with a key of its own.
Enqueue(f, ev) ==
    /\ made < MaxItems
    /\ made' = made + 1
    /\ Persist([id |-> made + 1, form |-> f, ev |-> ev])
    /\ UNCHANGED idbUp

(***************************************************************************)
(* Requests.                                                               *)
(***************************************************************************)

Post(by, key, f, ev) ==
    /\ net' = net \cup {[by |-> by, key |-> key, form |-> f, ev |-> ev,
                         st |-> "sent", code |-> "none"]}
    /\ keys' = [keys EXCEPT ![f] = @ \cup {key}]

Calls(by) == {r \in net : r.by = by}

\* fetchWithTimeout gives up: the request goes on without its sender.
Orphaned(senders) ==
    {IF r.by \in senders THEN [r EXCEPT !.by = NoOne] ELSE r :
        r \in {q \in net : q.st # "answered" \/ q.by \notin senders}}

\* The submit handlers name the photos by path and upload none.
OwnEvidence(f) == IF f \in Photos THEN "paths" ELSE "none"

\* handleSubmit: the form is in the history before anything else happens.
Submit(f) ==
    /\ page[f] = "new" /\ f \in world.forms
    /\ \A g \in world.forms : g < f => page[g] # "new"
    /\ history' = Saved(f, "PENDING_SYNC")
    /\ \/ /\ page' = [page EXCEPT ![f] = "waiting"]
          /\ Post(f, -f, f, OwnEvidence(f))
       \/ /\ page' = [page EXCEPT ![f] = "queueing"]
          /\ UNCHANGED <<net, keys>>
    /\ UNCHANGED <<world, idb, fallback, idbUp, made, plan, todo, server, fate, faults>>

SubmitAnswered(f) ==
    \E r \in Calls(f) :
        /\ r.st = "answered"
        /\ net' = net \ {r}
        /\ \/ /\ r.code = "ok"
              /\ history' = Saved(f, "DONE")
              /\ page' = [page EXCEPT ![f] = "done"]
           \/ /\ r.code # "ok"
              /\ page' = [page EXCEPT ![f] = "queueing"]
              /\ UNCHANGED history
        /\ UNCHANGED <<world, idb, fallback, idbUp, made, plan, todo, server, keys, fate, faults>>

\* The catch block saves the form as pending once more.
SubmitTimesOut(f) ==
    /\ page[f] = "waiting"
    /\ Fault
    /\ net' = Orphaned({f})
    /\ history' = Saved(f, "PENDING_SYNC")
    /\ page' = [page EXCEPT ![f] = "queueing"]
    /\ UNCHANGED <<world, idb, fallback, idbUp, made, plan, todo, server, keys, fate>>

SubmitQueues(f) ==
    /\ page[f] = "queueing"
    /\ Enqueue(f, OwnEvidence(f))
    /\ page' = [page EXCEPT ![f] = "done"]
    /\ UNCHANGED <<world, history, plan, todo, net, server, keys, fate, faults>>

\* ensureQueueForPendingHistory: forms pending in the history, not in the queue.
LoadQueue(l) ==
    /\ plan[l] = {} /\ l \in world.loads
    /\ LET missing == {f \in Forms : history[f] = "PENDING_SYNC"} \ {i.form : i \in Visible}
       IN  missing # {} /\ plan' = [plan EXCEPT ![l] = missing]
    /\ UNCHANGED <<world, page, device, todo, net, server, keys, fate, faults>>

Recover(l) ==
    /\ plan[l] # {}
    /\ LET f == Max(plan[l]) IN
          /\ Enqueue(f, "recovered")
          /\ plan' = [plan EXCEPT ![l] = @ \ {f}]
    /\ UNCHANGED <<world, page, history, todo, net, server, keys, fate, faults>>

\* A manual sync, or the handler of an "online" event.
StartSync(s) ==
    /\ todo[s] = {} /\ s \in world.syncs
    /\ \E R \in Reads : R # {} /\ todo' = [todo EXCEPT ![s] = R]
    /\ UNCHANGED <<world, page, device, plan, net, server, keys, fate, faults>>

Current(s) == CHOOSE i \in todo[s] : \A j \in todo[s] : j.id <= i.id

\* The photos are uploaded first; a path whose upload fails stays a path.
Uploaded(item) == IF item.ev \in {"paths", "hashes"} THEN {"paths", "hashes"} ELSE {item.ev}

SyncPost(s) ==
    /\ todo[s] # {} /\ Calls(s) = {}
    /\ LET item == Current(s) IN
       \E ev \in Uploaded(item) :
          /\ todo' = [todo EXCEPT ![s] = (@ \ {item}) \cup {[item EXCEPT !.ev = ev]}]
          /\ Post(s, item.id, item.form, ev)
    /\ UNCHANGED <<world, page, device, plan, server, fate, faults>>

\* Mutant: a conflict is taken for a refusal of what was already delivered.
SyncAnsweredAny(s) ==
    \E r \in Calls(s) :
        /\ r.st = "answered"
        /\ net' = net \ {r}
        /\ todo' = [todo EXCEPT ![s] = @ \ {Current(s)}]
        /\ Delete(Current(s))
        /\ history' = Marked(r.form, IF r.code = "invalid" THEN "FAILED_VALIDATION" ELSE "DONE")
        /\ UNCHANGED <<world, page, idbUp, made, plan, server, keys, fate, faults>>

\* A success or a 400 ends the item, any other answer keeps it.
SyncAnswered(s) ==
    \E r \in Calls(s) :
        /\ r.st = "answered"
        /\ net' = net \ {r}
        /\ todo' = [todo EXCEPT ![s] = @ \ {Current(s)}]
        /\ \/ /\ r.code = "ok"
              /\ Delete(Current(s))
              /\ history' = Marked(r.form, "DONE")
           \/ /\ r.code = "invalid"
              /\ Delete(Current(s))
              /\ history' = Marked(r.form, "FAILED_VALIDATION")
           \/ /\ r.code \notin {"ok", "invalid"}
              /\ Persist(Current(s))
              /\ UNCHANGED history
        /\ UNCHANGED <<world, page, idbUp, made, plan, server, keys, fate, faults>>

\* The request never arrives, or its answer is lost, or it goes on without
\* its sender; only a request that is still to be served late is counted.
SyncTimesOut(s) ==
    /\ \E r \in Calls(s) :
          \/ r.st = "running" /\ net' = Orphaned({s}) /\ UNCHANGED faults
          \/ r.st # "running" /\ net' = net \ {r} /\ UNCHANGED faults
          \/ r.st = "sent" /\ net' = Orphaned({s}) /\ Fault
    /\ todo' = [todo EXCEPT ![s] = @ \ {Current(s)}]
    /\ Persist(Current(s))
    /\ UNCHANGED <<world, page, history, idbUp, made, plan, server, keys, fate>>

(***************************************************************************)
(* The device.                                                             *)
(***************************************************************************)

Held == {f \in Forms : page[f] \in {"waiting", "queueing"}}
        \cup (UNION {plan[l] : l \in Loads})
        \cup (UNION {{i.form : i \in todo[s]} : s \in Syncs})

Submitted == {f \in Forms : page[f] # "new"}

\* What clearing makes of each form: still held by some handler, left in a
\* database that could not be deleted, or gone.
Cleared ==
    fate' = [f \in Forms |->
        IF f \notin Submitted THEN "kept"
        ELSE IF f \in Held THEN "cleared"
        ELSE IF \E i \in idb' : i.form = f THEN "left" ELSE "gone"]

\* Mutant: the items of the fallback are left alone.
ClearDatabaseOnly ==
    /\ Fault
    /\ history' = [f \in Forms |-> "absent"]
    /\ \E deleted \in {FALSE, idbUp} : idb' = IF deleted THEN {} ELSE idb
    /\ Cleared
    /\ UNCHANGED <<world, page, fallback, idbUp, made, plan, todo, net, server, keys>>

\* handleLogoutAndClearDevice; handlers under way are not stopped, and a
\* deleteDatabase that fails or is blocked is taken for done.
ClearDevice ==
    /\ Fault
    /\ history' = [f \in Forms |-> "absent"]
    /\ fallback' = {}
    /\ \E deleted \in {FALSE, idbUp} : idb' = IF deleted THEN {} ELSE idb
    /\ Cleared
    /\ UNCHANGED <<world, page, idbUp, made, plan, todo, net, server, keys>>

\* The app is closed and opened: handlers end, storage stays.
Restart ==
    /\ Fault
    /\ page' = [f \in Forms |-> IF page[f] = "new" THEN "new" ELSE "done"]
    /\ plan' = [l \in Loads |-> {}]
    /\ todo' = [s \in Syncs |-> {}]
    /\ net' = Orphaned(Senders)
    /\ UNCHANGED <<world, device, server, keys, fate>>

StorageFlips ==
    /\ Fault
    /\ idbUp' = ~idbUp
    /\ UNCHANGED <<world, page, history, idb, fallback, made, plan, todo, net, server, keys, fate>>

(***************************************************************************)
(* The server.                                                             *)
(***************************************************************************)

\* Every recovered payload names one hash, every harvest without photos and
\* every transfer without a slip another; the fallback photos are the same for
\* every form.
Proof(c) ==
    IF c.ev = "recovered" THEN <<0, c.ev>>
    ELSE IF c.ev = "none" THEN <<IF c.form \in Transfers THEN -1 ELSE 0, c.ev>>
    ELSE <<IF c.form \in Stock THEN 0 ELSE c.form, c.ev>>

Stored(f) == \E c \in commits : c.form = f

\* A transfer is refused once the stage is recorded; a harvest when its
\* evidence is known.  A lot id that is in use is no reason to refuse.
Accepts(r) ==
    /\ r.form \notin Invalid
    /\ IF r.form \in Transfers THEN \A c \in known : c.form # r.form
       ELSE \A c \in known : Proof(c) # Proof(r)

\* An answer nobody waits for is dropped.
Answer(r, code) ==
    net' = (net \ {r}) \cup
           IF r.by = NoOne THEN {} ELSE {[r EXCEPT !.st = "answered", !.code = code]}

\* A recovered transfer goes to the harvest endpoint, closed to collectors.
Forbidden(r) == r.form \in Transfers /\ r.ev = "recovered"

\* The row of the key is inserted and the handler goes on.
Claim(r) ==
    /\ claim' = [claim EXCEPT ![r.key] = [st |-> "processing", ev |-> r.ev]]
    /\ net' = (net \ {r}) \cup {[r EXCEPT !.st = "running"]}

\* Mutant: a key whose operation is complete is served once more.
ServeAnew(r) ==
    /\ r.st = "sent"
    /\ \/ /\ Forbidden(r) /\ Answer(r, "forbidden")
          /\ UNCHANGED claim
       \/ /\ ~Forbidden(r) /\ claim[r.key].st # "processing"
          /\ Claim(r)
    /\ UNCHANGED <<world, page, device, plan, todo, commits, known, lost, keys, fate, faults>>

\* Roles, then the claim of the key: the first of its key, replay, conflict.
Serve(r) ==
    /\ r.st = "sent"
    /\ \/ /\ Forbidden(r) /\ Answer(r, "forbidden")
          /\ UNCHANGED claim
       \/ /\ ~Forbidden(r)
          /\ \/ /\ claim[r.key].st = "none"
                /\ Claim(r)
             \/ /\ claim[r.key] = [st |-> "completed", ev |-> r.ev]
                /\ Answer(r, "ok")
                /\ UNCHANGED claim
             \/ /\ claim[r.key].st # "none" /\ claim[r.key] # [st |-> "completed", ev |-> r.ev]
                /\ Answer(r, "conflict")
                /\ UNCHANGED claim
    /\ UNCHANGED <<world, page, device, plan, todo, commits, known, lost, keys, fate, faults>>

CommitOf(r) == [key |-> r.key, form |-> r.form, ev |-> r.ev]

\* The handler commits and completes its key, or refuses and releases it.
Finish(r) ==
    /\ r.st = "running"
    /\ \/ /\ Accepts(r)
          /\ commits' = commits \cup {CommitOf(r)}
          /\ known' = known \cup {CommitOf(r)}
          /\ claim' = [claim EXCEPT ![r.key].st = "completed"]
          /\ Answer(r, "ok")
       \/ /\ ~Accepts(r)
          /\ claim' = [claim EXCEPT ![r.key] = NoClaim]
          /\ Answer(r, "invalid")
          /\ UNCHANGED <<commits, known>>
    /\ UNCHANGED <<world, page, device, plan, todo, lost, keys, fate, faults>>

\* The transaction commits but the handler never learns it, and leaves memory
\* as it was; or the completion of the key fails, or only seems to.  The catch
\* block releases the key, or its row is left as it stands.
FinishUnanswered(r) ==
    /\ r.st = "running"
    /\ Fault
    /\ Accepts(r)
    /\ commits' = commits \cup {CommitOf(r)}
    /\ lost' = lost \cup {r.key}
    /\ \E row \in {NoClaim, claim[r.key], [st |-> "completed", ev |-> r.ev]} :
          /\ claim' = [claim EXCEPT ![r.key] = row]
          /\ known' \in IF row.st = "completed" THEN {known \cup {CommitOf(r)}}
                        ELSE {known, known \cup {CommitOf(r)}}
    /\ Answer(r, "overload")
    /\ UNCHANGED <<world, page, device, plan, todo, keys, fate>>

\* The rate limit before the claim, a closed day or a server error after it.
Overload(r) ==
    /\ r.st \in {"sent", "running"}
    /\ Fault
    /\ Answer(r, "overload")
    /\ claim' = IF r.st = "running" THEN [claim EXCEPT ![r.key] = NoClaim] ELSE claim
    /\ UNCHANGED <<world, page, device, plan, todo, commits, known, lost, keys, fate>>

\* The process dies and hydrates: its handlers end without an answer, their
\* rows stay in processing, memory shows what is stored.
ServerRestart ==
    /\ Fault
    /\ net' = {q \in net : q.st # "running"} \cup
              {[q EXCEPT !.st = "answered", !.code = "overload"] :
                  q \in {x \in net : x.st = "running" /\ x.by # NoOne}}
    /\ known' = commits
    /\ UNCHANGED <<world, page, device, plan, todo, commits, claim, lost, keys, fate>>

FormStep(f) == Submit(f) \/ SubmitAnswered(f) \/ SubmitTimesOut(f) \/ SubmitQueues(f)
SyncStep(s) == SyncPost(s) \/ SyncAnswered(s) \/ SyncTimesOut(s)
ServerStep == \E r \in net : Serve(r) \/ Finish(r) \/ FinishUnanswered(r) \/ Overload(r)

Next ==
    \/ \E f \in Forms : FormStep(f)
    \/ \E l \in Loads : LoadQueue(l) \/ Recover(l)
    \/ \E s \in Syncs : StartSync(s) \/ SyncStep(s)
    \/ ServerStep \/ ServerRestart
    \/ ClearDevice \/ Restart \/ StorageFlips

Spec == Init /\ [][Next]_vars

(***************************************************************************)
(* Properties.                                                             *)
(***************************************************************************)

\* No form is forgotten: whatever times out, overlaps, restarts or fails, one
\* of the newest forms is stored by the server, shown as pending or as
\* refused, in the queue, or still in its submit handler.
NothingForgotten ==
    \A f \in Newest(Submitted) :
        \/ fate[f] # "kept"
        \/ Stored(f)
        \/ history[f] \in {"PENDING_SYNC", "FAILED_VALIDATION"}
        \/ page[f] \in {"waiting", "queueing"}
        \/ \E i \in idb \cup fallback : i.form = f

\* The history says delivered only of forms the server stored.
DeliveredIsStored == \A f \in Forms : history[f] = "DONE" => Stored(f)

\* What may turn a stored form into a refused one: it was sent under two keys,
\* an answer about one of its keys was lost, or it shows the fallback photos
\* and another form was stored with them.
Excused(f) ==
    \/ Cardinality(keys[f]) >= 2
    \/ keys[f] \cap lost # {}
    \/ f \in Stock /\ \E c \in commits : c.form \in Stock \ {f}

\* A form the server stored is shown as refused only for one of those reasons:
\* overlapping syncs, late answers, write-backs and evidence that changes
\* between two tries of one key never do it.
RefusedButStoredIsExcused ==
    \A f \in Forms : history[f] = "FAILED_VALIDATION" /\ Stored(f) => Excused(f)

\* A key is at work once at a time and, unless an answer about its commit was
\* lost, commits once, also when syncs overlap, write back an item another one
\* delivered, or send it with other evidence.
OneCommitPerKey ==
    /\ \A c, d \in commits : c.key = d.key /\ c # d => c.key \in lost
    /\ \A r \in net : r.st = "running" =>
          /\ \A q \in net : q.st = "running" /\ q.key = r.key => q = r
          /\ \A c \in commits : c.key = r.key => r.key \in lost

\* What the user cleared while no handler held it, the database included,
\* never comes back.  Where the database could not be deleted it does.
ClearedStaysGone ==
    \A f \in Forms : fate[f] = "gone" =>
        /\ history[f] = "absent"
        /\ \A i \in idb \cup fallback : i.form # f

\* A form shown as delivered is shown as pending or refused again only for one
\* of the reasons of Excused.
DeliveredStaysDelivered ==
    [][\A f \in Forms :
          history[f] = "DONE" /\ history'[f] \in {"PENDING_SYNC", "FAILED_VALIDATION"}
              => Excused(f)']_history

\* The queue as a whole: its types, what the history says and what clearing does.
QueueInv == TypeOK /\ DeliveredIsStored /\ ClearedStaysGone

\* What the idempotency keys of the queue do for it, and what undoes it.
KeyInv == OneCommitPerKey /\ RefusedButStoredIsExcused
=============================================================================
