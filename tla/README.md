# BATs traceability: a TLA+ verification development

BATs records the custody of agricultural lots (harvest, collection, packing,
shipping) as EPCIS events, keeps them in PostgreSQL behind a NestJS backend,
anchors one Merkle root per business day on an Ethereum contract and shows the
result on a public verification page. A Zalo mini app reports harvests, offline
too; a web portal lists lots and administers plots and accounts. This directory
holds TLA+ modules of these parts, the TLC configurations that check them, and
TLAPS proofs about them.

Paths are relative to the repository root (`src/`); `backend` stands for
`src/apps/backend/src`, `mini` for `src/apps/zalo-mini-app/src`.

## The system

One Node process serves all requests. JavaScript runs without interruption
between two `await`s, so **every await is a point where other handlers may run**,
and nothing else is. Shared state is a set of maps in `StoreService`, filled from
PostgreSQL at start (`hydrate`) and written through by each operation, in an
order that differs from one operation to the next. There is no lock in memory.
Production runs with `BATS_STORAGE=postgres` (`src/docker-compose.prod.yml:33`);
the in-memory mode serves tests and is modelled only where its answers should be
the same as PostgreSQL's (`Search`).

| Component | State | Operations | What makes it correct | Modules |
|---|---|---|---|---|
| Daily anchoring (`anchor.service.ts`, `anchor-scheduler.service.ts`, `BATSAnchor.sol`) | `store.anchors`, table `anchors`, contract mapping, mempool | `anchorDate` by scheduler ticks and admin POSTs, `runOnce`, `anchorDailyRoot`, `verifyRoot` | a record that says *confirmed* names the root on the contract; one root per day, for good; a day is confirmed in time; anchored events are durable | `AnchorLedger`, `Anchoring` |
| Public verification (`anchor.service.ts` `verification`, links) | none of its own | `verification`, `verifyIdentity` | what is shown as verified is anchored; a link opens its lot | `Verification`, `Documents` |
| Idempotency keys (`store.service.ts` 910-980, `bats.service.ts` `claim`) | `store.idempotencyKeys`, table `idempotency_keys` | claim, complete, release, hydrate | one owner per key; a replay is of a committed operation | `Idempotency` |
| Custody of a lot (`bats.service.ts`, `store.service.ts` `saveBatch`) | the batch object in `store.batches`, tables `batches`, `epcis_events` | harvest, transfer, public lookup that recovers a lot, `saveBatch`, hydrate | the stored chain of stages has no gap; an answered POST is stored; a refused one leaves nothing | `CustodyChain`, `Custody` |
| Lots, evidence, demo script (`bats.service.ts`, `evidence.service.ts`) | all lots, `evidenceHashes`, `evidence_files`, the batch sequence | `createHarvest`, uploads, transfers with a slip, `onModuleInit`, hydrate | one photo, one harvest; a yield above the plot's is warned of; a number never comes again; the script runs once | `Intake`, `Seeds` |
| Validation and risk (`validation.service.ts`, `shared-types/risk-rules.ts`) | none | harvest and transfer rules, score, band, `pointInPolygon` | worse data never gives a better answer; published figures are those of the code | `Rules`, `Geometry`, `Evaluation` |
| Merkle tree (`merkle.service.ts`) | none | root, proof, verify | a proof verifies exactly for its leaf | `Merkle` |
| Plots (`admin.service.ts`, `store.service.ts`, admin page) | `plots`, `farm_plots`, pages opened | create, update, status, delete, registration of a plot, hydrate | map and rows agree; active plots are disjoint; an edit from a page that is up to date undoes no other | `Plots` |
| Accounts and sessions (`auth.service.ts`, `admin.service.ts`, login pages) | `actors`, its table, the session a phone keeps, audit log | registration, login, profile, Zalo exchange, close; admin create, update, delete | a session is its holder's; active accounts of a role share no contact; a closed account stays closed | `Registry` |
| Access (`admin.guard.ts`, `access.guard.ts`, controllers) | none | guards of every route, roles asked for by services | guards and services agree on who may do what | `Access` |
| Marketplace, rate limit, metrics (`marketplace.service.ts`, `rate-limit.guard.ts`, `metrics.service.ts`, interceptors) | requests, buckets, counters in memory | list, ask, answer; `intercept`; observe | the limit holds in any window; metrics count what happened; an answer is final | `Marketplace`, `RateLimit`, `Metrics`, `Gateway` |
| Lists (`pagination.ts`, `page...` of `StoreService`, portal list) | the page shown, answers under way | pages, filters, searches | what was read to the end was shown | `Listing`, `Search` |
| Offline queue (`mini/offline-queue.ts`, `harvest-history.ts`, submit pages) | IndexedDB, localStorage, history, requests under way | submit, queue, sync, recover, clear | every harvest is delivered or still shown, once per key | `OfflineQueue` |
| History page (`mini/pages/HistoryPage.tsx`) | what it shows | merge of phone and server, of which one actor's page keeps anything | nothing of the phone is hidden; what was kept of the answer stays | `History` |
| EPCIS documents, canonical JSON, dossier | none | documents, hashes, GTINs, bundles | one content, one hash; every event in every format | `Documents` |
| Field study (`research/pilot.service.ts`) | one JSON file | submit, summary | the last answer of each participant is kept | `Pilot` |
| Fraud evaluation (`research/fraud-evaluation.ts`) | none | scenarios, matrices, ablation | what is published follows from the rules | `Evaluation` |

How they interact: a harvest or transfer is a handler *claim key -> check the day
against anchoring -> validate -> draw a number -> `saveBatch` -> show the lot ->
remember its evidence -> complete the key*. Anchoring reads all lots in memory to
build the day's tree. The public page reads lots and anchors, and may create a
lot. The mini app resends with idempotency keys after a 4.5 s timeout. Every
request passes guard, metrics, rate limit and handler in this order. `PROJECT.json`
lists, under `hazards`, each place where an interleaving, a lost answer or a crash
bites, with the property that watches it.

Hard behaviours: overlapping handlers at every await (anchoring, custody, intake,
plots, accounts); memory written before or after the row; a COMMIT whose answer
is lost; restarts that reload rows; resends under one key or two; transactions
that outlive their sender; pages of a list, or of a form, that are old when used.

## Modules

Operators whose comment begins with *Mutant* are deliberate bugs: no
specification uses them. Each property was checked to fail when the named
definition is replaced by its mutant, so no property is vacuous. `MC...` modules
are instances for TLC; `...Proofs` modules hold the theorems, those about `Plots`
and `Registry` in `AdministrationProofs`. Two components have an abstract
specification that they are shown to implement: `AnchorLedger` (per day one seal,
claims only of seals) is that of `Anchoring`, `CustodyChain` (a chain of stages
that only grows, and requests vouched for by it) that of `Custody`.

### Anchoring

A root is the *set* of events it commits to (`dailyTree` sorts by time and id, so
the set determines the root), and `{}` is the zero root. Each call of `anchorDate`
is a record with its program counter, named for the await it stands at:

| pc | code (`backend/anchor.service.ts`) | actions that leave it |
|---|---|---|
| idle | 73-104 | `AnchorDate` through `SchedulerRun` or `AdminPost` |
| verify | 85, 209-221 | `RootIsOnChain`, `RootNotSeen` |
| savePending | 104 | `PendingSaved`, `PendingSaveFails` |
| send | 106-113 | `SendTransaction`, `SendRejected`, `SendFails`, `SendResponseLost` |
| wait | 114-118 | `Confirm`, `TransactionReverted`, `ReceiptLost` |
| saveConfirmed | 129 | `ConfirmedSaved`, `ConfirmedSaveFails` |
| saveFailed | 135-140 | `FailedSaved`, `FailedSaveFails` |

`saveAnchor` is two steps, as in the code: the map at once, the row at the await.
A transaction whose sender gave up lives on in `orphans`. Events come in three
ways that differ in what is visible when: a harvest reaches memory after its
transaction, a transfer before it and is rolled back when it fails, a recovered
lot before it and stays even when it fails. A batch is a harvest with at most one
transfer, or a recovered lot; how updates of one batch collide is `Custody`'s
subject.

`AnchorLedger` forgets callers, rows and transactions. `LedgerSpec` in
`Anchoring` instantiates it with `sealed <- chain` and `claimed` the root of a
confirmed record in memory: `Register` is `Seal`, `Confirm` is `Claim`, the
return to pending or failed is `Withdraw`, a restart is `Reload`.

`crowded`, `shaken` and `unsaved` are history variables, which no action reads: the
days two calls anchored at once since the last start, those confirmed beside
another call or anchored again because the chain could not be read, and those
whose last upsert was refused. They say what the properties of memory and table
except.

Left out: `txHash`, `chainId`, `blockNumber`; a redeployed contract; the 503 for
missing configuration, which changes nothing.

### Verification

`verification()` looks up the contract for the business day of the first event
only. `ContractVerified` is that lookup and `VerifiedHashesAreAnchored` what the
page says. Merkle proofs are membership here; the tree itself is in
`Merkle`.

### Idempotency

The claim is an `INSERT ... ON CONFLICT DO NOTHING` (`Insert`), noted in memory a
step later (`Won`), or a read of the row in the way (`Lookup`) followed by a
write of what was read into memory (`Hydrate`). The operation commits or fails
as one step; `CommitUnknown` is a commit whose answer is lost. `Complete` and
`Release` change memory at once and the row at their await. `expiresAt` is left
out: in PostgreSQL mode only `hydrate` reads it.

### Custody

The batch is one object shared by reference. `heap` holds the objects (a
harvest's, a transfer's snapshot, hydrate's), `batch` says which one
`store.batches` has. `Transfer` changes the shared object in place before it
saves. `saveBatch` is `CaptureRow` (the upsert's arguments are read), `LockRow`
(PostgreSQL's row lock, held to the end), `WriteEvents` (the loop over the live
array), `Commit`, and `Finish` (`batches.set`, the answer). A failure puts the
snapshot back into the map, which leaves handlers that hold the old object with
it. The loop is one step: it reads the array to its end, its awaits only let
earlier transfers of the same object add to it, and the lock keeps other writers
of the lot out; a transfer that starts during the loop is the same as one that
starts just before it.

`CustodyChain` knows neither objects nor transactions nor handlers: it has the
request that recorded each stage, and the requests that were answered with
success. `ChainSpec` in `Custody` instantiates it with the committed rows and the
answers. A commit is `Record` (one save may bring several stages, and a resend may
take the place of the request that recorded one), an answered POST is `Vouch`;
rollbacks, crashes and everything in memory are stutters.

`stale` and `parted` are history variables: the transactions that took their row
before another one stored one, and whether memory and database have parted since the
last start, because a save that others ran beside or built on was undone, or because
the lot was made twice.

Left out: columns that an update does not touch (quantity, the `eventTime` and
actor of an event row), evidence rows, rejected harvests, which change nothing,
the closed day, and the key protocol.

### Intake

Harvests for any number of overlapping posts. An operation stands at the await it
is in: `locate` (`containsPoint`; `Validate` leaves it), `number`
(`nextBatchSequence`), `save` (the transaction), `show` (`batches.set` after it),
`evidence` (`addEvidenceHashes`). A transfer begins at `save`, after it changed
the lot in place, and holds a snapshot (`before`). `Commit`, `SaveFails` and
`SaveUnanswered` are the three ends of the transaction. `files` is the table that
`hydrate` rebuilds `evidenceHashes` from: only files that name an event count.
`boot` is the step of the demo script, which the listener waits for; a failed
demo harvest ends the start-up, a failed demo transfer skips the rest, and a
restart starts the script again only when no lot is stored. `late` and
`unanswered` are history variables: they say which harvests were validated while
another one was neither visible nor refused. A transfer that is made again
replaces the event's row (`store.service.ts:784`), its slip with it; the file of the
first slip goes on naming the lot. `Seeds` holds the script itself and
the plots of a new server and puts them through `Rules` and `Geometry`.

### Accounts and plots

`Registry` and `Plots` cut each handler at its awaits: the map changes at once,
the row at the await, the audit row after that. `AuthService` swallows what the
database answers, `AdminService` does not. Ids made of the clock may repeat
(`Ids`). A device holds the session it was answered, or a local one when the
answer was lost. A registration looks for one contact and stores that one: the phone
within a role, or the Zalo id. So a person who has both may have an account by each.
Only the administrator's form stores both, and a blank where there is no Zalo id
(`Blank`), which the lookup of the map passes over and the unique column of the
table does not; `AdminUpdate` changes any of phone, Zalo id and status.

In `Plots` a request works on the copy it made before its awaits and saves that
copy. The admin page keeps the row it was opened with and its form sends all fields:
code, shape and status; `chosen` says in which of them a request differs from what
was there, and `fresh` whether the page showed the plot as it was when the form was
sent. The inspection compares with rows, not with the map. `dirty`, `edited`,
`soiled` and `raced` are history variables: writes that failed or overlapped,
accounts whose contacts or status somebody changed, plots written between inspection
and write of another one.

### OfflineQueue

Submit handlers of the harvest and the collector page, the history in
localStorage, the queue in IndexedDB with its fallback, the recovery of pending
history by loads of the queue page, which may overlap, runs of `syncHarvestQueue`,
which may overlap too, and requests whose sender timed out and that are answered all
the same. `room` is the scale of `slice(0, 100)` for queue and history.

Clearing empties history and fallback in any case and takes a `deleteDatabase` that
failed or was blocked for done, so `fate` tells apart the forms a handler still held
(`cleared`), those whose items are left in the database (`left`) and those that are
gone (`gone`).

The server is what the app meets of it: roles, evidence reuse and the key of each
request. `Serve` claims the key (`Claim`), replays or refuses; `Finish` commits and
completes it, or refuses and releases it; `FinishUnanswered` is a commit or a
completion whose answer the database lost, after which the key's row may be released,
left in processing, or completed although the client was told of an error; `lost`
notes these keys. `ServerRestart` ends the handlers, leaves their keys in processing
and brings into memory what is stored. `Stock` are the forms whose photos are the
constant ones of the fallback. `Excused` names the only reasons why a stored form may
be shown as refused.

### Gateway

Composition of `RateLimit` (buckets and the sweep under a clock), `Metrics`
(counter, sum, cumulative histogram by route and status) and `Marketplace`: a
call passes the guard, the metrics, the limit and its handler, and one route
awaits the database, so that it is counted after later calls.

### Algorithms

Pure parts, and three small ones with a state of their own. A behaviour picks a
topic and builds an input step by step, so that TLC visits every input up to the
bound.

| Module | Topic | What it is compared with |
|---|---|---|
| `Listing` | pages of a list that changes, answers in any order | what was in the list all the time |
| `Search` | a query over plots, accounts or logs | the same query in the other storage mode |
| `History` | the merge of phone and server; the filter by actor, which keeps the answer for FARMER-0001 only | what the phone kept, what the page kept, what the server has |
| `Pilot` | the result file, torn writes, SUS, summary | the submissions made |
| `Merkle` | root, proof, verify over symbolic hashes (a pair's hash is the pair) | the list of leaves |
| `Geometry` | `pointInPolygon`, `validatePolygonShape` on a grid | sides of a triangle, crossings of edges, turned and reversed lists |
| `Rules` | all rules, weights, bands | the same harvest with one thing worse |
| `Evaluation` | scenarios of `fraud-evaluation.ts` | the published matrices and scores |
| `Seeds` | demo script, plots, names | the rules they have to pass |
| `Access` | routes with guard and roles | roles the services ask for |
| `Documents` | GTIN check digits, links, canonical payloads, EPCIS stages, dossier | mistyped digits, equality of content, the events of the lot |

Recursion of the code is written as recursive functions, so that theorems can
be stated about it. The parts that compute over data are checked for every input
up to the bounds below; what is proved about them for inputs of any size is under
Proofs.

## Runs

| Run | Instance | Shows |
|---|---|---|
| `anchoring_safety` | one day; harvest, its transfer, a recovered lot; one tick and one admin call; any 2 failures; 2 attempts (561 k states) | `ConfirmedIsOnChain`, `AnchoredHarvestsAreStored`, `LostIsFinal`, `ConfirmedRowStays`, `QuietRecordsAgree`, and the implementation of `AnchorLedger` |
| `anchoring_scheduler` | two days, one fair tick, 3 failures without failures of anchor rows, 4 attempts (16 k) | `SchedulerConfirmsYesterday` |
| `verification_two_days` | a lot over two days | **violated**: `VerifiedHashesAreAnchored` |
| `idempotency_safety` | four attempts with one key, one with another body, 2 failures of each kind (77 k) | `OneOwner`, `RepliesAreEffects`, `CreatedIsReplayable`, `DuplicateNeedsLostAnswer` |
| `custody_overlap` | harvest, resend, lookup, collection, packing; 3 at once; any 1 failure (1.04 M) | `LotInv`, `AnsweredIsStored`, `RowNeverGoesBack`, and the implementation of `CustodyChain` (`ChainSpec`) |
| `custody_serial` | all four stages, two competing collectors, one at a time, 3 rollbacks or crashes (16 k) | `QuietMemoryMatchesDb`, `RefusedLeavesNoTrace` |
| `intake` | two demo harvests and a demo transfer, two requests at once with the demo's photos, three numbers, 3 failures (1.38 M) | `EvidenceInv`, `IntakeInv`, `StoredLotsStay` |
| `registry` | a farmer with phone and Zalo id, a collector with the same phone, a second number, repeating ids, two requests at once, 1 failure (638 k) | `RegistryInv`, `ActiveContactsUnique`, `ClosedStaysClosed` |
| `plots` | a seeded plot, one of the admin page, one of the mini app, over two cells and two codes; two of three requests at once, 1 failure (1.27 M) | `PlotsInv`, `EditsKeepTheRest` |
| `offline_queue` | six worlds: one form under overlapping syncs or loads; one with 3 failures; two harvests with the fallback photos; a harvest and a transfer with room for one and no IndexedDB (1.43 M) | `QueueInv`, `NothingForgotten`, `KeyInv`, `DeliveredStaysDelivered` |
| `gateway` | three devices behind two addresses, two requests in two ticks, one lot, four calls, one restart (366 k) | `GatewayInv`, `MarketInv`, `AnsweredOnce` |
| `algorithms` | inputs up to the bounds below (2.1 M) | `ListingInv`, `KeptInv` (history page and field study), `MerkleInv`, `GeometryInv`, `RulesInv` (rules, evaluation, script, access, search), `DocumentsInv` |

An invariant named `...Inv` in a run is the conjunction of the named parts at the
end of its module, each with its own comment.

Several properties hold with named exceptions: `ConfirmedRowStays`,
`QuietRecordsAgree`, `RowNeverGoesBack`, `EditsKeepTheRest`, `KeyInv` and
`DeliveredStaysDelivered` say that what goes wrong does so for the listed reasons
*only*, in an instance where those reasons occur beside all others. What then does
go wrong is under Known limits. `saveAnchor`, for instance, upserts without a
condition, so that overlapping calls may write a confirmed row over; retries, refused
upserts, lost receipts and restarts by themselves never do.
`QuietMemoryMatchesDb` and `RefusedLeavesNoTrace` are the two that are about one
handler at a time (`custody_serial`): they say that a rollback undoes its own
handler's work. With overlapping handlers both fail, see Known limits.

**The violation.** `verification_two_days`: the public page says of a lot that
the hashes shown match the anchored commitment
(`src/apps/web/app/verify/[gtin]/[lot]/[serial]/page.tsx:92`), while
`verification` looks up the contract for the day of the first event only.

**Bounds.** Two callers are enough for any order of two writes to one record,
and the proofs cover any number. `MaxFaults` limits outside failures, `MaxAttempts`
`attemptCount`, `LastDay` the calendar, `MaxInFlight` the handlers of a lot at
once; at least one failure of each kind can meet each await. Four attempts with a
key give an owner, a conflicting reader that is late, a resend and a stranger.
`Requests` of `Custody` include two requests of one stage, so repetitions,
overwrites and snapshots of snapshots occur. `MaxLots = 3` in `intake` lets a
harvest follow two that overlap, `MaxMoves = 1` a transfer between them, and
`MaxFaults = 3` a transfer lose its answer, be made again and be read after a restart;
`MaxPosts = 3` in `registry` and `MaxRequests = 3` in `plots` let a request come
after two that overlap; `Choices` are the two states an admin's form chooses from,
one of which counts as active; `MaxItems = 2` in
`offline_queue` lets a form be queued a second time by the recovery; `Worlds` pairs room, forms, syncs, loads, storage and
failures so that two syncs or two loads of one form, three failures in a row (a lost
COMMIT answer, a restart, a late resend), forms with equal evidence, or an eviction
can happen. `gateway` has time for a window to end and another to
begin, and calls enough to fill both. `algorithms`: three rows in pages of two; polygons
of up to four corners on nine points (a crossing takes four); days of up to five
leaves (odd levels twice); payloads nested twice (`Canonical` looks into them to `Depth`,
which is more).

**Deadlock** is not checked, because the bounded systems stop: the calendar ends,
the attempts, requests and numbers are used up.

**Symmetry** is used for interchangeable requests (`Ops`, `Slots`) in runs
without liveness.

**Fairness** (`FairSpec`, used by `anchoring_scheduler`). Weak fairness of a
call's own steps: the event loop runs and database and RPC node answer, or the
request fails, which `MaxFaults` bounds. Of mining: the network mines what it
accepted. Of `SchedulerRun`: `setInterval` fires again and again. Of
`BackoffElapses`: time passes, `nextAttemptAt` comes. `NextDay` is not fair: the
property allows for the day to end first, which is a real limit, since the
scheduler never looks further back than yesterday (`anchor-scheduler.service.ts:75`).
It also excludes days whose registered transaction was lost (`Lost`), which
`LostIsFinal` shows to be beyond every retry. The offline queue has no liveness
property: a sync runs when the user opens the app or the phone comes online, which
nothing in the code makes happen.

## Proofs

All theorems about behaviours are of the form `Spec => ...`, for every value of the
constants under the `ASSUME`s of the modules (types and disjointness of constants,
which TLC evaluates in the runs). For the parts that compute these are: at least
one request, and one row to a page; answers of the field study are lists of
numbers up to 5, as the questionnaire asks for them (the service takes any, see
Known limits), and a torn file is no list of results; a leaf of the Merkle tree is
a tuple of one, so that the hash of a leaf is never that of a pair; the side of
the grid is a natural number. Two theorems of Custody, `MemoryIsTheDatabase` and
`RollbackLeavesNoTrace`, have one more hypothesis on the constants, `OneAtATime` (no
overlapping handlers, no lost answers to COMMIT, one harvest of the lot and no
lookups), which `custody_serial` satisfies. All others hold under any overlap and
any failures the model has.

Every safety property and action property of the passing runs is stated by a
theorem, but for `RulesInv` and `DocumentsInv`, see below. Each proof has the inductive
invariant first, one lemma per action (or per kind of step), then the properties.

* **Anchoring.** `AnchoringInv` is inductive together with `TypeOK`. That a
  confirmed record is registered does not follow step by step without knowing
  that a call waits only for its own transaction, that `mined` means that its
  own root is the registered one, and that no root on its way is the zero root
  (`CallsAreHonest`): otherwise a retry could confirm another call's seal. That
  anchored harvests are stored takes the same for every place a root can be
  (`HarvestsAreStored`: memory, calls, orphans, chain). From it:
  `ConfirmedRootsAreOnChain`, `AnchoredHarvestsAreDurable`, `LossIsFinal`, and
  `AnchoringImplementsLedger`, one case per action, each a ledger step or a
  stutter. `RecordsInv` is about days without a mark, while calls overlap on others:
  memory is ahead of the table by the record being saved at most (`Agreed`), and a
  confirmed row is confirmed in memory, where only the call that confirmed it is still
  at work (`Settled`). From it: `RecordsAgree`, `ConfirmedRowsStay`.
* **Idempotency.** `IdempotencyInv` adds to `OneOwner` that an owner's row is in
  processing with its own body, that it has a record in memory while it works
  (so `completeIdempotency` never returns early) and that it completes only what
  was committed. From it: `KeysHaveOneOwner`, `ReplaysAreCommitted`,
  `CreatedAnswersLast`. `EffectsInv` adds that the key of a committed operation
  stays taken while no answer is lost, and gives `DuplicatesNeedLostAnswers`.
* **Custody.** `CustodyInv` says that every object ever made holds an unbroken
  chain that contains its own stage, that a handler under way holds an object
  with its event, and what a transaction is about to commit is such a chain. The
  argument rests on `Grows`: between two crashes objects and the table only gain
  stages, so an interleaved step takes nothing from another handler
  (`OthersStay`). `UpsertAddsStages` makes the union of two unbroken chains
  unbroken. From it: `ChainIsUnbroken` (`LotInv`), `AnswersAreStored`.
  `CustodyImplementsChain` takes `ChainInv` besides: every event is at the stage its
  request is for, in objects, in what is being saved and in the table, and only a
  handler that is done has answered. For one handler at a
  time, `SerialInv` says stage by stage what the handler has changed in memory and
  not yet in the database, and that its snapshot is the lot as the database has it,
  so that both commit and rollback end with the two in agreement. From it:
  `MemoryIsTheDatabase`, `RollbackLeavesNoTrace`. For any overlap, `RowInv` says that
  until memory and database part all handlers under way save one object, and that the
  row is at most one stage ahead of the batch and not ahead of what a transaction that
  is not stale writes (`RowInvariant`). From it: `TheRowAdvances`.
* **Gateway.** `MarketIInv` is inductive for every step of `Gateway`, whatever the
  limit lets through. That a buyer never answers himself takes `NobodyAsksHimself`
  and the farmer of the lot, since an answer is allowed by role and lot, not by
  request. From it: `MarketIsSound` (`MarketInv`) and `AnswersAreFinal`
  (`AnsweredOnce`). `GatewayIsSound` is all of `GatewayInv`. The limit takes
  `LimitHolds` for every client: before the counter that is alive began, or before
  now, less than the limit was let through in the time of a window. It is less and
  not equal because a window begins with a request, which is not in the one after
  it; hence twice the limit less one. Metrics take `Histogram`: with increasing
  bounds an observation is in its bucket and in all after it, and the last bound is
  longer than any duration (in the code it has no limit). Sums over time, buckets
  and clients are recursive functions: what they add up to is proved at the first
  number at which it would be wrong, and `SumFunction` by counting pairs.
* **Intake.** `IntakeIInv` says that every number with a row was drawn, that what
  memory shows of a lot is what its row keeps (`Drawn`), that a request about to
  store a harvest has a number without a row and one about to store a transfer,
  and the snapshot it may put back, agree with the row (`OpsAgree`), and that no
  two requests hold one number (`OwnNumbers`). Without the last a second request
  could make the first one's number taken. From it: `LotsStay` (`StoredLotsStay`),
  with overlapping posts, lost answers, the demo script and restarts.
  `EvidenceIInv` follows a photo: of the harvests under way one at most is on time,
  its photos are in no stored lot that was on time, and `evidenceHashes` has the
  photos of every stored lot, unless its answer is missing or about to be told, so
  that a harvest on time was compared with all of them. From it:
  `EvidenceFitsTogether` (`EvidenceInv`). `DemoIInv` says that a harvest of the
  script is the only request there is and stores the line that `boot` names, and
  gives `DemoHarvestsOnce`. `YieldIInv` says that plots without marked lots fit,
  in memory and in the table, and that a harvest on time and unmarked fits on top
  until it is shown; a stored lot is shown, unless it is about to be or its answer
  is missing. From it and `DemoIInv`: `HarvestsAreJudged` (`IntakeInv`).
* **Plots.** `PlotsIInv` says that a write under way works on the copy of a plot
  that nobody else is writing, or that the plot is in `dirty`, and that a plot past
  its inspection is clear of the active rows or in `raced`. From it:
  `PlotsFitTogether` (`PlotsInv`). A write under way differs from the row only in the
  fields its sender chose, or its page was old, which gives `EditsUndoNothing`
  (`EditsKeepTheRest`).
* **Registry.** `RegistryIInv` adds to the same agreement of map and rows that an
  actor keeps the contacts of the person it was made for, its phone or its Zalo id or
  both (`HasContacts`), unless it was edited or a write of it failed, so that two that
  share one are of one person, whom the lookup by that contact would have found: the
  map changes in the step that looks. A device's account is
  its person's. It assumes that phones differ within a role and a Zalo id belongs
  to one person. From it:
  `AccountsFitTogether` (`RegistryInv`), `ContactsAreUnique`
  (`ActiveContactsUnique`), `ClosedAccountsStayClosed` (`ClosedStaysClosed`).
* **OfflineQueue.** `QueueIInv` has a part for keys and one for the device. Of a key
  it says who may send under it, that one request at most is at work with its row in
  processing, that what is committed under it keeps the row completed, or taken,
  unless an answer was lost, and that a refusal on its way is of a form that is not
  stored or has a reason of `Excused`. Of the device: what is delivered is stored, a
  form that is gone is in no history, queue or handler, the newest forms are in one of
  them. From it: `QueueFitsTogether`, `KeysDoTheirWork`, `NoFormIsForgotten`,
  `DeliveredFormsStayDelivered`. That `slice` keeps the newest takes lemmas about the
  largest of a finite set of numbers.

* **Merkle tree.** What root, proof and verify compute level by level is proved at
  the first level, or the first number of levels, at which it would be wrong
  (`FirstWithout`). `EveryProofVerifies` says that on the way up the hash in hand is
  that of the node the path goes through, and that no other leaf gets there;
  `RootBindsTheDay` goes down from equal roots: two days with one root are equal but
  for events repeated at the end of the longer. From them: `DaysAreBound`
  (`MerkleInv`).
* **History page and field study** (`WhatIsKept`, `KeptInv`). `HistoryIInv` adds that
  the page asks once, when it opens, so that no answer is late, and that what the
  phone keeps as delivered is on the server; from it that nothing of the phone is
  hidden, that what was kept of the answer stays shown (`KeptStaysShown`), and that
  every actor but the default one sees the phone's history and no more
  (`OthersSeeTheirPhone`). `FileIInv` says that the file lists each
  participant once and says what was written since the last torn write. The summary
  takes the lemmas that a finite set of numbers has a greatest one and one of every
  place in the order, so that half of the participants are on either side of the
  median.
* **Lists** (`PagesAreWhole`, `ListingInv`). `ListingIInv` follows a walk through the
  pages. `GoesOn` says where the lots stand that are still to be shown: by their rank
  among the lots of the filter they come after the pages already turned, and new lots,
  which come first in the order, only push them further back. A count or a page that
  was read before a lot was harvested or collected and arrives after it needs the same
  of the answer under way (`AnswersGoOn`), and the pages a reader turns are asked for
  one at a time (`AloneIsAlone`).
* **Polygons** (`FieldsAreWellDefined`, `GeometryInv`), for any number of corners and
  any grid. Corners are seen from the point: whether the ray crosses an edge is a
  matter of the sides of its ends and the sign of one cross product (`CrossesIs`).
  Turned and reversed lists have the same edges under other numbers. An edge that is
  crossed by just one of the rays to the east and to the north goes into the quarter
  between the two or out of it (`EdgeOfQuarter`), and a round trip does so an even
  number of times (`RoundTrip`). For triangles the products add up to zero
  (`SumOfSides`), so that the corner alone on its side of the ray decides.
  `CrossingDiagonals` is about two sides that cross.
* **Ratings and check digits.** `RatingIsFair` states the two parts of `RulesInv` about
  harvests (`AcceptedIsNotRed`, `WorseNeverHelps`) for any weights, counts and
  accuracy: no two issues have one code, so that the sum over the set of issues is one
  of a weight or nothing for each code (`SumIsTotal`). `NoDigitMistyped` says for every
  valid GTIN what `GtinsAreSafe` says for the eight of the crops: a changed digit
  changes the sum by no multiple of ten.

Model-checked only:
* liveness (`SchedulerConfirmsYesterday`), which is beyond the prover;
* the rest of `RulesInv`: published figures, script, seeds and routes are tables of
  which TLC looks at every entry, and callers a finite set; `SearchInv` is about
  `SelectSeq` and `SortSeq`, which the prover cannot expand;
* the rest of `DocumentsInv`: canonical JSON is recursion over data that is sorted;
  of crops and of the stages in a dossier TLC looks at all.

## Known limits

What the models show the code does not keep, or keeps only under a condition that
the property states. Line numbers are of the code.

Anchoring and custody:
* A harvest that passed `assertDayOpen` (`backend/bats.service.ts:290`) before its
  awaits joins a day confirmed meanwhile: the closed day gains an event.
* A completion of a key whose answer is lost (`store.service.ts:948`): a resend that
  read the row before writes it over the record, the owner's release deletes the
  key, and the operation can commit twice. `DuplicateNeedsLostAnswer` is the
  boundary.
* A crash between claim and completion leaves a key in processing for good
  (`store.service.ts:939`).
* A confirmed row of `anchors` may be written over by a call that overlapped the
  confirming one, or by a later call that could not read the chain
  (`store.service.ts:869`). Memory and row also part when the upsert is refused, since
  memory is written first; a restart before the next attempt forgets the record.
* A root may commit to a transfer whose transaction is then rolled back
  (`anchor.service.ts:74`), and to a recovered lot that was never stored
  (`bats.service.ts:591`).
* A transfer that is rolled back while another handler saves the object it changed
  leaves its event in the table (`bats.service.ts:493`); the row of a lot may go back
  to an earlier stage when a transaction took its row before another one stored one,
  or after memory and database parted (`store.service.ts:753`).
* The band of a lot is not computed again when a transfer adds to its score
  (`bats.service.ts:486`).
* A resend that upserts an event changes hash and payload and leaves `eventTime`
  and actor (`store.service.ts:784`); `hydrate` orders events by the time the client
  gave (`store.service.ts:989`); offsets of times become `Z` after a restart.

Lots and evidence:
* The slip of a transfer that lost its answer and was made again with another slip is
  shown by no event, and counts as used from the next restart on
  (`store.service.ts:784`).
* Two posts that overlap may use one photo, and need not see each other's weight
  (`bats.service.ts:301`, `validation.service.ts:70`).
* The mini app names a photo by `sha256:` and its hash, and sends constant hashes for
  forms without photos and for recovered ones (`mini/offline-queue.ts:297`,
  `HarvestPage.tsx:175`, `CollectorPage.tsx:163`); a retry with other hashes under one
  key is answered 409.
* A form that timed out is queued under a second key (`offline-queue.ts:169`), and so
  is one that two loads of the queue page recover at once (`offline-queue.ts:257`): a
  stored harvest may be shown as refused.
* With one key, too: when the answer to a COMMIT is lost the server releases the key
  (`bats.service.ts:283`), the item stays in the queue, and a resend commits once more
  or is refused for its own evidence after a restart. The photos of the fallback
  (`mini` `zalo-session.ts:213`) are the same for every form, so the second harvest
  that uses them is refused. `KeyInv` and `DeliveredStaysDelivered` list these reasons.
* Clearing the device takes a failed or blocked `deleteDatabase` for done
  (`offline-queue.ts:361`): its items come back when the database opens again.
* Queue and history keep the newest hundred entries and drop the rest without a word
  (`offline-queue.ts:57`).
* The history page keeps of the server's answer what names the session's actor, which
  no batch of the API does (`HistoryPage.tsx:33`, 79): nothing for anybody but
  FARMER-0001, whose page takes everybody's lots, the first 25 of them. While it is open
  what is shown wins over news of the phone.
* A lot made up for a scanned name keeps the GTIN it was asked with; the mini app
  guesses that GTIN for three crops only (`bats.service.ts:556`).

Administration, accounts, access:
* The form of an old admin page puts code, shape and status back to what they were,
  and of two edits that overlap one is lost; two active plots may overlap after
  overlapping requests, and then neither can be closed (`admin.service.ts:91`).
* The admin page lists rows, so a plot that lives in memory only cannot be approved.
* An edit by the administrator that overlaps the user's closing of the account may
  leave the older row, and the account is open again after a restart
  (`store.service.ts:692`).
* Two accounts of one person are possible, one registered by phone and one by Zalo. An
  empty Zalo field of the admin form is stored as an empty text, which the unique
  column takes once; the map has the second account and the table does not.
* An id of the clock may replace an account in the map (`auth.service.ts:180`); the
  profile page reports success also when the server refused; a listener of network
  changes is never removed (`mini` `zalo-session.ts:224`).
* Guards run before interceptors: 401 and 403 are neither limited nor counted.

Marketplace, lists, algorithms:
* The sum of accepted requests is never compared with the lot
  (`marketplace.service.ts:40`), a request can be accepted after the lot was shipped
  or turned red, and requests are lost at a restart.
* The public list of plots ignores the status it is asked for in PostgreSQL mode,
  and typed blanks are trimmed in memory mode only (`store.service.ts:463`).
* A late answer to an earlier filter replaces the list (`dashboard/batches/page.tsx:62`);
  the history page of FARMER-0001 may show an older status until it is opened again.
* `[a,b,c]` and `[a,b,c,c]` have one Merkle root (`merkle.service.ts:19`); touching and
  collinear polygons pass `validatePolygonShape`; the SUS score exceeds 100 for
  answers above five.

## Not modelled

Rendering pages of the portal and static text; the research contracts and gas
benchmarks; shell scripts, load tests and the tooling under `.agents`; signatures
and expiry of tokens, the development tokens, the admin password; CORS, OpenAPI text
and log lines; metadata of transactions (`txHash`, `chainId`, `blockNumber`) and
redeployment of the contract; checks of a single field's length or file type, which
change nothing. They have no protocol to check, or are not part of the running
system.

## Plan

Of the model: expiry of idempotency keys at `hydrate`, and lots that a lookup made
up among the requests of `custody_serial`. There `QuietMemoryMatchesDb` does not
hold: a lookup shows its lot whether or not the save succeeds
(`bats.service.ts:590`), which takes a property of its own. Of the proofs: the
search in both storage modes, once filters and orders are written without
`SelectSeq` and `SortSeq`.
