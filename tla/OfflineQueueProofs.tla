-------------------------- MODULE OfflineQueueProofs --------------------------
(***************************************************************************)
(* Theorems about OfflineQueue, for any forms, syncs, sizes of the storage *)
(* and number of items and failures.                                       *)
(*                                                                         *)
(* The argument follows the keys.  A key belongs to one form and, but for  *)
(* the upload of its photos, to one piece of evidence; so what the server  *)
(* does under it concerns one form, and a refusal under it is final unless *)
(* the form was sent under another key too, an answer about the key was    *)
(* lost, or the form shows photos it shares with another one.              *)
(***************************************************************************)
EXTENDS OfflineQueue, FiniteSetTheorems, TLAPS

\* All items of the device, in storage or in the hands of a sync.
Queued == idb \cup fallback \cup UNION {todo[s] : s \in Syncs}

\* What an upload leaves of the evidence.
Kind(ev) == IF ev \in {"paths", "hashes"} THEN "photos" ELSE ev

TwoKeys(f) == \E k, l \in keys[f] : k # l

\* The photos of the form were stored for another one.
PhotosUsed(f) == f \in Stock /\ \E c \in commits : c.form \in Stock \ {f}

\* What the loads of QueuePage have yet to queue.
Planned == UNION {plan[l] : l \in Loads}

\* Numbers are given out in order.
Numbered ==
    /\ \A i \in Queued : i.id <= made
    /\ \A f \in Forms : \A k \in keys[f] : k <= made /\ (k < 0 => k = -f)

\* A key is that of one form and of one kind of evidence.
KeysApart ==
    /\ \A i, j \in Queued : i.id = j.id => i.form = j.form /\ Kind(i.ev) = Kind(j.ev)
    /\ \A i \in Queued : \A f \in Forms : i.id \in keys[f] => i.form = f
    /\ \A f, g \in Forms : \A k \in keys[f] \cap keys[g] : f = g

RequestsNamed ==
    \A r \in net :
        /\ r.key \in keys[r.form]
        /\ \A i \in Queued : i.id = r.key => Kind(i.ev) = Kind(r.ev)
        /\ \A q \in net : q.key = r.key => Kind(q.ev) = Kind(r.ev)

\* A request has one sender, and a sender that waits for one request.
SendersWait ==
    \A r \in net :
        /\ r.by \in Forms => r.form = r.by /\ page[r.by] = "waiting"
        /\ r.by \in Syncs => r.key > 0 /\ todo[r.by] # {}
        /\ \A q \in net : q.by = r.by /\ r.by # NoOne => q = r

WaitingIsSent ==
    \A f \in Forms : page[f] = "waiting" =>
        -f \in keys[f] /\ (history[f] = "DONE" => TwoKeys(f))

CommitsNamed == \A c \in commits : c.key \in keys[c.form] /\ c.form \notin Invalid

\* A running request has claimed its key; the row of a key is completed by a
\* commit only, and after a commit only a lost answer leaves it otherwise.
ClaimsHold ==
    /\ \A r \in net : r.st = "running" => claim[r.key] = [st |-> "processing", ev |-> r.ev]
    /\ \A k \in Keys : claim[k].st = "completed" => \E c \in commits : c.key = k
    /\ \A c \in commits : claim[c.key].st # "completed" => c.key \in lost

OkIsStored == \A r \in net : r.code = "ok" => Stored(r.form)

\* A harvest's key that can never commit: what it is sent with names evidence
\* the server has seen, and it will not be sent with anything else.
Dead(k, f) ==
    /\ f \notin Transfers
    /\ \A c \in commits : c.key # k
    /\ \E ev \in {"none", "recovered"} :
          /\ \A i \in Queued : i.id = k => i.ev = ev
          /\ \A r \in net : r.key = k => r.ev = ev
          /\ \E c \in known : Proof(c) = Proof([form |-> f, ev |-> ev])

\* Why a form may be refused under a key.
Grounds(k, f) ==
    f \in Invalid \/ TwoKeys(f) \/ k \in lost \/ Dead(k, f) \/ PhotosUsed(f)

RefusalsExcused == \A r \in net : r.code = "invalid" => Grounds(r.key, r.form)

FailedExcused ==
    \A f \in Forms : history[f] = "FAILED_VALIDATION" => \E k \in keys[f] : Grounds(k, f)

\* Nothing is left of a form that is gone, and nothing is there of a new one.
GoneIsGone ==
    \A f \in Forms : fate[f] = "gone" =>
        /\ page[f] = "done" /\ history[f] = "absent" /\ f \notin Planned
        /\ \A i \in Queued : i.form # f

NewIsUntouched ==
    \A f \in Forms : page[f] = "new" =>
        /\ history[f] = "absent" /\ f \notin Planned /\ keys[f] = {} /\ fate[f] = "kept"
        /\ \A i \in Queued : i.form # f

\* The history has an entry of each of the newest forms.
NewestIsShown ==
    \A f \in Newest(Submitted) : fate[f] = "kept" => history[f] # "absent"

\* What the keys, the requests and the server have to do with each other.
KeyPart ==
    /\ Numbered /\ KeysApart /\ RequestsNamed /\ CommitsNamed
    /\ ClaimsHold /\ OneCommitPerKey /\ OkIsStored /\ RefusalsExcused

\* What the device knows of it.
DevicePart ==
    /\ SendersWait /\ WaitingIsSent
    /\ DeliveredIsStored /\ FailedExcused
    /\ GoneIsGone /\ NewIsUntouched /\ NewestIsShown

QueueIInv == TypeOK /\ KeyPart /\ DevicePart

(***************************************************************************)
(* Finite sets of numbers.                                                 *)
(***************************************************************************)

\* A finite set of integers has a largest one: of its subsets that have none,
\* one would be smallest.
LEMMA MaxExists ==
    ASSUME NEW S \in SUBSET Int, IsFiniteSet(S), S # {}
    PROVE  \E x \in S : \A y \in S : x >= y
<1> DEFINE T == {U \in SUBSET S : U # {} /\ ~\E x \in U : \A y \in U : x >= y}
<1> SUFFICES ASSUME T # {} PROVE FALSE
  OBVIOUS
<1>1. T \subseteq FiniteSubsetsOf(S)
  BY FS_FiniteSubsetsOfFinite
<1>2. PICK U \in T : \A V \in T : <<V, U>> \notin StrictSubsetOrdering(S)
  BY <1>1, FS_StrictSubsetOrderingWellFounded, WFMin
<1>3. PICK x \in U : TRUE
  OBVIOUS
<1>4. U \ {x} \notin T
  <2>1. <<U \ {x}, U>> \in StrictSubsetOrdering(S)
    BY DEF StrictSubsetOrdering
  <2> QED
    BY <1>2, <2>1
<1>5. CASE U \ {x} = {}
  BY <1>5
<1>6. CASE U \ {x} # {}
  <2>1. PICK m \in U \ {x} : \A y \in U \ {x} : m >= y
    BY <1>4, <1>6
  <2>2. CASE m >= x
    BY <2>1, <2>2
  <2>3. CASE ~(m >= x)
    BY <2>1, <2>3
  <2> QED
    BY <2>2, <2>3
<1> QED
  BY <1>5, <1>6

\* Numbers up to a bound are finitely many.
LEMMA BoundedHasMax ==
    ASSUME NEW n \in Nat, NEW S \in SUBSET (1..n), S # {}
    PROVE  \E x \in S : \A y \in S : x >= y
<1>1. IsFiniteSet(1..n)
  BY FS_Interval
<1>2. IsFiniteSet(S) /\ S \in SUBSET Int
  <2>1. 1..n \subseteq Int
    OBVIOUS
  <2> QED
    BY <1>1, <2>1, FS_Subset
<1> QED
  BY <1>2, MaxExists

\* LoadQueue's plan has a newest form.
LEMMA MaxOfPlan ==
    ASSUME NEW S \in SUBSET Forms, S # {}
    PROVE  Max(S) \in S
<1>1. S \in SUBSET Int /\ IsFiniteSet(S)
  BY OfflineAssumption, FS_Subset, FS_CardinalityType
<1>2. \E x \in S : \A y \in S : x >= y
  BY <1>1, MaxExists
<1> QED
  BY <1>2 DEF Max

\* A sync that is not done has a current item.
LEMMA CurrentIsToDo ==
    ASSUME TypeOK, NEW s \in Syncs, todo[s] # {}
    PROVE  Current(s) \in todo[s]
<1> DEFINE ids == {i.id : i \in todo[s]}
<1>1. ids \in SUBSET (1..MaxItems) /\ ids # {}
  BY DEF TypeOK, Items
<1>2. PICK x \in ids : \A y \in ids : x >= y
  BY <1>1, BoundedHasMax, OfflineAssumption
<1>3. PICK i \in todo[s] : i.id = x
  BY <1>2
<1>4. \A j \in todo[s] : j.id <= i.id
  BY <1>1, <1>2, <1>3
<1> QED
  BY <1>4 DEF Current

\* Of fewer entries more are among the newest.
LEMMA NewestOfFewer ==
    ASSUME TypeOK, NEW S \in SUBSET Forms, NEW T \in SUBSET S, NEW f \in T, f \in Newest(S)
    PROVE  f \in Newest(T)
<1> DEFINE A == {x \in S : x > f}
           B == {x \in T : x > f}
<1>1. IsFiniteSet(A) /\ B \in SUBSET A
  BY OfflineAssumption, FS_Subset
<1>2. Cardinality(B) <= Cardinality(A) /\ Cardinality(A) \in Nat /\ Cardinality(B) \in Nat
  BY <1>1, FS_Subset, FS_CardinalityType
<1>3. world.room \in Nat /\ Cardinality(A) < world.room
  BY OfflineAssumption DEF TypeOK, Newest
<1>4. Cardinality(B) < world.room
  BY <1>2, <1>3
<1> QED
  BY <1>4 DEF Newest

\* Two keys of a form are two in number.
LEMMA TwoKeysCount ==
    ASSUME NEW S \in SUBSET Keys, NEW k \in S, NEW l \in S, k # l
    PROVE  Cardinality(S) >= 2
<1>1. IsFiniteSet(Keys)
  <2> DEFINE n == Cardinality(Forms)
  <2>1. n \in Nat /\ Forms = 1..n
    BY OfflineAssumption, FS_CardinalityType
  <2> HIDE DEF n
  <2>2. IsFiniteSet((-n)..MaxItems)
    BY <2>1, OfflineAssumption, FS_Interval
  <2>3. Keys \in SUBSET ((-n)..MaxItems)
    BY <2>1, OfflineAssumption DEF Keys
  <2> QED
    BY <2>2, <2>3, FS_Subset
<1>2. IsFiniteSet(S)
  BY <1>1, FS_Subset
<1>3. Cardinality({k} \cup {l}) = 2
  <2>1. IsFiniteSet({k}) /\ Cardinality({k}) = 1
    BY FS_Singleton
  <2>2. l \notin {k}
    OBVIOUS
  <2> DEFINE K == {k}
  <2> HIDE DEF K
  <2>3. Cardinality(K \cup {l}) = Cardinality(K) + 1
    BY <2>1, <2>2, FS_AddElement DEF K
  <2> QED
    BY <2>1, <2>3 DEF K
<1>4. Cardinality({k} \cup {l}) <= Cardinality(S) /\ Cardinality(S) \in Nat
  BY <1>2, FS_Subset, FS_CardinalityType
<1> QED
  BY <1>3, <1>4

(***************************************************************************)
(* What the steps do to the keys.                                          *)
(***************************************************************************)

\* The request a sender may have left.
Left(W, q) == IF q.by \in W THEN [q EXCEPT !.by = NoOne] ELSE q

\* But for its sender a request is what it was.
LEMMA LeftIsSame ==
    ASSUME TypeOK, NEW W, NEW r \in Orphaned(W)
    PROVE  \E q \in net : /\ r = Left(W, q) /\ q \in Requests /\ r \in Requests
                          /\ r.key = q.key /\ r.form = q.form /\ r.ev = q.ev
                          /\ r.st = q.st /\ r.code = q.code
                          /\ q.by \in W => r.by = NoOne
                          /\ q.by \notin W => r = q
<1>1. PICK q \in net : r = Left(W, q)
  BY DEF Orphaned, Left
<1>2. q \in Requests
  BY DEF TypeOK
<1> QED
  BY <1>1, <1>2 DEF Left, Requests, Senders

LEMMA NoneLeft == Orphaned({}) = net
BY DEF Orphaned

\* Steps that make no item and send no request: some items and requests go,
\* some requests lose their sender.
LEMMA QuietKeepsKeys ==
    ASSUME TypeOK, KeyPart, NEW W, net' \subseteq Orphaned(W), Queued' \subseteq Queued,
           UNCHANGED <<made, keys, server>>
    PROVE  /\ KeyPart'
           /\ \A f \in Forms : \A k \in keys[f] : Grounds(k, f) => Grounds(k, f)'
<1>1. \A r \in net' : \E q \in net :
          /\ r = Left(W, q) /\ r.key = q.key /\ r.form = q.form /\ r.ev = q.ev
          /\ r.st = q.st /\ r.code = q.code
  BY LeftIsSame
<1>2. Numbered' /\ KeysApart' /\ CommitsNamed'
  BY DEF KeyPart, Numbered, KeysApart, CommitsNamed, server
<1>3. RequestsNamed'
  BY <1>1 DEF KeyPart, RequestsNamed
<1>4. ClaimsHold' /\ OneCommitPerKey'
  <2>1. \A r \in net' : r.st = "running" => \E q \in net : q.st = "running" /\ r.key = q.key /\ r.ev = q.ev
    BY <1>1
  <2>2. \A r, q \in net' : r.st = "running" /\ q.st = "running" /\ q.key = r.key => q = r
    BY <1>1 DEF KeyPart, OneCommitPerKey
  <2> QED
    BY <2>1, <2>2 DEF KeyPart, ClaimsHold, OneCommitPerKey, server
<1>5. OkIsStored'
  BY <1>1 DEF KeyPart, OkIsStored, Stored, server
<1>6. \A f, k : Grounds(k, f) => Grounds(k, f)'
  <2> SUFFICES ASSUME NEW f, NEW k, Dead(k, f)
               PROVE  Dead(k, f)'
    BY DEF Grounds, TwoKeys, PhotosUsed, server
  <2>1. PICK ev \in {"none", "recovered"} :
          /\ \A i \in Queued : i.id = k => i.ev = ev
          /\ \A r \in net : r.key = k => r.ev = ev
          /\ \E c \in known : Proof(c) = Proof([form |-> f, ev |-> ev])
    BY DEF Dead
  <2>2. \A r \in net' : r.key = k => r.ev = ev
    BY <1>1, <2>1
  <2> QED
    BY <2>1, <2>2 DEF Dead, server
<1>7. RefusalsExcused'
  BY <1>1, <1>6 DEF KeyPart, RefusalsExcused
<1> QED
  BY <1>2, <1>3, <1>4, <1>5, <1>6, <1>7 DEF KeyPart

\* A new item has a new number, and so a new key.
LEMMA EnqueueKeepsKeys ==
    ASSUME TypeOK, KeyPart, NEW f \in Forms, NEW e \in Evidence,
           Queued' \subseteq Queued \cup {[id |-> made + 1, form |-> f, ev |-> e]},
           made' = made + 1, UNCHANGED <<net, keys, server>>
    PROVE  /\ KeyPart'
           /\ \A g \in Forms : \A k \in keys[g] : Grounds(k, g) => Grounds(k, g)'
<1> DEFINE n == made + 1
           new == [id |-> n, form |-> f, ev |-> e]
<1>1. made \in Int /\ n > made /\ made' = n
  BY DEF TypeOK
<1>2. /\ \A i \in Queued : i.id <= made /\ i.id \in Int
      /\ \A g \in Forms : \A k \in keys[g] : k <= made /\ k \in Int /\ (k < 0 => k = -g)
  <2>1. \A i \in Queued : i.id \in Int
    BY OfflineAssumption DEF TypeOK, Queued, Items
  <2>2. \A k \in Keys : k \in Int
    BY OfflineAssumption, FS_CardinalityType DEF Keys
  <2>3. \A g \in Forms : keys[g] \subseteq Keys
    BY DEF TypeOK
  <2> QED
    BY <2>1, <2>2, <2>3 DEF KeyPart, Numbered
<1>3. \A i \in Queued' : (i \in Queued /\ i.id # n) \/ i = new
  BY <1>1, <1>2
<1>4. new.id = n /\ new.form = f /\ new.ev = e
  OBVIOUS
<1>5. \A g \in Forms : n \notin keys[g]
  BY <1>1, <1>2
<1> HIDE DEF new, n
<1>6. Numbered'
  BY <1>1, <1>2, <1>3, <1>4 DEF Numbered
<1>7. KeysApart'
  BY <1>3, <1>4, <1>5 DEF KeyPart, KeysApart
<1>8. \A r \in net : r.form \in Forms /\ r.key # n
  BY <1>5 DEF KeyPart, RequestsNamed, TypeOK, Requests
<1>9. RequestsNamed'
  BY <1>3, <1>4, <1>8 DEF KeyPart, RequestsNamed
<1>10. CommitsNamed' /\ OneCommitPerKey' /\ ClaimsHold' /\ OkIsStored'
  BY DEF KeyPart, CommitsNamed, OneCommitPerKey, ClaimsHold, OkIsStored, Stored, server
<1>11. \A g \in Forms : \A k \in keys[g] : Grounds(k, g) => Grounds(k, g)'
  <2> SUFFICES ASSUME NEW g \in Forms, NEW k \in keys[g], Dead(k, g)
               PROVE  Dead(k, g)'
    BY DEF Grounds, TwoKeys, PhotosUsed, server
  <2>1. PICK ev \in {"none", "recovered"} :
          /\ \A i \in Queued : i.id = k => i.ev = ev
          /\ \A r \in net : r.key = k => r.ev = ev
          /\ \E c \in known : Proof(c) = Proof([form |-> g, ev |-> ev])
    BY DEF Dead
  <2>2. \A i \in Queued' : i.id = k => i.ev = ev
    BY <1>3, <1>4, <1>5, <2>1
  <2> QED
    BY <2>1, <2>2 DEF Dead, server
<1>12. RefusalsExcused'
  BY <1>8, <1>11 DEF KeyPart, RefusalsExcused, RequestsNamed
<1> QED
  BY <1>6, <1>7, <1>9, <1>10, <1>11, <1>12 DEF KeyPart

\* A submit handler sends its form under a key nobody has.
LEMMA SubmitKeepsKeys ==
    ASSUME TypeOK, KeyPart, NEW f \in Forms, keys[f] = {}, NEW by, NEW ev \in Evidence,
           Post(by, -f, f, ev), Queued' \subseteq Queued, UNCHANGED <<made, server>>
    PROVE  /\ KeyPart'
           /\ \A g \in Forms : \A k \in keys[g] : Grounds(k, g) => Grounds(k, g)'
<1> DEFINE q == [by |-> by, key |-> -f, form |-> f, ev |-> ev, st |-> "sent", code |-> "none"]
<1>1. /\ net' = net \cup {q} /\ keys' = [keys EXCEPT ![f] = @ \cup {-f}]
      /\ q.key = -f /\ q.form = f /\ q.ev = ev /\ q.st = "sent" /\ q.code = "none"
  BY DEF Post
<1> HIDE DEF q
<1>2. /\ keys'[f] = {-f} /\ \A g \in Forms : g # f => keys'[g] = keys[g]
      /\ \A g \in Forms : keys[g] \subseteq keys'[g]
  BY <1>1 DEF TypeOK
<1>3. f \in Int /\ f >= 1 /\ made >= 0 /\ made \in Int
  BY OfflineAssumption, FS_CardinalityType DEF TypeOK
<1>4. \A g \in Forms : -f \notin keys[g]
  <2> SUFFICES ASSUME NEW g \in Forms, -f \in keys[g]
               PROVE  FALSE
    OBVIOUS
  <2>1. -f = -g /\ g \in Int
    BY <1>3, OfflineAssumption DEF KeyPart, Numbered
  <2>2. g = f
    BY <1>3, <2>1
  <2> QED
    BY <2>2
<1>5. \A r \in net : r.form \in Forms /\ r.key # -f
  BY <1>4 DEF KeyPart, RequestsNamed, TypeOK, Requests
<1>6. \A i \in Queued : i.id # -f
  BY <1>3 DEF TypeOK, Queued, Items
<1>7. \A c \in commits : c.key # -f
  BY <1>4 DEF KeyPart, CommitsNamed, TypeOK, Commits
<1>8. Numbered'
  BY <1>2, <1>3 DEF KeyPart, Numbered
<1>9. KeysApart'
  BY <1>2, <1>4, <1>6 DEF KeyPart, KeysApart
<1>10. RequestsNamed'
  BY <1>1, <1>2, <1>5, <1>6 DEF KeyPart, RequestsNamed
<1>11. CommitsNamed'
  BY <1>2 DEF KeyPart, CommitsNamed, TypeOK, Commits, server
<1>12. OneCommitPerKey' /\ ClaimsHold' /\ OkIsStored'
  BY <1>1 DEF KeyPart, OneCommitPerKey, ClaimsHold, OkIsStored, Stored, server
<1>13. \A g \in Forms : \A k \in keys[g] : Grounds(k, g) => Grounds(k, g)'
  <2> SUFFICES ASSUME NEW g \in Forms, NEW k \in keys[g], Dead(k, g)
               PROVE  Dead(k, g)'
    BY <1>2 DEF Grounds, TwoKeys, PhotosUsed, server
  <2>1. PICK e \in {"none", "recovered"} :
          /\ \A i \in Queued : i.id = k => i.ev = e
          /\ \A r \in net : r.key = k => r.ev = e
          /\ \E c \in known : Proof(c) = Proof([form |-> g, ev |-> e])
    BY DEF Dead
  <2>2. \A r \in net' : r.key = k => r.ev = e
    BY <1>1, <1>4, <2>1
  <2> QED
    BY <2>1, <2>2 DEF Dead, server
<1>14. RefusalsExcused'
  BY <1>1, <1>5, <1>13 DEF KeyPart, RefusalsExcused, RequestsNamed
<1> QED
  BY <1>8, <1>9, <1>10, <1>11, <1>12, <1>13, <1>14 DEF KeyPart

\* A sync sends an item under its key; the upload keeps the kind of evidence.
LEMMA SyncPostKeepsKeys ==
    ASSUME TypeOK, KeyPart, NEW by, NEW i \in Queued, NEW ev \in Uploaded(i),
           Post(by, i.id, i.form, ev), Queued' \subseteq Queued \cup {[i EXCEPT !.ev = ev]},
           UNCHANGED <<made, server>>
    PROVE  /\ KeyPart'
           /\ \A g \in Forms : \A k \in keys[g] : Grounds(k, g) => Grounds(k, g)'
<1> DEFINE q == [by |-> by, key |-> i.id, form |-> i.form, ev |-> ev,
                 st |-> "sent", code |-> "none"]
           j == [i EXCEPT !.ev = ev]
           f == i.form
           n == i.id
<1>1. /\ net' = net \cup {q} /\ keys' = [keys EXCEPT ![f] = @ \cup {n}]
      /\ q.key = n /\ q.form = f /\ q.ev = ev /\ q.st = "sent" /\ q.code = "none"
  BY DEF Post
<1>2. i \in Items /\ f \in Forms /\ n \in 1..MaxItems /\ j.id = n /\ j.form = f /\ j.ev = ev
  BY DEF TypeOK, Queued, Items
<1>3. Kind(ev) = Kind(i.ev) /\ (i.ev \in {"none", "recovered"} => ev = i.ev)
  BY <1>2 DEF Uploaded, Kind
<1>4. \A x \in Queued' : x \in Queued \/ x = j
  OBVIOUS
<1> HIDE DEF q, j
<1>5. /\ keys'[f] = keys[f] \cup {n} /\ \A g \in Forms : g # f => keys'[g] = keys[g]
      /\ \A g \in Forms : keys[g] \subseteq keys'[g]
  BY <1>1, <1>2 DEF TypeOK
<1>6. \A x \in Queued : x.id = n => x.form = f /\ Kind(x.ev) = Kind(ev)
  BY <1>3 DEF KeyPart, KeysApart
<1>7. \A g \in Forms : n \in keys[g] => g = f
  BY DEF KeyPart, KeysApart
<1>8. \A r \in net : r.key = n => r.form = f /\ Kind(r.ev) = Kind(ev)
  BY <1>3, <1>7 DEF KeyPart, RequestsNamed, TypeOK, Requests
<1>9. Numbered'
  <2>1. n <= made /\ ~(n < 0)
    BY <1>2, OfflineAssumption DEF KeyPart, Numbered
  <2> QED
    BY <1>2, <1>4, <1>5, <2>1 DEF KeyPart, Numbered
<1>10. KeysApart'
  <2>1. \A x, y \in Queued' : x.id = y.id => x.form = y.form /\ Kind(x.ev) = Kind(y.ev)
    BY <1>2, <1>4, <1>6 DEF KeyPart, KeysApart
  <2>2. \A x \in Queued' : \A g \in Forms : x.id \in keys'[g] => x.form = g
    BY <1>2, <1>4, <1>5, <1>6, <1>7 DEF KeyPart, KeysApart
  <2>3. \A g, h \in Forms : \A k \in keys'[g] \cap keys'[h] : g = h
    BY <1>5, <1>7 DEF KeyPart, KeysApart
  <2> QED
    BY <2>1, <2>2, <2>3 DEF KeysApart
<1>11. RequestsNamed'
  <2> SUFFICES ASSUME NEW r \in net'
               PROVE  /\ r.key \in keys'[r.form]
                      /\ \A x \in Queued' : x.id = r.key => Kind(x.ev) = Kind(r.ev)
                      /\ \A p \in net' : p.key = r.key => Kind(p.ev) = Kind(r.ev)
    BY DEF RequestsNamed
  <2>1. CASE r = q
    BY <1>1, <1>2, <1>4, <1>5, <1>6, <1>8, <2>1
  <2>2. CASE r \in net
    <3>1. r.key \in keys'[r.form]
      BY <1>5, <2>2 DEF KeyPart, RequestsNamed, TypeOK, Requests
    <3>2. \A x \in Queued' : x.id = r.key => Kind(x.ev) = Kind(r.ev)
      BY <1>2, <1>4, <1>8, <2>2 DEF KeyPart, RequestsNamed
    <3>3. \A p \in net' : p.key = r.key => Kind(p.ev) = Kind(r.ev)
      BY <1>1, <1>8, <2>2 DEF KeyPart, RequestsNamed
    <3> QED
      BY <3>1, <3>2, <3>3
  <2> QED
    BY <1>1, <2>1, <2>2
<1>12. CommitsNamed'
  BY <1>5 DEF KeyPart, CommitsNamed, TypeOK, Commits, server
<1>13. OneCommitPerKey' /\ ClaimsHold' /\ OkIsStored'
  BY <1>1 DEF KeyPart, OneCommitPerKey, ClaimsHold, OkIsStored, Stored, server
<1>14. \A g \in Forms : \A k \in keys[g] : Grounds(k, g) => Grounds(k, g)'
  <2> SUFFICES ASSUME NEW g \in Forms, NEW k \in keys[g], Dead(k, g)
               PROVE  Dead(k, g)'
    BY <1>5 DEF Grounds, TwoKeys, PhotosUsed, server
  <2>1. PICK e \in {"none", "recovered"} :
          /\ \A x \in Queued : x.id = k => x.ev = e
          /\ \A r \in net : r.key = k => r.ev = e
          /\ \E c \in known : Proof(c) = Proof([form |-> g, ev |-> e])
    BY DEF Dead
  <2>2. n = k => ev = e
    BY <1>3, <2>1
  <2>3. /\ \A r \in net' : r.key = k => r.ev = e
        /\ \A x \in Queued' : x.id = k => x.ev = e
    BY <1>1, <1>2, <1>4, <2>1, <2>2
  <2> QED
    BY <2>1, <2>3 DEF Dead, server
<1>15. RefusalsExcused'
  BY <1>1, <1>14 DEF KeyPart, RefusalsExcused, RequestsNamed, TypeOK, Requests
<1> QED
  BY <1>9, <1>10, <1>11, <1>12, <1>13, <1>14, <1>15 DEF KeyPart

(***************************************************************************)
(* What the server does to the keys.                                       *)
(***************************************************************************)

\* An answer goes to the sender, if there is one.
LEMMA AnswerIs ==
    ASSUME TypeOK, NEW r \in net, NEW code \in Codes, Answer(r, code)
    PROVE  \A x \in net' : \/ x \in net /\ x # r
                           \/ /\ x \in Requests /\ x.st = "answered" /\ x.code = code
                              /\ x.by = r.by /\ x.key = r.key /\ x.form = r.form /\ x.ev = r.ev
BY ZenonT(60) DEF Answer, TypeOK, Requests

LEMMA AnswerKeepsKeys ==
    ASSUME TypeOK, KeyPart, NEW r \in net, NEW code \in Codes, Answer(r, code),
           code = "ok" => Stored(r.form), code = "invalid" => Grounds(r.key, r.form),
           \/ claim' = claim
           \/ r.st = "running" /\ claim' = [claim EXCEPT ![r.key] = NoClaim],
           Queued' = Queued, UNCHANGED <<made, keys, commits, known, lost>>
    PROVE  /\ KeyPart'
           /\ \A f \in Forms : \A k \in keys[f] : Grounds(k, f) => Grounds(k, f)'
<1>1. \A x \in net' : \E y \in net : x.key = y.key /\ x.form = y.form /\ x.ev = y.ev
  BY AnswerIs
<1>2. Numbered' /\ KeysApart' /\ CommitsNamed'
  BY DEF KeyPart, Numbered, KeysApart, CommitsNamed
<1>3. RequestsNamed'
  BY <1>1 DEF KeyPart, RequestsNamed
<1>4. OkIsStored'
  BY AnswerIs DEF KeyPart, OkIsStored, Stored
<1>5. \A x \in net' : x.st = "running" => x \in net /\ x # r
  BY AnswerIs
<1>6. OneCommitPerKey'
  BY <1>5 DEF KeyPart, OneCommitPerKey
<1>7. ClaimsHold'
  <2>1. CASE claim' = claim
    BY <1>5, <2>1 DEF KeyPart, ClaimsHold
  <2>2. CASE r.st = "running" /\ claim' = [claim EXCEPT ![r.key] = NoClaim]
    <3>1. /\ r.key \in Keys /\ claim'[r.key] = NoClaim /\ NoClaim.st # "completed"
          /\ \A k \in Keys \ {r.key} : claim'[k] = claim[k]
      BY <2>2 DEF TypeOK, Requests, NoClaim
    <3>2. \A x \in net' : x.st = "running" => x.key # r.key /\ x.key \in Keys
      BY <1>5, <2>2 DEF KeyPart, OneCommitPerKey, TypeOK, Requests
    <3>3. \A x \in net' : x.st = "running" => claim'[x.key] = [st |-> "processing", ev |-> x.ev]
      BY <1>5, <3>1, <3>2 DEF KeyPart, ClaimsHold
    <3>4. \A k \in Keys : claim'[k].st = "completed" => \E c \in commits : c.key = k
      BY <3>1 DEF KeyPart, ClaimsHold
    <3>5. \A c \in commits : claim'[c.key].st # "completed" => c.key \in lost
      <4>1. \A c \in commits : c.key \in Keys /\ (c.key = r.key => c.key \in lost)
        BY <2>2 DEF KeyPart, OneCommitPerKey, TypeOK, Commits
      <4> QED
        BY <3>1, <4>1 DEF KeyPart, ClaimsHold
    <3> QED
      BY <3>3, <3>4, <3>5 DEF ClaimsHold
  <2> QED
    BY <2>1, <2>2
<1>8. \A f, k : Grounds(k, f) => Grounds(k, f)'
  <2> SUFFICES ASSUME NEW f, NEW k, Dead(k, f)
               PROVE  Dead(k, f)'
    BY DEF Grounds, TwoKeys, PhotosUsed
  <2>1. PICK ev \in {"none", "recovered"} :
          /\ \A i \in Queued : i.id = k => i.ev = ev
          /\ \A x \in net : x.key = k => x.ev = ev
          /\ \E c \in known : Proof(c) = Proof([form |-> f, ev |-> ev])
    BY DEF Dead
  <2>2. \A x \in net' : x.key = k => x.ev = ev
    BY <1>1, <2>1
  <2> QED
    BY <2>1, <2>2 DEF Dead
<1>9. RefusalsExcused'
  BY <1>8, AnswerIs DEF KeyPart, RefusalsExcused
<1> QED
  BY <1>2, <1>3, <1>4, <1>6, <1>7, <1>8, <1>9 DEF KeyPart

\* The claim of a key that has no row.
LEMMA RunKeepsKeys ==
    ASSUME TypeOK, KeyPart, NEW r \in net, r.st = "sent", claim[r.key].st = "none", Claim(r),
           Queued' = Queued, UNCHANGED <<made, keys, commits, known, lost>>
    PROVE  /\ KeyPart'
           /\ \A f \in Forms : \A k \in keys[f] : Grounds(k, f) => Grounds(k, f)'
<1> DEFINE p == [r EXCEPT !.st = "running"]
<1>1. /\ p.key = r.key /\ p.form = r.form /\ p.ev = r.ev /\ p.st = "running" /\ p.code = r.code
      /\ r.key \in Keys
  BY DEF TypeOK, Requests
<1>2. \A x \in net' : (x \in net /\ x # r) \/ x = p
  BY DEF Claim
<1> HIDE DEF p
<1>3. \A x \in net' : \E y \in net :
          x.key = y.key /\ x.form = y.form /\ x.ev = y.ev /\ x.code = y.code
  BY <1>1, <1>2
<1>4. Numbered' /\ KeysApart' /\ CommitsNamed'
  BY DEF KeyPart, Numbered, KeysApart, CommitsNamed
<1>5. RequestsNamed' /\ OkIsStored'
  BY <1>3 DEF KeyPart, RequestsNamed, OkIsStored, Stored
<1>6. /\ claim'[r.key] = [st |-> "processing", ev |-> r.ev]
      /\ \A k \in Keys \ {r.key} : claim'[k] = claim[k]
  BY <1>1 DEF Claim, TypeOK
<1>7. /\ \A x \in net : x.st = "running" => x.key # r.key /\ x.key \in Keys
      /\ \A c \in commits : c.key \in Keys /\ (c.key = r.key => c.key \in lost)
  <2>1. ClaimsHold
    BY DEF KeyPart
  <2>2. \A x \in net : x.key \in Keys
    BY DEF TypeOK, Requests
  <2>3. ASSUME NEW x \in net, x.st = "running"
        PROVE  x.key # r.key
    <3>1. claim[x.key] = [st |-> "processing", ev |-> x.ev]
      BY <2>1, <2>3 DEF ClaimsHold
    <3>2. claim[x.key].st = "processing"
      BY <3>1
    <3> QED
      BY <3>2
  <2>4. \A c \in commits : c.key \in Keys
    BY DEF TypeOK, Commits
  <2>5. \A c \in commits : c.key = r.key => c.key \in lost
    BY <2>1 DEF ClaimsHold
  <2> QED
    BY <2>2, <2>3, <2>4, <2>5
<1>8. OneCommitPerKey'
  BY <1>1, <1>2, <1>7 DEF KeyPart, OneCommitPerKey
<1>9. ClaimsHold'
  <2>1. \A x \in net' : x.st = "running" => claim'[x.key] = [st |-> "processing", ev |-> x.ev]
    BY <1>1, <1>2, <1>6, <1>7 DEF KeyPart, ClaimsHold
  <2>2. \A k \in Keys : claim'[k].st = "completed" => \E c \in commits : c.key = k
    BY <1>6 DEF KeyPart, ClaimsHold
  <2>3. \A c \in commits : claim'[c.key].st # "completed" => c.key \in lost
    BY <1>6, <1>7 DEF KeyPart, ClaimsHold
  <2> QED
    BY <2>1, <2>2, <2>3 DEF ClaimsHold
<1>10. \A f, k : Grounds(k, f) => Grounds(k, f)'
  <2> SUFFICES ASSUME NEW f, NEW k, Dead(k, f)
               PROVE  Dead(k, f)'
    BY DEF Grounds, TwoKeys, PhotosUsed
  <2>1. PICK ev \in {"none", "recovered"} :
          /\ \A i \in Queued : i.id = k => i.ev = ev
          /\ \A x \in net : x.key = k => x.ev = ev
          /\ \E c \in known : Proof(c) = Proof([form |-> f, ev |-> ev])
    BY DEF Dead
  <2>2. \A x \in net' : x.key = k => x.ev = ev
    BY <1>3, <2>1
  <2> QED
    BY <2>1, <2>2 DEF Dead
<1>11. RefusalsExcused'
  BY <1>3, <1>10 DEF KeyPart, RefusalsExcused
<1> QED
  BY <1>4, <1>5, <1>8, <1>9, <1>10, <1>11 DEF KeyPart

\* A commit, answered or not: its key is no dead one.
LEMMA CommitKeepsKeys ==
    ASSUME TypeOK, KeyPart, NEW r \in net, r.st = "running", Accepts(r),
           NEW code \in {"ok", "overload"}, Answer(r, code),
           commits' = commits \cup {CommitOf(r)}, known \subseteq known',
           NEW row \in Claims, claim' = [claim EXCEPT ![r.key] = row],
           lost' \in {lost, lost \cup {r.key}},
           row.st # "completed" => r.key \in lost',
           Queued' = Queued, UNCHANGED <<made, keys>>
    PROVE  /\ KeyPart'
           /\ \A f \in Forms : \A k \in keys[f] : Grounds(k, f) => Grounds(k, f)'
<1> DEFINE d == CommitOf(r)
<1>1. d.key = r.key /\ d.form = r.form /\ d.ev = r.ev /\ commits' = commits \cup {d}
  BY DEF CommitOf
<1> HIDE DEF d
<1>2. /\ r.form \in Forms /\ r.key \in keys[r.form] /\ r.form \notin Invalid /\ r.key \in Keys
      /\ code \in Codes
  BY DEF TypeOK, Requests, KeyPart, RequestsNamed, Accepts, Codes
<1>3. \A x \in net' : \/ x \in net /\ x # r
                      \/ /\ x.st = "answered" /\ x.code = code
                         /\ x.key = r.key /\ x.form = r.form /\ x.ev = r.ev
  BY <1>2, AnswerIs
<1>4. \A x \in net' : \E y \in net : x.key = y.key /\ x.form = y.form /\ x.ev = y.ev
  BY <1>3
<1>5. Numbered' /\ KeysApart'
  BY DEF KeyPart, Numbered, KeysApart
<1>6. CommitsNamed'
  BY <1>1, <1>2 DEF KeyPart, CommitsNamed
<1>7. \A c \in commits : c.key \in Keys /\ (c.key = r.key => r.key \in lost)
  BY DEF KeyPart, OneCommitPerKey, TypeOK, Commits
<1>8. \A x \in net' : x.st = "running" => x \in net /\ x.key # r.key /\ x.key \in Keys
  BY <1>3 DEF KeyPart, OneCommitPerKey, TypeOK, Requests
<1>9. lost \subseteq lost'
  OBVIOUS
<1>10. OneCommitPerKey'
  <2>1. \A b, c \in commits' : b.key = c.key /\ b # c => b.key \in lost'
    BY <1>1, <1>7, <1>9 DEF KeyPart, OneCommitPerKey
  <2>2. \A x \in net' : x.st = "running" =>
          /\ \A q \in net' : q.st = "running" /\ q.key = x.key => q = x
          /\ \A c \in commits' : c.key = x.key => x.key \in lost'
    BY <1>1, <1>8, <1>9 DEF KeyPart, OneCommitPerKey
  <2> QED
    BY <2>1, <2>2 DEF OneCommitPerKey
<1>11. /\ claim'[r.key] = row
       /\ \A k \in Keys \ {r.key} : claim'[k] = claim[k]
  BY <1>2 DEF TypeOK
<1>12. ClaimsHold'
  <2>1. \A x \in net' : x.st = "running" => claim'[x.key] = [st |-> "processing", ev |-> x.ev]
    BY <1>8, <1>11 DEF KeyPart, ClaimsHold
  <2>2. \A k \in Keys : claim'[k].st = "completed" => \E c \in commits' : c.key = k
    BY <1>1, <1>11 DEF KeyPart, ClaimsHold
  <2>3. \A c \in commits' : claim'[c.key].st # "completed" => c.key \in lost'
    BY <1>1, <1>7, <1>9, <1>11 DEF KeyPart, ClaimsHold
  <2> QED
    BY <2>1, <2>2, <2>3 DEF ClaimsHold
<1>13. RequestsNamed'
  BY <1>4 DEF KeyPart, RequestsNamed
<1>14. \A f : Stored(f) => Stored(f)'
  BY <1>1 DEF Stored
<1>15. OkIsStored'
  <2>1. Stored(r.form)'
    BY <1>1 DEF Stored
  <2> QED
    BY <1>3, <1>14, <2>1 DEF KeyPart, OkIsStored
<1>16. \A f \in Forms : \A k \in keys[f] : Grounds(k, f) => Grounds(k, f)'
  <2> SUFFICES ASSUME NEW f \in Forms, NEW k \in keys[f], Dead(k, f)
               PROVE  Dead(k, f)'
    BY <1>1, <1>9 DEF Grounds, TwoKeys, PhotosUsed
  <2>1. PICK ev \in {"none", "recovered"} :
          /\ \A i \in Queued : i.id = k => i.ev = ev
          /\ \A x \in net : x.key = k => x.ev = ev
          /\ \E c \in known : Proof(c) = Proof([form |-> f, ev |-> ev])
    BY DEF Dead
  <2>2. \A x \in net' : x.key = k => x.ev = ev
    BY <1>4, <2>1
  <2>3. r.key # k
    <3> SUFFICES ASSUME r.key = k PROVE FALSE
      OBVIOUS
    <3>1. r.form = f /\ f \notin Transfers /\ r.ev = ev
      BY <1>2, <2>1 DEF KeyPart, KeysApart, Dead
    <3>2. Proof(r) = Proof([form |-> f, ev |-> ev])
      BY <3>1 DEF Proof
    <3> QED
      BY <2>1, <3>1, <3>2 DEF Accepts
  <2>4. \A c \in commits' : c.key # k
    BY <1>1, <2>3 DEF Dead
  <2>5. \E c \in known' : Proof(c) = Proof([form |-> f, ev |-> ev])
    BY <2>1
  <2> QED
    BY <2>1, <2>2, <2>4, <2>5 DEF Dead
<1>17. RefusalsExcused'
  <2> SUFFICES ASSUME NEW x \in net', x.code = "invalid"
               PROVE  Grounds(x.key, x.form)'
    BY DEF RefusalsExcused
  <2>1. x \in net /\ x.form \in Forms /\ x.key \in keys[x.form]
    BY <1>3 DEF TypeOK, Requests, KeyPart, RequestsNamed
  <2> QED
    BY <1>16, <2>1 DEF KeyPart, RefusalsExcused
<1> QED
  BY <1>5, <1>6, <1>10, <1>12, <1>13, <1>15, <1>16, <1>17 DEF KeyPart

\* A request that ends without an answer from its handler.
Ended(q) == [q EXCEPT !.st = "answered", !.code = "overload"]

LEMMA RestartedIs ==
    ASSUME TypeOK, ServerRestart
    PROVE  \A x \in net' : \E y \in net :
              /\ x.by = y.by /\ x.key = y.key /\ x.form = y.form /\ x.ev = y.ev
              /\ x.st # "running" /\ x \in Requests
              /\ IF y.st = "running" THEN x = Ended(y) /\ x.code = "overload" ELSE x = y
<1> SUFFICES ASSUME NEW x \in net'
             PROVE  \E y \in net :
              /\ x.by = y.by /\ x.key = y.key /\ x.form = y.form /\ x.ev = y.ev
              /\ x.st # "running" /\ x \in Requests
              /\ IF y.st = "running" THEN x = Ended(y) /\ x.code = "overload" ELSE x = y
  OBVIOUS
<1>1. CASE x \in net /\ x.st # "running"
  BY <1>1 DEF TypeOK
<1>2. ASSUME NEW y \in net, y.st = "running", x = Ended(y)
      PROVE  /\ x.by = y.by /\ x.key = y.key /\ x.form = y.form /\ x.ev = y.ev
             /\ x.st # "running" /\ x.code = "overload" /\ x \in Requests
  <2>1. y \in Requests
    BY DEF TypeOK
  <2> QED
    BY <1>2, <2>1 DEF Ended, Requests, Codes
<1>3. (x \in net /\ x.st # "running") \/ \E y \in net : y.st = "running" /\ x = Ended(y)
  BY DEF ServerRestart, Ended
<1> QED
  BY <1>1, <1>2, <1>3

\* A restart of the server: nothing runs, every row stays.
LEMMA ServerRestartKeepsKeys ==
    ASSUME TypeOK, KeyPart, ServerRestart, Queued' = Queued
    PROVE  /\ KeyPart'
           /\ \A f \in Forms : \A k \in keys[f] : Grounds(k, f) => Grounds(k, f)'
<1>1. UNCHANGED <<made, keys, commits, claim, lost>> /\ known' = commits /\ known \subseteq known'
  BY DEF ServerRestart, TypeOK, device
<1>2. \A x \in net' : \E y \in net :
         x.key = y.key /\ x.form = y.form /\ x.ev = y.ev /\ x.st # "running"
         /\ (x.code = "overload" \/ x = y)
  BY RestartedIs
<1>3. Numbered' /\ KeysApart' /\ CommitsNamed' /\ OneCommitPerKey' /\ ClaimsHold'
  BY <1>1, <1>2 DEF KeyPart, Numbered, KeysApart, CommitsNamed, OneCommitPerKey, ClaimsHold
<1>4. RequestsNamed' /\ OkIsStored'
  BY <1>1, <1>2 DEF KeyPart, RequestsNamed, OkIsStored, Stored
<1>5. \A f, k : Grounds(k, f) => Grounds(k, f)'
  <2> SUFFICES ASSUME NEW f, NEW k, Dead(k, f)
               PROVE  Dead(k, f)'
    BY <1>1 DEF Grounds, TwoKeys, PhotosUsed
  <2>1. PICK ev \in {"none", "recovered"} :
          /\ \A i \in Queued : i.id = k => i.ev = ev
          /\ \A x \in net : x.key = k => x.ev = ev
          /\ \E c \in known : Proof(c) = Proof([form |-> f, ev |-> ev])
    BY DEF Dead
  <2>2. \A x \in net' : x.key = k => x.ev = ev
    BY <1>2, <2>1
  <2>3. \E c \in known' : Proof(c) = Proof([form |-> f, ev |-> ev])
    BY <1>1, <2>1
  <2> QED
    BY <1>1, <2>1, <2>2, <2>3 DEF Dead
<1>6. RefusalsExcused'
  BY <1>2, <1>5 DEF KeyPart, RefusalsExcused
<1> QED
  BY <1>3, <1>4, <1>5, <1>6 DEF KeyPart

\* A refusal by the rules, by what is stored or by the evidence has its grounds.
LEMMA RefusalIsExcused ==
    ASSUME TypeOK, KeyPart, NEW r \in net, r.st = "running", ~Accepts(r)
    PROVE  Grounds(r.key, r.form)
<1>1. /\ r.form \in Forms /\ r.key \in keys[r.form] /\ r.ev \in Evidence
      /\ known \subseteq commits
      /\ \A c \in commits : c.key = r.key => r.key \in lost
  BY DEF TypeOK, Requests, KeyPart, RequestsNamed, OneCommitPerKey
<1>2. \A c \in commits : c.form = r.form => TwoKeys(r.form) \/ r.key \in lost
  BY <1>1 DEF TwoKeys, KeyPart, CommitsNamed
<1>3. CASE r.form \in Invalid
  BY <1>3 DEF Grounds
<1>4. CASE r.form \notin Invalid /\ r.form \in Transfers
  BY <1>1, <1>2, <1>4 DEF Accepts, Grounds
<1>5. CASE r.form \notin Invalid /\ r.form \notin Transfers
  <2>1. PICK c \in known : Proof(c) = Proof(r)
    BY <1>5 DEF Accepts
  <2>2. c \in commits /\ c.form \in Forms /\ r.form # 0 /\ c.form # 0
    BY <1>1, OfflineAssumption, FS_CardinalityType DEF TypeOK, Commits
  <2>3. CASE r.ev \in {"none", "recovered"}
    <3>1. /\ \A i \in Queued : i.id = r.key => i.ev = r.ev
          /\ \A q \in net : q.key = r.key => q.ev = r.ev
      BY <2>3 DEF KeyPart, RequestsNamed, Kind
    <3>2. Proof(c) = Proof([form |-> r.form, ev |-> r.ev])
      BY <2>1 DEF Proof
    <3> QED
      BY <1>1, <1>5, <2>1, <2>3, <3>1, <3>2 DEF Grounds, Dead
  <2>4. CASE r.ev \notin {"none", "recovered"}
    <3>1. Proof(r) = <<IF r.form \in Stock THEN 0 ELSE r.form, r.ev>>
      BY <2>4 DEF Proof
    <3>2. c.ev = r.ev /\ Proof(c) = <<IF c.form \in Stock THEN 0 ELSE c.form, c.ev>>
      BY <2>1, <2>4, <3>1 DEF Proof
    <3>3. (r.form \in Stock /\ c.form \in Stock) \/ c.form = r.form
      BY <2>1, <2>2, <3>1, <3>2
    <3> QED
      BY <1>2, <2>2, <3>3 DEF Grounds, PhotosUsed
  <2> QED
    BY <2>3, <2>4
<1> QED
  BY <1>3, <1>4, <1>5

(***************************************************************************)
(* What the steps do to the device.                                        *)
(***************************************************************************)

\* Requests end, lose their sender or stay; a sender that stays goes on waiting.
LEMMA RestOfSendersWait ==
    ASSUME TypeOK, SendersWait, NEW W, net' \subseteq Orphaned(W),
           \A x \in net' :
              /\ x.by \in Forms /\ page[x.by] = "waiting" => page'[x.by] = "waiting"
              /\ x.by \in Syncs /\ todo[x.by] # {} => todo'[x.by] # {}
    PROVE  SendersWait'
<1>1. \A x \in net' : x.by # NoOne => x \in net
  BY LeftIsSame
<1>2. NoOne \notin Forms \cup Syncs
  BY OfflineAssumption
<1> QED
  BY <1>1, <1>2 DEF SendersWait

\* One request takes the place of another of the same sender.
LEMMA ServedStillWait ==
    ASSUME SendersWait, NEW r \in net, NEW p, net' \subseteq (net \ {r}) \cup {p},
           p.by = r.by, p.form = r.form, p.key = r.key, UNCHANGED <<page, todo>>
    PROVE  SendersWait'
BY DEF SendersWait

\* Forms that are new or gone take part in nothing.
LEMMA RestIsUntouched ==
    ASSUME GoneIsGone, NewIsUntouched, fate' = fate,
           \A f \in Forms :
              /\ page[f] = "done" => page'[f] = "done"
              /\ page'[f] = "new" => page[f] = "new"
              /\ history[f] = "absent" =>
                    history'[f] = "absent" \/ (page[f] # "done" /\ page'[f] # "new")
              /\ f \in Planned' => f \in Planned \/ history[f] # "absent"
              /\ page'[f] = "new" => keys'[f] = keys[f] \/ (\E i \in Queued : i.form = f),
           \A i \in Queued' : \/ \E j \in Queued : j.form = i.form
                              \/ page[i.form] = "queueing"
                              \/ i.form \in Planned
    PROVE  GoneIsGone' /\ NewIsUntouched'
<1>1. GoneIsGone'
  BY DEF GoneIsGone
<1>2. NewIsUntouched'
  BY DEF NewIsUntouched
<1> QED
  BY <1>1, <1>2

\* What the history says of a form has a reason.
LEMMA HistoryHasReasons ==
    ASSUME WaitingIsSent, DeliveredIsStored, FailedExcused,
           \A f \in Forms : keys[f] \subseteq keys'[f],
           commits \subseteq commits',
           \A f \in Forms : \A k \in keys[f] : Grounds(k, f) => Grounds(k, f)',
           \A f \in Forms :
              \/ history'[f] \in {history[f], "absent", "PENDING_SYNC"}
              \/ /\ history'[f] = "DONE" /\ Stored(f)
                 /\ page'[f] = "waiting" => TwoKeys(f)
              \/ /\ history'[f] = "FAILED_VALIDATION"
                 /\ \E k \in keys[f] : Grounds(k, f),
           \A f \in Forms : page'[f] = "waiting" =>
              \/ page[f] = "waiting"
              \/ -f \in keys'[f] /\ history'[f] # "DONE"
    PROVE  WaitingIsSent' /\ DeliveredIsStored' /\ FailedExcused'
<1>1. \A f \in Forms : TwoKeys(f) => TwoKeys(f)'
  BY DEF TwoKeys
<1>2. \A f \in Forms : Stored(f) => Stored(f)'
  BY DEF Stored
<1>3. WaitingIsSent'
  BY <1>1 DEF WaitingIsSent
<1>4. DeliveredIsStored'
  BY <1>2 DEF DeliveredIsStored
<1>5. FailedExcused'
  BY DEF FailedExcused
<1> QED
  BY <1>3, <1>4, <1>5

\* No entry is lost but by saving another one.
LEMMA ShownStaysShown ==
    ASSUME TypeOK, NewestIsShown, world' = world, Submitted' = Submitted,
           \A f \in Submitted : fate'[f] = "kept" =>
              fate[f] = "kept" /\ (history[f] # "absent" => history'[f] # "absent")
    PROVE  NewestIsShown'
<1>1. Newest(Submitted)' = Newest(Submitted)
  BY DEF Newest
<1>2. Newest(Submitted) \subseteq Submitted
  BY DEF Newest
<1> QED
  BY <1>1, <1>2 DEF NewestIsShown

\* What saving an entry does to the others.
LEMMA SavedIs ==
    ASSUME TypeOK, NEW f \in Forms, NEW status \in Statuses \ {"absent"},
           history' = Saved(f, status)
    PROVE  /\ history' \in [Forms -> Statuses]
           /\ history'[f] \in {status, "absent"}
           /\ \A g \in Forms \ {f} : history'[g] \in {history[g], "absent"}
           /\ \A S \in SUBSET Forms :
                 f \in S /\ {g \in Forms : history[g] # "absent"} \subseteq S =>
                    \A g \in Newest(S) : g = f \/ history[g] # "absent" => history'[g] # "absent"
<1> DEFINE shown == [history EXCEPT ![f] = status]
           R == {g \in Forms : shown[g] # "absent"}
<1>1. history' = [g \in Forms |-> IF g \in Newest(R) THEN shown[g] ELSE "absent"]
  BY DEF Saved, Kept
<1>2. /\ shown \in [Forms -> Statuses] /\ shown[f] = status
      /\ \A g \in Forms \ {f} : shown[g] = history[g]
  BY DEF TypeOK
<1> HIDE DEF shown
<1>3. history' \in [Forms -> Statuses] /\ history'[f] \in {status, "absent"}
  BY <1>1, <1>2 DEF Statuses
<1>4. \A g \in Forms \ {f} : history'[g] \in {history[g], "absent"}
  BY <1>1, <1>2
<1>5. ASSUME NEW S \in SUBSET Forms, f \in S,
             {g \in Forms : history[g] # "absent"} \subseteq S,
             NEW g \in Newest(S), g = f \/ history[g] # "absent"
      PROVE  history'[g] # "absent"
  <2>1. R \in SUBSET S /\ g \in Forms
    BY <1>2, <1>5 DEF Newest
  <2>2. shown[g] # "absent"
    BY <1>2, <1>5, <2>1
  <2>3. g \in R
    BY <2>1, <2>2
  <2> HIDE DEF R
  <2>4. g \in Newest(R)
    BY <1>5, <2>1, <2>3, NewestOfFewer
  <2> QED
    BY <1>1, <2>1, <2>2, <2>4
<1> QED
  BY <1>3, <1>4, <1>5

\* The newest forms stay in the history when one of them is saved.
LEMMA SavedIsShown ==
    ASSUME TypeOK, NewestIsShown, NewIsUntouched, NEW f \in Submitted',
           NEW status \in Statuses \ {"absent"}, history' = Saved(f, status),
           Submitted' = Submitted \cup {f}, UNCHANGED <<world, fate>>
    PROVE  NewestIsShown'
<1>1. /\ Submitted \subseteq Submitted' /\ Submitted' \in SUBSET Forms /\ f \in Forms
      /\ {g \in Forms : history[g] # "absent"} \subseteq Submitted
  BY DEF Submitted, NewIsUntouched
<1> SUFFICES ASSUME NEW g \in Newest(Submitted'), fate[g] = "kept"
             PROVE  history'[g] # "absent"
  BY DEF NewestIsShown, Newest
<1>2. g = f \/ history[g] # "absent"
  <2>1. CASE g \in Submitted
    <3>1. g \in Newest(Submitted)
      BY <1>1, <2>1, NewestOfFewer
    <3> QED
      BY <3>1 DEF NewestIsShown
  <2>2. CASE g \notin Submitted
    BY <2>2 DEF Newest
  <2> QED
    BY <2>1, <2>2
<1> QED
  BY <1>1, <1>2, SavedIs

LEMMA PersistIs ==
    ASSUME NEW item, Persist(item)
    PROVE  idb' \subseteq idb \cup {item} /\ fallback' \subseteq fallback \cup {item}
BY DEF Persist, WriteFallback, Without

LEMMA DeleteIs ==
    ASSUME NEW item, Delete(item)
    PROVE  idb' \subseteq idb /\ fallback' \subseteq fallback
BY DEF Delete, WriteFallback, Without

(***************************************************************************)
(* The inductive invariant holds at first and after every step.            *)
(***************************************************************************)

LEMMA InitQueue == Init => QueueIInv
<1> SUFFICES ASSUME Init PROVE QueueIInv
  OBVIOUS
<1>1. Queued = {}
  BY DEF Init, Queued
<1>2. TypeOK
  BY OfflineAssumption DEF Init, TypeOK, Statuses, NoClaim, Claims, Evidence
<1>3. KeyPart
  <2>1. net = {} /\ commits = {} /\ \A k \in Keys : claim[k].st = "none"
    BY DEF Init, NoClaim
  <2>2. ClaimsHold
    BY <2>1 DEF ClaimsHold
  <2> QED
    BY <1>1, <2>1, <2>2 DEF Init, KeyPart, Numbered, KeysApart, RequestsNamed, CommitsNamed,
       OneCommitPerKey, OkIsStored, RefusalsExcused
<1>4. DevicePart
  BY <1>1 DEF Init, DevicePart, Planned, SendersWait, WaitingIsSent, DeliveredIsStored, FailedExcused,
     GoneIsGone, NewIsUntouched, NewestIsShown, Newest, Submitted
<1> QED
  BY <1>2, <1>3, <1>4 DEF QueueIInv

LEMMA SubmitKeeps ==
    ASSUME QueueIInv, NEW f \in Forms, Submit(f)
    PROVE  QueueIInv'
<1>1. TypeOK /\ KeyPart /\ DevicePart
  BY DEF QueueIInv
<1>2. /\ page[f] = "new" /\ history' = Saved(f, "PENDING_SYNC")
      /\ UNCHANGED <<world, idb, fallback, idbUp, made, plan, todo, server, fate, faults>>
  BY DEF Submit
<1>3. Queued' = Queued
  BY <1>2 DEF Queued
<1>4. page' \in [Forms -> {"new", "waiting", "queueing", "done"}]
      /\ page'[f] \in {"waiting", "queueing"} /\ \A g \in Forms \ {f} : page'[g] = page[g]
  BY <1>1 DEF Submit, TypeOK
<1>5. "PENDING_SYNC" \in Statuses \ {"absent"}
  BY DEF Statuses
<1>6. /\ history' \in [Forms -> Statuses] /\ history'[f] \in {"PENDING_SYNC", "absent"}
      /\ \A g \in Forms \ {f} : history'[g] \in {history[g], "absent"}
  BY <1>1, <1>2, <1>5, SavedIs
<1>7. keys[f] = {}
  BY <1>1, <1>2 DEF DevicePart, NewIsUntouched
<1>8. CASE page'[f] = "waiting" /\ Post(f, -f, f, OwnEvidence(f))
  <2> DEFINE ev == OwnEvidence(f)
             q == [by |-> f, key |-> -f, form |-> f, ev |-> ev, st |-> "sent", code |-> "none"]
  <2>1. ev \in Evidence
    BY DEF OwnEvidence, Evidence
  <2>2. q \in Requests
    BY <2>1 DEF Requests, Senders, Keys, Codes
  <2>3. net' = net \cup {q} /\ keys' = [keys EXCEPT ![f] = @ \cup {-f}] /\ q.by = f /\ q.form = f
    BY <1>8 DEF Post
  <2> HIDE DEF q
  <2>4. keys' \in [Forms -> SUBSET Keys] /\ keys'[f] = {-f}
        /\ \A g \in Forms \ {f} : keys'[g] = keys[g]
    BY <1>1, <1>7, <2>3 DEF TypeOK, Keys
  <2>5. TypeOK'
    BY <1>1, <1>2, <1>4, <1>6, <2>2, <2>3, <2>4 DEF TypeOK, server
  <2>6. /\ KeyPart'
        /\ \A g \in Forms : \A k \in keys[g] : Grounds(k, g) => Grounds(k, g)'
    BY <1>1, <1>2, <1>3, <1>7, <1>8, <2>1, SubmitKeepsKeys
  <2>7. SendersWait'
    <3>1. \A r \in net : r.by # f
      BY <1>1, <1>2 DEF DevicePart, SendersWait
    <3>2. f \notin Syncs
      BY OfflineAssumption
    <3>3. \A r \in net : r.by \in Forms => page'[r.by] = "waiting"
      BY <1>1, <1>4, <3>1 DEF DevicePart, SendersWait
    <3> QED
      BY <1>1, <1>2, <1>8, <2>3, <3>1, <3>2, <3>3 DEF DevicePart, SendersWait
  <2>8. WaitingIsSent' /\ DeliveredIsStored' /\ FailedExcused'
    <3>1. \A g \in Forms : /\ keys[g] \subseteq keys'[g]
                           /\ history'[g] \in {history[g], "absent", "PENDING_SYNC"}
                           /\ page'[g] = "waiting" =>
                                 page[g] = "waiting" \/ (-g \in keys'[g] /\ history'[g] # "DONE")
      BY <1>4, <1>6, <1>7, <2>4
    <3> QED
      BY <1>1, <1>2, <2>6, <3>1, HistoryHasReasons DEF DevicePart, server
  <2>9. GoneIsGone' /\ NewIsUntouched'
    BY <1>1, <1>2, <1>3, <1>4, <1>6, <2>4, RestIsUntouched DEF DevicePart, Planned
  <2> QED
    <3>1. NewestIsShown'
      BY <1>1, <1>2, <1>4, <1>5, SavedIsShown DEF DevicePart, Submitted
    <3> QED
      BY <2>5, <2>6, <2>7, <2>8, <2>9, <3>1 DEF QueueIInv, DevicePart
<1>9. CASE page'[f] = "queueing" /\ UNCHANGED <<net, keys>>
  <2>1. TypeOK'
    BY <1>1, <1>2, <1>4, <1>6, <1>9 DEF TypeOK, server
  <2>2. /\ KeyPart'
        /\ \A g \in Forms : \A k \in keys[g] : Grounds(k, g) => Grounds(k, g)'
    BY <1>1, <1>2, <1>3, <1>9, NoneLeft, QuietKeepsKeys
  <2>3. SendersWait'
    BY <1>1, <1>2, <1>4, <1>9 DEF DevicePart, SendersWait
  <2>4. WaitingIsSent' /\ DeliveredIsStored' /\ FailedExcused'
    <3>1. \A g \in Forms : /\ history'[g] \in {history[g], "absent", "PENDING_SYNC"}
                           /\ page'[g] = "waiting" => page[g] = "waiting"
      BY <1>4, <1>6, <1>9
    <3> QED
      BY <1>1, <1>2, <1>9, <2>2, <3>1, HistoryHasReasons DEF DevicePart, server
  <2>5. GoneIsGone' /\ NewIsUntouched'
    BY <1>1, <1>2, <1>3, <1>4, <1>6, <1>9, RestIsUntouched DEF DevicePart, Planned
  <2>6. NewestIsShown'
    BY <1>1, <1>2, <1>4, <1>5, SavedIsShown DEF DevicePart, Submitted
  <2> QED
    BY <2>1, <2>2, <2>3, <2>4, <2>5, <2>6 DEF QueueIInv, DevicePart
<1> QED
  <2>1. \/ page' = [page EXCEPT ![f] = "waiting"] /\ Post(f, -f, f, OwnEvidence(f))
        \/ page' = [page EXCEPT ![f] = "queueing"] /\ UNCHANGED <<net, keys>>
    BY DEF Submit
  <2> QED
    BY <1>1, <1>8, <1>9, <2>1 DEF TypeOK

LEMMA SubmitAnsweredKeeps ==
    ASSUME QueueIInv, NEW f \in Forms, SubmitAnswered(f)
    PROVE  QueueIInv'
<1>1. TypeOK /\ KeyPart /\ DevicePart
  BY DEF QueueIInv
<1>2. PICK r \in Calls(f) :
        /\ net' = net \ {r}
        /\ \/ r.code = "ok" /\ history' = Saved(f, "DONE") /\ page' = [page EXCEPT ![f] = "done"]
           \/ UNCHANGED history /\ page' = [page EXCEPT ![f] = "queueing"]
        /\ UNCHANGED <<world, idb, fallback, idbUp, made, plan, todo, server, keys, fate, faults>>
  BY DEF SubmitAnswered
<1>3. Queued' = Queued
  BY <1>2 DEF Queued
<1>4. r \in net /\ r.by = f /\ r.form = f /\ page[f] = "waiting"
      /\ \A q \in net \ {r} : q.by # f
  <2>1. f # NoOne
    BY OfflineAssumption
  <2> QED
    BY <1>1, <2>1 DEF Calls, DevicePart, SendersWait
<1>5. /\ page' \in [Forms -> {"new", "waiting", "queueing", "done"}]
      /\ page'[f] \in {"queueing", "done"} /\ \A g \in Forms \ {f} : page'[g] = page[g]
  BY <1>1, <1>2 DEF TypeOK
<1>6. "DONE" \in Statuses \ {"absent"}
  BY DEF Statuses
<1>7. /\ history' \in [Forms -> Statuses]
      /\ history'[f] \in {history[f], "absent"} \/ (history'[f] = "DONE" /\ r.code = "ok")
      /\ \A g \in Forms \ {f} : history'[g] \in {history[g], "absent"}
  <2>1. CASE history' = history
    BY <1>1, <2>1 DEF TypeOK
  <2>2. CASE history' = Saved(f, "DONE") /\ r.code = "ok"
    BY <1>1, <1>6, <2>2, SavedIs
  <2> QED
    BY <1>2, <2>1, <2>2
<1>8. Stored(f) \/ r.code # "ok"
  BY <1>1, <1>4 DEF KeyPart, OkIsStored
<1>9. TypeOK'
  BY <1>1, <1>2, <1>5, <1>7 DEF TypeOK, server
<1>10. /\ KeyPart'
       /\ \A g \in Forms : \A k \in keys[g] : Grounds(k, g) => Grounds(k, g)'
  BY <1>1, <1>2, <1>3, NoneLeft, QuietKeepsKeys
<1>11. SendersWait'
  BY <1>1, <1>2, <1>4, <1>5 DEF DevicePart, SendersWait
<1>12. WaitingIsSent' /\ DeliveredIsStored' /\ FailedExcused'
  <2>1. \A g \in Forms : /\ \/ history'[g] \in {history[g], "absent", "PENDING_SYNC"}
                            \/ history'[g] = "DONE" /\ Stored(g) /\ page'[g] # "waiting"
                         /\ page'[g] = "waiting" => page[g] = "waiting"
    BY <1>5, <1>7, <1>8
  <2> QED
    BY <1>1, <1>2, <1>10, <2>1, HistoryHasReasons DEF DevicePart, server
<1>13. GoneIsGone' /\ NewIsUntouched'
  BY <1>1, <1>2, <1>3, <1>4, <1>5, <1>7, RestIsUntouched DEF DevicePart, Planned
<1>14. NewestIsShown'
  <2>1. Submitted' = Submitted /\ f \in Submitted'
    BY <1>4, <1>5 DEF Submitted
  <2>2. CASE history' = history
    BY <1>1, <1>2, <2>1, <2>2, ShownStaysShown DEF DevicePart
  <2>3. CASE history' = Saved(f, "DONE")
    BY <1>1, <1>2, <1>6, <2>1, <2>3, SavedIsShown DEF DevicePart
  <2> QED
    BY <1>2, <2>2, <2>3
<1> QED
  BY <1>9, <1>10, <1>11, <1>12, <1>13, <1>14 DEF QueueIInv, DevicePart

\* Requests that lose their sender stay requests.
LEMMA OrphanedAreRequests ==
    ASSUME TypeOK, NEW W
    PROVE  Orphaned(W) \subseteq Requests
BY LeftIsSame

LEMMA FaultIs ==
    ASSUME TypeOK, Fault
    PROVE  faults' \in 0..world.faults
<1>1. world.faults \in Nat
  BY OfflineAssumption DEF TypeOK
<1> QED
  BY <1>1 DEF TypeOK, Fault

LEMMA SubmitTimesOutKeeps ==
    ASSUME QueueIInv, NEW f \in Forms, SubmitTimesOut(f)
    PROVE  QueueIInv'
<1>1. TypeOK /\ KeyPart /\ DevicePart
  BY DEF QueueIInv
<1>2. /\ page[f] = "waiting" /\ Fault /\ net' = Orphaned({f})
      /\ history' = Saved(f, "PENDING_SYNC") /\ page' = [page EXCEPT ![f] = "queueing"]
      /\ UNCHANGED <<world, idb, fallback, idbUp, made, plan, todo, server, keys, fate>>
  BY DEF SubmitTimesOut
<1>3. Queued' = Queued
  BY <1>2 DEF Queued
<1>4. /\ page' \in [Forms -> {"new", "waiting", "queueing", "done"}]
      /\ page'[f] = "queueing" /\ \A g \in Forms \ {f} : page'[g] = page[g]
  BY <1>1, <1>2 DEF TypeOK
<1>5. "PENDING_SYNC" \in Statuses \ {"absent"}
  BY DEF Statuses
<1>6. /\ history' \in [Forms -> Statuses] /\ history'[f] \in {"PENDING_SYNC", "absent"}
      /\ \A g \in Forms \ {f} : history'[g] \in {history[g], "absent"}
  BY <1>1, <1>2, <1>5, SavedIs
<1>7. TypeOK'
  BY <1>1, <1>2, <1>4, <1>6, FaultIs, OrphanedAreRequests DEF TypeOK, server
<1>8. /\ KeyPart'
      /\ \A g \in Forms : \A k \in keys[g] : Grounds(k, g) => Grounds(k, g)'
  BY <1>1, <1>2, <1>3, QuietKeepsKeys
<1>9. SendersWait'
  <2>1. \A x \in net' : x.by # f
    <3>1. f # NoOne
      BY OfflineAssumption
    <3> QED
      BY <1>1, <1>2, <3>1, LeftIsSame
  <2> QED
    BY <1>1, <1>2, <1>4, <2>1, RestOfSendersWait DEF DevicePart
<1>10. WaitingIsSent' /\ DeliveredIsStored' /\ FailedExcused'
  <2>1. \A g \in Forms : /\ history'[g] \in {history[g], "absent", "PENDING_SYNC"}
                         /\ page'[g] = "waiting" => page[g] = "waiting"
    BY <1>4, <1>6
  <2> QED
    BY <1>1, <1>2, <1>8, <2>1, HistoryHasReasons DEF DevicePart, server
<1>11. GoneIsGone' /\ NewIsUntouched'
  BY <1>1, <1>2, <1>3, <1>4, <1>6, RestIsUntouched DEF DevicePart, Planned
<1>12. NewestIsShown'
  BY <1>1, <1>2, <1>4, <1>5, SavedIsShown DEF DevicePart, Submitted
<1> QED
  BY <1>7, <1>8, <1>9, <1>10, <1>11, <1>12 DEF QueueIInv, DevicePart

\* What an item that is queued is.
LEMMA EnqueueIs ==
    ASSUME TypeOK, NEW f \in Forms, NEW ev \in Evidence, Enqueue(f, ev)
    PROVE  \E item \in Items :
              /\ item = [id |-> made + 1, form |-> f, ev |-> ev] /\ item.form = f
              /\ made' = made + 1 /\ made' \in 0..MaxItems /\ idbUp' = idbUp
              /\ idb' \subseteq idb \cup {item} /\ fallback' \subseteq fallback \cup {item}
<1> DEFINE item == [id |-> made + 1, form |-> f, ev |-> ev]
<1>1. made \in 0..MaxItems /\ made < MaxItems /\ MaxItems \in Nat
      /\ made' = made + 1 /\ Persist(item) /\ idbUp' = idbUp
  BY OfflineAssumption DEF TypeOK, Enqueue
<1>2. made + 1 \in 1..MaxItems /\ made + 1 \in 0..MaxItems
  BY <1>1
<1>3. item \in Items /\ item.form = f
  BY <1>2 DEF Items
<1> HIDE DEF item
<1>4. idb' \subseteq idb \cup {item} /\ fallback' \subseteq fallback \cup {item}
  BY <1>1, PersistIs
<1> QED
  BY <1>1, <1>2, <1>3, <1>4 DEF item

LEMMA SubmitQueuesKeeps ==
    ASSUME QueueIInv, NEW f \in Forms, SubmitQueues(f)
    PROVE  QueueIInv'
<1> DEFINE ev == OwnEvidence(f)
           item == [id |-> made + 1, form |-> f, ev |-> ev]
<1>1. TypeOK /\ KeyPart /\ DevicePart
  BY DEF QueueIInv
<1>2. /\ page[f] = "queueing" /\ page' = [page EXCEPT ![f] = "done"] /\ Enqueue(f, ev)
      /\ UNCHANGED <<world, history, plan, todo, net, server, keys, fate, faults>>
  BY DEF SubmitQueues
<1>3. ev \in Evidence
  BY DEF OwnEvidence, Evidence
<1>4. /\ item \in Items /\ item.form = f /\ made' = made + 1 /\ made' \in 0..MaxItems
      /\ idbUp' = idbUp
      /\ idb' \subseteq idb \cup {item} /\ fallback' \subseteq fallback \cup {item}
  BY <1>1, <1>2, <1>3, EnqueueIs
<1>5. Queued' \subseteq Queued \cup {item}
  BY <1>2, <1>4 DEF Queued
<1>6. /\ KeyPart'
      /\ \A g \in Forms : \A k \in keys[g] : Grounds(k, g) => Grounds(k, g)'
  BY <1>1, <1>2, <1>3, <1>4, <1>5, EnqueueKeepsKeys
<1> HIDE DEF item
<1>7. /\ page' \in [Forms -> {"new", "waiting", "queueing", "done"}]
      /\ page'[f] = "done" /\ \A g \in Forms \ {f} : page'[g] = page[g]
  BY <1>1, <1>2 DEF TypeOK
<1>8. TypeOK'
  BY <1>1, <1>2, <1>4, <1>7 DEF TypeOK, server
<1>9. SendersWait'
  BY <1>1, <1>2, <1>7 DEF DevicePart, SendersWait
<1>10. WaitingIsSent' /\ DeliveredIsStored' /\ FailedExcused'
  <2>1. \A g \in Forms : page'[g] = "waiting" => page[g] = "waiting"
    BY <1>7
  <2> QED
    BY <1>1, <1>2, <1>6, <2>1, HistoryHasReasons DEF DevicePart, server
<1>11. GoneIsGone' /\ NewIsUntouched'
  <2>1. \A i \in Queued' : (\E j \in Queued : j.form = i.form) \/ page[i.form] = "queueing"
    BY <1>2, <1>4, <1>5
  <2> QED
    BY <1>1, <1>2, <1>7, <2>1, RestIsUntouched DEF DevicePart, Planned
<1>12. NewestIsShown'
  <2>1. Submitted' = Submitted
    BY <1>2, <1>7 DEF Submitted
  <2> QED
    BY <1>1, <1>2, <2>1, ShownStaysShown DEF DevicePart
<1> QED
  BY <1>6, <1>8, <1>9, <1>10, <1>11, <1>12 DEF QueueIInv, DevicePart

LEMMA LoadQueueKeeps ==
    ASSUME QueueIInv, NEW l \in Loads, LoadQueue(l)
    PROVE  QueueIInv'
<1>1. TypeOK /\ KeyPart /\ DevicePart
  BY DEF QueueIInv
<1>2. /\ plan' \in [Loads -> SUBSET Forms]
      /\ \A f \in Planned' : f \in Planned \/ history[f] = "PENDING_SYNC"
      /\ UNCHANGED <<world, page, history, idb, fallback, idbUp, made, todo, net, server,
                     keys, fate, faults>>
  <2>1. PICK missing \in SUBSET Forms :
          /\ plan' = [plan EXCEPT ![l] = missing]
          /\ \A f \in missing : history[f] = "PENDING_SYNC"
    BY DEF LoadQueue
  <2>2. plan' \in [Loads -> SUBSET Forms]
        /\ \A m \in Loads : plan'[m] = missing \/ plan'[m] = plan[m]
    BY <1>1, <2>1 DEF TypeOK
  <2>3. \A f \in Planned' : f \in Planned \/ history[f] = "PENDING_SYNC"
    BY <2>1, <2>2 DEF Planned
  <2> QED
    BY <2>2, <2>3 DEF LoadQueue, device
<1>3. Queued' = Queued /\ Submitted' = Submitted
  BY <1>2 DEF Queued, Submitted
<1>4. TypeOK'
  BY <1>1, <1>2 DEF TypeOK, server
<1>5. /\ KeyPart'
      /\ \A g \in Forms : \A k \in keys[g] : Grounds(k, g) => Grounds(k, g)'
  BY <1>1, <1>2, <1>3, NoneLeft, QuietKeepsKeys
<1>6. SendersWait'
  BY <1>1, <1>2 DEF DevicePart, SendersWait
<1>7. WaitingIsSent' /\ DeliveredIsStored' /\ FailedExcused'
  BY <1>1, <1>2, <1>5, HistoryHasReasons DEF DevicePart, server
<1>8. GoneIsGone' /\ NewIsUntouched'
  BY <1>1, <1>2, <1>3, RestIsUntouched DEF DevicePart
<1>9. NewestIsShown'
  BY <1>1, <1>2, <1>3, ShownStaysShown DEF DevicePart
<1> QED
  BY <1>4, <1>5, <1>6, <1>7, <1>8, <1>9 DEF QueueIInv, DevicePart

LEMMA RecoverKeeps ==
    ASSUME QueueIInv, NEW l \in Loads, Recover(l)
    PROVE  QueueIInv'
<1> DEFINE f == Max(plan[l])
           item == [id |-> made + 1, form |-> f, ev |-> "recovered"]
<1>1. TypeOK /\ KeyPart /\ DevicePart
  BY DEF QueueIInv
<1>2. /\ plan[l] # {} /\ Enqueue(f, "recovered") /\ plan' = [plan EXCEPT ![l] = @ \ {f}]
      /\ UNCHANGED <<world, page, history, todo, net, server, keys, fate, faults>>
  BY DEF Recover
<1>3. f \in plan[l] /\ f \in Forms /\ "recovered" \in Evidence
  BY <1>1, <1>2, MaxOfPlan DEF TypeOK, Evidence
<1>13. /\ plan' \in [Loads -> SUBSET Forms] /\ f \in Planned
       /\ \A g \in Planned' : g \in Planned
  <2>1. plan' \in [Loads -> SUBSET Forms] /\ \A m \in Loads : plan'[m] \subseteq plan[m]
    BY <1>1, <1>2 DEF TypeOK
  <2> QED
    BY <1>3, <2>1 DEF Planned
<1> HIDE DEF f
<1>4. /\ item \in Items /\ item.form = f /\ made' = made + 1 /\ made' \in 0..MaxItems
      /\ idbUp' = idbUp
      /\ idb' \subseteq idb \cup {item} /\ fallback' \subseteq fallback \cup {item}
  BY <1>1, <1>2, <1>3, EnqueueIs
<1>5. Queued' \subseteq Queued \cup {item}
  BY <1>2, <1>4 DEF Queued
<1>6. /\ KeyPart'
      /\ \A g \in Forms : \A k \in keys[g] : Grounds(k, g) => Grounds(k, g)'
  BY <1>1, <1>2, <1>3, <1>4, <1>5, EnqueueKeepsKeys
<1> HIDE DEF item
<1>7. TypeOK'
  BY <1>1, <1>2, <1>4, <1>13 DEF TypeOK, server
<1>8. SendersWait'
  BY <1>1, <1>2 DEF DevicePart, SendersWait
<1>9. WaitingIsSent' /\ DeliveredIsStored' /\ FailedExcused'
  BY <1>1, <1>2, <1>6, HistoryHasReasons DEF DevicePart, server
<1>10. GoneIsGone' /\ NewIsUntouched'
  <2>1. \A i \in Queued' : (\E j \in Queued : j.form = i.form) \/ i.form \in Planned
    BY <1>4, <1>5, <1>13
  <2> QED
    BY <1>1, <1>2, <1>13, <2>1, RestIsUntouched DEF DevicePart
<1>11. NewestIsShown'
  <2>1. Submitted' = Submitted
    BY <1>2 DEF Submitted
  <2> QED
    BY <1>1, <1>2, <2>1, ShownStaysShown DEF DevicePart
<1> QED
  BY <1>6, <1>7, <1>8, <1>9, <1>10, <1>11 DEF QueueIInv, DevicePart

LEMMA StartSyncKeeps ==
    ASSUME QueueIInv, NEW s \in Syncs, StartSync(s)
    PROVE  QueueIInv'
<1>1. TypeOK /\ KeyPart /\ DevicePart
  BY DEF QueueIInv
<1>2. PICK R \in Reads : R # {} /\ todo' = [todo EXCEPT ![s] = R]
  BY DEF StartSync
<1>3. UNCHANGED <<world, page, history, idb, fallback, idbUp, made, plan, net, server, keys,
                  fate, faults>>
  BY DEF StartSync, device
<1>4. R \subseteq idb \cup fallback /\ R \subseteq Items
  BY <1>1 DEF Reads, Visible, TypeOK
<1>5. todo' \in [Syncs -> SUBSET Items] /\ todo'[s] = R
      /\ \A t \in Syncs \ {s} : todo'[t] = todo[t]
  BY <1>1, <1>2, <1>4 DEF TypeOK
<1>6. Queued' \subseteq Queued /\ Submitted' = Submitted
  BY <1>3, <1>4, <1>5 DEF Queued, Submitted
<1>7. TypeOK'
  BY <1>1, <1>3, <1>5 DEF TypeOK, server
<1>8. /\ KeyPart'
      /\ \A g \in Forms : \A k \in keys[g] : Grounds(k, g) => Grounds(k, g)'
  BY <1>1, <1>3, <1>6, NoneLeft, QuietKeepsKeys
<1>9. SendersWait'
  BY <1>1, <1>2, <1>3, <1>5 DEF DevicePart, SendersWait
<1>10. WaitingIsSent' /\ DeliveredIsStored' /\ FailedExcused'
  BY <1>1, <1>3, <1>8, HistoryHasReasons DEF DevicePart, server
<1>11. GoneIsGone' /\ NewIsUntouched'
  BY <1>1, <1>3, <1>6, RestIsUntouched DEF DevicePart, Planned
<1>12. NewestIsShown'
  BY <1>1, <1>3, <1>6, ShownStaysShown DEF DevicePart
<1> QED
  BY <1>7, <1>8, <1>9, <1>10, <1>11, <1>12 DEF QueueIInv, DevicePart

LEMMA SyncPostKeeps ==
    ASSUME QueueIInv, NEW s \in Syncs, SyncPost(s)
    PROVE  QueueIInv'
<1>1. TypeOK /\ KeyPart /\ DevicePart
  BY DEF QueueIInv
<1> DEFINE item == Current(s)
<1>2. todo[s] # {} /\ Calls(s) = {}
      /\ UNCHANGED <<world, page, history, idb, fallback, idbUp, made, plan, server, fate, faults>>
  BY DEF SyncPost, device
<1>3. PICK ev \in Uploaded(item) :
        /\ todo' = [todo EXCEPT ![s] = (@ \ {item}) \cup {[item EXCEPT !.ev = ev]}]
        /\ Post(s, item.id, item.form, ev)
  BY DEF SyncPost
<1>4. item \in todo[s] /\ item \in Items /\ item \in Queued
  <2>1. item \in todo[s]
    BY <1>1, <1>2, CurrentIsToDo
  <2> QED
    BY <1>1, <2>1 DEF TypeOK, Queued
<1> HIDE DEF item
<1> DEFINE new == [item EXCEPT !.ev = ev]
           q == [by |-> s, key |-> item.id, form |-> item.form, ev |-> ev,
                 st |-> "sent", code |-> "none"]
<1>5. ev \in Evidence /\ new \in Items /\ new.form = item.form /\ item.id > 0 /\ item.form \in Forms
  <2>1. ev \in Evidence
    BY <1>4 DEF Uploaded, Evidence, Items
  <2>2. item.id > 0
    BY <1>4, OfflineAssumption DEF Items
  <2> QED
    BY <1>4, <2>1, <2>2 DEF Items
<1>6. q \in Requests /\ net' = net \cup {q} /\ q.by = s /\ q.key = item.id
      /\ keys' = [keys EXCEPT ![item.form] = @ \cup {item.id}]
  BY <1>3, <1>4, <1>5 DEF Post, Requests, Senders, Keys, Codes, Items
<1>7. /\ todo' \in [Syncs -> SUBSET Items] /\ todo'[s] = (todo[s] \ {item}) \cup {new}
      /\ \A t \in Syncs \ {s} : todo'[t] = todo[t]
  BY <1>1, <1>3, <1>5 DEF TypeOK
<1>8. Queued' \subseteq Queued \cup {new} /\ Submitted' = Submitted
  BY <1>2, <1>7 DEF Queued, Submitted
<1>9. /\ KeyPart'
      /\ \A g \in Forms : \A k \in keys[g] : Grounds(k, g) => Grounds(k, g)'
  BY <1>1, <1>2, <1>3, <1>4, <1>8, SyncPostKeepsKeys
<1> HIDE DEF q, new
<1>10. /\ keys' \in [Forms -> SUBSET Keys]
       /\ \A g \in Forms : keys[g] \subseteq keys'[g] /\ (g = item.form \/ keys'[g] = keys[g])
  BY <1>1, <1>4, <1>5, <1>6 DEF TypeOK, Keys, Items
<1>11. TypeOK'
  BY <1>1, <1>2, <1>6, <1>7, <1>10 DEF TypeOK, server
<1>12. SendersWait'
  <2>1. \A x \in net : x.by # s
    BY <1>2 DEF Calls
  <2>2. s \notin Forms /\ s # NoOne /\ todo'[s] # {}
    BY <1>7, OfflineAssumption
  <2>3. \A x \in net : x.by \in Syncs => todo'[x.by] # {}
    BY <1>1, <1>7, <2>1 DEF DevicePart, SendersWait
  <2> QED
    BY <1>1, <1>2, <1>5, <1>6, <2>1, <2>2, <2>3 DEF DevicePart, SendersWait
<1>13. WaitingIsSent' /\ DeliveredIsStored' /\ FailedExcused'
  BY <1>1, <1>2, <1>9, <1>10, HistoryHasReasons DEF DevicePart, server
<1>14. GoneIsGone' /\ NewIsUntouched'
  <2>1. \A i \in Queued' : \E j \in Queued : j.form = i.form
    BY <1>4, <1>5, <1>8
  <2>2. \A g \in Forms : keys'[g] = keys[g] \/ (\E i \in Queued : i.form = g)
    BY <1>4, <1>10
  <2> QED
    BY <1>1, <1>2, <2>1, <2>2, RestIsUntouched DEF DevicePart, Planned
<1>15. NewestIsShown'
  BY <1>1, <1>2, <1>8, ShownStaysShown DEF DevicePart
<1> QED
  BY <1>9, <1>11, <1>12, <1>13, <1>14, <1>15 DEF QueueIInv, DevicePart

\* A sync is through with its current item, which it deletes or writes back.
LEMMA CurrentIsDone ==
    ASSUME TypeOK, NEW s \in Syncs, todo[s] # {},
           todo' = [todo EXCEPT ![s] = @ \ {Current(s)}],
           Delete(Current(s)) \/ Persist(Current(s))
    PROVE  /\ todo' \in [Syncs -> SUBSET Items]
           /\ \A t \in Syncs \ {s} : todo'[t] = todo[t]
           /\ idb' \subseteq Items /\ fallback' \subseteq Items
           /\ Queued' \subseteq Queued
<1> DEFINE item == Current(s)
<1>1. item \in todo[s] /\ item \in Items
  BY CurrentIsToDo DEF TypeOK
<1> HIDE DEF item
<1>2. idb' \subseteq idb \cup {item} /\ fallback' \subseteq fallback \cup {item}
  BY DeleteIs, PersistIs DEF item
<1>3. /\ todo' = [todo EXCEPT ![s] = @ \ {item}]
      /\ todo' \in [Syncs -> SUBSET Items]
      /\ \A t \in Syncs : todo'[t] \subseteq todo[t]
      /\ \A t \in Syncs \ {s} : todo'[t] = todo[t]
  BY DEF TypeOK, item
<1>4. Queued' \subseteq Queued
  BY <1>1, <1>2, <1>3 DEF Queued
<1>5. idb' \subseteq Items /\ fallback' \subseteq Items
  BY <1>1, <1>2 DEF TypeOK
<1> QED
  BY <1>3, <1>4, <1>5

LEMMA SyncAnsweredKeeps ==
    ASSUME QueueIInv, NEW s \in Syncs, SyncAnswered(s)
    PROVE  QueueIInv'
<1>1. TypeOK /\ KeyPart /\ DevicePart
  BY DEF QueueIInv
<1>2. PICK r \in Calls(s) :
        /\ net' = net \ {r}
        /\ todo' = [todo EXCEPT ![s] = @ \ {Current(s)}]
        /\ \/ r.code = "ok" /\ Delete(Current(s)) /\ history' = Marked(r.form, "DONE")
           \/ /\ r.code = "invalid" /\ Delete(Current(s))
              /\ history' = Marked(r.form, "FAILED_VALIDATION")
           \/ Persist(Current(s)) /\ UNCHANGED history
        /\ UNCHANGED <<world, page, idbUp, made, plan, server, keys, fate, faults>>
  BY DEF SyncAnswered
<1>3. /\ r \in net /\ r.by = s /\ r.form \in Forms /\ r.key \in keys[r.form] /\ r.key > 0
      /\ todo[s] # {} /\ \A q \in net \ {r} : q.by # s
  <2>1. s # NoOne
    BY OfflineAssumption
  <2> QED
    BY <1>1, <2>1 DEF Calls, TypeOK, Requests, KeyPart, RequestsNamed, DevicePart, SendersWait
<1>4. /\ todo' \in [Syncs -> SUBSET Items]
      /\ \A t \in Syncs \ {s} : todo'[t] = todo[t]
      /\ idb' \subseteq Items /\ fallback' \subseteq Items /\ Queued' \subseteq Queued
  BY <1>1, <1>2, <1>3, CurrentIsDone
<1>5. Submitted' = Submitted
  BY <1>2 DEF Submitted
<1>6. /\ history' \in [Forms -> Statuses]
      /\ \A g \in Forms : (history[g] = "absent") <=> (history'[g] = "absent")
      /\ \A g \in Forms :
            \/ history'[g] = history[g]
            \/ g = r.form /\ history'[g] = "DONE" /\ r.code = "ok"
            \/ g = r.form /\ history'[g] = "FAILED_VALIDATION" /\ r.code = "invalid"
  <2>1. ASSUME NEW status \in Statuses \ {"absent"}, history' = Marked(r.form, status)
        PROVE  /\ history' \in [Forms -> Statuses]
               /\ \A g \in Forms : (history[g] = "absent") <=> (history'[g] = "absent")
               /\ \A g \in Forms : history'[g] = history[g] \/ (g = r.form /\ history'[g] = status)
    BY <1>1, <1>3, <2>1 DEF TypeOK, Marked
  <2>2. "DONE" \in Statuses \ {"absent"} /\ "FAILED_VALIDATION" \in Statuses \ {"absent"}
    BY DEF Statuses
  <2>3. CASE r.code = "ok" /\ history' = Marked(r.form, "DONE")
    BY <2>1, <2>2, <2>3
  <2>4. CASE r.code = "invalid" /\ history' = Marked(r.form, "FAILED_VALIDATION")
    BY <2>1, <2>2, <2>4
  <2>5. CASE UNCHANGED history
    BY <1>1, <2>5 DEF TypeOK
  <2> QED
    BY <1>2, <2>3, <2>4, <2>5
<1>7. TypeOK'
  BY <1>1, <1>2, <1>4, <1>6 DEF TypeOK, server
<1>8. /\ KeyPart'
      /\ \A g \in Forms : \A k \in keys[g] : Grounds(k, g) => Grounds(k, g)'
  BY <1>1, <1>2, <1>4, NoneLeft, QuietKeepsKeys
<1>9. SendersWait'
  BY <1>1, <1>2, <1>3, <1>4, NoneLeft, RestOfSendersWait DEF DevicePart
<1>10. WaitingIsSent' /\ DeliveredIsStored' /\ FailedExcused'
  <2>1. page[r.form] = "waiting" => TwoKeys(r.form)
    <3>1. r.key # -r.form
      <4>1. r.form \in Int /\ r.form >= 1
        BY <1>3, OfflineAssumption, FS_CardinalityType
      <4> QED
        BY <1>3, <4>1
    <3> QED
      BY <1>1, <1>3, <3>1 DEF DevicePart, WaitingIsSent, TwoKeys
  <2>2. r.code = "ok" => Stored(r.form)
    BY <1>1, <1>3 DEF KeyPart, OkIsStored
  <2>3. r.code = "invalid" => Grounds(r.key, r.form)
    BY <1>1, <1>3 DEF KeyPart, RefusalsExcused
  <2>4. \A g \in Forms :
              \/ history'[g] \in {history[g], "absent", "PENDING_SYNC"}
              \/ /\ history'[g] = "DONE" /\ Stored(g)
                 /\ page'[g] = "waiting" => TwoKeys(g)
              \/ /\ history'[g] = "FAILED_VALIDATION"
                 /\ \E k \in keys[g] : Grounds(k, g)
    BY <1>2, <1>3, <1>6, <2>1, <2>2, <2>3
  <2> QED
    BY <1>1, <1>2, <1>8, <2>4, HistoryHasReasons DEF DevicePart, server
<1>11. GoneIsGone' /\ NewIsUntouched'
  BY <1>1, <1>2, <1>4, <1>6, RestIsUntouched DEF DevicePart, Planned
<1>12. NewestIsShown'
  <2>1. Submitted \subseteq Forms
    BY DEF Submitted
  <2> QED
    BY <1>1, <1>2, <1>5, <1>6, <2>1, ShownStaysShown DEF DevicePart
<1> QED
  BY <1>7, <1>8, <1>9, <1>10, <1>11, <1>12 DEF QueueIInv, DevicePart

LEMMA SyncTimesOutKeeps ==
    ASSUME QueueIInv, NEW s \in Syncs, SyncTimesOut(s)
    PROVE  QueueIInv'
<1>1. TypeOK /\ KeyPart /\ DevicePart
  BY DEF QueueIInv
<1>2. PICK r \in Calls(s) :
        \/ net' = Orphaned({s}) /\ (UNCHANGED faults \/ Fault)
        \/ net' = net \ {r} /\ UNCHANGED faults
  BY DEF SyncTimesOut
<1>3. /\ todo' = [todo EXCEPT ![s] = @ \ {Current(s)}]
      /\ Persist(Current(s))
      /\ UNCHANGED <<world, page, history, idbUp, made, plan, server, keys, fate>>
  BY DEF SyncTimesOut
<1>4. s # NoOne /\ s \notin Forms
  BY OfflineAssumption
<1>5. r \in net /\ r.by = s /\ todo[s] # {} /\ \A q \in net \ {r} : q.by # s
  BY <1>1, <1>4 DEF Calls, DevicePart, SendersWait
<1>6. /\ todo' \in [Syncs -> SUBSET Items]
      /\ \A t \in Syncs \ {s} : todo'[t] = todo[t]
      /\ idb' \subseteq Items /\ fallback' \subseteq Items /\ Queued' \subseteq Queued
  BY <1>1, <1>3, <1>5, CurrentIsDone
<1>7. PICK W \in {{}, {s}} : net' \subseteq Orphaned(W)
  BY <1>2, NoneLeft
<1>8. \A x \in net' : x.by # s
  BY <1>1, <1>2, <1>4, <1>5, LeftIsSame
<1>9. Submitted' = Submitted
  BY <1>3 DEF Submitted
<1>10. faults' \in 0..world.faults
  BY <1>1, <1>2, FaultIs DEF TypeOK
<1>11. TypeOK'
  BY <1>1, <1>3, <1>6, <1>7, <1>10, OrphanedAreRequests DEF TypeOK, server
<1>12. /\ KeyPart'
       /\ \A g \in Forms : \A k \in keys[g] : Grounds(k, g) => Grounds(k, g)'
  BY <1>1, <1>3, <1>6, <1>7, QuietKeepsKeys
<1>13. SendersWait'
  BY <1>1, <1>3, <1>6, <1>7, <1>8, RestOfSendersWait DEF DevicePart
<1>14. WaitingIsSent' /\ DeliveredIsStored' /\ FailedExcused'
  BY <1>1, <1>3, <1>12, HistoryHasReasons DEF DevicePart, server
<1>15. GoneIsGone' /\ NewIsUntouched'
  BY <1>1, <1>3, <1>6, RestIsUntouched DEF DevicePart, Planned
<1>16. NewestIsShown'
  BY <1>1, <1>3, <1>9, ShownStaysShown DEF DevicePart
<1> QED
  BY <1>11, <1>12, <1>13, <1>14, <1>15, <1>16 DEF QueueIInv, DevicePart

LEMMA ClearDeviceKeeps ==
    ASSUME QueueIInv, ClearDevice
    PROVE  QueueIInv'
<1>1. TypeOK /\ KeyPart /\ DevicePart
  BY DEF QueueIInv
<1>2. /\ Fault /\ history' = [f \in Forms |-> "absent"] /\ fallback' = {} /\ idb' \subseteq idb
      /\ fate' = [f \in Forms |->
            IF f \notin Submitted THEN "kept"
            ELSE IF f \in Held THEN "cleared"
            ELSE IF \E i \in idb' : i.form = f THEN "left" ELSE "gone"]
      /\ UNCHANGED <<world, page, idbUp, made, plan, todo, net, server, keys>>
  BY DEF ClearDevice, Cleared
<1>3. Queued' \subseteq Queued /\ Submitted' = Submitted
  BY <1>2 DEF Queued, Submitted
<1>4. TypeOK'
  BY <1>1, <1>2, FaultIs DEF TypeOK, server, Statuses
<1>5. /\ KeyPart'
      /\ \A g \in Forms : \A k \in keys[g] : Grounds(k, g) => Grounds(k, g)'
  BY <1>1, <1>2, <1>3, NoneLeft, QuietKeepsKeys
<1>6. SendersWait'
  BY <1>1, <1>2 DEF DevicePart, SendersWait
<1>7. WaitingIsSent' /\ DeliveredIsStored' /\ FailedExcused'
  BY <1>1, <1>2, <1>5, HistoryHasReasons DEF DevicePart, server
<1>8. GoneIsGone'
  <2> SUFFICES ASSUME NEW f \in Forms, fate'[f] = "gone"
               PROVE  /\ page'[f] = "done" /\ history'[f] = "absent" /\ f \notin Planned'
                      /\ \A i \in Queued' : i.form # f
    BY DEF GoneIsGone
  <2>1. f \in Submitted /\ f \notin Held /\ \A i \in idb' : i.form # f
    BY <1>2
  <2>2. page[f] = "done"
    BY <1>1, <2>1 DEF Submitted, Held, TypeOK
  <2>3. f \notin Planned' /\ \A s \in Syncs : \A i \in todo[s] : i.form # f
    BY <1>2, <2>1 DEF Held, Planned
  <2>4. \A i \in Queued' : i \in idb' \/ \E s \in Syncs : i \in todo[s]
    BY <1>2 DEF Queued
  <2> QED
    BY <1>2, <2>1, <2>2, <2>3, <2>4
<1>9. NewIsUntouched'
  BY <1>1, <1>2, <1>3 DEF DevicePart, NewIsUntouched, Submitted, Planned
<1>10. NewestIsShown'
  <2>1. \A f \in Submitted : fate'[f] # "kept"
    BY <1>2 DEF Submitted
  <2> QED
    BY <1>1, <1>2, <1>3, <2>1, ShownStaysShown DEF DevicePart
<1> QED
  BY <1>4, <1>5, <1>6, <1>7, <1>8, <1>9, <1>10 DEF QueueIInv, DevicePart

LEMMA RestartKeeps ==
    ASSUME QueueIInv, Restart
    PROVE  QueueIInv'
<1>1. TypeOK /\ KeyPart /\ DevicePart
  BY DEF QueueIInv
<1>2. /\ Fault /\ page' = [f \in Forms |-> IF page[f] = "new" THEN "new" ELSE "done"]
      /\ plan' = [l \in Loads |-> {}] /\ todo' = [s \in Syncs |-> {}] /\ net' = Orphaned(Senders)
      /\ UNCHANGED <<world, history, idb, fallback, idbUp, made, server, keys, fate>>
  BY DEF Restart, device
<1>3. Queued' \subseteq Queued /\ Submitted' = Submitted
  BY <1>2 DEF Queued, Submitted
<1>4. TypeOK'
  BY <1>1, <1>2, FaultIs, OrphanedAreRequests DEF TypeOK, server
<1>5. /\ KeyPart'
      /\ \A g \in Forms : \A k \in keys[g] : Grounds(k, g) => Grounds(k, g)'
  BY <1>1, <1>2, <1>3, QuietKeepsKeys
<1>6. SendersWait'
  <2>1. \A x \in net' : x.by = NoOne
    BY <1>1, <1>2, LeftIsSame DEF Requests
  <2> QED
    BY <2>1, OfflineAssumption DEF SendersWait
<1>7. WaitingIsSent' /\ DeliveredIsStored' /\ FailedExcused'
  BY <1>1, <1>2, <1>5, HistoryHasReasons DEF DevicePart, server
<1>8. GoneIsGone' /\ NewIsUntouched'
  BY <1>1, <1>2, <1>3, RestIsUntouched DEF DevicePart, Planned
<1>9. NewestIsShown'
  BY <1>1, <1>2, <1>3, ShownStaysShown DEF DevicePart
<1> QED
  BY <1>4, <1>5, <1>6, <1>7, <1>8, <1>9 DEF QueueIInv, DevicePart

LEMMA StorageFlipsKeeps ==
    ASSUME QueueIInv, StorageFlips
    PROVE  QueueIInv'
<1>1. TypeOK /\ KeyPart /\ DevicePart
  BY DEF QueueIInv
<1>2. /\ Fault /\ idbUp' = ~idbUp
      /\ UNCHANGED <<world, page, history, idb, fallback, made, plan, todo, net, server,
                     keys, fate>>
  BY DEF StorageFlips
<1>3. Queued' = Queued /\ Submitted' = Submitted
  BY <1>2 DEF Queued, Submitted
<1>4. TypeOK'
  BY <1>1, <1>2, FaultIs DEF TypeOK, server
<1>5. /\ KeyPart'
      /\ \A g \in Forms : \A k \in keys[g] : Grounds(k, g) => Grounds(k, g)'
  BY <1>1, <1>2, <1>3, NoneLeft, QuietKeepsKeys
<1>6. SendersWait'
  BY <1>1, <1>2 DEF DevicePart, SendersWait
<1>7. WaitingIsSent' /\ DeliveredIsStored' /\ FailedExcused'
  BY <1>1, <1>2, <1>5, HistoryHasReasons DEF DevicePart, server
<1>8. GoneIsGone' /\ NewIsUntouched'
  BY <1>1, <1>2, <1>3, RestIsUntouched DEF DevicePart, Planned
<1>9. NewestIsShown'
  BY <1>1, <1>2, <1>3, ShownStaysShown DEF DevicePart
<1> QED
  BY <1>4, <1>5, <1>6, <1>7, <1>8, <1>9 DEF QueueIInv, DevicePart

\* A step of the server leaves the device as it is.
LEMMA ServerKeepsDevice ==
    ASSUME QueueIInv, KeyPart', SendersWait', commits \subseteq commits', known' \subseteq commits',
           \A g \in Forms : \A k \in keys[g] : Grounds(k, g) => Grounds(k, g)',
           UNCHANGED <<world, page, history, idb, fallback, idbUp, made, plan, todo, keys, fate>>,
           net' \subseteq Requests, commits' \subseteq Commits, claim' \in [Keys -> Claims],
           lost' \subseteq Keys, faults' \in 0..world.faults
    PROVE  QueueIInv'
<1>1. TypeOK /\ KeyPart /\ DevicePart
  BY DEF QueueIInv
<1>2. Queued' = Queued /\ Submitted' = Submitted
  BY DEF Queued, Submitted
<1>3. TypeOK'
  BY <1>1 DEF TypeOK
<1>4. WaitingIsSent' /\ DeliveredIsStored' /\ FailedExcused'
  BY <1>1, HistoryHasReasons DEF DevicePart
<1>5. GoneIsGone' /\ NewIsUntouched'
  BY <1>1, <1>2, RestIsUntouched DEF DevicePart, Planned
<1>6. NewestIsShown'
  BY <1>1, <1>2, ShownStaysShown DEF DevicePart
<1> QED
  BY <1>3, <1>4, <1>5, <1>6 DEF QueueIInv, DevicePart

LEMMA AnsweredStillWait ==
    ASSUME TypeOK, SendersWait, NEW r \in net, NEW code \in Codes, Answer(r, code),
           UNCHANGED <<page, todo>>
    PROVE  SendersWait' /\ net' \subseteq Requests
<1> DEFINE p == [r EXCEPT !.st = "answered", !.code = code]
<1>1. p.by = r.by /\ p.form = r.form /\ p.key = r.key /\ p \in Requests
  BY DEF TypeOK, Requests
<1>2. net' \subseteq (net \ {r}) \cup {p}
  BY DEF Answer
<1> HIDE DEF p
<1> QED
  BY <1>1, <1>2, ServedStillWait DEF TypeOK

LEMMA ClaimIsTyped ==
    ASSUME TypeOK, NEW r \in net
    PROVE  /\ r.key \in Keys /\ NoClaim \in Claims
           /\ \A st \in {"processing", "completed"} : [st |-> st, ev |-> r.ev] \in Claims
           /\ \A row \in Claims : [claim EXCEPT ![r.key] = row] \in [Keys -> Claims]
BY DEF TypeOK, Requests, Claims, NoClaim, Evidence

LEMMA ServeKeeps ==
    ASSUME QueueIInv, NEW r \in net, Serve(r)
    PROVE  QueueIInv'
<1>1. TypeOK /\ KeyPart /\ DevicePart /\ SendersWait
  BY DEF QueueIInv, DevicePart
<1>2. r.st = "sent"
      /\ UNCHANGED <<world, page, history, idb, fallback, idbUp, made, plan, todo, commits, known,
                     lost, keys, fate, faults>>
  BY DEF Serve, device
<1>3. Queued' = Queued
  BY <1>2 DEF Queued
<1>4. CASE UNCHANGED claim /\ \E code \in Codes \ {"ok", "invalid"} : Answer(r, code)
  <2>1. PICK code \in Codes \ {"ok", "invalid"} : Answer(r, code)
    BY <1>4
  <2>2. /\ KeyPart'
        /\ \A g \in Forms : \A k \in keys[g] : Grounds(k, g) => Grounds(k, g)'
    BY <1>1, <1>2, <1>3, <1>4, <2>1, AnswerKeepsKeys
  <2>3. SendersWait' /\ net' \subseteq Requests
    BY <1>1, <1>2, <2>1, AnsweredStillWait
  <2> QED
    BY <1>1, <1>2, <1>4, <2>2, <2>3, ServerKeepsDevice DEF TypeOK
<1>5. CASE UNCHANGED claim /\ Answer(r, "ok") /\ claim[r.key].st = "completed"
  <2>1. Stored(r.form)
    <3>1. PICK c \in commits : c.key = r.key
      BY <1>1, <1>5, ClaimIsTyped DEF KeyPart, ClaimsHold
    <3>2. /\ c.form \in Forms /\ r.form \in Forms
          /\ c.key \in keys[c.form] /\ r.key \in keys[r.form]
      BY <1>1 DEF KeyPart, CommitsNamed, RequestsNamed, TypeOK, Requests, Commits
    <3>3. c.form = r.form
      BY <1>1, <3>1, <3>2 DEF KeyPart, KeysApart
    <3> QED
      BY <3>3 DEF Stored
  <2>2. "ok" \in Codes
    BY DEF Codes
  <2>3. /\ KeyPart'
        /\ \A g \in Forms : \A k \in keys[g] : Grounds(k, g) => Grounds(k, g)'
    BY <1>1, <1>2, <1>3, <1>5, <2>1, <2>2, AnswerKeepsKeys
  <2>4. SendersWait' /\ net' \subseteq Requests
    BY <1>1, <1>2, <1>5, <2>2, AnsweredStillWait
  <2> QED
    BY <1>1, <1>2, <1>5, <2>3, <2>4, ServerKeepsDevice DEF TypeOK
<1>6. CASE claim[r.key].st = "none" /\ Claim(r)
  <2> DEFINE p == [r EXCEPT !.st = "running"]
  <2>1. p.by = r.by /\ p.form = r.form /\ p.key = r.key /\ p \in Requests
    BY <1>1 DEF TypeOK, Requests
  <2>2. /\ KeyPart'
        /\ \A g \in Forms : \A k \in keys[g] : Grounds(k, g) => Grounds(k, g)'
    BY <1>1, <1>2, <1>3, <1>6, RunKeepsKeys
  <2>3. net' = (net \ {r}) \cup {p} /\ claim' \in [Keys -> Claims]
    BY <1>1, <1>6, ClaimIsTyped DEF Claim
  <2> HIDE DEF p
  <2>4. SendersWait' /\ net' \subseteq Requests
    BY <1>1, <1>2, <2>1, <2>3, ServedStillWait DEF TypeOK
  <2> QED
    BY <1>1, <1>2, <2>2, <2>3, <2>4, ServerKeepsDevice DEF TypeOK
<1> QED
  <2>1. "forbidden" \in Codes \ {"ok", "invalid"} /\ "conflict" \in Codes \ {"ok", "invalid"}
    BY DEF Codes
  <2>2. \/ UNCHANGED claim /\ (Answer(r, "forbidden") \/ Answer(r, "conflict"))
        \/ UNCHANGED claim /\ Answer(r, "ok") /\ claim[r.key] = [st |-> "completed", ev |-> r.ev]
        \/ claim[r.key].st = "none" /\ Claim(r)
    BY DEF Serve
  <2> QED
    BY <1>4, <1>5, <1>6, <2>1, <2>2

\* What a commit does to the types.
LEMMA CommitIsTyped ==
    ASSUME TypeOK, NEW r \in net, commits' = commits \cup {CommitOf(r)}
    PROVE  commits \subseteq commits' /\ commits' \subseteq Commits /\ CommitOf(r) \in commits'
BY DEF TypeOK, Commits, Requests, CommitOf

LEMMA FinishKeeps ==
    ASSUME QueueIInv, NEW r \in net, Finish(r)
    PROVE  QueueIInv'
<1>1. TypeOK /\ KeyPart /\ DevicePart /\ SendersWait
  BY DEF QueueIInv, DevicePart
<1>2. r.st = "running" /\ "ok" \in Codes /\ "invalid" \in Codes
      /\ UNCHANGED <<world, page, history, idb, fallback, idbUp, made, plan, todo, lost, keys, fate,
                     faults>>
  BY DEF Finish, device, Codes
<1>3. Queued' = Queued
  BY <1>2 DEF Queued
<1>4. CASE /\ Accepts(r) /\ Answer(r, "ok")
           /\ commits' = commits \cup {CommitOf(r)} /\ known' = known \cup {CommitOf(r)}
           /\ claim' = [claim EXCEPT ![r.key].st = "completed"]
  <2> DEFINE row == [st |-> "completed", ev |-> r.ev]
  <2>1. claim' = [claim EXCEPT ![r.key] = row]
    <3>1. claim[r.key] = [st |-> "processing", ev |-> r.ev]
      BY <1>1, <1>2 DEF KeyPart, ClaimsHold
    <3>2. [claim[r.key] EXCEPT !.st = "completed"] = row
      BY <3>1
    <3> QED
      BY <1>4, <3>2
  <2>2. row \in Claims /\ row.st = "completed" /\ claim' \in [Keys -> Claims]
    BY <1>1, <2>1, ClaimIsTyped
  <2> HIDE DEF row
  <2>3. known \subseteq known' /\ "ok" \in {"ok", "overload"} /\ lost' \in {lost, lost \cup {r.key}}
    BY <1>2, <1>4
  <2>4. /\ KeyPart'
        /\ \A g \in Forms : \A k \in keys[g] : Grounds(k, g) => Grounds(k, g)'
    BY <1>1, <1>2, <1>3, <1>4, <2>1, <2>2, <2>3, CommitKeepsKeys
  <2>5. SendersWait' /\ net' \subseteq Requests
    BY <1>1, <1>2, <1>4, AnsweredStillWait
  <2>6. commits \subseteq commits' /\ commits' \subseteq Commits /\ known' \subseteq commits'
    BY <1>1, <1>4, CommitIsTyped DEF TypeOK
  <2> QED
    BY <1>1, <1>2, <2>2, <2>4, <2>5, <2>6, ServerKeepsDevice DEF TypeOK
<1>5. CASE /\ ~Accepts(r) /\ Answer(r, "invalid") /\ UNCHANGED <<commits, known>>
           /\ claim' = [claim EXCEPT ![r.key] = NoClaim]
  <2>1. /\ KeyPart'
        /\ \A g \in Forms : \A k \in keys[g] : Grounds(k, g) => Grounds(k, g)'
    BY <1>1, <1>2, <1>3, <1>5, RefusalIsExcused, AnswerKeepsKeys
  <2>2. SendersWait' /\ net' \subseteq Requests
    BY <1>1, <1>2, <1>5, AnsweredStillWait
  <2>3. claim' \in [Keys -> Claims]
    BY <1>1, <1>5, ClaimIsTyped
  <2> QED
    BY <1>1, <1>2, <1>5, <2>1, <2>2, <2>3, ServerKeepsDevice DEF TypeOK
<1> QED
  BY <1>4, <1>5 DEF Finish

LEMMA FinishUnansweredKeeps ==
    ASSUME QueueIInv, NEW r \in net, FinishUnanswered(r)
    PROVE  QueueIInv'
<1>1. TypeOK /\ KeyPart /\ DevicePart /\ SendersWait
  BY DEF QueueIInv, DevicePart
<1>2. /\ r.st = "running" /\ Fault /\ Accepts(r) /\ Answer(r, "overload")
      /\ commits' = commits \cup {CommitOf(r)} /\ lost' = lost \cup {r.key}
      /\ "overload" \in Codes
      /\ UNCHANGED <<world, page, history, idb, fallback, idbUp, made, plan, todo, keys, fate>>
  BY DEF FinishUnanswered, device, Codes
<1>3. PICK row \in {NoClaim, claim[r.key], [st |-> "completed", ev |-> r.ev]} :
        /\ claim' = [claim EXCEPT ![r.key] = row]
        /\ known' \in IF row.st = "completed" THEN {known \cup {CommitOf(r)}}
                      ELSE {known, known \cup {CommitOf(r)}}
  BY DEF FinishUnanswered
<1>4. row \in Claims /\ claim' \in [Keys -> Claims] /\ r.key \in Keys
  <2>1. r.key \in Keys /\ NoClaim \in Claims /\ [st |-> "completed", ev |-> r.ev] \in Claims
    BY <1>1, ClaimIsTyped
  <2>2. claim[r.key] \in Claims
    BY <1>1, <2>1 DEF TypeOK
  <2>3. row \in Claims
    BY <2>1, <2>2, <1>3
  <2>4. [claim EXCEPT ![r.key] = row] \in [Keys -> Claims]
    BY <1>1, <2>3, ClaimIsTyped
  <2> QED
    BY <1>3, <2>1, <2>3, <2>4
<1>5. Queued' = Queued
  BY <1>2 DEF Queued
<1>6. known \subseteq known' /\ known' \subseteq known \cup {CommitOf(r)}
  BY <1>3
<1>7. /\ KeyPart'
      /\ \A g \in Forms : \A k \in keys[g] : Grounds(k, g) => Grounds(k, g)'
  <2>1. /\ "overload" \in {"ok", "overload"} /\ lost' \in {lost, lost \cup {r.key}}
        /\ r.key \in lost' /\ UNCHANGED <<made, keys>>
    BY <1>2
  <2> QED
    BY <1>1, <1>2, <1>3, <1>4, <1>5, <1>6, <2>1, CommitKeepsKeys
<1>8. SendersWait' /\ net' \subseteq Requests
  BY <1>1, <1>2, AnsweredStillWait
<1>9. commits \subseteq commits' /\ commits' \subseteq Commits /\ known' \subseteq commits'
  BY <1>1, <1>2, <1>6, CommitIsTyped DEF TypeOK
<1>10. lost' \subseteq Keys /\ faults' \in 0..world.faults
  BY <1>1, <1>2, <1>4, FaultIs DEF TypeOK
<1> QED
  BY <1>1, <1>2, <1>4, <1>7, <1>8, <1>9, <1>10, ServerKeepsDevice DEF TypeOK

LEMMA OverloadKeeps ==
    ASSUME QueueIInv, NEW r \in net, Overload(r)
    PROVE  QueueIInv'
<1>1. TypeOK /\ KeyPart /\ DevicePart /\ SendersWait
  BY DEF QueueIInv, DevicePart
<1>2. /\ Fault /\ Answer(r, "overload") /\ "overload" \in Codes \ {"ok", "invalid"}
      /\ \/ claim' = claim
         \/ r.st = "running" /\ claim' = [claim EXCEPT ![r.key] = NoClaim]
      /\ UNCHANGED <<world, page, history, idb, fallback, idbUp, made, plan, todo, commits, known,
                     lost, keys, fate>>
  BY DEF Overload, device, Codes
<1>3. Queued' = Queued
  BY <1>2 DEF Queued
<1>4. /\ KeyPart'
      /\ \A g \in Forms : \A k \in keys[g] : Grounds(k, g) => Grounds(k, g)'
  BY <1>1, <1>2, <1>3, AnswerKeepsKeys
<1>5. SendersWait' /\ net' \subseteq Requests
  BY <1>1, <1>2, AnsweredStillWait
<1>6. claim' \in [Keys -> Claims]
  BY <1>1, <1>2, ClaimIsTyped DEF TypeOK
<1> QED
  BY <1>1, <1>2, <1>4, <1>5, <1>6, FaultIs, ServerKeepsDevice DEF TypeOK

LEMMA ServerRestartKeeps ==
    ASSUME QueueIInv, ServerRestart
    PROVE  QueueIInv'
<1>1. TypeOK /\ KeyPart /\ DevicePart /\ SendersWait
  BY DEF QueueIInv, DevicePart
<1>2. /\ Fault /\ known' = commits
      /\ UNCHANGED <<world, page, history, idb, fallback, idbUp, made, plan, todo, commits, claim,
                     lost, keys, fate>>
  BY DEF ServerRestart, device
<1>3. Queued' = Queued
  BY <1>2 DEF Queued
<1>4. /\ KeyPart'
      /\ \A g \in Forms : \A k \in keys[g] : Grounds(k, g) => Grounds(k, g)'
  BY <1>1, <1>3, ServerRestartKeepsKeys
<1>5. \A x \in net' : \E y \in net :
        /\ x.by = y.by /\ x.key = y.key /\ x.form = y.form /\ x \in Requests
        /\ IF y.st = "running" THEN x = Ended(y) ELSE x = y
  BY <1>1, RestartedIs
<1>6. SendersWait'
  <2>1. \A x \in net' : /\ x.by \in Forms => x.form = x.by /\ page[x.by] = "waiting"
                        /\ x.by \in Syncs => x.key > 0 /\ todo[x.by] # {}
    BY <1>1, <1>5 DEF SendersWait
  <2>2. ASSUME NEW x \in net', NEW z \in net', z.by = x.by, x.by # NoOne
        PROVE  z = x
    <3>1. PICK y \in net : x.by = y.by /\ IF y.st = "running" THEN x = Ended(y) ELSE x = y
      BY <1>5
    <3>2. PICK w \in net : z.by = w.by /\ IF w.st = "running" THEN z = Ended(w) ELSE z = w
      BY <1>5
    <3>3. w = y
      BY <1>1, <2>2, <3>1, <3>2 DEF SendersWait
    <3> QED
      BY <3>1, <3>2, <3>3
  <2> QED
    BY <1>2, <2>1, <2>2 DEF SendersWait
<1>7. net' \subseteq Requests
  BY <1>5
<1> QED
  BY <1>1, <1>2, <1>4, <1>6, <1>7, FaultIs, ServerKeepsDevice DEF TypeOK

LEMMA NextKeepsQueue == QueueIInv /\ [Next]_vars => QueueIInv'
<1> SUFFICES ASSUME QueueIInv, [Next]_vars PROVE QueueIInv'
  OBVIOUS
<1>1. ASSUME NEW f \in Forms, FormStep(f) PROVE QueueIInv'
  BY <1>1, SubmitKeeps, SubmitAnsweredKeeps, SubmitTimesOutKeeps, SubmitQueuesKeeps DEF FormStep
<1>2. ASSUME NEW l \in Loads, LoadQueue(l) \/ Recover(l) PROVE QueueIInv'
  BY <1>2, LoadQueueKeeps, RecoverKeeps
<1>3. CASE ServerRestart
  BY <1>3, ServerRestartKeeps
<1>4. ASSUME NEW s \in Syncs, StartSync(s) \/ SyncStep(s) PROVE QueueIInv'
  BY <1>4, StartSyncKeeps, SyncPostKeeps, SyncAnsweredKeeps, SyncTimesOutKeeps DEF SyncStep
<1>5. CASE ServerStep
  BY <1>5, ServeKeeps, FinishKeeps, FinishUnansweredKeeps, OverloadKeeps DEF ServerStep
<1>6. CASE ClearDevice
  BY <1>6, ClearDeviceKeeps
<1>7. CASE Restart
  BY <1>7, RestartKeeps
<1>8. CASE StorageFlips
  BY <1>8, StorageFlipsKeeps
<1>9. CASE UNCHANGED vars
  <2>1. /\ UNCHANGED <<world, page, history, idb, fallback, idbUp, made, plan, todo, keys, fate>>
        /\ UNCHANGED <<net, commits, known, claim, lost, faults>>
    BY <1>9 DEF vars, device, server
  <2>2. TypeOK /\ KeyPart /\ DevicePart /\ Queued' = Queued
    BY <2>1 DEF QueueIInv, Queued
  <2>3. /\ KeyPart'
        /\ \A g \in Forms : \A k \in keys[g] : Grounds(k, g) => Grounds(k, g)'
    BY <2>1, <2>2, NoneLeft, QuietKeepsKeys DEF server
  <2>4. SendersWait'
    BY <2>1, <2>2 DEF DevicePart, SendersWait
  <2> QED
    BY <2>1, <2>2, <2>3, <2>4, ServerKeepsDevice DEF TypeOK
<1> QED
  BY <1>1, <1>2, <1>3, <1>4, <1>5, <1>6, <1>7, <1>8, <1>9 DEF Next

LEMMA QueueIsSafe == Spec => []QueueIInv
BY InitQueue, NextKeepsQueue, PTL DEF Spec

(***************************************************************************)
(* Theorems.                                                               *)
(***************************************************************************)

\* The queue as a whole: its types, the history says delivered only of forms
\* the server stored (saveHarvestHistory, markHarvestHistoryStatus), and what
\* handleLogoutAndClearDevice removed while no handler held it stays away.
THEOREM QueueFitsTogether == Spec => []QueueInv
<1>1. QueueIInv => QueueInv
  <2> SUFFICES ASSUME QueueIInv PROVE TypeOK /\ DeliveredIsStored /\ ClearedStaysGone
    BY DEF QueueInv
  <2>1. TypeOK /\ DeliveredIsStored /\ GoneIsGone
    BY DEF QueueIInv, DevicePart
  <2>2. ClearedStaysGone
    BY <2>1 DEF GoneIsGone, ClearedStaysGone, Queued
  <2> QED
    BY <2>1, <2>2
<1> QED
  BY <1>1, QueueIsSafe, PTL

\* A stored form that is refused under one of its keys was sent under another,
\* or an answer about the key was lost, or its photos were used before.
LEMMA StoredAndRefused ==
    ASSUME QueueIInv, NEW f \in Forms, NEW k \in keys[f], Grounds(k, f), Stored(f)
    PROVE  TwoKeys(f) \/ keys[f] \cap lost # {} \/ PhotosUsed(f)
<1>1. PICK c \in commits : c.form = f
  BY DEF Stored
<1>2. c.key \in keys[f] /\ f \notin Invalid
  BY <1>1 DEF QueueIInv, KeyPart, CommitsNamed
<1>3. CASE Dead(k, f)
  BY <1>1, <1>2, <1>3 DEF Dead, TwoKeys
<1> QED
  BY <1>2, <1>3 DEF Grounds

LEMMA ThatIsExcused ==
    ASSUME TypeOK, NEW f \in Forms, TwoKeys(f) \/ keys[f] \cap lost # {} \/ PhotosUsed(f)
    PROVE  Excused(f)
<1>1. TwoKeys(f) => Cardinality(keys[f]) >= 2
  BY TwoKeysCount DEF TypeOK, TwoKeys
<1> QED
  BY <1>1 DEF Excused, PhotosUsed

\* The idempotency key that enqueueHarvest gives an item is at work once at a
\* time and commits once unless an answer about it was lost; one key alone
\* makes a stored form look refused only then, or when another form was stored
\* with the same fallback photos.
THEOREM KeysDoTheirWork == Spec => []KeyInv
<1>1. QueueIInv => KeyInv
  <2> SUFFICES ASSUME QueueIInv PROVE OneCommitPerKey /\ RefusedButStoredIsExcused
    BY DEF KeyInv
  <2>1. ASSUME NEW f \in Forms, history[f] = "FAILED_VALIDATION", Stored(f)
        PROVE  Excused(f)
    BY <2>1, StoredAndRefused, ThatIsExcused DEF QueueIInv, DevicePart, FailedExcused
  <2> QED
    BY <2>1 DEF QueueIInv, KeyPart, RefusedButStoredIsExcused
<1> QED
  BY <1>1, QueueIsSafe, PTL

\* No form is forgotten: handleSubmit puts it in the history before anything
\* else, and a newest form leaves the history only with the whole device.
THEOREM NoFormIsForgotten == Spec => []NothingForgotten
<1>1. QueueIInv => NothingForgotten
  <2> SUFFICES ASSUME QueueIInv, NEW f \in Newest(Submitted), fate[f] = "kept"
               PROVE  Stored(f) \/ history[f] \in {"PENDING_SYNC", "FAILED_VALIDATION"}
    BY DEF NothingForgotten
  <2>1. f \in Forms
    BY DEF Newest, Submitted
  <2>2. history[f] \in Statuses \ {"absent"}
    BY <2>1 DEF QueueIInv, TypeOK, DevicePart, NewestIsShown
  <2>3. history[f] = "DONE" => Stored(f)
    BY <2>1 DEF QueueIInv, DevicePart, DeliveredIsStored
  <2> QED
    BY <2>2, <2>3 DEF Statuses
<1> QED
  BY <1>1, QueueIsSafe, PTL

\* What a step may do to a form that is shown as delivered.
StaysDelivered ==
    \A f \in Forms :
       history[f] = "DONE" /\ history'[f] \in {"PENDING_SYNC", "FAILED_VALIDATION"}
           => Excused(f)'

\* Why a form may be refused although it is stored.
Reason(f) == TwoKeys(f) \/ keys[f] \cap lost # {} \/ PhotosUsed(f)

LEMMA ReasonExcuses ==
    ASSUME TypeOK, NEW f \in Forms, Reason(f)
    PROVE  Excused(f)
BY ThatIsExcused DEF Reason

LEMMA ReasonWillExcuse ==
    (\A f \in Forms : TypeOK /\ Reason(f) => Excused(f))'
<1>1. \A f \in Forms : TypeOK /\ Reason(f) => Excused(f)
  BY ReasonExcuses
<1> QED
  BY <1>1, PTL

\* Only forms in the hands of handlers lose their delivered state, and these
\* were sent under two keys or had a reason to be refused before.
LEMMA StepsStayDelivered == QueueIInv /\ QueueIInv' /\ [Next]_vars => [StaysDelivered]_history
<1> SUFFICES ASSUME QueueIInv, QueueIInv', Next, NEW f \in Forms, history[f] = "DONE",
                    history'[f] \in {"PENDING_SYNC", "FAILED_VALIDATION"}
             PROVE  Reason(f)'
  BY ReasonWillExcuse DEF StaysDelivered, vars, device, QueueIInv
<1>1. TypeOK /\ KeyPart /\ DevicePart
  BY DEF QueueIInv
<1>2. Stored(f)
  BY <1>1 DEF DevicePart, DeliveredIsStored
<1>3. /\ "PENDING_SYNC" \in Statuses \ {"absent"} /\ "DONE" \in Statuses \ {"absent"}
  BY DEF Statuses
<1>4. ASSUME NEW g \in Forms, Submit(g) PROVE Reason(f)'
  <2>1. page[g] = "new" /\ history' = Saved(g, "PENDING_SYNC")
    BY <1>4 DEF Submit
  <2>2. f # g
    BY <1>1, <2>1 DEF DevicePart, NewIsUntouched
  <2> QED
    BY <1>1, <1>3, <2>1, <2>2, SavedIs
<1>5. ASSUME NEW g \in Forms, SubmitAnswered(g) PROVE Reason(f)'
  <2>1. history' = Saved(g, "DONE") \/ history' = history
    BY <1>5 DEF SubmitAnswered
  <2>2. CASE history' = Saved(g, "DONE")
    <3>1. history'[g] \in {"DONE", "absent"}
          /\ \A h \in Forms \ {g} : history'[h] \in {history[h], "absent"}
      BY <1>1, <1>3, <2>2, SavedIs
    <3> QED
      BY <3>1
  <2> QED
    BY <2>1, <2>2
<1>6. ASSUME NEW g \in Forms, SubmitTimesOut(g) PROVE Reason(f)'
  <2>1. page[g] = "waiting" /\ history' = Saved(g, "PENDING_SYNC") /\ keys' = keys
    BY <1>6 DEF SubmitTimesOut
  <2>2. CASE f = g
    BY <1>1, <2>1, <2>2 DEF DevicePart, WaitingIsSent, TwoKeys, Reason
  <2>3. CASE f # g
    BY <1>1, <1>3, <2>1, <2>3, SavedIs
  <2> QED
    BY <2>2, <2>3
<1>7. ASSUME NEW s \in Syncs, SyncAnswered(s) PROVE Reason(f)'
  <2>1. PICK r \in Calls(s) :
          /\ \/ history' = Marked(r.form, "DONE")
             \/ r.code = "invalid" /\ history' = Marked(r.form, "FAILED_VALIDATION")
             \/ history' = history
          /\ keys' = keys /\ server' = server
    BY <1>7 DEF SyncAnswered
  <2>2. r \in net /\ r.code = "invalid" /\ r.form = f
    BY <1>1, <2>1 DEF Calls, Marked, TypeOK
  <2>3. r.key \in keys[f] /\ Grounds(r.key, f)
    BY <1>1, <2>2 DEF KeyPart, RequestsNamed, RefusalsExcused
  <2>4. Reason(f)
    BY <1>2, <2>3, StoredAndRefused DEF Reason
  <2> QED
    BY <2>1, <2>4 DEF Reason, TwoKeys, PhotosUsed, server
<1>8. CASE ClearDevice
  BY <1>8 DEF ClearDevice
<1>9. CASE UNCHANGED history
  BY <1>9
<1>10. \A g \in Forms : SubmitQueues(g) => UNCHANGED history
  BY DEF SubmitQueues
<1>11. /\ \A l \in Loads : LoadQueue(l) \/ Recover(l) => UNCHANGED history
       /\ Restart \/ StorageFlips \/ ServerRestart => UNCHANGED history
  BY DEF LoadQueue, Recover, Restart, StorageFlips, ServerRestart, device
<1>12. \A s \in Syncs : StartSync(s) \/ SyncPost(s) \/ SyncTimesOut(s) => UNCHANGED history
  BY DEF StartSync, SyncPost, SyncTimesOut, device
<1>13. ServerStep => UNCHANGED history
  BY DEF ServerStep, Serve, Finish, FinishUnanswered, Overload, device
<1> QED
  BY <1>4, <1>5, <1>6, <1>7, <1>8, <1>9, <1>10, <1>11, <1>12, <1>13
     DEF Next, FormStep, SyncStep

\* A form shown as delivered is shown as pending or refused again only when it
\* was sent under two keys, an answer about one of them was lost, or another
\* form was stored with the same fallback photos.
THEOREM DeliveredFormsStayDelivered == Spec => DeliveredStaysDelivered
<1>1. QueueIInv /\ QueueIInv' /\ [Next]_vars => [StaysDelivered]_history
  BY StepsStayDelivered
<1> QED
  BY <1>1, QueueIsSafe, PTL DEF Spec, DeliveredStaysDelivered, StaysDelivered
================================================================================
