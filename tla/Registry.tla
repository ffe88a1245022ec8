------------------------------- MODULE Registry -------------------------------
(***************************************************************************)
(* Accounts: AuthService (registration, login, profile, Zalo exchange) and *)
(* AdminService (createActor, updateActor, deleteActor) over the map       *)
(* store.actors and the table actors, and the accounts the login and       *)
(* profile pages keep on a device.                                         *)
(*                                                                         *)
(* Every handler reads and changes the map in one go and then awaits the   *)
(* database; AuthService swallows what the database answers.  An id made   *)
(* from the clock may be one that is in use.  Left out: organization and   *)
(* email, changes of role, expiry, the development tokens.                 *)
(***************************************************************************)
EXTENDS Integers

CONSTANTS
    People,       \* who registers: a person acts in one role
    RoleOf,       \* the role of each person
    PhoneOf,      \* the phone of each person, NoPhone for those of Zalo
    ZaloOf,       \* the Zalo id of each person, or NoZalo
    OtherPhones,  \* numbers of nobody, which a profile may get
    Ids,          \* actor ids made from the clock, by role
    UuidIds,      \* actor ids made from a UUID
    Writers,      \* requests under way at once
    NoPhone, NoZalo,
    Blank,        \* the Zalo id of a form that was left empty
    NoActor, NoWrite, NoAccount, Local,
    MaxPosts,     \* bound: requests that write
    MaxFailures   \* bound: failed writes and restarts

AllIds == UuidIds \cup UNION {Ids[r] : r \in DOMAIN Ids}
Phones == {PhoneOf[p] : p \in People} \cup OtherPhones
Zalos == {ZaloOf[p] : p \in People}

\* who is the person the actor was made for; nothing in the code reads it.
Actors == [who : People, phone : Phones \cup {NoPhone}, zalo : Zalos \cup {NoZalo, Blank},
           status : {"active", "inactive"}]
WriteKinds == {"plot", "create", "phone", "close", "upsert", "audit"}
Writes == [kind : WriteKinds, id : AllIds, row : Actors]

\* A phone belongs to one person of a role, a Zalo id to one person.
ASSUME RegistryAssumption ==
    /\ RoleOf \in [People -> DOMAIN Ids]
    /\ \A p \in People : PhoneOf[p] # NoPhone \/ ZaloOf[p] # NoZalo
    /\ \A p, q \in People : p # q =>
          /\ RoleOf[p] = RoleOf[q] => PhoneOf[p] # PhoneOf[q] \/ PhoneOf[p] = NoPhone
          /\ ZaloOf[p] # ZaloOf[q] \/ ZaloOf[p] = NoZalo
    /\ Blank # NoZalo /\ Blank \notin Zalos
    /\ NoActor \notin Actors /\ NoWrite \notin Writes \cup Writers
    /\ NoAccount \notin AllIds /\ Local \notin AllIds
    /\ MaxPosts \in Nat /\ MaxFailures \in Nat

VARIABLES
    actors,    \* store.actors
    table,     \* the table actors
    writes,    \* the write each request has yet to see done
    asking,    \* the request a device's login page waits for
    account,   \* the account saved on each person's device
    logs,      \* the actors the table audit_logs names
    edited,    \* actors whose phone, Zalo id or status a user or admin has changed
    soiled,    \* actors with a failed write, overlapping writes or a reused id
    posts, failures

registryVars == <<actors, table, writes, asking, account, logs, edited, soiled, posts, failures>>

RegistryTypeOK ==
    /\ actors \in [AllIds -> Actors \cup {NoActor}]
    /\ table \in [AllIds -> Actors \cup {NoActor}]
    /\ writes \in [Writers -> Writes \cup {NoWrite}]
    /\ asking \in [People -> Writers \cup {NoWrite}]
    /\ account \in [People -> AllIds \cup {NoAccount, Local}]
    /\ logs \subseteq AllIds /\ edited \subseteq AllIds /\ soiled \subseteq AllIds
    /\ posts \in 0..MaxPosts /\ failures \in 0..MaxFailures

RegistryInit ==
    /\ actors = [i \in AllIds |-> NoActor]
    /\ table = actors
    /\ writes = [o \in Writers |-> NoWrite]
    /\ asking = [p \in People |-> NoWrite]
    /\ account = [p \in People |-> NoAccount]
    /\ logs = {} /\ edited = {} /\ soiled = {}
    /\ posts = 0 /\ failures = 0

KnownIds == {i \in AllIds : actors[i] # NoActor}
Active == {i \in KnownIds : actors[i].status = "active"}
Writing(i) == \E o \in Writers : writes[o] # NoWrite /\ writes[o].id = i /\ writes[o].kind # "audit"

\* A request starts the write of an actor; a second one soils it.
BeginWrite(o, kind, i, row) ==
    /\ writes[o] = NoWrite
    /\ posts < MaxPosts
    /\ posts' = posts + 1
    /\ writes' = [writes EXCEPT ![o] = [kind |-> kind, id |-> i, row |-> row]]
    /\ actors' = [actors EXCEPT ![i] = row]

Soil(i) == soiled' = IF Writing(i) THEN soiled \cup {i} ELSE soiled

New(p, phone, zalo) == [who |-> p, phone |-> phone, zalo |-> zalo, status |-> "active"]

\* The device's page takes the answer if it still waits for it.
Reply(o, i) ==
    /\ account' = [p \in People |-> IF asking[p] = o THEN i ELSE account[p]]
    /\ asking' = [p \in People |-> IF asking[p] = o THEN NoWrite ELSE asking[p]]

(***************************************************************************)
(* Registration and login.                                                 *)
(***************************************************************************)

RoleOfId(i) == RoleOf[actors[i].who]

\* The active actors found for a person: by role and phone, or by Zalo id.
ByPhone(p) ==
    {i \in Active : PhoneOf[p] # NoPhone /\ actors[i].phone = PhoneOf[p] /\ RoleOfId(i) = RoleOf[p]}
ByZalo(p) == {i \in Active : ZaloOf[p] # NoZalo /\ actors[i].zalo = ZaloOf[p]}

\* find takes the first: a single one, unless numbers were edited.
Existing(p) ==
    /\ asking[p] = NoWrite
    /\ \E i \in ByPhone(p) \cup ByZalo(p) : account' = [account EXCEPT ![p] = i]
    /\ UNCHANGED <<actors, table, writes, asking, logs, edited, soiled, posts, failures>>

\* A new actor replaces whatever the map holds under its id.
Create(o, p, kind, row) ==
    /\ \E i \in Ids[RoleOf[p]] :
          /\ BeginWrite(o, kind, i, row)
          /\ soiled' = IF actors[i] = NoActor THEN soiled ELSE soiled \cup {i}
    /\ asking' = [asking EXCEPT ![p] = o]
    /\ UNCHANGED <<table, account, logs, edited, failures>>

\* Mutant: the phone is looked up in the table.
RegisterByRow(o, p) ==
    /\ RoleOf[p] = "FARMER" /\ PhoneOf[p] # NoPhone /\ asking[p] = NoWrite
    /\ ~\E i \in AllIds : table[i] # NoActor /\ table[i].phone = PhoneOf[p]
    /\ Create(o, p, "plot", New(p, PhoneOf[p], NoZalo))

\* Who registers with a phone is known by it alone.  A farmer comes with a
\* plot, whose row is tried before the actor's.
RegisterFarmer(o, p) ==
    /\ RoleOf[p] = "FARMER" /\ PhoneOf[p] # NoPhone /\ asking[p] = NoWrite
    /\ ByPhone(p) = {}
    /\ Create(o, p, "plot", New(p, PhoneOf[p], NoZalo))

\* registerCooperative does the same for its role.
RegisterCollector(o, p) ==
    /\ RoleOf[p] # "FARMER" /\ PhoneOf[p] # NoPhone /\ asking[p] = NoWrite
    /\ ByPhone(p) = {}
    /\ Create(o, p, "create", New(p, PhoneOf[p], NoZalo))

\* Zalo has confirmed the id before the actors are searched; who comes anew
\* comes as a farmer without a phone, and may have another account by phone.
ExchangeZaloToken(o, p) ==
    /\ RoleOf[p] = "FARMER" /\ ZaloOf[p] # NoZalo /\ asking[p] = NoWrite
    /\ ByZalo(p) = {}
    /\ Create(o, p, "create", New(p, NoPhone, ZaloOf[p]))

\* farmPlot.create never succeeds: the field polygonGeojson does not exist
\* and the geometry column has no default.  The rejection is swallowed; a
\* client without the method throws, and the actor is never written.
PlotRejected(o) ==
    /\ writes[o] # NoWrite /\ writes[o].kind = "plot"
    /\ \/ /\ writes' = [writes EXCEPT ![o].kind = "create"]
          /\ UNCHANGED <<asking, soiled>>
       \/ /\ writes' = [writes EXCEPT ![o] = NoWrite]
          /\ asking' = [p \in People |-> IF asking[p] = o THEN NoWrite ELSE asking[p]]
          /\ soiled' = soiled \cup {writes[o].id}
    /\ UNCHANGED <<actors, table, account, logs, edited, posts, failures>>

\* handleRegister without an answer: the page makes up an account.
LocalAccount(p) ==
    /\ PhoneOf[p] # NoPhone
    /\ account[p] # Local \/ asking[p] # NoWrite
    /\ account' = [account EXCEPT ![p] = Local]
    /\ asking' = [asking EXCEPT ![p] = NoWrite]
    /\ UNCHANGED <<actors, table, writes, logs, edited, soiled, posts, failures>>

(***************************************************************************)
(* Profiles and administration.                                            *)
(***************************************************************************)

\* AuthService.verify on the token a device holds.
Verified(p) == account[p] \in Active

UpdateProfile(o, p, phone) ==
    /\ Verified(p)
    /\ LET i == account[p] IN
          /\ BeginWrite(o, "phone", i, [actors[i] EXCEPT !.phone = phone])
          /\ edited' = edited \cup {i}
          /\ Soil(i)
    /\ UNCHANGED <<table, asking, account, logs, failures>>

\* Mutant: only the map is changed.
DeleteProfileInMemory(o, p) ==
    /\ Verified(p) /\ writes[o] = NoWrite
    /\ actors' = [actors EXCEPT ![account[p]].status = "inactive"]
    /\ UNCHANGED <<table, writes, asking, account, logs, edited, soiled, posts, failures>>

DeleteProfile(o, p) ==
    /\ Verified(p)
    /\ LET i == account[p] IN
          /\ BeginWrite(o, "close", i, [actors[i] EXCEPT !.status = "inactive"])
          /\ Soil(i)
    /\ UNCHANGED <<table, asking, account, logs, edited, failures>>

\* A Zalo id that is sent belongs to no other actor of the map; one that is
\* left out or blank is not compared.
ZaloAllowed(i, zalo) ==
    zalo \in {NoZalo, Blank} \/ \A j \in KnownIds \ {i} : actors[j].zalo # zalo

\* The form of the portal sends a blank where there is no Zalo id.
AdminCreate(o, p, zalo) ==
    /\ zalo = ZaloOf[p] \/ (ZaloOf[p] = NoZalo /\ zalo = Blank)
    /\ \E i \in UuidIds :
          /\ i \notin KnownIds /\ table[i] = NoActor /\ i \notin soiled
          /\ ZaloAllowed(i, zalo)
          /\ BeginWrite(o, "upsert", i, New(p, PhoneOf[p], zalo))
    /\ UNCHANGED <<table, asking, account, logs, edited, soiled, failures>>

\* Any of the fields; a phone is not compared.  deleteActor is the update to
\* inactive.
AdminUpdate(o, i, phone, zalo, status) ==
    /\ i \in KnownIds
    /\ zalo = actors[i].zalo \/ ZaloAllowed(i, zalo)
    /\ BeginWrite(o, "upsert", i, [actors[i] EXCEPT !.phone = phone, !.zalo = zalo, !.status = status])
    /\ edited' = edited \cup {i}
    /\ Soil(i)
    /\ UNCHANGED <<table, asking, account, logs, failures>>

(***************************************************************************)
(* The database.                                                           *)
(***************************************************************************)

ZaloFree(op) == ~\E j \in AllIds \ {op.id} :
    table[j] # NoActor /\ op.row.zalo # NoZalo /\ table[j].zalo = op.row.zalo

\* Mutant: the update of a profile writes the phone only.
WrittenPhone(op) ==
    CASE op.kind \in {"create", "upsert"} -> op.row
      [] OTHER -> [table[op.id] EXCEPT !.phone = op.row.phone]

\* create and upsert write every column, the updates of AuthService one part.
Written(op) ==
    CASE op.kind \in {"create", "upsert"} -> op.row
      [] op.kind = "phone" -> [table[op.id] EXCEPT !.phone = op.row.phone]
      [] op.kind = "close" -> [table[op.id] EXCEPT !.status = op.row.status]

\* Primary key, unique zalo_user_id (a blank is a value), update of a row that
\* is not there.
Possible(op) ==
    CASE op.kind = "create" -> table[op.id] = NoActor /\ ZaloFree(op)
      [] op.kind = "upsert" -> ZaloFree(op)
      [] OTHER -> table[op.id] # NoActor

Done(o) ==
    writes' = [writes EXCEPT ![o] =
        IF @.kind = "upsert" THEN [@ EXCEPT !.kind = "audit"] ELSE NoWrite]

IsWrite(o) == writes[o] # NoWrite /\ writes[o].kind \in {"create", "phone", "close", "upsert"}

ActorRowWritten(o) ==
    /\ IsWrite(o) /\ Possible(writes[o])
    /\ table' = [table EXCEPT ![writes[o].id] = Written(writes[o])]
    /\ Done(o)
    /\ Reply(o, writes[o].id)
    /\ UNCHANGED <<actors, logs, edited, soiled, posts, failures>>

\* AuthService answers as if nothing had happened, saveActor rejects.
ActorRowRefused(o) ==
    /\ IsWrite(o)
    /\ \/ ~Possible(writes[o]) /\ UNCHANGED failures
       \/ failures < MaxFailures /\ failures' = failures + 1
    /\ writes' = [writes EXCEPT ![o] = NoWrite]
    /\ soiled' = soiled \cup {writes[o].id}
    /\ Reply(o, writes[o].id)
    /\ UNCHANGED <<actors, table, logs, edited, posts>>

\* saveAudit after saveActor.
AuditActor(o) ==
    /\ writes[o] # NoWrite /\ writes[o].kind = "audit"
    /\ writes' = [writes EXCEPT ![o] = NoWrite]
    /\ logs' = logs \cup {writes[o].id}
    /\ UNCHANGED <<actors, table, asking, account, edited, soiled, posts, failures>>

\* hydrate rebuilds the map; an actor without a row is gone.
HydrateActors ==
    /\ failures < MaxFailures /\ failures' = failures + 1
    /\ actors' = table
    /\ soiled' = soiled \cup {i \in AllIds : Writing(i)}
    /\ writes' = [o \in Writers |-> NoWrite]
    /\ asking' = [p \in People |-> NoWrite]
    /\ UNCHANGED <<table, account, logs, edited, posts>>

RegistryNext ==
    \/ \E p \in People : Existing(p) \/ LocalAccount(p)
    \/ \E o \in Writers, p \in People : 
          \/ RegisterFarmer(o, p) \/ RegisterCollector(o, p) \/ ExchangeZaloToken(o, p)
          \/ DeleteProfile(o, p)
          \/ \E zalo \in {ZaloOf[p], Blank} : AdminCreate(o, p, zalo)
    \/ \E o \in Writers, p \in People, phone \in Phones \ {NoPhone} : UpdateProfile(o, p, phone)
    \/ \E o \in Writers, i \in KnownIds, status \in {"active", "inactive"} :
          \E phone \in (Phones \ {NoPhone}) \cup {actors[i].phone},
             zalo \in (Zalos \ {NoZalo}) \cup {actors[i].zalo, Blank} :
                AdminUpdate(o, i, phone, zalo, status)
    \/ \E o \in Writers :
          PlotRejected(o) \/ ActorRowWritten(o) \/ ActorRowRefused(o) \/ AuditActor(o)
    \/ HydrateActors

RegistrySpec == RegistryInit /\ [][RegistryNext]_registryVars

(***************************************************************************)
(* Properties.                                                             *)
(***************************************************************************)

\* Registration checks the map and not the table, and still no two active
\* actors of a role share a phone, and none a Zalo id, through overlapping
\* registrations and restarts, unless somebody edited one of them or one of
\* their writes failed.  (createActor compares Zalo ids, but no phones.)
ActiveContactsUnique ==
    \A i, j \in Active : i # j /\ {i, j} \cap (edited \cup soiled) = {} =>
        /\ \/ actors[i].phone = NoPhone \/ actors[i].phone # actors[j].phone
           \/ RoleOfId(i) # RoleOfId(j)
           \/ {i, j} \cap UuidIds # {}
        /\ actors[i].zalo \in {NoZalo, Blank} \/ actors[i].zalo # actors[j].zalo

\* Swallowed errors aside, map and table agree on every actor whose writes
\* neither failed nor overlapped, whenever none is under way.
QuietRowsMatch ==
    \A i \in AllIds : i \notin soiled /\ ~Writing(i) => actors[i] = table[i]

\* A device's session is that of the person who got it: a number shared by
\* two roles, a restart or a lost answer never gives it another's account.
SessionNamesHolder ==
    \A p \in People : Verified(p) /\ account[p] \notin edited \cup soiled =>
        actors[account[p]].who = p

\* The audit log names no actor the table does not have.
AuditedIsStored == \A i \in logs : table[i] # NoActor

\* An account its user closed is not opened by a later request or a restart.
ClosedStaysClosed ==
    [][\A i \in KnownIds \ Active : i \notin edited' \cup soiled' =>
          actors'[i] # NoActor /\ actors'[i].status = "inactive"]_registryVars

\* Accounts in memory, their rows, sessions and log entries fit together.
RegistryInv == RegistryTypeOK /\ QuietRowsMatch /\ SessionNamesHolder /\ AuditedIsStored
=============================================================================
