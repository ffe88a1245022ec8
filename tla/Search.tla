--------------------------------- MODULE Search ---------------------------------
(***************************************************************************)
(* The page queries of StoreService over plots, actors and audit logs.     *)
(* Each is written twice: as a filter over the maps in memory and as a     *)
(* where clause for PostgreSQL.  The two read what was typed differently.  *)
(*                                                                         *)
(* A row has one field that is searched, one that is compared with a       *)
(* choice and one with what was typed: status and province of a plot,      *)
(* status and role of an actor, action and target type of a log.           *)
(* District, and the other fields that are searched, go the same way; a    *)
(* pending plot is inactive here.                                          *)
(***************************************************************************)
EXTENDS Listing

CONSTANT Words   \* words of the fields, alike up to case

\* What is typed into a field: a word or none, with blanks around or not.
Typed == [word : Words \cup {""}, blanks : BOOLEAN]

IsTyped(t) == t.word # "" \/ t.blanks
Trimmed(t) == t.word

Ids(rs) == {rs[i].id : i \in DOMAIN rs}

Queries == [q : Typed, group : Typed, status : {"", "active", "inactive"}]
Rows == [id : 1..MaxRows, at : 1..MaxRows, status : {"active", "inactive"}, group : Words, word : Words]

ChoiceIs(choice, value) == choice = "" \/ choice = value

\* In memory what was typed is trimmed before it is looked at.
ContainsText(t, row) == Trimmed(t) \in {"", row.word, row.group}

\* PostgreSQL looks for it as it was typed, and no field holds blanks.
ILike(t, row) == IsTyped(t) => ~t.blanks /\ t.word \in {row.word, row.group}

\* A place is trimmed on both sides, but only one asks first what is left.
PlaceIs(t, row) == Trimmed(t) \in {"", row.group}
PlaceEquals(t, row) == IsTyped(t) => Trimmed(t) = row.group

\* Rows of one moment come in the order of their ids, up or down.
NewestFirst(rs, up) ==
    SortSeq(rs, LAMBDA a, b : a.at > b.at \/ (a.at = b.at /\ (a.id < b.id <=> up)))

(***************************************************************************)
(* Plots; public lists only have active ones.  Memory keeps the order they *)
(* were saved in and PostgreSQL sorts by code, so only the sets are        *)
(* compared.                                                               *)
(***************************************************************************)

PlotsInMemory(rs, query, public) ==
    SelectSeq(rs, LAMBDA row :
        /\ public => row.status = "active"
        /\ ChoiceIs(query.status, row.status)
        /\ PlaceIs(query.group, row) /\ ContainsText(query.q, row))

PlotsStored(rs, query, public) ==
    SelectSeq(rs, LAMBDA row :
        /\ IF public THEN row.status = "active" ELSE ChoiceIs(query.status, row.status)
        /\ PlaceEquals(query.group, row) /\ ILike(query.q, row))

(***************************************************************************)
(* Actors and logs, newest first; a role, an action and a target type are  *)
(* chosen and not typed.                                                   *)
(***************************************************************************)

ActorMatches(row, query) ==
    ChoiceIs(query.group.word, row.group) /\ ChoiceIs(query.status, row.status)

ActorsInMemory(rs, query) ==
    NewestFirst(SelectSeq(rs, LAMBDA row : ActorMatches(row, query) /\ ContainsText(query.q, row)), TRUE)

ActorsStored(rs, query) ==
    NewestFirst(SelectSeq(rs, LAMBDA row : ActorMatches(row, query) /\ ILike(query.q, row)), TRUE)

LogMatches(row, query) ==
    ChoiceIs(query.status, row.status) /\ ChoiceIs(query.group.word, row.group)

LogsInMemory(rs, query) ==
    SelectSeq(Reverse(rs), LAMBDA row : LogMatches(row, query) /\ ContainsText(query.q, row))

LogsStored(rs, query) ==
    NewestFirst(SelectSeq(rs, LAMBDA row : LogMatches(row, query) /\ ILike(query.q, row)), FALSE)

\* The slice of a list that is one of its pages.
Page(rs, page) ==
    SubSeq(rs, Skip(page) + 1, IF Skip(page) + PageSize < Len(rs) THEN Skip(page) + PageSize ELSE Len(rs))

(***************************************************************************)
(* Properties, over every query at once.                                   *)
(***************************************************************************)

\* Both modes find the same, with two exceptions: memory finds more when blanks
\* were typed, PostgreSQL finds more when a public list is asked for a status.
ModesAgree(rs) ==
    \A query \in Queries :
        /\ \A public \in BOOLEAN :
              LET memory == Ids(PlotsInMemory(rs, query, public))
                  stored == Ids(PlotsStored(rs, query, public)) IN
              /\ ~(query.q.blanks \/ query.group.blanks) => memory \subseteq stored
              /\ ~(public /\ query.status # "") => stored \subseteq memory
        /\ Ids(ActorsStored(rs, query)) = IF query.q.blanks THEN {} ELSE Ids(ActorsInMemory(rs, query))
        /\ Ids(LogsStored(rs, query)) = IF query.q.blanks THEN {} ELSE Ids(LogsInMemory(rs, query))

\* Actors and logs of different moments are in one order in both modes.
OrderAgrees(rs) ==
    (\A i, j \in DOMAIN rs : i # j => rs[i].at # rs[j].at) =>
        \A query \in {x \in Queries : ~x.q.blanks} :
            /\ LogsStored(rs, query) = LogsInMemory(rs, query)
            /\ ActorsStored(rs, query) = ActorsInMemory(rs, query)

\* No query makes a public list show a plot that is not active.
PublicIsActive(rs) ==
    \A query \in Queries :
        \A row \in Range(PlotsInMemory(rs, query, TRUE)) \cup Range(PlotsStored(rs, query, TRUE)) :
            row.status = "active"

\* The pages of an answer put together are the answer, and the next is empty.
PagesAreTheList(rs) ==
    \A query \in Queries : \A list \in {PlotsStored(rs, query, FALSE), ActorsInMemory(rs, query)} :
        LET pages == TotalPages(Len(list)) IN
        /\ FlattenSeq([p \in 1..pages |-> Page(list, p)]) = list
        /\ Page(list, pages + 1) = <<>>

SearchInv(rs) ==
    /\ ModesAgree(rs) /\ OrderAgrees(rs)
    /\ PublicIsActive(rs) /\ PagesAreTheList(rs)
=============================================================================
