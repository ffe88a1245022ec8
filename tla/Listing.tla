-------------------------------- MODULE Listing --------------------------------
(***************************************************************************)
(* A list read page by page: pageWindow, paginate and the page queries of  *)
(* StoreService on one side, the page of lots of the portal on the other,  *)
(* while harvests are added and transfers change the status a list is      *)
(* filtered by.                                                            *)
(*                                                                         *)
(* A lot is listed by the time its client gave, so a new one may appear    *)
(* anywhere.  count and findMany are two statements of one transaction,    *)
(* each with its own snapshot.  Answers come in any order, or never.       *)
(***************************************************************************)
EXTENDS Integers, Sequences, FiniteSets, SequencesExt

CONSTANTS
    PageSize,
    Slots,        \* requests of the browser under way at once
    NoRequest, NoAnswer,
    MaxRows,      \* bound: lots
    MaxAsked      \* bound: requests of the browser

ASSUME ListingAssumption ==
    PageSize \in Nat \ {0} /\ MaxRows \in Nat /\ MaxAsked \in Nat \ {0}

Stages == {"harvested", "collected"}
Filters == {"all"} \cup Stages

VARIABLES
    rows,     \* lots in the order of the list
    filter,   \* what the user has chosen
    asked,    \* requests under way; left, alone, matching only serve walk
    view,     \* what the browser shows
    walk,     \* what was shown since page 1; nothing reads it
    requests  \* how many were sent

listingVars == <<rows, filter, asked, view, walk, requests>>

ListingTypeOK ==
    /\ rows \in Seq([id : 1..MaxRows, stage : Stages])
    /\ filter \in Filters
    /\ asked \in [Slots -> [filter : Filters, page : Nat \ {0}, total : Nat \cup {-1}, torn : BOOLEAN,
                            items : SUBSET (1..MaxRows), found : BOOLEAN, left : BOOLEAN,
                            alone : BOOLEAN, matching : SUBSET (1..MaxRows)] \cup {NoRequest}]
    /\ view = NoAnswer \/ view \in [page : Nat \ {0}, totalPages : Nat, total : Nat, torn : BOOLEAN,
                                     items : SUBSET (1..MaxRows)]
    /\ walk \in [of : Filters \cup {"none"}, kept : SUBSET (1..MaxRows), seen : SUBSET (1..MaxRows),
                 left : BOOLEAN]
    /\ requests \in 0..MaxAsked

Matches(row, f) == f = "all" \/ row.stage = f

\* The lots of a filter, as far as place n of the list.
Matching(f, n) == {rows[i].id : i \in {j \in 1..n : Matches(rows[j], f)}}

Ranked(f, i) == Cardinality(Matching(f, i))

Request(f, page) ==
    [filter |-> f, page |-> page, total |-> -1, torn |-> FALSE, items |-> {}, found |-> FALSE,
     left |-> FALSE, alone |-> TRUE, matching |-> {}]

\* The list opens with its first page.
ListingInit ==
    /\ rows = <<>> /\ filter = "all"
    /\ \E s \in Slots : asked = [x \in Slots |-> IF x = s THEN Request("all", 1) ELSE NoRequest]
    /\ view = NoAnswer
    /\ walk = [of |-> "none", kept |-> {}, seen |-> {}, left |-> FALSE]
    /\ requests = 1

(***************************************************************************)
(* The browser asks: load(targetPage).                                     *)
(***************************************************************************)

Load(s, f, page) ==
    /\ requests < MaxAsked /\ requests' = requests + 1
    /\ asked[s] = NoRequest
    /\ LET alone == \A x \in Slots : asked[x] = NoRequest IN
          asked' = [x \in Slots |->
              IF x = s THEN [Request(f, page) EXCEPT !.alone = alone]
              ELSE IF asked[x] = NoRequest THEN NoRequest ELSE [asked[x] EXCEPT !.alone = FALSE]]
    /\ UNCHANGED <<rows, view, walk>>

Choose(s, f) == filter # f /\ filter' = f /\ Load(s, f, 1)

Refresh(s) == Load(s, filter, IF view = NoAnswer THEN 1 ELSE view.page) /\ UNCHANGED filter

NextPage(s) ==
    /\ view # NoAnswer /\ view.page < view.totalPages
    /\ Load(s, filter, view.page + 1) /\ UNCHANGED filter

PreviousPage(s) ==
    /\ view # NoAnswer /\ view.page > 1
    /\ Load(s, filter, view.page - 1) /\ UNCHANGED filter

(***************************************************************************)
(* The server answers.                                                     *)
(***************************************************************************)

Skip(page) == (page - 1) * PageSize

\* Mutant: a last page that is not full is not counted.
TotalPagesFloor(total) == total \div PageSize

TotalPages(total) == (total + PageSize - 1) \div PageSize

Count(s) ==
    /\ asked[s] # NoRequest /\ asked[s].total = -1
    /\ asked' = [asked EXCEPT ![s].total = Ranked(asked[s].filter, Len(rows))]
    /\ UNCHANGED <<rows, filter, view, walk, requests>>

\* The lots of a page; how a page is sorted makes no difference here.
OnPage(f, page) ==
    {rows[i].id : i \in {j \in DOMAIN rows :
        Matches(rows[j], f) /\ Ranked(f, j) \in (Skip(page) + 1)..(Skip(page) + PageSize)}}

Find(s) ==
    /\ asked[s] # NoRequest /\ asked[s].total >= 0 /\ ~asked[s].found
    /\ LET r == asked[s] IN
          asked' = [asked EXCEPT ![s] =
              [r EXCEPT !.found = TRUE, !.items = OnPage(r.filter, r.page),
                        !.matching = Matching(r.filter, Len(rows)),
                        !.torn = Ranked(r.filter, Len(rows)) # r.total]]
    /\ UNCHANGED <<rows, filter, view, walk, requests>>

\* The answer is shown whatever the user has chosen since.
Deliver(s) ==
    /\ asked[s] # NoRequest /\ asked[s].found
    /\ LET r == asked[s] IN
          /\ view' = [page |-> r.page, totalPages |-> TotalPages(r.total), total |-> r.total,
                      torn |-> r.torn, items |-> r.items]
          /\ walk' = IF ~r.alone THEN [walk EXCEPT !.of = "none"]
                     ELSE IF r.page = 1
                     THEN [of |-> r.filter, kept |-> r.matching, seen |-> r.items, left |-> r.left]
                     ELSE IF r.filter = walk.of THEN [walk EXCEPT !.seen = @ \cup r.items]
                     ELSE [walk EXCEPT !.of = "none"]
    /\ asked' = [asked EXCEPT ![s] = NoRequest]
    /\ UNCHANGED <<rows, filter, requests>>

\* No answer, or an error: the list stays as it is.
Lose(s) ==
    /\ asked[s] # NoRequest
    /\ asked' = [asked EXCEPT ![s] = NoRequest]
    /\ UNCHANGED <<rows, filter, view, walk, requests>>

(***************************************************************************)
(* What others do.                                                         *)
(***************************************************************************)

Harvest(i) ==
    /\ Len(rows) < MaxRows
    /\ rows' = InsertAt(rows, i, [id |-> Len(rows) + 1, stage |-> "harvested"])
    /\ UNCHANGED <<filter, asked, view, walk, requests>>

\* Pages of a filter that loses a lot move up; left remembers that, for the
\* walk and for the answers that are still on their way.
Collect(i) ==
    /\ rows[i].stage = "harvested"
    /\ rows' = [rows EXCEPT ![i].stage = "collected"]
    /\ walk' = IF walk.of = "harvested" THEN [walk EXCEPT !.left = TRUE] ELSE walk
    /\ asked' = [s \in Slots |->
          IF asked[s] # NoRequest /\ asked[s].found /\ asked[s].filter = "harvested"
          THEN [asked[s] EXCEPT !.left = TRUE] ELSE asked[s]]
    /\ UNCHANGED <<filter, view, requests>>

ListingNext ==
    \/ \E s \in Slots :
          \/ \E f \in Filters : Choose(s, f)
          \/ Refresh(s) \/ NextPage(s) \/ PreviousPage(s)
          \/ Count(s) \/ Find(s) \/ Deliver(s) \/ Lose(s)
    \/ \E i \in 1..(Len(rows) + 1) : Harvest(i)
    \/ \E i \in DOMAIN rows : Collect(i)

\* A user who turns the pages of one list to the last one has been shown every
\* lot that was there when the first page was read, however many were added
\* meanwhile and whatever was lost or refreshed; unless a lot left the filter,
\* was added between count and findMany, or two requests were under way.
NothingSkipped ==
    view # NoAnswer /\ walk.of # "none" /\ ~walk.left /\ ~view.torn
        /\ view.page >= view.totalPages => walk.kept \subseteq walk.seen

\* Only a page that does not exist is empty.
EmptyMeansEnd ==
    view # NoAnswer /\ view.items = {} /\ ~view.torn => view.page > view.totalPages
=============================================================================
