------------------------------- MODULE Pages -------------------------------
(***************************************************************************)
(* A client that reads a list (orders, surveys, customers) page by page,   *)
(* following next_page, while other requests change what the list holds.   *)
(* PaginationHelper keeps nothing between two pages, and counts the rows   *)
(* in a second query, after it has read the page.                          *)
(***************************************************************************)
EXTENDS Integers, FiniteSets

CONSTANTS
  Row,           \* the rows there may be, numbered in the order the client asked for
  Limit,         \* the sizes of a page
  MaxChanges     \* bound on the rows that enter or leave during a walk

ASSUME PageConstants ==
  /\ Row \subseteq Int /\ IsFiniteSet(Row)
  /\ Limit \subseteq Nat \ {0}
  /\ MaxChanges \in Nat

VARIABLES
  rows,          \* the rows that pass the filters of the list
  walk,          \* the client's walk: what it waits for, its page and its limit
  seen,          \* the rows it was given
  stayed,        \* history: the rows that were in the list since the walk began
  entered,       \* history: how often a row entered the list during the walk
  left,          \* history: how often one left it
  repeated       \* history: how often the client was given a row it had seen

pageVars == <<rows, walk, seen, stayed, entered, left, repeated>>

Walks == [phase : {"idle", "items", "count", "done"}, page : 0..Cardinality(Row) + 1, limit : Limit \cup {0}]

PagesInit ==
  /\ rows = {}
  /\ walk = [phase |-> "idle", page |-> 0, limit |-> 0]
  /\ seen = {}
  /\ stayed = {}
  /\ entered = 0
  /\ left = 0
  /\ repeated = 0

Walking == walk.phase \in {"items", "count"}

-----------------------------------------------------------------------------
(* The rows the filters let through *)

\* Before the walk the rows come and go freely; walk.phase = "done" ends it.
MayChange == walk.phase = "idle" \/ (Walking /\ entered + left < MaxChanges)

\* A row is created, or changes so that the filters let it through.
EnterList(r) ==
  /\ MayChange
  /\ r \in Row \ rows
  /\ rows' = rows \cup {r}
  /\ entered' = IF Walking THEN entered + 1 ELSE 0
  /\ UNCHANGED <<walk, seen, stayed, left, repeated>>

\* A row is deleted, or changes so that they do not.
LeaveList(r) ==
  /\ MayChange
  /\ r \in rows
  /\ rows' = rows \ {r}
  /\ stayed' = stayed \ {r}
  /\ left' = IF Walking THEN left + 1 ELSE 0
  /\ UNCHANGED <<walk, seen, entered, repeated>>

-----------------------------------------------------------------------------
(* findAll and PaginationHelper.pagination *)

\* page and limit of the DTO; limit 0 is not a page, see the hazards.
StartWalk(limit) ==
  /\ walk.phase = "idle"
  /\ walk' = [phase |-> "items", page |-> 1, limit |-> limit]
  /\ stayed' = rows
  /\ UNCHANGED <<rows, seen, entered, left, repeated>>

Rank(r) == Cardinality({s \in rows : s <= r})

\* Variant: the offset is counted in pages.
OffsetInPages(page, limit) == page - 1

Offset(page, limit) == (page - 1) * limit

\* skip and take
Items(page, limit) ==
  {r \in rows : Offset(page, limit) < Rank(r) /\ Rank(r) <= Offset(page, limit) + limit}

\* getMany.  The bound on the page cuts off nothing (PagesTypes in ReadsProofs).
GetItems ==
  /\ walk.phase = "items"
  /\ walk.page <= Cardinality(Row) + 1
  /\ LET items == Items(walk.page, walk.limit) IN
       /\ seen' = seen \cup items
       /\ repeated' = repeated + Cardinality(items \cap seen)
  /\ walk' = [walk EXCEPT !.phase = "count"]
  /\ UNCHANGED <<rows, stayed, entered, left>>

\* Variant: Math.floor.
FullPages(total_items, limit) == total_items \div limit

TotalPage(total_items, limit) == (total_items + limit - 1) \div limit

\* Variant: nor is an empty list the end.
IsLast(current_page, total_page) == current_page = total_page

\* Variant: a page beyond the last one has a successor.
IsLastOrNone(current_page, total_page) == current_page = total_page \/ total_page = 0

NoNextPage(current_page, total_page) ==
  current_page = total_page \/ total_page = 0 \/ current_page > total_page

\* getCount, in a query of its own; the client asks for next_page if there is one.
GetCount ==
  /\ walk.phase = "count"
  /\ walk' = IF NoNextPage(walk.page, TotalPage(Cardinality(rows), walk.limit))
               THEN [walk EXCEPT !.phase = "done"]
               ELSE [walk EXCEPT !.phase = "items", !.page = @ + 1]
  /\ UNCHANGED <<rows, seen, stayed, entered, left, repeated>>

PagesNext ==
  \/ \E r \in Row : EnterList(r) \/ LeaveList(r)
  \/ \E limit \in Limit : StartWalk(limit)
  \/ GetItems
  \/ GetCount

PagesSpec == PagesInit /\ [][PagesNext]_pageVars

\* Each request is answered, and the client goes on.
FairPagesSpec == PagesSpec /\ WF_pageVars(GetItems) /\ WF_pageVars(GetCount)

-----------------------------------------------------------------------------
(* Properties *)

\* The variables have their types; a walk asks for at most one page more than
\* there are rows.
PagesTypeOK ==
  /\ rows \subseteq Row
  /\ walk \in Walks
  /\ seen \subseteq Row
  /\ stayed \subseteq rows
  /\ {entered, left, repeated} \subseteq Nat

\* A client that walks to the last page misses, of the rows that were in the
\* list all the time, at most one for each row that left the list meanwhile;
\* none, if none left (pagination.helper.ts:6-16: offsets shift under the walk,
\* and the count that ends it is younger than the page).
MissedAtMostLeft ==
  walk.phase = "done" => Cardinality(stayed \ seen) <= left

\* It is given a row twice at most once for each row that entered the list.
RepeatedAtMostEntered == repeated <= entered

\* The walk ends, also when the list shrinks below the page that is asked for
\* (pagination.helper.ts:16).
WalkEnds == walk.phase = "items" ~> walk.phase = "done"
=============================================================================
