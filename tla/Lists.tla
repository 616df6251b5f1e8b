-------------------------------- MODULE Lists --------------------------------
(***************************************************************************)
(* The lists with pages: listSubscriptionPlan stands for all of them, as   *)
(* they are the same code on another table.  A list counts the rows, then  *)
(* reads one page of them in the order the input asks for; the client      *)
(* walks from the first page to what the latest answer said is the last,   *)
(* while plans come, go and change.  The rows are those that are not in    *)
(* the stash; filters by name are left out.                                *)
(***************************************************************************)
EXTENDS Plan, Paging, SequencesExt

CONSTANT Sizes      \* values of pageSize in the input

VARIABLES
    page,           \* what the client asks for; 0 for no page given
    size,
    order,          \* orderBy of the query
    count,          \* what the handler counted
    step,           \* where the walk is
    seen,           \* ids the answers had, in their order
    \* Observed only by the properties:
    steady,         \* rows listed ever since the walk began that lost no place
    grew,           \* a row came after the latest count
    quiet           \* the list stayed the same, and told all its rows apart

listVars == <<page, size, order, count, step, seen, steady, grew, quiet>>

\* The defaults of orderByField and orderBy; every other choice of the two; and
\* the order if one of them is null.
ByDefault == [field |-> "createdAt", descending |-> TRUE]

Orders == [field: {"createdAt", "name", "price"}, descending: BOOLEAN]
          \cup {[field |-> "id", descending |-> TRUE]}

ListTypeOK ==
    /\ page \in Nat
    /\ size \in Sizes
    /\ order \in Orders
    /\ count \in Nat
    /\ step \in {"idle", "count", "read", "done"}
    /\ seen \in Seq(PlanIds)
    /\ steady \subseteq PlanIds
    /\ {grew, quiet} \subseteq BOOLEAN

ListInit ==
    /\ page = 0 /\ size \in Sizes /\ order \in Orders
    /\ count = 0 /\ step = "idle" /\ seen = <<>>
    /\ steady = {} /\ grew = FALSE /\ quiet = TRUE

Listed(rows) == {p.id : p \in {p \in rows : ~p.stashed}}

-----------------------------------------------------------------------------
(* The order                                                               *)

\* The value of the column, such that the rows with lower ones come first.
Place(rows, id) ==
    LET key == (CHOOSE p \in rows : p.id = id)[order.field]
    IN  IF order.descending THEN -key ELSE key

\* A row with those that come before it, or that the order does not tell from it.
Ahead(rows, id) == {i \in Listed(rows) : Place(rows, i) <= Place(rows, id)}

\* Another row has the same value in the column.
Tied(id) == \E i \in Listed(plans) \ {id} : i \in Ahead(plans, id) /\ id \in Ahead(plans, i)

\* What the database may answer: rows with the same value come in any order,
\* and in another one with the next query.
Orderings ==
    {s \in SetToSeqs(Listed(plans)) :
        \A i, j \in DOMAIN s : i < j => s[i] \in Ahead(plans, s[j])}

-----------------------------------------------------------------------------
\* The client asks for the first page, without a number or with it.
BeginWalk(first) ==
    /\ step = "idle"
    /\ first \in {0, 1}
    /\ page' = first
    /\ step' = "count"
    /\ steady' = Listed(plans)
    /\ UNCHANGED <<planVars, size, order, count, seen, grew, quiet>>

CountRows ==
    /\ step = "count"
    /\ count' = Cardinality(Listed(plans))
    /\ step' = "read"
    /\ grew' = FALSE
    /\ UNCHANGED <<planVars, page, size, order, seen, steady, quiet>>

\* findMany with skip and take; the client goes on if there is a further page.
ReadPage ==
    LET perPage == PerPage(size)
        skip == Skip(page, perPage)
    IN
    /\ step = "read"
    /\ \E s \in Orderings :
          seen' = seen \o SubSeq(s, skip + 1,
                                 IF skip + perPage < Len(s) THEN skip + perPage ELSE Len(s))
    /\ IF CurrentPage(page) < TotalPage(count, perPage)
       THEN page' = CurrentPage(page) + 1 /\ step' = "count"
       ELSE UNCHANGED page /\ step' = "done"
    /\ steady' = {i \in steady : ~Tied(i)}
    /\ quiet' = (quiet /\ \A i \in Listed(plans) : ~Tied(i))
    /\ UNCHANGED <<planVars, size, order, count, grew>>

\* What a write to the plans means for the walk.
Observe ==
    LET before == Listed(plans)
        after == Listed(plans')
    IN
    IF step = "idle" THEN UNCHANGED <<steady, grew, quiet>>
    ELSE /\ steady' = {i \in steady \cap after : Ahead(plans, i) \subseteq Ahead(plans', i)}
         /\ grew' = (grew \/ ~ after \subseteq before)
         /\ quiet' = (quiet /\ before = after
                            /\ \A i \in before : Ahead(plans, i) = Ahead(plans', i))

ListNext ==
    \/ \E first \in {0, 1} : BeginWalk(first)
    \/ CountRows
    \/ ReadPage
    \/ PlanNext /\ Observe /\ UNCHANGED <<page, size, order, count, step, seen>>

-----------------------------------------------------------------------------
(* Properties                                                              *)

\* A client that walks to the last page has seen every row that was there all
\* the while, whatever rows came or fell back behind it: unless a row went from
\* ahead of it, moved behind it or had its value in the column at a read, as any
\* of these may take it over a page boundary; or a row came between the count
\* and the read of the last page.
WalkComplete ==
    step = "done" /\ ~grew => steady \subseteq {seen[i] : i \in DOMAIN seen}

\* A walk over a list at rest shows every row once, in the order asked for.
QuietWalkExact == step = "done" /\ quiet => seen \in Orderings

\* Both: what a client may expect of the pages of a list.
WalkShowsAll == WalkComplete /\ QuietWalkExact
=============================================================================
