-------------------------------- MODULE Paging --------------------------------
(***************************************************************************)
(* The arithmetic of paginationInputTransformer                            *)
(* (src/src/shared/base-list/base-list-input-transform.ts), which every    *)
(* list uses.  A missing page or size, and one that is not a number, is 0. *)
(***************************************************************************)
EXTENDS Integers

CONSTANT PageSize   \* PAGE_SIZE of the environment

ASSUME PagingAssumption == PageSize \in Nat \ {0}

PerPage(size) == IF size = 0 THEN PageSize ELSE size

Skip(page, perPage) == IF page > 0 THEN (page - 1) * perPage ELSE 0

CurrentPage(page) == IF page = 0 THEN 1 ELSE page

\* Mutant: rounded down.
TotalPageFloor(rows, perPage) == rows \div perPage

\* Math.ceil(rows / perPage).
TotalPage(rows, perPage) == (rows + perPage - 1) \div perPage

\* The rows 0 .. rows - 1 that a page shows.
OnPage(i, page, perPage) == Skip(page, perPage) <= i /\ i < Skip(page, perPage) + perPage
=============================================================================
