------------------------------- MODULE Paging -------------------------------
(***************************************************************************)
(* How a client walks through listEvents and listDeadLetters, page by page *)
(* (analytics-webhook-service.service.ts).  The rows of a tenant are       *)
(* numbered in the order of createdAt; the pages run from the newest to    *)
(* the oldest.  Rows that come while the client walks are newer than its   *)
(* cursor and touch no later page.                                         *)
(*                                                                         *)
(* No two rows have the same createdAt here.  The code orders by createdAt *)
(* alone and nothing keeps two rows from sharing it: what a page holds is  *)
(* then up to the database, and nothing below is said of it.               *)
(***************************************************************************)
EXTENDS Integers, FiniteSetsExt

CONSTANTS
    MaxRows,   \* bound: rows of a tenant
    MaxLimit   \* bound: of the limit a client asks for

ASSUME ListingsAssumption == {MaxRows, MaxLimit} \subseteq Nat

\* Math.min(200, Math.max(1, limit ?? 50)), with 2 for 50 and 3 for 200
PageSize(limit) == Min({3, Max({1, limit})})

\* Mutant: take limit
FetchedExactly(cursor, limit) == {row \in 1..(cursor - 1) : cursor - row <= PageSize(limit)}

\* findMany with take limit + 1: the rows from the top, or those that follow the
\* cursor (cursor, skip: 1); no cursor is above every row.
Fetched(cursor, limit) == {row \in 1..(cursor - 1) : cursor - row <= PageSize(limit) + 1}

\* The newest limit of them.
Items(cursor, limit) == {row \in Fetched(cursor, limit) : cursor - row <= PageSize(limit)}

\* items[limit], or 0 for null
NextCursor(cursor, limit) ==
    IF Fetched(cursor, limit) = Items(cursor, limit) THEN 0 ELSE Min(Fetched(cursor, limit))

\* Showing the page at a cursor to a client that is shown each row as often as times says
\* by the pages that follow.
Shown(rows, cursor, limit, times) ==
    [row \in 1..rows |-> IF row \in Items(cursor, limit) THEN times[row] + 1 ELSE times[row]]

NoTimes(rows) == [row \in 1..rows |-> 0]

\* The pages a client sees until it is given no cursor: how many times it was shown each
\* row, and the cursors it was handed.
Walk(rows, limit) ==
    LET walk[cursor \in 1..(rows + 1)] ==
          LET next == NextCursor(cursor, limit) IN
          IF next = 0 THEN [times |-> Shown(rows, cursor, limit, NoTimes(rows)), cursors |-> {}]
          ELSE [times   |-> Shown(rows, cursor, limit, walk[next].times),
                cursors |-> {next} \cup walk[next].cursors]
    IN walk[rows + 1]

-----------------------------------------------------------------------------
(* Properties.                                                             *)

\* A walk shows every row once, but those it is handed as a cursor, which it never
\* shows: nextCursor is the first row that is not on the page, and the next page begins
\* after it.
OnlyCursorsAreSkipped(rows, limit) ==
    LET walk == Walk(rows, limit) IN
    \A row \in 1..rows : walk.times[row] = IF row \in walk.cursors THEN 0 ELSE 1

=============================================================================
