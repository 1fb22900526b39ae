---------------------------- MODULE LiveGridSort ----------------------------
(***************************************************************************)
(* Rico.LiveGridSort: the header of a LiveGrid, whose cells are clicked to *)
(* sort by a column.  The header keeps the sort of each column and shows   *)
(* an image for it; the grid keeps the column and the direction it asks    *)
(* the server for.  Both are set by one handler, in different places.      *)
(*                                                                         *)
(* What the grid fetches in the new order is in LiveGrid.                  *)
(***************************************************************************)
EXTENDS Integers

CONSTANTS
    columnCount,
    Unsortable      \* columns the option `columns' declares so

ASSUME HeaderAssumption == columnCount \in Nat /\ Unsortable \subseteq Nat

columns == 0..(columnCount - 1)
sortable == columns \ Unsortable
NoColumn == -1
NaN == -2

VARIABLES
    header,     \* currentSort of each column, and the image it shows
    order,      \* sortCol and sortDir of the grid
    fetched     \* history: rows have been asked for in an order chosen here

headerVars == <<header, order, fetched>>

-----------------------------------------------------------------------------
\* A direction that was left undefined has no image: what is shown stays.
setSortImage(h, n) ==
    IF h.currentSort[n] = "undefined" THEN h
    ELSE [h EXCEPT !.image[n] = h.currentSort[n]]

setSorted(h, n, direction) ==
    setSortImage([h EXCEPT !.currentSort[n] = direction], n)

removeColumnSort(h, n) == setSorted(h, n, "UNSORTED")

setColumnSort(h, n, direction) ==
    IF n = NaN THEN h ELSE setSorted(h, n, direction)

toggleSort(direction) ==
    CASE direction \in {"UNSORTED", "DESC"} -> "ASC"
      [] direction = "ASC" -> "DESC"
      [] OTHER -> direction

toggleColumnSort(h, n) == setSorted(h, n, toggleSort(h.currentSort[n]))

sorted(h) == {n \in columns : h.currentSort[n] # "UNSORTED"}

getSortedColumnIndex(h) ==
    IF sorted(h) = {} THEN NoColumn ELSE CHOOSE n \in sorted(h) : \A k \in sorted(h) : n <= k

\* The options may name a column to start with, with or without a direction.
\* The grid takes it over only if it fetches rows at once.
setSortUI(column, direction, prefetch) ==
    LET h == [currentSort |-> [n \in columns |-> "UNSORTED"],
              image |-> [n \in columns |-> "UNSORTED"]]
    IN  /\ header = IF column = NoColumn THEN h ELSE setSorted(h, column, direction)
        /\ order = IF prefetch /\ column # NoColumn THEN <<column, direction>>
                   ELSE <<NoColumn, "UNSORTED">>
        /\ fetched = prefetch

HeaderInit ==
    \E column \in sortable \union {NoColumn}, direction \in {"ASC", "DESC", "undefined"},
       prefetch \in BOOLEAN : setSortUI(column, direction, prefetch)

\* The column of a click: that of the cell or of the span in it, by the number
\* in its id; the image in the span has no id.
columnNumber ==
    sortable \union IF \E n \in sortable : header.image[n] # "UNSORTED" THEN {NaN} ELSE {}

\* Mutant: the column sorted so far keeps its mark.
clickedKeepsMark(h, n) ==
    LET s == getSortedColumnIndex(h) IN
    IF s = n THEN toggleColumnSort(h, n) ELSE setColumnSort(h, n, "ASC")

clicked(h, n) ==
    LET s == getSortedColumnIndex(h) IN
    IF s = NoColumn THEN setColumnSort(h, n, "ASC")
    ELSE IF s = n THEN toggleColumnSort(h, n)
    ELSE setColumnSort(removeColumnSort(h, s), n, "ASC")

\* The grid's handler does nothing for no column.
gridSorts(n) ==
    IF n = NaN THEN UNCHANGED <<order, fetched>>
    ELSE order' = <<n, header'.currentSort[n]>> /\ fetched' = TRUE

headerCellClicked ==
    \E n \in columnNumber :
        /\ header' = clicked(header, n)
        /\ gridSorts(n)

HeaderSpec == HeaderInit /\ [][headerCellClicked]_headerVars

-----------------------------------------------------------------------------
\* After any clicks, on cells or on the images in them: one column at most is
\* marked, by an image that goes with its direction if that is defined, and once
\* rows have been asked for in an order chosen here, a column that is marked is
\* the one the grid asks the server to sort by (rico.js:2501-2553, 2323-2329).
\* The converse is not so: a click on the image takes the mark away while the
\* grid keeps its order.
MarkIsOrder ==
    /\ \A m, n \in sorted(header) : m = n
    /\ \A n \in columns :
          header.currentSort[n] # "undefined" => header.image[n] = header.currentSort[n]
    /\ \A n \in sorted(header) : fetched => order = <<n, header.currentSort[n]>>
=============================================================================
