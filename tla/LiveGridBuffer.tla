--------------------------- MODULE LiveGridBuffer ---------------------------
(***************************************************************************)
(* The buffer and the view port of Rico.LiveGrid: a window of rows of a    *)
(* long table that is kept in the page, and the few of them it displays.   *)
(*                                                                         *)
(* Positions count from 0, as in the code; rows[1] is the row at startPos. *)
(* The field size of the code is always the length of rows.                *)
(***************************************************************************)
EXTENDS Integers, Sequences

CONSTANTS
    PageSize,           \* rows of a page
    LargeBufferSize,    \* rows fetched at once; the buffer holds twice as many
    LimitTolerance      \* rows before the end of the buffer that start a fetch

ASSUME BufferAssumption ==
    /\ PageSize \in Nat \ {0}
    /\ LargeBufferSize \in Nat \ {0}
    /\ LimitTolerance \in Nat

Blank == [version |-> -1, pos |-> -1]
Table == 1..(PageSize + 1)      \* one row more than a page may be visible

maxBufferSize == 2 * LargeBufferSize
maxFetchSize == LargeBufferSize

least(a, b) == IF a <= b THEN a ELSE b
most(a, b) == IF a >= b THEN a ELSE b

cleared == [startPos |-> 0, rows |-> <<>>]
endPos(b) == b.startPos + Len(b.rows)

-----------------------------------------------------------------------------
(***************************************************************************)
(* What to fetch, and whether to.                                          *)
(***************************************************************************)
isInRange(b, p) == p >= b.startPos /\ p + PageSize <= endPos(b)

isNearingLimit(b, p, total) ==
    \/ b.startPos # 0 /\ p - b.startPos < LimitTolerance
    \/ endPos(b) # total /\ endPos(b) - (p + PageSize) < LimitTolerance

getFetchOffset(b, offset) ==
    IF offset > b.startPos THEN most(offset, endPos(b))
    ELSE IF offset + maxFetchSize >= b.startPos THEN most(b.startPos - maxFetchSize, 0)
    ELSE offset

getFetchSize(b, offset, total) ==
    LET at == getFetchOffset(b, offset)
        rest == least(maxFetchSize, total - at)
    IN  IF at >= b.startPos
        THEN IF at = 0 THEN most(rest, maxFetchSize) ELSE rest
        ELSE least(b.startPos - at, maxFetchSize)

-----------------------------------------------------------------------------
(***************************************************************************)
(* New rows come in: before or after the ones there are, or instead.       *)
(***************************************************************************)
lastOf(s, n) == SubSeq(s, Len(s) - n + 1, Len(s))
firstOf(s, n) == SubSeq(s, 1, least(n, Len(s)))

append(b, new, start) ==
    LET all == b.rows \o new
        excess == most(Len(all) - maxBufferSize, 0)
    IN  IF endPos(b) < start THEN [startPos |-> start, rows |-> new]
        ELSE [startPos |-> b.startPos + excess, rows |-> lastOf(all, Len(all) - excess)]

prepend(b, new, start) ==
    [startPos |-> start,
     rows |-> IF start + Len(new) < b.startPos THEN new
              ELSE firstOf(firstOf(new, b.startPos) \o b.rows, maxBufferSize)]

\* Mutant: a buffer that overflows loses rows at its end and keeps its start.
updateTruncates(b, new, start) ==
    IF b.rows = <<>> THEN [startPos |-> start, rows |-> new]
    ELSE IF start > b.startPos
    THEN [append(b, new, start) EXCEPT !.startPos = least(@, b.startPos)]
    ELSE prepend(b, new, start)

update(b, new, start) ==
    IF b.rows = <<>> THEN [startPos |-> start, rows |-> new]
    ELSE IF start > b.startPos THEN append(b, new, start)
    ELSE prepend(b, new, start)

-----------------------------------------------------------------------------
(***************************************************************************)
(* The view port: `shown' are the rows of the HTML table, `offset' is      *)
(* lastPixelOffset, in rows.                                               *)
(***************************************************************************)
emptyView ==
    [shown |-> [k \in Table |-> Blank], offset |-> 0, lastRowPos |-> -1,
     isBlank |-> FALSE, isPartialBlank |-> FALSE]

clearRows(v) ==
    IF v.isBlank THEN v
    ELSE [v EXCEPT !.shown = [k \in Table |-> Blank], !.isBlank = TRUE]

\* The part of the page from p on that the buffer holds is copied: to the end
\* of the table if the page begins before the buffer, else to its beginning.
paint(v, b, p) ==
    LET precedes == b.startPos > p
        from == most(b.startPos, p)
        count == least(endPos(b), p + PageSize + 1) - from
        shift == IF precedes THEN PageSize + 1 - count ELSE 0
    IN  [v EXCEPT !.shown = [k \in Table |->
                      IF k - shift \in 1..count
                      THEN b.rows[from - b.startPos + k - shift] ELSE Blank],
                  !.isBlank = FALSE,
                  !.isPartialBlank = count < PageSize + 1,
                  !.lastRowPos = p]

refreshContents(v, b, p) ==
    IF p = v.lastRowPos /\ ~v.isPartialBlank /\ ~v.isBlank THEN v
    ELSE IF p + PageSize + 1 < b.startPos \/ endPos(b) < p \/ b.rows = <<>>
    THEN clearRows(v)
    ELSE paint(v, b, p)

scrollTo(v, b, p) ==
    IF v.offset = p THEN v ELSE [refreshContents(v, b, p) EXCEPT !.offset = p]

bufferChanged(v, b) == refreshContents(v, b, v.offset)

clearContents(v) == scrollTo(clearRows(v), cleared, 0)
=============================================================================
