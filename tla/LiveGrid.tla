------------------------------ MODULE LiveGrid ------------------------------
(***************************************************************************)
(* A Rico.LiveGrid: a table of which the page holds a window of rows, and  *)
(* fetches others through Rico.AjaxEngine as the user scrolls.  At most    *)
(* one request is processed; while it is, the last wish of the user waits. *)
(* A timeout gives the request up, but not its answer, which may still     *)
(* come.                                                                   *)
(*                                                                         *)
(* Each action is one event: a handler of the page runs to its end.  What  *)
(* a row holds is its position and the version of the table it is from: a  *)
(* new sort order and a new number of rows make a new version.             *)
(***************************************************************************)
EXTENDS LiveGridBuffer, PrototypeAjax

CONSTANTS
    Totals,         \* numbers of rows the table may have
    MaxVersion      \* bound: how often the user sorts or the rows change

ASSUME GridAssumption ==
    Totals \subseteq Nat \ {0} /\ MaxVersion \in Nat

None == 0   \* no request
NoWish == -1

VARIABLES
    grid,       \* the fields of the LiveGrid and of its buffer and view port
    engine,     \* the AjaxEngine: `ajax', and the `query' of each request
    scrollTop,  \* of the scroller, in rows
    scrolled,   \* an event of scrolling waits for its handler
    \* history
    disturbed,  \* since the contents were last reset, rows went into the buffer
                \* that were late or are of an older version; or a wish for the
                \* rows of before waited
    strayed,    \* the scroller came to rows that the buffer still holds, while
                \* a request for others is processed
    applied     \* requests after which rows went into the buffer

vars == <<grid, engine, scrollTop, scrolled, disturbed, strayed, applied>>

-----------------------------------------------------------------------------
(***************************************************************************)
(* AjaxEngine.sendRequest: of the ways it may end, pairs of an engine and  *)
(* the number of the request.                                              *)
(***************************************************************************)
sent(e, q) ==
    LET i == Len(e.query) + 1 IN
    {[ajax |-> request(e.ajax, i, outcome), query |-> Append(e.query, q)] :
        outcome \in {"open", "thrown"}}

mayStillSend(e) == Len(e.query) < MaxRequests

(***************************************************************************)
(* fetchBuffer: the pairs of a grid and an engine it may leave.            *)
(***************************************************************************)
satisfied(g, offset) ==
    isInRange(g.buffer, offset) /\ ~isNearingLimit(g.buffer, offset, g.total)

asked(g, offset) ==
    [start |-> getFetchOffset(g.buffer, offset),
     size |-> getFetchSize(g.buffer, offset, g.total),
     version |-> g.version, total |-> g.total]

fetchNow(g, e, offset) ==
    {[grid |-> [g EXCEPT !.processingRequest = Len(f.query),
                         !.timeoutHandler = Len(f.query),
                         !.timers = @ \union {Len(f.query)}],
      engine |-> f] : f \in sent(e, asked(g, offset))}

\* Mutant: a request is sent although one is processed.
fetchBufferAlways(g, e, offset) ==
    IF satisfied(g, offset) THEN {[grid |-> g, engine |-> e]}
    ELSE IF mayStillSend(e) THEN fetchNow(g, e, offset) ELSE {}

fetchBuffer(g, e, offset) ==
    IF satisfied(g, offset) THEN {[grid |-> g, engine |-> e]}
    ELSE IF g.processingRequest # None
    THEN {[grid |-> [g EXCEPT !.unprocessedRequest = offset], engine |-> e]}
    ELSE IF mayStillSend(e) THEN fetchNow(g, e, offset) ELSE {}

scrollMax(total) == most(total - PageSize, 0)

processQueuedRequest(g, e) ==
    IF g.unprocessedRequest = NoWish THEN {[grid |-> g, engine |-> e]}
    ELSE {[x EXCEPT !.grid.unprocessedRequest = NoWish] :
             x \in fetchBuffer(g, e, g.unprocessedRequest)}

newGrid(n, p) ==
    [buffer |-> cleared, view |-> scrollTo(emptyView, cleared, p),
     total |-> n, version |-> 0,
     processingRequest |-> None, unprocessedRequest |-> NoWish,
     timeoutHandler |-> None, timers |-> {}]

\* The constructor may fetch rows, from a row p on if the options give one: the
\* scroller is moved there, and hears of it later.
Init ==
    /\ \E n \in Totals : \E p \in 0..scrollMax(n) :
          LET g == newGrid(n, p)
              e == [ajax |-> noAjax, query |-> <<>>]
          IN  /\ \/ p = 0 /\ grid = g /\ engine = e
                 \/ \E x \in fetchBuffer(g, e, p) : grid = x.grid /\ engine = x.engine
              /\ scrollTop = p /\ scrolled = (p # 0)
    /\ disturbed = FALSE /\ strayed = FALSE /\ applied = {}

-----------------------------------------------------------------------------
(***************************************************************************)
(* The user, and the code around the grid.                                 *)
(***************************************************************************)
leave(x) == grid' = x.grid /\ engine' = x.engine

\* The handler runs later, once for all the scrolling until then.
userScrolls ==
    /\ \E p \in 0..scrollMax(grid.total) \ {scrollTop} : scrollTop' = p
    /\ scrolled' = TRUE
    /\ UNCHANGED <<grid, engine, disturbed, strayed, applied>>

contentAt(p) ==
    /\ \E x \in fetchBuffer(grid, engine, p) :
          leave([x EXCEPT !.grid.view = scrollTo(@, grid.buffer, p)])
    /\ strayed' = (satisfied(grid, p) /\ grid.processingRequest # None)

handleScroll ==
    /\ scrolled
    /\ scrolled' = FALSE
    /\ contentAt(scrollTop)
    /\ UNCHANGED <<scrollTop, disturbed, applied>>

\* The wheel moves the scroller by two rows and runs the handler at once; the
\* event of the scroller follows.
wheel ==
    /\ \E p \in {most(scrollTop - 2, 0), least(scrollTop + 2, scrollMax(grid.total))} :
          scrollTop' = p /\ contentAt(p)
    /\ scrolled' = TRUE
    /\ UNCHANGED <<disturbed, applied>>

\* resetContents; moving the scroller to 0 makes an event if it was elsewhere.
resetContents(g) ==
    [g EXCEPT !.buffer = cleared, !.view = clearContents(@), !.version = @ + 1]

reset ==
    /\ grid.version < MaxVersion
    /\ scrollTop' = 0
    /\ scrolled' = (scrolled \/ scrollTop # 0)
    /\ UNCHANGED <<strayed, applied>>

\* A click on the header of a column.
sortHandler ==
    /\ reset
    /\ \E x \in fetchBuffer(resetContents(grid), engine, 0) : leave(x)
    /\ disturbed' = FALSE

\* Nothing is fetched here, and a wish that waits is left as it is.
setTotalRows ==
    /\ reset
    /\ \E n \in Totals : grid' = [resetContents(grid) EXCEPT !.total = n]
    /\ disturbed' = (grid.unprocessedRequest # NoWish)
    /\ UNCHANGED engine

\* As code may call it after setTotalRows.
requestContentRefresh ==
    /\ grid.view.offset = 0
    /\ \E x \in fetchBuffer(grid, engine, 0) : leave(x)
    /\ UNCHANGED <<scrollTop, scrolled, disturbed, strayed, applied>>

-----------------------------------------------------------------------------
(***************************************************************************)
(* Answers and timers.                                                     *)
(***************************************************************************)
rowsOf(q) ==
    [k \in 1..most(least(q.size, q.total - q.start), 0) |->
        [version |-> q.version, pos |-> q.start + k - 1]]

\* Mutant: the view port does not hear of the rows.
ajaxUpdateUnseen(g, i) ==
    [g EXCEPT !.timers = @ \ {g.timeoutHandler},
              !.buffer = update(@, rowsOf(engine.query[i]),
                                engine.query[g.processingRequest].start),
              !.processingRequest = None]

\* ajaxUpdate, with the rows of request i.  They are put where the request
\* that is processed asked for some, whichever it is; if none is, the code
\* throws and catches that.
ajaxUpdate(g, i) ==
    LET h == [g EXCEPT !.timers = @ \ {g.timeoutHandler}]
        b == update(g.buffer, rowsOf(engine.query[i]),
                    engine.query[g.processingRequest].start)
    IN  IF g.processingRequest = None THEN h
        ELSE [h EXCEPT !.buffer = b, !.view = bufferChanged(@, b),
                       !.processingRequest = None]

openRequest(i) == engine.ajax.state[i] = "open"

\* The rows go into the buffer for those of another request, or of the table as
\* it is now.
unwanted(i) ==
    /\ grid.processingRequest # None
    /\ i # grid.processingRequest \/ engine.query[i].version # grid.version

gridAnswer(i) ==
    /\ openRequest(i)
    /\ \E x \in processQueuedRequest(ajaxUpdate(grid, i), engine) :
          leave([x EXCEPT !.engine.ajax = respondComplete(@, i, FALSE)])
    /\ applied' = applied \union ({grid.processingRequest} \ {None})
    /\ disturbed' = (disturbed \/ unwanted(i))
    /\ UNCHANGED <<scrollTop, scrolled, strayed>>

\* The answer holds no rows: ajaxUpdate throws and catches.
badAnswer(i) ==
    /\ openRequest(i)
    /\ \E x \in processQueuedRequest(
                    [grid EXCEPT !.timers = @ \ {grid.timeoutHandler},
                                 !.processingRequest = None], engine) :
          leave([x EXCEPT !.engine.ajax = respondComplete(@, i, FALSE)])
    /\ UNCHANGED <<scrollTop, scrolled, disturbed, strayed, applied>>

\* A status other than 200 ends _onRequestComplete; an answer that is no XML
\* makes it throw.  The grid does not hear of either.
failure(i) ==
    /\ openRequest(i)
    /\ \E throws \in BOOLEAN :
          engine' = [engine EXCEPT !.ajax = respondComplete(@, i, throws)]
    /\ UNCHANGED <<grid, scrollTop, scrolled, disturbed, strayed, applied>>

handleTimedOut(i) ==
    /\ i \in grid.timers
    /\ \E x \in processQueuedRequest([grid EXCEPT !.timers = @ \ {i},
                                                  !.processingRequest = None], engine) :
          leave(x)
    /\ UNCHANGED <<scrollTop, scrolled, disturbed, strayed, applied>>

-----------------------------------------------------------------------------
Next ==
    \/ userScrolls \/ handleScroll \/ wheel
    \/ sortHandler \/ setTotalRows \/ requestContentRefresh
    \/ \E i \in Requests :
          \/ gridAnswer(i) \/ badAnswer(i) \/ failure(i) \/ handleTimedOut(i)

Spec == Init /\ [][Next]_vars

-----------------------------------------------------------------------------
\* Until it is disturbed, over scrolling, resets and timeouts with requests under
\* way, the buffer holds rows of the table that is wanted, without gap or
\* overlap, each at its place: appending, prepending and trimming agree with
\* what was asked for (rico.js:1992-2023, 2065-2097).  The grid asks for rows
\* there are, at most as many as it fetches at once, and for none only at the end
\* of the table: near the beginning of a buffer that reaches it, getFetchOffset
\* goes there, not to the rows before (2060-2063, 2085-2087).  A row of the page
\* is blank or the one that belongs there (2167-2203).  What disturbs it is an
\* answer of another request, or of the table as it was, that is taken for the one
\* that is processed (2389-2408), and a row waiting to be fetched when
\* setTotalRows resets the table (2336-2340); the next sort ends that, and nothing
\* else does.
RowsInPlace ==
    ~disturbed =>
        /\ \A k \in DOMAIN grid.buffer.rows :
              grid.buffer.rows[k] = [version |-> grid.version,
                                     pos |-> grid.buffer.startPos + k - 1]
        /\ \A i \in DOMAIN engine.query :
              LET q == engine.query[i] IN q.version = grid.version =>
              /\ q.size \in 0..maxFetchSize /\ q.start \in 0..q.total
              /\ q.size = 0 <=> q.start = q.total
        /\ \A k \in Table :
              grid.view.shown[k] \in {Blank, [version |-> grid.version,
                                              pos |-> grid.view.offset + k - 1]}

\* A request is processed exactly as long as the timer that would end it runs,
\* and no other timer does, so the grid does not wait for ever, even if the
\* answer never comes or comes late (rico.js:2350-2387, 2399-2408).  Prototype
\* counts the requests without an answer, and for ever those that an exception
\* ended (prototype.js:629-659 and 708-735).
TimerGuards ==
    /\ grid.timers = {grid.processingRequest} \ {None}
    /\ grid.unprocessedRequest # NoWish => grid.processingRequest # None
ActiveRequestCount ==
    LET a == engine.ajax IN
    a.active = Cardinality(withState(a, "open") \union withState(a, "thrown")
                           \union a.uncounted)
RequestsAccounted == TimerGuards /\ ActiveRequestCount

\* When nothing is processed, the scroller rests and the last request brought
\* rows, the page shows what the scroller points at, as far as there are rows
\* (rico.js:2399-2408, 2434-2439), also after sorts and timeouts in the middle of
\* requests.  Excepted is a buffer that was disturbed, as in RowsInPlace, where the
\* code shows wrong rows until the next sort; and that the user came back to rows
\* of the buffer while others were fetched, which then replace it (strayed).
ViewSettles ==
    /\ ~disturbed /\ ~strayed /\ ~scrolled /\ grid.processingRequest = None
    /\ Len(engine.query) \in applied
    /\ grid.buffer.rows # <<>>
    => \A k \in 1..PageSize :
           scrollTop + k <= grid.total =>
               grid.view.shown[k] = [version |-> grid.version, pos |-> scrollTop + k - 1]
=============================================================================
