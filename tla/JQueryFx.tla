------------------------------ MODULE JQueryFx ------------------------------
(***************************************************************************)
(* The animations of jQuery 1.6: the "fx" queue of an element with its     *)
(* "inprogress" sentinel, queue/dequeue/delay/clearQueue/promise, animate, *)
(* stop, and the one global list of timers every animation is stepped      *)
(* from (jquery.js, "queue" and "effects").                                *)
(*                                                                         *)
(* JavaScript is single threaded but re-entrant: complete callbacks and    *)
(* queued functions are user code called in the middle of tick, stop and   *)
(* dequeue, and may call the library again.  The field stack is the call   *)
(* stack, its head the running frame; the browser delivers a timer or an   *)
(* event only when it is empty.  Between two frames of user code the       *)
(* library runs undisturbed, so its functions are operators on the whole   *)
(* state, page.                                                            *)
(*                                                                         *)
(* Of the styles an animation touches only three facts are kept: whether   *)
(* the element is displayed, whether its size is the natural one, and      *)
(* whether its overflow is clipped.                                        *)
(***************************************************************************)
EXTENDS Integers, Sequences, FiniteSets, SequencesExt

CONSTANTS
  Elements,
  Bystanders, \* bound: elements that get one animation and no other call
  Kinds,      \* entries user code may create: a subset of AllKinds
  Props,      \* the number of properties of an animation
  MaxCalls    \* bound: calls of user code to the library, and exceptions it throws

\* "free" is an animation that is not queued, "instant" one of no duration (and of
\* other properties than the size), and "empty" one of no property at all.
AllKinds == {"toggle", "show", "instant", "free", "empty", "delay", "fn"}
Animations == {"toggle", "show", "free"}

ASSUME FxAssumption ==
  /\ Bystanders \subseteq Elements
  /\ Kinds \subseteq AllKinds
  /\ Props \in Nat \ {0}
  /\ MaxCalls \in Nat

VARIABLES
  page,       \* a record, see Init
  calls,      \* calls of user code so far
  \* History, read by the properties and by nothing else.
  skipped,    \* elements whose queue advanced past an entry that held the turn
  stoppedInside \* stop called by code that tick or stop is running

vars == <<page, calls, skipped, stoppedInside>>

InProgress == 0
Ids == DOMAIN page.entries
Of(e) == {a \in Ids : page.entries[a].elem = e}
RunningOn(e) == page.running \cap Of(e)
TimersOf(a) == {i \in DOMAIN page.timers : page.timers[i].entry = a}

Top == Head(page.stack)
At(fn) == page.stack # <<>> /\ Top.fn = fn
UserCode == page.stack = <<>> \/ At("callback") \/ At("fn")
Frame(fn, e, a) == [fn |-> fn, elem |-> e, entry |-> a]
CodeIn(stack, e) == \E i \in DOMAIN stack : stack[i].fn \in {"callback", "fn"} /\ stack[i].elem = e
CodeOf(e) == CodeIn(page.stack, e)

\* An entry that is still to call dequeue, or is running, holds the turn.
Owed(e) == (page.owed \cap Of(e)) # {}
Busy(e) == \E a \in RunningOn(e) : page.entries[a].kind # "free"
Owes(e) == Owed(e) \/ CodeOf(e)
HasTurn(e) == Owes(e) \/ Busy(e)

(***************************************************************************)
(* The functions of the library, on a page s.                              *)
(***************************************************************************)
\* handleQueueMarkDefer: the promise is resolved in a timeout of its own.
handleQueueMarkDefer(s, e, src) ==
  IF s.defer[e] # 0 /\ (src = "queue" \/ s.queue[e] = <<>>) /\ (src = "mark" \/ s.mark[e] = 0)
  THEN [s EXCEPT !.timeouts = Append(@, [elem |-> e, promise |-> s.defer[e]])]
  ELSE s

_unmark(s, e, force) ==
  LET count == IF force \/ s.mark[e] = 0 THEN 0 ELSE s.mark[e] - 1
      s1 == [s EXCEPT !.mark[e] = count]
  IN IF count = 0 THEN handleQueueMarkDefer(s1, e, "mark") ELSE s1

\* A call of dequeue keeps the array it took the entry from.  Once the element
\* has another array or none, what counts is whether that one was left empty.
Detached(f, e, left) ==
  IF f.fn = "dequeued" /\ f.elem = e /\ f.array = "shared" THEN [f EXCEPT !.array = left] ELSE f

Detach(s, e, left) ==
  [s EXCEPT !.queue[e] = <<>>,
            !.stack = [i \in DOMAIN s.stack |-> Detached(s.stack[i], e, left)]]

\* fx.show and fx.hide: the styles are kept to be put back, and the element shows
\* those the animation begins with, its overflow clipped.
showOrHide(s, e, a) ==
  [s EXCEPT !.entries[a].orig = s.look[e],
            !.look[e] = [shown |-> TRUE, natural |-> FALSE, clipped |-> TRUE]]

\* The function animate passes to queue; delay and user functions.  A "show" of
\* an element that is displayed is complete at once, and so is an animation of no
\* duration, whose timers are called before they would be put into the list.
Start(s, e, a) ==
  LET kind == s.entries[a].kind
  IN CASE kind = "delay" ->
            [s EXCEPT !.owed = @ \union {a}]
       [] kind = "fn" ->
            [s EXCEPT !.owed = @ \union {a}, !.stack = <<Frame("fn", e, a)>> \o @]
       [] kind = "instant" \/ (kind = "show" /\ s.look[e].shown) ->
            [s EXCEPT !.entries[a].completed = 1, !.stack = <<Frame("callback", e, a)>> \o @]
       [] OTHER ->
            [showOrHide(s, e, a) EXCEPT
                      !.running = @ \union {a},
                      !.entries[a].alone = \A b \in s.running : s.entries[b].elem # e,
                      !.timers = @ \o [p \in 1 .. Props |-> [elem |-> e, entry |-> a, prop |-> p]],
                      !.timerId = TRUE,
                      !.loops = IF s.timerId THEN @ ELSE @ + 1]

\* Mutant: the sentinel is not put at the head of the queue.
dequeueUnguarded(s, e) ==
  LET q == s.queue[e]
  IN IF q = <<>>
     THEN handleQueueMarkDefer(Detach(s, e, "empty"), e, "queue")
     ELSE Start([s EXCEPT !.queue[e] = Tail(q),
                          !.stack = <<[fn |-> "dequeued", elem |-> e, array |-> "shared"]>> \o @],
                e, Head(q))

\* jQuery.dequeue up to and with the call of the entry it takes.
dequeue(s, e) ==
  LET q == s.queue[e]
      rest == IF q # <<>> /\ Head(q) = InProgress THEN Tail(q) ELSE q
  IN IF rest = <<>>
     THEN handleQueueMarkDefer(Detach(s, e, "empty"), e, "queue")
     ELSE Start([s EXCEPT !.queue[e] = <<InProgress>> \o Tail(rest),
                          !.stack = <<[fn |-> "dequeued", elem |-> e, array |-> "shared"]>> \o @],
                e, Head(rest))

\* Mutant: the overflow is put back only when the element stays displayed.
finishClipped(s, t) ==
  LET a == t.entry
      s1 == [s EXCEPT !.entries[a].done = @ \union {t.prop}]
  IN IF s1.entries[a].done = 1 .. Props
     THEN [s1 EXCEPT !.running = @ \ {a}, !.entries[a].completed = @ + 1,
                     !.look[t.elem] = [s.entries[a].orig EXCEPT !.shown = ~@, !.clipped = ~s.entries[a].orig.shown],
                     !.stack = <<Frame("callback", t.elem, a)>> \o @]
     ELSE s1

\* step at the end of a property; the last one finishes the animation: styles are
\* put back, a hidden element is hidden, and options.complete is called.
finish(s, t) ==
  LET a == t.entry
      s1 == [s EXCEPT !.entries[a].done = @ \union {t.prop}]
  IN IF s1.entries[a].done = 1 .. Props
     THEN [s1 EXCEPT !.running = @ \ {a}, !.entries[a].completed = @ + 1,
                     !.look[t.elem] = [s.entries[a].orig EXCEPT !.shown = ~@],
                     !.stack = <<Frame("callback", t.elem, a)>> \o @]
     ELSE s1

\* Mutant: the list is cut at i.
spliceRest(s, i) ==
  IF i \in DOMAIN s.timers THEN [s EXCEPT !.timers = SubSeq(@, 1, i - 1)] ELSE s

\* timers.splice(i, 1): past the end of the list it removes nothing.
splice(s, i) ==
  IF i \in DOMAIN s.timers THEN [s EXCEPT !.timers = RemoveAt(@, i)] ELSE s

(***************************************************************************)
(* Calls of user code, from the page or from a callback.                   *)
(***************************************************************************)
\* jQuery.fn.queue: the entry is appended, and started when nothing is running;
\* animate with queue: false runs at once and is counted by _mark.  With nothing
\* to animate its complete is called at once, whatever runs.
enqueue(e, kind) ==
  LET a == Len(page.entries) + 1
      s1 == [page EXCEPT !.entries = Append(@,
               [elem |-> e, kind |-> kind, done |-> {}, completed |-> 0, alone |-> TRUE, orig |-> page.look[e]])]
      s2 == [s1 EXCEPT !.queue[e] = Append(@, a)]
  IN page' = IF kind = "empty" THEN [s1 EXCEPT !.stack = <<Frame("callback", e, a)>> \o @]
             ELSE IF kind = "free" THEN Start([s1 EXCEPT !.mark[e] = @ + 1], e, a)
             ELSE IF s2.queue[e][1] = InProgress THEN s2 ELSE dequeue(s2, e)

\* The array is replaced, sentinel included, and the empty one dequeued.
clear(s, e) ==
  LET s1 == Detach(s, e, IF s.queue[e] = <<>> THEN "empty" ELSE "filled")
  IN dequeue(s1, e)

clearQueue(e) ==
  /\ page' = clear(page, e)
  /\ skipped' = IF HasTurn(e) THEN skipped \union {e} ELSE skipped
  /\ UNCHANGED stoppedInside

\* The loop over the timers begins at the last; see stopLoop.
stop(e, clearFirst, gotoEnd) ==
  LET s1 == IF clearFirst THEN clear(page, e) ELSE page
      s2 == IF gotoEnd THEN s1 ELSE _unmark(s1, e, TRUE)
  IN /\ page' = [s2 EXCEPT !.stack = <<[fn |-> "stop", elem |-> e, gotoEnd |-> gotoEnd,
                                       i |-> Len(s2.timers), ended |-> FALSE]>> \o @]
     /\ stoppedInside' = (\/ stoppedInside
                          \/ \E i \in DOMAIN page.stack : page.stack[i].fn \in {"tick", "stop"})
     /\ skipped' = IF Owes(e) \/ (clearFirst /\ gotoEnd /\ HasTurn(e))
                   THEN skipped \union {e} ELSE skipped

\* promise, of an element that is not idle and has none.
promise(e) ==
  /\ page.queue[e] # <<>> \/ page.mark[e] # 0
  /\ page.defer[e] = 0
  /\ page' = [page EXCEPT !.defer[e] = calls + 1,
                          !.pending = @ \union {[elem |-> e, promise |-> calls + 1]}]

\* show, hide and toggle without a speed: the display changes, and nothing else.
showAtOnce(e) == page' = [page EXCEPT !.look[e].shown = TRUE]
hideAtOnce(e) == page' = [page EXCEPT !.look[e].shown = FALSE]
toggleAtOnce(e) == IF page.look[e].shown THEN hideAtOnce(e) ELSE showAtOnce(e)

Call ==
  /\ UserCode /\ calls < MaxCalls
  /\ calls' = calls + 1
  /\ \/ \E e \in Elements, kind \in Kinds :
          /\ e \in Bystanders => Of(e) = {} /\ kind \in Animations
          /\ enqueue(e, kind)
          /\ UNCHANGED <<skipped, stoppedInside>>
     \/ \E e \in Elements \ Bystanders :
          \/ \E clearFirst, gotoEnd \in BOOLEAN : stop(e, clearFirst, gotoEnd)
          \/ clearQueue(e)
          \/ /\ promise(e) \/ toggleAtOnce(e)
             /\ UNCHANGED <<skipped, stoppedInside>>

\* The function passed to a queued function, which may call it at any time, while
\* it runs or later; the timeout of delay.
next(a) ==
  LET e == page.entries[a].elem
  IN /\ a \in page.owed
     /\ IF page.entries[a].kind = "fn" THEN UserCode ELSE page.stack = <<>>
     /\ page' = dequeue([page EXCEPT !.owed = @ \ {a}], e)
     /\ skipped' = IF CodeOf(e) THEN skipped \union {e} ELSE skipped
     /\ UNCHANGED <<calls, stoppedInside>>

(***************************************************************************)
(* Exceptions.  One that reaches the browser leaves every call, and a      *)
(* timer whose animation it has ended stays in the list: it is called      *)
(* again, and so is its complete, as if it were the first time.            *)
(***************************************************************************)
unwind(s, dropped) ==
  LET left == {i \in DOMAIN s.timers : s.timers[i].prop \in s.entries[s.timers[i].entry].done}
      again == {s.timers[i].entry : i \in left}
      open(a) == {s.timers[i].prop : i \in {j \in left : s.timers[j].entry = a}}
      frames == {s.stack[i] : i \in DOMAIN s.stack}
      calling == {f \in frames : f.fn \in {"callback", "fn"} /\ f.entry # 0}
      losing == {f \in calling :
                    IF f.fn = "fn" THEN f.entry \in dropped
                    ELSE f.entry \notin again /\ s.entries[f.entry].kind # "empty"}
  IN [s EXCEPT !.stack = <<>>,
               !.entries = [a \in DOMAIN s.entries |->
                              IF a \in again
                              THEN [s.entries[a] EXCEPT !.done = @ \ open(a), !.completed = 0]
                              ELSE s.entries[a]],
               !.running = @ \union again,
               !.owed = @ \ dropped,
               !.raised = @ \union {f.elem : f \in {g \in frames : g.fn # "tick"}}
                            \union {s.timers[i].elem : i \in left},
               !.lost = @ \union {f.elem : f \in losing}]

(***************************************************************************)
(* The frames of the library.                                              *)
(***************************************************************************)
Popped == [page EXCEPT !.stack = Tail(@)]

\* The end of dequeue: the queue's data goes when the array it holds is empty.
dequeued ==
  /\ At("dequeued")
  /\ page' = IF Top.array = "empty"
             THEN handleQueueMarkDefer(
                    Detach(Popped, Top.elem, IF page.queue[Top.elem] = <<>> THEN "empty" ELSE "filled"),
                    Top.elem, "queue")
             ELSE Popped

\* opt.complete after the user's function (0: a promise's): the next entry, or one
\* mark less.
complete ==
  /\ At("callback")
  /\ skipped' = IF /\ Top.entry # 0 /\ page.entries[Top.entry].kind = "empty"
                   /\ Owed(Top.elem) \/ Busy(Top.elem) \/ CodeIn(Tail(page.stack), Top.elem)
                THEN skipped \union {Top.elem} ELSE skipped
  /\ page' = IF Top.entry = 0 THEN Popped
             ELSE IF page.entries[Top.entry].kind = "free" THEN _unmark(Popped, Top.elem, FALSE)
             ELSE dequeue(Popped, Top.elem)

fnReturns == At("fn") /\ page' = Popped

\* Without gotoEnd a timer goes as it is: its animation does not finish.
cutShort(s, t) ==
  LET cut == {t.entry} \cap s.running
  IN [s EXCEPT !.running = @ \ cut, !.cut = @ \union cut]

\* Mutant: the queue is left as it is, for the next call of queue to start.
stopReturnsWaiting == Popped

\* Without gotoEnd the next entry of the queue starts.
stopReturns == IF Top.gotoEnd THEN Popped ELSE dequeue(Popped, Top.elem)

\* The loop of stop: with gotoEnd a timer of the element is called for the last
\* time before it goes.  timers[i] may be undefined, which ends all that runs.
stopLoop ==
  /\ At("stop")
  /\ page' =
       IF Top.ended THEN splice([page EXCEPT !.stack[1].ended = FALSE, !.stack[1].i = @ - 1], Top.i)
       ELSE IF Top.i = 0 THEN stopReturns
       ELSE IF Top.i > Len(page.timers) THEN unwind(page, {})
       ELSE IF page.timers[Top.i].elem # Top.elem THEN [page EXCEPT !.stack[1].i = @ - 1]
       ELSE IF Top.gotoEnd THEN finish([page EXCEPT !.stack[1].ended = TRUE], page.timers[Top.i])
       ELSE splice(cutShort([page EXCEPT !.stack[1].i = @ - 1], page.timers[Top.i]), Top.i)

\* jQuery.fx.tick over the list as it is at each turn of the loop.
tick ==
  /\ At("tick")
  /\ page' =
       IF Top.ended THEN splice([page EXCEPT !.stack[1].ended = FALSE], Top.i)
       ELSE IF Top.i > Len(page.timers) THEN [Popped EXCEPT !.timerId = @ /\ page.timers # <<>>]
       ELSE IF page.timers[Top.i].entry \notin Top.due THEN [page EXCEPT !.stack[1].i = @ + 1]
       ELSE finish([page EXCEPT !.stack[1].ended = TRUE], page.timers[Top.i])

Library ==
  /\ \/ complete
     \/ (dequeued \/ fnReturns \/ stopLoop \/ tick) /\ UNCHANGED skipped
  /\ UNCHANGED <<calls, stoppedInside>>

\* A function of the user's throws; a queued one perhaps before it could pass next
\* on.  Nothing between it and the browser catches.
throw ==
  /\ calls < MaxCalls
  /\ At("callback") \/ At("fn")
  /\ calls' = calls + 1
  /\ \E dropped \in SUBSET {page.stack[i].entry : i \in {j \in DOMAIN page.stack : page.stack[j].fn = "fn"}} :
        page' = unwind(page, dropped)
  /\ UNCHANGED <<skipped, stoppedInside>>

(***************************************************************************)
(* The browser: animation frames and timeouts.                             *)
(***************************************************************************)
\* A requestAnimationFrame callback asks for the next one and ticks; due are
\* the animations whose duration is over.
raf(due) ==
  /\ page.stack = <<>> /\ page.loops > 0
  /\ due \subseteq {page.timers[i].entry : i \in DOMAIN page.timers}
  /\ page' = IF page.timerId
             THEN [page EXCEPT !.stack = <<[fn |-> "tick", i |-> 1, ended |-> FALSE, due |-> due]>>]
             ELSE [page EXCEPT !.loops = @ - 1]
  /\ UNCHANGED <<calls, skipped, stoppedInside>>

\* Mutant: the timeout does not look at the queue again.
resolveBlindly ==
  /\ page.stack = <<>> /\ page.timeouts # <<>>
  /\ LET t == Head(page.timeouts)
         s == [page EXCEPT !.timeouts = Tail(@)]
     IN page' = [s EXCEPT !.defer[t.elem] = 0, !.pending = @ \ {t},
                          !.stack = IF t \in page.pending THEN <<Frame("callback", t.elem, 0)>> ELSE <<>>]
  /\ UNCHANGED <<calls, skipped, stoppedInside>>

\* The timeout of handleQueueMarkDefer looks again before it resolves.
resolve ==
  /\ page.stack = <<>> /\ page.timeouts # <<>>
  /\ LET t == Head(page.timeouts)
         s == [page EXCEPT !.timeouts = Tail(@)]
     IN page' = IF page.queue[t.elem] = <<>> /\ page.mark[t.elem] = 0
                THEN [s EXCEPT !.defer[t.elem] = 0, !.pending = @ \ {t},
                               !.stack = IF t \in page.pending THEN <<Frame("callback", t.elem, 0)>> ELSE <<>>]
                ELSE s
  /\ UNCHANGED <<calls, skipped, stoppedInside>>

Init ==
  /\ page = [entries |-> <<>>,      \* what was passed to queue, or run at once
             queue |-> [e \in Elements |-> <<>>],
             mark |-> [e \in Elements |-> 0],   \* unqueued animations under way
             defer |-> [e \in Elements |-> 0],  \* the promise that waits, or 0
             look |-> [e \in Elements |-> [shown |-> TRUE, natural |-> TRUE, clipped |-> FALSE]],
             timers |-> <<>>,       \* jQuery.timers: one per animation and property
             timerId |-> FALSE,
             running |-> {},        \* animations neither finished nor cut short
             cut |-> {},
             loops |-> 0,           \* requestAnimationFrame callbacks the browser holds
             owed |-> {},           \* delays and functions still to call dequeue
             timeouts |-> <<>>,     \* those of handleQueueMarkDefer
             pending |-> {},        \* promises not resolved
             stack |-> <<>>,
             raised |-> {},         \* elements an exception left code for,
             lost |-> {}]           \* and with it a call of dequeue or _unmark
  /\ calls = 0 /\ skipped = {} /\ stoppedInside = FALSE

Next ==
  \/ Call
  \/ \E a \in Ids : next(a)
  \/ Library
  \/ throw
  \/ resolve
  \/ \E due \in SUBSET Ids : raf(due)

Spec == Init /\ [][Next]_vars

\* Code runs on until it returns; every duration ends, and every frame that is
\* asked for comes; timeouts come, and queued functions call next in the end
\* (each only so often, so that one condition serves them all).
FairSpec ==
  /\ Spec
  /\ WF_vars(Library)
  /\ SF_vars(resolve \/ \E a \in Ids : next(a))
  /\ SF_vars(raf({page.timers[i].entry : i \in DOMAIN page.timers}))

(***************************************************************************)
(* Properties.                                                             *)
(***************************************************************************)
\* The sentinel keeps the queue in order: the queued animations of an element
\* never run side by side, whatever callbacks do (jquery.js:1803-1815).  Excepted
\* are elements whose user code took the turn from an entry that had it, as an
\* animate of nothing does, and those whose code an exception left: the timer of
\* an animation whose callback threw is called again, and dequeues again.  So is
\* all that follows a stop from inside, which can make an animation complete twice.
OneAtATime ==
  ~stoppedInside => \A e \in Elements \ (skipped \union page.raised) :
    Cardinality({a \in RunningOn(e) : page.entries[a].kind # "free" /\ TimersOf(a) # {}}) <= 1

\* tick and stop remove by index from a list that callbacks change meanwhile.
\* Still, as long as stop is not called from code that tick or stop is running,
\* no running animation loses a timer, even to an exception, and complete is
\* called once for one of several properties, and again only when an exception
\* left it (jquery.js:8236-8252, 8505-8511).  While there is a timer, a frame is
\* asked for, which steps the timers up to the first whose callback throws.
TimersKept ==
  \A a \in page.running :
    1 .. Props \subseteq page.entries[a].done \union {page.timers[i].prop : i \in TimersOf(a)}
CompletesOnce == \A a \in Ids : page.entries[a].completed <= 1
TimersTick ==
  (page.stack = <<>> /\ page.timers # <<>>) => (page.timerId /\ page.loops > 0)
TimersServed == TimersTick /\ (~stoppedInside => TimersKept /\ CompletesOnce)

\* Animations that were neither cut short nor overlapped leave the element with
\* the size and the overflow it had (jquery.js:8456-8484).
StylesRestored ==
  \A e \in Elements :
    (\A a \in Of(e) : page.entries[a].alone /\ a \notin page.running \union page.cut)
      => page.look[e].natural /\ ~page.look[e].clipped

\* A promise is resolved when no animation of its element is running or waiting,
\* even if callbacks started one after the queue had emptied (jquery.js:1742-1752),
\* with the exceptions of OneAtATime.
PromiseMeansIdle ==
  [][~stoppedInside => \A t \in page.pending \ page'.pending :
       t.elem \notin skipped \union page.raised => RunningOn(t.elem) = {} /\ page.queue[t.elem] = <<>>]_vars

\* Every queue comes to its end, and every promise is resolved, unless a stop from
\* inside took a timer away, or an exception left a callback no timer will repeat,
\* or a queued function that had not passed next on.
QueuesDrain ==
  \A e \in Elements :
    page.queue[e] # <<>> \/ page.defer[e] # 0
      ~> (page.queue[e] = <<>> /\ page.defer[e] = 0) \/ stoppedInside \/ e \in page.lost
=============================================================================
