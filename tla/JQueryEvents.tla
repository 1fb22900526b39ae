---------------------------- MODULE JQueryEvents ----------------------------
(***************************************************************************)
(* The events of jQuery 1.6 (jquery.js, jQuery.event): handlers bound to   *)
(* the elements, one native listener per element and type, trigger with    *)
(* its own bubbling and the native method it calls in the end, "one",      *)
(* "live" and the focusin event made from a capturing focus listener.      *)
(*                                                                         *)
(* A handler is user code run in the middle of a dispatch: it may bind,    *)
(* unbind and trigger again, return false or throw.  As in JQueryFx the    *)
(* field stack of the page is the call stack and the library's functions   *)
(* are operators on the page.  The document has one element that takes     *)
(* focus and clicks; the DOM is modelled by what jquery.js relies on.      *)
(***************************************************************************)
EXTENDS Integers, Sequences, FiniteSets, SequencesExt

CONSTANTS
  Binds,      \* what user code may bind: "fn", "once", "live"
  Types,      \* the types it binds, a subset of AllTypes
  MaxCalls,   \* bound: calls of user code that bind or unbind
  MaxEvents   \* bound: events, of the user or triggered

AllTypes == {"click", "focus", "focusin"}
Elements == {"child", "document"}
Namespaces == {"", "a"}

ASSUME EventsAssumption ==
  /\ Binds \subseteq {"fn", "once", "live"}
  /\ Types \subseteq AllTypes
  /\ MaxCalls \in Nat /\ MaxEvents \in Nat

VARIABLES
  page,       \* a record, see Init
  calls, events,
  \* History, read by the properties and by nothing else.
  ran,        \* <<event, handler, element>>: the handlers run since the page was idle
  again,      \* a handler was run a second time for an event
  overlapped, \* trigger called while a native method called by trigger runs
  ranOnce,    \* handlers of "one" that were run
  onceAgain,  \* one was run a second time
  reentered   \* one was unbound while a dispatch under way still held it

history == <<ran, again, overlapped, ranOnce, onceAgain, reentered>>
vars == <<page, calls, events, history>>

Top == Head(page.stack)
Below == page.stack[2]
At(fn) == page.stack # <<>> /\ Top.fn = fn
UserCode == page.stack = <<>> \/ At("handler")
Popped == [page EXCEPT !.stack = Tail(@)]
Push(s, f) == [s EXCEPT !.stack = <<f>> \o @]

\* The element the event bubbles to; click bubbles natively, focus does not.
Bubbles(type) == type = "click"
HasMethod(e, type) == e = "child" /\ type \in {"click", "focus"}

(***************************************************************************)
(* Binding.                                                                *)
(***************************************************************************)
\* The first handler of a type attaches the listener of the element; focusin has
\* one capturing focus listener for all of the document instead.
setup(s, e, t) ==
  IF t = "focusin" THEN [s EXCEPT !.attaches = @ + 1, !.capture = TRUE]
  ELSE [s EXCEPT !.listening[e] = @ \union {t}]

removeEvent(s, e, t) == [s EXCEPT !.listening[e] = @ \ {t}]

teardown(s, e, t) ==
  IF t = "focusin" THEN [s EXCEPT !.attaches = @ - 1, !.capture = (s.attaches # 1)]
  ELSE removeEvent(s, e, t)

\* jQuery.event.add
add(s, e, t, h) ==
  LET s1 == IF s.handlers[e][t] = <<>> THEN setup(s, e, t) ELSE s
  IN [s1 EXCEPT !.handlers[e][t] = Append(@, h)]

\* The elements of q at the positions in K, in their order.
Picked(q, K) ==
  LET f[i \in 0 .. Len(q)] ==
        IF i = 0 THEN <<>> ELSE IF i \in K THEN Append(f[i - 1], q[i]) ELSE f[i - 1]
  IN f[Len(q)]

Without(q, match) == Picked(q, {i \in DOMAIN q : q[i].id \notin match})
OfType(q, t) == Picked(q, {i \in DOMAIN q : q[i].type = t})

\* Mutant: the listener stays when the last handler goes.
removeKeeps(s, e, t, match) ==
  [s EXCEPT !.handlers[e][t] = Without(@, match)]

\* jQuery.event.remove of the handlers in match: the last one takes the listener along.
remove(s, e, t, match) ==
  LET left == Without(s.handlers[e][t], match)
      s1 == [s EXCEPT !.handlers[e][t] = left]
  IN IF s.handlers[e][t] = <<>> THEN s ELSE IF left = <<>> THEN teardown(s1, e, t) ELSE s1

Matching(s, e, t, ns) ==
  {h.id : h \in {g \in ToSet(s.handlers[e][t]) : ns = "" \/ g.ns = ns}}

\* .unbind(".a"): the types one after the other.
unbindNamespace(s, e, ns) ==
  LET s1 == remove(s, e, "click", Matching(s, e, "click", ns))
      s2 == remove(s1, e, "focus", Matching(s1, e, "focus", ns))
  IN remove(s2, e, "focusin", Matching(s2, e, "focusin", ns))

\* .live keeps the handler in a list of the document and binds liveHandler to its
\* type, one copy for every handler; focus is mapped to focusin as well.
specialLive(s, type, id) ==
  add([s EXCEPT !.live = Append(@, [id |-> id, type |-> type])],
      "document", type, [id |-> id, kind |-> "live", ns |-> "sel"])

specialDie(s, type, id) ==
  LET kept == {i \in DOMAIN s.live : ~(s.live[i].id = id /\ s.live[i].type = type)}
  IN remove([s EXCEPT !.live = Picked(s.live, kept)], "document", type, {id})

live(s, t, id) ==
  LET s1 == specialLive(s, t, id)
  IN IF t = "focus" THEN specialLive(s1, "focusin", id) ELSE s1

die(s, t, id) ==
  LET s1 == specialDie(s, t, id)
  IN IF t = "focus" THEN specialDie(s1, "focusin", id) ELSE s1

(***************************************************************************)
(* Calls of user code, from the page or from a handler.                    *)
(***************************************************************************)
Bind ==
  /\ \E e \in Elements, t \in Types, ns \in Namespaces, kind \in Binds \ {"live"} :
       page' = add(page, e, t, [id |-> calls', kind |-> kind, ns |-> ns])
  /\ UNCHANGED reentered

Live ==
  /\ "live" \in Binds
  /\ \E t \in Types : page' = live(page, t, calls')
  /\ UNCHANGED reentered

Unbind ==
  /\ \/ \E e \in Elements, t \in Types :
          \/ page.handlers[e][t] # <<>> /\ page' = remove(page, e, t, 1 .. MaxCalls)
          \/ \E h \in ToSet(page.handlers[e][t]) : h.kind # "live" /\ page' = remove(page, e, t, {h.id})
     \/ \E e \in Elements : page' = unbindNamespace(page, e, "a")
     \/ \E t \in Types, l \in ToSet(page.live) : l.type = t /\ page' = die(page, t, l.id)
  /\ UNCHANGED reentered

Call ==
  /\ UserCode /\ calls < MaxCalls
  /\ calls' = calls + 1
  /\ Bind \/ Live \/ Unbind
  /\ UNCHANGED <<events, ran, again, overlapped, ranOnce, onceAgain>>

\* A trigger frame: its event, where it has got to, and what handlers said of it.
TriggerFrame(e, t, ns, only, n) ==
  [fn |-> "trigger", target |-> e, cur |-> e, type |-> t, ns |-> ns, n |-> n, phase |-> "call",
   stopped |-> only, prevented |-> only, liveFired |-> FALSE]

NativeFrame(t, n) ==
  [fn |-> "native", cur |-> "child", type |-> t, ns |-> "", n |-> n,
   phase |-> IF t = "focus" THEN "capture" ELSE "call",
   stopped |-> FALSE, prevented |-> FALSE, liveFired |-> FALSE]

InNative == \E i \in DOMAIN page.stack :
              page.stack[i].fn = "trigger" /\ page.stack[i].phase = "native"

\* jQuery.event.trigger, and triggerHandler (only).
trigger ==
  /\ UserCode /\ events < MaxEvents
  /\ events' = events + 1
  /\ \E e \in Elements, t \in Types, ns \in Namespaces, only \in BOOLEAN :
       page' = Push(page, TriggerFrame(e, t, ns, only, events'))
  /\ overlapped' = (overlapped \/ InNative)
  /\ ran' = IF page.stack = <<>> THEN {} ELSE ran
  /\ UNCHANGED <<calls, again, ranOnce, onceAgain, reentered>>

\* The user clicks the element or moves the focus to it.
UserEvent ==
  /\ page.stack = <<>> /\ events < MaxEvents
  /\ events' = events + 1
  /\ \E t \in {"click", "focus"} : page' = Push(page, NativeFrame(t, events'))
  /\ ran' = {}
  /\ UNCHANGED <<calls, again, overlapped, ranOnce, onceAgain, reentered>>

(***************************************************************************)
(* Dispatch.                                                               *)
(***************************************************************************)
\* elemData.handle drops the native event that belongs to the trigger under way;
\* jQuery.event.handle runs a snapshot of the handlers.
eventHandle(s, e) ==
  LET t == Head(s.stack).type
  IN IF s.triggered # t /\ s.handlers[e][t] # <<>>
     THEN Push(s, [fn |-> "handle", elem |-> e, type |-> t, rest |-> s.handlers[e][t]])
     ELSE s

Phase(f) == [page EXCEPT !.stack[1].phase = f]
AtParent == [page EXCEPT !.stack[1].phase = "call", !.stack[1].cur = "document"]

\* Mutant: triggered is only reset after a native method.
triggerLeaves ==
  /\ At("trigger")
  /\ page' =
       CASE Top.phase = "call" -> eventHandle(Phase("bubble"), Top.cur)
         [] Top.phase = "bubble" /\ Top.cur = "child" /\ ~Top.stopped -> AtParent
         [] Top.phase = "bubble" /\ ~(Top.cur = "child" /\ ~Top.stopped) ->
              IF Top.prevented THEN Popped
              ELSE IF HasMethod(Top.target, Top.type)
              THEN Push([Phase("native") EXCEPT !.triggered = Top.type], NativeFrame(Top.type, Top.n))
              ELSE [Popped EXCEPT !.triggered = Top.type]
         [] Top.phase = "native" -> [Popped EXCEPT !.triggered = "none"]
  /\ UNCHANGED <<calls, events, history>>

\* trigger: the handlers of the target, those of its parent, then the native method.
triggerStep ==
  /\ At("trigger")
  /\ page' =
       CASE Top.phase = "call" -> eventHandle(Phase("bubble"), Top.cur)
         [] Top.phase = "bubble" /\ Top.cur = "child" /\ ~Top.stopped -> AtParent
         [] Top.phase = "bubble" /\ ~(Top.cur = "child" /\ ~Top.stopped) ->
              IF Top.prevented THEN Popped
              ELSE IF HasMethod(Top.target, Top.type)
              THEN Push([Phase("native") EXCEPT !.triggered = Top.type], NativeFrame(Top.type, Top.n))
              ELSE [Popped EXCEPT !.triggered = "none"]
         [] Top.phase = "native" -> [Popped EXCEPT !.triggered = "none"]
  /\ UNCHANGED <<calls, events, history>>

\* The dispatch of the browser: the capturing focus listener triggers focusin, then
\* the listeners of the element and of the document are called.
nativeStep ==
  /\ At("native")
  /\ page' =
       CASE Top.phase = "capture" ->
              IF page.capture
              THEN Push(Phase("call"), TriggerFrame("child", "focusin", "", FALSE, Top.n + MaxEvents))
              ELSE Phase("call")
         [] Top.phase = "call" ->
              IF Top.type \in page.listening[Top.cur] THEN eventHandle(Phase("bubble"), Top.cur)
              ELSE Phase("bubble")
         [] Top.phase = "bubble" ->
              IF Top.cur = "child" /\ Bubbles(Top.type) /\ ~Top.stopped THEN AtParent ELSE Popped
  /\ overlapped' = (overlapped \/ (Top.phase = "capture" /\ page.capture /\ InNative))
  /\ UNCHANGED <<calls, events, ran, again, ranOnce, onceAgain, reentered>>

\* Snapshots still to be run that hold the handler.
Held(id) == \E i \in 2 .. Len(page.stack) :
              page.stack[i].fn = "handle" /\ \E h \in ToSet(page.stack[i].rest) : h.id = id

\* A handler is called; the proxy of "one" unbinds it first.
Run(s, h, e, t, n) ==
  /\ page' = Push(IF h.kind = "once" THEN remove(s, e, t, {h.id}) ELSE s,
                  [fn |-> "handler", elem |-> e])
  /\ ran' = ran \union {<<n, h.id, e>>}
  /\ again' = (again \/ <<n, h.id, e>> \in ran)
  /\ ranOnce' = IF h.kind = "once" THEN ranOnce \union {h.id} ELSE ranOnce
  /\ onceAgain' = (onceAgain \/ h.id \in ranOnce)
  /\ reentered' = (reentered \/ (h.kind = "once" /\ Held(h.id)))
  /\ UNCHANGED <<calls, events, overlapped>>

\* Mutant: liveHandler does not look whether the event has fired live handlers.
liveHandlerRepeats(s) ==
  LET target == IF Below.fn = "native" THEN "child" ELSE Below.target
      due == OfType(page.live, Top.type)
  IN IF target = "child" THEN Push(s, [fn |-> "live", type |-> Top.type, rest |-> due, stop |-> FALSE])
     ELSE s

\* liveHandler runs the live handlers of the type once for an event, although the
\* document has a copy of it for each.
liveHandler(s) ==
  LET fire == ~Below.liveFired /\ page.live # <<>>
      target == IF Below.fn = "native" THEN "child" ELSE Below.target
      due == OfType(page.live, Top.type)
  IN IF fire
     THEN LET s1 == [s EXCEPT !.stack[2].liveFired = TRUE]
          IN IF target = "child" THEN Push(s1, [fn |-> "live", type |-> Top.type, rest |-> due, stop |-> FALSE])
             ELSE s1
     ELSE s

\* The loop of jQuery.event.handle.
handle ==
  /\ At("handle")
  /\ \/ Top.rest = <<>> /\ page' = Popped /\ UNCHANGED <<calls, events, history>>
     \/ /\ Top.rest # <<>>
        /\ LET s == [page EXCEPT !.stack[1].rest = Tail(@)]
               h == Head(Top.rest)
           IN IF Below.ns # "" /\ h.ns # Below.ns THEN page' = s /\ UNCHANGED <<calls, events, history>>
              ELSE IF h.kind = "live" THEN page' = liveHandler(s) /\ UNCHANGED <<calls, events, history>>
              ELSE Run(s, h, Top.elem, Top.type, Below.n)

\* The loop of liveHandler; what it returns stops the event or not.
liveStep ==
  /\ At("live")
  /\ IF Top.rest = <<>>
     THEN /\ page' = IF Top.stop THEN [Popped EXCEPT !.stack[2].stopped = TRUE, !.stack[2].prevented = TRUE]
                     ELSE Popped
          /\ UNCHANGED <<calls, events, history>>
     ELSE Run([page EXCEPT !.stack[1].rest = Tail(@)],
              [id |-> Head(Top.rest).id, kind |-> "live"], "child", Top.type, page.stack[3].n)

\* What a handler does to its event, the frame i of the stack.
preventDefault(s, i) == [s EXCEPT !.stack[i].prevented = TRUE]
stopPropagation(s, i) == [s EXCEPT !.stack[i].stopped = TRUE]

\* A handler returns, perhaps false, or with its event prevented or stopped; or with
\* the event stopped at once, which ends the loops that call handlers.  An exception
\* is reported by the browser from the nearest listener it called, and ends all that
\* runs above.
Unwind(stack) ==
  LET caught == {i \in DOMAIN stack : stack[i].fn = "native"}
  IN IF caught = {} THEN <<>>
     ELSE SubSeq(stack, CHOOSE i \in caught : \A j \in caught : i <= j, Len(stack))

returns ==
  /\ At("handler")
  /\ LET event == IF Below.fn = "live" THEN 3 ELSE 2 IN
     \/ page' = Popped
     \/ page' = preventDefault(Popped, event)
     \/ page' = stopPropagation(Popped, event)
     \/ page' = IF Below.fn = "live" THEN [Popped EXCEPT !.stack[1].stop = TRUE]
                ELSE preventDefault(stopPropagation(Popped, event), event)
     \/ page' = stopPropagation(IF Below.fn = "live"
                                THEN [Popped EXCEPT !.stack[1].rest = <<>>, !.stack[2].rest = <<>>]
                                ELSE [Popped EXCEPT !.stack[1].rest = <<>>], event)
     \/ page' = [page EXCEPT !.stack = Unwind(@)]
  /\ UNCHANGED <<calls, events, history>>

Init ==
  /\ page = [handlers |-> [e \in Elements |-> [t \in AllTypes |-> <<>>]],
             listening |-> [e \in Elements |-> {}],   \* addEventListener
             attaches |-> 0, capture |-> FALSE,       \* the focus listener of focusin
             live |-> <<>>,                           \* events.live of the document
             triggered |-> "none",
             stack |-> <<>>]
  /\ calls = 0 /\ events = 0
  /\ ran = {} /\ ranOnce = {}
  /\ again = FALSE /\ overlapped = FALSE /\ onceAgain = FALSE /\ reentered = FALSE

Next ==
  \/ Call \/ trigger \/ UserEvent
  \/ triggerStep \/ nativeStep \/ handle \/ liveStep \/ returns

Spec == Init /\ [][Next]_vars

(***************************************************************************)
(* Properties.                                                             *)
(***************************************************************************)
\* However handlers of all kinds come and go, in the middle of dispatches too, an
\* element has a native listener for a type exactly while it has handlers of it,
\* and the document a focus listener while anyone wants focusin
\* (jquery.js:2640-2656, 2776-2783, 3402-3409).
ListenersMatch ==
  /\ \A e \in Elements, t \in AllTypes \ {"focusin"} :
       t \in page.listening[e] <=> page.handlers[e][t] # <<>>
  /\ page.attaches = Cardinality({e \in Elements : page.handlers[e]["focusin"] # <<>>})
  /\ page.capture <=> page.attaches > 0

\* Native events are dropped for no longer than a native method called by trigger
\* runs, whatever handlers throw in between (jquery.js:2596-2601, 2926-2935).
DroppedOnlyInside ==
  page.triggered # "none" =>
    \E i \in DOMAIN page.stack : /\ page.stack[i].fn = "trigger"
                                /\ page.stack[i].phase = "native"
                                /\ page.stack[i].type = page.triggered

\* A handler is run once for an event, though the event reaches its element by
\* trigger's own bubbling and by the native event, and the document has several
\* copies of liveHandler, unless another trigger came in between (jquery.js:2598,
\* 3624).  A handler of "one" is run once, however often its event is triggered
\* from other handlers, unless a dispatch under way had it in its snapshot (3446).
RunsOnce ==
  /\ again => overlapped
  /\ onceAgain => reentered
=============================================================================
