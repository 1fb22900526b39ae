--------------------------- MODULE JQueryFxProofs ---------------------------
(***************************************************************************)
(* Effects and queues, for any elements, kinds of entries, numbers of      *)
(* properties and of calls.                                                *)
(*                                                                         *)
(* The invariant FxInv has three parts, each with its own theorems.        *)
(* Sound: entries, timers, queues and frames fit together, and an element  *)
(* that no animation runs on looks as it did.  Served: every timer of a    *)
(* running animation is still to be called, unless the one loop on the     *)
(* stack has just called it.  Turns: an element has at most one entry at a *)
(* time that is to take the next one from its queue.                       *)
(*                                                                         *)
(* What a function of the library or an action changes is said once, as a  *)
(* relation between the page before, s, and after, t; a lemma of the name  *)
(* ...Effect or ...Step shows that the model does that.  The lemmas        *)
(* Sound..., Served..., Ordered... and Turns... show what each such        *)
(* relation keeps.                                                         *)
(***************************************************************************)
EXTENDS JQueryFx, SequenceTheorems, FiniteSetTheorems, TLAPS

\* The types of the fields of a page.
Looks == [shown : BOOLEAN, natural : BOOLEAN, clipped : BOOLEAN]
Entries == [elem : Elements, kind : AllKinds, done : SUBSET Nat, completed : Nat,
            alone : BOOLEAN, orig : Looks]
Timers == [elem : Elements, entry : Nat, prop : Nat]
Promises == [elem : Elements, promise : Nat]

Dequeues == [fn : {"dequeued"}, elem : Elements, array : {"shared", "empty", "filled"}]
Codes == [fn : {"callback", "fn"}, elem : Elements, entry : Nat]
Stops == {f \in [fn : {"stop"}, elem : Elements, gotoEnd : BOOLEAN, i : Nat, ended : BOOLEAN] :
             f.ended => f.i # 0}
Ticks == [fn : {"tick"}, i : Nat \ {0}, ended : BOOLEAN, due : SUBSET Nat]
Frames == Dequeues \union Codes \union Stops \union Ticks

Pages == [entries : Seq(Entries), queue : [Elements -> Seq(Nat)],
          mark : [Elements -> Nat], defer : [Elements -> Nat], look : [Elements -> Looks],
          timers : Seq(Timers), timerId : BOOLEAN, running : SUBSET Nat, cut : SUBSET Nat,
          loops : Nat, owed : SUBSET Nat, timeouts : Seq(Promises), pending : SUBSET Promises,
          stack : Seq(Frames), raised : SUBSET Elements, lost : SUBSET Elements]

Fields == {"entries", "queue", "mark", "defer", "look", "timers", "timerId", "running",
           "cut", "loops", "owed", "timeouts", "pending", "stack", "raised", "lost"}
\* The pages s and t agree in all fields but those of the set.
Same(s, t, but) == \A x \in Fields \ but : t[x] = s[x]

\* Entry a has a timer; the entries of e; frames of user code; loops over the timers.
has(s, a) == \E i \in DOMAIN s.timers : s.timers[i].entry = a
of(s, e) == {a \in DOMAIN s.entries : s.entries[a].elem = e}
isCode(f) == f.fn \in {"callback", "fn"}
isLoop(f) == f.fn \in {"tick", "stop"}

\* The timer i was called for the last time, and is listed still; entry a has such a
\* timer; the properties of those.
isDone(s, i) == s.timers[i].prop \in s.entries[s.timers[i].entry].done
again(s, a) == \E i \in DOMAIN s.timers : isDone(s, i) /\ s.timers[i].entry = a
open(s, a) == {s.timers[i].prop : i \in {j \in DOMAIN s.timers : isDone(s, j) /\ s.timers[j].entry = a}}

\* An entry that was never started.
startable(x) == x.kind # "empty"
Untouched(s, a) ==
    /\ a \in DOMAIN s.entries /\ a \notin s.running \union s.owed /\ ~has(s, a)
    /\ s.entries[a].done = {} /\ s.entries[a].completed = 0
    /\ s.entries[a].alone /\ a \notin s.cut /\ startable(s.entries[a])

\* A callback or function belongs to the element it is called for.
Links(s, f) == isCode(f) /\ f.entry # 0 => f.entry \in of(s, f.elem)

\* Entries, timers and frames name each other's elements rightly.
Linked(s) ==
    /\ s.running \union s.owed \union s.cut \subseteq DOMAIN s.entries
    /\ \A i \in DOMAIN s.timers :
          s.timers[i].entry \in of(s, s.timers[i].elem)
    /\ \A i \in DOMAIN s.stack : Links(s, s.stack[i])

\* A queue holds each entry once, none of them started, and the sentinel at its head only.
Waits(s, e) ==
    /\ \A k \in DOMAIN s.queue[e] :
          IF s.queue[e][k] = InProgress THEN k = 1
          ELSE s.queue[e][k] \in of(s, e) /\ Untouched(s, s.queue[e][k])
    /\ \A k, l \in DOMAIN s.queue[e] : s.queue[e][k] = s.queue[e][l] => k = l

\* Timers have an interval, and an interval a frame of the browser to come.
Ticking(s) == (s.timers # <<>> => s.timerId) /\ (s.timerId => s.loops > 0)

plain(l) == l.natural /\ ~l.clipped
\* Animations that met no other began with the size of the element as it was, and
\* when none runs the element has it again.
Styled(s, e) ==
    (\A a \in of(s, e) : s.entries[a].alone /\ a \notin s.cut) =>
        /\ \A a \in of(s, e) : has(s, a) => plain(s.entries[a].orig)
        /\ (\A a \in of(s, e) : a \notin s.running) => plain(s.look[e])

\* The first part of the invariant.
Sound(s) ==
    /\ s \in Pages /\ Linked(s) /\ Ticking(s)
    /\ \A e \in Elements : Waits(s, e) /\ Styled(s, e)

(***************************************************************************)
(* What the functions of the library change.                               *)
(***************************************************************************)
\* The queue of e was emptied, and no call of dequeue shares it any more.
Empties(s, t, e) ==
    /\ Same(s, t, {"queue", "stack", "timeouts"})
    /\ t.queue = [s.queue EXCEPT ![e] = <<>>]
    /\ DOMAIN t.stack = DOMAIN s.stack
    /\ \A i \in DOMAIN s.stack :
          \/ t.stack[i] = s.stack[i] /\ ~(/\ s.stack[i].fn = "dequeued" /\ s.stack[i].elem = e
                                          /\ s.stack[i].array = "shared")
          \/ /\ s.stack[i].fn = "dequeued" /\ s.stack[i].elem = e
             /\ t.stack[i].fn = "dequeued" /\ t.stack[i].elem = e
             /\ t.stack[i].array \in {"empty", "filled"}

\* What starting an entry does: a delay or function will owe its call of next,
Delays(s, t, a) ==
    /\ s.entries[a].kind = "delay"
    /\ Same(s, t, {"owed"}) /\ t.owed = s.owed \union {a}

Calls(s, t, e, a) ==
    /\ s.entries[a].kind = "fn"
    /\ Same(s, t, {"owed", "stack"}) /\ t.owed = s.owed \union {a}
    /\ t.stack = <<Frame("fn", e, a)>> \o s.stack

\* what takes no time is complete,
ShowsAtOnce(s, t, e, a) ==
    /\ s.entries[a].kind \in {"show", "instant"}
    /\ Same(s, t, {"entries", "stack"})
    /\ t.entries = [s.entries EXCEPT ![a] = [s.entries[a] EXCEPT !.completed = 1]]
    /\ t.stack = <<Frame("callback", e, a)>> \o s.stack

\* and an animation gets a timer for each property.
Begins(s, t, e, a) ==
    /\ s.entries[a].kind \in Animations
    /\ Same(s, t, {"entries", "look", "running", "timers", "timerId", "loops"})
    /\ t.entries = [s.entries EXCEPT ![a] = [s.entries[a] EXCEPT !.orig = s.look[e],
                        !.alone = \A b \in s.running : s.entries[b].elem # e]]
    /\ t.look = [s.look EXCEPT ![e] = [shown |-> TRUE, natural |-> FALSE, clipped |-> TRUE]]
    /\ t.running = s.running \union {a}
    /\ DOMAIN t.timers = 1..(Len(s.timers) + Props)
    /\ \A i \in DOMAIN t.timers :
          \/ i \in DOMAIN s.timers /\ t.timers[i] = s.timers[i]
          \/ /\ i - Len(s.timers) \in 1..Props
             /\ t.timers[i] = [elem |-> e, entry |-> a, prop |-> i - Len(s.timers)]
    /\ t.timerId = TRUE /\ t.loops = IF s.timerId THEN s.loops ELSE s.loops + 1

\* Entry a of e starts.
Starts(s, t, e, a) ==
    Delays(s, t, a) \/ Calls(s, t, e, a) \/ ShowsAtOnce(s, t, e, a) \/ Begins(s, t, e, a)

\* The call of dequeue has taken a, the first entry after the sentinel.
Takes(s, u, e, a) ==
    /\ Same(s, u, {"queue", "stack"})
    /\ u.stack = <<[fn |-> "dequeued", elem |-> e, array |-> "shared"]>> \o s.stack
    /\ \A d \in Elements : d # e => u.queue[d] = s.queue[d]
    /\ \E n \in {0, 1} :
          /\ DOMAIN s.queue[e] = 1..(Len(u.queue[e]) + n)
          /\ DOMAIN u.queue[e] = 1..Len(u.queue[e]) /\ Len(u.queue[e]) \in Nat \ {0}
          /\ u.queue[e][1] = InProgress
          /\ \A k \in DOMAIN u.queue[e] : k # 1 => u.queue[e][k] = s.queue[e][k + n]
          /\ a = s.queue[e][1 + n]
          /\ n = 0 <=> s.queue[e][1] # InProgress

\* Timer m is called for the last time, with another property still to come.
Steps(s, t, m) ==
    LET done == s.entries[m.entry].done \union {m.prop} IN
    /\ done # 1..Props
    /\ Same(s, t, {"entries"})
    /\ t.entries = [s.entries EXCEPT ![m.entry] = [s.entries[m.entry] EXCEPT !.done = done]]

\* Timer m is called for the last time, and ends its animation.
Ends(s, t, m) ==
    LET entry == s.entries[m.entry]
        done == entry.done \union {m.prop} IN
    /\ done = 1..Props
    /\ Same(s, t, {"entries", "running", "look", "stack"})
    /\ t.entries = [s.entries EXCEPT ![m.entry] = [entry EXCEPT !.done = done,
                                                               !.completed = entry.completed + 1]]
    /\ t.running = s.running \ {m.entry}
    /\ t.look = [s.look EXCEPT ![m.elem] = [entry.orig EXCEPT !.shown = ~entry.orig.shown]]
    /\ t.stack = <<Frame("callback", m.elem, m.entry)>> \o s.stack

\* An entry that may be started.
Fresh(s, e, a) ==
    /\ a \in of(s, e) /\ Untouched(s, a)
    /\ \A k \in DOMAIN s.queue[e] : s.queue[e][k] # a

-----------------------------------------------------------------------------
LEMMA Pushed ==
    ASSUME NEW S, NEW k \in Seq(S), NEW f \in S
    PROVE  LET t == <<f>> \o k IN
           /\ t \in Seq(S) /\ DOMAIN t = 1..(Len(k) + 1) /\ DOMAIN k = 1..Len(k)
           /\ t[1] = f /\ \A i \in DOMAIN k : t[i + 1] = k[i]
           /\ \A i \in DOMAIN t : i = 1 \/ (i - 1 \in DOMAIN k /\ t[i] = k[i - 1])
<1> DEFINE t == <<f>> \o k
<1>1. /\ t \in Seq(S) /\ Len(t) = Len(k) + 1
      /\ \A i \in 1..Len(t) : t[i] = IF i = 1 THEN f ELSE k[i - 1]
  BY ConcatProperties
<1>2. Len(k) \in Nat /\ DOMAIN k = 1..Len(k) /\ DOMAIN t = 1..(Len(k) + 1)
  BY <1>1
<1>3. QED
  BY <1>1, <1>2

LEMMA TailOf ==
    ASSUME NEW S, NEW k \in Seq(S), k # <<>>
    PROVE  /\ Tail(k) \in Seq(S) /\ DOMAIN Tail(k) = 1..(Len(k) - 1)
           /\ DOMAIN k = 1..Len(k) /\ Len(k) \in Nat \ {0} /\ Head(k) = k[1] /\ Head(k) \in S
           /\ \A i \in DOMAIN Tail(k) : i + 1 \in DOMAIN k /\ Tail(k)[i] = k[i + 1]
  BY HeadTailProperties, EmptySeq

LEMMA Spliced ==
    ASSUME NEW S, NEW k \in Seq(S), NEW i \in DOMAIN k
    PROVE  LET t == RemoveAt(k, i) IN
           /\ t \in Seq(S) /\ Len(t) = Len(k) - 1 /\ DOMAIN t = 1..(Len(k) - 1)
           /\ \A j \in DOMAIN t : /\ t[j] = k[IF j < i THEN j ELSE j + 1]
                                  /\ (IF j < i THEN j ELSE j + 1) \in DOMAIN k
<1> DEFINE t == RemoveAt(k, i)  u == SubSeq(k, 1, i - 1)  w == SubSeq(k, i + 1, Len(k))
<1>1. Len(k) \in Nat /\ DOMAIN k = 1..Len(k) /\ i \in 1..Len(k)
  OBVIOUS
<1>2. u \in Seq(S) /\ Len(u) = i - 1 /\ \A j \in 1..(i - 1) : u[j] = k[j]
  BY <1>1
<1>3. w \in Seq(S) /\ Len(w) = Len(k) - i /\ \A j \in 1..(Len(k) - i) : w[j] = k[i + j]
  BY <1>1
<1>4. t = u \o w
  BY DEF RemoveAt
<1>5. t \in Seq(S) /\ Len(t) = Len(k) - 1
  BY <1>1, <1>2, <1>3, <1>4, ConcatProperties
<1>6. \A j \in 1..Len(t) : t[j] = IF j < i THEN k[j] ELSE k[j + 1]
  <2> SUFFICES ASSUME NEW j \in 1..Len(t) PROVE t[j] = IF j < i THEN k[j] ELSE k[j + 1]
    OBVIOUS
  <2>1. t[j] = IF j <= Len(u) THEN u[j] ELSE w[j - Len(u)]
    BY <1>2, <1>3, <1>4, ConcatProperties
  <2> HIDE DEF t, u, w
  <2>2. CASE j < i
    BY <2>1, <2>2, <1>1, <1>2
  <2>3. CASE j >= i
    <3>1. j - (i - 1) \in 1..(Len(k) - i) /\ i + (j - (i - 1)) = j + 1
      BY <2>3, <1>1, <1>5
    <3>2. t[j] = w[j - (i - 1)]
      BY <2>1, <2>3, <1>1, <1>2
    <3>3. QED
      BY <3>1, <3>2, <2>3, <1>1, <1>3
  <2>4. QED
    BY <2>2, <2>3, <1>1, <1>5
<1>7. QED
  BY <1>1, <1>5, <1>6

\* The same, by cases.
LEMMA SplicedAt ==
    ASSUME NEW S, NEW k \in Seq(S), NEW i \in DOMAIN k, NEW t, t = RemoveAt(k, i)
    PROVE  /\ Len(k) \in Nat /\ DOMAIN k = 1..Len(k) /\ i \in 1..Len(k)
           /\ Len(t) = Len(k) - 1 /\ DOMAIN t = 1..(Len(k) - 1)
           /\ \A j \in DOMAIN t : j < i => j \in DOMAIN k /\ t[j] = k[j]
           /\ \A j \in DOMAIN t : ~(j < i) => j + 1 \in DOMAIN k /\ t[j] = k[j + 1]
<1>1. Len(k) \in Nat /\ DOMAIN k = 1..Len(k) /\ i \in 1..Len(k)
  OBVIOUS
<1>2. /\ Len(t) = Len(k) - 1 /\ DOMAIN t = 1..(Len(k) - 1)
      /\ \A j \in DOMAIN t : /\ t[j] = k[IF j < i THEN j ELSE j + 1]
                             /\ (IF j < i THEN j ELSE j + 1) \in DOMAIN k
  BY Spliced
<1>3. QED
  BY <1>1, <1>2

LEMMA TimeoutAdded ==
    ASSUME NEW s \in Pages, NEW e \in Elements, NEW src
    PROVE  LET t == handleQueueMarkDefer(s, e, src) IN
           t \in Pages /\ Same(s, t, {"timeouts"})
<1> DEFINE x == Append(s.timeouts, [elem |-> e, promise |-> s.defer[e]])
<1>1. s.timeouts \in Seq(Promises) /\ s.defer[e] \in Nat
  BY DEF Pages
<1>2. [elem |-> e, promise |-> s.defer[e]] \in Promises
  BY <1>1 DEF Promises
<1>3. x \in Seq(Promises)
  BY <1>1, <1>2
<1> HIDE DEF x
<1>4. [s EXCEPT !.timeouts = x] \in Pages /\ Same(s, [s EXCEPT !.timeouts = x], {"timeouts"})
  BY <1>3 DEF Pages, Same, Fields
<1>5. QED
  BY <1>4 DEF handleQueueMarkDefer, x, Same

LEMMA Unmarked ==
    ASSUME NEW s \in Pages, NEW e \in Elements, NEW force \in BOOLEAN
    PROVE  LET t == _unmark(s, e, force) IN
           /\ t \in Pages /\ Same(s, t, {"timeouts", "mark"})
           /\ t.mark = [s.mark EXCEPT ![e] = IF force \/ s.mark[e] = 0 THEN 0 ELSE s.mark[e] - 1]
<1> DEFINE c == IF force \/ s.mark[e] = 0 THEN 0 ELSE s.mark[e] - 1
           u == [s EXCEPT !.mark[e] = c]
<1>1. c \in Nat
  BY DEF Pages
<1> HIDE DEF c
<1>2. u \in Pages /\ Same(s, u, {"mark"}) /\ u.mark = [s.mark EXCEPT ![e] = c]
  BY <1>1 DEF Pages, Same, Fields
<1> HIDE DEF u
<1>3. LET t == handleQueueMarkDefer(u, e, "mark") IN
      t \in Pages /\ Same(u, t, {"timeouts"})
  BY <1>2, TimeoutAdded
<1>4. _unmark(s, e, force) \in {u, handleQueueMarkDefer(u, e, "mark")}
  BY DEF _unmark, u, c
<1>5. QED
  BY <1>2, <1>3, <1>4 DEF Same, Fields, c

\* custom, or the function that was queued.
LEMMA StartEffect ==
    ASSUME FxAssumption, NEW s \in Pages, NEW e \in Elements, NEW a \in DOMAIN s.entries,
           s.entries[a].kind # "empty"
    PROVE  Start(s, e, a) \in Pages /\ Starts(s, Start(s, e, a), e, a)
<1> DEFINE t == Start(s, e, a)
<1>0. a \in Nat /\ s.entries[a] \in Entries /\ s.entries[a].kind \in AllKinds
  <2>1. s.entries \in Seq(Entries)
    BY DEF Pages
  <2>2. a \in Nat /\ s.entries[a] \in Entries
    BY <2>1
  <2>3. QED
    BY <2>2 DEF Entries
<1>1. CASE s.entries[a].kind = "delay"
  BY <1>0, <1>1 DEF Start, Starts, Delays, Same, Fields, Pages
<1>f. ASSUME NEW fn \in {"fn", "callback"}
      PROVE  <<Frame(fn, e, a)>> \o s.stack \in Seq(Frames)
  <2>1. Frame(fn, e, a) \in Frames /\ s.stack \in Seq(Frames)
    BY <1>0 DEF Frame, Frames, Codes, Pages
  <2>2. QED
    BY <2>1, Pushed
<1>2. CASE s.entries[a].kind = "fn"
  <2> DEFINE k == <<Frame("fn", e, a)>> \o s.stack
  <2>1. k \in Seq(Frames)
    BY <1>f
  <2>2. t = [s EXCEPT !.owed = @ \union {a}, !.stack = k]
    BY <1>2 DEF Start
  <2> HIDE DEF k, t
  <2>3. t \in Pages /\ Same(s, t, {"owed", "stack"}) /\ t.owed = s.owed \union {a} /\ t.stack = k
    BY <1>0, <2>1, <2>2 DEF Same, Fields, Pages
  <2>4. QED
    BY <1>2, <2>3 DEF Starts, Calls, k, t
<1>3. CASE s.entries[a].kind = "instant" \/ (s.entries[a].kind = "show" /\ s.look[e].shown)
  <2> DEFINE k == <<Frame("callback", e, a)>> \o s.stack
             x == [s.entries EXCEPT ![a] = [s.entries[a] EXCEPT !.completed = 1]]
  <2>1. k \in Seq(Frames)
    BY <1>f
  <2>2. t = [s EXCEPT !.entries = x, !.stack = k]
    BY <1>3 DEF Start
  <2>3. x \in Seq(Entries)
    <3>1. [s.entries[a] EXCEPT !.completed = 1] \in Entries
      BY <1>0 DEF Entries
    <3>2. QED
      BY <3>1, ExceptSeq DEF Pages
  <2> HIDE DEF k, t, x
  <2>4. t \in Pages /\ Same(s, t, {"entries", "stack"}) /\ t.entries = x /\ t.stack = k
    BY <1>0, <2>1, <2>2, <2>3 DEF Same, Fields, Pages
  <2>5. QED
    BY <1>3, <2>4 DEF Starts, ShowsAtOnce, k, t, x
<1>4. CASE s.entries[a].kind \in Animations /\ ~(s.entries[a].kind = "show" /\ s.look[e].shown)
  <2> DEFINE alone == \A b \in s.running : s.entries[b].elem # e
             x == [s.entries EXCEPT ![a] = [s.entries[a] EXCEPT !.orig = s.look[e], !.alone = alone]]
             w == [p \in 1..Props |-> [elem |-> e, entry |-> a, prop |-> p]]
             y == s.timers \o w
             z == [s.look EXCEPT ![e] = [shown |-> TRUE, natural |-> FALSE, clipped |-> TRUE]]
             n == IF s.timerId THEN s.loops ELSE s.loops + 1
  <2>1. x \in Seq(Entries)
    <3>1. alone \in BOOLEAN
      OBVIOUS
    <3> HIDE DEF alone
    <3>2. s.look[e] \in Looks
      BY DEF Pages
    <3>3. [s.entries[a] EXCEPT !.orig = s.look[e], !.alone = alone] \in Entries
      BY <1>0, <3>1, <3>2 DEF Entries
    <3>4. QED
      BY <3>3, ExceptSeq DEF Pages
  <2>2. /\ y \in Seq(Timers) /\ DOMAIN y = 1..(Len(s.timers) + Props)
        /\ \A i \in DOMAIN y :
              \/ i \in DOMAIN s.timers /\ y[i] = s.timers[i]
              \/ /\ i - Len(s.timers) \in 1..Props
                 /\ y[i] = [elem |-> e, entry |-> a, prop |-> i - Len(s.timers)]
    <3>1. s.timers \in Seq(Timers) /\ Props \in Nat /\ Len(s.timers) \in Nat
      BY FxAssumption DEF Pages
    <3>2. \A p \in 1..Props : [elem |-> e, entry |-> a, prop |-> p] \in Timers
      BY <1>0, <3>1 DEF Timers
    <3>3. w \in [1..Props -> Timers]
      BY <3>2
    <3>4. w \in Seq(Timers) /\ Len(w) = Props
      BY <3>1, <3>3, IsASeq, LenProperties
    <3>5. /\ y \in Seq(Timers) /\ Len(y) = Len(s.timers) + Props
          /\ \A i \in 1..Len(y) : y[i] = IF i <= Len(s.timers) THEN s.timers[i] ELSE w[i - Len(s.timers)]
      BY <3>1, <3>4, ConcatProperties
    <3>6. \A p \in 1..Props : w[p] = [elem |-> e, entry |-> a, prop |-> p]
      OBVIOUS
    <3> HIDE DEF w, y
    <3>7. DOMAIN y = 1..(Len(s.timers) + Props) /\ DOMAIN s.timers = 1..Len(s.timers)
      BY <3>1, <3>5
    <3>8. ASSUME NEW i \in DOMAIN y
          PROVE  \/ i \in DOMAIN s.timers /\ y[i] = s.timers[i]
                 \/ /\ i - Len(s.timers) \in 1..Props
                    /\ y[i] = [elem |-> e, entry |-> a, prop |-> i - Len(s.timers)]
      <4>1. i \in Nat /\ i \in 1..Len(y)
        BY <3>1, <3>5, <3>7
      <4>2. CASE i <= Len(s.timers)
        BY <4>1, <4>2, <3>1, <3>5, <3>7
      <4>3. CASE i > Len(s.timers)
        <5>1. i - Len(s.timers) \in 1..Props /\ y[i] = w[i - Len(s.timers)]
          BY <4>1, <4>3, <3>1, <3>5
        <5>2. QED
          BY <5>1, <3>6
      <4>4. QED
        BY <4>1, <4>2, <4>3, <3>1
    <3>9. QED
      BY <3>5, <3>7, <3>8
  <2>3. z \in [Elements -> Looks]
    BY DEF Pages, Looks
  <2>4. n \in Nat
    BY DEF Pages
  <2>5. t = [s EXCEPT !.entries = x, !.look = z, !.running = @ \union {a}, !.timers = y,
                      !.timerId = TRUE, !.loops = n]
    <3> DEFINE v == showOrHide(s, e, a)
               x1 == [s.entries EXCEPT ![a] = [s.entries[a] EXCEPT !.orig = s.look[e]]]
    <3>1. v = [s EXCEPT !.entries = x1, !.look = z]
      BY DEF showOrHide
    <3>2. /\ v.entries = x1 /\ v.running = s.running /\ v.timers = s.timers /\ v.timerId = s.timerId
          /\ v.loops = s.loops
      <4> HIDE DEF v, x1, z
      <4>1. QED
        BY <3>1 DEF Pages
    <3>3. t = [v EXCEPT !.running = @ \union {a}, !.entries[a].alone = alone, !.timers = @ \o w,
                        !.timerId = TRUE, !.loops = IF s.timerId THEN @ ELSE @ + 1]
      <4> HIDE DEF v, w, alone
      <4>1. QED
        BY <1>4 DEF Start, Animations, v, w, alone
    <3>4. [x1 EXCEPT ![a].alone = alone] = x
      <4>1. alone \in BOOLEAN
        OBVIOUS
      <4> HIDE DEF alone
      <4>2. s.entries \in Seq(Entries)
        BY DEF Pages
      <4>3. QED
        BY <4>1, <4>2, <1>0 DEF Entries
    <3> HIDE DEF v, x1, x, z, alone, t, w
    <3>5. t = [v EXCEPT !.entries = [x1 EXCEPT ![a].alone = alone], !.running = s.running \union {a},
                        !.timers = y, !.timerId = TRUE, !.loops = n]
      BY <3>2, <3>3
    <3> HIDE DEF y, n
    <3>6. QED
      BY <3>1, <3>4, <3>5 DEF Pages
  <2> HIDE DEF x, y, z, n, t
  <2>6. /\ t \in Pages /\ Same(s, t, {"entries", "look", "running", "timers", "timerId", "loops"})
        /\ t.entries = x /\ t.look = z /\ t.running = s.running \union {a} /\ t.timers = y
        /\ t.timerId = TRUE /\ t.loops = n
    BY <1>0, <2>1, <2>2, <2>3, <2>4, <2>5 DEF Same, Fields, Pages
  <2>7. QED
    BY <1>4, <2>2, <2>6 DEF Starts, Begins, x, z, n, t
<1>5. QED
  BY <1>0, <1>1, <1>2, <1>3, <1>4 DEF AllKinds, Animations

\* An array of queue data that a new one replaces.
LEMMA DetachEffect ==
    ASSUME NEW s \in Pages, NEW e \in Elements, NEW left \in {"empty", "filled"}
    PROVE  Detach(s, e, left) \in Pages /\ Empties(s, Detach(s, e, left), e)
<1> DEFINE k == [i \in DOMAIN s.stack |-> Detached(s.stack[i], e, left)]
           q == [s.queue EXCEPT ![e] = <<>>]
           t == Detach(s, e, left)
<1>1. s.stack \in Seq(Frames) /\ s.queue \in [Elements -> Seq(Nat)]
  BY DEF Pages
<1>2. \A i \in DOMAIN s.stack : s.stack[i] \in Frames
  BY <1>1
<1>3. ASSUME NEW f \in Frames
      PROVE  /\ Detached(f, e, left) \in Frames
             /\ \/ /\ Detached(f, e, left) = f
                   /\ ~(f.fn = "dequeued" /\ f.elem = e /\ f.array = "shared")
                \/ /\ f.fn = "dequeued" /\ f.elem = e
                   /\ Detached(f, e, left).fn = "dequeued" /\ Detached(f, e, left).elem = e
                   /\ Detached(f, e, left).array \in {"empty", "filled"}
  <2>1. CASE f.fn = "dequeued" /\ f.elem = e /\ f.array = "shared"
    <3>1. f \in Dequeues
      BY <2>1 DEF Frames, Codes, Stops, Ticks
    <3>2. Detached(f, e, left) = [f EXCEPT !.array = left]
      BY <2>1 DEF Detached
    <3>3. [f EXCEPT !.array = left] \in Dequeues
      BY <3>1 DEF Dequeues
    <3>4. [f EXCEPT !.array = left].fn = f.fn /\ [f EXCEPT !.array = left].elem = f.elem
          /\ [f EXCEPT !.array = left].array = left
      BY <3>1 DEF Dequeues
    <3>5. QED
      BY <2>1, <3>2, <3>3, <3>4 DEF Frames
  <2>2. CASE ~(f.fn = "dequeued" /\ f.elem = e /\ f.array = "shared")
    BY <2>2 DEF Detached
  <2>3. QED
    BY <2>1, <2>2
<1>4. k \in Seq(Frames)
  <2>1. \A i \in 1..Len(s.stack) : k[i] \in Frames
    BY <1>1, <1>2, <1>3
  <2>2. Len(s.stack) \in Nat /\ DOMAIN s.stack = 1..Len(s.stack)
    BY <1>1
  <2>3. k \in [1..Len(s.stack) -> Frames]
    BY <2>1, <2>2
  <2>4. QED
    BY <2>2, <2>3, IsASeq
<1>5. q \in [Elements -> Seq(Nat)]
  BY <1>1
<1>6. DOMAIN k = DOMAIN s.stack /\ \A i \in DOMAIN s.stack : k[i] = Detached(s.stack[i], e, left)
  OBVIOUS
<1>7. t = [s EXCEPT !.queue = q, !.stack = k]
  BY DEF Detach
<1> HIDE DEF k, q, t
<1>8. t \in Pages /\ Same(s, t, {"queue", "stack"}) /\ t.queue = q /\ t.stack = k
  BY <1>4, <1>5, <1>7 DEF Same, Fields, Pages
<1>9. Same(s, t, {"queue", "stack", "timeouts"})
  BY <1>8 DEF Same
<1>10. QED
  BY <1>2, <1>3, <1>6, <1>8, <1>9 DEF Empties, q, t

\* The element has no entry left.
LEMMA EmptyEffect ==
    ASSUME NEW s \in Pages, NEW e \in Elements, NEW left \in {"empty", "filled"}, NEW src
    PROVE  LET t == handleQueueMarkDefer(Detach(s, e, left), e, src) IN
           t \in Pages /\ Empties(s, t, e)
<1> DEFINE u == Detach(s, e, left)
           t == handleQueueMarkDefer(u, e, src)
<1>1. u \in Pages /\ Empties(s, u, e)
  BY DetachEffect
<1>2. u \in Pages => t \in Pages /\ Same(u, t, {"timeouts"})
  BY TimeoutAdded
<1> HIDE DEF t, u
<1>3. t \in Pages /\ Empties(s, t, e)
  BY <1>1, <1>2 DEF Empties, Same, Fields
<1>4. QED
  BY <1>3 DEF t, u

\* jQuery.fn.dequeue.
LEMMA DequeueEffect ==
    ASSUME FxAssumption, NEW s \in Pages, NEW e \in Elements, Waits(s, e)
    PROVE  \/ dequeue(s, e) \in Pages /\ Empties(s, dequeue(s, e), e)
           \/ \E u, a : u \in Pages /\ Takes(s, u, e, a) /\ dequeue(s, e) = Start(u, e, a)
<1> DEFINE q == s.queue[e]
           rest == IF q # <<>> /\ Head(q) = InProgress THEN Tail(q) ELSE q
           t == dequeue(s, e)
<1>1. q \in Seq(Nat) /\ s.queue \in [Elements -> Seq(Nat)] /\ s.stack \in Seq(Frames)
  BY DEF Pages
<1>2. CASE rest = <<>>
  <2>1. t = handleQueueMarkDefer(Detach(s, e, "empty"), e, "queue")
    BY <1>2 DEF dequeue
  <2>2. QED
    BY <2>1, EmptyEffect
<1>3. CASE rest # <<>>
  <2> DEFINE f == [fn |-> "dequeued", elem |-> e, array |-> "shared"]
             k == <<f>> \o s.stack
             x == <<InProgress>> \o Tail(rest)
             qq == [s.queue EXCEPT ![e] = x]
             u == [s EXCEPT !.queue = qq, !.stack = k]
             a == Head(rest)
  <2>1. t = Start(u, e, a)
    BY <1>3 DEF dequeue
  <2>2. f \in Frames
    BY DEF Frames, Dequeues
  <2>3. k \in Seq(Frames)
    BY <1>1, <2>2, Pushed
  <2>4. PICK n \in {0, 1} : /\ n = 0 <=> q[1] # InProgress
                            /\ rest = IF n = 1 THEN Tail(q) ELSE q
    <3>1. q # <<>>
      BY <1>3
    <3>2. Head(q) = q[1]
      BY <1>1, <3>1
    <3>3. CASE q[1] = InProgress
      BY <3>1, <3>2, <3>3
    <3>4. CASE q[1] # InProgress
      BY <3>1, <3>2, <3>4
    <3>5. QED
      BY <3>3, <3>4
  <2>5. /\ rest \in Seq(Nat) /\ Len(rest) \in Nat \ {0} /\ DOMAIN q = 1..(Len(rest) + n)
        /\ \A j \in 1..Len(rest) : rest[j] = q[j + n]
        /\ a = rest[1]
    <3>1. q # <<>>
      BY <1>3
    <3> HIDE DEF rest, q
    <3>2. /\ DOMAIN q = 1..Len(q) /\ Len(q) \in Nat \ {0}
          /\ Tail(q) \in Seq(Nat) /\ Len(Tail(q)) = Len(q) - 1
          /\ \A j \in 1..(Len(q) - 1) : Tail(q)[j] = q[j + 1]
      BY <1>1, <3>1, HeadTailProperties, EmptySeq
    <3>3. CASE n = 0
      BY <1>1, <1>3, <2>4, <3>2, <3>3
    <3>4. CASE n = 1
      <4>1. rest = Tail(q)
        BY <2>4, <3>4
      <4>2. Len(rest) \in Nat \ {0}
        BY <1>3, <3>2, <4>1
      <4>3. QED
        BY <1>3, <3>2, <3>4, <4>1, <4>2
    <3>5. QED
      BY <3>3, <3>4
  <2>6. /\ x \in Seq(Nat) /\ Len(x) = Len(rest) /\ DOMAIN x = 1..Len(x)
        /\ x[1] = InProgress /\ \A j \in 2..Len(x) : x[j] = rest[j]
    <3> HIDE DEF rest
    <3> DEFINE y == Tail(rest)
    <3>1. y \in Seq(Nat) /\ Len(y) = Len(rest) - 1
          /\ \A j \in 1..(Len(rest) - 1) : y[j] = rest[j + 1]
      BY <1>3, <2>5, HeadTailProperties, EmptySeq
    <3>2. x = <<InProgress>> \o y
      OBVIOUS
    <3> HIDE DEF x, y
    <3>3. <<InProgress>> \in Seq(Nat) /\ Len(<<InProgress>>) = 1 /\ <<InProgress>>[1] = InProgress
      BY DEF InProgress
    <3>4. /\ x \in Seq(Nat) /\ Len(x) = 1 + Len(y)
          /\ \A j \in 1..Len(x) : x[j] = IF j <= 1 THEN <<InProgress>>[j] ELSE y[j - 1]
      BY <3>1, <3>2, <3>3, ConcatProperties
    <3>5. \A j \in 2..Len(x) : x[j] = y[j - 1] /\ j - 1 \in 1..(Len(rest) - 1) /\ (j - 1) + 1 = j
      BY <2>5, <3>1, <3>4
    <3>6. Len(x) = Len(rest) /\ Len(x) \in Nat \ {0} /\ DOMAIN x = 1..Len(x)
      BY <2>5, <3>1, <3>4
    <3>7. x[1] = InProgress
      BY <3>3, <3>4, <3>6
    <3>8. \A j \in 2..Len(x) : x[j] = rest[j]
      BY <3>1, <3>5
    <3>9. QED
      BY <3>4, <3>6, <3>7, <3>8
  <2> HIDE DEF k, x, rest, a
  <2>7. qq \in [Elements -> Seq(Nat)] /\ qq[e] = x /\ \A d \in Elements : d # e => qq[d] = s.queue[d]
    BY <1>1, <2>6
  <2> HIDE DEF qq
  <2>8. u \in Pages /\ Same(s, u, {"queue", "stack"}) /\ u.queue = qq /\ u.stack = k
    BY <2>3, <2>7 DEF Same, Fields, Pages
  <2> HIDE DEF u
  <2>9. a = q[1 + n] /\ \A j \in DOMAIN x : j # 1 => x[j] = q[j + n]
    <3> HIDE DEF q
    <3>1. \A j \in DOMAIN x : j # 1 => j \in 2..Len(x) /\ j \in 1..Len(rest)
      BY <2>5, <2>6
    <3>2. 1 \in 1..Len(rest)
      BY <2>5
    <3>3. QED
      BY <2>5, <2>6, <3>1, <3>2
  <2>10. Takes(s, u, e, a)
    <3>1. /\ DOMAIN s.queue[e] = 1..(Len(u.queue[e]) + n)
          /\ DOMAIN u.queue[e] = 1..Len(u.queue[e]) /\ Len(u.queue[e]) \in Nat \ {0}
          /\ u.queue[e][1] = InProgress
      BY <2>5, <2>6, <2>7, <2>8
    <3>2. \A j \in DOMAIN u.queue[e] : j # 1 => u.queue[e][j] = s.queue[e][j + n]
      BY <2>7, <2>8, <2>9
    <3>3. QED
      BY <2>4, <2>7, <2>8, <2>9, <3>1, <3>2 DEF Takes, k
  <2>11. QED
    BY <2>1, <2>8, <2>10
<1>4. QED
  BY <1>2, <1>3

\* The last step of a timer.
LEMMA FinishEffect ==
    ASSUME NEW s \in Pages, NEW m \in Timers, m.entry \in DOMAIN s.entries
    PROVE  LET t == finish(s, m) IN t \in Pages /\ (Steps(s, t, m) \/ Ends(s, t, m))
<1> DEFINE a == m.entry
           entry == s.entries[a]
           done == entry.done \union {m.prop}
           x == [s.entries EXCEPT ![a] = [entry EXCEPT !.done = done]]
           u == [s EXCEPT !.entries = x]
           t == finish(s, m)
<1>1. s.entries \in Seq(Entries) /\ a \in DOMAIN s.entries /\ entry \in Entries
      /\ s.look \in [Elements -> Looks] /\ s.stack \in Seq(Frames) /\ a \in Nat
  BY DEF Pages
<1>2. entry.done \in SUBSET Nat /\ done \in SUBSET Nat /\ entry.completed \in Nat
      /\ entry.orig \in Looks /\ m.elem \in Elements
  BY <1>1 DEF Entries, Timers
<1>3. x \in Seq(Entries) /\ x[a] = [entry EXCEPT !.done = done]
  <2>1. [entry EXCEPT !.done = done] \in Entries
    BY <1>1, <1>2 DEF Entries
  <2>2. QED
    BY <1>1, <2>1, ExceptSeq
<1>4. u = [s EXCEPT !.entries[a].done = @ \union {m.prop}]
  OBVIOUS
<1>5. u \in Pages /\ Same(s, u, {"entries"}) /\ u.entries = x
  <2> HIDE DEF x
  <2>1. QED
    BY <1>3 DEF Same, Fields, Pages
<1>6. u.entries[a].done = done
  BY <1>1, <1>3, <1>5 DEF Entries
<1>7. CASE done # 1..Props
  <2>1. t = u
    BY <1>4, <1>6, <1>7 DEF finish
  <2>2. QED
    BY <1>5, <1>7, <2>1 DEF Steps
<1>8. CASE done = 1..Props
  <2> DEFINE y == [s.entries EXCEPT ![a] = [entry EXCEPT !.done = done, !.completed = entry.completed + 1]]
             l == [entry.orig EXCEPT !.shown = ~entry.orig.shown]
             z == [s.look EXCEPT ![m.elem] = l]
             k == <<Frame("callback", m.elem, a)>> \o s.stack
  <2>1. y \in Seq(Entries)
    <3>1. entry.completed + 1 \in Nat
      BY <1>2
    <3> HIDE DEF entry, done
    <3>2. [entry EXCEPT !.done = done, !.completed = entry.completed + 1] \in Entries
      BY <1>1, <1>2, <3>1 DEF Entries
    <3>3. QED
      BY <1>1, <3>2, ExceptSeq DEF entry, done
  <2>2. z \in [Elements -> Looks]
    <3>1. l \in Looks
      BY <1>2 DEF Looks
    <3>2. QED
      BY <1>1, <3>1
  <2>3. k \in Seq(Frames)
    <3>1. Frame("callback", m.elem, a) \in Frames
      BY <1>1, <1>2 DEF Frame, Frames, Codes
    <3>2. QED
      BY <1>1, <3>1, Pushed
  <2>4. [x EXCEPT ![a].completed = @ + 1] = y
    <3>1. x[a].completed = entry.completed
      BY <1>1, <1>3 DEF Entries
    <3>2. [x[a] EXCEPT !.completed = x[a].completed + 1] = [entry EXCEPT !.done = done, !.completed = entry.completed + 1]
      BY <1>1, <1>3, <3>1 DEF Entries
    <3>3. QED
      BY <1>1, <3>2
  <2>5. t = [u EXCEPT !.running = s.running \ {a}, !.entries = y, !.look = z, !.stack = k]
    <3>1. t = [u EXCEPT !.running = @ \ {a}, !.entries[a].completed = @ + 1,
                        !.look[m.elem] = [s.entries[a].orig EXCEPT !.shown = ~@],
                        !.stack = <<Frame("callback", m.elem, a)>> \o @]
      <4> HIDE DEF u, done
      <4>1. QED
        BY <1>4, <1>6, <1>8 DEF finish
    <3> HIDE DEF u, x, y, t
    <3>2. u.running = s.running /\ u.look = s.look /\ u.stack = s.stack /\ u.entries = x
      BY <1>5 DEF Same, Fields
    <3>3. QED
      BY <2>4, <3>1, <3>2
  <2> HIDE DEF y, z, k, t
  <2>6. /\ t \in Pages /\ Same(s, t, {"entries", "running", "look", "stack"})
        /\ t.running = s.running \ {a} /\ t.entries = y /\ t.look = z /\ t.stack = k
    BY <1>1, <2>1, <2>2, <2>3, <2>5 DEF Same, Fields, Pages
  <2>7. Ends(s, t, m)
    BY <1>8, <2>6 DEF Ends, y, z, k
  <2>8. QED
    BY <2>6, <2>7 DEF t
<1>9. QED
  BY <1>7, <1>8

\* The timer at i goes from jQuery.timers.
LEMMA SpliceEffect ==
    ASSUME NEW s \in Pages, NEW i \in DOMAIN s.timers
    PROVE  LET t == splice(s, i) IN
           t \in Pages /\ Same(s, t, {"timers"}) /\ t.timers = RemoveAt(s.timers, i)
<1> DEFINE x == RemoveAt(s.timers, i)
<1>1. s.timers \in Seq(Timers)
  BY DEF Pages
<1>2. x \in Seq(Timers)
  BY <1>1, Spliced
<1>3. splice(s, i) = [s EXCEPT !.timers = x]
  BY DEF splice
<1> HIDE DEF x
<1>4. [s EXCEPT !.timers = x] \in Pages /\ Same(s, [s EXCEPT !.timers = x], {"timers"})
      /\ [s EXCEPT !.timers = x].timers = x
  BY <1>2 DEF Pages, Same, Fields
<1>5. QED
  BY <1>3, <1>4 DEF x

\* An animation is cut short.
LEMMA CutEffect ==
    ASSUME NEW s \in Pages, NEW m
    PROVE  LET t == cutShort(s, m) IN
           /\ t \in Pages /\ Same(s, t, {"running", "cut"})
           /\ t.running = s.running \ {m.entry} /\ t.cut = s.cut \union ({m.entry} \cap s.running)
  BY DEF Pages, Same, Fields, cutShort

-----------------------------------------------------------------------------
(***************************************************************************)
(* Sound is kept by each of them.                                          *)
(***************************************************************************)
LEMMA SoundKept ==
    ASSUME NEW s, NEW t \in Pages, Sound(s),
           Same(s, t, {"mark", "defer", "timeouts", "pending", "raised", "lost", "stack", "look",
                       "timerId", "loops"}),
           \A i \in DOMAIN t.stack : Links(s, t.stack[i]),
           \A e \in Elements : plain(t.look[e]) <=> plain(s.look[e]),
           Ticking(t)
    PROVE  Sound(t)
<1>1. /\ t.running = s.running /\ t.owed = s.owed /\ t.timers = s.timers /\ t.cut = s.cut
      /\ t.entries = s.entries /\ t.queue = s.queue
  BY DEF Same, Fields
<1>2. (\A d : of(t, d) = of(s, d)) /\ (\A a : has(t, a) <=> has(s, a))
  BY <1>1 DEF of, has
<1>3. \A a : Untouched(s, a) => Untouched(t, a)
  BY <1>1, <1>2 DEF Untouched
<1>4. Linked(t)
  BY <1>1, <1>2 DEF Sound, Linked, Links
<1>5. \A d \in Elements : Styled(t, d)
  BY <1>1, <1>2 DEF Sound, Styled
<1>6. \A d \in Elements : Waits(t, d)
  BY <1>1, <1>2, <1>3 DEF Sound, Waits
<1>7. QED
  BY <1>4, <1>5, <1>6 DEF Sound

LEMMA SoundAlike ==
    ASSUME NEW s, NEW t \in Pages, Sound(s),
           Same(s, t, {"mark", "defer", "timeouts", "pending", "raised", "lost"})
    PROVE  Sound(t)
<1>1. t.stack = s.stack /\ t.look = s.look /\ t.timers = s.timers /\ t.timerId = s.timerId /\ t.loops = s.loops
  BY DEF Same, Fields
<1>2. Ticking(t) /\ \A i \in DOMAIN t.stack : Links(s, t.stack[i])
  BY <1>1 DEF Sound, Ticking, Linked
<1>3. Same(s, t, {"mark", "defer", "timeouts", "pending", "raised", "lost", "stack", "look", "timerId", "loops"})
  BY DEF Same
<1>4. QED
  BY <1>1, <1>2, <1>3, SoundKept

\* Sound pages with another stack are sound, if the frames are.
LEMMA SoundStack ==
    ASSUME NEW s, NEW t \in Pages, Sound(s), Same(s, t, {"stack"}),
           \A i \in DOMAIN t.stack : Links(s, t.stack[i])
    PROVE  Sound(t)
BY DEF Sound, Same, Fields, Linked, Links, Waits, Untouched, has, of, Ticking, Styled

LEMMA EntryPositive ==
    ASSUME NEW s \in Pages, NEW a \in DOMAIN s.entries
    PROVE  a \in Nat \ {0} /\ s.entries[a] \in Entries /\ s.entries \in Seq(Entries)
<1>1. s.entries \in Seq(Entries)
  BY DEF Pages
<1>2. QED
  BY <1>1

LEMMA SoundEmpties ==
    ASSUME NEW s, NEW t \in Pages, NEW e \in Elements, Sound(s), Empties(s, t, e)
    PROVE  Sound(t)
<1>1. /\ t.entries = s.entries /\ t.running = s.running /\ t.owed = s.owed /\ t.timers = s.timers
      /\ t.timerId = s.timerId /\ t.loops = s.loops /\ t.cut = s.cut /\ t.look = s.look
  BY DEF Empties, Same, Fields
<1>2. Linked(t)
  BY <1>1 DEF Sound, Linked, Links, of, Empties, isCode
<1>3. ASSUME NEW d \in Elements PROVE Waits(t, d)
  <2>1. s.queue \in [Elements -> Seq(Nat)] /\ Waits(s, d)
    BY DEF Sound, Pages
  <2>2. t.queue = [s.queue EXCEPT ![e] = <<>>]
    BY DEF Empties
  <2>3. CASE d = e
    <3>1. t.queue[d] = <<>>
      BY <2>1, <2>2, <2>3
    <3>2. DOMAIN t.queue[d] = {}
      BY <3>1
    <3>3. QED
      BY <3>2 DEF Waits
  <2>4. CASE d # e
    <3>1. t.queue[d] = s.queue[d]
      BY <2>1, <2>2, <2>4
    <3>2. of(t, d) = of(s, d) /\ \A b : Untouched(s, b) => Untouched(t, b)
      BY <1>1 DEF Untouched, of, has
    <3>3. QED
      BY <2>1, <3>1, <3>2 DEF Waits
  <2>5. QED
    BY <2>3, <2>4
<1>4. QED
  BY <1>1, <1>2, <1>3 DEF Sound, Ticking, Styled, has, of

LEMMA SoundTakes ==
    ASSUME NEW s, NEW u \in Pages, NEW e \in Elements, NEW a, Sound(s), Takes(s, u, e, a)
    PROVE  Sound(u) /\ Fresh(u, e, a)
<1>1. /\ u.entries = s.entries /\ u.running = s.running /\ u.owed = s.owed /\ u.timers = s.timers
      /\ u.timerId = s.timerId /\ u.loops = s.loops /\ u.cut = s.cut /\ u.look = s.look
  BY DEF Takes, Same, Fields
<1>2. Linked(u)
  <2>1. s.stack \in Seq(Frames) /\ [fn |-> "dequeued", elem |-> e, array |-> "shared"] \in Frames
    BY DEF Sound, Pages, Frames, Dequeues
  <2>2. \A i \in DOMAIN u.stack :
           \/ u.stack[i].fn = "dequeued"
           \/ \E j \in DOMAIN s.stack : u.stack[i] = s.stack[j]
    BY <2>1, Pushed DEF Takes
  <2>3. \A i \in DOMAIN u.stack : Links(s, u.stack[i])
    BY <2>2 DEF Sound, Linked, Links, isCode
  <2>4. QED
    BY <1>1, <2>3 DEF Sound, Linked, Links, of
<1>3. PICK n \in {0, 1} :
          /\ DOMAIN s.queue[e] = 1..(Len(u.queue[e]) + n)
          /\ DOMAIN u.queue[e] = 1..Len(u.queue[e]) /\ Len(u.queue[e]) \in Nat \ {0}
          /\ u.queue[e][1] = InProgress
          /\ \A k \in DOMAIN u.queue[e] : k # 1 => u.queue[e][k] = s.queue[e][k + n]
          /\ a = s.queue[e][1 + n]
          /\ n = 0 <=> s.queue[e][1] # InProgress
  BY DEF Takes
<1>4. Waits(s, e)
  BY DEF Sound
<1>5. a # InProgress /\ 1 + n \in DOMAIN s.queue[e]
  <2>1. 1 + n \in DOMAIN s.queue[e]
    BY <1>3
  <2>2. CASE n = 0
    BY <1>3, <2>2
  <2>3. CASE n = 1
    BY <1>3, <1>4, <2>1, <2>3 DEF Waits
  <2>4. QED
    BY <2>1, <2>2, <2>3
<1>6. a \in of(s, e) /\ Untouched(s, a)
  BY <1>3, <1>4, <1>5 DEF Waits
<1>7. \A k \in DOMAIN u.queue[e] : k # 1 =>
         /\ k + n \in DOMAIN s.queue[e] /\ k + n # 1 /\ k + n # 1 + n
         /\ u.queue[e][k] = s.queue[e][k + n]
  BY <1>3
<1>8. \A k \in DOMAIN u.queue[e] : k # 1 =>
         /\ u.queue[e][k] # InProgress /\ u.queue[e][k] # a
         /\ u.queue[e][k] \in of(s, e) /\ Untouched(s, u.queue[e][k])
  <2> SUFFICES ASSUME NEW k \in DOMAIN u.queue[e], k # 1
               PROVE  /\ u.queue[e][k] # InProgress /\ u.queue[e][k] # a
                      /\ u.queue[e][k] \in of(s, e) /\ Untouched(s, u.queue[e][k])
    OBVIOUS
  <2> DEFINE l == k + n
  <2>1. l \in DOMAIN s.queue[e] /\ l # 1 /\ l # 1 + n /\ u.queue[e][k] = s.queue[e][l]
    BY <1>7
  <2> HIDE DEF l
  <2>2. s.queue[e][l] # InProgress /\ s.queue[e][l] \in of(s, e) /\ Untouched(s, s.queue[e][l])
    BY <1>4, <2>1 DEF Waits
  <2>3. s.queue[e][l] # a
    BY <1>3, <1>4, <1>5, <2>1 DEF Waits
  <2>4. QED
    BY <2>1, <2>2, <2>3
<1>9. ASSUME NEW k \in DOMAIN u.queue[e], NEW l \in DOMAIN u.queue[e], u.queue[e][k] = u.queue[e][l]
      PROVE  k = l
  <2>1. CASE k = 1 \/ l = 1
    BY <1>3, <1>8, <1>9, <2>1
  <2>2. CASE k # 1 /\ l # 1
    <3>1. k + n = l + n
      BY <1>4, <1>7, <1>9, <2>2 DEF Waits
    <3>2. QED
      BY <1>3, <3>1
  <2>3. QED
    BY <2>1, <2>2
<1>10. Waits(u, e)
  <2>1. \A b : Untouched(s, b) => Untouched(u, b)
    BY <1>1 DEF Untouched, has
  <2>2. of(u, e) = of(s, e)
    BY <1>1 DEF of
  <2>3. QED
    BY <1>3, <1>8, <1>9, <2>1, <2>2 DEF Waits
<1>11. \A d \in Elements : Waits(u, d)
  <2> SUFFICES ASSUME NEW d \in Elements, d # e PROVE Waits(u, d)
    BY <1>10
  <2>1. u.queue[d] = s.queue[d] /\ Waits(s, d)
    BY DEF Takes, Sound
  <2>2. QED
    BY <1>1, <2>1 DEF Waits, Untouched, of, has
<1>12. Fresh(u, e, a)
  <2>1. of(u, e) = of(s, e) /\ Untouched(u, a)
    BY <1>1, <1>6 DEF Untouched, of, has
  <2>2. \A k \in DOMAIN u.queue[e] : u.queue[e][k] # a
    BY <1>3, <1>5, <1>8
  <2>3. QED
    BY <1>6, <2>1, <2>2 DEF Fresh
<1>13. QED
  BY <1>1, <1>2, <1>11, <1>12 DEF Sound, Ticking, Styled, has, of

LEMMA SoundStarts ==
    ASSUME FxAssumption, NEW s, NEW t \in Pages, NEW e \in Elements, NEW a,
           Sound(s), Fresh(s, e, a), Starts(s, t, e, a)
    PROVE  Sound(t)
<1>1. /\ s \in Pages /\ a \in Nat \ {0} /\ a \in DOMAIN s.entries /\ s.entries[a] \in Entries
      /\ s.entries[a].elem = e /\ s.entries \in Seq(Entries) /\ s.stack \in Seq(Frames)
  BY EntryPositive DEF Sound, Fresh, of, Pages
<1>2. \A d \in Elements : \A k \in DOMAIN s.queue[d] : s.queue[d][k] # a
  BY <1>1 DEF Sound, Fresh, Waits, of, InProgress
<1>3. ASSUME NEW fn \in {"fn", "callback"}, t.stack = <<Frame(fn, e, a)>> \o s.stack, of(t, e) = of(s, e),
             \A d : of(t, d) = of(s, d)
      PROVE  \A i \in DOMAIN t.stack : Links(t, t.stack[i])
  <2>1. Frame(fn, e, a) \in Frames
    BY <1>1 DEF Frame, Frames, Codes
  <2>2. \A i \in DOMAIN t.stack :
           \/ t.stack[i] = Frame(fn, e, a)
           \/ \E j \in DOMAIN s.stack : t.stack[i] = s.stack[j]
    BY <1>1, <1>3, <2>1, Pushed
  <2>3. Links(t, Frame(fn, e, a))
    BY <1>3 DEF Links, Frame, Fresh
  <2>4. QED
    BY <1>3, <2>2, <2>3 DEF Sound, Linked, Links
<1>4. CASE Delays(s, t, a)
  <2>1. /\ t.entries = s.entries /\ t.running = s.running /\ t.owed = s.owed \union {a} /\ t.timers = s.timers
        /\ t.timerId = s.timerId /\ t.loops = s.loops /\ t.cut = s.cut /\ t.look = s.look
        /\ t.queue = s.queue /\ t.stack = s.stack
    BY <1>4 DEF Delays, Same, Fields
  <2>2. Linked(t)
    BY <1>1, <2>1 DEF Sound, Linked, Links, of
  <2>u. \A b : b # a /\ Untouched(s, b) => Untouched(t, b)
    BY <2>1 DEF Untouched, has
  <2>3. \A d \in Elements : Waits(t, d)
    BY <1>2, <2>1, <2>u DEF Sound, Waits, of
  <2>4. QED
    BY <2>1, <2>2, <2>3 DEF Sound, Ticking, Styled, has, of
<1>5. CASE Calls(s, t, e, a)
  <2>1. /\ t.entries = s.entries /\ t.running = s.running /\ t.owed = s.owed \union {a} /\ t.timers = s.timers
        /\ t.timerId = s.timerId /\ t.loops = s.loops /\ t.cut = s.cut /\ t.look = s.look
        /\ t.queue = s.queue /\ t.stack = <<Frame("fn", e, a)>> \o s.stack
    BY <1>5 DEF Calls, Same, Fields
  <2>2. Linked(t)
    BY <1>1, <1>3, <2>1 DEF Sound, Linked, Links, of
  <2>u. \A b : b # a /\ Untouched(s, b) => Untouched(t, b)
    BY <2>1 DEF Untouched, has
  <2>3. \A d \in Elements : Waits(t, d)
    BY <1>2, <2>1, <2>u DEF Sound, Waits, of
  <2>4. QED
    BY <2>1, <2>2, <2>3 DEF Sound, Ticking, Styled, has, of
<1>6. CASE ShowsAtOnce(s, t, e, a)
  <2>1. /\ t.entries = [s.entries EXCEPT ![a] = [s.entries[a] EXCEPT !.completed = 1]]
        /\ t.running = s.running /\ t.owed = s.owed /\ t.timers = s.timers
        /\ t.timerId = s.timerId /\ t.loops = s.loops /\ t.cut = s.cut /\ t.look = s.look
        /\ t.queue = s.queue /\ t.stack = <<Frame("callback", e, a)>> \o s.stack
    BY <1>6 DEF ShowsAtOnce, Same, Fields
  <2>2. /\ DOMAIN t.entries = DOMAIN s.entries /\ \A b \in DOMAIN s.entries : b # a => t.entries[b] = s.entries[b]
        /\ t.entries[a].elem = e /\ t.entries[a].alone = s.entries[a].alone /\ t.entries[a].orig = s.entries[a].orig
    BY <1>1, <2>1 DEF Entries
  <2>3. \A d : of(t, d) = of(s, d)
    BY <1>1, <2>2 DEF of
  <2>4. Linked(t)
    BY <1>1, <1>3, <2>1, <2>2, <2>3 DEF Sound, Linked
  <2>u. \A b : b # a /\ Untouched(s, b) => Untouched(t, b)
    BY <2>1, <2>2 DEF Untouched, has
  <2>5. \A d \in Elements : Waits(t, d)
    BY <1>2, <2>1, <2>3, <2>u DEF Sound, Waits
  <2>6. \A d \in Elements : Styled(t, d)
    BY <2>1, <2>2, <2>3 DEF Sound, Styled, has, of
  <2>7. QED
    BY <2>1, <2>4, <2>5, <2>6 DEF Sound, Ticking
<1>7. CASE Begins(s, t, e, a)
  <2> DEFINE alone == \A b \in s.running : s.entries[b].elem # e
  <2>1. /\ t.entries = [s.entries EXCEPT ![a] = [s.entries[a] EXCEPT !.orig = s.look[e], !.alone = alone]]
        /\ t.running = s.running \union {a} /\ t.owed = s.owed
        /\ t.timerId = TRUE /\ t.loops = (IF s.timerId THEN s.loops ELSE s.loops + 1)
        /\ t.cut = s.cut /\ t.queue = s.queue /\ t.stack = s.stack
    BY <1>7 DEF Begins, Same, Fields
  <2>b. alone \in BOOLEAN
    OBVIOUS
  <2> HIDE DEF alone
  <2>2. /\ DOMAIN t.entries = DOMAIN s.entries /\ \A b \in DOMAIN s.entries : b # a => t.entries[b] = s.entries[b]
        /\ t.entries[a].elem = e /\ t.entries[a].alone = alone /\ t.entries[a].orig = s.look[e]
    BY <1>1, <2>1, <2>b DEF Entries
  <2>3. \A d : of(t, d) = of(s, d)
    BY <1>1, <2>2 DEF of
  <2>4. \A i \in DOMAIN t.timers :
           \/ i \in DOMAIN s.timers /\ t.timers[i] = s.timers[i]
           \/ t.timers[i].elem = e /\ t.timers[i].entry = a
    <3> SUFFICES ASSUME NEW i \in DOMAIN t.timers, ~(i \in DOMAIN s.timers /\ t.timers[i] = s.timers[i])
                 PROVE  t.timers[i].elem = e /\ t.timers[i].entry = a
      OBVIOUS
    <3>1. t.timers[i] = [elem |-> e, entry |-> a, prop |-> i - Len(s.timers)]
      BY <1>7 DEF Begins
    <3>2. QED
      BY <3>1
  <2>5. \A b : has(t, b) => b = a \/ has(s, b)
    BY <2>4 DEF has
  <2>6. Linked(t)
    BY <1>1, <2>1, <2>2, <2>3, <2>4 DEF Sound, Linked, Links, Fresh
  <2>7. \A d \in Elements : Waits(t, d)
    <3> SUFFICES ASSUME NEW d \in Elements PROVE Waits(t, d)
      OBVIOUS
    <3>1. Waits(s, d)
      BY DEF Sound
    <3>2. \A b : b # a /\ Untouched(s, b) => Untouched(t, b)
      BY <2>1, <2>2, <2>5 DEF Untouched
    <3>3. QED
      BY <1>2, <2>1, <2>3, <3>1, <3>2 DEF Waits
  <2>8. Ticking(t)
    <3>1. s.loops \in Nat /\ (s.timerId => s.loops > 0)
      BY DEF Sound, Pages, Ticking
    <3>2. QED
      BY <2>1, <3>1 DEF Ticking
  <2>9. ASSUME NEW d \in Elements PROVE Styled(t, d)
    <3>1. Styled(s, d)
      BY DEF Sound
    <3>2. CASE d # e
      <4>1. t.look[d] = s.look[d]
        BY <1>7, <3>2 DEF Begins, Sound, Pages
      <4>2. \A b \in of(s, d) : b # a /\ t.entries[b] = s.entries[b]
        BY <1>1, <2>2, <3>2 DEF of
      <4>3. QED
        BY <2>1, <2>3, <2>5, <3>1, <4>1, <4>2 DEF Styled
    <3>3. CASE d = e
      <4> SUFFICES ASSUME \A b \in of(t, e) : t.entries[b].alone /\ b \notin t.cut
                   PROVE  \A b \in of(t, e) : has(t, b) => plain(t.entries[b].orig)
        BY <1>1, <2>1, <2>3, <3>3 DEF Styled, Fresh
      <4>1. a \in of(s, e) /\ alone
        BY <2>2, <2>3 DEF Fresh
      <4>2. \A b \in of(s, e) : b \notin s.running
        BY <4>1 DEF of, alone
      <4>3. \A b \in of(s, e) : b # a => s.entries[b].alone /\ b \notin s.cut /\ t.entries[b] = s.entries[b]
        BY <2>1, <2>2, <2>3 DEF of
      <4>4. s.entries[a].alone /\ a \notin s.cut
        BY DEF Fresh, Untouched
      <4>5. \A b \in of(s, e) : s.entries[b].alone /\ b \notin s.cut
        BY <4>3, <4>4
      <4>6. plain(s.look[e]) /\ \A b \in of(s, e) : has(s, b) => plain(s.entries[b].orig)
        BY <3>1, <3>3, <4>2, <4>5 DEF Styled
      <4>7. QED
        BY <2>2, <2>3, <2>5, <4>3, <4>6
    <3>4. QED
      BY <3>2, <3>3
  <2>10. QED
    BY <2>6, <2>7, <2>8, <2>9 DEF Sound
<1>8. QED
  BY <1>4, <1>5, <1>6, <1>7 DEF Starts

LEMMA SoundStart ==
    ASSUME FxAssumption, NEW s, NEW e \in Elements, NEW a, Sound(s), Fresh(s, e, a)
    PROVE  Sound(Start(s, e, a)) /\ Starts(s, Start(s, e, a), e, a)
<1>1. s \in Pages /\ a \in DOMAIN s.entries
  BY DEF Sound, Fresh, of
<1>2. Start(s, e, a) \in Pages /\ Starts(s, Start(s, e, a), e, a)
  <2>1. s.entries[a].kind # "empty"
    BY DEF Fresh, Untouched, startable
  <2>2. QED
    BY <1>1, <2>1, StartEffect
<1>3. QED
  BY <1>2, SoundStarts

\* What dequeue does.
Dequeued(s, t, e) ==
    \/ Empties(s, t, e)
    \/ \E u, a : Sound(u) /\ Takes(s, u, e, a) /\ Fresh(u, e, a) /\ Starts(u, t, e, a)

LEMMA SoundDequeue ==
    ASSUME FxAssumption, NEW s, NEW e \in Elements, Sound(s)
    PROVE  Sound(dequeue(s, e)) /\ Dequeued(s, dequeue(s, e), e)
<1> DEFINE t == dequeue(s, e)
<1>1. s \in Pages /\ Waits(s, e)
  BY DEF Sound
<1>2. CASE t \in Pages /\ Empties(s, t, e)
  BY <1>2, SoundEmpties DEF Dequeued
<1>3. ASSUME NEW u, NEW a, u \in Pages, Takes(s, u, e, a), t = Start(u, e, a)
      PROVE  Sound(t) /\ Dequeued(s, t, e)
  <2> HIDE DEF t
  <2>1. Sound(u) /\ Fresh(u, e, a)
    BY <1>3, SoundTakes
  <2>2. Sound(t) /\ Starts(u, t, e, a)
    BY <1>3, <2>1, SoundStart
  <2>3. QED
    BY <1>3, <2>1, <2>2 DEF Dequeued
<1>4. QED
  BY <1>1, <1>2, <1>3, DequeueEffect

\* The queue of e is replaced by an empty array, which is dequeued.
LEMMA SoundClear ==
    ASSUME FxAssumption, NEW s, NEW e \in Elements, Sound(s)
    PROVE  Sound(clear(s, e)) /\ Empties(s, clear(s, e), e)
<1> DEFINE left == IF s.queue[e] = <<>> THEN "empty" ELSE "filled"
           u == Detach(s, e, left)
           t == clear(s, e)
<1>1. s \in Pages /\ left \in {"empty", "filled"}
  BY DEF Sound
<1> HIDE DEF left
<1>2. u \in Pages /\ Empties(s, u, e)
  BY <1>1, DetachEffect
<1> HIDE DEF u
<1>3. u.queue[e] = <<>>
  BY <1>2 DEF Empties, Sound, Pages
<1>4. t = handleQueueMarkDefer(Detach(u, e, "empty"), e, "queue")
  BY <1>3 DEF clear, dequeue, u, left
<1> HIDE DEF t
<1>5. t \in Pages /\ Empties(u, t, e)
  BY <1>2, <1>4, EmptyEffect
<1>6. Empties(s, t, e)
  <2>1. Same(s, t, {"queue", "stack", "timeouts"})
    BY <1>2, <1>5 DEF Empties, Same
  <2>2. t.queue = [s.queue EXCEPT ![e] = <<>>]
    <3>1. s.queue \in [Elements -> Seq(Nat)]
      BY DEF Sound, Pages
    <3>2. QED
      BY <1>2, <1>5, <3>1 DEF Empties
  <2>3. QED
    BY <1>2, <1>5, <2>1, <2>2 DEF Empties
<1>7. QED
  BY <1>5, <1>6, SoundEmpties DEF t

LEMMA SoundSteps ==
    ASSUME NEW s, NEW t \in Pages, NEW i \in DOMAIN s.timers, Sound(s), Steps(s, t, s.timers[i])
    PROVE  Sound(t)
<1> DEFINE m == s.timers[i]  a == m.entry
<1>1. s \in Pages /\ a \in DOMAIN s.entries /\ s.entries[a] \in Entries /\ has(s, a)
  BY EntryPositive DEF Sound, Linked, of, has
<1> HIDE DEF m
<1>2. PICK done : /\ t.entries = [s.entries EXCEPT ![a] = [s.entries[a] EXCEPT !.done = done]]
                  /\ Same(s, t, {"entries"})
  BY DEF Steps, m
<1>3. /\ DOMAIN t.entries = DOMAIN s.entries /\ \A b \in DOMAIN s.entries : b # a => t.entries[b] = s.entries[b]
      /\ t.entries[a].elem = s.entries[a].elem /\ t.entries[a].alone = s.entries[a].alone
      /\ t.entries[a].orig = s.entries[a].orig
  <2> DEFINE x == [s.entries[a] EXCEPT !.done = done]
  <2>1. x.elem = s.entries[a].elem /\ x.alone = s.entries[a].alone /\ x.orig = s.entries[a].orig
    BY <1>1 DEF Entries
  <2> HIDE DEF x
  <2>2. s.entries \in Seq(Entries) /\ t.entries = [s.entries EXCEPT ![a] = x]
    BY <1>1, <1>2, EntryPositive DEF x
  <2>3. QED
    BY <1>1, <2>1, <2>2
<1>4. /\ t.running = s.running /\ t.owed = s.owed /\ t.timers = s.timers /\ t.timerId = s.timerId
      /\ t.loops = s.loops /\ t.cut = s.cut /\ t.look = s.look /\ t.queue = s.queue /\ t.stack = s.stack
  BY <1>2 DEF Same, Fields
<1>5. \A d : of(t, d) = of(s, d)
  BY <1>1, <1>3 DEF of
<1>6. \A b : has(t, b) <=> has(s, b)
  BY <1>4 DEF has
<1>7. \A b : Untouched(s, b) => Untouched(t, b)
  BY <1>1, <1>3, <1>4, <1>6 DEF Untouched
<1>8. Linked(t)
  BY <1>3, <1>4, <1>5 DEF Sound, Linked, Links
<1>9. \A d \in Elements : Waits(t, d) /\ Styled(t, d)
  BY <1>3, <1>4, <1>5, <1>6, <1>7 DEF Sound, Waits, Styled, of
<1>10. QED
  BY <1>4, <1>8, <1>9 DEF Sound, Ticking

LEMMA SoundEnds ==
    ASSUME NEW s, NEW t \in Pages, NEW i \in DOMAIN s.timers, Sound(s), Ends(s, t, s.timers[i])
    PROVE  Sound(t)
<1> DEFINE m == s.timers[i]  a == m.entry
<1>1. /\ s \in Pages /\ a \in DOMAIN s.entries /\ s.entries[a] \in Entries /\ has(s, a)
      /\ m \in Timers /\ s.entries[a].elem = m.elem /\ m.elem \in Elements /\ a \in Nat \ {0}
      /\ s.stack \in Seq(Frames)
  <2>1. s.timers \in Seq(Timers) /\ s.stack \in Seq(Frames)
    BY DEF Sound, Pages
  <2>2. m \in Timers
    BY <2>1
  <2>3. m.elem \in Elements
    BY <2>2 DEF Timers
  <2>4. QED
    BY <2>1, <2>2, <2>3, EntryPositive DEF Sound, Linked, of, has
<1> HIDE DEF m
<1>2. PICK done : t.entries = [s.entries EXCEPT ![a] = [s.entries[a] EXCEPT !.done = done,
                                                           !.completed = s.entries[a].completed + 1]]
  BY DEF Ends, m
<1>3. /\ DOMAIN t.entries = DOMAIN s.entries /\ \A b \in DOMAIN s.entries : b # a => t.entries[b] = s.entries[b]
      /\ t.entries[a].elem = s.entries[a].elem /\ t.entries[a].alone = s.entries[a].alone
      /\ t.entries[a].orig = s.entries[a].orig
  <2> DEFINE x == [s.entries[a] EXCEPT !.done = done, !.completed = s.entries[a].completed + 1]
  <2>1. x.elem = s.entries[a].elem /\ x.alone = s.entries[a].alone /\ x.orig = s.entries[a].orig
    BY <1>1 DEF Entries
  <2> HIDE DEF x
  <2>2. s.entries \in Seq(Entries) /\ t.entries = [s.entries EXCEPT ![a] = x]
    BY <1>1, <1>2, EntryPositive DEF x
  <2>3. QED
    BY <1>1, <2>1, <2>2
<1>4. /\ t.running = s.running \ {a} /\ t.owed = s.owed /\ t.timers = s.timers /\ t.timerId = s.timerId
      /\ t.loops = s.loops /\ t.cut = s.cut /\ t.queue = s.queue
      /\ t.look = [s.look EXCEPT ![m.elem] = [s.entries[a].orig EXCEPT !.shown = ~s.entries[a].orig.shown]]
      /\ t.stack = <<Frame("callback", m.elem, a)>> \o s.stack
  BY DEF Ends, Same, Fields, m
<1>5. \A d : of(t, d) = of(s, d)
  BY <1>1, <1>3 DEF of
<1>6. \A b : has(t, b) <=> has(s, b)
  BY <1>4 DEF has
<1>7. \A b : Untouched(s, b) => Untouched(t, b)
  BY <1>1, <1>3, <1>4, <1>6 DEF Untouched
<1>8. Linked(t)
  <2>1. Frame("callback", m.elem, a) \in Frames
    BY <1>1 DEF Frame, Frames, Codes
  <2>2. \A j \in DOMAIN t.stack :
           t.stack[j] = Frame("callback", m.elem, a) \/ \E l \in DOMAIN s.stack : t.stack[j] = s.stack[l]
    BY <1>1, <1>4, <2>1, Pushed
  <2>3. Links(t, Frame("callback", m.elem, a))
    BY <1>1, <1>5 DEF Links, Frame, of
  <2>4. \A j \in DOMAIN t.stack : Links(t, t.stack[j])
    BY <1>5, <2>2, <2>3 DEF Sound, Linked, Links
  <2>5. QED
    BY <1>3, <1>4, <1>5, <2>4 DEF Sound, Linked
<1>9. ASSUME NEW d \in Elements PROVE Styled(t, d)
  <2>1. Styled(s, d) /\ s.look \in [Elements -> Looks]
    BY DEF Sound, Pages
  <2>2. CASE d # m.elem
    <3>1. t.look[d] = s.look[d]
      BY <1>1, <1>4, <2>1, <2>2
    <3>2. \A b \in of(s, d) : b # a /\ t.entries[b] = s.entries[b]
      BY <1>1, <1>3, <2>2 DEF of
    <3>3. \A b \in of(s, d) : b \in t.running <=> b \in s.running
      BY <1>4, <3>2
    <3>4. t.cut = s.cut /\ of(t, d) = of(s, d)
      BY <1>4, <1>5
    <3>5. QED
      BY <1>6, <2>1, <3>1, <3>2, <3>3, <3>4 DEF Styled
  <2>3. CASE d = m.elem
    <3>1. s.entries[a].orig \in Looks
      BY <1>1 DEF Entries
    <3>2. plain(s.entries[a].orig) => plain(t.look[d])
      BY <1>1, <1>4, <2>1, <2>3, <3>1 DEF plain, Looks
    <3>3. a \in of(s, d)
      BY <1>1, <2>3 DEF of
    <3>4. \A b \in of(s, d) : /\ t.entries[b].alone = s.entries[b].alone
                             /\ t.entries[b].orig = s.entries[b].orig
      BY <1>3 DEF of
    <3> SUFFICES ASSUME \A b \in of(s, d) : s.entries[b].alone /\ b \notin s.cut
                 PROVE  /\ \A b \in of(s, d) : has(s, b) => plain(t.entries[b].orig)
                        /\ plain(t.look[d])
      BY <1>4, <1>5, <1>6, <3>4 DEF Styled
    <3>5. \A b \in of(s, d) : has(s, b) => plain(s.entries[b].orig)
      BY <2>1 DEF Styled
    <3>6. QED
      BY <1>1, <3>2, <3>3, <3>4, <3>5
  <2>4. QED
    BY <2>2, <2>3
<1>10. \A d \in Elements : Waits(t, d)
  BY <1>4, <1>5, <1>7 DEF Sound, Waits
<1>11. QED
  BY <1>4, <1>8, <1>9, <1>10 DEF Sound, Ticking

LEMMA SoundFinish ==
    ASSUME NEW s, NEW i \in DOMAIN s.timers, Sound(s)
    PROVE  LET t == finish(s, s.timers[i]) IN
           Sound(t) /\ (Steps(s, t, s.timers[i]) \/ Ends(s, t, s.timers[i]))
<1>1. s \in Pages /\ s.timers \in Seq(Timers) /\ s.timers[i] \in Timers
  BY DEF Sound, Pages
<1>2. s.timers[i].entry \in DOMAIN s.entries
  BY DEF Sound, Linked, of
<1>3. QED
  BY <1>1, <1>2, FinishEffect, SoundSteps, SoundEnds

LEMMA SoundSplice ==
    ASSUME NEW s, NEW i \in DOMAIN s.timers, Sound(s)
    PROVE  Sound(splice(s, i))
<1> DEFINE t == splice(s, i)
<1>1. s \in Pages /\ s.timers \in Seq(Timers)
  BY DEF Sound, Pages
<1>2. t \in Pages /\ Same(s, t, {"timers"}) /\ t.timers = RemoveAt(s.timers, i)
  BY <1>1, SpliceEffect
<1> HIDE DEF t
<1>3. ASSUME NEW j \in DOMAIN t.timers PROVE \E k \in DOMAIN s.timers : t.timers[j] = s.timers[k]
  <2> DEFINE k == IF j < i THEN j ELSE j + 1
  <2>1. k \in DOMAIN s.timers /\ t.timers[j] = s.timers[k]
    BY <1>1, <1>2, Spliced
  <2> HIDE DEF k
  <2>2. QED
    BY <2>1
<1>4. s.timers # <<>>
  BY <1>1
<1>5. \A b : has(t, b) => has(s, b)
  BY <1>3 DEF has
<1>6. Ticking(t)
  BY <1>2, <1>4 DEF Sound, Ticking, Same, Fields
<1>7. Linked(t)
  BY <1>2, <1>3 DEF Sound, Linked, Links, of, Same, Fields
<1>8. \A d \in Elements : Waits(t, d) /\ Styled(t, d)
  BY <1>2, <1>5 DEF Sound, Waits, Untouched, Styled, of, Same, Fields
<1>9. QED
  BY <1>2, <1>6, <1>7, <1>8 DEF Sound, t

LEMMA SoundCut ==
    ASSUME NEW s, NEW i \in DOMAIN s.timers, Sound(s)
    PROVE  Sound(cutShort(s, s.timers[i]))
<1> DEFINE a == s.timers[i].entry
           t == cutShort(s, s.timers[i])
<1>1. s \in Pages
  BY DEF Sound
<1>2. /\ t \in Pages /\ Same(s, t, {"running", "cut"})
      /\ t.running = s.running \ {a} /\ t.cut = s.cut \union ({a} \cap s.running)
  BY <1>1, CutEffect
<1>3. has(s, a)
  BY DEF has
<1> HIDE DEF t, a
<1>4. \A b : Untouched(s, b) => Untouched(t, b)
  BY <1>2, <1>3 DEF Untouched, has, Same, Fields
<1>5. \A d : of(t, d) = of(s, d)
  BY <1>2 DEF of, Same, Fields
<1>6. Linked(t) /\ Ticking(t)
  BY <1>2, <1>5 DEF Sound, Linked, Ticking, Links, Same, Fields
<1>7. \A d \in Elements : Waits(t, d) /\ Styled(t, d)
  BY <1>2, <1>4, <1>5 DEF Sound, Waits, Styled, has, Same, Fields
<1>8. QED
  BY <1>2, <1>6, <1>7 DEF Sound, t

-----------------------------------------------------------------------------
(***************************************************************************)
(* What the actions do.                                                    *)
(***************************************************************************)
Pops(s, t) == Same(s, t, {"stack"}) /\ s.stack # <<>> /\ t.stack = Tail(s.stack)
Pushes(s, t, f) == Same(s, t, {"stack"}) /\ f \in Frames /\ t.stack = <<f>> \o s.stack
Retops(s, t, f) == Same(s, t, {"stack"}) /\ f \in Frames /\ t.stack = [s.stack EXCEPT ![1] = f]

LEMMA TopFrame ==
    ASSUME NEW s \in Pages, s.stack # <<>>
    PROVE  /\ 1 \in DOMAIN s.stack /\ Head(s.stack) = s.stack[1] /\ s.stack[1] \in Frames
           /\ s.stack \in Seq(Frames) /\ DOMAIN s.stack = 1..Len(s.stack) /\ Len(s.stack) \in Nat \ {0}
<1>1. s.stack \in Seq(Frames)
  BY DEF Pages
<1>2. QED
  BY <1>1, TailOf

LEMMA SoundPop ==
    ASSUME NEW s, Sound(s), s.stack # <<>>
    PROVE  LET t == [s EXCEPT !.stack = Tail(@)] IN Sound(t) /\ Pops(s, t)
<1> DEFINE k == Tail(s.stack)
           t == [s EXCEPT !.stack = k]
<1>1. s \in Pages /\ s.stack \in Seq(Frames)
  BY DEF Sound, Pages
<1>2. /\ k \in Seq(Frames)
      /\ \A i \in DOMAIN k : i + 1 \in DOMAIN s.stack /\ k[i] = s.stack[i + 1]
  BY <1>1, TailOf
<1> HIDE DEF k
<1>3. t \in Pages /\ Same(s, t, {"stack"}) /\ t.stack = k
  BY <1>1, <1>2 DEF Pages, Same, Fields
<1> HIDE DEF t
<1>4. \A i \in DOMAIN t.stack : Links(s, t.stack[i])
  BY <1>2, <1>3 DEF Sound, Linked
<1>5. Sound(t)
  BY <1>3, <1>4, SoundStack
<1>6. QED
  BY <1>3, <1>5 DEF Pops, k, t

LEMMA SoundPush ==
    ASSUME NEW s, Sound(s), NEW f \in Frames, Links(s, f)
    PROVE  LET t == [s EXCEPT !.stack = <<f>> \o @] IN Sound(t) /\ Pushes(s, t, f)
<1> DEFINE k == <<f>> \o s.stack
           t == [s EXCEPT !.stack = k]
<1>1. s \in Pages /\ s.stack \in Seq(Frames)
  BY DEF Sound, Pages
<1>2. /\ k \in Seq(Frames)
      /\ \A i \in DOMAIN k : k[i] = f \/ \E j \in DOMAIN s.stack : k[i] = s.stack[j]
  BY <1>1, Pushed
<1> HIDE DEF k
<1>3. t \in Pages /\ Same(s, t, {"stack"}) /\ t.stack = k
  BY <1>1, <1>2 DEF Pages, Same, Fields
<1> HIDE DEF t
<1>4. \A i \in DOMAIN t.stack : Links(s, t.stack[i])
  BY <1>2, <1>3 DEF Sound, Linked
<1>5. Sound(t)
  BY <1>3, <1>4, SoundStack
<1>6. QED
  BY <1>3, <1>5 DEF Pushes, k, t

\* The frame on top is one of a loop, before and after.
LEMMA SoundRetop ==
    ASSUME NEW s, Sound(s), s.stack # <<>>, NEW f \in Frames, isLoop(f)
    PROVE  LET t == [s EXCEPT !.stack = [s.stack EXCEPT ![1] = f]] IN Sound(t) /\ Retops(s, t, f)
<1> DEFINE k == [s.stack EXCEPT ![1] = f]
           t == [s EXCEPT !.stack = k]
<1>1. s \in Pages /\ s.stack \in Seq(Frames) /\ 1 \in DOMAIN s.stack
  BY TopFrame DEF Sound, Pages
<1>2. k \in Seq(Frames) /\ DOMAIN k = DOMAIN s.stack /\ k[1] = f /\ \A i \in DOMAIN k : i # 1 => k[i] = s.stack[i]
  BY <1>1, ExceptSeq
<1> HIDE DEF k
<1>3. t \in Pages /\ Same(s, t, {"stack"}) /\ t.stack = k
  BY <1>1, <1>2 DEF Pages, Same, Fields
<1> HIDE DEF t
<1>4. \A i \in DOMAIN t.stack : Links(s, t.stack[i])
  BY <1>2, <1>3 DEF Sound, Linked, Links, isCode, isLoop
<1>5. Sound(t)
  BY <1>3, <1>4, SoundStack
<1>6. QED
  BY <1>3, <1>5 DEF Retops, k, t

LEMMA SoundUnmark ==
    ASSUME NEW s, Sound(s), NEW e \in Elements, NEW force \in BOOLEAN
    PROVE  LET t == _unmark(s, e, force) IN
           /\ Sound(t) /\ Same(s, t, {"timeouts", "mark"})
           /\ t.mark = [s.mark EXCEPT ![e] = IF force \/ s.mark[e] = 0 THEN 0 ELSE s.mark[e] - 1]
<1> DEFINE t == _unmark(s, e, force)
<1>1. s \in Pages
  BY DEF Sound
<1>2. /\ t \in Pages /\ Same(s, t, {"timeouts", "mark"})
      /\ t.mark = [s.mark EXCEPT ![e] = IF force \/ s.mark[e] = 0 THEN 0 ELSE s.mark[e] - 1]
  BY <1>1, Unmarked
<1> HIDE DEF t
<1>3. Same(s, t, {"mark", "defer", "timeouts", "pending", "raised", "lost"})
  BY <1>2 DEF Same
<1>4. Sound(t)
  BY <1>2, <1>3, SoundAlike
<1>5. QED
  BY <1>2, <1>4 DEF t

\* A new entry, which is in no queue yet.
Adds(s, t, e, kind, a) ==
    /\ Same(s, t, {"entries"})
    /\ a = Len(s.entries) + 1 /\ DOMAIN t.entries = DOMAIN s.entries \union {a} /\ a \notin DOMAIN s.entries
    /\ \A b \in DOMAIN s.entries : t.entries[b] = s.entries[b]
    /\ t.entries[a].elem = e /\ t.entries[a].kind = kind /\ t.entries[a].alone
    /\ t.entries[a].done = {} /\ t.entries[a].completed = 0

LEMMA SoundAdds ==
    ASSUME NEW s, Sound(s), NEW e \in Elements, NEW kind \in AllKinds
    PROVE  LET a == Len(s.entries) + 1
               t == [s EXCEPT !.entries = Append(@,
                       [elem |-> e, kind |-> kind, done |-> {}, completed |-> 0, alone |-> TRUE,
                        orig |-> s.look[e]])]
           IN  Sound(t) /\ Adds(s, t, e, kind, a) /\ (kind # "empty" => Fresh(t, e, a))
<1> DEFINE a == Len(s.entries) + 1
           x == [elem |-> e, kind |-> kind, done |-> {}, completed |-> 0, alone |-> TRUE,
                 orig |-> s.look[e]]
           y == Append(s.entries, x)
           t == [s EXCEPT !.entries = y]
<1>1. s \in Pages /\ s.entries \in Seq(Entries) /\ s.look \in [Elements -> Looks]
  BY DEF Sound, Pages
<1>2. /\ x \in Entries /\ x.elem = e /\ x.kind = kind /\ x.done = {} /\ x.completed = 0 /\ x.alone
  BY <1>1 DEF Entries
<1> HIDE DEF x
<1>3. /\ y \in Seq(Entries) /\ DOMAIN y = DOMAIN s.entries \union {a} /\ a \notin DOMAIN s.entries
      /\ y[a] = x /\ \A b \in DOMAIN s.entries : y[b] = s.entries[b]
  BY <1>1, <1>2
<1> HIDE DEF y
<1>4. t \in Pages /\ Same(s, t, {"entries"}) /\ t.entries = y
  BY <1>1, <1>3 DEF Pages, Same, Fields
<1> HIDE DEF t, a
<1>5. Adds(s, t, e, kind, a)
  BY <1>2, <1>3, <1>4 DEF Adds, a
<1>6. /\ t.running = s.running /\ t.owed = s.owed /\ t.timers = s.timers /\ t.timerId = s.timerId
      /\ t.loops = s.loops /\ t.cut = s.cut /\ t.look = s.look /\ t.queue = s.queue /\ t.stack = s.stack
  BY <1>4 DEF Same, Fields
<1>7. \A d, b : b \in of(s, d) => b \in of(t, d) /\ b # a /\ t.entries[b] = s.entries[b]
  BY <1>3, <1>4 DEF of
<1>8. \A d, b : b \in of(t, d) => b \in of(s, d) \/ b = a
  BY <1>3, <1>4 DEF of
<1>9. \A b : has(t, b) <=> has(s, b)
  BY <1>6 DEF has
<1>10. ~has(s, a) /\ a \notin s.running \union s.owed \union s.cut
  BY <1>3 DEF Sound, Linked, has, of
<1>11. \A b : Untouched(s, b) => Untouched(t, b)
  BY <1>3, <1>4, <1>6, <1>9 DEF Untouched
<1>12. Linked(t)
  BY <1>3, <1>4, <1>6, <1>7 DEF Sound, Linked, Links
<1>13. \A d \in Elements : Waits(t, d)
  BY <1>6, <1>7, <1>11 DEF Sound, Waits
<1>14. ASSUME NEW d \in Elements PROVE Styled(t, d)
  <2>1. Styled(s, d)
    BY DEF Sound
  <2>2. \A b \in of(s, d) : t.entries[b] = s.entries[b] /\ b \in of(t, d)
    BY <1>7
  <2>3. QED
    BY <1>6, <1>8, <1>9, <1>10, <2>1, <2>2 DEF Styled
<1>15. (kind # "empty" => Untouched(t, a)) /\ a \in of(t, e)
  BY <1>2, <1>3, <1>4, <1>6, <1>9, <1>10 DEF Untouched, of, startable
<1>16. \A k \in DOMAIN t.queue[e] : t.queue[e][k] # a
  <2>1. a # InProgress
    BY <1>1 DEF a, InProgress
  <2>2. QED
    BY <1>6, <1>7, <2>1 DEF Sound, Waits
<1>17. Sound(t) /\ (kind # "empty" => Fresh(t, e, a))
  BY <1>4, <1>6, <1>12, <1>13, <1>14, <1>15, <1>16 DEF Sound, Ticking, Fresh
<1>18. QED
  BY <1>5, <1>17 DEF t, x, y, a

\* An entry goes to the end of its queue.
Joins(s, t, e, a) ==
    /\ Same(s, t, {"queue"}) /\ t.queue = [s.queue EXCEPT ![e] = Append(s.queue[e], a)]

LEMMA SoundJoins ==
    ASSUME NEW s, Sound(s), NEW e \in Elements, NEW a, Fresh(s, e, a)
    PROVE  LET t == [s EXCEPT !.queue[e] = Append(@, a)] IN Sound(t) /\ Joins(s, t, e, a)
<1> DEFINE x == Append(s.queue[e], a)
           y == [s.queue EXCEPT ![e] = x]
           t == [s EXCEPT !.queue = y]
<1>1. /\ s \in Pages /\ s.queue \in [Elements -> Seq(Nat)] /\ s.queue[e] \in Seq(Nat)
      /\ a \in Nat \ {0}
  BY EntryPositive DEF Sound, Pages, Fresh, of
<1>2. /\ x \in Seq(Nat) /\ DOMAIN x = 1..(Len(s.queue[e]) + 1) /\ DOMAIN s.queue[e] = 1..Len(s.queue[e])
      /\ Len(s.queue[e]) \in Nat
      /\ x[Len(s.queue[e]) + 1] = a /\ \A k \in DOMAIN s.queue[e] : x[k] = s.queue[e][k]
  BY <1>1
<1> HIDE DEF x
<1>3. y \in [Elements -> Seq(Nat)] /\ y[e] = x /\ \A d \in Elements : d # e => y[d] = s.queue[d]
  BY <1>1, <1>2
<1> HIDE DEF y
<1>4. t \in Pages /\ Same(s, t, {"queue"}) /\ t.queue = y
  BY <1>1, <1>3 DEF Pages, Same, Fields
<1> HIDE DEF t
<1>5. /\ t.running = s.running /\ t.owed = s.owed /\ t.timers = s.timers /\ t.timerId = s.timerId
      /\ t.loops = s.loops /\ t.cut = s.cut /\ t.look = s.look /\ t.entries = s.entries /\ t.stack = s.stack
  BY <1>4 DEF Same, Fields
<1>6. \A b : Untouched(s, b) => Untouched(t, b)
  BY <1>5 DEF Untouched, has
<1>7. \A d : of(t, d) = of(s, d)
  BY <1>5 DEF of
<1>8. Waits(t, e)
  <2>1. a # InProgress /\ a \in of(s, e) /\ Untouched(s, a) /\ Waits(s, e)
    BY <1>1 DEF Fresh, Sound, InProgress
  <2>2. \A k \in DOMAIN x : \/ k \in DOMAIN s.queue[e] /\ x[k] = s.queue[e][k]
                            \/ k = Len(s.queue[e]) + 1 /\ x[k] = a
    BY <1>2
  <2>3. \A k \in DOMAIN x : IF x[k] = InProgress THEN k = 1 ELSE x[k] \in of(s, e) /\ Untouched(s, x[k])
    BY <2>1, <2>2 DEF Waits
  <2>4. ASSUME NEW k \in DOMAIN x, NEW l \in DOMAIN x, x[k] = x[l] PROVE k = l
    <3>1. \A j \in DOMAIN s.queue[e] : s.queue[e][j] # a
      BY DEF Fresh
    <3>2. QED
      BY <2>1, <2>2, <2>4, <3>1 DEF Waits
  <2>5. QED
    BY <1>3, <1>4, <1>6, <1>7, <2>3, <2>4 DEF Waits
<1>9. \A d \in Elements : Waits(t, d)
  BY <1>3, <1>4, <1>6, <1>7, <1>8 DEF Sound, Waits
<1>10. Sound(t)
  BY <1>4, <1>5, <1>7, <1>9 DEF Sound, Linked, Links, Ticking, Styled, has
<1>11. QED
  BY <1>4, <1>10 DEF Joins, t, y, x

\* The steps of the actions, from the page s to the page t.
Enqueues(s, t, e, kind) ==
    \E u, a : /\ Sound(u) /\ Adds(s, u, e, kind, a) /\ (kind # "empty" => Fresh(u, e, a))
             /\ IF kind = "empty" THEN Pushes(u, t, Frame("callback", e, a))
                ELSE IF kind = "free"
                THEN \E v : /\ Sound(v) /\ Fresh(v, e, a) /\ Same(u, v, {"mark"})
                            /\ v.mark = [u.mark EXCEPT ![e] = u.mark[e] + 1]
                            /\ Starts(v, t, e, a)
                ELSE \E v : /\ Sound(v) /\ Joins(u, v, e, a)
                            /\ \/ v.queue[e][1] = InProgress /\ t = v
                               \/ v.queue[e][1] # InProgress /\ Dequeued(v, t, e)

LEMMA EnqueueStep ==
    ASSUME FxAssumption, Sound(page), NEW e \in Elements, NEW kind \in Kinds, enqueue(e, kind)
    PROVE  Sound(page') /\ Enqueues(page, page', e, kind)
<1> DEFINE a == Len(page.entries) + 1
           u == [page EXCEPT !.entries = Append(@,
                   [elem |-> e, kind |-> kind, done |-> {}, completed |-> 0, alone |-> TRUE,
                    orig |-> page.look[e]])]
           v == [u EXCEPT !.mark[e] = @ + 1]
           w == [u EXCEPT !.queue[e] = Append(@, a)]
<1>1. kind \in AllKinds
  BY DEF FxAssumption
<1>2. Sound(u) /\ Adds(page, u, e, kind, a) /\ (kind # "empty" => Fresh(u, e, a))
  BY <1>1, SoundAdds
<1>3. page' = IF kind = "empty" THEN [u EXCEPT !.stack = <<Frame("callback", e, a)>> \o @]
              ELSE IF kind = "free" THEN Start(v, e, a)
              ELSE IF w.queue[e][1] = InProgress THEN w ELSE dequeue(w, e)
  BY DEF enqueue
<1> HIDE DEF a, u
<1>e. CASE kind = "empty"
  <2> DEFINE g == Frame("callback", e, a)
  <2>1. a \in of(u, e) /\ a \in Nat
    BY <1>2, EntryPositive DEF Adds, of, Sound
  <2>2. g \in Frames /\ Links(u, g)
    BY <2>1 DEF Frame, Frames, Codes, Links
  <2>3. page' = [u EXCEPT !.stack = <<g>> \o @]
    BY <1>3, <1>e
  <2> HIDE DEF g
  <2>4. Sound(page') /\ Pushes(u, page', g)
    BY <1>2, <2>2, <2>3, SoundPush
  <2>5. QED
    BY <1>2, <1>e, <2>4 DEF Enqueues, g
<1>4. CASE kind = "free"
  <2>1. /\ v \in Pages /\ Same(u, v, {"mark"}) /\ v.mark = [u.mark EXCEPT ![e] = u.mark[e] + 1]
    <3> DEFINE y == [u.mark EXCEPT ![e] = u.mark[e] + 1]
    <3>1. u \in Pages /\ u.mark \in [Elements -> Nat]
      BY <1>2 DEF Sound, Pages
    <3>2. y \in [Elements -> Nat]
      BY <3>1
    <3>3. v = [u EXCEPT !.mark = y]
      OBVIOUS
    <3> HIDE DEF y, v
    <3>4. v \in Pages /\ Same(u, v, {"mark"}) /\ v.mark = y
      BY <3>1, <3>2, <3>3 DEF Pages, Same, Fields
    <3>5. QED
      BY <3>4 DEF y
  <2> HIDE DEF v
  <2>2. Sound(v)
    <3>1. Same(u, v, {"mark", "defer", "timeouts", "pending", "raised", "lost"})
      BY <2>1 DEF Same
    <3>2. QED
      BY <1>2, <2>1, <3>1, SoundAlike
  <2>3. Fresh(v, e, a)
    <3>1. /\ v.entries = u.entries /\ v.running = u.running /\ v.owed = u.owed /\ v.timers = u.timers
          /\ v.cut = u.cut /\ v.queue = u.queue
      BY <2>1 DEF Same, Fields
    <3>2. kind # "empty"
      BY <1>4
    <3>3. Fresh(u, e, a)
      BY <1>2, <3>2
    <3>4. QED
      BY <3>1, <3>3 DEF Fresh, Untouched, of, has
  <2>4. page' = Start(v, e, a)
    BY <1>3, <1>4
  <2>5. Sound(page') /\ Starts(v, page', e, a)
    BY <2>2, <2>3, <2>4, SoundStart
  <2>6. QED
    BY <1>2, <1>4, <2>1, <2>2, <2>3, <2>5 DEF Enqueues
<1>5. CASE kind # "free" /\ kind # "empty"
  <2>1. Sound(w) /\ Joins(u, w, e, a)
    BY <1>2, <1>5, SoundJoins
  <2> HIDE DEF w
  <2>2. CASE w.queue[e][1] = InProgress
    <3>1. page' = w
      BY <1>3, <1>5, <2>2
    <3>2. QED
      BY <1>2, <1>5, <2>1, <2>2, <3>1 DEF Enqueues
  <2>3. CASE w.queue[e][1] # InProgress
    <3>1. page' = dequeue(w, e)
      BY <1>3, <1>5, <2>3
    <3>2. Sound(page') /\ Dequeued(w, page', e)
      BY <2>1, <3>1, SoundDequeue
    <3>3. QED
      BY <1>2, <1>5, <2>1, <2>3, <3>2 DEF Enqueues
  <2>4. QED
    BY <2>2, <2>3
<1>6. QED
  BY <1>e, <1>4, <1>5

\* The loop of stop begins at the last timer.
StopFrame(e, gotoEnd, n) == [fn |-> "stop", elem |-> e, gotoEnd |-> gotoEnd, i |-> n, ended |-> FALSE]

\* By way of u, after the queue was cleared, and v, after the marks were.
StopsBy(s, u, v, t, e, clearFirst, gotoEnd) ==
    /\ Sound(u) /\ Sound(v)
    /\ (clearFirst /\ Empties(s, u, e)) \/ (~clearFirst /\ u = s)
    /\ Same(u, v, {"timeouts", "mark"})
    /\ v.mark = IF gotoEnd THEN u.mark ELSE [u.mark EXCEPT ![e] = 0]
    /\ Pushes(v, t, StopFrame(e, gotoEnd, Len(v.timers)))

\* stop.
StopsFor(s, t, e, clearFirst, gotoEnd) == \E u, v : StopsBy(s, u, v, t, e, clearFirst, gotoEnd)

LEMMA StopStep ==
    ASSUME FxAssumption, Sound(page), NEW e \in Elements, NEW clearFirst \in BOOLEAN,
           NEW gotoEnd \in BOOLEAN, stop(e, clearFirst, gotoEnd)
    PROVE  Sound(page') /\ StopsFor(page, page', e, clearFirst, gotoEnd)
<1> DEFINE u == IF clearFirst THEN clear(page, e) ELSE page
           v == IF gotoEnd THEN u ELSE _unmark(u, e, TRUE)
           f == StopFrame(e, gotoEnd, Len(v.timers))
<1>1. page' = [v EXCEPT !.stack = <<f>> \o @]
  BY DEF stop, StopFrame
<1>2. Sound(u) /\ IF clearFirst THEN Empties(page, u, e) ELSE u = page
  <2>1. CASE clearFirst
    BY <2>1, SoundClear
  <2>2. CASE ~clearFirst
    BY <2>2
  <2>3. QED
    BY <2>1, <2>2
<1> HIDE DEF u
<1>3. Sound(v) /\ Same(u, v, {"timeouts", "mark"})
      /\ v.mark = IF gotoEnd THEN u.mark ELSE [u.mark EXCEPT ![e] = 0]
  <2>1. CASE gotoEnd
    BY <1>2, <2>1 DEF Same
  <2>2. CASE ~gotoEnd
    BY <1>2, <2>2, SoundUnmark
  <2>3. QED
    BY <2>1, <2>2
<1> HIDE DEF v
<1>4. f \in Frames /\ Links(v, f)
  <2>1. Len(v.timers) \in Nat
    BY <1>3 DEF Sound, Pages
  <2>2. QED
    BY <2>1 DEF Frames, Stops, StopFrame, Links, isCode
<1> HIDE DEF f
<1>5. Sound(page') /\ Pushes(v, page', f)
  BY <1>1, <1>3, <1>4, SoundPush
<1>6. QED
  <2>1. StopsBy(page, u, v, page', e, clearFirst, gotoEnd)
    BY <1>2, <1>3, <1>5 DEF StopsBy, f
  <2>2. QED
    BY <1>5, <2>1 DEF StopsFor

\* next, called by the delay or function a.
NextStarts(s, t, a) ==
    \E u : /\ Sound(u) /\ Same(s, u, {"owed"}) /\ u.owed = s.owed \ {a}
          /\ Dequeued(u, t, s.entries[a].elem)

LEMMA NextStep ==
    ASSUME FxAssumption, Sound(page), NEW a \in Ids, next(a)
    PROVE  Sound(page') /\ page.entries[a].elem \in Elements /\ NextStarts(page, page', a)
<1> DEFINE u == [page EXCEPT !.owed = @ \ {a}]
           e == page.entries[a].elem
<1>1. page \in Pages /\ e \in Elements
  BY EntryPositive DEF Sound, Ids, Entries
<1>2. page' = dequeue(u, e)
  BY DEF next
<1> HIDE DEF e
<1>3. u \in Pages /\ Same(page, u, {"owed"}) /\ u.owed = page.owed \ {a}
  BY <1>1 DEF Pages, Same, Fields
<1> HIDE DEF u
<1>4. Sound(u)
  <2>1. \A b : Untouched(page, b) => Untouched(u, b)
    BY <1>3 DEF Untouched, has, Same, Fields
  <2>2. \A d : of(u, d) = of(page, d)
    BY <1>3 DEF of, Same, Fields
  <2>3. Linked(u)
    BY <1>3, <2>2 DEF Sound, Linked, Links, Same, Fields
  <2>4. \A d \in Elements : Waits(u, d)
    BY <1>3, <2>1, <2>2 DEF Sound, Waits, Same, Fields
  <2>5. QED
    BY <1>3, <2>2, <2>3, <2>4 DEF Sound, Ticking, Styled, has, Same, Fields
<1>5. Sound(page') /\ Dequeued(u, page', e)
  BY <1>1, <1>2, <1>4, SoundDequeue
<1>6. QED
  BY <1>1, <1>3, <1>4, <1>5 DEF NextStarts, e

\* The end of a call of dequeue, of a callback and of a queued function.
Returns(s, t) ==
    \E u : /\ Sound(u) /\ Pops(s, u)
          /\ LET f == s.stack[1] IN
             \/ /\ f.fn = "dequeued" /\ f.array = "empty" /\ Empties(u, t, f.elem)
             \/ /\ f.fn = "dequeued" /\ f.array # "empty" /\ t = u
             \/ /\ f.fn = "callback" /\ f.entry = 0 /\ t = u
             \/ /\ f.fn = "callback" /\ f.entry # 0 /\ s.entries[f.entry].kind = "free"
                /\ Same(u, t, {"timeouts", "mark"})
                /\ t.mark = [u.mark EXCEPT ![f.elem] = IF u.mark[f.elem] = 0 THEN 0 ELSE u.mark[f.elem] - 1]
             \/ /\ f.fn = "callback" /\ f.entry # 0 /\ s.entries[f.entry].kind # "free"
                /\ Dequeued(u, t, f.elem)
             \/ /\ f.fn = "fn" /\ t = u

LEMMA ReturnStep ==
    ASSUME FxAssumption, Sound(page), dequeued \/ complete \/ fnReturns
    PROVE  Sound(page') /\ page.stack # <<>> /\ Returns(page, page')
<1> DEFINE u == Popped
           f == page.stack[1]
<1>1. page \in Pages /\ page.stack # <<>> /\ Top = f /\ f \in Frames /\ f.fn = Top.fn
  BY TopFrame DEF Sound, dequeued, complete, fnReturns, At, Top
<1>2. Sound(u) /\ Pops(page, u)
  BY <1>1, SoundPop DEF Popped
<1>3. CASE dequeued
  <2>1. f.fn = "dequeued" /\ f.elem \in Elements /\ f.array \in {"shared", "empty", "filled"}
    BY <1>1, <1>3 DEF dequeued, At, Frames, Dequeues, Codes, Stops, Ticks
  <2>2. CASE f.array = "empty"
    <3> DEFINE left == IF page.queue[f.elem] = <<>> THEN "empty" ELSE "filled"
    <3>1. page' = handleQueueMarkDefer(Detach(u, f.elem, left), f.elem, "queue")
      BY <1>1, <1>3, <2>2 DEF dequeued
    <3>2. left \in {"empty", "filled"}
      OBVIOUS
    <3> HIDE DEF u, left, f
    <3>3. page' \in Pages /\ Empties(u, page', f.elem)
      BY <1>2, <2>1, <3>1, <3>2, EmptyEffect DEF Sound
    <3>4. Sound(page')
      BY <1>2, <2>1, <3>3, SoundEmpties
    <3>5. QED
      BY <1>1, <1>2, <2>1, <2>2, <3>3, <3>4 DEF Returns, f
  <2>3. CASE f.array # "empty"
    <3>1. page' = u
      BY <1>1, <1>3, <2>3 DEF dequeued
    <3> HIDE DEF u
    <3>2. QED
      BY <1>1, <1>2, <2>1, <2>3, <3>1 DEF Returns
  <2>4. QED
    BY <2>2, <2>3
<1>4. CASE complete
  <2>1. f.fn = "callback" /\ f.elem \in Elements
    BY <1>1, <1>4 DEF complete, At, Frames, Dequeues, Codes, Stops, Ticks
  <2>2. CASE f.entry = 0
    <3>1. page' = u
      BY <1>1, <1>4, <2>2 DEF complete
    <3> HIDE DEF u
    <3>2. QED
      BY <1>1, <1>2, <2>1, <2>2, <3>1 DEF Returns
  <2>3. CASE f.entry # 0 /\ page.entries[f.entry].kind = "free"
    <3>1. page' = _unmark(u, f.elem, FALSE)
      BY <1>1, <1>4, <2>3 DEF complete
    <3> HIDE DEF u, f
    <3>2. /\ Sound(page') /\ Same(u, page', {"timeouts", "mark"})
          /\ page'.mark = [u.mark EXCEPT ![f.elem] = IF u.mark[f.elem] = 0 THEN 0 ELSE u.mark[f.elem] - 1]
      BY <1>2, <2>1, <3>1, SoundUnmark
    <3>3. QED
      BY <1>1, <1>2, <2>1, <2>3, <3>2 DEF Returns, f
  <2>4. CASE f.entry # 0 /\ page.entries[f.entry].kind # "free"
    <3>1. page' = dequeue(u, f.elem)
      BY <1>1, <1>4, <2>4 DEF complete
    <3> HIDE DEF u, f
    <3>2. Sound(page') /\ Dequeued(u, page', f.elem)
      BY <1>2, <2>1, <3>1, SoundDequeue
    <3>3. QED
      BY <1>1, <1>2, <2>1, <2>4, <3>2 DEF Returns, f
  <2>5. QED
    BY <2>2, <2>3, <2>4
<1>5. CASE fnReturns
  <2>1. page' = u /\ f.fn = "fn"
    BY <1>1, <1>5 DEF fnReturns, At
  <2> HIDE DEF u
  <2>2. QED
    BY <1>1, <1>2, <2>1 DEF Returns
<1>6. QED
  BY <1>3, <1>4, <1>5

\* A loop at its timer i: the timer is called, or goes.
Rings(s, t, f, i) ==
    /\ i \in DOMAIN s.timers
    /\ \E u : /\ Sound(u) /\ Retops(s, u, f)
              /\ Steps(u, t, s.timers[i]) \/ Ends(u, t, s.timers[i])
Removes(s, t, f, i) ==
    \E u : /\ Sound(u) /\ Retops(s, u, f)
          /\ IF i \in DOMAIN s.timers
             THEN Same(u, t, {"timers"}) /\ t.timers = RemoveAt(s.timers, i)
             ELSE t = u
\* A timer that goes without having been called.
Cuts(s, t, f, i) ==
    \E u, v : /\ Sound(u) /\ Retops(s, u, f)
             /\ Sound(v) /\ Same(u, v, {"running", "cut"})
             /\ v.running = s.running \ {s.timers[i].entry}
             /\ v.cut = s.cut \union ({s.timers[i].entry} \cap s.running)
             /\ i \in DOMAIN s.timers /\ Same(v, t, {"timers"}) /\ t.timers = RemoveAt(s.timers, i)

LEMMA Ringing ==
    ASSUME NEW s, Sound(s), s.stack # <<>>, NEW f \in Frames, isLoop(f), NEW i \in DOMAIN s.timers
    PROVE  LET t == finish([s EXCEPT !.stack = [s.stack EXCEPT ![1] = f]], s.timers[i]) IN
           Sound(t) /\ Rings(s, t, f, i)
<1> DEFINE u == [s EXCEPT !.stack = [s.stack EXCEPT ![1] = f]]
           t == finish(u, s.timers[i])
<1>1. Sound(u) /\ Retops(s, u, f)
  BY SoundRetop
<1> HIDE DEF u
<1>2. u.timers = s.timers
  BY <1>1 DEF Retops, Same, Fields
<1>3. Sound(t) /\ (Steps(u, t, s.timers[i]) \/ Ends(u, t, s.timers[i]))
  BY <1>1, <1>2, SoundFinish
<1> HIDE DEF t
<1>4. Rings(s, t, f, i)
  BY <1>1, <1>3 DEF Rings
<1>5. QED
  BY <1>3, <1>4 DEF t, u

LEMMA Removing ==
    ASSUME NEW s, Sound(s), s.stack # <<>>, NEW f \in Frames, isLoop(f), NEW i
    PROVE  LET t == splice([s EXCEPT !.stack = [s.stack EXCEPT ![1] = f]], i) IN
           Sound(t) /\ Removes(s, t, f, i)
<1> DEFINE u == [s EXCEPT !.stack = [s.stack EXCEPT ![1] = f]]
           t == splice(u, i)
<1>1. Sound(u) /\ Retops(s, u, f)
  BY SoundRetop
<1> HIDE DEF u
<1>2. u.timers = s.timers /\ u \in Pages
  BY <1>1 DEF Retops, Same, Fields, Sound
<1>3. CASE i \in DOMAIN s.timers
  <2>1. Sound(t) /\ Same(u, t, {"timers"}) /\ t.timers = RemoveAt(s.timers, i)
    BY <1>1, <1>2, <1>3, SpliceEffect, SoundSplice
  <2> HIDE DEF t
  <2>2. Removes(s, t, f, i)
    BY <1>1, <1>3, <2>1 DEF Removes
  <2>3. QED
    BY <2>1, <2>2 DEF t, u
<1>4. CASE i \notin DOMAIN s.timers
  <2>1. t = u
    BY <1>2, <1>4 DEF splice
  <2> HIDE DEF t
  <2>2. Removes(s, t, f, i)
    BY <1>1, <1>4, <2>1 DEF Removes
  <2>3. QED
    BY <1>1, <2>1, <2>2 DEF t, u
<1>5. QED
  BY <1>3, <1>4

LEMMA Cutting ==
    ASSUME NEW s, Sound(s), s.stack # <<>>, NEW f \in Frames, isLoop(f), NEW i \in DOMAIN s.timers
    PROVE  LET t == splice(cutShort([s EXCEPT !.stack = [s.stack EXCEPT ![1] = f]], s.timers[i]), i) IN
           Sound(t) /\ Cuts(s, t, f, i)
<1> DEFINE u == [s EXCEPT !.stack = [s.stack EXCEPT ![1] = f]]
           v == cutShort(u, s.timers[i])
           t == splice(v, i)
<1>1. Sound(u) /\ Retops(s, u, f)
  BY SoundRetop
<1> HIDE DEF u
<1>2. u.timers = s.timers /\ u.running = s.running /\ u.cut = s.cut /\ u \in Pages
  BY <1>1 DEF Retops, Same, Fields, Sound
<1>3. /\ Sound(v) /\ Same(u, v, {"running", "cut"})
      /\ v.running = s.running \ {s.timers[i].entry}
      /\ v.cut = s.cut \union ({s.timers[i].entry} \cap s.running)
  BY <1>1, <1>2, CutEffect, SoundCut
<1> HIDE DEF v
<1>4. v.timers = s.timers /\ v \in Pages
  BY <1>2, <1>3 DEF Same, Fields, Sound
<1>5. Sound(t) /\ Same(v, t, {"timers"}) /\ t.timers = RemoveAt(s.timers, i)
  BY <1>3, <1>4, SpliceEffect, SoundSplice
<1> HIDE DEF t
<1>6. Cuts(s, t, f, i)
  BY <1>1, <1>3, <1>5 DEF Cuts
<1>7. QED
  BY <1>5, <1>6 DEF t, u, v

\* An exception leaves every frame.
Unwinds(s, t) ==
    /\ Same(s, t, {"stack", "entries", "running", "owed", "raised", "lost"})
    /\ t.stack = <<>> /\ t.owed \subseteq s.owed /\ s.raised \subseteq t.raised
    /\ DOMAIN t.entries = DOMAIN s.entries
    /\ t.running = s.running \union {a \in DOMAIN s.entries : again(s, a)}
    /\ \A a \in DOMAIN s.entries :
          IF again(s, a)
          THEN t.entries[a] = [s.entries[a] EXCEPT !.done = @ \ open(s, a), !.completed = 0]
          ELSE t.entries[a] = s.entries[a]
    /\ \A i \in DOMAIN s.stack : s.stack[i].fn # "tick" => s.stack[i].elem \in t.raised
    /\ \A i \in DOMAIN s.timers : isDone(s, i) => s.timers[i].elem \in t.raised
    /\ \A a \in s.owed \ t.owed : s.entries[a].elem \in t.raised

LEMMA SoundUnwinds ==
    ASSUME NEW s, Sound(s), NEW t \in Pages, Unwinds(s, t)
    PROVE  Sound(t)
<1>1. /\ t.timers = s.timers /\ t.timerId = s.timerId /\ t.loops = s.loops /\ t.queue = s.queue
      /\ t.look = s.look /\ t.cut = s.cut /\ t.stack = <<>> /\ DOMAIN t.entries = DOMAIN s.entries
      /\ t.owed \subseteq s.owed /\ s.running \subseteq t.running
      /\ t.running = s.running \union {a \in DOMAIN s.entries : again(s, a)}
  BY DEF Unwinds, Same, Fields
<1>2. s \in Pages /\ s.entries \in Seq(Entries)
  BY DEF Sound, Pages
<1>3. ASSUME NEW a \in DOMAIN s.entries
      PROVE  /\ t.entries[a].elem = s.entries[a].elem /\ t.entries[a].alone = s.entries[a].alone
             /\ t.entries[a].orig = s.entries[a].orig /\ t.entries[a].kind = s.entries[a].kind
             /\ ~again(s, a) => t.entries[a] = s.entries[a]
  <2>1. s.entries[a] \in Entries
    BY <1>2
  <2>2. CASE again(s, a)
    <3>1. t.entries[a] = [s.entries[a] EXCEPT !.done = @ \ open(s, a), !.completed = 0]
      BY <2>2 DEF Unwinds
    <3>2. QED
      BY <2>1, <2>2, <3>1 DEF Entries
  <2>3. CASE ~again(s, a)
    BY <2>3 DEF Unwinds
  <2>4. QED
    BY <2>2, <2>3
<1>4. \A d : of(t, d) = of(s, d)
  BY <1>1, <1>3 DEF of
<1>5. \A a : has(t, a) <=> has(s, a)
  BY <1>1 DEF has
<1>6. \A a : again(s, a) => has(s, a)
  BY DEF again, has
<1>7. \A a : Untouched(s, a) => Untouched(t, a)
  BY <1>1, <1>3, <1>5, <1>6 DEF Untouched
<1>8. Linked(t)
  BY <1>1, <1>4 DEF Sound, Linked
<1>9. ASSUME NEW e \in Elements PROVE Waits(t, e) /\ Styled(t, e)
  <2>1. Waits(s, e) /\ Styled(s, e)
    BY DEF Sound
  <2>2. Waits(t, e)
    BY <1>1, <1>4, <1>7, <2>1 DEF Waits
  <2>3. Styled(t, e)
    <3>1. \A a \in of(s, e) : a \in DOMAIN s.entries
      BY DEF of
    <3>2. \A a \in of(s, e) : /\ t.entries[a].alone = s.entries[a].alone
                              /\ t.entries[a].orig = s.entries[a].orig
      BY <1>3, <3>1
    <3>3. QED
      BY <1>1, <1>4, <1>5, <2>1, <3>2 DEF Styled
  <2>4. QED
    BY <2>2, <2>3
<1>10. Ticking(t)
  BY <1>1 DEF Sound, Ticking
<1>11. QED
  BY <1>8, <1>9, <1>10 DEF Sound

LEMMA Unwinding ==
    ASSUME NEW s, Sound(s), NEW dropped,
           \A a \in dropped : \E i \in DOMAIN s.stack : s.stack[i].fn = "fn" /\ s.stack[i].entry = a
    PROVE  Sound(unwind(s, dropped)) /\ Unwinds(s, unwind(s, dropped))
<1> DEFINE left == {i \in DOMAIN s.timers : s.timers[i].prop \in s.entries[s.timers[i].entry].done}
           ringing == {s.timers[i].entry : i \in left}
           still(a) == {s.timers[i].prop : i \in {j \in left : s.timers[j].entry = a}}
           frames == {s.stack[i] : i \in DOMAIN s.stack}
           calling == {f \in frames : f.fn \in {"callback", "fn"} /\ f.entry # 0}
           losing == {f \in calling :
                         IF f.fn = "fn" THEN f.entry \in dropped
                         ELSE f.entry \notin ringing /\ s.entries[f.entry].kind # "empty"}
           x == [a \in DOMAIN s.entries |->
                   IF a \in ringing THEN [s.entries[a] EXCEPT !.done = @ \ still(a), !.completed = 0]
                   ELSE s.entries[a]]
           r == s.raised \union {f.elem : f \in {g \in frames : g.fn # "tick"}}
                         \union {s.timers[i].elem : i \in left}
           l == s.lost \union {f.elem : f \in losing}
           t == unwind(s, dropped)
<1>1. /\ s \in Pages /\ s.entries \in Seq(Entries) /\ s.stack \in Seq(Frames) /\ s.timers \in Seq(Timers)
      /\ s.raised \subseteq Elements /\ s.lost \subseteq Elements /\ s.running \subseteq Nat
      /\ s.owed \subseteq Nat
  BY DEF Sound, Pages
<1>2. /\ \A f \in frames : f \in Frames
      /\ \A i \in DOMAIN s.timers : s.timers[i] \in Timers
      /\ \A a \in DOMAIN s.entries : s.entries[a] \in Entries /\ a \in Nat
  BY <1>1
<1>3. \A f \in Frames : f.fn # "tick" => f.elem \in Elements
  BY DEF Frames, Dequeues, Codes, Stops, Ticks
<1>4. l \subseteq Elements
  <2>1. \A f \in losing : f \in frames /\ f.fn # "tick"
    OBVIOUS
  <2> HIDE DEF losing, frames
  <2>2. QED
    BY <1>1, <1>2, <1>3, <2>1
<1>5. r \subseteq Elements
  <2>1. \A m \in Timers : m.elem \in Elements
    BY DEF Timers
  <2>2. left \subseteq DOMAIN s.timers
    OBVIOUS
  <2> HIDE DEF frames, left
  <2>3. QED
    BY <1>1, <1>2, <1>3, <2>1, <2>2
<1>6. ringing \subseteq DOMAIN s.entries
  BY DEF Sound, Linked, of
<1>7. \A a \in DOMAIN s.entries : a \in ringing <=> again(s, a)
  BY DEF again, isDone
<1>8. \A a : still(a) = open(s, a)
  BY DEF open, isDone
<1>9. x \in Seq(Entries)
  <2>1. ASSUME NEW a \in DOMAIN s.entries PROVE x[a] \in Entries
    <3>1. s.entries[a] \in Entries /\ s.entries[a].done \in SUBSET Nat
      BY <1>2 DEF Entries
    <3> HIDE DEF ringing, still
    <3>2. [s.entries[a] EXCEPT !.done = @ \ still(a), !.completed = 0] \in Entries
      BY <3>1 DEF Entries
    <3>3. QED
      BY <3>1, <3>2
  <2>2. Len(s.entries) \in Nat /\ DOMAIN s.entries = 1..Len(s.entries)
    BY <1>1
  <2>3. x \in [1..Len(s.entries) -> Entries]
    <3> HIDE DEF ringing, still
    <3>1. x = [a \in 1..Len(s.entries) |-> x[a]]
      BY <2>2
    <3>2. QED
      BY ONLY <2>1, <2>2, <3>1
  <2> HIDE DEF x
  <2>4. QED
    BY <2>2, <2>3, IsASeq
<1>10. t = [s EXCEPT !.stack = <<>>, !.entries = x, !.running = @ \union ringing,
                     !.owed = @ \ dropped, !.raised = r, !.lost = l]
  BY <1>1 DEF unwind, Pages
<1>11. \A a \in DOMAIN s.entries :
          x[a] = IF again(s, a) THEN [s.entries[a] EXCEPT !.done = @ \ open(s, a), !.completed = 0]
                 ELSE s.entries[a]
  BY <1>7, <1>8
<1>12. DOMAIN x = DOMAIN s.entries
  OBVIOUS
<1>13. /\ \A i \in DOMAIN s.stack : s.stack[i].fn # "tick" => s.stack[i].elem \in r
       /\ \A i \in DOMAIN s.timers : isDone(s, i) => s.timers[i].elem \in r
       /\ s.raised \subseteq r
  BY DEF isDone
<1>14. ringing = {a \in DOMAIN s.entries : again(s, a)}
  BY <1>6, <1>7
<1> HIDE DEF x, r, l, t, ringing
<1>15. <<>> \in Seq(Frames)
  OBVIOUS
<1>16. /\ t \in Pages /\ Same(s, t, {"stack", "entries", "running", "owed", "raised", "lost"})
       /\ t.stack = <<>> /\ t.entries = x /\ t.running = s.running \union ringing
       /\ t.owed = s.owed \ dropped /\ t.raised = r
  <2>1. ringing \subseteq Nat
    BY <1>2, <1>6
  <2>2. QED
    BY <1>1, <1>4, <1>5, <1>9, <1>10, <1>15, <2>1 DEF Pages, Same, Fields
<1>17. \A a \in s.owed \ t.owed : s.entries[a].elem \in t.raised
  <2> SUFFICES ASSUME NEW a \in s.owed \ t.owed PROVE s.entries[a].elem \in r
    BY <1>16
  <2>1. PICK i \in DOMAIN s.stack : s.stack[i].fn = "fn" /\ s.stack[i].entry = a
    BY <1>16
  <2>2. a # 0 /\ a \in DOMAIN s.entries
    BY <1>1 DEF Sound, Linked
  <2>3. Links(s, s.stack[i])
    BY DEF Sound, Linked
  <2>4. s.entries[a].elem = s.stack[i].elem
    BY <2>1, <2>2, <2>3 DEF Links, isCode, of
  <2>5. QED
    BY <1>13, <2>1, <2>4
<1>18. Unwinds(s, t)
  BY <1>11, <1>12, <1>13, <1>14, <1>16, <1>17 DEF Unwinds
<1>19. Sound(t)
  BY <1>16, <1>18, SoundUnwinds
<1>20. QED
  BY <1>18, <1>19 DEF t

\* The loop of stop goes on, downwards, or ends.
StopLoops(s, t) ==
    LET f == s.stack[1] IN
    \/ f.ended /\ Removes(s, t, [f EXCEPT !.ended = FALSE, !.i = f.i - 1], f.i)
    \/ ~f.ended /\ f.i = 0 /\ \E u : /\ Sound(u) /\ Pops(s, u)
                                    /\ \/ f.gotoEnd /\ t = u
                                       \/ ~f.gotoEnd /\ Dequeued(u, t, f.elem)
    \/ ~f.ended /\ f.i > Len(s.timers) /\ Unwinds(s, t)
    \/ /\ ~f.ended /\ f.i \in DOMAIN s.timers
       /\ \/ s.timers[f.i].elem # f.elem /\ Retops(s, t, [f EXCEPT !.i = f.i - 1])
          \/ s.timers[f.i].elem = f.elem /\ f.gotoEnd /\ Rings(s, t, [f EXCEPT !.ended = TRUE], f.i)
          \/ s.timers[f.i].elem = f.elem /\ ~f.gotoEnd /\ Cuts(s, t, [f EXCEPT !.i = f.i - 1], f.i)

LEMMA StopLoopStep ==
    ASSUME FxAssumption, Sound(page), stopLoop
    PROVE  Sound(page') /\ page.stack # <<>> /\ page.stack[1] \in Stops /\ StopLoops(page, page')
<1> DEFINE f == page.stack[1]
           t == page'
<1>1. page \in Pages /\ page.stack # <<>> /\ Top = f /\ f \in Frames /\ f.fn = "stop"
      /\ page.stack \in Seq(Frames) /\ 1 \in DOMAIN page.stack
  BY TopFrame DEF Sound, stopLoop, At, Top
<1>2. f \in Stops
  BY <1>1 DEF Frames, Dequeues, Codes, Ticks
<1>3. f.elem \in Elements /\ f.gotoEnd \in BOOLEAN /\ f.i \in Nat /\ f.ended \in BOOLEAN /\ (f.ended => f.i # 0)
      /\ Len(page.timers) \in Nat /\ DOMAIN page.timers = 1..Len(page.timers)
  <2>1. page.timers \in Seq(Timers)
    BY <1>1 DEF Pages
  <2>2. QED
    BY <1>2, <2>1 DEF Stops
<1>4. t = IF f.ended THEN splice([page EXCEPT !.stack[1].ended = FALSE, !.stack[1].i = @ - 1], f.i)
          ELSE IF f.i = 0 THEN stopReturns
          ELSE IF f.i > Len(page.timers) THEN unwind(page, {})
          ELSE IF page.timers[f.i].elem # f.elem THEN [page EXCEPT !.stack[1].i = @ - 1]
          ELSE IF f.gotoEnd THEN finish([page EXCEPT !.stack[1].ended = TRUE], page.timers[f.i])
          ELSE splice(cutShort([page EXCEPT !.stack[1].i = @ - 1], page.timers[f.i]), f.i)
  BY <1>1 DEF stopLoop
<1>5. CASE f.ended
  <2> DEFINE g == [f EXCEPT !.ended = FALSE, !.i = f.i - 1]
  <2>1. g \in Frames /\ isLoop(g)
    <3>1. f.i - 1 \in Nat
      BY <1>3, <1>5
    <3> HIDE DEF f
    <3>2. g \in Stops
      BY <1>2, <3>1 DEF Stops
    <3>3. g.fn = "stop"
      BY <3>2 DEF Stops
    <3>4. QED
      BY <3>2, <3>3 DEF Frames, isLoop
  <2>2. [page EXCEPT !.stack[1].ended = FALSE, !.stack[1].i = @ - 1]
         = [page EXCEPT !.stack = [page.stack EXCEPT ![1] = g]]
    <3> DEFINE k1 == [page.stack EXCEPT ![1] = [f EXCEPT !.ended = FALSE]]
               p1 == [page EXCEPT !.stack = k1]
    <3>1. k1[1] = [f EXCEPT !.ended = FALSE]
      BY <1>1
    <3>2. p1.stack = k1
      BY <1>1 DEF Pages
    <3>3. [f EXCEPT !.ended = FALSE].i = f.i
      BY <1>2 DEF Stops
    <3>4. [p1.stack[1] EXCEPT !.i = p1.stack[1].i - 1] = g
      BY <3>1, <3>2, <3>3
    <3>5. [k1 EXCEPT ![1] = g] = [page.stack EXCEPT ![1] = g]
      BY <1>1
    <3>6. [page EXCEPT !.stack[1].ended = FALSE, !.stack[1].i = @ - 1] = [p1 EXCEPT !.stack[1].i = @ - 1]
      OBVIOUS
    <3>7. [p1 EXCEPT !.stack[1].i = @ - 1] = [p1 EXCEPT !.stack = [page.stack EXCEPT ![1] = g]]
      <4> HIDE DEF p1, k1, g
      <4>1. QED
        BY <3>2, <3>4, <3>5
    <3>8. [p1 EXCEPT !.stack = [page.stack EXCEPT ![1] = g]] = [page EXCEPT !.stack = [page.stack EXCEPT ![1] = g]]
      <4> HIDE DEF k1, g
      <4>1. QED
        BY <1>1 DEF Pages
    <3>9. QED
      BY <3>6, <3>7, <3>8
  <2> HIDE DEF g
  <2>3. t = splice([page EXCEPT !.stack = [page.stack EXCEPT ![1] = g]], f.i)
    BY <1>4, <1>5, <2>2
  <2>4. Sound(t) /\ Removes(page, t, g, f.i)
    BY <1>1, <2>1, <2>3, Removing
  <2>5. QED
    BY <1>1, <1>2, <1>5, <2>4 DEF StopLoops, g
<1>6. CASE ~f.ended /\ f.i = 0
  <2> DEFINE u == Popped
  <2>1. Sound(u) /\ Pops(page, u)
    BY <1>1, SoundPop DEF Popped
  <2>2. t = IF f.gotoEnd THEN u ELSE dequeue(u, f.elem)
    BY <1>1, <1>4, <1>6 DEF stopReturns
  <2> HIDE DEF u
  <2>3. Sound(t) /\ ((f.gotoEnd /\ t = u) \/ (~f.gotoEnd /\ Dequeued(u, t, f.elem)))
    BY <1>3, <2>1, <2>2, SoundDequeue
  <2>4. QED
    BY <1>1, <1>2, <1>6, <2>1, <2>3 DEF StopLoops
<1>7. CASE ~f.ended /\ f.i # 0 /\ f.i > Len(page.timers)
  <2>1. t = unwind(page, {})
    BY <1>4, <1>7
  <2>2. Sound(t) /\ Unwinds(page, t)
    BY <2>1, Unwinding
  <2>3. QED
    BY <1>1, <1>2, <1>7, <2>2 DEF StopLoops
<1>8. CASE ~f.ended /\ f.i # 0 /\ f.i <= Len(page.timers)
  <2> DEFINE g == [f EXCEPT !.i = f.i - 1]
             h == [f EXCEPT !.ended = TRUE]
  <2>1. g \in Frames /\ isLoop(g) /\ h \in Frames /\ isLoop(h)
    <3>1. f.i - 1 \in Nat
      BY <1>3, <1>8
    <3> HIDE DEF f
    <3>2. g \in Stops
      BY <1>2, <1>8, <3>1 DEF Stops
    <3>3. h \in Stops
      BY <1>2, <1>8 DEF Stops
    <3>4. g.fn = "stop" /\ h.fn = "stop"
      BY <3>2, <3>3 DEF Stops
    <3>5. QED
      BY <3>2, <3>3, <3>4 DEF Frames, isLoop
  <2>2. [page EXCEPT !.stack[1].i = @ - 1] = [page EXCEPT !.stack = [page.stack EXCEPT ![1] = g]]
    OBVIOUS
  <2>3. [page EXCEPT !.stack[1].ended = TRUE] = [page EXCEPT !.stack = [page.stack EXCEPT ![1] = h]]
    OBVIOUS
  <2>4. f.i \in DOMAIN page.timers
    BY <1>3, <1>8
  <2> HIDE DEF g, h
  <2>5. CASE page.timers[f.i].elem # f.elem
    <3>1. t = [page EXCEPT !.stack = [page.stack EXCEPT ![1] = g]]
      BY <1>3, <1>4, <1>8, <2>2, <2>5
    <3>2. Sound(t) /\ Retops(page, t, g)
      BY <1>1, <2>1, <3>1, SoundRetop
    <3>3. QED
      BY <1>1, <1>2, <1>8, <2>4, <2>5, <3>2 DEF StopLoops, g
  <2>6. CASE page.timers[f.i].elem = f.elem /\ f.gotoEnd
    <3>1. t = finish([page EXCEPT !.stack = [page.stack EXCEPT ![1] = h]], page.timers[f.i])
      BY <1>3, <1>4, <1>8, <2>3, <2>6
    <3>2. Sound(t) /\ Rings(page, t, h, f.i)
      BY <1>1, <2>1, <2>4, <3>1, Ringing
    <3>3. QED
      BY <1>1, <1>2, <1>8, <2>4, <2>6, <3>2 DEF StopLoops, h
  <2>7. CASE page.timers[f.i].elem = f.elem /\ ~f.gotoEnd
    <3>1. t = splice(cutShort([page EXCEPT !.stack = [page.stack EXCEPT ![1] = g]], page.timers[f.i]), f.i)
      BY <1>3, <1>4, <1>8, <2>2, <2>7
    <3>2. Sound(t) /\ Cuts(page, t, g, f.i)
      BY <1>1, <2>1, <2>4, <3>1, Cutting
    <3>3. QED
      BY <1>1, <1>2, <1>8, <2>4, <2>7, <3>2 DEF StopLoops, g
  <2>8. QED
    BY <2>5, <2>6, <2>7
<1>9. QED
  BY <1>3, <1>5, <1>6, <1>7, <1>8

\* The loop of tick goes on, upwards, or ends.
TickLoops(s, t) ==
    LET f == s.stack[1] IN
    \/ f.ended /\ Removes(s, t, [f EXCEPT !.ended = FALSE], f.i)
    \/ /\ ~f.ended /\ f.i > Len(s.timers) /\ Same(s, t, {"stack", "timerId"})
       /\ t.stack = Tail(s.stack) /\ t.timerId = (s.timerId /\ s.timers # <<>>)
    \/ ~f.ended /\ f.i \in DOMAIN s.timers /\ Retops(s, t, [f EXCEPT !.i = f.i + 1])
    \/ ~f.ended /\ Rings(s, t, [f EXCEPT !.ended = TRUE], f.i)

LEMMA TickStep ==
    ASSUME Sound(page), tick
    PROVE  Sound(page') /\ page.stack # <<>> /\ page.stack[1] \in Ticks /\ TickLoops(page, page')
<1> DEFINE f == page.stack[1]
           t == page'
<1>1. page \in Pages /\ page.stack # <<>> /\ Top = f /\ f \in Frames /\ f.fn = "tick"
      /\ page.stack \in Seq(Frames) /\ 1 \in DOMAIN page.stack
  BY TopFrame DEF Sound, tick, At, Top
<1>2. f \in Ticks
  BY <1>1 DEF Frames, Dequeues, Codes, Stops
<1>3. f.i \in Nat \ {0} /\ f.ended \in BOOLEAN
      /\ Len(page.timers) \in Nat /\ DOMAIN page.timers = 1..Len(page.timers)
  <2>1. page.timers \in Seq(Timers)
    BY <1>1 DEF Pages
  <2>2. QED
    BY <1>2, <2>1 DEF Ticks
<1> DEFINE x == [f EXCEPT !.ended = FALSE]
           g == [f EXCEPT !.i = f.i + 1]
           h == [f EXCEPT !.ended = TRUE]
<1>4. \A y \in {x, g, h} : y \in Frames /\ isLoop(y)
  <2>1. f.i + 1 \in Nat \ {0}
    BY <1>3
  <2> HIDE DEF f
  <2>2. x \in Ticks /\ g \in Ticks /\ h \in Ticks
    BY <1>2, <2>1 DEF Ticks
  <2>3. x.fn = "tick" /\ g.fn = "tick" /\ h.fn = "tick"
    BY <2>2 DEF Ticks
  <2>4. QED
    BY <2>2, <2>3 DEF Frames, isLoop
<1>5. /\ [page EXCEPT !.stack[1].i = @ + 1] = [page EXCEPT !.stack = [page.stack EXCEPT ![1] = g]]
      /\ [page EXCEPT !.stack[1].ended = TRUE] = [page EXCEPT !.stack = [page.stack EXCEPT ![1] = h]]
      /\ [page EXCEPT !.stack[1].ended = FALSE] = [page EXCEPT !.stack = [page.stack EXCEPT ![1] = x]]
  OBVIOUS
<1> HIDE DEF x, g, h
<1>6. t = IF f.ended THEN splice([page EXCEPT !.stack = [page.stack EXCEPT ![1] = x]], f.i)
          ELSE IF f.i > Len(page.timers) THEN [Popped EXCEPT !.timerId = @ /\ page.timers # <<>>]
          ELSE IF page.timers[f.i].entry \notin f.due THEN [page EXCEPT !.stack = [page.stack EXCEPT ![1] = g]]
          ELSE finish([page EXCEPT !.stack = [page.stack EXCEPT ![1] = h]], page.timers[f.i])
  BY <1>1, <1>5 DEF tick
<1>7. CASE f.ended
  <2>1. t = splice([page EXCEPT !.stack = [page.stack EXCEPT ![1] = x]], f.i)
    BY <1>6, <1>7
  <2>2. Sound(t) /\ Removes(page, t, x, f.i)
    BY <1>1, <1>4, <2>1, Removing
  <2>3. QED
    BY <1>1, <1>2, <1>7, <2>2 DEF TickLoops, x
<1>8. CASE ~f.ended /\ f.i > Len(page.timers)
  <2> DEFINE u == Popped
             b == page.timerId /\ page.timers # <<>>
  <2>1. Sound(u) /\ Pops(page, u)
    BY <1>1, SoundPop DEF Popped
  <2>2. u \in Pages /\ u.timerId = page.timerId /\ u.timers = page.timers /\ u.loops = page.loops
        /\ u.timerId \in BOOLEAN
    BY <2>1 DEF Sound, Pops, Same, Fields, Pages
  <2>3. t = [u EXCEPT !.timerId = @ /\ page.timers # <<>>]
    BY <1>6, <1>8
  <2>4. b \in BOOLEAN
    OBVIOUS
  <2> HIDE DEF u
  <2>5. t = [u EXCEPT !.timerId = b]
    BY <2>2, <2>3
  <2> HIDE DEF b
  <2>6. t \in Pages /\ Same(u, t, {"timerId"}) /\ t.timerId = b
    BY <2>2, <2>4, <2>5 DEF Pages, Same, Fields
  <2>7. Ticking(t)
    BY <2>1, <2>2, <2>4, <2>6 DEF Sound, Ticking, Same, Fields, b
  <2>8. Sound(t)
    <3>1. Same(u, t, {"mark", "defer", "timeouts", "pending", "raised", "lost", "stack", "look", "timerId", "loops"})
      BY <2>6 DEF Same
    <3>2. t.stack = u.stack /\ t.look = u.look
      BY <2>6 DEF Same, Fields
    <3>3. \A i \in DOMAIN t.stack : Links(u, t.stack[i])
      BY <2>1, <3>2 DEF Sound, Linked
    <3>4. QED
      BY <2>1, <2>6, <2>7, <3>1, <3>2, <3>3, SoundKept
  <2>9. /\ Same(page, t, {"stack", "timerId"}) /\ t.stack = Tail(page.stack)
        /\ t.timerId = (page.timerId /\ page.timers # <<>>)
    BY <2>1, <2>6 DEF Pops, Same, Fields, b
  <2>10. QED
    BY <1>1, <1>2, <1>8, <2>8, <2>9 DEF TickLoops
<1>9. CASE ~f.ended /\ f.i <= Len(page.timers)
  <2>1. f.i \in DOMAIN page.timers
    BY <1>3, <1>9
  <2>2. CASE page.timers[f.i].entry \notin f.due
    <3>1. t = [page EXCEPT !.stack = [page.stack EXCEPT ![1] = g]]
      BY <1>3, <1>6, <1>9, <2>2
    <3>2. Sound(t) /\ Retops(page, t, g)
      BY <1>1, <1>4, <3>1, SoundRetop
    <3>3. QED
      BY <1>1, <1>2, <1>9, <2>1, <3>2 DEF TickLoops, g
  <2>3. CASE page.timers[f.i].entry \in f.due
    <3>1. t = finish([page EXCEPT !.stack = [page.stack EXCEPT ![1] = h]], page.timers[f.i])
      BY <1>3, <1>6, <1>9, <2>3
    <3>2. Sound(t) /\ Rings(page, t, h, f.i)
      BY <1>1, <1>4, <2>1, <3>1, Ringing
    <3>3. QED
      BY <1>1, <1>2, <1>9, <2>1, <3>2 DEF TickLoops, h
  <2>4. QED
    BY <2>2, <2>3
<1>10. QED
  BY <1>3, <1>7, <1>8, <1>9

\* A frame of the browser.
Framed(s, t) ==
    /\ s.stack = <<>>
    /\ \/ /\ Same(s, t, {"stack"})
          /\ \E f \in Ticks : f.i = 1 /\ ~f.ended /\ t.stack = <<f>>
       \/ Same(s, t, {"loops"})

LEMMA RafStep ==
    ASSUME Sound(page), NEW due, raf(due)
    PROVE  Sound(page') /\ Framed(page, page')
<1> DEFINE f == [fn |-> "tick", i |-> 1, ended |-> FALSE, due |-> due]
           k == <<f>>
<1>1. page \in Pages /\ page.stack = <<>> /\ page.loops \in Nat /\ page.loops > 0
  BY DEF Sound, Pages, raf
<1>2. f \in Ticks
  <2>1. page.timers \in Seq(Timers)
    BY <1>1 DEF Pages
  <2>2. \A i \in DOMAIN page.timers : page.timers[i] \in Timers
    BY <2>1
  <2>3. due \subseteq Nat
    BY <2>2 DEF raf, Timers
  <2>4. QED
    BY <2>3 DEF Ticks
<1>3. f.i = 1 /\ ~f.ended /\ f.fn = "tick"
  OBVIOUS
<1>4. CASE page.timerId
  <2>1. page' = [page EXCEPT !.stack = k]
    BY <1>4 DEF raf
  <2>2. k \in Seq(Frames) /\ DOMAIN k = {1} /\ k[1] = f
    <3> HIDE DEF f
    <3>1. f \in Frames
      BY <1>2 DEF Frames
    <3>2. QED
      BY <3>1
  <2> HIDE DEF k
  <2>3. page' \in Pages /\ Same(page, page', {"stack"}) /\ page'.stack = k
    BY <1>1, <2>1, <2>2 DEF Pages, Same, Fields
  <2> HIDE DEF f
  <2>4. \A i \in DOMAIN page'.stack : Links(page, page'.stack[i])
    BY <1>3, <2>2, <2>3 DEF Links, isCode
  <2>5. Sound(page')
    BY <2>3, <2>4, SoundStack
  <2>6. QED
    BY <1>1, <1>2, <1>3, <2>3, <2>5 DEF Framed, k
<1>5. CASE ~page.timerId
  <2>1. page' = [page EXCEPT !.loops = @ - 1]
    BY <1>5 DEF raf
  <2>2. page' \in Pages /\ Same(page, page', {"loops"})
    <3> DEFINE n == page.loops - 1
    <3>1. n \in Nat /\ page' = [page EXCEPT !.loops = n]
      BY <1>1, <2>1
    <3> HIDE DEF n
    <3>2. QED
      BY <1>1, <3>1 DEF Pages, Same, Fields
  <2>3. Sound(page')
    BY <1>5, <2>2 DEF Sound, Same, Fields, Linked, Links, Waits, Untouched, has, of, Ticking, Styled
  <2>4. QED
    BY <1>1, <2>2, <2>3 DEF Framed
<1>6. QED
  BY <1>4, <1>5

\* The timeout of a promise.
Resolves(s, t) ==
    /\ s.stack = <<>>
    /\ \/ Same(s, t, {"timeouts"})
       \/ \E p \in Promises :
             /\ s.queue[p.elem] = <<>> /\ s.mark[p.elem] = 0
             /\ Same(s, t, {"timeouts", "defer", "pending", "stack"})
             /\ t.pending = s.pending \ {p}
             /\ t.stack \in {<<>>, <<Frame("callback", p.elem, 0)>>}

LEMMA ResolveStep ==
    ASSUME Sound(page), resolve
    PROVE  Sound(page') /\ Resolves(page, page')
<1> DEFINE p == Head(page.timeouts)
           rest == Tail(page.timeouts)
           s == [page EXCEPT !.timeouts = rest]
           d == [page.defer EXCEPT ![p.elem] = 0]
           k == IF p \in page.pending THEN <<Frame("callback", p.elem, 0)>> ELSE <<>>
           c == page.pending \ {p}
<1>1. page \in Pages /\ page.stack = <<>> /\ page.timeouts # <<>> /\ page.timeouts \in Seq(Promises)
      /\ page.defer \in [Elements -> Nat] /\ page.pending \in SUBSET Promises
  BY DEF Sound, Pages, resolve
<1>2. p \in Promises /\ rest \in Seq(Promises)
  BY <1>1, HeadTailProperties
<1>3. page' = IF page.queue[p.elem] = <<>> /\ page.mark[p.elem] = 0
              THEN [s EXCEPT !.defer[p.elem] = 0, !.pending = @ \ {p},
                             !.stack = k]
              ELSE s
  BY DEF resolve
<1> HIDE DEF p, rest
<1>4. s \in Pages /\ Same(page, s, {"timeouts"})
  BY <1>1, <1>2 DEF Pages, Same, Fields
<1>5. CASE ~(page.queue[p.elem] = <<>> /\ page.mark[p.elem] = 0)
  <2>1. page' = s
    BY <1>3, <1>5
  <2> HIDE DEF s
  <2>2. Same(page, s, {"mark", "defer", "timeouts", "pending", "raised", "lost"})
    BY <1>4 DEF Same
  <2>3. Sound(s)
    BY <1>4, <2>2, SoundAlike
  <2>4. QED
    BY <1>1, <1>4, <2>1, <2>3 DEF Resolves
<1>6. CASE page.queue[p.elem] = <<>> /\ page.mark[p.elem] = 0
  <2>1. page' = [page EXCEPT !.timeouts = rest, !.defer = d, !.pending = c, !.stack = k]
    <3>1. s.defer = page.defer /\ s.pending = page.pending
      BY <1>4 DEF Same, Fields
    <3>2. page' = [s EXCEPT !.defer = d, !.pending = c, !.stack = k]
      <4>1. page' = [s EXCEPT !.defer[p.elem] = 0, !.pending = @ \ {p}, !.stack = k]
        BY <1>3, <1>6
      <4> HIDE DEF s, k
      <4>2. QED
        BY <3>1, <4>1
    <3>3. QED
      BY <3>2
  <2>2. /\ k \in {<<>>, <<Frame("callback", p.elem, 0)>>} /\ k \in Seq(Frames)
        /\ \A i \in DOMAIN k : k[i].entry = 0
    <3> DEFINE f == Frame("callback", p.elem, 0)
    <3>1. p.elem \in Elements
      BY <1>2 DEF Promises
    <3>2. f \in Frames
      BY <3>1 DEF Frame, Frames, Codes
    <3>3. f.entry = 0
      BY DEF Frame
    <3> HIDE DEF f
    <3>4. <<f>> \in Seq(Frames) /\ DOMAIN <<f>> = {1} /\ <<f>>[1] = f
      BY <3>2
    <3>5. <<>> \in Seq(Frames) /\ DOMAIN <<>> = {}
      OBVIOUS
    <3>6. k \in {<<>>, <<f>>}
      BY DEF f
    <3> HIDE DEF k
    <3>7. QED
      BY <3>3, <3>4, <3>5, <3>6 DEF f
  <2>3. d \in [Elements -> Nat] /\ c \in SUBSET Promises
    BY <1>1
  <2> HIDE DEF k, d, c
  <2>4. /\ page' \in Pages /\ Same(page, page', {"timeouts", "defer", "pending", "stack"})
        /\ page'.stack = k /\ page'.pending = c
    BY <1>1, <1>2, <2>1, <2>2, <2>3 DEF Pages, Same, Fields
  <2>5. \A i \in DOMAIN page'.stack : Links(page, page'.stack[i])
    BY <2>2, <2>4 DEF Links
  <2>6. Sound(page')
    BY <2>4, <2>5 DEF Sound, Same, Fields, Linked, Links, Waits, Untouched, has, of, Ticking, Styled
  <2>7. QED
    BY <1>1, <1>2, <1>6, <2>2, <2>4, <2>6 DEF Resolves, c
<1>7. QED
  BY <1>5, <1>6

LEMMA PromiseStep ==
    ASSUME Sound(page), calls \in Nat, NEW e \in Elements, promise(e)
    PROVE  /\ Sound(page') /\ Same(page, page', {"defer", "pending"})
           /\ page'.pending = page.pending \union {[elem |-> e, promise |-> calls + 1]}
<1> DEFINE p == [elem |-> e, promise |-> calls + 1]
           d == [page.defer EXCEPT ![e] = calls + 1]
           c == page.pending \union {p}
<1>1. page \in Pages /\ page.defer \in [Elements -> Nat] /\ page.pending \in SUBSET Promises
  BY DEF Sound, Pages
<1>2. page' = [page EXCEPT !.defer = d, !.pending = c]
  BY DEF promise
<1>3. d \in [Elements -> Nat] /\ c \in SUBSET Promises
  BY <1>1 DEF Promises
<1> HIDE DEF d, c
<1>4. page' \in Pages /\ Same(page, page', {"defer", "pending"}) /\ page'.pending = c
  BY <1>1, <1>2, <1>3 DEF Pages, Same, Fields
<1>5. Same(page, page', {"mark", "defer", "timeouts", "pending", "raised", "lost"})
  BY <1>4 DEF Same
<1>6. QED
  BY <1>4, <1>5, SoundAlike DEF c

\* The display of an element changes, and nothing else.
Displays(s, t) == Same(s, t, {"look"}) /\ \A e \in Elements : plain(t.look[e]) <=> plain(s.look[e])

LEMMA DisplayStep ==
    ASSUME Sound(page), NEW e \in Elements, toggleAtOnce(e)
    PROVE  Sound(page') /\ Displays(page, page')
<1>1. page \in Pages /\ page.look \in [Elements -> Looks] /\ page.look[e] \in Looks
  BY DEF Sound, Pages
<1>2. PICK b \in BOOLEAN : page' = [page EXCEPT !.look[e].shown = b]
  BY DEF toggleAtOnce, showAtOnce, hideAtOnce
<1> DEFINE l == [page.look[e] EXCEPT !.shown = b]
           z == [page.look EXCEPT ![e] = l]
<1>3. l \in Looks /\ (plain(l) <=> plain(page.look[e]))
  BY <1>1 DEF Looks, plain
<1>4. page' = [page EXCEPT !.look = z]
  BY <1>2
<1> HIDE DEF l
<1>5. z \in [Elements -> Looks] /\ \A d \in Elements : plain(z[d]) <=> plain(page.look[d])
  BY <1>1, <1>3 DEF Looks
<1> HIDE DEF z
<1>6. page' \in Pages /\ Same(page, page', {"look"}) /\ page'.look = z
  BY <1>1, <1>4, <1>5 DEF Pages, Same, Fields
<1>7. Displays(page, page')
  BY <1>5, <1>6 DEF Displays
<1>8. Sound(page')
  <2>1. page'.stack = page.stack /\ page'.timers = page.timers /\ page'.timerId = page.timerId /\ page'.loops = page.loops
    BY <1>6 DEF Same, Fields
  <2>2. Ticking(page') /\ \A i \in DOMAIN page'.stack : Links(page, page'.stack[i])
    BY <2>1 DEF Sound, Ticking, Linked
  <2>3. Same(page, page', {"mark", "defer", "timeouts", "pending", "raised", "lost", "stack", "look",
                           "timerId", "loops"})
    BY <1>6 DEF Same
  <2>4. QED
    BY <1>6, <1>7, <2>2, <2>3, SoundKept DEF Displays
<1>9. QED
  BY <1>7, <1>8

LEMMA ThrowStep ==
    ASSUME Sound(page), throw
    PROVE  Sound(page') /\ Unwinds(page, page')
<1>1. PICK dropped \in SUBSET {page.stack[i].entry : i \in {j \in DOMAIN page.stack : page.stack[j].fn = "fn"}} :
        page' = unwind(page, dropped)
  BY DEF throw
<1>2. \A a \in dropped : \E i \in DOMAIN page.stack : page.stack[i].fn = "fn" /\ page.stack[i].entry = a
  OBVIOUS
<1>3. QED
  BY <1>1, <1>2, Unwinding

LEMMA ClearStep ==
    ASSUME FxAssumption, Sound(page), NEW e \in Elements, clearQueue(e)
    PROVE  Sound(page') /\ Empties(page, page', e)
  BY SoundClear DEF clearQueue

\* The types of the history variables besides.
SoundInv == Sound(page) /\ calls \in Nat /\ skipped \subseteq Elements /\ stoppedInside \in BOOLEAN

LEMMA SoundInit == FxAssumption /\ Init => SoundInv
<1> SUFFICES ASSUME FxAssumption, Init PROVE SoundInv
  OBVIOUS
<1>1. page \in Pages
  BY DEF Init, Pages, Looks
<1>2. Linked(page) /\ Ticking(page) /\ \A e \in Elements : Waits(page, e) /\ Styled(page, e)
  BY DEF Init, Linked, Ticking, Waits, Styled, of, has, plain
<1>3. QED
  BY <1>1, <1>2 DEF Init, SoundInv, Sound

LEMMA SoundNext == FxAssumption /\ SoundInv /\ [Next]_vars => SoundInv'
<1> SUFFICES ASSUME FxAssumption, SoundInv, [Next]_vars PROVE SoundInv'
  OBVIOUS
<1> USE DEF SoundInv
<1>1. CASE Call
  <2>1. calls' \in Nat
    BY <1>1 DEF Call
  <2>2. ASSUME NEW e \in Elements, NEW kind \in Kinds, enqueue(e, kind), UNCHANGED <<skipped, stoppedInside>>
        PROVE  SoundInv'
    BY <2>1, <2>2, EnqueueStep
  <2>3. ASSUME NEW e \in Elements, NEW clearFirst \in BOOLEAN, NEW gotoEnd \in BOOLEAN,
               stop(e, clearFirst, gotoEnd)
        PROVE  SoundInv'
    <3>1. Sound(page')
      BY <2>3, StopStep
    <3>2. skipped' \subseteq Elements /\ stoppedInside' \in BOOLEAN
      BY <2>3 DEF stop
    <3>3. QED
      BY <2>1, <3>1, <3>2
  <2>4. ASSUME NEW e \in Elements, clearQueue(e)
        PROVE  SoundInv'
    <3>1. Sound(page')
      BY <2>4, ClearStep
    <3>2. skipped' \subseteq Elements /\ stoppedInside' \in BOOLEAN
      BY <2>4 DEF clearQueue
    <3>3. QED
      BY <2>1, <3>1, <3>2
  <2>5. ASSUME NEW e \in Elements, promise(e), UNCHANGED <<skipped, stoppedInside>>
        PROVE  SoundInv'
    BY <2>1, <2>5, PromiseStep
  <2>6. ASSUME NEW e \in Elements, toggleAtOnce(e), UNCHANGED <<skipped, stoppedInside>>
        PROVE  SoundInv'
    BY <2>1, <2>6, DisplayStep
  <2>7. QED
    BY <1>1, <2>2, <2>3, <2>4, <2>5, <2>6 DEF Call
<1>2. ASSUME NEW a \in Ids, next(a)
      PROVE  SoundInv'
  <2>1. Sound(page') /\ page.entries[a].elem \in Elements
    BY <1>2, NextStep
  <2>2. QED
    BY <1>2, <2>1 DEF next
<1>3. CASE Library
  <2>1. Sound(page')
    BY <1>3, ReturnStep, StopLoopStep, TickStep DEF Library
  <2>2. skipped' \subseteq Elements
    <3>1. CASE complete
      <4>1. page.stack # <<>> /\ Top.fn = "callback"
        BY <3>1 DEF complete, At
      <4>2. Top \in Frames
        BY <4>1, TopFrame DEF Sound, Top
      <4>3. Top.elem \in Elements
        BY <4>1, <4>2 DEF Frames, Dequeues, Codes, Stops, Ticks
      <4>4. QED
        BY <3>1, <4>3 DEF complete
    <3>2. QED
      BY <1>3, <3>1 DEF Library
  <2>3. QED
    BY <1>3, <2>1, <2>2 DEF Library
<1>t. CASE throw
  BY <1>t, ThrowStep DEF throw
<1>4. CASE resolve
  BY <1>4, ResolveStep DEF resolve
<1>5. ASSUME NEW due, raf(due)
      PROVE  SoundInv'
  BY <1>5, RafStep DEF raf
<1>6. CASE UNCHANGED vars
  BY <1>6 DEF vars, Sound, Linked, Links, of, has, Ticking, Waits, Untouched, Styled
<1>7. QED
  BY <1>1, <1>2, <1>3, <1>t, <1>4, <1>5, <1>6 DEF Next

\* The first part of the invariant holds: queues, marks, timers and frames fit together,
\* whatever callbacks call in the middle of tick, stop and dequeue (jquery.js:1803-1847,
\* 8236-8252, 8505-8511).
THEOREM FxSound == Spec => []SoundInv
<1>1. Init => SoundInv
  BY FxAssumption, SoundInit
<1>2. SoundInv /\ [Next]_vars => SoundInv'
  BY FxAssumption, SoundNext
<1>3. QED
  BY <1>1, <1>2, PTL DEF Spec

\* StylesRestored: an element no animation was cut short on, and on which none ran into
\* another, has its size and overflow again when they are over (jquery.js:8456-8484).
THEOREM StylesComeBack == Spec => []StylesRestored
<1>1. SoundInv => StylesRestored
  BY DEF SoundInv, Sound, StylesRestored, Styled, Of, Ids, of, plain
<1>2. QED
  BY <1>1, FxSound, PTL

-----------------------------------------------------------------------------
(***************************************************************************)
(* Timers.  As long as stop is not called from inside a loop there is at   *)
(* most one loop on the stack, and a timer is served but for the one that  *)
(* loop has just called, and those that stop is about to remove.           *)
(***************************************************************************)
\* A loop of stop that cuts animations short; timers that were called for the last
\* time, by a loop that has not removed them yet; elements that stop is at.
isShort(f) == f.fn = "stop" /\ ~f.gotoEnd
endedAt(s, i) == \E j \in DOMAIN s.stack :
    isLoop(s.stack[j]) /\ s.stack[j].ended /\ s.stack[j].i = i
cutting(s, e) == \E j \in DOMAIN s.stack : isShort(s.stack[j]) /\ s.stack[j].elem = e

\* Nobody is in a loop, or in one that cuts short.
NoLoop(s) == \A j \in DOMAIN s.stack : ~isLoop(s.stack[j])
NoShort(s) == \A j \in DOMAIN s.stack : ~isShort(s.stack[j])

\* f is a loop that may be under way.
LoopOK(s, f) ==
    /\ f.ended => f.i \in DOMAIN s.timers /\ isDone(s, f.i)
    /\ f.fn = "stop" => f.i <= Len(s.timers)
    /\ isShort(f) => ~f.ended /\ \A i \in DOMAIN s.timers : i > f.i => s.timers[i].elem # f.elem

\* One loop is under way at most, and no user code is called by one that cuts short.
Looping(s) ==
    /\ \A j, l \in DOMAIN s.stack : isLoop(s.stack[j]) /\ isLoop(s.stack[l]) => j = l
    /\ \A j \in DOMAIN s.stack : isLoop(s.stack[j]) => LoopOK(s, s.stack[j])
    /\ \A j \in DOMAIN s.stack : isShort(s.stack[j]) => j = 1

\* The animation runs, or all its timers were called for the last time.
whole(s, a) == a \in s.running \/ s.entries[a].done = 1..Props

\* A timer was called for the last time only if a loop is about to remove it, and
\* its animation runs, or is ending or being cut short.
Located(s) ==
    /\ \A i \in DOMAIN s.timers : isDone(s, i) => endedAt(s, i) /\ whole(s, s.timers[i].entry)
    /\ \A i \in DOMAIN s.timers :
          s.timers[i].entry \in s.running \/ endedAt(s, i) \/ cutting(s, s.timers[i].elem)

\* A running animation has one timer for each property that is not done.
Timed(s) ==
    /\ \A i \in DOMAIN s.timers : s.timers[i].prop \in 1..Props
    /\ \A i, j \in DOMAIN s.timers :
          s.timers[i].entry = s.timers[j].entry /\ s.timers[i].prop = s.timers[j].prop => i = j
    /\ \A a \in s.running :
          /\ s.entries[a].done # 1..Props
          /\ \A p \in 1..Props : \/ p \in s.entries[a].done
                               \/ \E i \in DOMAIN s.timers : s.timers[i].entry = a /\ s.timers[i].prop = p
    /\ \A a \in DOMAIN s.entries :
          /\ s.entries[a].done \subseteq 1..Props
          /\ s.entries[a].completed <= 1
          /\ s.entries[a].completed = 1 => s.entries[a].done = 1..Props \/ ~has(s, a)

\* The second part of the invariant.
Served(s) == Looping(s) /\ Located(s) /\ Timed(s)

\* No timer is about to be removed.
Calm(s) == \A i \in DOMAIN s.timers : ~isDone(s, i) /\ s.timers[i].entry \in s.running

\* s and t have the same timers, for the same ends.
SameTimers(s, t) ==
    /\ t.timers = s.timers /\ t.running = s.running
    /\ \A b \in DOMAIN t.entries :
          \/ /\ b \in DOMAIN s.entries /\ t.entries[b].done = s.entries[b].done
             /\ t.entries[b].completed = s.entries[b].completed
          \/ /\ ~has(s, b) /\ b \notin s.running /\ t.entries[b].completed <= 1
             /\ t.entries[b].done \subseteq 1..Props
    /\ DOMAIN s.entries \subseteq DOMAIN t.entries

LEMMA SameTimed ==
    ASSUME NEW s, NEW t, Sound(s), Timed(s), SameTimers(s, t)
    PROVE  /\ Timed(t) /\ (Calm(s) => Calm(t))
           /\ \A i \in DOMAIN s.timers : isDone(t, i) <=> isDone(s, i)
           /\ \A i \in DOMAIN s.timers : whole(s, s.timers[i].entry) => whole(t, s.timers[i].entry)
<1>1. \A i \in DOMAIN s.timers : LET b == s.timers[i].entry IN
         b \in DOMAIN s.entries /\ b \in DOMAIN t.entries /\ t.entries[b].done = s.entries[b].done
  BY DEF Sound, Linked, of, SameTimers, has
<1>2. \A b \in s.running : b \in DOMAIN s.entries /\ b \in DOMAIN t.entries
                          /\ t.entries[b].done = s.entries[b].done
  BY DEF Sound, Linked, SameTimers
<1>3. \A i \in DOMAIN s.timers : isDone(t, i) <=> isDone(s, i)
  BY <1>1 DEF isDone, SameTimers
<1>4. Calm(s) => Calm(t)
  BY <1>3 DEF Calm, SameTimers
<1>5. \A b : has(t, b) <=> has(s, b)
  BY DEF has, SameTimers
<1>6. Timed(t)
  BY <1>2, <1>5 DEF Timed, SameTimers
<1>7. \A i \in DOMAIN s.timers : whole(s, s.timers[i].entry) => whole(t, s.timers[i].entry)
  BY <1>1 DEF whole, SameTimers
<1>8. QED
  BY <1>3, <1>4, <1>6, <1>7

\* Frames that are no loops come and go.
Moved(s, t, n) ==
    /\ \A j \in DOMAIN t.stack : isLoop(t.stack[j]) => j - n \in DOMAIN s.stack /\ s.stack[j - n] = t.stack[j]
    /\ \A j \in DOMAIN s.stack : isLoop(s.stack[j]) => j + n \in DOMAIN t.stack /\ t.stack[j + n] = s.stack[j]
    /\ n # 0 => NoShort(s)

LEMMA ServedMoved ==
    ASSUME NEW s, Sound(s), NEW t, Sound(t), Served(s), SameTimers(s, t), NEW n \in {-1, 0, 1}, Moved(s, t, n)
    PROVE  Served(t)
<1>1. /\ Timed(t) /\ \A i \in DOMAIN s.timers : isDone(t, i) <=> isDone(s, i)
      /\ \A i \in DOMAIN s.timers : whole(s, s.timers[i].entry) => whole(t, s.timers[i].entry)
  BY SameTimed DEF Served
<1>2. t.timers = s.timers /\ t.running = s.running
  BY DEF SameTimers
<1>3. /\ s.stack \in Seq(Frames) /\ t.stack \in Seq(Frames)
      /\ \A j \in DOMAIN s.stack : j \in Nat
      /\ \A j \in DOMAIN t.stack : j \in Nat
  BY DEF Sound, Pages
<1>4. \A f : isShort(f) => isLoop(f)
  BY DEF isShort, isLoop
<1>5. Looping(t)
  <2>1. ASSUME NEW j \in DOMAIN t.stack, NEW l \in DOMAIN t.stack, isLoop(t.stack[j]), isLoop(t.stack[l])
        PROVE  j = l
    <3>1. j - n = l - n
      BY <2>1 DEF Moved, Served, Looping
    <3>2. QED
      BY <1>3, <3>1
  <2>2. ASSUME NEW j \in DOMAIN t.stack, isLoop(t.stack[j])
        PROVE  LoopOK(t, t.stack[j])
    <3>1. PICK f : f = t.stack[j]
      OBVIOUS
    <3>2. LoopOK(s, f)
      BY <2>2, <3>1 DEF Moved, Served, Looping
    <3>3. QED
      BY <1>1, <1>2, <3>1, <3>2 DEF LoopOK
  <2>3. ASSUME NEW j \in DOMAIN t.stack, isShort(t.stack[j])
        PROVE  j = 1
    <3>1. j - n \in DOMAIN s.stack /\ isShort(s.stack[j - n])
      BY <1>4, <2>3 DEF Moved
    <3>2. n = 0 /\ j - n = 1
      BY <3>1 DEF Moved, NoShort, Served, Looping
    <3>3. QED
      BY <1>3, <3>2
  <2>4. QED
    BY <2>1, <2>2, <2>3 DEF Looping
<1>6. \A i : endedAt(s, i) => endedAt(t, i)
  BY DEF endedAt, Moved
<1>7. \A e : cutting(s, e) => cutting(t, e)
  BY <1>4 DEF cutting, Moved
<1>8. Located(t)
  BY <1>1, <1>2, <1>6, <1>7 DEF Served, Located
<1>9. QED
  BY <1>1, <1>5, <1>8 DEF Served

\* With no timer on its way to go there may be a loop anywhere.
LEMMA ServedCalm ==
    ASSUME NEW s, Sound(s), NEW t, Sound(t), Timed(s), Calm(s), SameTimers(s, t), Looping(t)
    PROVE  Served(t)
  BY SameTimed DEF Served, Located, Calm

LEMMA CalmWithoutLoop ==
    ASSUME NEW s, Served(s), NoLoop(s)
    PROVE  Calm(s)
  BY DEF Served, Located, Calm, NoLoop, endedAt, cutting, isLoop, isShort

LEMMA CalmUnderLoop ==
    ASSUME NEW s, Served(s), 1 \in DOMAIN s.stack, isLoop(s.stack[1]), ~s.stack[1].ended,
           isShort(s.stack[1]) => s.stack[1].i = 0, Sound(s)
    PROVE  Calm(s) /\ \A j \in DOMAIN s.stack : isLoop(s.stack[j]) => j = 1
<1>1. \A j \in DOMAIN s.stack : isLoop(s.stack[j]) => j = 1
  BY DEF Served, Looping
<1>2. \A i : ~endedAt(s, i)
  BY <1>1 DEF endedAt
<1>3. \A i \in DOMAIN s.timers : i > 0
  BY DEF Sound, Pages
<1>4. ASSUME NEW i \in DOMAIN s.timers
      PROVE  ~cutting(s, s.timers[i].elem)
  BY <1>1, <1>3 DEF Served, Looping, LoopOK, cutting, isShort, isLoop
<1>5. QED
  BY <1>1, <1>2, <1>4 DEF Served, Located, Calm

LEMMA NotShort ==
    ASSUME NEW s, Served(s), s.stack = <<>> \/ ~isShort(s.stack[1])
    PROVE  NoShort(s)
  BY DEF Served, Looping, NoShort

\* Frames that are no loops are put on the stack, or taken from it.
LEMMA ServedPush ==
    ASSUME NEW s, Sound(s), NEW t, Sound(t), Served(s), NoShort(s), SameTimers(s, t),
           NEW f \in Frames, ~isLoop(f), t.stack = <<f>> \o s.stack
    PROVE  Served(t) /\ NoShort(t)
<1>1. s.stack \in Seq(Frames)
  BY DEF Sound, Pages
<1>2. /\ DOMAIN t.stack = 1..(Len(s.stack) + 1) /\ DOMAIN s.stack = 1..Len(s.stack)
      /\ t.stack[1] = f /\ \A j \in DOMAIN s.stack : t.stack[j + 1] = s.stack[j]
      /\ \A j \in DOMAIN t.stack : j = 1 \/ (j - 1 \in DOMAIN s.stack /\ t.stack[j] = s.stack[j - 1])
  BY <1>1, Pushed
<1>3. Len(s.stack) \in Nat
  BY <1>1
<1>4. Moved(s, t, 1)
  BY <1>2, <1>3 DEF Moved
<1>5. NoShort(t)
  BY <1>2 DEF NoShort, isShort, isLoop
<1>6. QED
  BY <1>4, <1>5, ServedMoved

LEMMA ServedPop ==
    ASSUME NEW s, Sound(s), NEW t, Sound(t), Served(s), SameTimers(s, t),
           s.stack # <<>>, ~isLoop(s.stack[1]), t.stack = Tail(s.stack)
    PROVE  Served(t) /\ NoShort(t)
<1>1. s.stack \in Seq(Frames)
  BY DEF Sound, Pages
<1>2. /\ DOMAIN t.stack = 1..(Len(s.stack) - 1) /\ DOMAIN s.stack = 1..Len(s.stack)
      /\ Len(s.stack) \in Nat \ {0}
      /\ \A j \in DOMAIN t.stack : j + 1 \in DOMAIN s.stack /\ t.stack[j] = s.stack[j + 1]
  BY <1>1, TailOf
<1>3. NoShort(s)
  BY NotShort DEF isShort, isLoop
<1>4. \A j \in DOMAIN s.stack : isLoop(s.stack[j]) => j - 1 \in DOMAIN t.stack /\ t.stack[j - 1] = s.stack[j]
  <2> SUFFICES ASSUME NEW j \in DOMAIN s.stack, isLoop(s.stack[j])
               PROVE  j - 1 \in DOMAIN t.stack /\ t.stack[j - 1] = s.stack[j]
    OBVIOUS
  <2>1. j # 1
    OBVIOUS
  <2>2. j - 1 \in DOMAIN t.stack /\ (j - 1) + 1 = j
    BY <1>2, <2>1
  <2>3. QED
    BY <1>2, <2>2
<1>5. \A j \in DOMAIN t.stack : j - (-1) = j + 1
  BY <1>2
<1>6. \A j \in DOMAIN s.stack : j + (-1) = j - 1
  BY <1>2
<1>7. Moved(s, t, -1)
  BY <1>2, <1>3, <1>4, <1>5, <1>6 DEF Moved
<1>8. NoShort(t)
  BY <1>2, <1>3 DEF NoShort
<1>9. QED
  BY <1>7, <1>8, ServedMoved

LEMMA ServedSame ==
    ASSUME NEW s, Sound(s), NEW t, Sound(t), Served(s), SameTimers(s, t), t.stack = s.stack
    PROVE  Served(t)
<1>1. \A j \in DOMAIN s.stack : j - 0 = j /\ j + 0 = j
  BY DEF Sound, Pages
<1>2. Moved(s, t, 0)
  BY <1>1 DEF Moved
<1>3. QED
  BY <1>2, ServedMoved

\* Neither the timers nor what they are for.
Spared == {"queue", "mark", "defer", "look", "timerId", "cut", "loops", "owed", "timeouts",
           "pending", "stack", "raised", "lost"}
LEMMA SparedTimers ==
    ASSUME NEW s, NEW t, NEW X, Same(s, t, X), X \subseteq Spared
    PROVE  SameTimers(s, t)
<1>1. "entries" \notin X /\ "timers" \notin X /\ "running" \notin X
  BY DEF Spared
<1>2. QED
  BY <1>1 DEF SameTimers, Same, Fields

LEMMA ServedSpared ==
    ASSUME NEW s, Sound(s), NEW t, Sound(t), Served(s), NEW X, Same(s, t, X), X \subseteq Spared \ {"stack"}
    PROVE  Served(t) /\ (NoShort(s) => NoShort(t))
<1>1. SameTimers(s, t)
  BY SparedTimers
<1>2. t.stack = s.stack
  BY DEF Same, Fields, Spared
<1>3. QED
  BY <1>1, <1>2, ServedSame DEF NoShort

LEMMA ServedEmpties ==
    ASSUME NEW s, Sound(s), NEW t, Sound(t), Served(s), NEW e, Empties(s, t, e)
    PROVE  Served(t) /\ (NoShort(s) => NoShort(t)) /\ (NoLoop(s) => NoLoop(t))
<1>1. SameTimers(s, t)
  BY SparedTimers DEF Empties, Spared
<1>2. DOMAIN t.stack = DOMAIN s.stack
      /\ \A j \in DOMAIN s.stack : t.stack[j] = s.stack[j] \/ (~isLoop(t.stack[j]) /\ ~isLoop(s.stack[j]))
  BY DEF Empties, isLoop
<1>3. \A j \in DOMAIN s.stack : j - 0 = j /\ j + 0 = j
  BY DEF Sound, Pages
<1>4. Moved(s, t, 0)
  BY <1>2, <1>3 DEF Moved
<1>5. QED
  BY <1>1, <1>2, <1>4, ServedMoved DEF NoShort, NoLoop, isShort, isLoop

\* The timers of the animation that begins are to be called, and none goes.
LEMMA ServedBegins ==
    ASSUME FxAssumption, NEW s, Sound(s), NEW t, Sound(t), Served(s), NoShort(s),
           NEW e \in Elements, NEW a, Fresh(s, e, a), Begins(s, t, e, a)
    PROVE  Served(t)
<1>1. /\ a \in DOMAIN s.entries /\ a \notin s.running /\ ~has(s, a)
      /\ s.entries[a].done = {} /\ s.entries[a].completed = 0
  BY DEF Fresh, Untouched
<1>2. s.entries \in Seq(Entries) /\ s.timers \in Seq(Timers) /\ s \in Pages
  BY DEF Sound, Pages
<1>3. Len(s.timers) \in Nat /\ DOMAIN s.timers = 1..Len(s.timers) /\ Props \in Nat \ {0}
  BY <1>2 DEF FxAssumption
<1>4. /\ DOMAIN t.entries = DOMAIN s.entries
      /\ \A b \in DOMAIN s.entries : /\ t.entries[b].done = s.entries[b].done
                                     /\ t.entries[b].completed = s.entries[b].completed
  <2>1. s.entries[a] \in Entries
    BY <1>1, <1>2, EntryPositive
  <2> DEFINE alone == \A b \in s.running : s.entries[b].elem # e
  <2>2. t.entries = [s.entries EXCEPT ![a] = [s.entries[a] EXCEPT !.orig = s.look[e], !.alone = alone]]
    BY DEF Begins
  <2> HIDE DEF alone
  <2>3. QED
    BY <1>1, <1>2, <2>1, <2>2 DEF Entries
<1>5. t.running = s.running \union {a} /\ t.stack = s.stack
  BY DEF Begins, Same, Fields
<1>6. \A i \in DOMAIN s.timers : i \in DOMAIN t.timers /\ t.timers[i] = s.timers[i]
  <2>1. \A i \in DOMAIN s.timers : i \in DOMAIN t.timers /\ ~(i - Len(s.timers) \in 1..Props)
    BY <1>3 DEF Begins
  <2>2. QED
    BY <2>1 DEF Begins
<1>7. \A i \in DOMAIN t.timers :
         \/ i \in DOMAIN s.timers
         \/ /\ i - Len(s.timers) \in 1..Props
            /\ t.timers[i].elem = e /\ t.timers[i].entry = a /\ t.timers[i].prop = i - Len(s.timers)
  <2> SUFFICES ASSUME NEW i \in DOMAIN t.timers, i \notin DOMAIN s.timers
               PROVE  /\ i - Len(s.timers) \in 1..Props
                      /\ t.timers[i].elem = e /\ t.timers[i].entry = a
                      /\ t.timers[i].prop = i - Len(s.timers)
    OBVIOUS
  <2>1. i - Len(s.timers) \in 1..Props /\ t.timers[i] = [elem |-> e, entry |-> a, prop |-> i - Len(s.timers)]
    BY DEF Begins
  <2>2. QED
    BY <2>1
<1>8. DOMAIN t.timers = 1..(Len(s.timers) + Props) /\ Len(s.timers) <= Len(t.timers)
  <2>1. t.timers \in Seq(Timers)
    BY DEF Sound, Pages
  <2>2. DOMAIN t.timers = 1..(Len(s.timers) + Props)
    BY DEF Begins
  <2>3. Len(t.timers) = Len(s.timers) + Props
    BY <1>3, <2>1, <2>2
  <2>4. QED
    BY <1>3, <2>2, <2>3
<1>9. \A i \in DOMAIN s.timers : LET b == s.timers[i].entry IN b \in DOMAIN s.entries /\ b # a
  BY <1>1 DEF Sound, Linked, of, has
<1>10. \A i \in DOMAIN s.timers : isDone(t, i) <=> isDone(s, i)
  BY <1>4, <1>6, <1>9 DEF isDone
<1>11. \A i \in DOMAIN t.timers : i \notin DOMAIN s.timers => ~isDone(t, i) /\ t.timers[i].entry \in t.running
  BY <1>1, <1>4, <1>5, <1>7 DEF isDone
<1>12. Looping(t)
  <2>1. ASSUME NEW j \in DOMAIN s.stack, isLoop(s.stack[j])
        PROVE  LoopOK(t, s.stack[j])
    <3>1. LoopOK(s, s.stack[j]) /\ ~isShort(s.stack[j])
      BY <2>1 DEF Served, Looping, NoShort
    <3>2. s.stack[j].fn = "stop" => s.stack[j].i <= Len(t.timers)
      <4>1. s.stack \in Seq(Frames)
        BY <1>2 DEF Pages
      <4>2. s.stack[j] \in Frames
        BY <4>1
      <4>3. s.stack[j].fn = "stop" => s.stack[j].i \in Nat
        BY <4>2 DEF Frames, Stops, Dequeues, Codes, Ticks
      <4>4. Len(t.timers) \in Nat
        BY DEF Sound, Pages
      <4>5. QED
        BY <1>3, <1>8, <3>1, <4>3, <4>4 DEF LoopOK
    <3>3. QED
      BY <1>6, <1>10, <3>1, <3>2 DEF LoopOK
  <2>2. QED
    BY <1>5, <2>1 DEF Served, Looping
<1>13. Located(t)
  <2>1. \A i \in DOMAIN s.timers : whole(s, s.timers[i].entry) => whole(t, t.timers[i].entry)
    BY <1>4, <1>5, <1>6, <1>9 DEF whole
  <2>2. QED
    BY <1>5, <1>6, <1>10, <1>11, <2>1 DEF Served, Located, endedAt, cutting
<1>14. Timed(t)
  <2>1. \A i \in DOMAIN t.timers : t.timers[i].prop \in 1..Props
    BY <1>6, <1>7 DEF Served, Timed
  <2>2. ASSUME NEW i \in DOMAIN t.timers, NEW j \in DOMAIN t.timers,
               t.timers[i].entry = t.timers[j].entry, t.timers[i].prop = t.timers[j].prop
        PROVE  i = j
    <3>1. CASE i \in DOMAIN s.timers
      <4>1. j \in DOMAIN s.timers
        BY <1>6, <1>7, <1>9, <2>2, <3>1
      <4>2. QED
        BY <1>6, <2>2, <3>1, <4>1 DEF Served, Timed
    <3>2. CASE i \notin DOMAIN s.timers
      <4>1. j \notin DOMAIN s.timers
        BY <1>6, <1>7, <1>9, <2>2, <3>2
      <4>2. i - Len(s.timers) = j - Len(s.timers)
        BY <1>7, <2>2, <3>2, <4>1
      <4>3. i \in Nat /\ j \in Nat
        BY <1>3, <1>8
      <4>4. QED
        BY <1>3, <4>2, <4>3
    <3>3. QED
      BY <3>1, <3>2
  <2>3. ASSUME NEW b \in t.running
        PROVE  /\ t.entries[b].done # 1..Props
               /\ \A p \in 1..Props : \/ p \in t.entries[b].done
                                    \/ \E i \in DOMAIN t.timers : t.timers[i].entry = b /\ t.timers[i].prop = p
    <3>1. CASE b \in s.running
      <4>1. b \in DOMAIN s.entries
        BY <3>1 DEF Sound, Linked
      <4>2. QED
        BY <1>4, <1>6, <3>1, <4>1 DEF Served, Timed
    <3>2. CASE b = a
      <4>1. t.entries[b].done # 1..Props
        <5>1. 1 \in 1..Props
          BY <1>3
        <5>2. t.entries[b].done = {}
          BY <1>1, <1>4, <3>2
        <5>3. QED
          BY <5>1, <5>2
      <4>2. ASSUME NEW p \in 1..Props
            PROVE  \E i \in DOMAIN t.timers : t.timers[i].entry = b /\ t.timers[i].prop = p
        <5> DEFINE i == Len(s.timers) + p
        <5>1. i \in DOMAIN t.timers /\ i \notin DOMAIN s.timers /\ i - Len(s.timers) = p
          BY <1>3, <1>8
        <5>2. QED
          BY <1>7, <3>2, <5>1
      <4>3. QED
        BY <4>1, <4>2
    <3>3. QED
      BY <1>5, <3>1, <3>2
  <2>4. ASSUME NEW b \in DOMAIN t.entries
        PROVE  /\ t.entries[b].done \subseteq 1..Props
               /\ t.entries[b].completed <= 1
               /\ t.entries[b].completed = 1 => t.entries[b].done = 1..Props \/ ~has(t, b)
    <3>1. b = a \/ (has(t, b) => has(s, b))
      BY <1>6, <1>7 DEF has
    <3>2. QED
      BY <1>1, <1>4, <2>4, <3>1 DEF Served, Timed
  <2>5. QED
    BY <2>1, <2>2, <2>3, <2>4 DEF Timed
<1>15. QED
  BY <1>12, <1>13, <1>14 DEF Served

LEMMA ServedStarts ==
    ASSUME FxAssumption, NEW s, Sound(s), NEW t, Sound(t), Served(s), NoShort(s),
           NEW e \in Elements, NEW a, Fresh(s, e, a), Starts(s, t, e, a)
    PROVE  Served(t)
<1>1. /\ s \in Pages /\ a \in Nat \ {0} /\ a \in DOMAIN s.entries /\ s.entries[a] \in Entries
      /\ s.entries \in Seq(Entries)
  BY EntryPositive DEF Sound, Fresh, of
<1>2. CASE Delays(s, t, a)
  <2>1. Same(s, t, {"owed"})
    BY <1>2 DEF Delays
  <2>2. {"owed"} \subseteq Spared \ {"stack"}
    BY DEF Spared
  <2>3. QED
    BY <2>1, <2>2, ServedSpared
<1>3. ASSUME NEW fn \in {"fn", "callback"}, t.stack = <<Frame(fn, e, a)>> \o s.stack, SameTimers(s, t)
      PROVE  Served(t)
  <2>1. Frame(fn, e, a) \in Frames /\ ~isLoop(Frame(fn, e, a))
    BY <1>1 DEF Frame, Frames, Codes, isLoop
  <2>2. QED
    BY <1>3, <2>1, ServedPush
<1>4. CASE Calls(s, t, e, a)
  <2>1. SameTimers(s, t)
    BY <1>4 DEF Calls, SameTimers, Same, Fields
  <2>2. QED
    BY <1>3, <1>4, <2>1 DEF Calls
<1>5. CASE ShowsAtOnce(s, t, e, a)
  <2>1. t.timers = s.timers /\ t.running = s.running
        /\ t.entries = [s.entries EXCEPT ![a] = [s.entries[a] EXCEPT !.completed = 1]]
    BY <1>5 DEF ShowsAtOnce, Same, Fields
  <2>2. DOMAIN t.entries = DOMAIN s.entries /\ t.entries[a].completed = 1
        /\ t.entries[a].done = s.entries[a].done
        /\ \A b \in DOMAIN s.entries : b # a => t.entries[b] = s.entries[b]
    BY <1>1, <2>1 DEF Entries
  <2>3. ~has(s, a) /\ a \notin s.running /\ s.entries[a].done = {}
    BY DEF Fresh, Untouched
  <2>4. SameTimers(s, t)
    BY <2>1, <2>2, <2>3 DEF SameTimers
  <2>5. QED
    BY <1>3, <1>5, <2>4 DEF ShowsAtOnce
<1>6. CASE Begins(s, t, e, a)
  BY <1>6, ServedBegins
<1>7. QED
  BY <1>2, <1>4, <1>5, <1>6 DEF Starts

LEMMA ServedDequeued ==
    ASSUME FxAssumption, NEW s, Sound(s), NEW t, Sound(t), Served(s), NoShort(s),
           NEW e \in Elements, Dequeued(s, t, e)
    PROVE  Served(t)
<1>1. CASE Empties(s, t, e)
  BY <1>1, ServedEmpties
<1>2. ASSUME NEW u, NEW a, Sound(u), Takes(s, u, e, a), Fresh(u, e, a), Starts(u, t, e, a)
      PROVE  Served(t)
  <2> DEFINE f == [fn |-> "dequeued", elem |-> e, array |-> "shared"]
  <2>1. f \in Frames /\ ~isLoop(f)
    BY DEF Frames, Dequeues, isLoop
  <2>2. u.stack = <<f>> \o s.stack /\ Same(s, u, {"queue", "stack"})
    BY <1>2 DEF Takes
  <2> HIDE DEF f
  <2>3. {"queue", "stack"} \subseteq Spared
    BY DEF Spared
  <2>4. SameTimers(s, u)
    BY <2>2, <2>3, SparedTimers
  <2>5. Served(u) /\ NoShort(u)
    BY <1>2, <2>1, <2>2, <2>4, ServedPush
  <2>6. QED
    BY <1>2, <2>5, ServedStarts
<1>3. QED
  BY <1>1, <1>2 DEF Dequeued

LEMMA ServedEnqueues ==
    ASSUME FxAssumption, NEW s, Sound(s), NEW t, Sound(t), Served(s), NoShort(s),
           NEW e \in Elements, NEW kind, Enqueues(s, t, e, kind)
    PROVE  Served(t)
<1>1. ASSUME NEW u, NEW a, Sound(u), Adds(s, u, e, kind, a)
      PROVE  Served(u) /\ NoShort(u)
  <2>1. /\ u.timers = s.timers /\ u.running = s.running /\ u.stack = s.stack
        /\ DOMAIN u.entries = DOMAIN s.entries \union {a} /\ a \notin DOMAIN s.entries
        /\ \A b \in DOMAIN s.entries : u.entries[b] = s.entries[b]
        /\ u.entries[a].completed = 0 /\ u.entries[a].done = {}
    BY <1>1 DEF Adds, Same, Fields
  <2>2. ~has(s, a) /\ a \notin s.running
    BY <2>1 DEF Sound, Linked, has, of
  <2>3. SameTimers(s, u)
    BY <2>1, <2>2 DEF SameTimers
  <2>4. QED
    BY <1>1, <2>1, <2>3, ServedSame DEF NoShort
<1>2. PICK u, a : /\ Sound(u) /\ Adds(s, u, e, kind, a)
                  /\ IF kind = "empty" THEN Pushes(u, t, Frame("callback", e, a))
                     ELSE IF kind = "free"
                     THEN \E v : /\ Sound(v) /\ Fresh(v, e, a) /\ Same(u, v, {"mark"})
                                 /\ v.mark = [u.mark EXCEPT ![e] = u.mark[e] + 1]
                                 /\ Starts(v, t, e, a)
                     ELSE \E v : /\ Sound(v) /\ Joins(u, v, e, a)
                                 /\ \/ v.queue[e][1] = InProgress /\ t = v
                                    \/ v.queue[e][1] # InProgress /\ Dequeued(v, t, e)
  BY DEF Enqueues
<1>3. Served(u) /\ NoShort(u)
  BY <1>1, <1>2
<1>e. CASE kind = "empty"
  <2> DEFINE f == Frame("callback", e, a)
  <2>1. Same(u, t, {"stack"}) /\ f \in Frames /\ t.stack = <<f>> \o u.stack
    BY <1>2, <1>e DEF Pushes
  <2>2. ~isLoop(f)
    BY DEF Frame, isLoop
  <2> HIDE DEF f
  <2>3. SameTimers(u, t)
    BY <2>1, SparedTimers DEF Spared
  <2>4. QED
    BY <1>2, <1>3, <2>1, <2>2, <2>3, ServedPush
<1>4. {"mark"} \subseteq Spared \ {"stack"} /\ {"queue"} \subseteq Spared \ {"stack"}
  BY DEF Spared
<1>5. CASE kind = "free"
  <2>1. PICK v : Sound(v) /\ Fresh(v, e, a) /\ Same(u, v, {"mark"}) /\ Starts(v, t, e, a)
    BY <1>2, <1>5
  <2>2. Served(v) /\ NoShort(v)
    BY <1>2, <1>3, <1>4, <2>1, ServedSpared
  <2>3. QED
    BY <2>1, <2>2, ServedStarts
<1>6. CASE kind # "free" /\ kind # "empty"
  <2>1. PICK v : Sound(v) /\ Joins(u, v, e, a) /\ (t = v \/ Dequeued(v, t, e))
    BY <1>2, <1>6
  <2>2. Same(u, v, {"queue"})
    BY <2>1 DEF Joins
  <2>3. Served(v) /\ NoShort(v)
    BY <1>2, <1>3, <1>4, <2>1, <2>2, ServedSpared
  <2>4. QED
    BY <2>1, <2>3, ServedDequeued
<1>7. QED
  BY <1>e, <1>5, <1>6

LEMMA ServedNext ==
    ASSUME FxAssumption, NEW s, Sound(s), NEW t, Sound(t), Served(s), NoShort(s), NEW a,
           s.entries[a].elem \in Elements, NextStarts(s, t, a)
    PROVE  Served(t)
<1>1. PICK u : Sound(u) /\ Same(s, u, {"owed"}) /\ Dequeued(u, t, s.entries[a].elem)
  BY DEF NextStarts
<1>2. {"owed"} \subseteq Spared \ {"stack"}
  BY DEF Spared
<1>3. Served(u) /\ NoShort(u)
  BY <1>1, <1>2, ServedSpared
<1>4. QED
  BY <1>1, <1>3, ServedDequeued

LEMMA ServedReturns ==
    ASSUME FxAssumption, NEW s, Sound(s), NEW t, Sound(t), Served(s), s.stack # <<>>, Returns(s, t)
    PROVE  Served(t)
<1> DEFINE f == s.stack[1]
<1>1. PICK u : /\ Sound(u) /\ Pops(s, u)
               /\ ~isLoop(f)
               /\ \/ Empties(u, t, f.elem)
                  \/ t = u
                  \/ Same(u, t, {"timeouts", "mark"})
                  \/ f.fn = "callback" /\ Dequeued(u, t, f.elem)
  BY DEF Returns, isLoop
<1>2. f \in Frames
  BY TopFrame DEF Sound
<1>3. Same(s, u, {"stack"}) /\ u.stack = Tail(s.stack)
  BY <1>1 DEF Pops
<1>4. {"stack"} \subseteq Spared /\ {"timeouts", "mark"} \subseteq Spared \ {"stack"}
  BY DEF Spared
<1>5. SameTimers(s, u)
  BY <1>3, <1>4, SparedTimers
<1>6. Served(u) /\ NoShort(u)
  BY <1>1, <1>3, <1>5, ServedPop
<1>7. f.fn = "callback" => f.elem \in Elements
  BY <1>2 DEF Frames, Codes, Dequeues, Stops, Ticks
<1>8. QED
  BY <1>1, <1>4, <1>6, <1>7, ServedEmpties, ServedSpared, ServedDequeued

\* A stop that is called while no loop is under way.
LEMMA ServedStops ==
    ASSUME FxAssumption, NEW s, Sound(s), NEW t, Sound(t), Served(s), NoLoop(s),
           NEW e \in Elements, NEW clearFirst \in BOOLEAN, NEW gotoEnd \in BOOLEAN,
           StopsFor(s, t, e, clearFirst, gotoEnd)
    PROVE  Served(t)
<1>1. PICK u, v : StopsBy(s, u, v, t, e, clearFirst, gotoEnd)
  BY DEF StopsFor
<1> DEFINE f == StopFrame(e, gotoEnd, Len(v.timers))
<1>2. /\ Sound(u) /\ Sound(v) /\ (Empties(s, u, e) \/ u = s)
      /\ Same(u, v, {"timeouts", "mark"}) /\ Pushes(v, t, f)
  BY <1>1 DEF StopsBy
<1>3. Served(u) /\ NoLoop(u)
  BY <1>2, ServedEmpties
<1>4. {"timeouts", "mark"} \subseteq Spared \ {"stack"} /\ {"stack"} \subseteq Spared
  BY DEF Spared
<1>5. Served(v) /\ NoLoop(v)
  <2>1. v.stack = u.stack
    BY <1>2 DEF Same, Fields
  <2>2. QED
    BY <1>2, <1>3, <1>4, <2>1, ServedSpared DEF NoLoop
<1>6. Calm(v) /\ Timed(v)
  BY <1>5, CalmWithoutLoop DEF Served
<1>7. f.fn = "stop" /\ f.i = Len(v.timers) /\ ~f.ended
  BY DEF StopFrame
<1> HIDE DEF f
<1>8. SameTimers(v, t) /\ f \in Frames /\ t.stack = <<f>> \o v.stack
  BY <1>2, <1>4, SparedTimers DEF Pushes
<1>9. v.stack \in Seq(Frames) /\ v.timers \in Seq(Timers) /\ t.timers = v.timers
  BY <1>2, <1>8 DEF Sound, Pages, SameTimers
<1>10. /\ t.stack[1] = f
       /\ \A j \in DOMAIN t.stack : j = 1 \/ (j - 1 \in DOMAIN v.stack /\ t.stack[j] = v.stack[j - 1])
  BY <1>8, <1>9, Pushed
<1>11. \A j \in DOMAIN t.stack : isLoop(t.stack[j]) => j = 1
  BY <1>5, <1>10 DEF NoLoop
<1>12. Len(v.timers) \in Nat /\ DOMAIN v.timers = 1..Len(v.timers)
  BY <1>9
<1>13. LoopOK(t, f)
  BY <1>7, <1>9, <1>12 DEF LoopOK
<1>14. Looping(t)
  BY <1>10, <1>11, <1>13 DEF Looping, isShort, isLoop
<1>15. QED
  BY <1>2, <1>6, <1>8, <1>14, ServedCalm

\* A timer goes that has been called, or whose animation is not running.
LEMMA TimedSpliced ==
    ASSUME NEW s, Sound(s), NEW t, Sound(t), Timed(s), NEW i \in DOMAIN s.timers,
           t.timers = RemoveAt(s.timers, i), t.entries = s.entries, t.running \subseteq s.running,
           isDone(s, i) \/ s.timers[i].entry \notin t.running
    PROVE  /\ Timed(t)
           /\ \A j \in DOMAIN t.timers : \E k \in DOMAIN s.timers : k # i /\ t.timers[j] = s.timers[k]
<1> DEFINE at(j) == IF j < i THEN j ELSE j + 1
<1>1. s.timers \in Seq(Timers)
  BY DEF Sound, Pages
<1>2. Len(s.timers) \in Nat /\ DOMAIN s.timers = 1..Len(s.timers) /\ i \in Nat
  BY <1>1
<1>3. /\ DOMAIN t.timers = 1..(Len(s.timers) - 1)
      /\ \A j \in DOMAIN t.timers : t.timers[j] = s.timers[at(j)] /\ at(j) \in DOMAIN s.timers
  <2>1. /\ DOMAIN t.timers = 1..(Len(s.timers) - 1)
        /\ \A j \in DOMAIN t.timers : j < i => j \in DOMAIN s.timers /\ t.timers[j] = s.timers[j]
        /\ \A j \in DOMAIN t.timers : ~(j < i) => j + 1 \in DOMAIN s.timers /\ t.timers[j] = s.timers[j + 1]
    BY <1>1, SplicedAt
  <2>2. QED
    BY <2>1
<1>4. \A j, k \in DOMAIN t.timers : at(j) # i /\ (at(j) = at(k) => j = k)
  BY <1>2, <1>3
<1>5. \A k \in DOMAIN s.timers : k # i => \E j \in DOMAIN t.timers : at(j) = k
  <2> SUFFICES ASSUME NEW k \in DOMAIN s.timers, k # i PROVE \E j \in DOMAIN t.timers : at(j) = k
    OBVIOUS
  <2>1. CASE k < i
    <3>1. k \in DOMAIN t.timers /\ at(k) = k
      BY <1>2, <1>3, <2>1
    <3>2. QED
      BY <3>1
  <2>2. CASE k > i
    <3>1. k - 1 \in DOMAIN t.timers /\ at(k - 1) = k
      BY <1>2, <1>3, <2>2
    <3>2. QED
      BY <3>1
  <2>3. QED
    BY <1>2, <2>1, <2>2
<1> HIDE DEF at
<1>6. \A j \in DOMAIN t.timers : \E k \in DOMAIN s.timers : k # i /\ t.timers[j] = s.timers[k]
  BY <1>3, <1>4
<1>7. \A k \in DOMAIN s.timers : k # i => \E j \in DOMAIN t.timers : t.timers[j] = s.timers[k]
  BY <1>3, <1>5
<1>8. \A j \in DOMAIN t.timers : t.timers[j].prop \in 1..Props
  BY <1>6 DEF Timed
<1>9. ASSUME NEW j \in DOMAIN t.timers, NEW k \in DOMAIN t.timers,
             t.timers[j].entry = t.timers[k].entry, t.timers[j].prop = t.timers[k].prop
      PROVE  j = k
  <2>1. at(j) = at(k)
    BY <1>3, <1>9 DEF Timed
  <2>2. QED
    BY <1>4, <2>1
<1>10. ASSUME NEW a \in t.running
       PROVE  /\ t.entries[a].done # 1..Props
              /\ \A p \in 1..Props : \/ p \in t.entries[a].done
                                   \/ \E j \in DOMAIN t.timers : t.timers[j].entry = a /\ t.timers[j].prop = p
  <2>1. t.entries[a].done # 1..Props
    BY <1>10 DEF Timed
  <2>2. ASSUME NEW p \in 1..Props, p \notin t.entries[a].done
        PROVE  \E j \in DOMAIN t.timers : t.timers[j].entry = a /\ t.timers[j].prop = p
    <3>1. PICK k \in DOMAIN s.timers : s.timers[k].entry = a /\ s.timers[k].prop = p
      BY <1>10, <2>2 DEF Timed
    <3>2. k # i
      BY <1>10, <2>2, <3>1 DEF isDone
    <3>3. QED
      BY <1>7, <3>1, <3>2
  <2>3. QED
    BY <2>1, <2>2
<1>11. \A b : has(t, b) => has(s, b)
  BY <1>6 DEF has
<1>12. Timed(t)
  BY <1>8, <1>9, <1>10, <1>11 DEF Timed
<1>13. QED
  BY <1>6, <1>12

LEMMA Retopped ==
    ASSUME NEW s, Sound(s), s.stack # <<>>, NEW t, NEW f, Retops(s, t, f)
    PROVE  /\ t.stack \in Seq(Frames) /\ DOMAIN t.stack = DOMAIN s.stack /\ 1 \in DOMAIN t.stack /\ t.stack[1] = f
           /\ \A j \in DOMAIN s.stack : j # 1 => t.stack[j] = s.stack[j]
           /\ t.timers = s.timers /\ t.running = s.running /\ t.entries = s.entries
<1>1. s.stack \in Seq(Frames) /\ 1 \in DOMAIN s.stack
  BY TopFrame DEF Sound
<1>2. f \in Frames /\ t.stack = [s.stack EXCEPT ![1] = f]
  BY DEF Retops
<1>3. t.stack \in Seq(Frames) /\ DOMAIN t.stack = DOMAIN s.stack /\ t.stack[1] = f
      /\ \A j \in DOMAIN s.stack : j # 1 => t.stack[j] = s.stack[j]
  BY <1>1, <1>2
<1>4. QED
  BY <1>1, <1>3 DEF Retops, Same, Fields

\* The loop has called the timer and comes back to take it away.
LEMMA ServedRemoves ==
    ASSUME NEW s, Sound(s), NEW t, Sound(t), Served(s), s.stack # <<>>, isLoop(s.stack[1]), s.stack[1].ended,
           NEW g, ~g.ended, ~isShort(g), g.fn = "stop" => g.i <= Len(s.timers) - 1,
           Removes(s, t, g, s.stack[1].i)
    PROVE  Served(t)
<1> DEFINE i == s.stack[1].i
<1>1. 1 \in DOMAIN s.stack /\ s.timers \in Seq(Timers) /\ Len(s.timers) \in Nat
  BY TopFrame DEF Sound, Pages
<1>2. LoopOK(s, s.stack[1]) /\ \A j \in DOMAIN s.stack : isLoop(s.stack[j]) => j = 1
  BY <1>1 DEF Served, Looping
<1>3. i \in DOMAIN s.timers /\ isDone(s, i) /\ ~isShort(s.stack[1])
  BY <1>2 DEF LoopOK
<1>4. \A k \in DOMAIN s.timers : k # i => ~isDone(s, k) /\ s.timers[k].entry \in s.running
  BY <1>2, <1>3 DEF Served, Located, endedAt, cutting, isShort, isLoop
<1>5. PICK u : Sound(u) /\ Retops(s, u, g) /\ Same(u, t, {"timers"}) /\ t.timers = RemoveAt(s.timers, i)
  BY <1>3 DEF Removes
<1>6. t.entries = s.entries /\ t.running = s.running /\ t.stack = u.stack
  BY <1>5, Retopped DEF Same, Fields
<1>7. /\ Timed(t)
      /\ \A j \in DOMAIN t.timers : \E k \in DOMAIN s.timers : k # i /\ t.timers[j] = s.timers[k]
  BY <1>3, <1>5, <1>6, TimedSpliced DEF Served
<1>8. Calm(t)
  BY <1>4, <1>6, <1>7 DEF Calm, isDone
<1>9. Len(t.timers) = Len(s.timers) - 1
  BY <1>1, <1>3, <1>5, Spliced
<1>10. LoopOK(t, g)
  BY <1>9 DEF LoopOK
<1>11. Looping(t)
  BY <1>2, <1>5, <1>6, <1>10, Retopped DEF Looping, isShort, isLoop
<1>12. SameTimers(t, t)
  BY DEF SameTimers
<1>13. QED
  BY <1>7, <1>8, <1>11, <1>12, ServedCalm

\* stop takes away a timer of its element without calling it.
LEMMA ServedCuts ==
    ASSUME NEW s, Sound(s), NEW t, Sound(t), Served(s), s.stack # <<>>, s.stack[1] \in Stops,
           isShort(s.stack[1]), s.timers[s.stack[1].i].elem = s.stack[1].elem,
           Cuts(s, t, [s.stack[1] EXCEPT !.i = s.stack[1].i - 1], s.stack[1].i)
    PROVE  Served(t)
<1> DEFINE f == s.stack[1]
           i == f.i
           e == f.elem
           a == s.timers[i].entry
           g == [f EXCEPT !.i = f.i - 1]
<1>1. 1 \in DOMAIN s.stack /\ s.timers \in Seq(Timers) /\ Len(s.timers) \in Nat
  BY TopFrame DEF Sound, Pages
<1>2. LoopOK(s, f) /\ \A j \in DOMAIN s.stack : isLoop(s.stack[j]) => j = 1
  BY <1>1 DEF Served, Looping, isShort, isLoop
<1>3. ~f.ended /\ \A k \in DOMAIN s.timers : k > i => s.timers[k].elem # e
  BY <1>2 DEF LoopOK
<1>4. /\ g.fn = f.fn /\ g.gotoEnd = f.gotoEnd /\ g.elem = e /\ g.ended = f.ended /\ g.i = i - 1
  BY DEF Stops
<1> HIDE DEF g
<1>5. PICK u, v : /\ Sound(u) /\ Retops(s, u, g) /\ Sound(v) /\ Same(u, v, {"running", "cut"})
                  /\ v.running = s.running \ {a}
                  /\ i \in DOMAIN s.timers /\ Same(v, t, {"timers"}) /\ t.timers = RemoveAt(s.timers, i)
  BY DEF Cuts, g
<1>6. t.entries = s.entries /\ t.running = s.running \ {a} /\ t.stack = u.stack
  BY <1>5, Retopped DEF Same, Fields
<1>7. /\ Timed(t)
      /\ \A j \in DOMAIN t.timers : \E k \in DOMAIN s.timers : k # i /\ t.timers[j] = s.timers[k]
  <2>1. t.running \subseteq s.running /\ a \notin t.running
    BY <1>6
  <2>2. Timed(s)
    BY DEF Served
  <2>3. t.timers = RemoveAt(s.timers, i) /\ i \in DOMAIN s.timers
    BY <1>5
  <2>4. QED
    BY <1>6, <2>1, <2>2, <2>3, TimedSpliced
<1>8. /\ Len(t.timers) = Len(s.timers) - 1 /\ DOMAIN t.timers = 1..(Len(s.timers) - 1) /\ i \in Nat
      /\ \A j \in DOMAIN t.timers : ~(j < i) => j + 1 \in DOMAIN s.timers /\ t.timers[j] = s.timers[j + 1]
  <2>1. i \in DOMAIN s.timers /\ t.timers = RemoveAt(s.timers, i)
    BY <1>5
  <2> HIDE DEF i
  <2>2. /\ i \in 1..Len(s.timers) /\ Len(t.timers) = Len(s.timers) - 1 /\ DOMAIN t.timers = 1..(Len(s.timers) - 1)
        /\ \A j \in DOMAIN t.timers : ~(j < i) => j + 1 \in DOMAIN s.timers /\ t.timers[j] = s.timers[j + 1]
    <3>1. ASSUME NEW r \in Seq(Timers), NEW q \in DOMAIN r, NEW x, x = RemoveAt(r, q)
          PROVE  /\ q \in 1..Len(r) /\ Len(x) = Len(r) - 1 /\ DOMAIN x = 1..(Len(r) - 1)
                 /\ \A j \in DOMAIN x : ~(j < q) => j + 1 \in DOMAIN r /\ x[j] = r[j + 1]
      BY <3>1, SplicedAt
    <3>2. QED
      BY <1>1, <2>1, <3>1, Zenon
  <2>3. QED
    BY <1>1, <2>2
<1>9. \A j \in DOMAIN t.timers : j > i - 1 => t.timers[j].elem # e
  <2> SUFFICES ASSUME NEW j \in DOMAIN t.timers, j > i - 1 PROVE t.timers[j].elem # e
    OBVIOUS
  <2>1. j \in Nat /\ ~(j < i) /\ j + 1 > i
    BY <1>8
  <2>2. QED
    BY <1>3, <1>8, <2>1
<1>10. isShort(g) /\ isLoop(g)
  BY <1>4 DEF isShort, isLoop
<1>11. g.i <= Len(t.timers)
  BY <1>1, <1>4, <1>5, <1>8
<1>12. LoopOK(t, g)
  BY <1>3, <1>4, <1>9, <1>11 DEF LoopOK
<1>13. t.stack[1] = g /\ DOMAIN t.stack = DOMAIN s.stack /\ 1 \in DOMAIN t.stack
       /\ \A j \in DOMAIN s.stack : j # 1 => t.stack[j] = s.stack[j]
  BY <1>5, <1>6, Retopped
<1>14. Looping(t)
  BY <1>2, <1>10, <1>12, <1>13 DEF Looping, isShort, isLoop
<1>15. cutting(t, e)
  BY <1>4, <1>10, <1>13 DEF cutting
<1>16. \A k \in DOMAIN s.timers : ~isDone(s, k) /\ (s.timers[k].entry \in s.running \/ s.timers[k].elem = e)
  <2> SUFFICES ASSUME NEW k \in DOMAIN s.timers
               PROVE  ~isDone(s, k) /\ (s.timers[k].entry \in s.running \/ s.timers[k].elem = e)
    OBVIOUS
  <2>1. ~endedAt(s, k)
    BY <1>2, <1>3 DEF endedAt
  <2>2. cutting(s, s.timers[k].elem) => s.timers[k].elem = e
    BY <1>2 DEF cutting, isShort, isLoop
  <2>3. QED
    BY <2>1, <2>2 DEF Served, Located
<1>17. \A k \in DOMAIN s.timers : s.timers[k].entry = a => s.timers[k].elem = e
  <2>1. \A k \in DOMAIN s.timers : s.entries[s.timers[k].entry].elem = s.timers[k].elem
    BY DEF Sound, Linked, of
  <2>2. s.timers[i].elem = e /\ s.entries[a].elem = s.timers[i].elem
    BY <1>5, <2>1
  <2>3. QED
    BY <2>1, <2>2
<1>18. \A j \in DOMAIN t.timers : ~isDone(t, j) /\ (t.timers[j].entry \in t.running \/ t.timers[j].elem = e)
  BY <1>6, <1>7, <1>16, <1>17 DEF isDone
<1>19. Located(t)
  BY <1>15, <1>18 DEF Located
<1>20. QED
  BY <1>7, <1>14, <1>19 DEF Served

\* The loop calls its timer: it is the only one that is done.
LEMMA ServedRings ==
    ASSUME FxAssumption, NEW s, Sound(s), NEW t, Sound(t), Served(s), s.stack # <<>>, Calm(s),
           \A j \in DOMAIN s.stack : isLoop(s.stack[j]) => j = 1,
           NEW g, isLoop(g), g.ended, ~isShort(g), NEW i, g.i = i, g.fn = "stop" => i <= Len(s.timers),
           Rings(s, t, g, i)
    PROVE  Served(t)
<1> DEFINE m == s.timers[i]
           a == m.entry
           done == s.entries[a].done \union {m.prop}
<1>1. PICK u : i \in DOMAIN s.timers /\ Sound(u) /\ Retops(s, u, g) /\ (Steps(u, t, m) \/ Ends(u, t, m))
  BY DEF Rings
<1>2. /\ u.stack \in Seq(Frames) /\ DOMAIN u.stack = DOMAIN s.stack /\ 1 \in DOMAIN u.stack /\ u.stack[1] = g
      /\ \A j \in DOMAIN s.stack : j # 1 => u.stack[j] = s.stack[j]
      /\ u.timers = s.timers /\ u.running = s.running /\ u.entries = s.entries
  BY <1>1, Retopped
<1>3. a \in of(s, m.elem) /\ a \in DOMAIN s.entries /\ a \in s.running /\ ~isDone(s, i)
  BY <1>1 DEF Sound, Linked, of, Calm
<1>4. s.entries[a] \in Entries /\ s.entries \in Seq(Entries) /\ s.timers \in Seq(Timers) /\ m \in Timers
      /\ a \in Nat \ {0}
  <2>1. s.timers \in Seq(Timers)
    BY DEF Sound, Pages
  <2>2. m \in Timers
    BY <1>1, <2>1
  <2>3. QED
    BY <1>3, <2>1, <2>2, EntryPositive DEF Sound
<1>5. s.entries[a].completed = 0
  <2>1. s.entries[a].completed \in Nat
    BY <1>4 DEF Entries
  <2>2. has(s, a) /\ s.entries[a].done # 1..Props
    BY <1>1, <1>3 DEF has, Served, Timed
  <2>3. s.entries[a].completed <= 1 /\ s.entries[a].completed # 1
    BY <1>3, <2>2 DEF Served, Timed
  <2>4. QED
    BY <2>1, <2>3
<1>6. t.timers = s.timers
  <2>1. CASE Steps(u, t, m)
    <3>1. Same(u, t, {"entries"})
      BY <2>1 DEF Steps
    <3>2. t.timers = u.timers
      BY <3>1 DEF Same, Fields
    <3>3. QED
      BY <1>2, <3>2
  <2>2. CASE Ends(u, t, m)
    <3>1. Same(u, t, {"entries", "running", "look", "stack"})
      BY <2>2 DEF Ends
    <3>2. t.timers = u.timers
      BY <3>1 DEF Same, Fields
    <3>3. QED
      BY <1>2, <3>2
  <2>3. QED
    BY <1>1, <2>1, <2>2
<1>7. /\ DOMAIN t.entries = DOMAIN s.entries /\ t.entries[a].done = done
      /\ \A b \in DOMAIN s.entries : b # a => t.entries[b] = s.entries[b]
  <2>1. CASE Steps(u, t, m)
    <3>1. t.entries = [s.entries EXCEPT ![a] = [s.entries[a] EXCEPT !.done = done]]
      BY <1>2, <2>1 DEF Steps
    <3> HIDE DEF done, a
    <3>2. QED
      BY <1>3, <1>4, <3>1 DEF Entries
  <2>2. CASE Ends(u, t, m)
    <3> DEFINE c == s.entries[a].completed + 1
    <3>1. t.entries = [s.entries EXCEPT ![a] = [s.entries[a] EXCEPT !.done = done, !.completed = c]]
      BY <1>2, <2>2 DEF Ends
    <3> HIDE DEF done, a, c
    <3>2. QED
      BY <1>3, <1>4, <3>1 DEF Entries
  <2>3. QED
    BY <1>1, <2>1, <2>2
<1>8. IF Steps(u, t, m) THEN done # 1..Props /\ t.running = s.running /\ t.entries[a].completed = 0
      ELSE done = 1..Props /\ t.running = s.running \ {a} /\ t.entries[a].completed = 1
  <2>1. CASE Steps(u, t, m)
    <3>1. t.entries = [s.entries EXCEPT ![a] = [s.entries[a] EXCEPT !.done = done]]
          /\ done # 1..Props /\ t.running = s.running
      BY <1>2, <2>1 DEF Steps, Same, Fields
    <3> HIDE DEF done, a
    <3>2. QED
      BY <1>3, <1>4, <1>5, <2>1, <3>1 DEF Entries
  <2>2. CASE ~Steps(u, t, m)
    <3> DEFINE c == s.entries[a].completed + 1
    <3>1. t.entries = [s.entries EXCEPT ![a] = [s.entries[a] EXCEPT !.done = done, !.completed = c]]
          /\ done = 1..Props /\ t.running = s.running \ {a}
      BY <1>1, <1>2, <2>2 DEF Ends
    <3>c. c = 1
      BY <1>5
    <3> HIDE DEF done, a, c
    <3>2. QED
      BY <1>3, <1>4, <2>2, <3>1, <3>c DEF Entries
  <2>3. QED
    BY <2>1, <2>2
<1>9. \A k \in DOMAIN s.timers : s.timers[k].entry \in DOMAIN s.entries
  BY DEF Sound, Linked, of
<1>10. \A k \in DOMAIN s.timers : isDone(t, k) <=> k = i
  <2>1. isDone(t, i)
    BY <1>6, <1>7 DEF isDone
  <2>2. ASSUME NEW k \in DOMAIN s.timers, k # i
        PROVE  ~isDone(t, k)
    <3>1. CASE s.timers[k].entry # a
      BY <1>6, <1>7, <1>9, <2>2, <3>1 DEF isDone, Calm
    <3>2. CASE s.timers[k].entry = a
      <4>1. s.timers[k].prop # m.prop
        BY <1>1, <2>2, <3>2 DEF Served, Timed
      <4>2. QED
        BY <1>6, <1>7, <3>2, <4>1 DEF isDone, Calm
    <3>3. QED
      BY <3>1, <3>2
  <2>3. QED
    BY <2>1, <2>2
<1>11. \A k \in DOMAIN s.timers : k # i => s.timers[k].entry \in t.running
  <2> SUFFICES ASSUME NEW k \in DOMAIN s.timers, k # i PROVE s.timers[k].entry \in t.running
    OBVIOUS
  <2>1. s.timers[k].entry \in s.running /\ s.timers[k].prop \in 1..Props
    BY DEF Calm, Served, Timed
  <2>2. s.timers[k].entry = a => done # 1..Props
    BY <1>6, <1>7, <1>10, <2>1 DEF isDone
  <2>3. QED
    BY <1>8, <2>1, <2>2
<1>12. PICK q \in DOMAIN t.stack : t.stack[q] = g /\ \A j \in DOMAIN t.stack : isLoop(t.stack[j]) => j = q
  <2>1. \A j \in DOMAIN u.stack : isLoop(u.stack[j]) => j = 1
    BY <1>2
  <2>2. CASE Steps(u, t, m)
    <3>1. t.stack = u.stack
      BY <2>2 DEF Steps, Same, Fields
    <3>2. QED
      BY <1>2, <2>1, <3>1
  <2>3. CASE Ends(u, t, m)
    <3> DEFINE c == Frame("callback", m.elem, a)
    <3>1. c \in Frames /\ ~isLoop(c)
      BY <1>4 DEF Frame, Frames, Codes, isLoop, Timers
    <3>2. t.stack = <<c>> \o u.stack
      BY <2>3 DEF Ends
    <3> HIDE DEF c
    <3>3. /\ DOMAIN t.stack = 1..(Len(u.stack) + 1) /\ DOMAIN u.stack = 1..Len(u.stack)
          /\ t.stack[1] = c /\ \A j \in DOMAIN u.stack : t.stack[j + 1] = u.stack[j]
          /\ \A j \in DOMAIN t.stack : j = 1 \/ (j - 1 \in DOMAIN u.stack /\ t.stack[j] = u.stack[j - 1])
      BY <1>2, <3>1, <3>2, Pushed
    <3>4. Len(u.stack) \in Nat
      BY <1>2
    <3>5. 2 \in DOMAIN t.stack /\ t.stack[2] = g
      <4>1. 1 + 1 = 2 /\ 2 \in 1..(Len(u.stack) + 1)
        BY <1>2, <3>3, <3>4
      <4>2. QED
        BY <1>2, <3>3, <4>1
    <3>6. \A j \in DOMAIN t.stack : isLoop(t.stack[j]) => j = 2
      <4> SUFFICES ASSUME NEW j \in DOMAIN t.stack, isLoop(t.stack[j]) PROVE j = 2
        OBVIOUS
      <4>1. j - 1 \in DOMAIN u.stack /\ j - 1 = 1
        BY <2>1, <3>1, <3>3
      <4>2. j \in Nat
        BY <3>3
      <4>3. QED
        BY <4>1, <4>2
    <3>7. QED
      BY <3>5, <3>6
  <2>4. QED
    BY <1>1, <2>2, <2>3
<1>13. endedAt(t, i)
  BY <1>12 DEF endedAt
<1>14. Located(t)
  <2>1. whole(t, a)
    BY <1>3, <1>7, <1>8 DEF whole
  <2>2. QED
    BY <1>6, <1>10, <1>11, <1>13, <2>1 DEF Located
<1>15. LoopOK(t, g)
  BY <1>1, <1>6, <1>10 DEF LoopOK
<1>16. Looping(t)
  BY <1>12, <1>15 DEF Looping, isShort, isLoop
<1>17. Timed(t)
  <2>1. ASSUME NEW b \in t.running
        PROVE  /\ t.entries[b].done # 1..Props
               /\ \A p \in 1..Props : \/ p \in t.entries[b].done
                                    \/ \E k \in DOMAIN t.timers : t.timers[k].entry = b /\ t.timers[k].prop = p
    <3>1. b \in s.running /\ b \in DOMAIN s.entries
      BY <1>8, <2>1 DEF Sound, Linked
    <3>2. s.entries[b].done \subseteq t.entries[b].done
      BY <1>7, <3>1
    <3>3. t.entries[b].done # 1..Props
      BY <1>7, <1>8, <2>1, <3>1 DEF Served, Timed
    <3>4. QED
      BY <1>6, <3>1, <3>2, <3>3 DEF Served, Timed
  <2>2. ASSUME NEW b \in DOMAIN t.entries
        PROVE  /\ t.entries[b].done \subseteq 1..Props
               /\ t.entries[b].completed <= 1
               /\ t.entries[b].completed = 1 => t.entries[b].done = 1..Props \/ ~has(t, b)
    <3>1. CASE b = a
      <4>1. \/ t.entries[a].completed = 0
            \/ t.entries[a].completed = 1 /\ t.entries[a].done = 1..Props
        BY <1>7, <1>8
      <4>2. done \subseteq 1..Props
        BY <1>1, <1>3 DEF Served, Timed
      <4>3. t.entries[a].done \subseteq 1..Props /\ t.entries[a].completed <= 1
        <5>1. t.entries[a].done \subseteq 1..Props
          BY <1>7, <4>2
        <5> HIDE DEF a
        <5>2. QED
          BY <4>1, <5>1
      <4>4. QED
        BY <3>1, <4>1, <4>3
    <3>2. CASE b # a
      BY <1>6, <1>7, <2>2, <3>2 DEF Served, Timed, has
    <3>3. QED
      BY <3>1, <3>2
  <2>3. QED
    BY <1>6, <2>1, <2>2 DEF Served, Timed
<1>18. QED
  BY <1>14, <1>16, <1>17 DEF Served

LEMMA ServedLoop ==
    ASSUME NEW s, Sound(s), Served(s), s.stack # <<>>, isLoop(s.stack[1])
    PROVE  LoopOK(s, s.stack[1]) /\ \A j \in DOMAIN s.stack : isLoop(s.stack[j]) => j = 1
<1>1. 1 \in DOMAIN s.stack
  BY TopFrame DEF Sound
<1>2. QED
  BY <1>1 DEF Served, Looping

\* The loop is over.
LEMMA ServedLeaves ==
    ASSUME NEW s, Sound(s), NEW t, Sound(t), Served(s), s.stack # <<>>, isLoop(s.stack[1]), Calm(s),
           NEW X, Same(s, t, X), X \subseteq Spared, t.stack = Tail(s.stack)
    PROVE  Served(t) /\ NoShort(t)
<1>1. \A j \in DOMAIN s.stack : isLoop(s.stack[j]) => j = 1
  BY ServedLoop
<1>2. s.stack \in Seq(Frames)
  BY DEF Sound, Pages
<1>3. /\ DOMAIN t.stack = 1..(Len(s.stack) - 1) /\ Len(s.stack) \in Nat
      /\ \A j \in DOMAIN t.stack : j + 1 \in DOMAIN s.stack /\ t.stack[j] = s.stack[j + 1]
  BY <1>2, TailOf
<1>4. \A j \in DOMAIN t.stack : j + 1 # 1
  BY <1>3
<1>5. NoLoop(t)
  BY <1>1, <1>3, <1>4 DEF NoLoop
<1>6. NoShort(t) /\ Looping(t)
  BY <1>5 DEF NoLoop, NoShort, Looping, isLoop, isShort
<1>7. SameTimers(s, t)
  BY SparedTimers
<1>8. QED
  BY <1>6, <1>7, ServedCalm DEF Served

\* The loop goes on to another timer.
LEMMA ServedTurns ==
    ASSUME NEW s, Sound(s), NEW t, Sound(t), Served(s), s.stack # <<>>, isLoop(s.stack[1]),
           ~s.stack[1].ended, NEW g, Retops(s, t, g), isLoop(g), ~g.ended, LoopOK(t, g),
           isShort(g) <=> isShort(s.stack[1]), isShort(g) => g.elem = s.stack[1].elem
    PROVE  Served(t)
<1>1. 1 \in DOMAIN s.stack /\ \A j \in DOMAIN s.stack : isLoop(s.stack[j]) => j = 1
  BY TopFrame, ServedLoop DEF Sound
<1>2. /\ DOMAIN t.stack = DOMAIN s.stack /\ 1 \in DOMAIN t.stack /\ t.stack[1] = g
      /\ \A j \in DOMAIN s.stack : j # 1 => t.stack[j] = s.stack[j]
      /\ t.timers = s.timers /\ t.running = s.running /\ t.entries = s.entries
  BY Retopped
<1>3. Timed(t)
  BY <1>2 DEF Served, Timed, has
<1>4. Looping(t)
  BY <1>1, <1>2 DEF Looping, isShort, isLoop
<1>5. \A i : ~endedAt(s, i)
  BY <1>1 DEF endedAt
<1>6. \A d : cutting(s, d) => cutting(t, d)
  BY <1>1, <1>2 DEF cutting, isShort, isLoop
<1>7. Located(t)
  BY <1>2, <1>5, <1>6 DEF Served, Located, isDone, whole
<1>8. QED
  BY <1>3, <1>4, <1>7 DEF Served

LEMMA ServedStopLoops ==
    ASSUME FxAssumption, NEW s, Sound(s), NEW t, Sound(t), Served(s), s.stack # <<>>, s.stack[1] \in Stops,
           StopLoops(s, t)
    PROVE  Served(t)
<1> DEFINE f == s.stack[1]
           g == [f EXCEPT !.i = f.i - 1]
           h == [f EXCEPT !.ended = FALSE, !.i = f.i - 1]
           k == [f EXCEPT !.ended = TRUE]
<1>1. f.fn = "stop" /\ f.elem \in Elements /\ f.gotoEnd \in BOOLEAN /\ f.i \in Nat /\ f.ended \in BOOLEAN
  BY DEF Stops
<1>2. /\ g.fn = "stop" /\ g.elem = f.elem /\ g.gotoEnd = f.gotoEnd /\ g.ended = f.ended /\ g.i = f.i - 1
      /\ h.fn = "stop" /\ h.elem = f.elem /\ h.gotoEnd = f.gotoEnd /\ ~h.ended /\ h.i = f.i - 1
      /\ k.fn = "stop" /\ k.elem = f.elem /\ k.gotoEnd = f.gotoEnd /\ k.ended /\ k.i = f.i
  BY <1>1 DEF Stops
<1>3. \/ f.ended /\ Removes(s, t, h, f.i)
      \/ ~f.ended /\ f.i = 0 /\ \E u : /\ Sound(u) /\ Pops(s, u)
                                      /\ \/ f.gotoEnd /\ t = u
                                         \/ ~f.gotoEnd /\ Dequeued(u, t, f.elem)
      \/ ~f.ended /\ f.i > Len(s.timers)
      \/ /\ ~f.ended /\ f.i \in DOMAIN s.timers
         /\ \/ s.timers[f.i].elem # f.elem /\ Retops(s, t, g)
            \/ s.timers[f.i].elem = f.elem /\ f.gotoEnd /\ Rings(s, t, k, f.i)
            \/ s.timers[f.i].elem = f.elem /\ ~f.gotoEnd /\ Cuts(s, t, g, f.i)
  BY DEF StopLoops
<1> HIDE DEF h, k
<1>4. isLoop(f) /\ isLoop(k)
  BY <1>1, <1>2 DEF isLoop
<1>5. LoopOK(s, f) /\ 1 \in DOMAIN s.stack /\ \A j \in DOMAIN s.stack : isLoop(s.stack[j]) => j = 1
  BY <1>4, ServedLoop, TopFrame DEF Sound
<1>6. f.i <= Len(s.timers) /\ s.timers \in Seq(Timers) /\ Len(s.timers) \in Nat
      /\ DOMAIN s.timers = 1..Len(s.timers)
  <2>1. s.timers \in Seq(Timers)
    BY DEF Sound, Pages
  <2>2. QED
    BY <1>1, <1>5, <2>1 DEF LoopOK
<1>7. ASSUME ~f.ended, f.gotoEnd \/ f.i = 0
      PROVE  Calm(s)
  BY <1>4, <1>5, <1>7, CalmUnderLoop DEF isShort
<1>8. CASE f.ended /\ Removes(s, t, h, f.i)
  <2>1. ~isShort(h)
    BY <1>2, <1>5, <1>8 DEF LoopOK, isShort
  <2>2. h.i <= Len(s.timers) - 1
    BY <1>1, <1>2, <1>6
  <2>3. QED
    BY <1>2, <1>4, <1>8, <2>1, <2>2, ServedRemoves
<1>9. ASSUME ~f.ended, f.i = 0, NEW u, Sound(u), Pops(s, u),
             (f.gotoEnd /\ t = u) \/ Dequeued(u, t, f.elem)
      PROVE  Served(t)
  <2>1. {"stack"} \subseteq Spared
    BY DEF Spared
  <2>2. Served(u) /\ NoShort(u)
    BY <1>4, <1>7, <1>9, <2>1, ServedLeaves DEF Pops
  <2>3. QED
    BY <1>1, <1>9, <2>2, ServedDequeued
<1>10. CASE ~f.ended /\ f.i \in DOMAIN s.timers /\ s.timers[f.i].elem # f.elem /\ Retops(s, t, g)
  <2> HIDE DEF g
  <2>1. t.timers = s.timers
    BY <1>10, Retopped
  <2>2. isLoop(g) /\ ~g.ended /\ (isShort(g) <=> isShort(f)) /\ g.elem = f.elem
    BY <1>1, <1>2, <1>10 DEF isLoop, isShort
  <2>3. g.i <= Len(t.timers)
    BY <1>1, <1>2, <1>6, <2>1
  <2>4. \A j \in DOMAIN t.timers : isShort(g) /\ j > g.i => t.timers[j].elem # g.elem
    <3> SUFFICES ASSUME NEW j \in DOMAIN s.timers, isShort(g), j > g.i PROVE s.timers[j].elem # f.elem
      BY <2>1, <2>2
    <3>1. j = f.i \/ j > f.i
      BY <1>1, <1>2, <1>6
    <3>2. QED
      BY <1>5, <1>10, <2>2, <3>1 DEF LoopOK
  <2>5. LoopOK(t, g)
    BY <2>2, <2>3, <2>4 DEF LoopOK
  <2>6. QED
    BY <1>4, <1>10, <2>2, <2>5, ServedTurns
<1>11. CASE ~f.ended /\ f.i \in DOMAIN s.timers /\ f.gotoEnd /\ Rings(s, t, k, f.i)
  <2>1. ~isShort(k)
    BY <1>2, <1>11 DEF isShort
  <2>2. QED
    BY <1>2, <1>4, <1>5, <1>6, <1>7, <1>11, <2>1, ServedRings
<1>12. CASE s.timers[f.i].elem = f.elem /\ ~f.gotoEnd /\ Cuts(s, t, g, f.i)
  <2>1. isShort(f)
    BY <1>1, <1>12 DEF isShort
  <2>2. QED
    BY <1>12, <2>1, ServedCuts
<1>13. ~(f.i > Len(s.timers))
  BY <1>1, <1>6
<1>14. QED
  BY <1>3, <1>8, <1>9, <1>10, <1>11, <1>12, <1>13

LEMMA ServedTickLoops ==
    ASSUME FxAssumption, NEW s, Sound(s), NEW t, Sound(t), Served(s), s.stack # <<>>, s.stack[1] \in Ticks,
           TickLoops(s, t)
    PROVE  Served(t)
<1> DEFINE f == s.stack[1]
           g == [f EXCEPT !.i = f.i + 1]
           h == [f EXCEPT !.ended = FALSE]
           k == [f EXCEPT !.ended = TRUE]
<1>1. f.fn = "tick" /\ f.i \in Nat /\ f.ended \in BOOLEAN
  BY DEF Ticks
<1>2. /\ g.fn = "tick" /\ g.ended = f.ended /\ h.fn = "tick" /\ ~h.ended
      /\ k.fn = "tick" /\ k.ended /\ k.i = f.i
  BY <1>1 DEF Ticks
<1>3. \/ f.ended /\ Removes(s, t, h, f.i)
      \/ ~f.ended /\ Same(s, t, {"stack", "timerId"}) /\ t.stack = Tail(s.stack)
      \/ ~f.ended /\ Retops(s, t, g)
      \/ ~f.ended /\ Rings(s, t, k, f.i)
  BY DEF TickLoops
<1> HIDE DEF g, h, k
<1>4. isLoop(f) /\ isLoop(g) /\ isLoop(k) /\ ~isShort(f) /\ ~isShort(g) /\ ~isShort(h) /\ ~isShort(k)
  BY <1>1, <1>2 DEF isLoop, isShort
<1>5. LoopOK(s, f) /\ 1 \in DOMAIN s.stack /\ \A j \in DOMAIN s.stack : isLoop(s.stack[j]) => j = 1
  BY <1>4, ServedLoop, TopFrame DEF Sound
<1>6. ~f.ended => Calm(s)
  BY <1>4, <1>5, CalmUnderLoop
<1>7. CASE f.ended /\ Removes(s, t, h, f.i)
  BY <1>2, <1>4, <1>7, ServedRemoves
<1>8. CASE ~f.ended /\ Same(s, t, {"stack", "timerId"}) /\ t.stack = Tail(s.stack)
  <2>1. {"stack", "timerId"} \subseteq Spared
    BY DEF Spared
  <2>2. QED
    BY <1>4, <1>6, <1>8, <2>1, ServedLeaves
<1>9. CASE ~f.ended /\ Retops(s, t, g)
  <2>1. LoopOK(t, g)
    BY <1>2, <1>4, <1>9 DEF LoopOK
  <2>2. QED
    BY <1>2, <1>4, <1>9, <2>1, ServedTurns
<1>10. CASE ~f.ended /\ Rings(s, t, k, f.i)
  <2>1. k.fn # "stop"
    BY <1>2
  <2>2. QED
    BY <1>2, <1>4, <1>5, <1>6, <1>10, <2>1, ServedRings
<1>11. QED
  BY <1>3, <1>7, <1>8, <1>9, <1>10

\* An empty stack, to which the browser adds a tick or the callbacks of a promise.
LEMMA ServedFrames ==
    ASSUME NEW s, Sound(s), NEW t, Sound(t), Served(s), Framed(s, t)
    PROVE  Served(t)
<1>1. s.stack = <<>> /\ NoLoop(s)
  BY DEF Framed, NoLoop
<1>2. CASE Same(s, t, {"loops"})
  <2>1. {"loops"} \subseteq Spared \ {"stack"}
    BY DEF Spared
  <2>2. QED
    BY <1>2, <2>1, ServedSpared
<1>3. ASSUME NEW f \in Ticks, f.i = 1, ~f.ended, t.stack = <<f>>, Same(s, t, {"stack"})
      PROVE  Served(t)
  <2>1. SameTimers(s, t)
    BY <1>3 DEF SameTimers, Same, Fields
  <2>2. DOMAIN t.stack = {1} /\ t.stack[1] = f
    BY <1>3
  <2>3. f.fn = "tick"
    BY DEF Ticks
  <2>4. Looping(t)
    BY <1>3, <2>2, <2>3 DEF Looping, LoopOK, isShort
  <2>5. QED
    BY <1>1, <2>1, <2>4, CalmWithoutLoop, ServedCalm DEF Served
<1>4. QED
  BY <1>2, <1>3 DEF Framed

LEMMA ServedResolves ==
    ASSUME NEW s, Sound(s), NEW t, Sound(t), Served(s), Resolves(s, t)
    PROVE  Served(t)
<1>1. s.stack = <<>> /\ NoLoop(s)
  BY DEF Resolves, NoLoop
<1>2. CASE Same(s, t, {"timeouts"})
  <2>1. {"timeouts"} \subseteq Spared \ {"stack"}
    BY DEF Spared
  <2>2. QED
    BY <1>2, <2>1, ServedSpared
<1>3. ASSUME NEW p \in Promises, t.stack \in {<<>>, <<Frame("callback", p.elem, 0)>>},
             Same(s, t, {"timeouts", "defer", "pending", "stack"})
      PROVE  Served(t)
  <2>1. SameTimers(s, t)
    BY <1>3 DEF SameTimers, Same, Fields
  <2>2. \A j \in DOMAIN t.stack : t.stack[j].fn = "callback"
    <3>1. DOMAIN t.stack = {} \/ (DOMAIN t.stack = {1} /\ t.stack[1] = Frame("callback", p.elem, 0))
      BY <1>3
    <3>2. QED
      BY <3>1 DEF Frame
  <2>3. Looping(t)
    BY <2>2 DEF Looping, isLoop, isShort
  <2>4. QED
    BY <1>1, <2>1, <2>3, CalmWithoutLoop, ServedCalm DEF Served
<1>4. QED
  BY <1>2, <1>3 DEF Resolves

\* After an exception every timer is to be called, those again that were called last.
LEMMA ServedUnwinds ==
    ASSUME FxAssumption, NEW s, Sound(s), NEW t, Sound(t), Served(s), NoShort(s), Unwinds(s, t)
    PROVE  Served(t)
<1>1. t.timers = s.timers /\ t.stack = <<>> /\ DOMAIN t.entries = DOMAIN s.entries
      /\ t.running = s.running \union {a \in DOMAIN s.entries : again(s, a)}
  BY DEF Unwinds, Same, Fields
<1>2. s.entries \in Seq(Entries)
  BY DEF Sound, Pages
<1>3. ASSUME NEW a \in DOMAIN s.entries
      PROVE  /\ again(s, a) => /\ t.entries[a].done = s.entries[a].done \ open(s, a)
                               /\ t.entries[a].completed = 0
             /\ ~again(s, a) => t.entries[a] = s.entries[a]
  <2>1. s.entries[a] \in Entries
    BY <1>2
  <2>2. CASE again(s, a)
    <3>1. t.entries[a] = [s.entries[a] EXCEPT !.done = @ \ open(s, a), !.completed = 0]
      BY <2>2 DEF Unwinds
    <3>2. QED
      BY <2>1, <2>2, <3>1 DEF Entries
  <2>3. CASE ~again(s, a)
    BY <2>3 DEF Unwinds
  <2>4. QED
    BY <2>2, <2>3
<1>4. \A i \in DOMAIN s.timers : s.timers[i].entry \in DOMAIN s.entries
  BY DEF Sound, Linked, of
<1>5. \A a, p : p \in open(s, a) <=> \E i \in DOMAIN s.timers : isDone(s, i) /\ s.timers[i].entry = a /\ s.timers[i].prop = p
  BY DEF open
<1>6. \A i \in DOMAIN s.timers : isDone(s, i) => again(s, s.timers[i].entry)
  BY DEF again
<1>7. ASSUME NEW i \in DOMAIN s.timers PROVE ~isDone(t, i) /\ s.timers[i].entry \in t.running
  <2>1. CASE isDone(s, i)
    <3>1. s.timers[i].prop \in open(s, s.timers[i].entry) /\ again(s, s.timers[i].entry)
      BY <1>5, <1>6, <2>1
    <3>2. QED
      BY <1>1, <1>3, <1>4, <3>1 DEF isDone
  <2>2. CASE ~isDone(s, i)
    <3>1. ~endedAt(s, i)
      <4>1. ASSUME NEW j \in DOMAIN s.stack, isLoop(s.stack[j]), s.stack[j].ended, s.stack[j].i = i
            PROVE  FALSE
        BY <2>2, <4>1 DEF Served, Looping, LoopOK
      <4>2. QED
        BY <4>1 DEF endedAt
    <3>2. ~cutting(s, s.timers[i].elem)
      BY DEF cutting, NoShort
    <3>3. s.timers[i].entry \in s.running
      BY <3>1, <3>2 DEF Served, Located
    <3>4. t.entries[s.timers[i].entry].done \subseteq s.entries[s.timers[i].entry].done
      BY <1>3, <1>4
    <3>5. QED
      BY <1>1, <2>2, <3>3, <3>4 DEF isDone
  <2>3. QED
    BY <2>1, <2>2
<1>8. Calm(t)
  BY <1>1, <1>7 DEF Calm
<1>9. Looping(t) /\ Located(t)
  BY <1>1, <1>8 DEF Calm, Looping, Located
<1>10. Timed(t)
  <2>1. /\ \A i \in DOMAIN t.timers : t.timers[i].prop \in 1..Props
        /\ \A i, j \in DOMAIN t.timers :
              t.timers[i].entry = t.timers[j].entry /\ t.timers[i].prop = t.timers[j].prop => i = j
    BY <1>1 DEF Served, Timed
  <2>2. ASSUME NEW a \in t.running
        PROVE  /\ t.entries[a].done # 1..Props
               /\ \A p \in 1..Props : \/ p \in t.entries[a].done
                                    \/ \E i \in DOMAIN t.timers : t.timers[i].entry = a /\ t.timers[i].prop = p
    <3>1. a \in DOMAIN s.entries
      BY <1>1 DEF Sound, Linked
    <3>2. CASE again(s, a)
      <4>1. PICK i \in DOMAIN s.timers : isDone(s, i) /\ s.timers[i].entry = a
        BY <3>2 DEF again
      <4>2. s.timers[i].prop \notin t.entries[a].done /\ s.timers[i].prop \in 1..Props
        BY <1>1, <1>7, <4>1, <2>1 DEF isDone
      <4>3. \A p \in 1..Props : \/ p \in s.entries[a].done
                               \/ \E k \in DOMAIN s.timers : s.timers[k].entry = a /\ s.timers[k].prop = p
        BY <4>1 DEF Served, Timed, Located, whole
      <4>4. \A p \in 1..Props : p \in s.entries[a].done => p \in t.entries[a].done \/ p \in open(s, a)
        BY <1>3, <3>1, <3>2
      <4>5. QED
        BY <1>1, <1>5, <4>2, <4>3, <4>4
    <3>3. CASE ~again(s, a)
      <4>1. a \in s.running /\ t.entries[a] = s.entries[a]
        BY <1>1, <1>3, <3>1, <3>3
      <4>2. QED
        BY <1>1, <4>1 DEF Served, Timed
    <3>4. QED
      BY <3>2, <3>3
  <2>3. ASSUME NEW a \in DOMAIN t.entries
        PROVE  /\ t.entries[a].done \subseteq 1..Props
               /\ t.entries[a].completed <= 1
               /\ t.entries[a].completed = 1 => t.entries[a].done = 1..Props \/ ~has(t, a)
    <3>1. /\ s.entries[a].done \subseteq 1..Props /\ s.entries[a].completed <= 1
          /\ s.entries[a].completed = 1 => s.entries[a].done = 1..Props \/ ~has(s, a)
      BY <1>1 DEF Served, Timed
    <3>2. has(t, a) <=> has(s, a)
      BY <1>1 DEF has
    <3>3. QED
      BY <1>1, <1>3, <3>1, <3>2
  <2>4. QED
    BY <2>1, <2>2, <2>3 DEF Timed
<1>11. QED
  BY <1>9, <1>10 DEF Served

\* It holds until user code that a loop called calls stop.
ServedInv == SoundInv /\ (~stoppedInside => Served(page))

LEMMA ServedInit == FxAssumption /\ Init => ServedInv
<1> SUFFICES ASSUME FxAssumption, Init PROVE ServedInv
  OBVIOUS
<1>1. SoundInv
  BY SoundInit
<1>2. Served(page)
  BY DEF Init, Served, Looping, Located, Timed
<1>3. QED
  BY <1>1, <1>2 DEF ServedInv

\* Where user code runs there is no stop that cuts short under way.
LEMMA UserNoShort ==
    ASSUME Sound(page), Served(page), UserCode
    PROVE  NoShort(page)
<1>1. page.stack = <<>> \/ page.stack[1].fn \in {"callback", "fn"}
  BY TopFrame DEF Sound, UserCode, At, Top
<1>2. QED
  BY <1>1, NotShort DEF isShort

LEMMA ServedStep == FxAssumption /\ ServedInv /\ [Next]_vars => ServedInv'
<1> SUFFICES ASSUME FxAssumption, ServedInv, [Next]_vars PROVE ServedInv'
  OBVIOUS
<1>1. SoundInv /\ Sound(page) /\ calls \in Nat
  BY DEF ServedInv, SoundInv
<1>2. SoundInv' /\ Sound(page') /\ stoppedInside' \in BOOLEAN
  BY <1>1, SoundNext DEF SoundInv
<1> SUFFICES ASSUME ~stoppedInside' PROVE Served(page')
  BY <1>2 DEF ServedInv, Served, Looping, LoopOK, Located, Timed, endedAt, cutting, isDone, has, whole
<1>3. CASE Call
  <2>1. ASSUME NEW e \in Elements, NEW kind \in Kinds, enqueue(e, kind), UNCHANGED <<skipped, stoppedInside>>
        PROVE  Served(page')
    <3>1. Served(page) /\ Enqueues(page, page', e, kind)
      BY <1>1, <2>1, EnqueueStep DEF ServedInv
    <3>2. NoShort(page)
      BY <1>1, <1>3, <3>1, UserNoShort DEF Call
    <3>3. QED
      BY <1>1, <1>2, <3>1, <3>2, ServedEnqueues
  <2>2. ASSUME NEW e \in Elements, NEW clearFirst \in BOOLEAN, NEW gotoEnd \in BOOLEAN,
               stop(e, clearFirst, gotoEnd)
        PROVE  Served(page')
    <3>1. StopsFor(page, page', e, clearFirst, gotoEnd)
      BY <1>1, <2>2, StopStep
    <3>2. Served(page) /\ NoLoop(page)
      BY <2>2 DEF stop, NoLoop, isLoop, ServedInv, SoundInv
    <3>3. QED
      BY <1>1, <1>2, <3>1, <3>2, ServedStops
  <2>3. ASSUME NEW e \in Elements, clearQueue(e)
        PROVE  Served(page')
    <3>1. Empties(page, page', e) /\ Served(page)
      BY <1>1, <2>3, ClearStep DEF clearQueue, ServedInv
    <3>2. QED
      BY <1>1, <1>2, <3>1, ServedEmpties
  <2>4. ASSUME NEW e \in Elements, promise(e), UNCHANGED <<skipped, stoppedInside>>
        PROVE  Served(page')
    <3>1. Same(page, page', {"defer", "pending"}) /\ Served(page)
      BY <1>1, <2>4, PromiseStep DEF ServedInv
    <3>2. {"defer", "pending"} \subseteq Spared \ {"stack"}
      BY DEF Spared
    <3>3. QED
      BY <1>1, <1>2, <3>1, <3>2, ServedSpared
  <2>5. ASSUME NEW e \in Elements, toggleAtOnce(e), UNCHANGED <<skipped, stoppedInside>>
        PROVE  Served(page')
    <3>1. Same(page, page', {"look"}) /\ Served(page)
      BY <1>1, <2>5, DisplayStep DEF Displays, ServedInv
    <3>2. {"look"} \subseteq Spared \ {"stack"}
      BY DEF Spared
    <3>3. QED
      BY <1>1, <1>2, <3>1, <3>2, ServedSpared
  <2>6. QED
    BY <1>3, <2>1, <2>2, <2>3, <2>4, <2>5 DEF Call
<1>4. ASSUME NEW a \in Ids, next(a)
      PROVE  Served(page')
  <2>1. page.entries[a].elem \in Elements /\ NextStarts(page, page', a) /\ Served(page)
    BY <1>1, <1>4, NextStep DEF next, ServedInv
  <2>2. UserCode
    BY <1>4 DEF next, UserCode
  <2>3. QED
    BY <1>1, <1>2, <2>1, <2>2, UserNoShort, ServedNext
<1>5. CASE Library
  <2>1. Served(page)
    BY <1>5 DEF Library, ServedInv
  <2>2. CASE dequeued \/ complete \/ fnReturns
    BY <1>1, <1>2, <2>1, <2>2, ReturnStep, ServedReturns
  <2>3. CASE stopLoop
    BY <1>1, <1>2, <2>1, <2>3, StopLoopStep, ServedStopLoops
  <2>4. CASE tick
    BY <1>1, <1>2, <2>1, <2>4, TickStep, ServedTickLoops
  <2>5. QED
    BY <1>5, <2>2, <2>3, <2>4 DEF Library
<1>t. CASE throw
  <2>1. Unwinds(page, page') /\ Served(page)
    BY <1>1, <1>t, ThrowStep DEF throw, ServedInv
  <2>2. UserCode
    BY <1>t DEF throw, UserCode
  <2>3. QED
    BY <1>1, <1>2, <2>1, <2>2, UserNoShort, ServedUnwinds
<1>6. CASE resolve
  BY <1>1, <1>2, <1>6, ResolveStep, ServedResolves DEF resolve, ServedInv
<1>7. ASSUME NEW due, raf(due)
      PROVE  Served(page')
  BY <1>1, <1>2, <1>7, RafStep, ServedFrames DEF raf, ServedInv
<1>8. CASE UNCHANGED vars
  <2>1. page' = page /\ stoppedInside' = stoppedInside
    BY <1>8 DEF vars
  <2>2. Served(page)
    BY <2>1 DEF ServedInv
  <2>3. QED
    BY <2>1, <2>2
<1>9. QED
  BY <1>3, <1>4, <1>5, <1>t, <1>6, <1>7, <1>8 DEF Next

\* TimersServed: while there is a timer a frame is asked for; and unless stop is called by
\* code that tick or stop runs, no running animation loses a timer by the removals by
\* index or an exception, and none completes twice without an exception (jquery.js:
\* 8236-8252, 8505-8511).
THEOREM TimersAreServed == Spec => []TimersServed
<1>1. Init => ServedInv
  BY FxAssumption, ServedInit
<1>2. ServedInv /\ [Next]_vars => ServedInv'
  BY FxAssumption, ServedStep
<1>3. ServedInv => TimersServed
  <2> SUFFICES ASSUME ServedInv PROVE TimersServed
    OBVIOUS
  <2>1. TimersTick
    BY DEF ServedInv, SoundInv, Sound, Ticking, TimersTick
  <2>2. ASSUME ~stoppedInside
        PROVE  TimersKept
    <3>1. Timed(page)
      BY <2>2 DEF ServedInv, Served
    <3> SUFFICES ASSUME NEW a \in page.running, NEW p \in 1..Props
                 PROVE  p \in page.entries[a].done \union {page.timers[i].prop : i \in TimersOf(a)}
      BY DEF TimersKept
    <3>2. p \in page.entries[a].done \/ \E i \in DOMAIN page.timers : page.timers[i].entry = a /\ page.timers[i].prop = p
      BY <3>1 DEF Timed
    <3>3. QED
      BY <3>2 DEF TimersOf
  <2>3. ASSUME ~stoppedInside
        PROVE  CompletesOnce
    BY <2>3 DEF ServedInv, Served, Timed, CompletesOnce, Ids
  <2>4. QED
    BY <2>1, <2>2, <2>3 DEF TimersServed
<1>4. QED
  BY <1>1, <1>2, <1>3, PTL DEF Spec

-----------------------------------------------------------------------------
(***************************************************************************)
(* Turns.  An element whose turn user code never took has one entry at a   *)
(* time that holds it: an animation that runs, a delay or function still   *)
(* to call next, or one whose callback is on the stack and is to dequeue.  *)
(***************************************************************************)
free(s, a) == s.entries[a].kind = "free"
mute(s, a) == s.entries[a].kind = "empty"
queued(s, a) == ~free(s, a) /\ ~mute(s, a)
busy(s, e) == {a \in of(s, e) : a \in s.running /\ ~free(s, a)}
owing(s, e) == {a \in of(s, e) : a \in s.owed}
ends(s, f, e) == f.fn = "callback" /\ f.elem = e /\ f.entry # 0 /\ queued(s, f.entry)
runs(f, e) == f.fn = "fn" /\ f.elem = e
takes(f, e) == f.fn = "dequeued" /\ f.elem = e
code(s, e) == \E j \in DOMAIN s.stack : isCode(s.stack[j]) /\ s.stack[j].elem = e
unmarks(s, f, a) == f.fn = "callback" /\ f.entry = a /\ free(s, a)

\* Some entry of e is to take the next one from the queue.
turn(s, e) == busy(s, e) # {} \/ owing(s, e) # {} \/ \E j \in DOMAIN s.stack : ends(s, s.stack[j], e)

\* The calls of dequeue from l + 1 to j, and who called them.
Under(s, l, j) ==
    /\ l < j
    /\ \A i \in DOMAIN s.stack : l < i /\ i <= j => takes(s.stack[i], s.stack[j].elem)
    /\ l # 0 => ends(s, s.stack[l], s.stack[j].elem) \/ runs(s.stack[l], s.stack[j].elem)

\* No unqueued animation is in a queue.
Apart(s) ==
    \A e \in Elements : \A k \in DOMAIN s.queue[e] :
       s.queue[e][k] # InProgress => ~free(s, s.queue[e][k])
\* On top of a call of dequeue are only calls for the same element, up to the code
\* that the uppermost of them called.
Nested(s) ==
    \A j \in DOMAIN s.stack : s.stack[j].fn = "dequeued" =>
       \E l \in DOMAIN s.stack \union {0} : Under(s, l, j)

\* Unqueued animations that the mark of e counts.
counted(s, e) == {a \in of(s, e) : /\ free(s, a)
                                   /\ \/ a \in s.running
                                      \/ \E j \in DOMAIN s.stack : unmarks(s, s.stack[j], a)}

\* One entry at a time holds the turn of e, and the sentinel stands for it.
Turn(s, e) ==
    /\ \A a \in owing(s, e) : ~free(s, a) /\ a \notin s.running
    /\ \A a, b \in busy(s, e) \union owing(s, e) : a = b
    /\ \A i, j \in DOMAIN s.stack : ends(s, s.stack[i], e) /\ ends(s, s.stack[j], e) => i = j
    /\ (\E j \in DOMAIN s.stack : ends(s, s.stack[j], e)) => busy(s, e) = {} /\ owing(s, e) = {}
    /\ turn(s, e) /\ ~cutting(s, e) => s.queue[e] # <<>> /\ s.queue[e][1] = InProgress
    /\ \A j \in DOMAIN s.stack : runs(s.stack[j], e) => s.stack[j].entry \in owing(s, e)
    /\ \A j \in DOMAIN s.stack : takes(s.stack[j], e) =>
          ~cutting(s, e) /\ (s.stack[j].array # "shared" => s.queue[e] = <<>> /\ ~turn(s, e))
    /\ cutting(s, e) => owing(s, e) = {} /\ ~code(s, e)

\* The mark of e counts the unqueued animations that are to be unmarked.
Marked(s, e) ==
    /\ \A a \in of(s, e) : free(s, a) =>
          /\ \A i, j \in DOMAIN s.stack : unmarks(s, s.stack[i], a) /\ unmarks(s, s.stack[j], a) => i = j
          /\ \A j \in DOMAIN s.stack : unmarks(s, s.stack[j], a) => a \notin s.running
    /\ ~cutting(s, e) => Cardinality(counted(s, e)) <= s.mark[e]

\* The entries of s are those of t, as far as turns go.
Alike(s, t) ==
    \A b \in DOMAIN s.entries :
       b \in DOMAIN t.entries /\ t.entries[b].elem = s.entries[b].elem /\ t.entries[b].kind = s.entries[b].kind

\* What Starts says, as far as turns go.
Started(s, t, e, a) ==
    /\ Alike(s, t) /\ DOMAIN t.entries = DOMAIN s.entries /\ t.queue = s.queue /\ t.mark = s.mark
    /\ \/ /\ s.entries[a].kind = "delay" /\ t.running = s.running /\ t.owed = s.owed \union {a}
          /\ t.stack = s.stack
       \/ /\ s.entries[a].kind = "fn" /\ t.running = s.running /\ t.owed = s.owed \union {a}
          /\ t.stack = <<Frame("fn", e, a)>> \o s.stack
       \/ /\ s.entries[a].kind \in {"show", "instant"} /\ t.running = s.running /\ t.owed = s.owed
          /\ t.stack = <<Frame("callback", e, a)>> \o s.stack
       \/ /\ s.entries[a].kind \in Animations /\ t.running = s.running \union {a} /\ t.owed = s.owed
          /\ t.stack = s.stack

LEMMA AlikeSame ==
    ASSUME NEW s, NEW t, NEW X, Same(s, t, X), "entries" \notin X
    PROVE  Alike(s, t) /\ t.entries = s.entries
  BY DEF Alike, Same, Fields

LEMMA StartedBy ==
    ASSUME NEW s, Sound(s), NEW t, NEW e \in Elements, NEW a, Fresh(s, e, a), Starts(s, t, e, a)
    PROVE  Started(s, t, e, a)
<1>1. /\ a \in DOMAIN s.entries /\ s.entries[a] \in Entries /\ s.entries \in Seq(Entries)
  BY EntryPositive DEF Sound, Fresh, of
<1>2. CASE Delays(s, t, a)
  BY <1>2 DEF Delays, Started, Alike, Same, Fields
<1>3. CASE Calls(s, t, e, a)
  BY <1>3 DEF Calls, Started, Alike, Same, Fields
<1>4. CASE ShowsAtOnce(s, t, e, a)
  <2>1. t.entries = [s.entries EXCEPT ![a] = [s.entries[a] EXCEPT !.completed = 1]]
    BY <1>4 DEF ShowsAtOnce
  <2>2. Alike(s, t) /\ DOMAIN t.entries = DOMAIN s.entries
    BY <1>1, <2>1 DEF Alike, Entries
  <2>3. QED
    BY <1>4, <2>2 DEF ShowsAtOnce, Started, Same, Fields
<1>5. CASE Begins(s, t, e, a)
  <2> DEFINE alone == \A b \in s.running : s.entries[b].elem # e
  <2>1. t.entries = [s.entries EXCEPT ![a] = [s.entries[a] EXCEPT !.orig = s.look[e], !.alone = alone]]
    BY <1>5 DEF Begins
  <2> HIDE DEF alone
  <2>2. Alike(s, t) /\ DOMAIN t.entries = DOMAIN s.entries
    BY <1>1, <2>1 DEF Alike, Entries
  <2>3. QED
    BY <1>5, <2>2 DEF Begins, Started, Same, Fields
<1>6. QED
  BY <1>2, <1>3, <1>4, <1>5 DEF Starts

LEMMA AlikeFree ==
    ASSUME NEW s, Sound(s), NEW t, Alike(s, t)
    PROVE  /\ \A e : of(s, e) \subseteq of(t, e)
           /\ \A b \in DOMAIN s.entries : (free(t, b) <=> free(s, b)) /\ (queued(t, b) <=> queued(s, b))
           /\ \A j \in DOMAIN s.stack : \A e : ends(t, s.stack[j], e) <=> ends(s, s.stack[j], e)
<1>1. \A b \in DOMAIN s.entries : (free(t, b) <=> free(s, b)) /\ (queued(t, b) <=> queued(s, b))
  BY DEF Alike, free, mute, queued
<1>2. \A j \in DOMAIN s.stack : s.stack[j].fn = "callback" /\ s.stack[j].entry # 0 => s.stack[j].entry \in DOMAIN s.entries
  BY DEF Sound, Linked, Links, isCode, of
<1>3. \A e : of(s, e) \subseteq of(t, e)
  BY DEF Alike, of
<1>4. QED
  BY <1>1, <1>2, <1>3 DEF ends

LEMMA ApartSame ==
    ASSUME NEW s, Sound(s), Apart(s), NEW t, Alike(s, t), t.queue = s.queue
    PROVE  Apart(t)
  BY AlikeFree DEF Apart, Sound, Waits, of

LEMMA ApartEmpties ==
    ASSUME NEW s, Sound(s), Apart(s), NEW t, Sound(t), NEW e, Empties(s, t, e)
    PROVE  Apart(t)
<1>1. Alike(s, t) /\ t.queue = [s.queue EXCEPT ![e] = <<>>] /\ s.queue \in [Elements -> Seq(Nat)]
  BY AlikeSame DEF Empties, Sound, Pages
<1>2. \A d \in Elements : t.queue[d] = s.queue[d] \/ t.queue[d] = <<>>
  BY <1>1
<1>3. \A d \in Elements : \A k \in DOMAIN s.queue[d] :
         s.queue[d][k] # InProgress => ~free(t, s.queue[d][k])
  BY <1>1, AlikeFree DEF Apart, Sound, Waits, of
<1>4. QED
  BY <1>2, <1>3 DEF Apart

LEMMA ApartTakes ==
    ASSUME NEW s, Sound(s), Apart(s), NEW u, Sound(u), NEW e \in Elements, NEW a, Takes(s, u, e, a)
    PROVE  /\ Apart(u) /\ Alike(s, u) /\ (a # InProgress => ~free(u, a))
           /\ s.queue[e] # <<>> /\ u.queue[e] # <<>> /\ u.queue[e][1] = InProgress
<1>1. Alike(s, u)
  BY AlikeSame DEF Takes
<1>2. PICK n \in {0, 1} :
          /\ DOMAIN s.queue[e] = 1..(Len(u.queue[e]) + n)
          /\ DOMAIN u.queue[e] = 1..Len(u.queue[e]) /\ Len(u.queue[e]) \in Nat \ {0}
          /\ u.queue[e][1] = InProgress
          /\ \A k \in DOMAIN u.queue[e] : k # 1 => u.queue[e][k] = s.queue[e][k + n]
          /\ a = s.queue[e][1 + n]
  BY DEF Takes
<1>3. \A k \in DOMAIN u.queue[e] : k + n \in DOMAIN s.queue[e]
  BY <1>2
<1>4. 1 + n \in DOMAIN s.queue[e] /\ 1 \in DOMAIN u.queue[e]
  BY <1>2
<1>5. \A d \in Elements : \A k \in DOMAIN s.queue[d] :
         s.queue[d][k] # InProgress => ~free(u, s.queue[d][k])
  BY <1>1, AlikeFree DEF Apart, Sound, Waits, of
<1>6. Apart(u)
  <2> SUFFICES ASSUME NEW d \in Elements, NEW k \in DOMAIN u.queue[d], u.queue[d][k] # InProgress
               PROVE  ~free(u, u.queue[d][k])
    BY DEF Apart
  <2>1. CASE d # e
    BY <1>5, <2>1 DEF Takes
  <2>2. CASE d = e
    BY <1>2, <1>3, <1>5, <2>2
  <2>3. QED
    BY <2>1, <2>2
<1>7. QED
  BY <1>1, <1>2, <1>4, <1>5, <1>6

\* Frames keep their place, and calls of dequeue their element.
LEMMA NestedSame ==
    ASSUME NEW s, Sound(s), Nested(s), NEW t, Alike(s, t), DOMAIN t.stack = DOMAIN s.stack,
           \A j \in DOMAIN s.stack :
              \/ t.stack[j] = s.stack[j]
              \/ /\ s.stack[j].fn = "dequeued" /\ t.stack[j].fn = "dequeued"
                 /\ t.stack[j].elem = s.stack[j].elem
              \/ isLoop(s.stack[j]) /\ isLoop(t.stack[j])
    PROVE  Nested(t)
<1> SUFFICES ASSUME NEW j \in DOMAIN t.stack, t.stack[j].fn = "dequeued"
             PROVE  \E l \in DOMAIN t.stack \union {0} : Under(t, l, j)
  BY DEF Nested
<1>1. s.stack[j].fn = "dequeued" /\ t.stack[j].elem = s.stack[j].elem
  BY DEF isLoop
<1>2. PICK l \in DOMAIN s.stack \union {0} : Under(s, l, j)
  BY <1>1 DEF Nested
<1>3. \A i \in DOMAIN s.stack : \A d : takes(s.stack[i], d) => takes(t.stack[i], d)
  BY DEF takes, isLoop
<1>4. \A i \in DOMAIN s.stack : \A d : ends(s, s.stack[i], d) => ends(t, t.stack[i], d)
  BY AlikeFree DEF ends, isLoop
<1>5. \A i \in DOMAIN s.stack : \A d : runs(s.stack[i], d) => runs(t.stack[i], d)
  BY DEF runs, isLoop
<1>6. l # 0 => l \in DOMAIN s.stack
  BY <1>2
<1>7. Under(t, l, j)
  BY <1>1, <1>2, <1>3, <1>4, <1>5, <1>6 DEF Under
<1>8. QED
  BY <1>2, <1>7

\* The frame on top, if it is a call of dequeue, is one for e.
Ready(s, e) == s.stack = <<>> \/ s.stack[1].fn # "dequeued" \/ s.stack[1].elem = e

LEMMA NestedPush ==
    ASSUME NEW s, Sound(s), Nested(s), NEW t, Alike(s, t), NEW f \in Frames, t.stack = <<f>> \o s.stack,
           \/ s.stack = <<>> \/ s.stack[1].fn # "dequeued"
           \/ /\ s.stack[1].elem = f.elem
              /\ f.fn = "dequeued" \/ ends(t, f, f.elem) \/ runs(f, f.elem)
    PROVE  Nested(t)
<1>1. s.stack \in Seq(Frames)
  BY DEF Sound, Pages
<1>2. /\ DOMAIN t.stack = 1..(Len(s.stack) + 1) /\ DOMAIN s.stack = 1..Len(s.stack)
      /\ t.stack[1] = f /\ \A j \in DOMAIN s.stack : t.stack[j + 1] = s.stack[j]
      /\ \A j \in DOMAIN t.stack : j = 1 \/ (j - 1 \in DOMAIN s.stack /\ t.stack[j] = s.stack[j - 1])
  BY <1>1, Pushed
<1>3. Len(s.stack) \in Nat /\ 1 \in DOMAIN t.stack
  <2>1. Len(s.stack) \in Nat
    BY <1>1
  <2>2. QED
    BY <1>2, <2>1
<1> SUFFICES ASSUME NEW j \in DOMAIN t.stack, t.stack[j].fn = "dequeued"
             PROVE  \E l \in DOMAIN t.stack \union {0} : Under(t, l, j)
  BY DEF Nested
<1>4. j \in Nat /\ j >= 1
  BY <1>2
<1> DEFINE e == t.stack[j].elem
<1>5. CASE j = 1
  <2>1. \A i \in DOMAIN t.stack : 0 < i /\ i <= 1 => i = 1
    BY <1>2
  <2>2. Under(t, 0, j)
    BY <1>5, <2>1 DEF Under, takes
  <2>3. QED
    BY <2>2
<1>6. CASE j # 1
  <2>1. j - 1 \in DOMAIN s.stack /\ t.stack[j] = s.stack[j - 1] /\ j - 1 \in Nat
    BY <1>2, <1>4, <1>6
  <2>2. PICK l \in DOMAIN s.stack \union {0} : Under(s, l, j - 1)
    BY <2>1 DEF Nested
  <2>3. l \in Nat /\ l < j - 1
    BY <1>2, <2>2 DEF Under
  <2>4. ASSUME NEW i \in DOMAIN t.stack, l + 1 < i, i <= j
        PROVE  takes(t.stack[i], e)
    <3>1. i # 1 /\ l < i - 1 /\ i - 1 <= j - 1
      BY <1>2, <1>4, <2>3, <2>4
    <3>2. QED
      BY <1>2, <2>1, <2>2, <3>1 DEF Under
  <2>5. CASE l # 0
    <3>1. l \in DOMAIN s.stack /\ l + 1 \in DOMAIN t.stack /\ t.stack[l + 1] = s.stack[l] /\ l + 1 < j /\ l + 1 # 0
      BY <1>2, <1>3, <1>4, <2>3, <2>5, <2>2
    <3>2. ends(s, s.stack[l], e) \/ runs(s.stack[l], e)
      BY <2>1, <2>2, <2>5 DEF Under
    <3>3. ends(t, t.stack[l + 1], e) \/ runs(t.stack[l + 1], e)
      BY <3>1, <3>2, AlikeFree
    <3>4. Under(t, l + 1, j)
      BY <2>4, <3>1, <3>3 DEF Under
    <3>5. QED
      BY <3>1, <3>4
  <2>6. CASE l = 0
    <3>1. 1 \in DOMAIN s.stack /\ 0 < 1 /\ 1 <= j - 1 /\ s.stack # <<>>
      BY <1>1, <1>2, <2>1, <2>3, <2>6
    <3>2. takes(s.stack[1], e)
      BY <2>1, <2>2, <2>6, <3>1 DEF Under
    <3>3. f.elem = e /\ (f.fn = "dequeued" \/ ends(t, f, e) \/ runs(f, e))
      BY <3>1, <3>2 DEF takes
    <3>4. \A i \in DOMAIN t.stack : 1 < i /\ i <= j => takes(t.stack[i], e)
      BY <2>4, <2>6
    <3>5. CASE f.fn = "dequeued"
      <4>1. \A i \in DOMAIN t.stack : i = 1 \/ 1 < i
        BY <1>2
      <4>2. \A i \in DOMAIN t.stack : 0 < i /\ i <= j => takes(t.stack[i], e)
        BY <1>2, <3>3, <3>4, <3>5, <4>1 DEF takes
      <4>3. Under(t, 0, j)
        BY <1>4, <4>2 DEF Under
      <4>4. QED
        BY <4>3
    <3>6. CASE f.fn # "dequeued"
      <4>1. Under(t, 1, j)
        BY <1>2, <1>4, <1>6, <3>3, <3>4, <3>6 DEF Under
      <4>2. QED
        BY <1>3, <4>1
    <3>7. QED
      BY <3>5, <3>6
  <2>7. QED
    BY <2>5, <2>6
<1>7. QED
  BY <1>5, <1>6

LEMMA NestedPop ==
    ASSUME NEW s, Sound(s), Nested(s), s.stack # <<>>, NEW t, Alike(s, t), t.stack = Tail(s.stack)
    PROVE  /\ Nested(t)
           /\ s.stack[1].fn # "dequeued" =>
                 \/ t.stack = <<>> \/ t.stack[1].fn # "dequeued"
                 \/ isCode(s.stack[1]) /\ t.stack[1].elem = s.stack[1].elem
<1>1. s.stack \in Seq(Frames)
  BY DEF Sound, Pages
<1>2. /\ Tail(s.stack) \in Seq(Frames)
      /\ DOMAIN t.stack = 1..(Len(s.stack) - 1) /\ DOMAIN s.stack = 1..Len(s.stack)
      /\ Len(s.stack) \in Nat \ {0}
      /\ \A j \in DOMAIN t.stack : j + 1 \in DOMAIN s.stack /\ t.stack[j] = s.stack[j + 1]
  BY <1>1, TailOf
<1>3. Nested(t)
  <2> SUFFICES ASSUME NEW j \in DOMAIN t.stack, t.stack[j].fn = "dequeued"
               PROVE  \E l \in DOMAIN t.stack \union {0} : Under(t, l, j)
    BY DEF Nested
  <2> DEFINE e == t.stack[j].elem
  <2>1. PICK l \in DOMAIN s.stack \union {0} : Under(s, l, j + 1)
    BY <1>2 DEF Nested
  <2>2. l \in Nat /\ l < j + 1 /\ j \in Nat /\ j >= 1
    BY <1>2, <2>1 DEF Under
  <2>3. \A i \in DOMAIN t.stack : l < i + 1 /\ i + 1 <= j + 1 => takes(t.stack[i], e)
    BY <1>2, <2>1 DEF Under
  <2>4. CASE l \in {0, 1}
    <3>1. \A i \in DOMAIN t.stack : 0 < i /\ i <= j => takes(t.stack[i], e)
      BY <1>2, <2>2, <2>3, <2>4
    <3>2. Under(t, 0, j)
      BY <2>2, <3>1 DEF Under
    <3>3. QED
      BY <3>2
  <2>5. CASE l \notin {0, 1}
    <3>1. l - 1 \in DOMAIN t.stack /\ (l - 1) + 1 = l /\ l - 1 < j /\ l - 1 # 0 /\ l \in DOMAIN s.stack
      BY <1>2, <2>1, <2>2, <2>5
    <3>2. ASSUME NEW i \in DOMAIN t.stack, l - 1 < i, i <= j
          PROVE  takes(t.stack[i], e)
      <4>1. l < i + 1 /\ i + 1 <= j + 1
        BY <1>2, <2>2, <3>2
      <4>2. QED
        BY <2>3, <4>1
    <3>3. ends(s, s.stack[l], e) \/ runs(s.stack[l], e)
      BY <1>2, <2>1, <2>5 DEF Under
    <3>4. t.stack[l - 1] = s.stack[l]
      BY <1>2, <3>1
    <3>5. ends(t, t.stack[l - 1], e) \/ runs(t.stack[l - 1], e)
      BY <3>1, <3>3, <3>4, AlikeFree
    <3>6. Under(t, l - 1, j)
      BY <3>1, <3>2, <3>5 DEF Under
    <3>7. QED
      BY <3>1, <3>6
  <2>6. QED
    BY <2>4, <2>5
<1>4. ASSUME s.stack[1].fn # "dequeued", t.stack # <<>>, t.stack[1].fn = "dequeued"
      PROVE  isCode(s.stack[1]) /\ t.stack[1].elem = s.stack[1].elem
  <2>1. t.stack \in Seq(Frames) /\ t.stack # <<>>
    BY <1>2, <1>4
  <2>2. 1 \in DOMAIN t.stack
    BY <2>1
  <2>3. 2 \in DOMAIN s.stack /\ t.stack[1] = s.stack[2] /\ 1 \in DOMAIN s.stack
    BY <1>2, <2>2
  <2>4. PICK l \in DOMAIN s.stack \union {0} : Under(s, l, 2)
    BY <1>4, <2>3 DEF Nested
  <2>5. l = 0 \/ l = 1
    BY <1>2, <2>4 DEF Under
  <2>6. l # 0
    BY <1>4, <2>3, <2>4 DEF Under, takes
  <2>7. ends(s, s.stack[1], s.stack[2].elem) \/ runs(s.stack[1], s.stack[2].elem)
    BY <2>4, <2>5, <2>6 DEF Under
  <2>8. QED
    BY <2>3, <2>7 DEF ends, runs, isCode
<1>5. QED
  BY <1>3, <1>4

\* The queues and the calls of dequeue are in order.
Ordered(s) == Sound(s) /\ Apart(s) /\ Nested(s)

LEMMA OrderedSame ==
    ASSUME NEW s, Ordered(s), NEW t, Sound(t), Alike(s, t), t.queue = s.queue, t.stack = s.stack
    PROVE  Ordered(t)
  BY ApartSame, NestedSame DEF Ordered

LEMMA OrderedEmpties ==
    ASSUME NEW s, Ordered(s), NEW t, Sound(t), NEW e, Empties(s, t, e)
    PROVE  Ordered(t) /\ Alike(s, t)
<1>1. Alike(s, t)
  BY AlikeSame DEF Empties
<1>2. DOMAIN t.stack = DOMAIN s.stack
      /\ \A j \in DOMAIN s.stack :
            \/ t.stack[j] = s.stack[j]
            \/ /\ s.stack[j].fn = "dequeued" /\ t.stack[j].fn = "dequeued"
               /\ t.stack[j].elem = s.stack[j].elem
  BY DEF Empties
<1>3. QED
  BY <1>1, <1>2, ApartEmpties, NestedSame DEF Ordered

LEMMA OrderedStarted ==
    ASSUME NEW s, Ordered(s), NEW t, Sound(t), NEW e \in Elements, NEW a, Fresh(s, e, a),
           Started(s, t, e, a), Ready(s, e)
    PROVE  Ordered(t)
<1>1. Alike(s, t) /\ t.queue = s.queue /\ Apart(t)
  BY ApartSame DEF Started, Ordered
<1>2. a \in DOMAIN s.entries /\ a \in Nat \ {0}
  BY EntryPositive DEF Ordered, Sound, Fresh, of
<1>3. ASSUME t.stack = <<Frame("fn", e, a)>> \o s.stack
      PROVE  Nested(t)
  <2> DEFINE f == Frame("fn", e, a)
  <2>1. f \in Frames /\ f.elem = e /\ runs(f, e)
    BY <1>2 DEF Frame, Frames, Codes, runs
  <2> HIDE DEF f
  <2>2. t.stack = <<f>> \o s.stack
    BY <1>3 DEF f
  <2>3. QED
    BY <1>1, <2>1, <2>2, NestedPush DEF Ordered, Ready
<1>4. ASSUME t.stack = <<Frame("callback", e, a)>> \o s.stack, s.entries[a].kind \in {"show", "instant"}
      PROVE  Nested(t)
  <2> DEFINE f == Frame("callback", e, a)
  <2>1. f \in Frames /\ f.elem = e /\ f.fn = "callback" /\ f.entry = a
    BY <1>2 DEF Frame, Frames, Codes
  <2>2. ends(t, f, e)
    BY <1>1, <1>2, <1>4, <2>1 DEF Alike, ends, free, mute, queued
  <2> HIDE DEF f
  <2>3. t.stack = <<f>> \o s.stack
    BY <1>4 DEF f
  <2>4. QED
    BY <1>1, <2>1, <2>2, <2>3, NestedPush DEF Ordered, Ready
<1>5. Nested(t)
  <2>1. CASE t.stack = s.stack
    BY <1>1, <2>1, NestedSame DEF Ordered
  <2>2. QED
    BY <1>3, <1>4, <2>1 DEF Started
<1>6. QED
  BY <1>1, <1>5 DEF Ordered

LEMMA OrderedTakes ==
    ASSUME NEW s, Ordered(s), NEW u, Sound(u), NEW e \in Elements, NEW a, Takes(s, u, e, a), Ready(s, e)
    PROVE  Ordered(u) /\ Ready(u, e)
<1> DEFINE f == [fn |-> "dequeued", elem |-> e, array |-> "shared"]
<1>1. f \in Frames /\ f.elem = e /\ f.fn = "dequeued"
  BY DEF Frames, Dequeues
<1>2. u.stack = <<f>> \o s.stack /\ Alike(s, u) /\ Apart(u)
  BY ApartTakes DEF Takes, Ordered
<1> HIDE DEF f
<1>3. Nested(u)
  BY <1>1, <1>2, NestedPush DEF Ordered, Ready
<1>4. u.stack[1] = f
  <2>1. s.stack \in Seq(Frames)
    BY DEF Ordered, Sound, Pages
  <2>2. QED
    BY <1>1, <1>2, <2>1, Pushed
<1>5. QED
  BY <1>1, <1>2, <1>3, <1>4 DEF Ordered, Ready

LEMMA OrderedDequeued ==
    ASSUME NEW s, Ordered(s), NEW t, Sound(t), NEW e \in Elements, Dequeued(s, t, e), Ready(s, e)
    PROVE  Ordered(t)
<1>1. ASSUME NEW u, NEW a, Sound(u), Takes(s, u, e, a), Fresh(u, e, a), Starts(u, t, e, a)
      PROVE  Ordered(t)
  <2>1. Ordered(u) /\ Ready(u, e)
    BY <1>1, OrderedTakes
  <2>2. Started(u, t, e, a)
    BY <1>1, StartedBy
  <2>3. QED
    BY <1>1, <2>1, <2>2, OrderedStarted
<1>2. QED
  BY <1>1, OrderedEmpties DEF Dequeued

LEMMA AlikeAdds ==
    ASSUME NEW s, NEW u, NEW e, NEW kind, NEW a, Adds(s, u, e, kind, a)
    PROVE  Alike(s, u) /\ u.queue = s.queue /\ u.stack = s.stack
  BY DEF Adds, Alike, Same, Fields

LEMMA OrderedJoins ==
    ASSUME NEW u, Ordered(u), NEW v, Sound(v), NEW e \in Elements, NEW a, Fresh(u, e, a),
           ~free(u, a), Joins(u, v, e, a)
    PROVE  Ordered(v) /\ v.stack = u.stack
<1>1. Alike(u, v) /\ v.entries = u.entries /\ v.stack = u.stack
  <2>1. Same(u, v, {"queue"})
    BY DEF Joins
  <2>2. QED
    BY <2>1, AlikeSame DEF Same, Fields
<1>2. a \in Nat
  BY EntryPositive DEF Fresh, of, Ordered, Sound
<1>3. u.queue \in [Elements -> Seq(Nat)] /\ v.queue = [u.queue EXCEPT ![e] = Append(u.queue[e], a)]
  BY DEF Joins, Ordered, Sound, Pages
<1>4. \A k \in DOMAIN v.queue[e] : v.queue[e][k] = a \/ (k \in DOMAIN u.queue[e] /\ v.queue[e][k] = u.queue[e][k])
  <2> DEFINE q == u.queue[e]
  <2>1. q \in Seq(Nat) /\ v.queue[e] = Append(q, a)
    BY <1>3
  <2> HIDE DEF q
  <2>2. \A k \in DOMAIN Append(q, a) : Append(q, a)[k] = a \/ (k \in DOMAIN q /\ Append(q, a)[k] = q[k])
    BY <1>2, <2>1
  <2>3. QED
    BY <2>1, <2>2 DEF q
<1>5. \A d \in Elements : d # e => v.queue[d] = u.queue[d]
  BY <1>3
<1>6. Apart(v)
  <2> SUFFICES ASSUME NEW d \in Elements, NEW k \in DOMAIN v.queue[d], v.queue[d][k] # InProgress
               PROVE  ~free(v, v.queue[d][k])
    BY DEF Apart
  <2>1. \A b : free(v, b) <=> free(u, b)
    BY <1>1 DEF free
  <2>2. QED
    BY <1>4, <1>5, <2>1 DEF Apart, Ordered
<1>7. QED
  BY <1>1, <1>6, NestedSame DEF Ordered

LEMMA OrderedEnqueues ==
    ASSUME NEW s, Ordered(s), NEW t, Sound(t), NEW e \in Elements, NEW kind, Ready(s, e), Enqueues(s, t, e, kind),
           s.stack = <<>> \/ isCode(s.stack[1])
    PROVE  Ordered(t)
<1>1. PICK u, a : /\ Sound(u) /\ Adds(s, u, e, kind, a) /\ (kind # "empty" => Fresh(u, e, a))
                  /\ IF kind = "empty" THEN Pushes(u, t, Frame("callback", e, a))
                     ELSE IF kind = "free"
                     THEN \E v : /\ Sound(v) /\ Fresh(v, e, a) /\ Same(u, v, {"mark"})
                                 /\ v.mark = [u.mark EXCEPT ![e] = u.mark[e] + 1]
                                 /\ Starts(v, t, e, a)
                     ELSE \E v : /\ Sound(v) /\ Joins(u, v, e, a)
                                 /\ \/ v.queue[e][1] = InProgress /\ t = v
                                    \/ v.queue[e][1] # InProgress /\ Dequeued(v, t, e)
  BY DEF Enqueues
<1>2. Ordered(u) /\ Ready(u, e) /\ u.stack = s.stack
  <2>1. Alike(s, u) /\ u.queue = s.queue /\ u.stack = s.stack
    BY <1>1, AlikeAdds
  <2>2. QED
    BY <1>1, <2>1, OrderedSame DEF Ready
<1>e. CASE kind = "empty"
  <2> DEFINE f == Frame("callback", e, a)
  <2>1. Pushes(u, t, f)
    BY <1>1, <1>e
  <2> HIDE DEF f
  <2>2. Alike(u, t) /\ t.queue = u.queue /\ f \in Frames /\ t.stack = <<f>> \o u.stack
    BY <2>1, AlikeSame DEF Pushes, Same, Fields
  <2>3. u.stack = <<>> \/ u.stack[1].fn # "dequeued"
    BY <1>2 DEF isCode
  <2>4. Nested(t)
    BY <1>2, <2>2, <2>3, NestedPush DEF Ordered
  <2>5. QED
    BY <1>2, <2>2, <2>4, ApartSame DEF Ordered
<1>3. CASE kind = "free"
  <2>1. PICK v : Sound(v) /\ Fresh(v, e, a) /\ Same(u, v, {"mark"}) /\ Starts(v, t, e, a)
    BY <1>1, <1>3
  <2>2. Alike(u, v) /\ v.queue = u.queue /\ v.stack = u.stack
    BY <2>1, AlikeSame DEF Same, Fields
  <2>3. Ordered(v) /\ Ready(v, e)
    BY <1>2, <2>1, <2>2, OrderedSame DEF Ready
  <2>4. Started(v, t, e, a)
    BY <2>1, StartedBy
  <2>5. QED
    BY <2>1, <2>3, <2>4, OrderedStarted
<1>4. CASE kind \notin {"free", "empty"}
  <2>1. PICK v : Sound(v) /\ Joins(u, v, e, a) /\ (t = v \/ Dequeued(v, t, e))
    BY <1>1, <1>4
  <2>2. ~free(u, a) /\ Fresh(u, e, a)
    BY <1>1, <1>4 DEF Adds, free
  <2>5. Ordered(v) /\ v.stack = u.stack
    BY <1>2, <2>1, <2>2, OrderedJoins
  <2>3. Ordered(v) /\ Ready(v, e)
    BY <1>2, <2>5 DEF Ready
  <2>4. QED
    BY <2>1, <2>3, OrderedDequeued
<1>5. QED
  BY <1>e, <1>3, <1>4

LEMMA OrderedNext ==
    ASSUME NEW s, Ordered(s), NEW t, Sound(t), NEW a, s.entries[a].elem \in Elements,
           Ready(s, s.entries[a].elem), NextStarts(s, t, a)
    PROVE  Ordered(t)
<1>1. PICK u : Sound(u) /\ Same(s, u, {"owed"}) /\ Dequeued(u, t, s.entries[a].elem)
  BY DEF NextStarts
<1>2. Alike(s, u) /\ u.queue = s.queue /\ u.stack = s.stack
  BY <1>1, AlikeSame DEF Same, Fields
<1>3. QED
  BY <1>1, <1>2, OrderedSame, OrderedDequeued DEF Ready

LEMMA OrderedStops ==
    ASSUME NEW s, Ordered(s), NEW t, Sound(t), s.stack = <<>> \/ isCode(s.stack[1]),
           NEW e \in Elements, NEW clearFirst, NEW gotoEnd, StopsFor(s, t, e, clearFirst, gotoEnd)
    PROVE  Ordered(t)
<1>1. PICK u, v : StopsBy(s, u, v, t, e, clearFirst, gotoEnd)
  BY DEF StopsFor
<1> DEFINE f == StopFrame(e, gotoEnd, Len(v.timers))
<1>2. /\ Sound(u) /\ Sound(v) /\ (Empties(s, u, e) \/ u = s)
      /\ Same(u, v, {"timeouts", "mark"}) /\ Pushes(v, t, f)
  BY <1>1 DEF StopsBy
<1> HIDE DEF f
<1>3. Ordered(u)
  BY <1>2, OrderedEmpties
<1>4. u.stack = <<>> \/ u.stack[1].fn # "dequeued"
  <2>1. CASE u = s
    BY <2>1 DEF isCode
  <2>2. CASE Empties(s, u, e)
    <3>1. s.stack \in Seq(Frames) /\ u.stack \in Seq(Frames) /\ DOMAIN u.stack = DOMAIN s.stack
      BY <1>2, <2>2 DEF Empties, Ordered, Sound, Pages
    <3>2. CASE s.stack = <<>>
      BY <3>1, <3>2
    <3>3. CASE s.stack # <<>>
      <4>1. 1 \in DOMAIN s.stack /\ isCode(s.stack[1])
        BY <3>1, <3>3
      <4>2. QED
        BY <2>2, <4>1 DEF Empties, isCode
    <3>4. QED
      BY <3>2, <3>3
  <2>3. QED
    BY <1>2, <2>1, <2>2
<1>5. Alike(u, v) /\ v.queue = u.queue /\ v.stack = u.stack
  BY <1>2, AlikeSame DEF Same, Fields
<1>6. Ordered(v)
  BY <1>2, <1>3, <1>5, OrderedSame
<1>7. Alike(v, t) /\ t.queue = v.queue /\ f \in Frames /\ t.stack = <<f>> \o v.stack
  BY <1>2, AlikeSame DEF Pushes, Same, Fields
<1>8. Nested(t)
  BY <1>4, <1>5, <1>6, <1>7, NestedPush DEF Ordered
<1>9. QED
  BY <1>6, <1>7, <1>8, ApartSame DEF Ordered

\* After a frame was popped.
LEMMA OrderedPop ==
    ASSUME NEW s, Ordered(s), NEW u, Sound(u), s.stack # <<>>, NEW X, Same(s, u, X), X \subseteq Spared \ {"queue"},
           u.stack = Tail(s.stack)
    PROVE  /\ Ordered(u) /\ Alike(s, u)
           /\ isCode(s.stack[1]) => Ready(u, s.stack[1].elem)
           /\ isLoop(s.stack[1]) => \A e : Ready(u, e)
<1>1. Alike(s, u) /\ u.queue = s.queue
  BY AlikeSame DEF Same, Fields, Spared
<1>2. QED
  BY <1>1, ApartSame, NestedPop DEF Ordered, Ready, isCode, isLoop

LEMMA OrderedReturns ==
    ASSUME NEW s, Ordered(s), NEW t, Sound(t), s.stack # <<>>, Returns(s, t)
    PROVE  Ordered(t)
<1> DEFINE f == s.stack[1]
<1>1. PICK u : /\ Sound(u) /\ Pops(s, u)
               /\ \/ Empties(u, t, f.elem)
                  \/ t = u
                  \/ Same(u, t, {"timeouts", "mark"})
                  \/ f.fn = "callback" /\ Dequeued(u, t, f.elem)
  BY DEF Returns
<1>2. {"stack"} \subseteq Spared \ {"queue"}
  BY DEF Spared
<1>3. Ordered(u) /\ (isCode(f) => Ready(u, f.elem))
  BY <1>1, <1>2, OrderedPop DEF Pops
<1>4. CASE Same(u, t, {"timeouts", "mark"})
  <2>1. Alike(u, t) /\ t.queue = u.queue /\ t.stack = u.stack
    BY <1>4, AlikeSame DEF Same, Fields
  <2>2. QED
    BY <1>3, <2>1, OrderedSame
<1>5. CASE f.fn = "callback" /\ Dequeued(u, t, f.elem)
  <2>1. f \in Frames
    BY TopFrame DEF Ordered, Sound
  <2>2. f.elem \in Elements
    BY <1>5, <2>1 DEF Frames, Codes, Dequeues, Stops, Ticks
  <2>3. QED
    BY <1>3, <1>5, <2>2, OrderedDequeued DEF isCode
<1>6. QED
  BY <1>1, <1>3, <1>4, <1>5, OrderedEmpties

\* A loop that stays on top.
LEMMA OrderedRetop ==
    ASSUME NEW s, Ordered(s), s.stack # <<>>, isLoop(s.stack[1]), NEW u, Sound(u), NEW f, isLoop(f), Retops(s, u, f)
    PROVE  Ordered(u) /\ 1 \in DOMAIN u.stack /\ u.stack[1] = f
<1>1. /\ DOMAIN u.stack = DOMAIN s.stack /\ 1 \in DOMAIN u.stack /\ u.stack[1] = f
      /\ \A j \in DOMAIN s.stack : j # 1 => u.stack[j] = s.stack[j]
  BY Retopped DEF Ordered
<1>2. Alike(s, u) /\ u.queue = s.queue
  BY AlikeSame DEF Retops, Same, Fields
<1>3. QED
  BY <1>1, <1>2, NestedSame, ApartSame DEF Ordered

LEMMA OrderedRings ==
    ASSUME NEW s, Ordered(s), NEW t, Sound(t), s.stack # <<>>, isLoop(s.stack[1]), NEW f, isLoop(f), NEW i,
           Rings(s, t, f, i)
    PROVE  Ordered(t) /\ Alike(s, t)
<1> DEFINE m == s.timers[i]
<1>1. PICK u : i \in DOMAIN s.timers /\ Sound(u) /\ Retops(s, u, f) /\ (Steps(u, t, m) \/ Ends(u, t, m))
  BY DEF Rings
<1>2. Ordered(u) /\ 1 \in DOMAIN u.stack /\ u.stack[1] = f /\ u.timers = s.timers /\ u.entries = s.entries
      /\ Alike(s, u)
  BY <1>1, OrderedRetop, AlikeSame DEF Retops, Same, Fields
<1>3. m \in Timers /\ m.entry \in DOMAIN u.entries /\ u.entries[m.entry] \in Entries /\ u.entries \in Seq(Entries)
      /\ m.entry \in Nat
  <2>1. s.timers \in Seq(Timers)
    BY DEF Ordered, Sound, Pages
  <2>2. m \in Timers /\ m.entry \in DOMAIN u.entries
    BY <1>1, <1>2, <2>1 DEF Ordered, Sound, Linked, of
  <2>3. QED
    BY <1>1, <2>2, EntryPositive DEF Sound
<1> DEFINE a == m.entry
           done == u.entries[a].done \union {m.prop}
           c == u.entries[a].completed + 1
<1>4. CASE Steps(u, t, m)
  <2>1. t.entries = [u.entries EXCEPT ![a] = [u.entries[a] EXCEPT !.done = done]]
        /\ t.queue = u.queue /\ t.stack = u.stack
    BY <1>4 DEF Steps, Same, Fields
  <2> HIDE DEF done
  <2>2. Alike(u, t)
    BY <1>3, <2>1 DEF Alike, Entries
  <2>3. QED
    BY <1>2, <2>1, <2>2, OrderedSame DEF Alike
<1>5. CASE Ends(u, t, m)
  <2>1. t.entries = [u.entries EXCEPT ![a] = [u.entries[a] EXCEPT !.done = done, !.completed = c]]
        /\ t.queue = u.queue /\ t.stack = <<Frame("callback", m.elem, a)>> \o u.stack
    BY <1>5 DEF Ends, Same, Fields
  <2> HIDE DEF done, c
  <2>2. Alike(u, t)
    BY <1>3, <2>1 DEF Alike, Entries
  <2>3. Frame("callback", m.elem, a) \in Frames
    BY <1>3 DEF Timers, Frame, Frames, Codes
  <2>4. Nested(t)
    BY <1>2, <2>1, <2>2, <2>3, NestedPush DEF Ordered, isLoop
  <2>5. QED
    BY <1>2, <2>1, <2>2, <2>4, ApartSame DEF Ordered, Alike
<1>6. QED
  BY <1>1, <1>4, <1>5

LEMMA OrderedRemoves ==
    ASSUME NEW s, Ordered(s), NEW t, Sound(t), s.stack # <<>>, isLoop(s.stack[1]), NEW f, isLoop(f), NEW i,
           Removes(s, t, f, i)
    PROVE  Ordered(t)
<1>1. PICK u : Sound(u) /\ Retops(s, u, f) /\ (t = u \/ Same(u, t, {"timers"}))
  BY DEF Removes
<1>2. Ordered(u)
  BY <1>1, OrderedRetop
<1>3. CASE Same(u, t, {"timers"})
  <2>1. Alike(u, t) /\ t.queue = u.queue /\ t.stack = u.stack
    BY <1>3, AlikeSame DEF Same, Fields
  <2>2. QED
    BY <1>2, <2>1, OrderedSame
<1>4. QED
  BY <1>1, <1>2, <1>3

LEMMA OrderedCuts ==
    ASSUME NEW s, Ordered(s), NEW t, Sound(t), s.stack # <<>>, isLoop(s.stack[1]), NEW f, isLoop(f), NEW i,
           Cuts(s, t, f, i)
    PROVE  Ordered(t)
<1>1. PICK u, v : Sound(u) /\ Retops(s, u, f) /\ Same(u, v, {"running", "cut"}) /\ Same(v, t, {"timers"})
  BY DEF Cuts
<1>2. Ordered(u)
  BY <1>1, OrderedRetop
<1>3. t.entries = u.entries /\ t.queue = u.queue /\ t.stack = u.stack
  BY <1>1 DEF Same, Fields
<1>4. Alike(u, t)
  BY <1>3 DEF Alike
<1>5. QED
  BY <1>2, <1>3, <1>4, OrderedSame

LEMMA OrderedUnwinds ==
    ASSUME NEW s, Ordered(s), NEW t, Sound(t), Unwinds(s, t)
    PROVE  Ordered(t) /\ Alike(s, t) /\ DOMAIN t.entries = DOMAIN s.entries
<1>1. /\ t.queue = s.queue /\ t.stack = <<>> /\ DOMAIN t.entries = DOMAIN s.entries
  BY DEF Unwinds, Same, Fields
<1>2. s.entries \in Seq(Entries)
  BY DEF Ordered, Sound, Pages
<1>3. ASSUME NEW a \in DOMAIN s.entries
      PROVE  t.entries[a].elem = s.entries[a].elem /\ t.entries[a].kind = s.entries[a].kind
  <2>1. s.entries[a] \in Entries
    BY <1>2
  <2>2. CASE again(s, a)
    <3>1. t.entries[a] = [s.entries[a] EXCEPT !.done = @ \ open(s, a), !.completed = 0]
      BY <2>2 DEF Unwinds
    <3>2. QED
      BY <2>1, <3>1 DEF Entries
  <2>3. CASE ~again(s, a)
    BY <2>3 DEF Unwinds
  <2>4. QED
    BY <2>2, <2>3
<1>4. Alike(s, t)
  BY <1>1, <1>3 DEF Alike
<1>5. Nested(t)
  BY <1>1 DEF Nested
<1>6. QED
  BY <1>1, <1>4, <1>5, ApartSame DEF Ordered

LEMMA UserTop ==
    ASSUME Sound(page), UserCode
    PROVE  (page.stack = <<>> \/ isCode(page.stack[1])) /\ \A e : Ready(page, e)
  BY TopFrame DEF Sound, UserCode, At, Top, isCode, Ready

LEMMA OrderedStep ==
    ASSUME FxAssumption, SoundInv, Ordered(page), [Next]_vars
    PROVE  Ordered(page')
<1>1. Sound(page) /\ Sound(page') /\ calls \in Nat
  BY SoundNext DEF SoundInv
<1>2. CASE Call
  <2>1. (page.stack = <<>> \/ isCode(page.stack[1])) /\ \A e : Ready(page, e)
    BY <1>1, <1>2, UserTop DEF Call
  <2>2. ASSUME NEW e \in Elements, NEW kind \in Kinds, enqueue(e, kind)
        PROVE  Ordered(page')
    BY <1>1, <2>1, <2>2, EnqueueStep, OrderedEnqueues
  <2>3. ASSUME NEW e \in Elements, NEW clearFirst \in BOOLEAN, NEW gotoEnd \in BOOLEAN,
               stop(e, clearFirst, gotoEnd)
        PROVE  Ordered(page')
    BY <1>1, <2>1, <2>3, StopStep, OrderedStops
  <2>4. ASSUME NEW e \in Elements, clearQueue(e)
        PROVE  Ordered(page')
    BY <1>1, <2>4, ClearStep, OrderedEmpties
  <2>5. ASSUME NEW e \in Elements, promise(e)
        PROVE  Ordered(page')
    <3>1. Same(page, page', {"defer", "pending"})
      BY <1>1, <2>5, PromiseStep
    <3>2. Alike(page, page') /\ page'.queue = page.queue /\ page'.stack = page.stack
      BY <3>1, AlikeSame DEF Same, Fields
    <3>3. QED
      BY <1>1, <3>2, OrderedSame
  <2>d. ASSUME NEW e \in Elements, toggleAtOnce(e)
        PROVE  Ordered(page')
    <3>1. Same(page, page', {"look"})
      BY <1>1, <2>d, DisplayStep DEF Displays
    <3>2. Alike(page, page') /\ page'.queue = page.queue /\ page'.stack = page.stack
      BY <3>1, AlikeSame DEF Same, Fields
    <3>3. QED
      BY <1>1, <3>2, OrderedSame
  <2>6. QED
    BY <1>2, <2>2, <2>3, <2>4, <2>5, <2>d DEF Call
<1>3. ASSUME NEW a \in Ids, next(a)
      PROVE  Ordered(page')
  <2>1. page.entries[a].elem \in Elements /\ NextStarts(page, page', a)
    BY <1>1, <1>3, NextStep
  <2>2. UserCode
    BY <1>3 DEF next, UserCode
  <2>3. QED
    BY <1>1, <2>1, <2>2, UserTop, OrderedNext
<1>4. CASE Library
  <2>1. CASE dequeued \/ complete \/ fnReturns
    BY <1>1, <2>1, ReturnStep, OrderedReturns
  <2>2. CASE stopLoop
    <3> DEFINE f == page.stack[1]
               g == [f EXCEPT !.i = f.i - 1]
               h == [f EXCEPT !.ended = FALSE, !.i = f.i - 1]
               k == [f EXCEPT !.ended = TRUE]
    <3>1. page.stack # <<>> /\ f \in Stops /\ StopLoops(page, page')
      BY <1>1, <2>2, StopLoopStep
    <3>2. isLoop(f) /\ isLoop(g) /\ isLoop(h) /\ isLoop(k) /\ f.elem \in Elements
      BY <3>1 DEF Stops, isLoop
    <3>3. \/ Removes(page, page', h, f.i)
          \/ \E u : /\ Sound(u) /\ Pops(page, u)
                    /\ page' = u \/ Dequeued(u, page', f.elem)
          \/ Unwinds(page, page')
          \/ Retops(page, page', g)
          \/ Rings(page, page', k, f.i)
          \/ Cuts(page, page', g, f.i)
      BY <3>1 DEF StopLoops
    <3> HIDE DEF g, h, k
    <3>4. ASSUME NEW u, Sound(u), Pops(page, u), page' = u \/ Dequeued(u, page', f.elem)
          PROVE  Ordered(page')
      <4>1. {"stack"} \subseteq Spared \ {"queue"}
        BY DEF Spared
      <4>2. Ordered(u) /\ Ready(u, f.elem)
        BY <3>1, <3>2, <3>4, <4>1, OrderedPop DEF Pops
      <4>3. QED
        BY <1>1, <3>2, <3>4, <4>2, OrderedDequeued
    <3>5. QED
      BY <1>1, <3>1, <3>2, <3>3, <3>4, OrderedRemoves, OrderedUnwinds, OrderedRetop, OrderedRings, OrderedCuts
  <2>3. CASE tick
    <3> DEFINE f == page.stack[1]
               g == [f EXCEPT !.i = f.i + 1]
               h == [f EXCEPT !.ended = FALSE]
               k == [f EXCEPT !.ended = TRUE]
    <3>1. page.stack # <<>> /\ f \in Ticks /\ TickLoops(page, page')
      BY <1>1, <2>3, TickStep
    <3>2. isLoop(f) /\ isLoop(g) /\ isLoop(h) /\ isLoop(k)
      BY <3>1 DEF Ticks, isLoop
    <3>3. \/ Removes(page, page', h, f.i)
          \/ Same(page, page', {"stack", "timerId"}) /\ page'.stack = Tail(page.stack)
          \/ Retops(page, page', g)
          \/ Rings(page, page', k, f.i)
      BY <3>1 DEF TickLoops
    <3> HIDE DEF g, h, k
    <3>4. {"stack", "timerId"} \subseteq Spared \ {"queue"}
      BY DEF Spared
    <3>5. QED
      BY <1>1, <3>1, <3>2, <3>3, <3>4, OrderedRemoves, OrderedPop, OrderedRetop, OrderedRings
  <2>4. QED
    BY <1>4, <2>1, <2>2, <2>3 DEF Library
<1>t. CASE throw
  BY <1>1, <1>t, ThrowStep, OrderedUnwinds
<1>5. CASE resolve
  <2>1. Resolves(page, page')
    BY <1>1, <1>5, ResolveStep
  <2>2. Alike(page, page') /\ page'.queue = page.queue
    <3>1. page'.entries = page.entries /\ page'.queue = page.queue
      BY <2>1 DEF Resolves, Same, Fields
    <3>2. QED
      BY <3>1 DEF Alike
  <2>3. \A j \in DOMAIN page'.stack : page'.stack[j].fn # "dequeued"
    <3>1. page'.stack = <<>> \/ \E p : page'.stack = <<Frame("callback", p.elem, 0)>>
      BY <2>1 DEF Resolves, Same, Fields
    <3>2. CASE page'.stack = <<>>
      BY <3>2
    <3>3. ASSUME NEW p, page'.stack = <<Frame("callback", p.elem, 0)>>
          PROVE  \A j \in DOMAIN page'.stack : page'.stack[j].fn # "dequeued"
      <4>1. DOMAIN page'.stack = {1} /\ page'.stack[1] = Frame("callback", p.elem, 0)
        BY <3>3
      <4>2. QED
        BY <4>1 DEF Frame
    <3>4. QED
      BY <3>1, <3>2, <3>3
  <2>4. Nested(page')
    BY <2>3 DEF Nested
  <2>5. QED
    BY <1>1, <2>2, <2>4, ApartSame DEF Ordered
<1>6. ASSUME NEW due, raf(due)
      PROVE  Ordered(page')
  <2>1. Framed(page, page')
    BY <1>1, <1>6, RafStep
  <2>2. page'.entries = page.entries /\ page'.queue = page.queue
    BY <2>1 DEF Framed, Same, Fields
  <2>3. Alike(page, page')
    BY <2>2 DEF Alike
  <2>4. \A j \in DOMAIN page'.stack : page'.stack[j].fn # "dequeued"
    <3>1. page'.stack = <<>> \/ \E f \in Ticks : page'.stack = <<f>>
      BY <2>1 DEF Framed, Same, Fields
    <3>2. CASE page'.stack = <<>>
      BY <3>2
    <3>3. ASSUME NEW f \in Ticks, page'.stack = <<f>>
          PROVE  \A j \in DOMAIN page'.stack : page'.stack[j].fn # "dequeued"
      <4>1. DOMAIN page'.stack = {1} /\ page'.stack[1] = f
        BY <3>3
      <4>2. QED
        BY <4>1 DEF Ticks
    <3>4. QED
      BY <3>1, <3>2, <3>3
  <2>5. Nested(page')
    BY <2>4 DEF Nested
  <2>6. QED
    BY <1>1, <2>2, <2>3, <2>5, ApartSame DEF Ordered
<1>7. CASE UNCHANGED vars
  <2>1. page' = page
    BY <1>7 DEF vars
  <2>2. QED
    BY <2>1
<1>8. QED
  BY <1>2, <1>3, <1>4, <1>t, <1>5, <1>6, <1>7 DEF Next

\* Frames that Turn and Marked look at, and short stops of e.
speaks(s, f, e) == (isCode(f) /\ f.elem = e /\ ~(f.fn = "callback" /\ (f.entry = 0 \/ mute(s, f.entry)))) \/ takes(f, e)
cuts(f, e) == isShort(f) /\ f.elem = e

\* e gets nothing to do.
Quiet(s, t, e) ==
    /\ \A a \in of(t, e) : a \in t.running => a \in of(s, e) /\ a \in s.running
    /\ \A a \in owing(t, e) : a \in owing(s, e)
    /\ (\A a \in owing(s, e) : a \in owing(t, e)) \/ ~code(t, e)
    /\ t.queue[e] = s.queue[e] /\ t.mark[e] = s.mark[e]

LEMMA CountedFinite ==
    ASSUME NEW s, Sound(s), NEW e
    PROVE  IsFiniteSet(counted(s, e)) /\ Cardinality(counted(s, e)) \in Nat
<1>1. s.entries \in Seq(Entries)
  BY DEF Sound, Pages
<1>2. Len(s.entries) \in Nat /\ DOMAIN s.entries = 1..Len(s.entries)
  BY <1>1
<1>3. IsFiniteSet(DOMAIN s.entries)
  BY <1>2, FS_Interval
<1>4. counted(s, e) \subseteq DOMAIN s.entries
  BY DEF counted, of
<1>5. QED
  BY <1>3, <1>4, FS_Subset, FS_CardinalityType

\* What waits, runs and speaks in t for e did so in s, n places above.
LEMMA TurnKept ==
    ASSUME NEW s, Sound(s), NEW t, Sound(t), NEW e \in Elements, Turn(s, e), Marked(s, e),
           Alike(s, t), Quiet(s, t, e), cutting(t, e) <=> cutting(s, e), cutting(t, e) /\ code(t, e) => code(s, e),
           NEW n \in {-1, 0, 1},
           \A j \in DOMAIN t.stack : speaks(t, t.stack[j], e) => j - n \in DOMAIN s.stack /\ s.stack[j - n] = t.stack[j]
    PROVE  Turn(t, e) /\ Marked(t, e) /\ (turn(t, e) => turn(s, e))
<1>1. \A a \in of(s, e) : a \in DOMAIN s.entries /\ a \in of(t, e) /\ (free(t, a) <=> free(s, a))
  BY AlikeFree DEF of
<1>2. \A a \in busy(t, e) : a \in busy(s, e)
  BY <1>1 DEF Quiet, busy
<1>3. \A j \in DOMAIN t.stack : j \in Nat
  <2>1. t.stack \in Seq(Frames)
    BY DEF Sound, Pages
  <2>2. QED
    BY <2>1
<1>4. ASSUME NEW j \in DOMAIN t.stack, ends(t, t.stack[j], e)
      PROVE  j - n \in DOMAIN s.stack /\ ends(s, s.stack[j - n], e)
  <2>1. speaks(t, t.stack[j], e)
    BY <1>4 DEF ends, speaks, isCode, queued
  <2>2. QED
    BY <1>4, <2>1, AlikeFree
<1>5. turn(t, e) => turn(s, e)
  BY <1>2, <1>4 DEF turn, Quiet
<1>6. \A a \in owing(t, e) : ~free(t, a) /\ a \notin t.running
  BY <1>1 DEF Turn, Quiet, owing
<1>7. \A a, b \in busy(t, e) \union owing(t, e) : a = b
  BY <1>2 DEF Turn, Quiet
<1>8. ASSUME NEW i \in DOMAIN t.stack, NEW j \in DOMAIN t.stack, ends(t, t.stack[i], e), ends(t, t.stack[j], e)
      PROVE  i = j
  <2>1. i - n = j - n
    BY <1>4, <1>8 DEF Turn
  <2>2. QED
    BY <1>3, <2>1
<1>9. (\E j \in DOMAIN t.stack : ends(t, t.stack[j], e)) => busy(t, e) = {} /\ owing(t, e) = {}
  BY <1>2, <1>4 DEF Turn, Quiet
<1>10. turn(t, e) /\ ~cutting(t, e) => t.queue[e] # <<>> /\ t.queue[e][1] = InProgress
  BY <1>5 DEF Turn, Quiet
<1>11. ASSUME NEW j \in DOMAIN t.stack, runs(t.stack[j], e)
       PROVE  t.stack[j].entry \in owing(t, e)
  <2>1. speaks(t, t.stack[j], e) /\ code(t, e)
    BY <1>11 DEF runs, speaks, isCode, code
  <2>2. QED
    BY <1>11, <2>1 DEF Turn, Quiet
<1>12. ASSUME NEW j \in DOMAIN t.stack, takes(t.stack[j], e)
       PROVE  ~cutting(t, e) /\ (t.stack[j].array # "shared" => t.queue[e] = <<>> /\ ~turn(t, e))
  <2>1. speaks(t, t.stack[j], e)
    BY <1>12 DEF speaks
  <2>2. QED
    BY <1>5, <1>12, <2>1 DEF Turn, Quiet
<1>13. cutting(t, e) => owing(t, e) = {} /\ ~code(t, e)
  BY DEF Turn, Quiet
<1>14. Turn(t, e)
  BY <1>6, <1>7, <1>8, <1>9, <1>10, <1>11, <1>12, <1>13 DEF Turn
<1>15. ASSUME NEW a \in of(t, e), free(t, a), NEW j \in DOMAIN t.stack, unmarks(t, t.stack[j], a)
       PROVE  a \in of(s, e) /\ free(s, a) /\ j - n \in DOMAIN s.stack /\ unmarks(s, s.stack[j - n], a)
  <2>1. a # 0 /\ Links(t, t.stack[j])
    BY <1>15, EntryPositive DEF Sound, Linked, of
  <2>2. t.stack[j].elem = e /\ t.stack[j].fn = "callback" /\ t.stack[j].entry = a
    BY <1>15, <2>1 DEF Links, unmarks, of, isCode
  <2>3. j - n \in DOMAIN s.stack /\ s.stack[j - n] = t.stack[j]
    BY <1>15, <2>1, <2>2 DEF speaks, isCode, free, mute
  <2>4. a \in of(s, e)
    BY <2>1, <2>2, <2>3 DEF Sound, Linked, Links, isCode
  <2>5. QED
    BY <1>1, <1>15, <2>3, <2>4 DEF unmarks
<1>16. ASSUME NEW a \in of(t, e), free(t, a)
       PROVE  /\ \A i, j \in DOMAIN t.stack : unmarks(t, t.stack[i], a) /\ unmarks(t, t.stack[j], a) => i = j
              /\ \A j \in DOMAIN t.stack : unmarks(t, t.stack[j], a) => a \notin t.running
  <2>1. ASSUME NEW i \in DOMAIN t.stack, NEW j \in DOMAIN t.stack, unmarks(t, t.stack[i], a), unmarks(t, t.stack[j], a)
        PROVE  i = j
    <3>1. i - n = j - n
      BY <1>15, <1>16, <2>1 DEF Marked
    <3>2. QED
      BY <1>3, <3>1
  <2>2. ASSUME NEW j \in DOMAIN t.stack, unmarks(t, t.stack[j], a)
        PROVE  a \notin t.running
    BY <1>15, <1>16, <2>2 DEF Marked, Quiet
  <2>3. QED
    BY <2>1, <2>2
<1>17. \A a \in counted(t, e) : a \in counted(s, e)
  BY <1>1, <1>15 DEF counted, Quiet
<1>18. ~cutting(t, e) => Cardinality(counted(t, e)) <= t.mark[e]
  <2>1. counted(t, e) \subseteq counted(s, e)
    BY <1>17
  <2>2. Cardinality(counted(t, e)) <= Cardinality(counted(s, e))
    BY <2>1, CountedFinite, FS_Subset
  <2>3. s.mark[e] \in Nat
    BY DEF Sound, Pages
  <2>4. QED
    BY <2>2, <2>3, CountedFinite DEF Marked, Quiet
<1>19. QED
  BY <1>5, <1>14, <1>16, <1>18 DEF Marked

LEMMA TurnPush ==
    ASSUME NEW s, Sound(s), NEW t, Sound(t), NEW e \in Elements, Turn(s, e), Marked(s, e), Alike(s, t), Quiet(s, t, e),
           NEW f \in Frames, t.stack = <<f>> \o s.stack, ~speaks(t, f, e), ~cuts(f, e),
           isCode(f) /\ f.elem = e => ~cutting(s, e)
    PROVE  Turn(t, e) /\ Marked(t, e) /\ (turn(t, e) => turn(s, e)) /\ (cutting(t, e) <=> cutting(s, e))
<1>1. s.stack \in Seq(Frames)
  BY DEF Sound, Pages
<1>2. /\ DOMAIN t.stack = 1..(Len(s.stack) + 1) /\ DOMAIN s.stack = 1..Len(s.stack)
      /\ t.stack[1] = f /\ \A j \in DOMAIN s.stack : t.stack[j + 1] = s.stack[j]
      /\ \A j \in DOMAIN t.stack : j = 1 \/ (j - 1 \in DOMAIN s.stack /\ t.stack[j] = s.stack[j - 1])
  BY <1>1, Pushed
<1>3. \A j \in DOMAIN s.stack : j + 1 \in DOMAIN t.stack
  <2>1. Len(s.stack) \in Nat
    BY <1>1
  <2>2. QED
    BY <1>2, <2>1
<1>4. cutting(t, e) <=> cutting(s, e)
  BY <1>2, <1>3 DEF cutting, cuts
<1>5. cutting(t, e) /\ code(t, e) => code(s, e)
  BY <1>2, <1>4 DEF code
<1>6. \A j \in DOMAIN t.stack : speaks(t, t.stack[j], e) => j - 1 \in DOMAIN s.stack /\ s.stack[j - 1] = t.stack[j]
  BY <1>2
<1>7. QED
  BY <1>4, <1>5, <1>6, TurnKept

LEMMA TurnPop ==
    ASSUME NEW s, Sound(s), NEW t, Sound(t), NEW e \in Elements, Turn(s, e), Marked(s, e), Alike(s, t), Quiet(s, t, e),
           s.stack # <<>>, t.stack = Tail(s.stack), ~cuts(s.stack[1], e)
    PROVE  Turn(t, e) /\ Marked(t, e) /\ (turn(t, e) => turn(s, e)) /\ (cutting(t, e) <=> cutting(s, e))
<1>1. s.stack \in Seq(Frames)
  BY DEF Sound, Pages
<1>2. /\ DOMAIN t.stack = 1..(Len(s.stack) - 1) /\ DOMAIN s.stack = 1..Len(s.stack)
      /\ Len(s.stack) \in Nat \ {0}
      /\ \A j \in DOMAIN t.stack : j + 1 \in DOMAIN s.stack /\ t.stack[j] = s.stack[j + 1]
  BY <1>1, TailOf
<1>3. \A j \in DOMAIN s.stack : j = 1 \/ (j - 1 \in DOMAIN t.stack /\ t.stack[j - 1] = s.stack[j])
  <2> SUFFICES ASSUME NEW j \in DOMAIN s.stack, j # 1
               PROVE  j - 1 \in DOMAIN t.stack /\ t.stack[j - 1] = s.stack[j]
    OBVIOUS
  <2>1. j - 1 \in DOMAIN t.stack /\ (j - 1) + 1 = j
    BY <1>2
  <2>2. QED
    BY <1>2, <2>1
<1>4. cutting(t, e) <=> cutting(s, e)
  BY <1>2, <1>3 DEF cutting, cuts
<1>5. code(t, e) => code(s, e)
  BY <1>2 DEF code
<1>6. \A j \in DOMAIN t.stack : j - (-1) = j + 1
  BY <1>2
<1>7. \A j \in DOMAIN t.stack : speaks(t, t.stack[j], e) => j - (-1) \in DOMAIN s.stack /\ s.stack[j - (-1)] = t.stack[j]
  BY <1>2, <1>6
<1>8. QED
  BY <1>4, <1>5, <1>7, TurnKept

LEMMA TurnSame ==
    ASSUME NEW s, Sound(s), NEW t, Sound(t), NEW e \in Elements, Turn(s, e), Marked(s, e), Alike(s, t), Quiet(s, t, e),
           DOMAIN t.stack = DOMAIN s.stack,
           \A j \in DOMAIN s.stack :
              \/ t.stack[j] = s.stack[j]
              \/ /\ ~speaks(t, t.stack[j], e) /\ ~isCode(t.stack[j])
                 /\ cuts(t.stack[j], e) <=> cuts(s.stack[j], e)
    PROVE  Turn(t, e) /\ Marked(t, e) /\ (turn(t, e) => turn(s, e)) /\ (cutting(t, e) <=> cutting(s, e))
<1>1. \A j \in DOMAIN t.stack : j - 0 = j
  BY DEF Sound, Pages
<1>2. cutting(t, e) <=> cutting(s, e)
  BY DEF cutting, cuts
<1>3. code(t, e) => code(s, e)
  BY DEF code
<1>4. \A j \in DOMAIN t.stack : speaks(t, t.stack[j], e) => j - 0 \in DOMAIN s.stack /\ s.stack[j - 0] = t.stack[j]
  BY <1>1
<1>5. QED
  BY <1>2, <1>3, <1>4, TurnKept

\* The third part of the invariant, for one element.
Turns(s, e) == Turn(s, e) /\ Marked(s, e)

LEMMA QuietSame ==
    ASSUME NEW s, NEW t, NEW e, NEW X, Same(s, t, X), X \subseteq Spared \ {"queue", "mark", "owed"}
    PROVE  Alike(s, t) /\ Quiet(s, t, e)
<1>1. /\ t.entries = s.entries /\ t.running = s.running /\ t.owed = s.owed /\ t.queue = s.queue /\ t.mark = s.mark
  BY DEF Same, Fields, Spared
<1>2. Alike(s, t)
  BY <1>1 DEF Alike
<1>3. QED
  BY <1>1, <1>2 DEF Quiet, of, owing

LEMMA TurnsSpared ==
    ASSUME NEW s, Sound(s), NEW t, Sound(t), NEW e \in Elements, Turns(s, e),
           NEW X, Same(s, t, X), X \subseteq Spared \ {"queue", "mark", "owed", "stack"}
    PROVE  Turns(t, e) /\ (turn(t, e) => turn(s, e)) /\ (cutting(t, e) <=> cutting(s, e))
<1>1. Alike(s, t) /\ Quiet(s, t, e)
  BY QuietSame
<1>2. t.stack = s.stack
  BY DEF Same, Fields, Spared
<1>3. QED
  BY <1>1, <1>2, TurnSame DEF Turns

LEMMA TurnsEmpties ==
    ASSUME NEW s, Sound(s), NEW t, Sound(t), NEW e \in Elements, NEW d \in Elements, Turns(s, e),
           Empties(s, t, d), d = e => ~turn(s, e)
    PROVE  Turns(t, e) /\ (turn(t, e) => turn(s, e)) /\ (cutting(t, e) <=> cutting(s, e))
<1>1. /\ t.entries = s.entries /\ t.running = s.running /\ t.owed = s.owed /\ t.mark = s.mark
      /\ t.queue = [s.queue EXCEPT ![d] = <<>>] /\ s.queue \in [Elements -> Seq(Nat)]
      /\ DOMAIN t.stack = DOMAIN s.stack
  BY DEF Empties, Same, Fields, Sound, Pages
<1>2. \A j \in DOMAIN s.stack :
         \/ t.stack[j] = s.stack[j]
         \/ /\ s.stack[j].fn = "dequeued" /\ s.stack[j].elem = d
            /\ t.stack[j].fn = "dequeued" /\ t.stack[j].elem = d
  BY DEF Empties
<1>3. Alike(s, t)
  BY <1>1 DEF Alike
<1>4. CASE d # e
  <2>1. t.queue[e] = s.queue[e]
    BY <1>1, <1>4
  <2>2. Quiet(s, t, e)
    BY <1>1, <2>1 DEF Quiet, of, owing
  <2>3. \A j \in DOMAIN s.stack :
           \/ t.stack[j] = s.stack[j]
           \/ /\ ~speaks(t, t.stack[j], e) /\ ~isCode(t.stack[j])
              /\ cuts(t.stack[j], e) <=> cuts(s.stack[j], e)
    BY <1>2, <1>4 DEF speaks, takes, isCode, cuts, isShort
  <2>4. QED
    BY <1>1, <1>3, <2>2, <2>3, TurnSame DEF Turns
<1>5. CASE d = e
  <2>1. \A x : of(t, x) = of(s, x)
    BY <1>1 DEF of
  <2>2. \A a : free(t, a) <=> free(s, a)
    BY <1>1 DEF free
  <2>3. busy(t, e) = busy(s, e) /\ owing(t, e) = owing(s, e)
    BY <1>1, <2>1, <2>2 DEF busy, owing
  <2>4. \A j \in DOMAIN s.stack :
           /\ ends(t, t.stack[j], e) <=> ends(s, s.stack[j], e)
           /\ runs(t.stack[j], e) => t.stack[j] = s.stack[j]
           /\ isCode(t.stack[j]) => t.stack[j] = s.stack[j]
           /\ takes(t.stack[j], e) => takes(s.stack[j], e)
           /\ cuts(t.stack[j], e) <=> cuts(s.stack[j], e)
           /\ \A a : unmarks(t, t.stack[j], a) <=> unmarks(s, s.stack[j], a)
    <3>1. \A a : queued(t, a) <=> queued(s, a)
      BY <1>1 DEF queued, mute, free
    <3>2. QED
      BY <1>2, <1>5, <2>2, <3>1 DEF ends, runs, isCode, takes, cuts, isShort, unmarks
  <2>5. cutting(t, e) <=> cutting(s, e)
    BY <1>1, <2>4 DEF cutting, cuts
  <2>6. turn(t, e) <=> turn(s, e)
    BY <1>1, <2>3, <2>4 DEF turn
  <2>7. code(t, e) => code(s, e)
    BY <1>1, <2>4 DEF code
  <2>8. t.queue[e] = <<>>
    BY <1>1, <1>5
  <2>9. Turn(t, e)
    BY <1>1, <1>5, <2>2, <2>3, <2>4, <2>5, <2>6, <2>7, <2>8 DEF Turns, Turn
  <2>10. \A a : a \in counted(t, e) => a \in counted(s, e)
    <3>1. \A a : (\E j \in DOMAIN t.stack : unmarks(t, t.stack[j], a)) => \E j \in DOMAIN s.stack : unmarks(s, s.stack[j], a)
      BY <1>1, <2>4
    <3>2. of(t, e) = of(s, e)
      BY <2>1
    <3> HIDE DEF of
    <3>3. QED
      BY <1>1, <2>2, <3>1, <3>2 DEF counted
  <2>13. Cardinality(counted(t, e)) <= Cardinality(counted(s, e))
    BY <2>10, CountedFinite, FS_Subset
  <2>14. s.mark[e] \in Nat /\ t.mark[e] = s.mark[e]
    BY <1>1 DEF Sound, Pages
  <2>15. ~cutting(t, e) => Cardinality(counted(t, e)) <= t.mark[e]
    BY <2>5, <2>13, <2>14, CountedFinite DEF Turns, Marked
  <2>11. Marked(t, e)
    BY <1>1, <2>1, <2>2, <2>4, <2>15 DEF Turns, Marked
  <2>12. QED
    BY <2>5, <2>6, <2>9, <2>11 DEF Turns
<1>6. QED
  BY <1>4, <1>5

\* The queue of e goes on to a, which is to have the turn.
Passes(u, e, a) ==
    /\ Turns(u, e) /\ ~turn(u, e) /\ ~cutting(u, e) /\ u.queue[e] # <<>> /\ u.queue[e][1] = InProgress
    /\ Fresh(u, e, a) /\ ~free(u, a)

LEMMA TurnsTakes ==
    ASSUME NEW s, Sound(s), NEW u, Sound(u), NEW e \in Elements, NEW d \in Elements, NEW a, Turns(s, e), ~cutting(s, e),
           Takes(s, u, d, a), Fresh(u, d, a), Apart(s), d = e => ~turn(s, e)
    PROVE  Turns(u, e) /\ ~cutting(u, e) /\ (d = e => Passes(u, e, a))
<1> DEFINE f == [fn |-> "dequeued", elem |-> d, array |-> "shared"]
<1>1. f \in Frames /\ f.fn = "dequeued" /\ f.elem = d /\ f.array = "shared"
  BY DEF Frames, Dequeues
<1>2. u.stack = <<f>> \o s.stack /\ Alike(s, u)
      /\ u.entries = s.entries /\ u.running = s.running /\ u.owed = s.owed /\ u.mark = s.mark
  BY AlikeSame DEF Takes, Same, Fields
<1> HIDE DEF f
<1>3. CASE d # e
  <2>1. u.queue[e] = s.queue[e]
    BY <1>3 DEF Takes
  <2>2. Quiet(s, u, e)
    BY <1>2, <2>1 DEF Quiet, of, owing
  <2>3. ~speaks(u, f, e) /\ ~cuts(f, e) /\ ~isCode(f)
    BY <1>1, <1>3 DEF speaks, takes, cuts, isShort, isCode
  <2>4. QED
    BY <1>1, <1>2, <1>3, <2>2, <2>3, TurnPush DEF Turns
<1>4. CASE d = e
  <2>1. s.queue[e] # <<>> /\ u.queue[e] # <<>> /\ u.queue[e][1] = InProgress /\ (a # InProgress => ~free(u, a))
    BY <1>4, ApartTakes
  <2>2. s.stack \in Seq(Frames)
    BY DEF Sound, Pages
  <2>3. /\ DOMAIN u.stack = 1..(Len(s.stack) + 1) /\ DOMAIN s.stack = 1..Len(s.stack)
        /\ u.stack[1] = f /\ \A j \in DOMAIN s.stack : u.stack[j + 1] = s.stack[j]
        /\ \A j \in DOMAIN u.stack : j = 1 \/ (j - 1 \in DOMAIN s.stack /\ u.stack[j] = s.stack[j - 1])
    BY <1>1, <1>2, <2>2, Pushed
  <2>4. \A x : of(u, x) = of(s, x)
    BY <1>2 DEF of
  <2>5. \A b : free(u, b) <=> free(s, b)
    BY <1>2 DEF free
  <2>6. busy(u, e) = busy(s, e) /\ owing(u, e) = owing(s, e)
    BY <1>2, <2>4, <2>5 DEF busy, owing
  <2>7. busy(u, e) = {} /\ owing(u, e) = {} /\ \A j \in DOMAIN s.stack : ~ends(s, s.stack[j], e)
    BY <1>4, <2>6 DEF turn
  <2>q. \A b : queued(u, b) <=> queued(s, b)
    BY <1>2 DEF queued, mute, free
  <2>8. \A j \in DOMAIN u.stack : ~ends(u, u.stack[j], e)
    BY <1>1, <2>3, <2>7, <2>q DEF ends
  <2>9. ~turn(u, e)
    BY <2>7, <2>8 DEF turn
  <2>10. ~cutting(u, e)
    BY <1>1, <2>3 DEF cutting, cuts, isShort
  <2>11. \A j \in DOMAIN u.stack : ~runs(u.stack[j], e)
    BY <1>1, <2>3, <2>6, <2>7 DEF Turns, Turn, runs
  <2>12. \A j \in DOMAIN u.stack : takes(u.stack[j], e) => u.stack[j].array = "shared"
    BY <1>1, <2>1, <2>3 DEF Turns, Turn
  <2>13. Turn(u, e)
    BY <2>7, <2>8, <2>9, <2>10, <2>11, <2>12 DEF Turn
  <2>14. \A b : \A j \in DOMAIN u.stack : unmarks(u, u.stack[j], b) => j - 1 \in DOMAIN s.stack /\ unmarks(s, s.stack[j - 1], b)
    BY <1>1, <2>3, <2>5 DEF unmarks
  <2>15. \A i, j \in DOMAIN u.stack : i - 1 = j - 1 => i = j
    <3>1. \A i \in DOMAIN u.stack : i \in Nat
      BY <2>3
    <3>2. QED
      BY <3>1
  <2>16. counted(u, e) \subseteq counted(s, e)
    BY <1>2, <2>4, <2>5, <2>14 DEF counted
  <2>17. Cardinality(counted(u, e)) <= Cardinality(counted(s, e))
    BY <2>16, CountedFinite, FS_Subset
  <2>18. s.mark[e] \in Nat
    BY DEF Sound, Pages
  <2>19. Cardinality(counted(u, e)) <= u.mark[e]
    BY <1>2, <2>17, <2>18, CountedFinite DEF Turns, Marked
  <2>20. ASSUME NEW b \in of(u, e), free(u, b)
         PROVE  /\ \A i, j \in DOMAIN u.stack : unmarks(u, u.stack[i], b) /\ unmarks(u, u.stack[j], b) => i = j
                /\ \A j \in DOMAIN u.stack : unmarks(u, u.stack[j], b) => b \notin u.running
    <3>1. b \in of(s, e) /\ free(s, b)
      BY <2>4, <2>5, <2>20
    <3>2. QED
      BY <1>2, <2>14, <2>15, <3>1 DEF Turns, Marked
  <2>21. Marked(u, e)
    BY <2>19, <2>20 DEF Marked
  <2>22. a # InProgress
    BY EntryPositive DEF Fresh, of, Sound, InProgress
  <2>23. QED
    BY <1>4, <2>1, <2>9, <2>10, <2>13, <2>21, <2>22 DEF Passes, Turns
<1>5. QED
  BY <1>3, <1>4

\* The stack of t is that of s with f on it.
Over(s, t, f) ==
    /\ 1 \in DOMAIN t.stack /\ t.stack[1] = f
    /\ \A j \in DOMAIN s.stack : j + 1 \in DOMAIN t.stack /\ t.stack[j + 1] = s.stack[j]
    /\ \A j \in DOMAIN t.stack : j # 1 => j - 1 \in DOMAIN s.stack /\ t.stack[j] = s.stack[j - 1]
    /\ \A i, j \in DOMAIN t.stack : i - 1 = j - 1 => i = j

LEMMA Pushing ==
    ASSUME NEW s, Sound(s), NEW f \in Frames, NEW t, t.stack = <<f>> \o s.stack
    PROVE  Over(s, t, f)
<1>1. s.stack \in Seq(Frames)
  BY DEF Sound, Pages
<1>2. Len(s.stack) \in Nat
  BY <1>1
<1>3. /\ DOMAIN t.stack = 1..(Len(s.stack) + 1) /\ DOMAIN s.stack = 1..Len(s.stack)
      /\ t.stack[1] = f /\ \A j \in DOMAIN s.stack : t.stack[j + 1] = s.stack[j]
      /\ \A j \in DOMAIN t.stack : j = 1 \/ (j - 1 \in DOMAIN s.stack /\ t.stack[j] = s.stack[j - 1])
  BY <1>1, Pushed
<1>4. \A j \in DOMAIN s.stack : j + 1 \in DOMAIN t.stack
  BY <1>2, <1>3
<1>5. \A i, j \in DOMAIN t.stack : i - 1 = j - 1 => i = j
  BY <1>2, <1>3
<1>6. 1 \in DOMAIN t.stack
  BY <1>2, <1>3
<1>7. QED
  BY <1>3, <1>4, <1>5, <1>6 DEF Over

\* No unqueued animation of e starts, and the mark of e does not shrink.
LEMMA MarkedKept ==
    ASSUME NEW s, Sound(s), NEW t, Sound(t), NEW e \in Elements, Marked(s, e),
           \A a \in of(t, e) : free(t, a) /\ a \in t.running => a \in of(s, e) /\ free(s, a) /\ a \in s.running,
           s.mark[e] <= t.mark[e], cutting(s, e) => cutting(t, e), NEW n \in {-1, 0, 1},
           \A j \in DOMAIN t.stack : \A a \in of(t, e) : unmarks(t, t.stack[j], a) =>
              a \in of(s, e) /\ free(s, a) /\ j - n \in DOMAIN s.stack /\ unmarks(s, s.stack[j - n], a)
    PROVE  Marked(t, e)
<1>1. \A i, j \in DOMAIN t.stack : i - n = j - n => i = j
  <2>1. \A j \in DOMAIN t.stack : j \in Nat
    BY DEF Sound, Pages
  <2>2. QED
    BY <2>1
<1>2. ASSUME NEW a \in of(t, e), free(t, a)
      PROVE  /\ \A i, j \in DOMAIN t.stack : unmarks(t, t.stack[i], a) /\ unmarks(t, t.stack[j], a) => i = j
             /\ \A j \in DOMAIN t.stack : unmarks(t, t.stack[j], a) => a \notin t.running
  BY <1>1, <1>2 DEF Marked
<1>3. \A a \in counted(t, e) : a \in counted(s, e)
  BY DEF counted
<1>4. Cardinality(counted(t, e)) <= Cardinality(counted(s, e))
  BY <1>3, CountedFinite, FS_Subset
<1>5. s.mark[e] \in Nat /\ t.mark[e] \in Nat
  BY DEF Sound, Pages
<1>6. ~cutting(t, e) => Cardinality(counted(t, e)) <= t.mark[e]
  BY <1>4, <1>5, CountedFinite DEF Marked
<1>7. QED
  BY <1>2, <1>6 DEF Marked

\* a, which is not free, takes the turn of its own element.
LEMMA TurnsTaken ==
    ASSUME NEW u, Sound(u), NEW t, Sound(t), NEW e \in Elements, NEW a, Passes(u, e, a), Started(u, t, e, a)
    PROVE  Turns(t, e)
<1>1. /\ a \in of(u, e) /\ a \notin u.running /\ a \notin u.owed /\ ~free(u, a) /\ a # 0 /\ a \in Nat
  BY EntryPositive DEF Passes, Fresh, Untouched, of, Sound
<1>2. (\A x : of(t, x) = of(u, x)) /\ \A b \in DOMAIN u.entries : free(t, b) <=> free(u, b)
  <2>1. Alike(u, t) /\ DOMAIN t.entries = DOMAIN u.entries
    BY DEF Started
  <2>2. QED
    BY <2>1 DEF of, free, Alike
<1>3. /\ busy(u, e) = {} /\ owing(u, e) = {} /\ (\A j \in DOMAIN u.stack : ~ends(u, u.stack[j], e))
      /\ Turn(u, e) /\ Marked(u, e) /\ ~cutting(u, e)
  BY DEF Passes, turn, Turns
<1>4. \A j \in DOMAIN u.stack : ~runs(u.stack[j], e)
  BY <1>3 DEF Turn
<1>5. \A j \in DOMAIN u.stack : takes(u.stack[j], e) => u.stack[j].array = "shared"
  BY <1>3 DEF Turn, Passes
<1>6. t.queue = u.queue /\ t.mark = u.mark /\ u.queue[e] # <<>> /\ u.queue[e][1] = InProgress
  BY DEF Started, Passes
<1>7. ~free(t, a) /\ a \in of(t, e)
  BY <1>1, <1>2 DEF of
<1>8. \A b \in of(t, e) : free(t, b) => b # a
  BY <1>7
<1>m. u.mark[e] \in Nat /\ u.mark[e] <= t.mark[e]
  <2>1. u.mark[e] \in Nat
    BY DEF Sound, Pages
  <2>2. QED
    BY <1>6, <2>1
<1>r. ASSUME t.running \subseteq u.running \union {a}
      PROVE  \A b \in of(t, e) : free(t, b) /\ b \in t.running => b \in of(u, e) /\ free(u, b) /\ b \in u.running
  BY <1>2, <1>8, <1>r DEF of
<1>9. ASSUME t.stack = u.stack,
             (t.running = u.running /\ t.owed = u.owed \union {a}) \/ (t.running = u.running \union {a} /\ t.owed = u.owed)
      PROVE  Turns(t, e)
  <2>1. \A b, c \in busy(t, e) \union owing(t, e) : b = a /\ c = a
    BY <1>1, <1>2, <1>3, <1>9 DEF owing, busy, of
  <2>2. \A b \in owing(t, e) : b \notin t.running /\ ~free(t, b)
    BY <1>1, <1>2, <1>3, <1>7, <1>9 DEF owing, busy, of
  <2>3. \A j \in DOMAIN t.stack : ~ends(t, t.stack[j], e) /\ ~runs(t.stack[j], e)
    BY <1>3, <1>4, <1>9, AlikeFree DEF Started
  <2>4. ~cutting(t, e)
    BY <1>3, <1>9 DEF cutting
  <2>5. \A j \in DOMAIN t.stack : takes(t.stack[j], e) => t.stack[j].array = "shared"
    BY <1>5, <1>9
  <2>6. Turn(t, e)
    BY <1>6, <2>1, <2>2, <2>3, <2>4, <2>5 DEF Turn
  <2>7. \A j \in DOMAIN t.stack : j - 0 = j
    BY DEF Sound, Pages
  <2>8. \A j \in DOMAIN t.stack : \A b \in of(t, e) : unmarks(t, t.stack[j], b) =>
           b \in of(u, e) /\ free(u, b) /\ j - 0 \in DOMAIN u.stack /\ unmarks(u, u.stack[j - 0], b)
    BY <1>2, <1>9, <2>7 DEF unmarks, of
  <2>9. t.running \subseteq u.running \union {a}
    BY <1>9
  <2>10. Marked(t, e)
    BY <1>3, <1>m, <1>r, <2>8, <2>9, MarkedKept
  <2>11. QED
    BY <2>6, <2>10 DEF Turns
<1>10. ASSUME NEW f \in Frames, t.stack = <<f>> \o u.stack, f.elem = e, f.entry = a, t.running = u.running,
              (f.fn = "fn" /\ t.owed = u.owed \union {a}) \/ (f.fn = "callback" /\ t.owed = u.owed)
       PROVE  Turns(t, e)
  <2>1. /\ 1 \in DOMAIN t.stack /\ t.stack[1] = f
        /\ \A j \in DOMAIN t.stack : j # 1 => j - 1 \in DOMAIN u.stack /\ t.stack[j] = u.stack[j - 1]
    BY <1>10, Pushing DEF Over
  <2>2. busy(t, e) = {}
    BY <1>2, <1>3, <1>10 DEF busy, of
  <2>3. \A b \in owing(t, e) : b = a /\ f.fn = "fn"
    BY <1>2, <1>3, <1>10 DEF owing
  <2>4. f.fn = "fn" => a \in owing(t, e)
    BY <1>7, <1>10 DEF owing
  <2>5. \A j \in DOMAIN t.stack : ends(t, t.stack[j], e) => j = 1 /\ f.fn = "callback"
    <3>1. \A j \in DOMAIN u.stack : ~ends(t, u.stack[j], e)
      BY <1>3, AlikeFree DEF Started
    <3>2. QED
      BY <2>1, <3>1 DEF ends
  <2>6. ~cutting(t, e)
    BY <1>3, <1>10, <2>1 DEF cutting, isShort
  <2>7. \A j \in DOMAIN t.stack : runs(t.stack[j], e) => t.stack[j].entry \in owing(t, e)
    BY <1>4, <1>10, <2>1, <2>4 DEF runs
  <2>8. \A j \in DOMAIN t.stack : takes(t.stack[j], e) => t.stack[j].array = "shared"
    BY <1>5, <1>10, <2>1 DEF takes
  <2>9. \A b \in owing(t, e) : ~free(t, b) /\ b \notin t.running
    BY <1>1, <1>7, <1>10, <2>3
  <2>10. Turn(t, e)
    BY <1>6, <2>2, <2>3, <2>5, <2>6, <2>7, <2>8, <2>9 DEF Turn
  <2>11. \A j \in DOMAIN t.stack : \A b \in of(t, e) : unmarks(t, t.stack[j], b) =>
           b \in of(u, e) /\ free(u, b) /\ j - 1 \in DOMAIN u.stack /\ unmarks(u, u.stack[j - 1], b)
    <3> SUFFICES ASSUME NEW j \in DOMAIN t.stack, NEW b \in of(t, e), unmarks(t, t.stack[j], b)
                 PROVE  b \in of(u, e) /\ free(u, b) /\ j - 1 \in DOMAIN u.stack /\ unmarks(u, u.stack[j - 1], b)
      OBVIOUS
    <3>1. j # 1
      BY <1>7, <1>10, <2>1 DEF unmarks
    <3>2. QED
      BY <1>2, <2>1, <3>1 DEF unmarks, of
  <2>12. Marked(t, e)
    BY <1>3, <1>m, <1>r, <1>10, <2>11, MarkedKept
  <2>13. QED
    BY <2>10, <2>12 DEF Turns
<1>11. ASSUME NEW fn \in {"fn", "callback"}
       PROVE  Frame(fn, e, a) \in Frames /\ Frame(fn, e, a).elem = e /\ Frame(fn, e, a).entry = a /\ Frame(fn, e, a).fn = fn
  BY <1>1 DEF Frame, Frames, Codes
<1>12. CASE t.stack = <<Frame("fn", e, a)>> \o u.stack /\ t.running = u.running /\ t.owed = u.owed \union {a}
  BY <1>10, <1>11, <1>12
<1>13. CASE t.stack = <<Frame("callback", e, a)>> \o u.stack /\ t.running = u.running /\ t.owed = u.owed
  BY <1>10, <1>11, <1>13
<1>14. QED
  BY <1>9, <1>12, <1>13 DEF Started

\* An entry of another element starts.
LEMMA TurnsOther ==
    ASSUME NEW u, Sound(u), NEW t, Sound(t), NEW e \in Elements, NEW d \in Elements, d # e, NEW a,
           Turns(u, e), Fresh(u, d, a), Started(u, t, d, a)
    PROVE  Turns(t, e) /\ (cutting(t, e) <=> cutting(u, e))
<1>1. a \in of(u, d) /\ a \in Nat
  BY EntryPositive DEF Fresh, of, Sound
<1>2. Alike(u, t) /\ DOMAIN t.entries = DOMAIN u.entries /\ t.queue = u.queue /\ t.mark = u.mark
      /\ t.running \subseteq u.running \union {a} /\ t.owed \subseteq u.owed \union {a} /\ u.owed \subseteq t.owed
  BY DEF Started
<1>3. of(t, e) = of(u, e) /\ a \notin of(t, e)
  BY <1>1, <1>2 DEF of, Alike
<1>4. Quiet(u, t, e)
  BY <1>2, <1>3 DEF Quiet, owing
<1>5. CASE t.stack = u.stack
  BY <1>2, <1>4, <1>5, TurnSame DEF Turns
<1>6. ASSUME NEW fn \in {"fn", "callback"}, t.stack = <<Frame(fn, d, a)>> \o u.stack
      PROVE  Turns(t, e) /\ (cutting(t, e) <=> cutting(u, e))
  <2> DEFINE f == Frame(fn, d, a)
  <2>1. f \in Frames /\ f.elem = d /\ f.fn = fn
    BY <1>1 DEF Frame, Frames, Codes
  <2> HIDE DEF f
  <2>2. ~speaks(t, f, e) /\ ~cuts(f, e) /\ f.elem # e
    BY <2>1 DEF speaks, takes, cuts
  <2>3. t.stack = <<f>> \o u.stack
    BY <1>6 DEF f
  <2>4. QED
    BY <1>2, <1>4, <2>1, <2>2, <2>3, TurnPush DEF Turns
<1>7. QED
  BY <1>5, <1>6 DEF Started

\* What dequeue of d does to e.
LEMMA TurnsDequeued ==
    ASSUME NEW s, Ordered(s), NEW t, Sound(t), NEW e \in Elements, NEW d \in Elements, Turns(s, e), ~cutting(s, e),
           Dequeued(s, t, d), d = e => ~turn(s, e)
    PROVE  Turns(t, e)
<1>1. ASSUME NEW u, NEW a, Sound(u), Takes(s, u, d, a), Fresh(u, d, a), Starts(u, t, d, a)
      PROVE  Turns(t, e)
  <2>1. Turns(u, e) /\ (d = e => Passes(u, e, a))
    BY <1>1, TurnsTakes DEF Ordered
  <2>2. Started(u, t, d, a)
    BY <1>1, StartedBy
  <2>3. CASE d = e
    BY <1>1, <2>1, <2>2, <2>3, TurnsTaken
  <2>4. CASE d # e
    BY <1>1, <2>1, <2>2, <2>4, TurnsOther
  <2>5. QED
    BY <2>3, <2>4
<1>2. CASE Empties(s, t, d)
  BY <1>2, TurnsEmpties DEF Ordered
<1>3. QED
  BY <1>1, <1>2 DEF Dequeued

\* Where user code runs, a call of dequeue under way has given the turn to it.
LEMMA UserTurn ==
    ASSUME NEW s, Ordered(s), NEW e \in Elements, Turn(s, e), isCode(s.stack[1]),
           NEW j \in DOMAIN s.stack, takes(s.stack[j], e)
    PROVE  turn(s, e) /\ s.stack[j].array = "shared"
<1>1. s.stack[j].fn = "dequeued" /\ s.stack[j].elem = e
  BY DEF takes
<1>2. PICK l \in DOMAIN s.stack \union {0} : Under(s, l, j)
  BY <1>1 DEF Nested, Ordered
<1>3. l # 0
  <2> SUFFICES ASSUME l = 0 PROVE FALSE
    OBVIOUS
  <2>1. s.stack \in Seq(Frames)
    BY DEF Ordered, Sound, Pages
  <2>2. j \in 1..Len(s.stack) /\ Len(s.stack) \in Nat /\ DOMAIN s.stack = 1..Len(s.stack)
    BY <2>1
  <2>3. 1 \in DOMAIN s.stack /\ 0 < 1 /\ 1 <= j
    BY <2>2
  <2>4. takes(s.stack[1], e)
    BY <1>1, <1>2, <2>3 DEF Under
  <2>5. QED
    BY <2>4 DEF takes, isCode
<1>4. l \in DOMAIN s.stack /\ (ends(s, s.stack[l], e) \/ runs(s.stack[l], e))
  BY <1>1, <1>2, <1>3 DEF Under
<1>5. turn(s, e)
  BY <1>4 DEF turn, Turn
<1>6. QED
  BY <1>5 DEF Turn

\* The queue of e changes, and nothing else that matters to e.
LEMMA TurnsQueue ==
    ASSUME NEW s, Sound(s), NEW t, Sound(t), NEW e \in Elements, Turns(s, e),
           t.entries = s.entries, t.running = s.running, t.owed = s.owed, t.mark = s.mark, t.stack = s.stack,
           turn(s, e) /\ ~cutting(s, e) => t.queue[e] # <<>> /\ t.queue[e][1] = InProgress,
           \A j \in DOMAIN s.stack : takes(s.stack[j], e) => s.stack[j].array = "shared"
    PROVE  Turns(t, e) /\ (turn(t, e) => turn(s, e)) /\ (cutting(t, e) <=> cutting(s, e))
<1>1. (\A x : of(t, x) = of(s, x)) /\ \A a : free(t, a) <=> free(s, a)
  BY DEF of, free
<1>2. busy(t, e) = busy(s, e) /\ owing(t, e) = owing(s, e)
  BY <1>1 DEF busy, owing
<1>q. \A a : queued(t, a) <=> queued(s, a)
  BY DEF queued, mute, free
<1>3. /\ \A f : ends(t, f, e) <=> ends(s, f, e)
      /\ \A f, a : unmarks(t, f, a) <=> unmarks(s, f, a)
  BY <1>1, <1>q DEF ends, unmarks
<1>4. (turn(t, e) <=> turn(s, e)) /\ (cutting(t, e) <=> cutting(s, e)) /\ (code(t, e) <=> code(s, e))
  BY <1>2, <1>3 DEF turn, cutting, code
<1>5. Turn(s, e) /\ Marked(s, e)
  BY DEF Turns
<1>6. Turn(t, e)
  BY <1>1, <1>2, <1>3, <1>4, <1>5 DEF Turn
<1>7. \A j \in DOMAIN t.stack : j - 0 = j
  BY DEF Sound, Pages
<1>8. s.mark[e] <= t.mark[e]
  BY DEF Sound, Pages
<1>9. \A j \in DOMAIN t.stack : \A a \in of(t, e) : unmarks(t, t.stack[j], a) =>
           a \in of(s, e) /\ free(s, a) /\ j - 0 \in DOMAIN s.stack /\ unmarks(s, s.stack[j - 0], a)
  BY <1>1, <1>3, <1>7 DEF unmarks
<1>10. \A a \in of(t, e) : free(t, a) /\ a \in t.running => a \in of(s, e) /\ free(s, a) /\ a \in s.running
  BY <1>1
<1>11. Marked(t, e)
  BY <1>4, <1>5, <1>8, <1>9, <1>10, MarkedKept
<1>12. QED
  BY <1>4, <1>6, <1>11 DEF Turns

LEMMA TurnsAdds ==
    ASSUME NEW s, Sound(s), NEW u, Sound(u), NEW e \in Elements, Turns(s, e), NEW d, NEW kind, NEW a, Adds(s, u, d, kind, a)
    PROVE  Turns(u, e) /\ (turn(u, e) => turn(s, e)) /\ (cutting(u, e) <=> cutting(s, e))
<1>1. Alike(s, u) /\ u.queue = s.queue /\ u.stack = s.stack /\ u.running = s.running /\ u.owed = s.owed /\ u.mark = s.mark
  BY AlikeAdds DEF Adds, Same, Fields
<1>2. s.running \union s.owed \subseteq DOMAIN s.entries
  BY DEF Sound, Linked
<1>3. \A b \in DOMAIN s.entries : b \in of(u, e) <=> b \in of(s, e)
  BY <1>1 DEF of, Alike
<1>4. Quiet(s, u, e)
  BY <1>1, <1>2, <1>3 DEF Quiet, owing
<1>5. QED
  BY <1>1, <1>4, TurnSame DEF Turns

LEMMA TurnsJoins ==
    ASSUME NEW s, Ordered(s), NEW t, Sound(t), NEW e \in Elements, NEW d \in Elements, NEW a, Fresh(s, d, a), Turns(s, e),
           s.stack = <<>> \/ isCode(s.stack[1]), Joins(s, t, d, a)
    PROVE  Turns(t, e) /\ (cutting(t, e) <=> cutting(s, e))
<1>1. /\ t.entries = s.entries /\ t.running = s.running /\ t.owed = s.owed /\ t.mark = s.mark /\ t.stack = s.stack
      /\ t.queue = [s.queue EXCEPT ![d] = Append(s.queue[d], a)] /\ s.queue \in [Elements -> Seq(Nat)]
  BY DEF Joins, Same, Fields, Ordered, Sound, Pages
<1>2. CASE d # e
  <2>1. t.queue[e] = s.queue[e] /\ Alike(s, t)
    BY <1>1, <1>2 DEF Alike
  <2>2. Quiet(s, t, e)
    BY <1>1, <2>1 DEF Quiet, of, owing
  <2>3. QED
    BY <1>1, <2>1, <2>2, TurnSame DEF Turns, Ordered
<1>3. CASE d = e
  <2> DEFINE q == s.queue[e]
  <2>1. q \in Seq(Nat) /\ t.queue[e] = Append(q, a)
    BY <1>1, <1>3
  <2>2. a \in Nat
    BY EntryPositive DEF Fresh, of, Ordered, Sound
  <2> HIDE DEF q
  <2>3. q # <<>> => Append(q, a) # <<>> /\ Append(q, a)[1] = q[1]
    BY <2>1, <2>2
  <2>4. turn(s, e) /\ ~cutting(s, e) => t.queue[e] # <<>> /\ t.queue[e][1] = InProgress
    BY <2>1, <2>3 DEF Turns, Turn, q
  <2>5. \A j \in DOMAIN s.stack : takes(s.stack[j], e) => s.stack[j].array = "shared"
    <3>1. CASE s.stack = <<>>
      BY <3>1
    <3>2. CASE isCode(s.stack[1])
      BY <3>2, UserTurn DEF Turns
    <3>3. QED
      BY <3>1, <3>2
  <2>6. QED
    BY <1>1, <2>4, <2>5, TurnsQueue DEF Ordered
<1>4. QED
  BY <1>2, <1>3

\* An unqueued animation starts, and is counted.
LEMMA TurnsUnqueued ==
    ASSUME NEW u, Sound(u), NEW v, Sound(v), NEW t, Sound(t), NEW e \in Elements, NEW d \in Elements, NEW a,
           Turns(u, e), Same(u, v, {"mark"}), v.mark = [u.mark EXCEPT ![d] = u.mark[d] + 1],
           Fresh(v, d, a), free(u, a), \A j \in DOMAIN u.stack : ~unmarks(u, u.stack[j], a),
           Started(v, t, d, a)
    PROVE  Turns(t, e)
<1>1. /\ v.entries = u.entries /\ v.queue = u.queue /\ v.stack = u.stack /\ v.running = u.running /\ v.owed = u.owed
      /\ u.mark \in [Elements -> Nat]
  BY DEF Same, Fields, Sound, Pages
<1>2. /\ a \in of(u, d) /\ a \notin u.running /\ a \notin u.owed
  BY <1>1 DEF Fresh, Untouched, of
<1>3. /\ Alike(u, t) /\ DOMAIN t.entries = DOMAIN u.entries /\ t.queue = u.queue /\ t.mark = v.mark
      /\ t.running = u.running \union {a} /\ t.owed = u.owed /\ t.stack = u.stack
  BY <1>1 DEF Started, Alike, free
<1>4. of(t, e) = of(u, e) /\ \A b \in DOMAIN u.entries : free(t, b) <=> free(u, b)
  BY <1>3 DEF of, Alike, free
<1>5. CASE d # e
  <2>1. a \notin of(t, e) /\ t.mark[e] = u.mark[e]
    BY <1>1, <1>2, <1>3, <1>4, <1>5 DEF of
  <2>2. Quiet(u, t, e)
    BY <1>3, <1>4, <2>1 DEF Quiet, owing
  <2>3. QED
    BY <1>3, <2>2, TurnSame DEF Turns
<1>6. CASE d = e
  <2>1. owing(t, e) = owing(u, e)
    BY <1>3, <1>4 DEF owing
  <2>2. free(t, a) /\ a \in of(t, e)
    BY <1>2, <1>4, <1>6 DEF of
  <2>3. busy(t, e) = busy(u, e)
    <3>1. \A b \in of(t, e) : free(t, b) <=> free(u, b)
      BY <1>4 DEF of
    <3>2. QED
      BY <1>3, <1>4, <2>2, <3>1 DEF busy
  <2>4. \A j \in DOMAIN t.stack : ends(t, t.stack[j], e) <=> ends(u, u.stack[j], e)
    BY <1>3, AlikeFree
  <2>5. turn(t, e) <=> turn(u, e)
    BY <1>3, <2>1, <2>3, <2>4 DEF turn
  <2>6. (cutting(t, e) <=> cutting(u, e)) /\ (code(t, e) <=> code(u, e))
    BY <1>3 DEF cutting, code
  <2>7. \A b \in owing(t, e) : ~free(t, b) /\ b \notin t.running
    <3>1. \A b \in owing(u, e) : b # a
      BY <1>2 DEF owing
    <3>2. \A b \in owing(u, e) : b \in DOMAIN u.entries
      BY DEF owing, of
    <3>3. QED
      BY <1>3, <1>4, <2>1, <3>1, <3>2 DEF Turns, Turn
  <2>8. Turn(t, e)
    BY <1>3, <2>1, <2>3, <2>4, <2>5, <2>6, <2>7 DEF Turns, Turn
  <2>9. \A j \in DOMAIN t.stack : \A b \in of(t, e) : unmarks(t, t.stack[j], b) <=> unmarks(u, u.stack[j], b)
    BY <1>3, <1>4 DEF unmarks, of
  <2>10. ASSUME NEW b \in of(t, e), free(t, b)
         PROVE  /\ \A i, j \in DOMAIN t.stack : unmarks(t, t.stack[i], b) /\ unmarks(t, t.stack[j], b) => i = j
                /\ \A j \in DOMAIN t.stack : unmarks(t, t.stack[j], b) => b \notin t.running
    <3>1. b \in of(u, e) /\ free(u, b)
      BY <1>4, <2>10 DEF of
    <3>2. QED
      BY <1>3, <2>9, <3>1 DEF Turns, Marked
  <2>11. \A b \in counted(t, e) : b \in counted(u, e) \union {a}
    <3>1. \A b \in of(t, e) : free(t, b) <=> free(u, b)
      BY <1>4 DEF of
    <3>2. QED
      BY <1>3, <1>4, <2>9, <3>1 DEF counted
  <2>12. IsFiniteSet(counted(u, e)) /\ Cardinality(counted(u, e)) \in Nat
    BY CountedFinite
  <2>13. IsFiniteSet(counted(u, e) \union {a}) /\ Cardinality(counted(u, e) \union {a}) <= Cardinality(counted(u, e)) + 1
    <3> DEFINE C == counted(u, e)
               D == C \union {a}
    <3>1. IsFiniteSet(C) /\ Cardinality(C) \in Nat
      BY <2>12
    <3> HIDE DEF C
    <3>2. IsFiniteSet(D) /\ Cardinality(D) = IF a \in C THEN Cardinality(C) ELSE Cardinality(C) + 1
      BY ONLY <3>1, FS_AddElement
    <3> HIDE DEF D
    <3>3. IsFiniteSet(D) /\ Cardinality(D) <= Cardinality(C) + 1
      BY ONLY <3>1, <3>2
    <3>4. QED
      BY <3>3 DEF C, D
  <2>14. Cardinality(counted(t, e)) <= Cardinality(counted(u, e) \union {a})
    BY <2>11, <2>13, FS_Subset
  <2>15. Cardinality(counted(u, e) \union {a}) \in Nat /\ Cardinality(counted(t, e)) \in Nat
    BY <2>13, FS_CardinalityType, CountedFinite
  <2>16. t.mark[e] = u.mark[e] + 1 /\ u.mark[e] \in Nat
    BY <1>1, <1>3, <1>6
  <2>17. ~cutting(u, e) => Cardinality(counted(u, e)) <= u.mark[e]
    BY DEF Turns, Marked
  <2>18. ~cutting(t, e) => Cardinality(counted(t, e)) <= t.mark[e]
    BY <2>6, <2>12, <2>13, <2>14, <2>15, <2>16, <2>17
  <2>19. QED
    BY <2>8, <2>10, <2>18 DEF Turns, Marked
<1>7. QED
  BY <1>5, <1>6

LEMMA TurnsEnqueues ==
    ASSUME NEW s, Ordered(s), NEW t, Sound(t), NEW e \in Elements, NEW d \in Elements, NEW kind, Turns(s, e),
           s.stack = <<>> \/ isCode(s.stack[1]), ~cutting(s, e), Enqueues(s, t, d, kind)
    PROVE  Turns(t, e)
<1>1. PICK u, a : /\ Sound(u) /\ Adds(s, u, d, kind, a) /\ (kind # "empty" => Fresh(u, d, a))
                  /\ IF kind = "empty" THEN Pushes(u, t, Frame("callback", d, a))
                     ELSE IF kind = "free"
                     THEN \E v : /\ Sound(v) /\ Fresh(v, d, a) /\ Same(u, v, {"mark"})
                                 /\ v.mark = [u.mark EXCEPT ![d] = u.mark[d] + 1]
                                 /\ Starts(v, t, d, a)
                     ELSE \E v : /\ Sound(v) /\ Joins(u, v, d, a)
                                 /\ \/ v.queue[d][1] = InProgress /\ t = v
                                    \/ v.queue[d][1] # InProgress /\ Dequeued(v, t, d)
  BY DEF Enqueues
<1>2. Turns(u, e) /\ ~cutting(u, e)
  BY <1>1, TurnsAdds DEF Ordered
<1>3. Alike(s, u) /\ u.queue = s.queue /\ u.stack = s.stack /\ Ordered(u)
  BY <1>1, AlikeAdds, OrderedSame
<1>e. CASE kind = "empty"
  <2> DEFINE f == Frame("callback", d, a)
  <2>1. Pushes(u, t, f) /\ f.fn = "callback" /\ f.entry = a
    BY <1>1, <1>e DEF Frame
  <2> HIDE DEF f
  <2>2. Same(u, t, {"stack"}) /\ f \in Frames /\ t.stack = <<f>> \o u.stack
    BY <2>1 DEF Pushes
  <2>3. {"stack"} \subseteq Spared \ {"queue", "mark", "owed"}
    BY DEF Spared
  <2>4. Alike(u, t) /\ Quiet(u, t, e)
    BY <2>2, <2>3, QuietSame
  <2>5. mute(t, a)
    <3>1. u.entries[a].kind = "empty"
      BY <1>1, <1>e DEF Adds
    <3>2. t.entries = u.entries
      BY <2>2 DEF Same, Fields
    <3>3. QED
      BY <3>1, <3>2 DEF mute
  <2>6. ~speaks(t, f, e) /\ ~cuts(f, e)
    BY <2>1, <2>5 DEF speaks, takes, cuts, isShort
  <2>7. QED
    BY <1>1, <1>2, <2>2, <2>4, <2>6, TurnPush DEF Turns
<1>4. CASE kind = "free"
  <2>1. PICK v : /\ Sound(v) /\ Fresh(v, d, a) /\ Same(u, v, {"mark"})
                 /\ v.mark = [u.mark EXCEPT ![d] = u.mark[d] + 1]
                 /\ Starts(v, t, d, a)
    BY <1>1, <1>4
  <2>2. Started(v, t, d, a)
    BY <2>1, StartedBy
  <2>3. free(u, a) /\ a \notin DOMAIN s.entries /\ a # 0
    BY <1>1, <1>4, EntryPositive DEF Adds, free, Fresh, of, Sound
  <2>4. \A j \in DOMAIN s.stack : s.stack[j].fn = "callback" => s.stack[j].entry # a
    BY <2>3 DEF Ordered, Sound, Linked, Links, isCode, of
  <2>5. \A j \in DOMAIN u.stack : ~unmarks(u, u.stack[j], a)
    BY <1>3, <2>4 DEF unmarks
  <2>6. QED
    BY <1>1, <1>2, <2>1, <2>2, <2>3, <2>5, TurnsUnqueued
<1>5. CASE kind \notin {"free", "empty"}
  <2>1. PICK v : /\ Sound(v) /\ Joins(u, v, d, a)
                 /\ \/ v.queue[d][1] = InProgress /\ t = v
                    \/ v.queue[d][1] # InProgress /\ Dequeued(v, t, d)
    BY <1>1, <1>5
  <2>2. ~free(u, a) /\ Fresh(u, d, a)
    BY <1>1, <1>5 DEF Adds, free
  <2>3. Ordered(v)
    BY <1>1, <1>3, <2>1, <2>2, OrderedJoins
  <2>4. u.stack = <<>> \/ isCode(u.stack[1])
    BY <1>3
  <2>5. Turns(v, e) /\ ~cutting(v, e)
    BY <1>1, <1>2, <1>3, <2>1, <2>2, <2>4, TurnsJoins
  <2>6. v.queue[e][1] # InProgress => ~turn(v, e)
    BY <2>5 DEF Turns, Turn
  <2>7. QED
    BY <2>1, <2>3, <2>5, <2>6, TurnsDequeued
<1>6. QED
  BY <1>e, <1>4, <1>5

\* a calls next: the turn is given back, unless code of the element is still running.
LEMMA TurnsUnowed ==
    ASSUME NEW s, Sound(s), NEW u, Sound(u), NEW e \in Elements, Turns(s, e), NEW a \in s.owed,
           s.entries[a].elem = e => ~code(s, e), Same(s, u, {"owed"}), u.owed = s.owed \ {a}
    PROVE  Turns(u, e) /\ (s.entries[a].elem = e => ~turn(u, e)) /\ (cutting(u, e) <=> cutting(s, e))
<1>1. /\ u.entries = s.entries /\ u.queue = s.queue /\ u.stack = s.stack /\ u.running = s.running /\ u.mark = s.mark
      /\ Alike(s, u) /\ a \in DOMAIN s.entries
  BY AlikeSame DEF Same, Fields, Sound, Linked
<1>2. /\ (\A x : of(u, x) = of(s, x)) /\ \A b : free(u, b) <=> free(s, b)
  BY <1>1 DEF of, free
<1>3. s.entries[a].elem = e => a \in owing(s, e)
  BY <1>1 DEF owing, of
<1>4. s.entries[a].elem # e => owing(u, e) = owing(s, e)
  BY <1>1 DEF owing, of
<1>5. code(u, e) <=> code(s, e)
  BY <1>1 DEF code
<1>6. \A b \in owing(u, e) : b \in owing(s, e) /\ b # a
  BY <1>2 DEF owing
<1>7. Quiet(s, u, e)
  BY <1>1, <1>2, <1>4, <1>5, <1>6 DEF Quiet
<1>8. Turns(u, e) /\ (cutting(u, e) <=> cutting(s, e))
  BY <1>1, <1>7, TurnSame DEF Turns
<1>9. ASSUME s.entries[a].elem = e
      PROVE  ~turn(u, e)
  <2>1. a \in owing(s, e) /\ a \notin s.running /\ \A b \in busy(s, e) \union owing(s, e) : b = a
    BY <1>3, <1>9 DEF Turns, Turn
  <2>2. owing(u, e) = {}
    BY <1>6, <2>1
  <2>3. busy(u, e) = {}
    BY <1>1, <1>2, <2>1 DEF busy
  <2>q. \A b : queued(u, b) <=> queued(s, b)
    BY <1>1 DEF queued, mute, free
  <2>4. \A j \in DOMAIN u.stack : ~ends(u, u.stack[j], e)
    BY <1>1, <2>1, <2>q DEF Turns, Turn, ends
  <2>5. QED
    BY <2>2, <2>3, <2>4 DEF turn
<1>10. QED
  BY <1>8, <1>9

LEMMA TurnsNext ==
    ASSUME NEW s, Ordered(s), NEW t, Sound(t), NEW e \in Elements, Turns(s, e), ~cutting(s, e), NEW a \in s.owed,
           s.entries[a].elem \in Elements, s.entries[a].elem = e => ~code(s, e), NextStarts(s, t, a)
    PROVE  Turns(t, e)
<1>1. PICK u : Sound(u) /\ Same(s, u, {"owed"}) /\ u.owed = s.owed \ {a} /\ Dequeued(u, t, s.entries[a].elem)
  BY DEF NextStarts
<1>2. Turns(u, e) /\ (s.entries[a].elem = e => ~turn(u, e)) /\ ~cutting(u, e)
  BY <1>1, TurnsUnowed DEF Ordered
<1>3. Alike(s, u) /\ u.queue = s.queue /\ u.stack = s.stack
  BY <1>1, AlikeSame DEF Same, Fields
<1>4. Ordered(u)
  BY <1>1, <1>3, OrderedSame
<1>5. QED
  BY <1>1, <1>2, <1>4, TurnsDequeued

\* Only marks change.
LEMMA TurnMark ==
    ASSUME NEW s, Sound(s), NEW t, Sound(t), NEW e \in Elements, Turn(s, e), Same(s, t, {"timeouts", "mark"})
    PROVE  /\ Turn(t, e) /\ (turn(t, e) <=> turn(s, e)) /\ (cutting(t, e) <=> cutting(s, e))
           /\ t.stack = s.stack /\ t.running = s.running /\ t.entries = s.entries
           /\ \A f, a : unmarks(t, f, a) <=> unmarks(s, f, a)
<1>1. /\ t.entries = s.entries /\ t.queue = s.queue /\ t.stack = s.stack /\ t.running = s.running /\ t.owed = s.owed
  BY DEF Same, Fields
<1>2. (\A x : of(t, x) = of(s, x)) /\ \A a : free(t, a) <=> free(s, a)
  BY <1>1 DEF of, free
<1>3. busy(t, e) = busy(s, e) /\ owing(t, e) = owing(s, e)
  BY <1>1, <1>2 DEF busy, owing
<1>q. \A a : queued(t, a) <=> queued(s, a)
  BY <1>1 DEF queued, mute, free
<1>4. /\ \A f : ends(t, f, e) <=> ends(s, f, e)
      /\ \A f, a : unmarks(t, f, a) <=> unmarks(s, f, a)
  BY <1>2, <1>q DEF ends, unmarks
<1>5. (turn(t, e) <=> turn(s, e)) /\ (cutting(t, e) <=> cutting(s, e)) /\ (code(t, e) <=> code(s, e))
  BY <1>1, <1>3, <1>4 DEF turn, cutting, code
<1>6. Turn(t, e)
  BY <1>1, <1>2, <1>3, <1>4, <1>5 DEF Turn
<1>7. QED
  BY <1>1, <1>4, <1>5, <1>6

\* The callback of an unqueued animation returns: one mark less, and one to be counted.
LEMMA TurnsUnmarked ==
    ASSUME NEW s, Sound(s), s.stack # <<>>, NEW u, Sound(u), Pops(s, u), NEW t, Sound(t), NEW e \in Elements,
           Turns(s, e), ~cutting(s, e), Turns(u, e), ~cutting(u, e),
           s.stack[1].fn = "callback", s.stack[1].entry # 0, free(s, s.stack[1].entry),
           Same(u, t, {"timeouts", "mark"}), s.stack[1].elem \in Elements,
           t.mark = [u.mark EXCEPT ![s.stack[1].elem] = IF u.mark[s.stack[1].elem] = 0 THEN 0 ELSE u.mark[s.stack[1].elem] - 1]
    PROVE  Turns(t, e)
<1> DEFINE d == s.stack[1].elem
           a == s.stack[1].entry
<1>1. Turn(u, e) /\ Marked(u, e) /\ u.mark \in [Elements -> Nat] /\ u.entries = s.entries /\ u.running = s.running
      /\ u.mark = s.mark
  BY DEF Turns, Sound, Pages, Pops, Same, Fields
<1>2. /\ Turn(t, e) /\ ~cutting(t, e)
      /\ t.stack = u.stack /\ t.running = u.running /\ t.entries = u.entries
      /\ \A f, b : unmarks(t, f, b) <=> unmarks(u, f, b)
  BY <1>1, TurnMark
<1>3. (\A x : of(t, x) = of(u, x)) /\ \A b : free(t, b) <=> free(u, b)
  BY <1>2 DEF of, free
<1>4. \A b \in of(t, e) : free(t, b) =>
         /\ \A i, j \in DOMAIN t.stack : unmarks(t, t.stack[i], b) /\ unmarks(t, t.stack[j], b) => i = j
         /\ \A j \in DOMAIN t.stack : unmarks(t, t.stack[j], b) => b \notin t.running
  BY <1>1, <1>2, <1>3 DEF Marked
<1>5. counted(t, e) = counted(u, e)
  BY <1>2, <1>3 DEF counted
<1>6. IsFiniteSet(counted(u, e)) /\ Cardinality(counted(u, e)) \in Nat
      /\ IsFiniteSet(counted(s, e)) /\ Cardinality(counted(s, e)) \in Nat
  BY CountedFinite
<1>7. CASE d # e
  <2>1. t.mark[e] = u.mark[e]
    BY <1>1, <1>7
  <2>2. Marked(t, e)
    BY <1>1, <1>2, <1>4, <1>5, <2>1 DEF Marked
  <2>3. QED
    BY <1>2, <2>2 DEF Turns
<1>8. CASE d = e
  <2>1. s.stack \in Seq(Frames)
    BY DEF Sound, Pages
  <2>2. /\ 1 \in DOMAIN s.stack /\ \A j \in DOMAIN u.stack : j + 1 \in DOMAIN s.stack /\ u.stack[j] = s.stack[j + 1] /\ j + 1 # 1
    <3>1. /\ DOMAIN u.stack = 1..(Len(s.stack) - 1) /\ DOMAIN s.stack = 1..Len(s.stack)
          /\ Len(s.stack) \in Nat \ {0}
          /\ \A j \in DOMAIN u.stack : j + 1 \in DOMAIN s.stack /\ u.stack[j] = s.stack[j + 1]
      BY <2>1, TailOf DEF Pops
    <3>2. \A j \in DOMAIN u.stack : j + 1 # 1
      BY <3>1
    <3>3. QED
      BY <3>1, <3>2
  <2>3. a \in of(s, e) /\ free(s, a) /\ unmarks(s, s.stack[1], a)
    BY <1>8, <2>2 DEF Sound, Linked, Links, isCode, unmarks
  <2>4. a \notin s.running /\ \A j \in DOMAIN s.stack : unmarks(s, s.stack[j], a) => j = 1
    BY <2>2, <2>3 DEF Turns, Marked
  <2>5. a \in counted(s, e)
    BY <2>2, <2>3 DEF counted
  <2>6. \A b \in counted(u, e) : b \in counted(s, e) \ {a}
    <3> SUFFICES ASSUME NEW b \in counted(u, e) PROVE b \in counted(s, e) /\ b # a
      OBVIOUS
    <3>1. b \in of(s, e) /\ free(s, b) /\ (b \in s.running \/ \E j \in DOMAIN u.stack : unmarks(s, u.stack[j], b))
      BY <1>1 DEF counted, of, free, unmarks
    <3>2. (\E j \in DOMAIN u.stack : unmarks(s, u.stack[j], b)) => \E j \in DOMAIN s.stack : j # 1 /\ unmarks(s, s.stack[j], b)
      BY <2>2
    <3>3. b # a
      BY <2>4, <3>1, <3>2
    <3>4. QED
      BY <3>1, <3>2, <3>3 DEF counted
  <2>7. IsFiniteSet(counted(s, e) \ {a}) /\ Cardinality(counted(s, e) \ {a}) = Cardinality(counted(s, e)) - 1
    BY <1>6, <2>5, FS_RemoveElement
  <2>8. Cardinality(counted(u, e)) <= Cardinality(counted(s, e)) - 1
    BY <2>6, <2>7, FS_Subset
  <2>9. Cardinality(counted(s, e)) <= s.mark[e] /\ s.mark[e] \in Nat /\ u.mark[e] = s.mark[e]
    BY <1>1 DEF Turns, Marked
  <2>10. t.mark[e] = IF s.mark[e] = 0 THEN 0 ELSE s.mark[e] - 1
    BY <1>1, <1>8
  <2>11. Cardinality(counted(t, e)) <= t.mark[e]
    BY <1>5, <1>6, <2>8, <2>9, <2>10
  <2>12. QED
    BY <1>2, <1>4, <2>11 DEF Turns, Marked
<1>9. QED
  BY <1>7, <1>8

LEMMA TurnsPopped ==
    ASSUME NEW s, Sound(s), NEW u, Sound(u), Pops(s, u), NEW e \in Elements, Turns(s, e), ~cuts(s.stack[1], e)
    PROVE  Turns(u, e) /\ (turn(u, e) => turn(s, e)) /\ (cutting(u, e) <=> cutting(s, e))
<1>1. {"stack"} \subseteq Spared \ {"queue", "mark", "owed"}
  BY DEF Spared
<1>2. Alike(s, u) /\ Quiet(s, u, e)
  BY <1>1, QuietSame DEF Pops
<1>3. QED
  BY <1>2, TurnPop DEF Turns, Pops

LEMMA TurnsReturns ==
    ASSUME NEW s, Ordered(s), NEW t, Sound(t), NEW e \in Elements, Turns(s, e), ~cutting(s, e), s.stack # <<>>, Returns(s, t),
           LET f == s.stack[1] IN f.fn = "callback" /\ f.entry # 0 /\ mute(s, f.entry) /\ f.elem = e => ~turn(s, e)
    PROVE  Turns(t, e)
<1> DEFINE f == s.stack[1]
<1>1. PICK u : /\ Sound(u) /\ Pops(s, u)
               /\ \/ /\ f.fn = "dequeued" /\ f.array = "empty" /\ Empties(u, t, f.elem)
                  \/ /\ f.fn = "dequeued" /\ f.array # "empty" /\ t = u
                  \/ /\ f.fn = "callback" /\ f.entry = 0 /\ t = u
                  \/ /\ f.fn = "callback" /\ f.entry # 0 /\ s.entries[f.entry].kind = "free"
                     /\ Same(u, t, {"timeouts", "mark"})
                     /\ t.mark = [u.mark EXCEPT ![f.elem] = IF u.mark[f.elem] = 0 THEN 0 ELSE u.mark[f.elem] - 1]
                  \/ /\ f.fn = "callback" /\ f.entry # 0 /\ s.entries[f.entry].kind # "free"
                     /\ Dequeued(u, t, f.elem)
                  \/ /\ f.fn = "fn" /\ t = u
  BY DEF Returns
<1>2. 1 \in DOMAIN s.stack /\ f \in Frames /\ s.stack \in Seq(Frames)
  BY TopFrame DEF Ordered, Sound
<1>3. f.fn \in {"dequeued", "callback", "fn"} /\ f.elem \in Elements
  BY <1>1, <1>2 DEF Frames, Dequeues, Codes, Stops, Ticks
<1>4. Turns(u, e) /\ (turn(u, e) => turn(s, e)) /\ ~cutting(u, e)
  BY <1>1, <1>3, TurnsPopped DEF cuts, isShort, Ordered
<1>5. Ordered(u) /\ u.entries = s.entries /\ u.running = s.running /\ u.owed = s.owed
  <2>1. {"stack"} \subseteq Spared \ {"queue"}
    BY DEF Spared
  <2>2. Ordered(u)
    BY <1>1, <2>1, OrderedPop DEF Pops
  <2>3. QED
    BY <1>1, <2>2 DEF Pops, Same, Fields
<1>6. CASE f.fn = "dequeued" /\ f.array = "empty" /\ Empties(u, t, f.elem)
  <2>1. f.elem = e => ~turn(u, e)
    BY <1>2, <1>4, <1>6 DEF Turns, Turn, takes
  <2>2. QED
    BY <1>1, <1>3, <1>4, <1>6, <2>1, TurnsEmpties
<1>7. CASE f.fn = "callback" /\ f.entry # 0 /\ s.entries[f.entry].kind = "free"
           /\ Same(u, t, {"timeouts", "mark"})
           /\ t.mark = [u.mark EXCEPT ![f.elem] = IF u.mark[f.elem] = 0 THEN 0 ELSE u.mark[f.elem] - 1]
  BY <1>1, <1>3, <1>4, <1>7, TurnsUnmarked DEF Ordered, free
<1>8. CASE f.fn = "callback" /\ f.entry # 0 /\ s.entries[f.entry].kind # "free" /\ Dequeued(u, t, f.elem)
  <2>1. ASSUME f.elem = e
        PROVE  ~turn(u, e)
    <3>m. CASE mute(s, f.entry)
      BY <1>4, <1>8, <2>1, <3>m
    <3>q. CASE ~mute(s, f.entry)
      <4>1. ends(s, f, e)
        BY <1>8, <2>1, <3>q DEF ends, free, queued
      <4>2. busy(s, e) = {} /\ owing(s, e) = {} /\ \A j \in DOMAIN s.stack : ends(s, s.stack[j], e) => j = 1
        BY <1>2, <4>1 DEF Turns, Turn
      <4>3. (\A x : of(u, x) = of(s, x)) /\ \A b : free(u, b) <=> free(s, b)
        BY <1>5 DEF of, free
      <4>q. \A b : queued(u, b) <=> queued(s, b)
        BY <1>5 DEF queued, mute, free
      <4>4. busy(u, e) = {} /\ owing(u, e) = {}
        BY <1>5, <4>2, <4>3 DEF busy, owing
      <4>5. ASSUME NEW j \in DOMAIN u.stack
            PROVE  ~ends(u, u.stack[j], e)
        <5>1. /\ DOMAIN u.stack = 1..(Len(s.stack) - 1) /\ Len(s.stack) \in Nat
              /\ j + 1 \in DOMAIN s.stack /\ u.stack[j] = s.stack[j + 1]
          BY <1>1, <1>2, TailOf DEF Pops
        <5>2. j + 1 # 1
          BY <5>1
        <5>3. ~ends(s, u.stack[j], e)
          BY <4>2, <5>1, <5>2
        <5>4. QED
          BY <4>q, <5>3 DEF ends
      <4>6. QED
        BY <4>4, <4>5 DEF turn
    <3>1. QED
      BY <3>m, <3>q
  <2>2. QED
    BY <1>3, <1>4, <1>5, <1>8, <2>1, TurnsDequeued
<1>9. CASE t = u
  BY <1>4, <1>9
<1>10. QED
  BY <1>1, <1>6, <1>7, <1>8, <1>9

\* An exception leaves the elements alone that it says nothing of.
LEMMA TurnsUnwinds ==
    ASSUME NEW s, Ordered(s), NEW t, Sound(t), Unwinds(s, t), NEW e \in Elements, Turns(s, e), e \notin t.raised
    PROVE  Turns(t, e)
<1>1. Alike(s, t) /\ DOMAIN t.entries = DOMAIN s.entries /\ t.stack = <<>> /\ t.queue = s.queue /\ t.mark = s.mark
  BY OrderedUnwinds DEF Unwinds, Same, Fields
<1>2. of(t, e) = of(s, e)
  BY <1>1 DEF of, Alike
<1>3. \A a \in of(s, e) : ~again(s, a)
  <2> SUFFICES ASSUME NEW a \in of(s, e), NEW i \in DOMAIN s.timers, isDone(s, i), s.timers[i].entry = a PROVE FALSE
    BY DEF again
  <2>1. s.timers[i].elem = e
    BY DEF Ordered, Sound, Linked, of
  <2>2. QED
    BY <2>1 DEF Unwinds
<1>4. \A a \in of(t, e) : a \in t.running => a \in of(s, e) /\ a \in s.running
  BY <1>2, <1>3 DEF Unwinds
<1>5. \A a \in owing(s, e) : a \in t.owed
  BY DEF owing, of, Unwinds
<1>6. owing(t, e) = owing(s, e)
  BY <1>2, <1>5 DEF owing, Unwinds
<1>7. Quiet(s, t, e)
  BY <1>1, <1>4, <1>6 DEF Quiet
<1>8. ~cutting(s, e)
  BY DEF cutting, isShort, Unwinds
<1>9. ~cutting(t, e) /\ DOMAIN t.stack = {}
  BY <1>1 DEF cutting
<1>10. QED
  BY <1>1, <1>7, <1>8, <1>9, TurnKept DEF Turns, Ordered

\* Where user code runs, a call of dequeue under way has called some of its element.
LEMMA UserCalled ==
    ASSUME NEW s, Ordered(s), NEW e \in Elements, s.stack = <<>> \/ isCode(s.stack[1]),
           NEW j \in DOMAIN s.stack, takes(s.stack[j], e)
    PROVE  code(s, e)
<1>1. s.stack[j].fn = "dequeued" /\ s.stack[j].elem = e
  BY DEF takes
<1>2. PICK l \in DOMAIN s.stack \union {0} : Under(s, l, j)
  BY <1>1 DEF Nested, Ordered
<1>3. l # 0
  <2> SUFFICES ASSUME l = 0 PROVE FALSE
    OBVIOUS
  <2>1. s.stack \in Seq(Frames)
    BY DEF Ordered, Sound, Pages
  <2>2. j \in 1..Len(s.stack) /\ Len(s.stack) \in Nat /\ DOMAIN s.stack = 1..Len(s.stack)
    BY <2>1
  <2>3. 1 \in DOMAIN s.stack /\ 0 < 1 /\ 1 <= j
    BY <2>2
  <2>4. takes(s.stack[1], e)
    BY <1>1, <1>2, <2>3 DEF Under
  <2>5. s.stack # <<>>
    BY <2>2
  <2>6. QED
    BY <2>4, <2>5 DEF takes, isCode
<1>4. l \in DOMAIN s.stack /\ (ends(s, s.stack[l], e) \/ runs(s.stack[l], e))
  BY <1>1, <1>2, <1>3 DEF Under
<1>5. QED
  BY <1>4 DEF code, ends, runs, isCode

\* stop of e itself that cuts short.
LEMMA TurnsCut ==
    ASSUME NEW s, Sound(s), NEW t, Sound(t), NEW e \in Elements, Turns(s, e), owing(s, e) = {}, ~code(s, e),
           \A j \in DOMAIN s.stack : ~takes(s.stack[j], e),
           t.entries = s.entries, t.running = s.running, t.owed = s.owed,
           NEW f \in Frames, isShort(f), f.elem = e, NEW u, Sound(u), t.stack = <<f>> \o u.stack,
           DOMAIN u.stack = DOMAIN s.stack,
           \A j \in DOMAIN s.stack :
              \/ u.stack[j] = s.stack[j]
              \/ s.stack[j].fn = "dequeued" /\ u.stack[j].fn = "dequeued" /\ u.stack[j].elem = s.stack[j].elem
    PROVE  Turns(t, e)
<1>1. (\A x : of(t, x) = of(s, x)) /\ \A a : free(t, a) <=> free(s, a)
  BY DEF of, free
<1>2. busy(t, e) = busy(s, e) /\ owing(t, e) = {}
  BY <1>1 DEF busy, owing
<1>3. /\ 1 \in DOMAIN t.stack /\ t.stack[1] = f
      /\ \A j \in DOMAIN t.stack : j # 1 => j - 1 \in DOMAIN u.stack /\ t.stack[j] = u.stack[j - 1]
  <2>1. Over(u, t, f)
    BY Pushing
  <2>2. QED
    BY <2>1 DEF Over
<1>4. \A j \in DOMAIN u.stack : ~(isCode(u.stack[j]) /\ u.stack[j].elem = e) /\ ~takes(u.stack[j], e)
  BY DEF code, isCode, takes
<1>5. \A j \in DOMAIN t.stack : ~(isCode(t.stack[j]) /\ t.stack[j].elem = e) /\ ~takes(t.stack[j], e)
  BY <1>3, <1>4 DEF isShort, isCode, takes
<1>6. ~code(t, e) /\ cutting(t, e)
  BY <1>3, <1>5 DEF code, cutting
<1>7. \A j \in DOMAIN t.stack : ~ends(t, t.stack[j], e) /\ ~runs(t.stack[j], e)
  BY <1>5 DEF ends, runs, isCode
<1>8. \A a, b \in busy(t, e) \union owing(t, e) : a = b
  BY <1>2 DEF Turns, Turn
<1>9. Turn(t, e)
  BY <1>2, <1>5, <1>6, <1>7, <1>8 DEF Turn
<1>10. \A a \in of(t, e) : \A j \in DOMAIN t.stack : ~unmarks(t, t.stack[j], a)
  <2> SUFFICES ASSUME NEW a \in of(t, e), NEW j \in DOMAIN t.stack, unmarks(t, t.stack[j], a) PROVE FALSE
    OBVIOUS
  <2>1. a # 0 /\ Links(t, t.stack[j]) /\ t.stack[j].fn = "callback" /\ t.stack[j].entry = a
    BY EntryPositive DEF Sound, Linked, of, unmarks
  <2>2. t.stack[j].elem = e
    BY <2>1 DEF Links, of, isCode
  <2>3. QED
    BY <1>5, <2>1, <2>2 DEF isCode
<1>11. Marked(t, e)
  BY <1>6, <1>10 DEF Marked
<1>12. QED
  BY <1>9, <1>11 DEF Turns

LEMMA TurnsStops ==
    ASSUME NEW s, Ordered(s), NEW t, Sound(t), NEW e \in Elements, Turns(s, e), ~cutting(s, e),
           s.stack = <<>> \/ isCode(s.stack[1]), NEW d \in Elements, NEW clearFirst \in BOOLEAN, NEW gotoEnd \in BOOLEAN,
           d = e => owing(s, e) = {} /\ ~code(s, e),
           d = e /\ clearFirst /\ gotoEnd => ~turn(s, e),
           StopsFor(s, t, d, clearFirst, gotoEnd)
    PROVE  Turns(t, e)
<1>1. PICK u, v : StopsBy(s, u, v, t, d, clearFirst, gotoEnd)
  BY DEF StopsFor
<1> DEFINE f == StopFrame(d, gotoEnd, Len(v.timers))
<1>2. /\ Sound(u) /\ Sound(v) /\ ((clearFirst /\ Empties(s, u, d)) \/ (~clearFirst /\ u = s))
      /\ Same(u, v, {"timeouts", "mark"}) /\ v.mark = IF gotoEnd THEN u.mark ELSE [u.mark EXCEPT ![d] = 0]
      /\ Pushes(v, t, f) /\ Sound(s)
  BY <1>1 DEF StopsBy, Ordered
<1>3. f \in Frames /\ f.fn = "stop" /\ f.elem = d /\ f.gotoEnd = gotoEnd
  BY <1>2 DEF Pushes, StopFrame
<1> HIDE DEF f
<1>4. Alike(v, t) /\ Same(v, t, {"stack"}) /\ t.stack = <<f>> \o v.stack /\ v.stack = u.stack
  BY <1>2, AlikeSame DEF Pushes, Same, Fields
<1>5. ASSUME d = e, ~gotoEnd
      PROVE  Turns(t, e)
  <2>1. /\ DOMAIN u.stack = DOMAIN s.stack
        /\ \A j \in DOMAIN s.stack :
              \/ u.stack[j] = s.stack[j]
              \/ s.stack[j].fn = "dequeued" /\ u.stack[j].fn = "dequeued" /\ u.stack[j].elem = s.stack[j].elem
    BY <1>2 DEF Empties
  <2>2. u.entries = s.entries /\ u.running = s.running /\ u.owed = s.owed
    BY <1>2 DEF Empties, Same, Fields
  <2>3. t.entries = s.entries /\ t.running = s.running /\ t.owed = s.owed
    BY <1>2, <1>4, <2>2 DEF Same, Fields
  <2>4. isShort(f) /\ f.elem = e
    BY <1>3, <1>5 DEF isShort
  <2>5. \A j \in DOMAIN s.stack : ~takes(s.stack[j], e)
    BY <1>5, UserCalled
  <2>6. t.stack = <<f>> \o u.stack
    BY <1>4
  <2>7. QED
    BY <1>2, <1>3, <1>5, <2>1, <2>3, <2>4, <2>5, <2>6, TurnsCut
<1>6. ASSUME d # e \/ gotoEnd
      PROVE  Turns(t, e)
  <2>1. Turns(u, e) /\ ~cutting(u, e)
    <3>1. CASE clearFirst /\ Empties(s, u, d)
      BY <1>2, <1>6, <3>1, TurnsEmpties
    <3>2. CASE u = s
      BY <3>2
    <3>3. QED
      BY <1>2, <3>1, <3>2
  <2>2. v.mark[e] = u.mark[e]
    <3>1. u.mark \in [Elements -> Nat]
      BY <1>2 DEF Sound, Pages
    <3>2. QED
      BY <1>2, <1>6, <3>1
  <2>3. Alike(u, v) /\ Quiet(u, v, e)
    <3>1. v.entries = u.entries /\ v.running = u.running /\ v.owed = u.owed /\ v.queue = u.queue
      BY <1>2 DEF Same, Fields
    <3>2. Alike(u, v)
      BY <3>1 DEF Alike
    <3>3. QED
      BY <2>2, <3>1, <3>2 DEF Quiet, of, owing
  <2>4. Turns(v, e) /\ ~cutting(v, e)
    BY <1>2, <1>4, <2>1, <2>3, TurnSame DEF Turns
  <2>5. {"stack"} \subseteq Spared \ {"queue", "mark", "owed"}
    BY DEF Spared
  <2>6. Quiet(v, t, e)
    BY <1>4, <2>5, QuietSame
  <2>7. ~speaks(t, f, e) /\ ~cuts(f, e) /\ ~isCode(f)
    BY <1>3, <1>6 DEF speaks, takes, cuts, isShort, isCode
  <2>8. QED
    BY <1>2, <1>3, <1>4, <2>4, <2>6, <2>7, TurnPush DEF Turns
<1>7. QED
  BY <1>5, <1>6

\* Nothing that matters to turns changes but, perhaps, the frame of the loop on top.
LEMMA TurnsRetop ==
    ASSUME NEW s, Sound(s), s.stack # <<>>, isLoop(s.stack[1]), NEW t, Sound(t), NEW f, isLoop(f), Retops(s, t, f),
           NEW e \in Elements, Turns(s, e), cuts(f, e) <=> cuts(s.stack[1], e)
    PROVE  Turns(t, e) /\ (cutting(t, e) <=> cutting(s, e))
<1>1. /\ DOMAIN t.stack = DOMAIN s.stack /\ 1 \in DOMAIN t.stack /\ t.stack[1] = f
      /\ \A j \in DOMAIN s.stack : j # 1 => t.stack[j] = s.stack[j]
  BY Retopped
<1>2. {"stack"} \subseteq Spared \ {"queue", "mark", "owed"}
  BY DEF Spared
<1>3. Alike(s, t) /\ Quiet(s, t, e)
  BY <1>2, QuietSame DEF Retops
<1>4. ~speaks(t, f, e) /\ ~isCode(f)
  BY DEF isLoop, speaks, takes, isCode
<1>5. \A j \in DOMAIN s.stack :
         \/ t.stack[j] = s.stack[j]
         \/ /\ ~speaks(t, t.stack[j], e) /\ ~isCode(t.stack[j])
            /\ cuts(t.stack[j], e) <=> cuts(s.stack[j], e)
  BY <1>1, <1>4
<1>6. QED
  BY <1>1, <1>3, <1>5, TurnSame DEF Turns

\* Timers go, and animations with them.
LEMMA TurnsFewer ==
    ASSUME NEW s, Sound(s), NEW t, Sound(t), NEW e \in Elements, Turns(s, e),
           t.entries = s.entries, t.running \subseteq s.running, t.owed = s.owed, t.queue = s.queue, t.mark = s.mark,
           t.stack = s.stack
    PROVE  Turns(t, e) /\ (cutting(t, e) <=> cutting(s, e))
<1>1. Alike(s, t) /\ Quiet(s, t, e)
  BY DEF Alike, Quiet, of, owing
<1>2. QED
  BY <1>1, TurnSame DEF Turns

LEMMA TurnsRemoves ==
    ASSUME NEW s, Sound(s), s.stack # <<>>, isLoop(s.stack[1]), NEW t, Sound(t), NEW f, isLoop(f), NEW i,
           Removes(s, t, f, i), NEW e \in Elements, Turns(s, e), cuts(f, e) <=> cuts(s.stack[1], e)
    PROVE  Turns(t, e)
<1>1. PICK u : Sound(u) /\ Retops(s, u, f) /\ (t = u \/ Same(u, t, {"timers"}))
  BY DEF Removes
<1>2. Turns(u, e)
  BY <1>1, TurnsRetop
<1>3. CASE Same(u, t, {"timers"})
  BY <1>1, <1>2, <1>3, TurnsFewer DEF Same, Fields
<1>4. QED
  BY <1>1, <1>2, <1>3

LEMMA TurnsCuts ==
    ASSUME NEW s, Sound(s), s.stack # <<>>, isLoop(s.stack[1]), NEW t, Sound(t), NEW f, isLoop(f), NEW i,
           Cuts(s, t, f, i), NEW e \in Elements, Turns(s, e), cuts(f, e) <=> cuts(s.stack[1], e)
    PROVE  Turns(t, e)
<1>1. PICK u, v : /\ Sound(u) /\ Retops(s, u, f) /\ Sound(v) /\ Same(u, v, {"running", "cut"})
                  /\ v.running = s.running \ {s.timers[i].entry} /\ Same(v, t, {"timers"})
  BY DEF Cuts
<1>2. Turns(u, e)
  BY <1>1, TurnsRetop
<1>3. /\ u.running = s.running
      /\ v.entries = u.entries /\ v.owed = u.owed /\ v.queue = u.queue /\ v.mark = u.mark /\ v.stack = u.stack
      /\ t.entries = v.entries /\ t.owed = v.owed /\ t.queue = v.queue /\ t.mark = v.mark /\ t.stack = v.stack
      /\ t.running = v.running
  BY <1>1 DEF Same, Fields, Retops
<1>4. QED
  BY <1>1, <1>2, <1>3, TurnsFewer

\* An animation ends, and its callback is called.
LEMMA TurnsEnds ==
    ASSUME NEW u, Sound(u), NEW t, Sound(t), NEW e \in Elements, Turns(u, e), ~cutting(u, e),
           NEW d, NEW a \in of(u, d), a \in u.running, Alike(u, t), DOMAIN t.entries = DOMAIN u.entries,
           t.running = u.running \ {a}, t.owed = u.owed, t.queue = u.queue, t.mark = u.mark,
           NEW f \in Frames, f.fn = "callback", f.elem = d, f.entry = a, t.stack = <<f>> \o u.stack
    PROVE  Turns(t, e)
<1>1. (\A x : of(t, x) = of(u, x)) /\ (\A b \in DOMAIN u.entries : free(t, b) <=> free(u, b)) /\ a # 0
      /\ a \in DOMAIN u.entries
  BY EntryPositive DEF of, free, Alike, Sound
<1>2. /\ 1 \in DOMAIN t.stack /\ t.stack[1] = f
      /\ \A j \in DOMAIN u.stack : j + 1 \in DOMAIN t.stack /\ t.stack[j + 1] = u.stack[j]
      /\ \A j \in DOMAIN t.stack : j # 1 => j - 1 \in DOMAIN u.stack /\ t.stack[j] = u.stack[j - 1]
      /\ \A i, j \in DOMAIN t.stack : i - 1 = j - 1 => i = j
  <2>1. Over(u, t, f)
    BY Pushing
  <2>2. QED
    BY <2>1 DEF Over
<1>3. CASE d # e
  <2>1. Quiet(u, t, e)
    BY <1>1 DEF Quiet, owing
  <2>2. ~speaks(t, f, e) /\ ~cuts(f, e) /\ f.elem # e
    BY <1>3 DEF speaks, takes, cuts
  <2>3. QED
    BY <2>1, <2>2, TurnPush DEF Turns
<1>4. ASSUME d = e
      PROVE  ~cutting(t, e) /\ owing(t, e) = owing(u, e) /\ (\A b \in of(t, e) : free(t, b) <=> free(u, b))
             /\ u.mark[e] \in Nat /\ u.mark[e] <= t.mark[e]
             /\ \A b \in of(t, e) : free(t, b) /\ b \in t.running => b \in of(u, e) /\ free(u, b) /\ b \in u.running
  <2>1. ~cutting(t, e)
    BY <1>2 DEF cutting, isShort
  <2>2. owing(t, e) = owing(u, e)
    BY <1>1 DEF owing
  <2>3. \A b \in of(t, e) : free(t, b) <=> free(u, b)
    BY <1>1 DEF of
  <2>4. u.mark[e] \in Nat
    BY DEF Sound, Pages
  <2>5. QED
    BY <1>1, <2>1, <2>2, <2>3, <2>4
<1>5. ASSUME d = e, ~free(u, a)
      PROVE  Turns(t, e)
  <2>1. a \in busy(u, e)
    BY <1>5 DEF busy
  <2>2. (\A b \in busy(u, e) : b = a) /\ owing(u, e) = {} /\ turn(u, e) /\ \A j \in DOMAIN u.stack : ~ends(u, u.stack[j], e)
    BY <2>1 DEF Turns, Turn, turn
  <2>3. busy(t, e) = {}
    <3>1. \A b \in of(t, e) : free(t, b) <=> free(u, b)
      BY <1>4, <1>5
    <3>2. QED
      BY <1>1, <2>2, <3>1 DEF busy
  <2>4. \A j \in DOMAIN t.stack : ends(t, t.stack[j], e) => j = 1
    BY <1>2, <2>2, AlikeFree
  <2>5. t.queue[e] # <<>> /\ t.queue[e][1] = InProgress
    BY <2>2 DEF Turns, Turn
  <2>6. \A j \in DOMAIN t.stack : ~runs(t.stack[j], e)
    BY <1>2, <2>2 DEF Turns, Turn, runs
  <2>7. \A j \in DOMAIN t.stack : takes(t.stack[j], e) => t.stack[j].array = "shared"
    BY <1>2, <2>2 DEF Turns, Turn, takes
  <2>8. Turn(t, e)
    BY <1>4, <1>5, <2>2, <2>3, <2>4, <2>5, <2>6, <2>7 DEF Turn
  <2>9. \A j \in DOMAIN t.stack : \A b \in of(t, e) : unmarks(t, t.stack[j], b) =>
           b \in of(u, e) /\ free(u, b) /\ j - 1 \in DOMAIN u.stack /\ unmarks(u, u.stack[j - 1], b)
    BY <1>1, <1>2, <1>5, <1>4 DEF unmarks
  <2>10. Marked(t, e)
    BY <1>4, <1>5, <2>9, MarkedKept DEF Turns
  <2>11. QED
    BY <2>8, <2>10 DEF Turns
<1>6. ASSUME d = e, free(u, a)
      PROVE  Turns(t, e)
  <2>1. busy(t, e) = busy(u, e)
    <3>1. \A b \in of(t, e) : free(t, b) <=> free(u, b)
      BY <1>4, <1>6
    <3>2. QED
      BY <1>1, <1>6, <3>1 DEF busy
  <2>2. ~ends(t, f, e) /\ ~runs(f, e) /\ ~takes(f, e)
    BY <1>1, <1>6 DEF ends, runs, takes, queued
  <2>3. \A j \in DOMAIN t.stack : ends(t, t.stack[j], e) => j # 1 /\ j - 1 \in DOMAIN u.stack /\ ends(u, u.stack[j - 1], e)
    BY <1>2, <2>2, AlikeFree
  <2>4. \A i, j \in DOMAIN t.stack : ends(t, t.stack[i], e) /\ ends(t, t.stack[j], e) => i = j
    BY <1>2, <2>3 DEF Turns, Turn
  <2>5. (\E j \in DOMAIN t.stack : ends(t, t.stack[j], e)) => busy(t, e) = {} /\ owing(t, e) = {}
    BY <1>4, <1>6, <2>1, <2>3 DEF Turns, Turn
  <2>6. turn(t, e) => turn(u, e)
    BY <1>4, <1>6, <2>1, <2>3 DEF turn
  <2>7. turn(t, e) => t.queue[e] # <<>> /\ t.queue[e][1] = InProgress
    BY <2>6 DEF Turns, Turn
  <2>8. \A j \in DOMAIN t.stack : runs(t.stack[j], e) => t.stack[j].entry \in owing(t, e)
    BY <1>2, <1>4, <1>6, <2>2 DEF Turns, Turn
  <2>9. \A j \in DOMAIN t.stack : takes(t.stack[j], e) => (t.stack[j].array # "shared" => t.queue[e] = <<>> /\ ~turn(t, e))
    BY <1>2, <2>2, <2>6 DEF Turns, Turn
  <2>10. \A b \in owing(t, e) : ~free(t, b) /\ b \notin t.running
    <3>1. \A b \in owing(u, e) : ~free(u, b) /\ b \notin u.running /\ b \in of(t, e)
      BY <1>1 DEF Turns, Turn, owing
    <3>2. QED
      BY <1>4, <1>6, <3>1
  <2>11. \A b, c \in busy(t, e) \union owing(t, e) : b = c
    BY <1>4, <1>6, <2>1 DEF Turns, Turn
  <2>12. Turn(t, e)
    BY <1>4, <1>6, <2>4, <2>5, <2>7, <2>8, <2>9, <2>10, <2>11 DEF Turn
  <2>13. \A j \in DOMAIN u.stack : ~unmarks(u, u.stack[j], a)
    BY <1>6 DEF Turns, Marked
  <2>14. \A j \in DOMAIN t.stack : \A b \in of(t, e) : unmarks(t, t.stack[j], b) =>
            \/ b = a /\ j = 1
            \/ b # a /\ b \in of(u, e) /\ free(u, b) /\ j - 1 \in DOMAIN u.stack /\ unmarks(u, u.stack[j - 1], b)
    <3> SUFFICES ASSUME NEW j \in DOMAIN t.stack, NEW b \in of(t, e), unmarks(t, t.stack[j], b)
                 PROVE  \/ b = a /\ j = 1
                        \/ b # a /\ b \in of(u, e) /\ free(u, b) /\ j - 1 \in DOMAIN u.stack /\ unmarks(u, u.stack[j - 1], b)
      OBVIOUS
    <3>1. b \in of(u, e) /\ free(u, b)
      BY <1>1, <1>4, <1>6 DEF unmarks
    <3>2. CASE j = 1
      BY <1>2, <3>2 DEF unmarks
    <3>3. CASE j # 1
      <4>1. j - 1 \in DOMAIN u.stack /\ unmarks(u, u.stack[j - 1], b)
        BY <1>2, <3>1, <3>3 DEF unmarks
      <4>2. QED
        BY <2>13, <3>1, <4>1
    <3>4. QED
      BY <3>2, <3>3
  <2>15. ASSUME NEW b \in of(t, e), free(t, b)
         PROVE  /\ \A i, j \in DOMAIN t.stack : unmarks(t, t.stack[i], b) /\ unmarks(t, t.stack[j], b) => i = j
                /\ \A j \in DOMAIN t.stack : unmarks(t, t.stack[j], b) => b \notin t.running
    <3>1. CASE b = a
      BY <2>14, <3>1
    <3>2. CASE b # a
      <4>1. b \in of(u, e) /\ free(u, b)
        BY <1>1, <1>4, <1>6, <2>15
      <4>2. \A j \in DOMAIN t.stack : unmarks(t, t.stack[j], b) => j - 1 \in DOMAIN u.stack /\ unmarks(u, u.stack[j - 1], b)
        BY <2>14, <3>2
      <4>3. QED
        BY <1>2, <4>1, <4>2 DEF Turns, Marked
    <3>3. QED
      BY <3>1, <3>2
  <2>16. \A b \in counted(t, e) : b \in counted(u, e)
    <3> SUFFICES ASSUME NEW b \in counted(t, e) PROVE b \in counted(u, e)
      OBVIOUS
    <3>1. b \in of(t, e) /\ free(t, b) /\ (b \in t.running \/ \E j \in DOMAIN t.stack : unmarks(t, t.stack[j], b))
      BY DEF counted
    <3>2. b \in of(u, e) /\ free(u, b)
      BY <1>1, <1>4, <1>6, <3>1
    <3>3. b \in u.running \/ \E j \in DOMAIN u.stack : unmarks(u, u.stack[j], b)
      BY <2>14, <3>1
    <3>4. QED
      BY <3>2, <3>3 DEF counted
  <2>17. Cardinality(counted(t, e)) <= Cardinality(counted(u, e))
    BY <2>16, CountedFinite, FS_Subset
  <2>18. Cardinality(counted(u, e)) <= u.mark[e]
    BY DEF Turns, Marked
  <2>19. Cardinality(counted(t, e)) <= t.mark[e]
    BY <1>4, <1>6, <2>17, <2>18, CountedFinite
  <2>20. QED
    BY <2>12, <2>15, <2>19 DEF Turns, Marked
<1>7. QED
  BY <1>3, <1>5, <1>6

LEMMA TurnsRings ==
    ASSUME NEW s, Ordered(s), s.stack # <<>>, isLoop(s.stack[1]), NEW t, Sound(t), NEW f, isLoop(f), NEW i,
           Rings(s, t, f, i), s.timers[i].entry \in s.running, ~isShort(f), ~isShort(s.stack[1]),
           NEW e \in Elements, Turns(s, e), ~cutting(s, e)
    PROVE  Turns(t, e)
<1> DEFINE m == s.timers[i]
           a == m.entry
<1>1. PICK u : i \in DOMAIN s.timers /\ Sound(u) /\ Retops(s, u, f) /\ (Steps(u, t, m) \/ Ends(u, t, m))
  BY DEF Rings
<1>2. Alike(s, t)
  BY OrderedRings
<1>3. Turns(u, e) /\ ~cutting(u, e)
  BY <1>1, TurnsRetop DEF cuts, Ordered
<1>4. u.entries = s.entries /\ u.running = s.running /\ u.timers = s.timers
  BY <1>1 DEF Retops, Same, Fields
<1>5. m \in Timers /\ a \in of(u, m.elem) /\ a \in u.running
  <2>1. s.timers \in Seq(Timers)
    BY DEF Ordered, Sound, Pages
  <2>2. m \in Timers
    BY <1>1, <2>1
  <2>3. QED
    BY <1>1, <1>4, <2>2 DEF Sound, Linked
<1>6. Alike(u, t)
  BY <1>2, <1>4 DEF Alike
<1>7. CASE Steps(u, t, m)
  <2>1. /\ t.running = u.running /\ t.owed = u.owed /\ t.queue = u.queue /\ t.mark = u.mark /\ t.stack = u.stack
        /\ DOMAIN t.entries = DOMAIN u.entries
    BY <1>7 DEF Steps, Same, Fields
  <2>2. of(t, e) = of(u, e)
    BY <1>6, <2>1 DEF of, Alike
  <2>3. Quiet(u, t, e)
    BY <2>1, <2>2 DEF Quiet, owing
  <2>4. QED
    BY <1>1, <1>3, <1>6, <2>1, <2>3, TurnSame DEF Turns
<1>8. CASE Ends(u, t, m)
  <2> DEFINE g == Frame("callback", m.elem, a)
  <2>1. /\ t.running = u.running \ {a} /\ t.owed = u.owed /\ t.queue = u.queue /\ t.mark = u.mark
        /\ DOMAIN t.entries = DOMAIN u.entries /\ t.stack = <<g>> \o u.stack
    BY <1>8 DEF Ends, Same, Fields
  <2>2. g \in Frames /\ g.fn = "callback" /\ g.elem = m.elem /\ g.entry = a
    BY <1>5 DEF Timers, Frame, Frames, Codes
  <2> HIDE DEF g
  <2>3. QED
    BY <1>1, <1>3, <1>5, <1>6, <2>1, <2>2, TurnsEnds
<1>9. QED
  BY <1>1, <1>7, <1>8

\* A stop that cut short is through: no animation of its element is left.
LEMMA TurnsCutOff ==
    ASSUME FxAssumption, NEW s, Ordered(s), Served(s), s.stack # <<>>, isShort(s.stack[1]), s.stack[1].i = 0,
           NEW u, Sound(u), Pops(s, u), NEW e \in Elements, s.stack[1].elem = e, Turns(s, e)
    PROVE  Turns(u, e) /\ ~turn(u, e) /\ ~cutting(u, e)
<1>1. /\ u.entries = s.entries /\ u.running = s.running /\ u.owed = s.owed /\ u.queue = s.queue /\ u.mark = s.mark
  BY DEF Pops, Same, Fields
<1>2. s.stack \in Seq(Frames) /\ 1 \in DOMAIN s.stack
  BY TopFrame DEF Ordered, Sound
<1>3. /\ \A j \in DOMAIN u.stack : j + 1 \in DOMAIN s.stack /\ u.stack[j] = s.stack[j + 1] /\ j + 1 # 1
  <2>1. /\ DOMAIN u.stack = 1..(Len(s.stack) - 1)
        /\ \A j \in DOMAIN u.stack : j + 1 \in DOMAIN s.stack /\ u.stack[j] = s.stack[j + 1]
    BY <1>2, TailOf DEF Pops
  <2>2. \A j \in DOMAIN u.stack : j + 1 # 1
    BY <2>1
  <2>3. QED
    BY <2>1, <2>2
<1>4. isLoop(s.stack[1]) /\ LoopOK(s, s.stack[1]) /\ \A j \in DOMAIN s.stack : isShort(s.stack[j]) => j = 1
  BY <1>2 DEF Served, Looping, isShort, isLoop
<1>5. \A i \in DOMAIN s.timers : s.timers[i].elem # e
  <2>1. \A i \in DOMAIN s.timers : i > 0
    BY DEF Ordered, Sound, Pages
  <2>2. QED
    BY <1>4, <2>1 DEF LoopOK
<1>6. \A a \in of(s, e) : a \notin s.running
  <2> SUFFICES ASSUME NEW a \in of(s, e), a \in s.running PROVE FALSE
    OBVIOUS
  <2>1. \A i \in DOMAIN s.timers : s.timers[i].entry # a
    BY <1>5 DEF Ordered, Sound, Linked, of
  <2>2. \A p \in 1..Props : p \in s.entries[a].done
    BY <2>1 DEF Served, Timed
  <2>3. s.entries[a].done \subseteq 1..Props /\ s.entries[a].done # 1..Props
    BY DEF Served, Timed, of
  <2>4. QED
    BY <2>2, <2>3
<1>7. cutting(s, e)
  BY <1>2 DEF cutting
<1>8. owing(s, e) = {} /\ ~code(s, e) /\ \A j \in DOMAIN s.stack : ~takes(s.stack[j], e)
  BY <1>7 DEF Turns, Turn
<1>9. (\A x : of(u, x) = of(s, x)) /\ \A a : free(u, a) <=> free(s, a)
  BY <1>1 DEF of, free
<1>10. busy(u, e) = {} /\ owing(u, e) = {}
  BY <1>1, <1>6, <1>8, <1>9 DEF busy, owing
<1>11. \A j \in DOMAIN u.stack : ~(isCode(u.stack[j]) /\ u.stack[j].elem = e) /\ ~takes(u.stack[j], e)
  BY <1>3, <1>8 DEF code
<1>12. \A j \in DOMAIN u.stack : ~ends(u, u.stack[j], e) /\ ~runs(u.stack[j], e)
  BY <1>11 DEF ends, runs, isCode
<1>13. ~code(u, e) /\ ~turn(u, e)
  BY <1>10, <1>11, <1>12 DEF code, turn
<1>14. ~cutting(u, e)
  BY <1>3, <1>4 DEF cutting
<1>15. Turn(u, e)
  BY <1>10, <1>11, <1>12, <1>13, <1>14 DEF Turn
<1>16. \A a \in of(u, e) : a \notin u.running /\ \A j \in DOMAIN u.stack : ~unmarks(u, u.stack[j], a)
  <2> SUFFICES ASSUME NEW a \in of(u, e), NEW j \in DOMAIN u.stack, unmarks(u, u.stack[j], a) PROVE FALSE
    BY <1>1, <1>6, <1>9
  <2>1. a # 0 /\ Links(u, u.stack[j]) /\ u.stack[j].fn = "callback" /\ u.stack[j].entry = a
    BY EntryPositive DEF Sound, Linked, of, unmarks
  <2>2. u.stack[j].elem = e
    BY <2>1 DEF Links, of, isCode
  <2>3. QED
    BY <1>11, <2>1, <2>2 DEF isCode
<1>17. counted(u, e) = {}
  BY <1>16 DEF counted
<1>18. Cardinality(counted(u, e)) <= u.mark[e]
  <2>1. u.mark[e] \in Nat
    BY DEF Sound, Pages
  <2>2. QED
    BY <1>17, <2>1, FS_EmptySet
<1>19. Marked(u, e)
  BY <1>16, <1>18 DEF Marked
<1>20. QED
  BY <1>13, <1>14, <1>15, <1>19 DEF Turns

LEMMA TurnsStopLoops ==
    ASSUME FxAssumption, NEW s, Ordered(s), Served(s), s.stack # <<>>, s.stack[1] \in Stops, NEW t, Sound(t),
           StopLoops(s, t), NEW e \in Elements, Turns(s, e), e \notin t.raised
    PROVE  Turns(t, e)
<1> DEFINE f == s.stack[1]
           g == [f EXCEPT !.i = f.i - 1]
           h == [f EXCEPT !.ended = FALSE, !.i = f.i - 1]
           k == [f EXCEPT !.ended = TRUE]
<1>1. f.fn = "stop" /\ f.elem \in Elements /\ f.gotoEnd \in BOOLEAN /\ f.i \in Nat /\ f.ended \in BOOLEAN
  BY DEF Stops
<1>2. /\ g.fn = "stop" /\ g.elem = f.elem /\ g.gotoEnd = f.gotoEnd
      /\ h.fn = "stop" /\ h.elem = f.elem /\ h.gotoEnd = f.gotoEnd
      /\ k.fn = "stop" /\ k.elem = f.elem /\ k.gotoEnd = f.gotoEnd
  BY <1>1 DEF Stops
<1>3. \/ f.ended /\ Removes(s, t, h, f.i)
      \/ ~f.ended /\ f.i = 0 /\ \E u : /\ Sound(u) /\ Pops(s, u)
                                      /\ \/ f.gotoEnd /\ t = u
                                         \/ ~f.gotoEnd /\ Dequeued(u, t, f.elem)
      \/ ~f.ended /\ f.i > Len(s.timers) /\ Unwinds(s, t)
      \/ /\ ~f.ended /\ f.i \in DOMAIN s.timers
         /\ \/ s.timers[f.i].elem # f.elem /\ Retops(s, t, g)
            \/ s.timers[f.i].elem = f.elem /\ f.gotoEnd /\ Rings(s, t, k, f.i)
            \/ s.timers[f.i].elem = f.elem /\ ~f.gotoEnd /\ Cuts(s, t, g, f.i)
  BY DEF StopLoops
<1> HIDE DEF g, h, k
<1>4. isLoop(f) /\ isLoop(g) /\ isLoop(h) /\ isLoop(k) /\ (cuts(g, e) <=> cuts(f, e)) /\ (cuts(h, e) <=> cuts(f, e))
  BY <1>1, <1>2 DEF isLoop, cuts, isShort
<1>5. LoopOK(s, f) /\ 1 \in DOMAIN s.stack /\ \A j \in DOMAIN s.stack : isLoop(s.stack[j]) => j = 1
  BY <1>4, ServedLoop, TopFrame DEF Ordered, Sound
<1>6. cutting(s, e) <=> cuts(f, e)
  BY <1>5 DEF cutting, cuts, isShort, isLoop
<1>7. CASE f.ended /\ Removes(s, t, h, f.i)
  BY <1>4, <1>7, TurnsRemoves DEF Ordered
<1>8. ASSUME ~f.ended, f.i = 0, NEW u, Sound(u), Pops(s, u),
             (f.gotoEnd /\ t = u) \/ (~f.gotoEnd /\ Dequeued(u, t, f.elem))
      PROVE  Turns(t, e)
  <2>1. {"stack"} \subseteq Spared \ {"queue"}
    BY DEF Spared
  <2>2. Ordered(u)
    BY <1>8, <2>1, OrderedPop DEF Pops
  <2>3. CASE ~cuts(f, e)
    <3>1. Turns(u, e) /\ ~cutting(u, e)
      BY <1>6, <1>8, <2>3, TurnsPopped DEF Ordered
    <3>2. CASE t = u
      BY <3>1, <3>2
    <3>3. CASE ~f.gotoEnd /\ Dequeued(u, t, f.elem)
      <4>1. f.elem # e
        BY <1>1, <2>3, <3>3 DEF cuts, isShort
      <4>2. QED
        BY <1>1, <2>2, <3>1, <3>3, <4>1, TurnsDequeued
    <3>4. QED
      BY <1>8, <3>2, <3>3
  <2>4. CASE cuts(f, e)
    <3>1. isShort(f) /\ f.elem = e /\ ~f.gotoEnd
      BY <2>4 DEF cuts, isShort
    <3>2. Turns(u, e) /\ ~turn(u, e) /\ ~cutting(u, e)
      BY <1>8, <3>1, TurnsCutOff
    <3>3. QED
      BY <1>8, <2>2, <3>1, <3>2, TurnsDequeued
  <2>5. QED
    BY <2>3, <2>4
<1>9. ASSUME Retops(s, t, g)
      PROVE  Turns(t, e)
  BY <1>4, <1>9, TurnsRetop DEF Ordered
<1>10. ASSUME ~f.ended, f.gotoEnd, f.i \in DOMAIN s.timers, Rings(s, t, k, f.i)
       PROVE  Turns(t, e)
  <2>1. ~isShort(f) /\ ~isShort(k)
    BY <1>2, <1>10 DEF isShort
  <2>2. s.timers[f.i].entry \in s.running
    BY <1>4, <1>5, <1>10, <2>1, CalmUnderLoop DEF Calm, Ordered
  <2>3. ~cutting(s, e)
    BY <1>6, <2>1 DEF cuts
  <2>4. QED
    BY <1>4, <1>10, <2>1, <2>2, <2>3, TurnsRings
<1>11. ASSUME Cuts(s, t, g, f.i)
       PROVE  Turns(t, e)
  BY <1>4, <1>11, TurnsCuts DEF Ordered
<1>12. CASE Unwinds(s, t)
  BY <1>12, TurnsUnwinds
<1>13. QED
  BY <1>3, <1>7, <1>8, <1>9, <1>10, <1>11, <1>12

LEMMA TurnsTickLoops ==
    ASSUME NEW s, Ordered(s), Served(s), s.stack # <<>>, s.stack[1] \in Ticks, NEW t, Sound(t),
           TickLoops(s, t), NEW e \in Elements, Turns(s, e)
    PROVE  Turns(t, e)
<1> DEFINE f == s.stack[1]
           g == [f EXCEPT !.i = f.i + 1]
           h == [f EXCEPT !.ended = FALSE]
           k == [f EXCEPT !.ended = TRUE]
<1>1. f.fn = "tick" /\ f.i \in Nat \ {0} /\ f.ended \in BOOLEAN
  BY DEF Ticks
<1>2. g.fn = "tick" /\ h.fn = "tick" /\ k.fn = "tick"
  BY <1>1 DEF Ticks
<1>3. \/ f.ended /\ Removes(s, t, h, f.i)
      \/ Same(s, t, {"stack", "timerId"}) /\ t.stack = Tail(s.stack)
      \/ Retops(s, t, g)
      \/ ~f.ended /\ Rings(s, t, k, f.i)
  BY DEF TickLoops
<1> HIDE DEF g, h, k
<1>4. /\ isLoop(f) /\ isLoop(g) /\ isLoop(h) /\ isLoop(k) /\ ~isShort(f) /\ ~isShort(k)
      /\ ~cuts(f, e) /\ ~cuts(g, e) /\ ~cuts(h, e)
  BY <1>1, <1>2 DEF isLoop, cuts, isShort
<1>5. 1 \in DOMAIN s.stack /\ \A j \in DOMAIN s.stack : isLoop(s.stack[j]) => j = 1
  BY <1>4, ServedLoop, TopFrame DEF Ordered, Sound
<1>6. ~cutting(s, e)
  BY <1>4, <1>5 DEF cutting, isShort, isLoop
<1>7. CASE Removes(s, t, h, f.i)
  BY <1>4, <1>7, TurnsRemoves DEF Ordered
<1>8. CASE Same(s, t, {"stack", "timerId"}) /\ t.stack = Tail(s.stack)
  <2>1. {"stack", "timerId"} \subseteq Spared \ {"queue", "mark", "owed"}
    BY DEF Spared
  <2>2. Alike(s, t) /\ Quiet(s, t, e)
    BY <1>8, <2>1, QuietSame
  <2>3. QED
    BY <1>4, <1>8, <2>2, TurnPop DEF Turns, Ordered
<1>9. CASE Retops(s, t, g)
  BY <1>4, <1>9, TurnsRetop DEF Ordered
<1>10. CASE ~f.ended /\ Rings(s, t, k, f.i)
  <2>1. f.i \in DOMAIN s.timers
    BY <1>10 DEF Rings
  <2>2. s.timers[f.i].entry \in s.running
    BY <1>4, <1>5, <1>10, <2>1, CalmUnderLoop DEF Calm, Ordered
  <2>3. QED
    BY <1>4, <1>6, <1>10, <2>2, TurnsRings
<1>11. QED
  BY <1>3, <1>7, <1>8, <1>9, <1>10

\* The browser calls when the stack is empty, and what it calls first is not of a queue.
LEMMA TurnsCalled ==
    ASSUME NEW s, Sound(s), NEW t, Sound(t), NEW e \in Elements, Turns(s, e), s.stack = <<>>,
           t.entries = s.entries, t.running = s.running, t.owed = s.owed, t.queue = s.queue, t.mark = s.mark,
           t.stack = <<>> \/ \E f \in Frames : t.stack = <<f>> /\ ~speaks(t, f, e) /\ ~cuts(f, e)
    PROVE  Turns(t, e)
<1>1. Alike(s, t) /\ Quiet(s, t, e)
  BY DEF Alike, Quiet, of, owing
<1>2. CASE t.stack = <<>>
  BY <1>1, <1>2, TurnSame DEF Turns
<1>3. ASSUME NEW f \in Frames, t.stack = <<f>>, ~speaks(t, f, e), ~cuts(f, e)
      PROVE  Turns(t, e)
  <2>1. t.stack = <<f>> \o s.stack
    BY <1>3
  <2>2. ~cutting(s, e)
    BY DEF cutting
  <2>3. QED
    BY <1>1, <1>3, <2>1, <2>2, TurnPush DEF Turns
<1>4. QED
  BY <1>2, <1>3

\* dequeue neither takes a promise from those that wait nor leaves any code.
LEMMA PendingStarts ==
    ASSUME NEW s, NEW t, NEW e, NEW a, Starts(s, t, e, a)
    PROVE  t.pending = s.pending /\ t.raised = s.raised
<1>1. CASE Delays(s, t, a)
  BY <1>1 DEF Delays, Same, Fields
<1>2. CASE Calls(s, t, e, a)
  BY <1>2 DEF Calls, Same, Fields
<1>3. CASE ShowsAtOnce(s, t, e, a)
  BY <1>3 DEF ShowsAtOnce, Same, Fields
<1>4. CASE Begins(s, t, e, a)
  BY <1>4 DEF Begins, Same, Fields
<1>5. QED
  BY <1>1, <1>2, <1>3, <1>4 DEF Starts

LEMMA PendingDequeued ==
    ASSUME NEW s, NEW t, NEW e, Dequeued(s, t, e)
    PROVE  t.pending = s.pending /\ t.raised = s.raised
<1>1. CASE Empties(s, t, e)
  BY <1>1 DEF Empties, Same, Fields
<1>2. ASSUME NEW u, NEW a, Takes(s, u, e, a), Starts(u, t, e, a)
      PROVE  t.pending = s.pending /\ t.raised = s.raised
  <2>1. u.pending = s.pending /\ u.raised = s.raised
    BY <1>2 DEF Takes, Same, Fields
  <2>2. t.pending = u.pending /\ t.raised = u.raised
    BY <1>2, PendingStarts
  <2>3. QED
    BY <2>1, <2>2
<1>3. QED
  BY <1>1, <1>2 DEF Dequeued

LEMMA EnqueueKeeps ==
    ASSUME NEW s, NEW t, NEW e, NEW kind, Enqueues(s, t, e, kind)
    PROVE  t.pending = s.pending /\ t.raised = s.raised
<1>1. PICK u, a : /\ Adds(s, u, e, kind, a)
                  /\ IF kind = "empty" THEN Pushes(u, t, Frame("callback", e, a))
                     ELSE IF kind = "free"
                     THEN \E v : Same(u, v, {"mark"}) /\ Starts(v, t, e, a)
                     ELSE \E v : Joins(u, v, e, a) /\ (t = v \/ Dequeued(v, t, e))
  BY DEF Enqueues
<1>2. u.pending = s.pending /\ u.raised = s.raised
  BY <1>1 DEF Adds, Same, Fields
<1>3. CASE kind = "empty"
  BY <1>1, <1>2, <1>3 DEF Pushes, Same, Fields
<1>4. CASE kind = "free"
  <2>1. PICK v : Same(u, v, {"mark"}) /\ Starts(v, t, e, a)
    BY <1>1, <1>4
  <2>2. v.pending = u.pending /\ v.raised = u.raised
    BY <2>1 DEF Same, Fields
  <2>3. QED
    BY <1>2, <2>1, <2>2, PendingStarts
<1>5. CASE kind \notin {"free", "empty"}
  <2>1. PICK v : Joins(u, v, e, a) /\ (t = v \/ Dequeued(v, t, e))
    BY <1>1, <1>5
  <2>2. v.pending = u.pending /\ v.raised = u.raised
    BY <2>1 DEF Joins, Same, Fields
  <2>3. QED
    BY <1>2, <2>1, <2>2, PendingDequeued
<1>6. QED
  BY <1>3, <1>4, <1>5

\* The elements whose code an exception left remain so.
LEMMA RaisedGrows ==
    ASSUME FxAssumption, SoundInv, [Next]_vars
    PROVE  page.raised \subseteq page'.raised
<1>1. Sound(page) /\ calls \in Nat
  BY DEF SoundInv
<1>2. ASSUME NEW d \in Elements, NEW kind \in Kinds, enqueue(d, kind)
      PROVE  page'.raised = page.raised
  <2>1. Enqueues(page, page', d, kind)
    BY <1>1, <1>2, EnqueueStep
  <2>2. QED
    BY <2>1, EnqueueKeeps
<1>3. ASSUME NEW d \in Elements, NEW clearFirst \in BOOLEAN, NEW gotoEnd \in BOOLEAN, stop(d, clearFirst, gotoEnd)
      PROVE  page'.raised = page.raised
  <2>1. StopsFor(page, page', d, clearFirst, gotoEnd)
    BY <1>1, <1>3, StopStep
  <2>2. QED
    BY <2>1 DEF StopsFor, StopsBy, Empties, Pushes, Same, Fields
<1>4. ASSUME NEW d \in Elements, clearQueue(d)
      PROVE  page'.raised = page.raised
  BY <1>1, <1>4, ClearStep DEF Empties, Same, Fields
<1>5. ASSUME NEW d \in Elements, promise(d)
      PROVE  page'.raised = page.raised
  BY <1>1, <1>5, PromiseStep DEF Same, Fields
<1>d. ASSUME NEW d \in Elements, toggleAtOnce(d)
      PROVE  page'.raised = page.raised
  BY <1>1, <1>d, DisplayStep DEF Displays, Same, Fields
<1>6. CASE Call
  BY <1>2, <1>3, <1>4, <1>5, <1>d, <1>6 DEF Call
<1>7. ASSUME NEW a \in Ids, next(a)
      PROVE  page'.raised = page.raised
  <2>1. NextStarts(page, page', a)
    BY <1>1, <1>7, NextStep
  <2>2. QED
    BY <2>1, PendingDequeued DEF NextStarts, Same, Fields
<1>8. CASE dequeued \/ complete \/ fnReturns
  <2>1. Returns(page, page')
    BY <1>1, <1>8, ReturnStep
  <2>2. QED
    BY <2>1, PendingDequeued DEF Returns, Pops, Empties, Same, Fields
<1>9. CASE stopLoop
  <2>1. StopLoops(page, page')
    BY <1>1, <1>9, StopLoopStep
  <2>2. page'.raised = page.raised \/ Unwinds(page, page')
    BY <2>1, PendingDequeued DEF StopLoops, Pops, Retops, Removes, Rings, Steps, Ends, Cuts, Same, Fields
  <2>3. QED
    BY <2>2 DEF Unwinds
<1>10. CASE tick
  <2>1. TickLoops(page, page')
    BY <1>1, <1>10, TickStep
  <2>2. QED
    BY <2>1 DEF TickLoops, Retops, Removes, Rings, Steps, Ends, Same, Fields
<1>t. CASE throw
  BY <1>1, <1>t, ThrowStep DEF Unwinds
<1>r. CASE resolve
  BY <1>1, <1>r, ResolveStep DEF Resolves, Same, Fields
<1>11. ASSUME NEW due, raf(due)
       PROVE  page'.raised = page.raised
  BY <1>1, <1>11, RafStep DEF Framed, Same, Fields
<1>12. CASE UNCHANGED vars
  BY <1>12 DEF vars
<1>13. QED
  BY <1>6, <1>7, <1>8, <1>9, <1>10, <1>t, <1>r, <1>11, <1>12 DEF Next, Library

LEMMA OwesTurn ==
    ASSUME NEW e
    PROVE  /\ Owes(e) <=> owing(page, e) # {} \/ code(page, e)
           /\ HasTurn(e) <=> Owes(e) \/ busy(page, e) # {}
           /\ ~HasTurn(e) => ~turn(page, e)
<1>1. Of(e) = of(page, e)
  BY DEF Of, Ids, of
<1>2. CodeOf(e) <=> code(page, e)
  BY DEF CodeOf, CodeIn, code, isCode
<1>3. (page.owed \cap Of(e)) # {} <=> owing(page, e) # {}
  BY <1>1 DEF owing
<1>4. Owes(e) <=> owing(page, e) # {} \/ code(page, e)
  BY <1>2, <1>3 DEF Owes, Owed
<1>5. (\E a \in RunningOn(e) : page.entries[a].kind # "free") <=> busy(page, e) # {}
  BY <1>1 DEF RunningOn, busy, free
<1>6. HasTurn(e) <=> Owes(e) \/ busy(page, e) # {}
  BY <1>5 DEF HasTurn, Busy
<1>7. (\E j \in DOMAIN page.stack : ends(page, page.stack[j], e)) => code(page, e)
  BY DEF ends, code, isCode
<1>8. ~HasTurn(e) => ~turn(page, e)
  BY <1>4, <1>6, <1>7 DEF turn
<1>9. QED
  BY <1>4, <1>6, <1>8

\* It holds for the elements whose turn user code never took and whose code no
\* exception left.
TurnsInv == \A e \in Elements \ (skipped \union page.raised) : Turns(page, e)

\* The inductive invariant.
FxInv == ServedInv /\ Ordered(page) /\ (~stoppedInside => TurnsInv)

LEMMA FxInit == FxAssumption /\ Init => FxInv
<1> SUFFICES ASSUME FxAssumption, Init PROVE FxInv
  OBVIOUS
<1>1. ServedInv /\ Sound(page)
  BY ServedInit DEF ServedInv, SoundInv
<1>2. page.stack = <<>> /\ page.running = {} /\ page.owed = {} /\ \A e \in Elements : page.queue[e] = <<>> /\ page.mark[e] = 0
  BY DEF Init
<1>3. Ordered(page)
  BY <1>1, <1>2 DEF Ordered, Apart, Nested
<1>4. ASSUME NEW e \in Elements
      PROVE  Turns(page, e)
  <2>1. busy(page, e) = {} /\ owing(page, e) = {} /\ counted(page, e) = {}
    BY <1>2 DEF busy, owing, counted
  <2>2. ~turn(page, e) /\ ~cutting(page, e)
    BY <1>2, <2>1 DEF turn, cutting
  <2>3. Turn(page, e)
    BY <1>2, <2>1, <2>2 DEF Turn
  <2>4. Marked(page, e)
    BY <1>2, <2>1, FS_EmptySet DEF Marked
  <2>5. QED
    BY <2>3, <2>4 DEF Turns
<1>5. QED
  BY <1>1, <1>3, <1>4 DEF FxInv, TurnsInv

LEMMA FxStep == FxAssumption /\ FxInv /\ [Next]_vars => FxInv'
<1> SUFFICES ASSUME FxAssumption, FxInv, [Next]_vars PROVE FxInv'
  OBVIOUS
<1>1. /\ ServedInv /\ SoundInv /\ Sound(page) /\ Ordered(page) /\ calls \in Nat
      /\ ServedInv' /\ Sound(page') /\ Ordered(page')
  <2>1. ServedInv /\ SoundInv /\ Sound(page) /\ Ordered(page) /\ calls \in Nat
    BY DEF FxInv, ServedInv, SoundInv
  <2>2. ServedInv'
    BY <2>1, ServedStep
  <2>3. Ordered(page')
    BY <2>1, OrderedStep
  <2>4. QED
    BY <2>1, <2>2, <2>3 DEF Ordered
<1>r. page.raised \subseteq page'.raised
  BY <1>1, RaisedGrows
<1> DEFINE Kept == \A e \in Elements \ (skipped' \union page'.raised) : Turns(page', e)
<1> SUFFICES ASSUME ~stoppedInside' PROVE Kept
  BY <1>1 DEF FxInv, TurnsInv, Ordered, Apart, Nested, Under, takes, ends, runs, free, mute, queued, Turns, Turn,
              Marked, cutting, busy, owing, code, unmarks, counted, turn, isCode, isShort, of
<1>2. CASE Call
  <2>1. (page.stack = <<>> \/ isCode(page.stack[1])) /\ UserCode
    BY <1>1, <1>2, UserTop DEF Call
  <2>2. ASSUME ~stoppedInside, NEW e
        PROVE  ~cutting(page, e)
    <3>1. Served(page)
      BY <2>2 DEF FxInv, ServedInv
    <3>2. QED
      BY <1>1, <2>1, <3>1, UserNoShort DEF NoShort, cutting
  <2>3. ASSUME NEW d \in Elements, NEW kind \in Kinds, enqueue(d, kind), UNCHANGED <<skipped, stoppedInside>>
        PROVE  Kept
    <3>1. Enqueues(page, page', d, kind)
      BY <1>1, <2>3, EnqueueStep
    <3> SUFFICES ASSUME NEW e \in Elements \ (skipped \union page.raised) PROVE Turns(page', e)
      BY <1>r, <2>3
    <3>2. ~stoppedInside
      BY <2>3
    <3>3. Turns(page, e) /\ ~cutting(page, e)
      BY <2>2, <3>2 DEF FxInv, TurnsInv
    <3>4. QED
      BY <1>1, <2>1, <3>1, <3>3, TurnsEnqueues
  <2>4. ASSUME NEW d \in Elements, NEW clearFirst \in BOOLEAN, NEW gotoEnd \in BOOLEAN,
               stop(d, clearFirst, gotoEnd)
        PROVE  Kept
    <3>1. StopsFor(page, page', d, clearFirst, gotoEnd)
      BY <1>1, <2>4, StopStep
    <3> SUFFICES ASSUME NEW e \in Elements \ (skipped' \union page.raised) PROVE Turns(page', e)
      BY <1>r
    <3>2. ~stoppedInside /\ e \notin skipped /\ (d = e => ~Owes(e)) /\ (d = e /\ clearFirst /\ gotoEnd => ~HasTurn(e))
      BY <2>4 DEF stop
    <3>3. Turns(page, e) /\ ~cutting(page, e)
      BY <2>2, <3>2 DEF FxInv, TurnsInv
    <3>4. (d = e => owing(page, e) = {} /\ ~code(page, e)) /\ (d = e /\ clearFirst /\ gotoEnd => ~turn(page, e))
      BY <3>2, OwesTurn
    <3>5. QED
      BY <1>1, <2>1, <3>1, <3>3, <3>4, TurnsStops
  <2>5. ASSUME NEW d \in Elements, clearQueue(d)
        PROVE  Kept
    <3>1. Empties(page, page', d)
      BY <1>1, <2>5, ClearStep
    <3> SUFFICES ASSUME NEW e \in Elements \ (skipped' \union page.raised) PROVE Turns(page', e)
      BY <1>r
    <3>2. ~stoppedInside /\ e \notin skipped /\ (d = e => ~HasTurn(e))
      BY <2>5 DEF clearQueue
    <3>3. Turns(page, e) /\ (d = e => ~turn(page, e))
      BY <3>2, OwesTurn DEF FxInv, TurnsInv
    <3>4. QED
      BY <1>1, <3>1, <3>3, TurnsEmpties
  <2>6. ASSUME NEW d \in Elements, promise(d), UNCHANGED <<skipped, stoppedInside>>
        PROVE  Kept
    <3>1. Same(page, page', {"defer", "pending"})
      BY <1>1, <2>6, PromiseStep
    <3>2. {"defer", "pending"} \subseteq Spared \ {"queue", "mark", "owed", "stack"}
      BY DEF Spared
    <3> SUFFICES ASSUME NEW e \in Elements \ (skipped \union page.raised) PROVE Turns(page', e)
      BY <1>r, <2>6
    <3>3. Turns(page, e)
      BY <2>6 DEF FxInv, TurnsInv
    <3>4. QED
      BY <1>1, <3>1, <3>2, <3>3, TurnsSpared
  <2>d. ASSUME NEW d \in Elements, toggleAtOnce(d), UNCHANGED <<skipped, stoppedInside>>
        PROVE  Kept
    <3>1. Same(page, page', {"look"})
      BY <1>1, <2>d, DisplayStep DEF Displays
    <3>2. {"look"} \subseteq Spared \ {"queue", "mark", "owed", "stack"}
      BY DEF Spared
    <3> SUFFICES ASSUME NEW e \in Elements \ (skipped \union page.raised) PROVE Turns(page', e)
      BY <1>r, <2>d
    <3>3. Turns(page, e)
      BY <2>d DEF FxInv, TurnsInv
    <3>4. QED
      BY <1>1, <3>1, <3>2, <3>3, TurnsSpared
  <2>7. QED
    BY <1>2, <2>3, <2>4, <2>5, <2>6, <2>d DEF Call
<1>3. ASSUME NEW a \in Ids, next(a)
      PROVE  Kept
  <2>1. page.entries[a].elem \in Elements /\ NextStarts(page, page', a) /\ a \in page.owed /\ UserCode
    BY <1>1, <1>3, NextStep DEF next, UserCode
  <2> SUFFICES ASSUME NEW e \in Elements \ (skipped' \union page.raised) PROVE Turns(page', e)
    BY <1>r
  <2>2. ~stoppedInside /\ e \notin skipped /\ (page.entries[a].elem = e => ~CodeOf(e))
    BY <1>3 DEF next
  <2>3. Turns(page, e) /\ Served(page)
    BY <2>2 DEF FxInv, TurnsInv, ServedInv
  <2>4. ~cutting(page, e)
    BY <1>1, <2>1, <2>3, UserNoShort DEF NoShort, cutting
  <2>5. CodeOf(e) <=> code(page, e)
    BY DEF CodeOf, CodeIn, code, isCode
  <2>6. QED
    BY <1>1, <2>1, <2>2, <2>3, <2>4, <2>5, TurnsNext
<1>4. CASE Library
  <2>1. ~stoppedInside /\ skipped \subseteq skipped'
    BY <1>4 DEF Library, complete
  <2> SUFFICES ASSUME NEW e \in Elements, e \notin skipped', e \notin page'.raised PROVE Turns(page', e)
    OBVIOUS
  <2>r. e \notin skipped /\ e \notin page.raised
    BY <1>r, <2>1
  <2>2. Turns(page, e) /\ Served(page)
    BY <2>1, <2>r DEF FxInv, TurnsInv, ServedInv
  <2>3. CASE dequeued \/ complete \/ fnReturns
    <3>1. page.stack # <<>> /\ Returns(page, page')
      BY <1>1, <2>3, ReturnStep
    <3>2. 1 \in DOMAIN page.stack /\ ~isShort(page.stack[1])
      BY <1>1, <2>3, TopFrame DEF Sound, dequeued, complete, fnReturns, At, Top, isShort
    <3>3. ~cutting(page, e)
      BY <2>2, <3>2, NotShort DEF NoShort, cutting
    <3>4. ASSUME page.stack[1].fn = "callback", page.stack[1].entry # 0, mute(page, page.stack[1].entry),
                 page.stack[1].elem = e
          PROVE  ~turn(page, e)
      <4>1. complete /\ Top = page.stack[1]
        BY <2>3, <3>1, <3>4 DEF dequeued, fnReturns, At, Top
      <4>2. ~Owed(e) /\ ~Busy(e) /\ ~CodeIn(Tail(page.stack), e)
        BY <3>4, <4>1 DEF complete, mute
      <4>3. busy(page, e) = {} /\ owing(page, e) = {}
        BY <4>2 DEF Owed, Busy, RunningOn, Of, Ids, busy, owing, of, free
      <4>4. ASSUME NEW j \in DOMAIN page.stack, ends(page, page.stack[j], e)
            PROVE  FALSE
        <5>1. j # 1
          BY <3>4, <4>4 DEF ends, queued
        <5>2. page.stack \in Seq(Frames)
          BY <1>1 DEF Sound, Pages
        <5>3. j - 1 \in DOMAIN Tail(page.stack) /\ Tail(page.stack)[j - 1] = page.stack[j]
          BY <3>1, <5>1, <5>2
        <5>4. QED
          BY <4>2, <4>4, <5>3 DEF CodeIn, ends
      <4>5. QED
        BY <4>3, <4>4 DEF turn
    <3>5. QED
      BY <1>1, <2>2, <3>1, <3>3, <3>4, TurnsReturns
  <2>4. CASE stopLoop
    BY <1>1, <2>2, <2>4, StopLoopStep, TurnsStopLoops
  <2>5. CASE tick
    BY <1>1, <2>2, <2>5, TickStep, TurnsTickLoops
  <2>6. QED
    BY <1>4, <2>3, <2>4, <2>5 DEF Library
<1>t. CASE throw
  <2>1. ~stoppedInside /\ skipped' = skipped /\ Unwinds(page, page')
    BY <1>1, <1>t, ThrowStep DEF throw
  <2> SUFFICES ASSUME NEW e \in Elements, e \notin skipped, e \notin page'.raised PROVE Turns(page', e)
    BY <2>1
  <2>2. Turns(page, e)
    BY <1>r, <2>1 DEF FxInv, TurnsInv
  <2>3. QED
    BY <1>1, <2>1, <2>2, TurnsUnwinds
<1>5. CASE resolve
  <2>1. ~stoppedInside /\ skipped' = skipped
    BY <1>5 DEF resolve
  <2> SUFFICES ASSUME NEW e \in Elements \ (skipped \union page.raised) PROVE Turns(page', e)
    BY <1>r, <2>1
  <2>2. Turns(page, e) /\ Resolves(page, page')
    BY <1>1, <1>5, <2>1, ResolveStep DEF FxInv, TurnsInv
  <2>3. /\ page.stack = <<>> /\ page'.entries = page.entries /\ page'.running = page.running /\ page'.owed = page.owed
        /\ page'.queue = page.queue /\ page'.mark = page.mark
    BY <2>2 DEF Resolves, Same, Fields
  <2>4. page'.stack = <<>> \/ \E p \in Promises : page'.stack = <<Frame("callback", p.elem, 0)>>
    BY <2>2 DEF Resolves, Same, Fields
  <2>5. ASSUME NEW p \in Promises
        PROVE  LET f == Frame("callback", p.elem, 0) IN f \in Frames /\ ~speaks(page', f, e) /\ ~cuts(f, e)
    BY DEF Promises, Frame, Frames, Codes, speaks, takes, cuts, isShort, isCode
  <2>6. page'.stack = <<>> \/ \E f \in Frames : page'.stack = <<f>> /\ ~speaks(page', f, e) /\ ~cuts(f, e)
    BY <2>4, <2>5
  <2>7. QED
    BY <1>1, <2>2, <2>3, <2>6, TurnsCalled
<1>6. ASSUME NEW due, raf(due)
      PROVE  Kept
  <2>1. ~stoppedInside /\ skipped' = skipped
    BY <1>6 DEF raf
  <2> SUFFICES ASSUME NEW e \in Elements \ (skipped \union page.raised) PROVE Turns(page', e)
    BY <1>r, <2>1
  <2>2. Turns(page, e) /\ Framed(page, page')
    BY <1>1, <1>6, <2>1, RafStep DEF FxInv, TurnsInv
  <2>3. /\ page.stack = <<>> /\ page'.entries = page.entries /\ page'.running = page.running /\ page'.owed = page.owed
        /\ page'.queue = page.queue /\ page'.mark = page.mark
    BY <2>2 DEF Framed, Same, Fields
  <2>4. page'.stack = <<>> \/ \E f \in Ticks : page'.stack = <<f>>
    BY <2>2 DEF Framed, Same, Fields
  <2>5. \A f \in Ticks : f \in Frames /\ ~speaks(page', f, e) /\ ~cuts(f, e)
    BY DEF Frames, Ticks, speaks, takes, cuts, isShort, isCode
  <2>6. page'.stack = <<>> \/ \E f \in Frames : page'.stack = <<f>> /\ ~speaks(page', f, e) /\ ~cuts(f, e)
    BY <2>4, <2>5
  <2>7. QED
    BY <1>1, <2>2, <2>3, <2>6, TurnsCalled
<1>7. CASE UNCHANGED vars
  <2>1. page' = page /\ skipped' = skipped /\ stoppedInside' = stoppedInside
    BY <1>7 DEF vars
  <2> SUFFICES ASSUME NEW e \in Elements \ (skipped \union page.raised) PROVE Turns(page', e)
    BY <1>r, <2>1
  <2>2. Turns(page, e)
    BY <2>1 DEF FxInv, TurnsInv
  <2>3. QED
    BY <2>1, <2>2
<1>8. QED
  BY <1>2, <1>3, <1>4, <1>t, <1>5, <1>6, <1>7 DEF Next

\* The inductive invariant.
THEOREM FxInductive == Spec => []FxInv
<1>1. Init => FxInv
  BY FxAssumption, FxInit
<1>2. FxInv /\ [Next]_vars => FxInv'
  BY FxAssumption, FxStep
<1>3. QED
  BY <1>1, <1>2, PTL DEF Spec

\* OneAtATime: the queued animations of an element never run side by side, unless user
\* code took the turn, an exception left code of the element, or stop was called in the
\* middle of a loop (jquery.js:1803-1815).
THEOREM QueueRunsOneAtATime == Spec => []OneAtATime
<1>1. FxInv => OneAtATime
  <2> SUFFICES ASSUME FxInv, ~stoppedInside, NEW e \in Elements \ (skipped \union page.raised)
               PROVE  Cardinality({a \in RunningOn(e) : page.entries[a].kind # "free" /\ TimersOf(a) # {}}) <= 1
    BY DEF OneAtATime
  <2> DEFINE S == {a \in RunningOn(e) : page.entries[a].kind # "free" /\ TimersOf(a) # {}}
  <2>1. Turn(page, e)
    BY DEF FxInv, TurnsInv, Turns
  <2>2. \A a \in S : a \in busy(page, e)
    BY DEF RunningOn, Of, Ids, busy, of, free
  <2>3. \A a, b \in S : a = b
    BY <2>1, <2>2 DEF Turn
  <2> HIDE DEF S
  <2>4. ASSUME S = {}
        PROVE  Cardinality(S) <= 1
    <3>1. Cardinality(S) = 0
      BY <2>4, FS_EmptySet
    <3>2. QED
      BY <3>1
  <2>5. ASSUME S # {}
        PROVE  Cardinality(S) <= 1
    <3>1. PICK a : a \in S
      BY <2>5
    <3>2. S = {a}
      BY <2>3, <3>1
    <3>3. Cardinality({a}) = 1
      BY FS_Singleton
    <3>4. QED
      BY <3>2, <3>3
  <2>6. Cardinality(S) <= 1
    BY <2>4, <2>5
  <2>7. QED
    BY <2>6 DEF S
<1>2. QED
  BY <1>1, FxInductive, PTL

\* Only the timeout of handleQueueMarkDefer takes a promise from those that wait.
LEMMA PendingStays ==
    ASSUME FxAssumption, SoundInv, [Next]_vars, NEW p \in page.pending, p \notin page'.pending
    PROVE  resolve
<1>1. Sound(page) /\ calls \in Nat
  BY DEF SoundInv
<1>2. ASSUME NEW d \in Elements, NEW kind \in Kinds, enqueue(d, kind)
      PROVE  page'.pending = page.pending
  <2>1. Enqueues(page, page', d, kind)
    BY <1>1, <1>2, EnqueueStep
  <2>2. QED
    BY <2>1, EnqueueKeeps
<1>3. ASSUME NEW d \in Elements, NEW clearFirst \in BOOLEAN, NEW gotoEnd \in BOOLEAN, stop(d, clearFirst, gotoEnd)
      PROVE  page'.pending = page.pending
  <2>1. StopsFor(page, page', d, clearFirst, gotoEnd)
    BY <1>1, <1>3, StopStep
  <2>2. QED
    BY <2>1 DEF StopsFor, StopsBy, Empties, Pushes, Same, Fields
<1>4. ASSUME NEW d \in Elements, clearQueue(d)
      PROVE  page'.pending = page.pending
  BY <1>1, <1>4, ClearStep DEF Empties, Same, Fields
<1>5. ASSUME NEW d \in Elements, promise(d)
      PROVE  FALSE
  BY <1>1, <1>5, PromiseStep
<1>d. ASSUME NEW d \in Elements, toggleAtOnce(d)
      PROVE  page'.pending = page.pending
  BY <1>1, <1>d, DisplayStep DEF Displays, Same, Fields
<1>6. ~Call
  BY <1>2, <1>3, <1>4, <1>5, <1>d DEF Call
<1>t. ~throw
  <2>1. throw => page'.pending = page.pending
    BY <1>1, ThrowStep DEF Unwinds, Same, Fields
  <2>2. QED
    BY <2>1
<1>7. ASSUME NEW a \in Ids, next(a)
      PROVE  FALSE
  <2>1. NextStarts(page, page', a)
    BY <1>1, <1>7, NextStep
  <2>2. page'.pending = page.pending
    BY <2>1, PendingDequeued DEF NextStarts, Same, Fields
  <2>3. QED
    BY <2>2
<1>8. ASSUME dequeued \/ complete \/ fnReturns
      PROVE  FALSE
  <2>1. Returns(page, page')
    BY <1>1, <1>8, ReturnStep
  <2>2. page'.pending = page.pending
    BY <2>1, PendingDequeued DEF Returns, Pops, Empties, Same, Fields
  <2>3. QED
    BY <2>2
<1>9. ASSUME stopLoop
      PROVE  FALSE
  <2>1. StopLoops(page, page')
    BY <1>1, <1>9, StopLoopStep
  <2>2. page'.pending = page.pending
    BY <2>1, PendingDequeued DEF StopLoops, Unwinds, Pops, Retops, Removes, Rings, Steps, Ends, Cuts, Same, Fields
  <2>3. QED
    BY <2>2
<1>10. ASSUME tick
       PROVE  FALSE
  <2>1. TickLoops(page, page')
    BY <1>1, <1>10, TickStep
  <2>2. page'.pending = page.pending
    BY <2>1 DEF TickLoops, Retops, Removes, Rings, Steps, Ends, Same, Fields
  <2>3. QED
    BY <2>2
<1>11. ASSUME NEW due, raf(due)
       PROVE  FALSE
  BY <1>1, <1>11, RafStep DEF Framed, Same, Fields
<1>12. ~UNCHANGED vars
  BY DEF vars
<1>13. QED
  BY <1>6, <1>7, <1>8, <1>9, <1>10, <1>t, <1>11, <1>12 DEF Next, Library

\* Without a frame, an entry that waits or a mark, nothing runs on e.
LEMMA IdleWithout ==
    ASSUME NEW s, Sound(s), s.stack = <<>>, NEW e \in Elements, Turns(s, e), s.queue[e] = <<>>, s.mark[e] = 0
    PROVE  \A a \in of(s, e) : a \notin s.running
<1>1. ~cutting(s, e)
  BY DEF cutting
<1>2. busy(s, e) = {}
  BY <1>1 DEF Turns, Turn, turn
<1>3. Cardinality(counted(s, e)) <= 0
  BY <1>1 DEF Turns, Marked
<1>4. IsFiniteSet(counted(s, e)) /\ Cardinality(counted(s, e)) = 0
  BY <1>3, CountedFinite
<1>5. counted(s, e) = {}
  BY <1>4, FS_EmptySet
<1>6. QED
  BY <1>2, <1>5 DEF busy, counted

\* PromiseMeansIdle: when a promise is resolved, nothing runs on its element and nothing
\* waits in its queue, with the same exceptions (jquery.js:1742-1752).
THEOREM PromisesComeLast == Spec => PromiseMeansIdle
<1> DEFINE P == ~stoppedInside => \A t \in page.pending \ page'.pending :
                   t.elem \notin skipped \union page.raised => RunningOn(t.elem) = {} /\ page.queue[t.elem] = <<>>
<1>1. FxInv /\ [Next]_vars => P
  <2> SUFFICES ASSUME FxInv, [Next]_vars, ~stoppedInside, NEW q \in page.pending, q \notin page'.pending,
                      q.elem \notin skipped \union page.raised
               PROVE  RunningOn(q.elem) = {} /\ page.queue[q.elem] = <<>>
    OBVIOUS
  <2>1. SoundInv /\ Sound(page) /\ resolve
    BY FxAssumption, PendingStays DEF FxInv, ServedInv, SoundInv
  <2>2. Resolves(page, page') /\ page.stack = <<>>
    BY <2>1, ResolveStep DEF Resolves
  <2>3. PICK p \in Promises : page.queue[p.elem] = <<>> /\ page.mark[p.elem] = 0 /\ page'.pending = page.pending \ {p}
    <3>1. ~Same(page, page', {"timeouts"})
      BY DEF Same, Fields
    <3>2. QED
      BY <2>2, <3>1 DEF Resolves
  <2>4. p = q /\ q.elem \in Elements
    BY <2>3 DEF Promises
  <2>5. Turns(page, q.elem)
    BY <2>4 DEF FxInv, TurnsInv
  <2>6. \A a \in of(page, q.elem) : a \notin page.running
    BY <2>1, <2>2, <2>3, <2>4, <2>5, IdleWithout
  <2>7. QED
    BY <2>3, <2>4, <2>6 DEF RunningOn, Of, Ids, of
<1>2. [][P]_vars <=> PromiseMeansIdle
  BY DEF PromiseMeansIdle
<1>3. QED
  BY <1>1, <1>2, FxInductive, PTL DEF Spec

=============================================================================
