------------------------- MODULE JQueryEventsProofs -------------------------
(***************************************************************************)
(* Events, for anything user code binds and any number of calls and events.*)
(*                                                                         *)
(* First, from one invariant of the page, EventsInv.  Native listeners      *)
(* match the handlers, whatever is bound and removed in the middle of      *)
(* dispatches: every change of the handlers of an element goes through add *)
(* or remove.  And native events are dropped only while trigger calls the  *)
(* native method: above the frame of a trigger that does so there is       *)
(* always the native dispatch, so that an exception, which the browser     *)
(* catches at the nearest one, cannot take the frame away.                 *)
(*                                                                         *)
(* Then what is run, from RunsInv.  It has a witness, where each handler   *)
(* was bound, so that the lists of the elements have none in common; the   *)
(* frames of the call stack are linked, the loop over the handlers of an   *)
(* element above the event that has got to it; and of each event on the    *)
(* stack it says what cannot have been run for it yet (Quiet, NotYet).     *)
(* Frames only fall, with shorter loops, get further, fire live handlers   *)
(* or are pushed with a snapshot: each of these keeps the invariant, and   *)
(* every action is one or several of them.                                 *)
(***************************************************************************)
EXTENDS JQueryEvents, SequenceTheorems, FiniteSetTheorems, WellFoundedInduction, TLAPS

\* s has the fields of a page, with a list for every element and type.
Whole(s) ==
  /\ s = [handlers |-> s.handlers, listening |-> s.listening, attaches |-> s.attaches,
          capture |-> s.capture, live |-> s.live, triggered |-> s.triggered, stack |-> s.stack]
  /\ \E H : s.handlers \in [Elements -> [AllTypes -> H]]
  /\ s.listening \in [Elements -> SUBSET AllTypes]
  /\ s.attaches \in Int /\ s.capture \in BOOLEAN

\* The listeners of s match its handlers.
wants(s, e) == IF s.handlers[e]["focusin"] # <<>> THEN 1 ELSE 0
Matched(s) ==
  /\ \A e \in Elements, t \in AllTypes \ {"focusin"} :
       t \in s.listening[e] <=> s.handlers[e][t] # <<>>
  /\ s.attaches = wants(s, "child") + wants(s, "document")
  /\ s.capture <=> s.attaches > 0

\* What every frame of the call stack is known to have.
Frame(f) ==
  /\ "fn" \in DOMAIN f
  /\ f.fn \in {"trigger", "native"} =>
       /\ {"phase", "type", "cur"} \subseteq DOMAIN f
       /\ f.type \in AllTypes /\ f.cur \in Elements
  /\ f.fn = "trigger" => f.phase \in {"call", "bubble", "native"}
  /\ f.fn = "native" => f.phase \in {"capture", "call", "bubble"}
  /\ f.fn = "handle" =>
       {"type", "elem"} \subseteq DOMAIN f /\ f.type \in AllTypes /\ f.elem \in Elements
  /\ f.fn = "live" => "type" \in DOMAIN f /\ f.type \in AllTypes

CallsNative(f) == f.fn = "trigger" /\ f.phase = "native"
Stack(k) ==
  /\ \E S : k \in Seq(S)
  /\ \A i \in DOMAIN k : Frame(k[i])
  /\ \A i \in DOMAIN k : CallsNative(k[i]) /\ i # 1 => k[i - 1].fn = "native"
Inside(k, type) ==
  type # "none" => \E i \in DOMAIN k : CallsNative(k[i]) /\ k[i].type = type

EventsInv ==
  /\ Whole(page) /\ Matched(page)
  /\ Stack(page.stack) /\ Inside(page.stack, page.triggered)

-----------------------------------------------------------------------------
(***************************************************************************)
(* Stacks.                                                                 *)
(***************************************************************************)
\* f stands for the same call as g, and calls a native method only if g does.
Like(f, g) ==
  /\ Frame(f) /\ f.fn = g.fn
  /\ CallsNative(f) <=> CallsNative(g)
  /\ CallsNative(g) => f.type = g.type

LEMMA PushedOf ==
    ASSUME NEW S, NEW k \in Seq(S), NEW f, NEW l, l = <<f>> \o k
    PROVE  /\ l \in Seq(S \union {f}) /\ l # <<>> /\ l[1] = f /\ 1 \in DOMAIN l
           /\ \A i \in DOMAIN k : i \in Nat \ {0} /\ i + 1 \in DOMAIN l /\ l[i + 1] = k[i]
           /\ \A i \in DOMAIN l : i # 1 => i - 1 \in DOMAIN k /\ l[i] = k[i - 1]
<1>1. <<f>> \in Seq(S \union {f}) /\ k \in Seq(S \union {f}) /\ Len(<<f>>) = 1
  OBVIOUS
<1>2. /\ l \in Seq(S \union {f}) /\ Len(l) = Len(k) + 1 /\ Len(k) \in Nat
      /\ DOMAIN l = 1..(Len(k) + 1) /\ DOMAIN k = 1..Len(k)
      /\ \A i \in 1..(Len(k) + 1) : l[i] = IF i <= 1 THEN <<f>>[i] ELSE k[i - 1]
  BY <1>1
<1>3. l[1] = f /\ 1 \in DOMAIN l /\ l # <<>>
  BY <1>2
<1>4. ASSUME NEW i \in DOMAIN k
      PROVE  i \in Nat \ {0} /\ i + 1 \in DOMAIN l /\ l[i + 1] = k[i]
  <2>1. i \in Nat \ {0} /\ i + 1 \in 1..(Len(k) + 1) /\ ~(i + 1 <= 1) /\ (i + 1) - 1 = i
    BY <1>2
  <2>2. QED
    BY <1>2, <2>1
<1>5. ASSUME NEW i \in DOMAIN l, i # 1
      PROVE  i - 1 \in DOMAIN k /\ l[i] = k[i - 1]
  BY <1>2, <1>5
<1>6. QED
  BY <1>2, <1>3, <1>4, <1>5

LEMMA Pushed ==
    ASSUME NEW k, Stack(k), NEW f, Frame(f), NEW l, l = <<f>> \o k,
           k # <<>> => ~CallsNative(k[1]) \/ f.fn = "native", NEW type
    PROVE  Stack(l) /\ (Inside(k, type) => Inside(l, type)) /\ l[1] = f /\ l # <<>>
<1> PICK S : k \in Seq(S)
  BY DEF Stack
<1>1. /\ l \in Seq(S \union {f}) /\ l # <<>> /\ l[1] = f /\ 1 \in DOMAIN l
      /\ \A i \in DOMAIN k : i \in Nat \ {0} /\ i + 1 \in DOMAIN l /\ l[i + 1] = k[i]
      /\ \A i \in DOMAIN l : i # 1 => i - 1 \in DOMAIN k /\ l[i] = k[i - 1]
  BY PushedOf
<1>2. ASSUME NEW i \in DOMAIN l PROVE Frame(l[i])
  BY <1>1 DEF Stack
<1>3. ASSUME NEW i \in DOMAIN l, CallsNative(l[i]), i # 1 PROVE l[i - 1].fn = "native"
  <2> PICK j : j = i - 1
    OBVIOUS
  <2>1. j \in DOMAIN k /\ j \in Nat \ {0} /\ l[i] = k[j]
    BY <1>1, <1>3
  <2>2. CASE j = 1
    <3>1. k # <<>> /\ CallsNative(k[1])
      BY <1>3, <2>1, <2>2
    <3>2. QED
      BY <1>1, <2>2, <3>1
  <2>3. CASE j # 1
    <3>1. k[j - 1].fn = "native"
      BY <1>3, <2>1, <2>3 DEF Stack
    <3>2. j \in DOMAIN l /\ l[j] = k[j - 1]
      <4>1. l \in Seq(S \union {f}) /\ i \in DOMAIN l
        BY <1>1
      <4>2. j \in DOMAIN l
        BY <2>1, <4>1
      <4>3. QED
        BY <1>1, <2>3, <4>2
    <3>3. QED
      BY <3>1, <3>2
  <2>4. QED
    BY <2>2, <2>3
<1>4. ASSUME Inside(k, type), type # "none" PROVE Inside(l, type)
  <2>1. PICK i \in DOMAIN k : CallsNative(k[i]) /\ k[i].type = type
    BY <1>4 DEF Inside
  <2>2. QED
    BY <1>1, <2>1 DEF Inside
<1>5. QED
  BY <1>1, <1>2, <1>3, <1>4 DEF Stack, Inside

LEMMA PoppedOf ==
    ASSUME NEW S, NEW k \in Seq(S), k # <<>>
    PROVE  /\ Tail(k) \in Seq(S) /\ 1 \in DOMAIN k /\ Head(k) = k[1]
           /\ \A i \in DOMAIN Tail(k) : i \in Nat \ {0} /\ i + 1 \in DOMAIN k /\ Tail(k)[i] = k[i + 1]
           /\ \A i \in DOMAIN k : i # 1 => i - 1 \in DOMAIN Tail(k) /\ Tail(k)[i - 1] = k[i]
<1>1. /\ DOMAIN k = 1..Len(k) /\ Len(k) \in Nat \ {0} /\ Head(k) = k[1] /\ 1 \in DOMAIN k
      /\ DOMAIN Tail(k) = 1..(Len(k) - 1) /\ Tail(k) \in Seq(S)
  OBVIOUS
<1>2. \A i \in 1..(Len(k) - 1) : i \in Nat \ {0} /\ i + 1 \in DOMAIN k /\ Tail(k)[i] = k[i + 1]
  BY <1>1
<1>3. ASSUME NEW i \in DOMAIN k, i # 1
      PROVE  i - 1 \in DOMAIN Tail(k) /\ Tail(k)[i - 1] = k[i]
  <2>1. i - 1 \in 1..(Len(k) - 1) /\ (i - 1) + 1 = i
    BY <1>1, <1>3
  <2>2. QED
    BY <1>1, <1>2, <2>1
<1>4. QED
  BY <1>1, <1>2, <1>3

LEMMA Returned ==
    ASSUME NEW k, Stack(k), k # <<>>, NEW type
    PROVE  /\ Stack(Tail(k))
           /\ Inside(k, type) /\ ~CallsNative(k[1]) => Inside(Tail(k), type)
           /\ Tail(k) # <<>> /\ k[1].fn # "native" => ~CallsNative(Tail(k)[1])
<1> PICK S : k \in Seq(S)
  BY DEF Stack
<1>1. /\ Tail(k) \in Seq(S) /\ 1 \in DOMAIN k
      /\ \A i \in DOMAIN Tail(k) : i \in Nat \ {0} /\ i + 1 \in DOMAIN k /\ Tail(k)[i] = k[i + 1]
      /\ \A i \in DOMAIN k : i # 1 => i - 1 \in DOMAIN Tail(k) /\ Tail(k)[i - 1] = k[i]
  BY PoppedOf
<1>2. ASSUME NEW i \in DOMAIN Tail(k) PROVE Frame(Tail(k)[i])
  BY <1>1 DEF Stack
<1>3. ASSUME NEW i \in DOMAIN Tail(k), CallsNative(Tail(k)[i]) PROVE k[i].fn = "native"
  <2> PICK j : j = i + 1
    OBVIOUS
  <2>1. j \in DOMAIN k /\ Tail(k)[i] = k[j] /\ j # 1 /\ j - 1 = i
    BY <1>1
  <2>2. QED
    BY <1>3, <2>1 DEF Stack
<1>4. ASSUME NEW i \in DOMAIN Tail(k), CallsNative(Tail(k)[i]), i # 1
      PROVE  Tail(k)[i - 1].fn = "native"
  <2>1. k[i].fn = "native"
    BY <1>3, <1>4
  <2>2. i \in DOMAIN k
    BY <1>1
  <2>3. QED
    BY <1>1, <1>4, <2>1, <2>2
<1>5. ASSUME Inside(k, type), ~CallsNative(k[1]), type # "none" PROVE Inside(Tail(k), type)
  <2>1. PICK i \in DOMAIN k : CallsNative(k[i]) /\ k[i].type = type
    BY <1>5 DEF Inside
  <2>2. i - 1 \in DOMAIN Tail(k) /\ Tail(k)[i - 1] = k[i]
    BY <1>1, <1>5, <2>1
  <2>3. QED
    BY <2>1, <2>2 DEF Inside
<1>6. Tail(k) # <<>> => 1 \in DOMAIN Tail(k)
  BY <1>1
<1>7. QED
  BY <1>1, <1>2, <1>3, <1>4, <1>5, <1>6 DEF Stack, Inside

LEMMA AdjustedOf ==
    ASSUME NEW S, NEW k \in Seq(S), NEW i \in Nat, NEW f, NEW l, l = [k EXCEPT ![i] = f]
    PROVE  /\ l \in Seq(S \union {f}) /\ DOMAIN l = DOMAIN k
           /\ \A j \in DOMAIN k : j # i => l[j] = k[j]
           /\ i \in DOMAIN k => l[i] = f
<1>1. k \in [1..Len(k) -> S] /\ Len(k) \in Nat
  OBVIOUS
<1>2. l \in [1..Len(k) -> S \union {f}]
  BY <1>1
<1>3. l \in Seq(S \union {f})
  BY <1>1, <1>2
<1>4. QED
  BY <1>1, <1>3

\* A frame below the top is told something: that the event is stopped, say.
LEMMA Adjusted ==
    ASSUME NEW k, Stack(k), NEW i \in Nat, NEW f, NEW l, l = [k EXCEPT ![i] = f],
           i \in DOMAIN k => Like(f, k[i]), NEW type
    PROVE  /\ Stack(l) /\ (Inside(k, type) => Inside(l, type))
           /\ l # <<>> <=> k # <<>>
           /\ k # <<>> => /\ l[1].fn = k[1].fn
                          /\ CallsNative(l[1]) <=> CallsNative(k[1])
<1> PICK S : k \in Seq(S)
  BY DEF Stack
<1>1. /\ l \in Seq(S \union {f}) /\ DOMAIN l = DOMAIN k
      /\ \A j \in DOMAIN k : j # i => l[j] = k[j]
      /\ i \in DOMAIN k => l[i] = f
  BY AdjustedOf
<1>2. ASSUME NEW j \in DOMAIN k
      PROVE  /\ Frame(l[j]) /\ l[j].fn = k[j].fn
             /\ CallsNative(l[j]) <=> CallsNative(k[j])
             /\ CallsNative(k[j]) => l[j].type = k[j].type
  <2>1. CASE j = i
    BY <1>1, <2>1 DEF Like, CallsNative
  <2>2. CASE j # i
    BY <1>1, <2>2 DEF Stack
  <2>3. QED
    BY <2>1, <2>2
<1>3. ASSUME NEW j \in DOMAIN k, CallsNative(l[j]), j # 1 PROVE l[j - 1].fn = "native"
  <2>1. j - 1 \in DOMAIN k
    BY <1>3
  <2>2. k[j - 1].fn = "native"
    BY <1>2, <1>3 DEF Stack
  <2>3. QED
    BY <1>2, <2>1, <2>2
<1>4. Inside(k, type) => Inside(l, type)
  BY <1>1, <1>2 DEF Inside
<1>5. (l # <<>> <=> k # <<>>) /\ (k # <<>> => 1 \in DOMAIN k)
  BY <1>1
<1>6. QED
  BY <1>1, <1>2, <1>3, <1>4, <1>5 DEF Stack

LEMMA NearestNative ==
    ASSUME NEW k, Stack(k), NEW i \in DOMAIN k, k[i].fn = "native"
    PROVE  \E n \in DOMAIN k : k[n].fn = "native" /\ \A j \in DOMAIN k : k[j].fn = "native" => n <= j
<1> DEFINE R == {p \in Nat \X Nat : p[1] < p[2]}
           T == {j \in DOMAIN k : k[j].fn = "native"}
<1>1. IsWellFoundedOn(R, Nat)
  BY NatLessThanWellFounded DEF OpToRel
<1>2. T \subseteq Nat /\ i \in T
  <2> PICK S : k \in Seq(S)
    BY DEF Stack
  <2>1. DOMAIN k = 1..Len(k) /\ Len(k) \in Nat
    OBVIOUS
  <2>2. QED
    BY <2>1
<1> HIDE DEF R, T
<1>3. \E n \in T : \A j \in T : ~(<<j, n>> \in R)
  BY <1>1, <1>2, WFMin
<1>4. PICK n \in T : \A j \in T : ~(<<j, n>> \in R)
  BY <1>3
<1>5. ASSUME NEW j \in T PROVE n <= j
  <2>1. j \in Nat /\ n \in Nat
    BY <1>2
  <2>2. ~(j < n)
    BY <1>4, <2>1 DEF R
  <2>3. QED
    BY <2>1, <2>2
<1>6. QED
  BY <1>4, <1>5 DEF T

\* l is k from its nth element.
From(l, k, n) ==
  /\ \E S : l \in Seq(S)
  /\ \A i \in DOMAIN l : i \in Nat \ {0} /\ n + i - 1 \in DOMAIN k /\ l[i] = k[n + i - 1]
  /\ \A i \in DOMAIN k : i >= n => i - n + 1 \in DOMAIN l /\ l[i - n + 1] = k[i]

LEMMA SubSeqFrom ==
    ASSUME NEW S, NEW k \in Seq(S), NEW n \in DOMAIN k
    PROVE  From(SubSeq(k, n, Len(k)), k, n)
<1> DEFINE l == SubSeq(k, n, Len(k))
<1>1. DOMAIN k = 1..Len(k) /\ Len(k) \in Nat /\ n \in 1..Len(k)
  OBVIOUS
<1>2. /\ l \in Seq(S) /\ DOMAIN l = 1..(Len(k) - n + 1)
      /\ \A i \in 1..(Len(k) - n + 1) : l[i] = k[n + i - 1]
  BY <1>1
<1>3. ASSUME NEW i \in DOMAIN k, i >= n
      PROVE  i - n + 1 \in DOMAIN l /\ l[i - n + 1] = k[i]
  <2>1. i - n + 1 \in 1..(Len(k) - n + 1) /\ n + (i - n + 1) - 1 = i
    BY <1>1, <1>3
  <2>2. QED
    BY <1>2, <2>1
<1>4. \A i \in DOMAIN l : i \in Nat \ {0} /\ n + i - 1 \in DOMAIN k /\ l[i] = k[n + i - 1]
  BY <1>1, <1>2
<1>5. QED
  BY <1>2, <1>3, <1>4 DEF From

LEMMA FromNearest ==
    ASSUME NEW k, Stack(k), k # <<>>, ~CallsNative(k[1]), NEW n \in DOMAIN k,
           \A j \in DOMAIN k : k[j].fn = "native" => n <= j,
           NEW l, From(l, k, n), NEW type
    PROVE  Stack(l) /\ (Inside(k, type) => Inside(l, type))
<1>1. PICK S : k \in Seq(S)
  BY DEF Stack
<1>2. DOMAIN k = 1..Len(k) /\ Len(k) \in Nat /\ n \in Nat \ {0}
  BY <1>1
<1>3. /\ \A i \in DOMAIN l : i \in Nat \ {0} /\ n + i - 1 \in DOMAIN k /\ l[i] = k[n + i - 1]
      /\ \A i \in DOMAIN k : i >= n => i - n + 1 \in DOMAIN l /\ l[i - n + 1] = k[i]
  BY DEF From
<1>4. ASSUME NEW i \in DOMAIN k, CallsNative(k[i])
      PROVE  i # 1 /\ i - 1 \in DOMAIN k /\ k[i - 1].fn = "native" /\ i \in Nat /\ n <= i - 1
  <2>1. i # 1
    BY <1>4
  <2>2. i - 1 \in DOMAIN k /\ i \in Nat
    BY <1>2, <2>1
  <2>3. k[i - 1].fn = "native"
    BY <1>4, <2>1 DEF Stack
  <2>4. QED
    BY <2>1, <2>2, <2>3
<1>5. \A i \in DOMAIN l : Frame(l[i])
  BY <1>3 DEF Stack
<1>6. ASSUME NEW i \in DOMAIN l, CallsNative(l[i]), i # 1 PROVE l[i - 1].fn = "native"
  <2>1. PICK m : m = n + i - 1
    OBVIOUS
  <2>2. m \in DOMAIN k /\ l[i] = k[m] /\ i \in Nat \ {0} /\ m \in Nat
    BY <1>2, <1>3, <2>1
  <2>3. m - 1 \in DOMAIN k /\ k[m - 1].fn = "native" /\ n <= m - 1
    BY <1>4, <1>6, <2>2
  <2>4. (m - 1) - n + 1 = i - 1
    BY <1>2, <2>1, <2>2
  <2>5. m - 1 >= n
    BY <1>2, <2>2, <2>3
  <2>6. l[(m - 1) - n + 1] = k[m - 1]
    BY <1>3, <2>3, <2>5
  <2>7. QED
    BY <2>3, <2>4, <2>6
<1>7. ASSUME Inside(k, type), type # "none" PROVE Inside(l, type)
  <2>1. PICK i \in DOMAIN k : CallsNative(k[i]) /\ k[i].type = type
    BY <1>7 DEF Inside
  <2>2. i >= n
    BY <1>2, <1>4, <2>1
  <2>3. i - n + 1 \in DOMAIN l /\ l[i - n + 1] = k[i]
    BY <1>3, <2>2
  <2>4. QED
    BY <2>1, <2>3 DEF Inside
<1>8. QED
  BY <1>5, <1>6, <1>7 DEF Stack, Inside, From

\* An exception of a handler ends everything up to the nearest native dispatch,
\* and with it no trigger that is calling a native method.
LEMMA Unwound ==
    ASSUME NEW k, Stack(k), k # <<>>, ~CallsNative(k[1]), NEW type
    PROVE  Stack(Unwind(k)) /\ (Inside(k, type) => Inside(Unwind(k), type))
<1>1. CASE \A i \in DOMAIN k : k[i].fn # "native"
  <2>1. Unwind(k) = <<>>
    <3>1. {i \in DOMAIN k : k[i].fn = "native"} = {}
      BY <1>1
    <3>2. QED
      BY <3>1 DEF Unwind
  <2>2. ASSUME NEW i \in DOMAIN k PROVE ~CallsNative(k[i])
    <3>1. SUFFICES ASSUME i # 1 PROVE k[i - 1].fn # "native"
      BY DEF Stack
    <3>2. i - 1 \in DOMAIN k
      <4>1. PICK S : k \in Seq(S)
        BY DEF Stack
      <4>2. DOMAIN k = 1..Len(k) /\ Len(k) \in Nat
        BY <4>1
      <4>3. QED
        BY <3>1, <4>2
    <3>3. QED
      BY <1>1, <3>2
  <2>3. type # "none" => ~Inside(k, type)
    BY <2>2 DEF Inside
  <2>4. Stack(<<>>) /\ (type = "none" => Inside(<<>>, type))
    BY DEF Stack, Inside
  <2>5. QED
    BY <2>1, <2>3, <2>4
<1>2. CASE \E i \in DOMAIN k : k[i].fn = "native"
  <2> DEFINE caught == {i \in DOMAIN k : k[i].fn = "native"}
             least(i) == i \in caught /\ \A j \in caught : i <= j
  <2>1. \E i : least(i)
    BY <1>2, NearestNative
  <2>2. least(CHOOSE i : least(i))
    BY <2>1, Zenon
  <2>3. (CHOOSE i \in caught : \A j \in caught : i <= j) = CHOOSE i : least(i)
    OBVIOUS
  <2>4. caught # {}
    BY <1>2
  <2>5. Unwind(k) = SubSeq(k, CHOOSE i \in caught : \A j \in caught : i <= j, Len(k))
    BY <2>4 DEF Unwind
  <2>6. PICK n : n = CHOOSE i \in caught : \A j \in caught : i <= j
    OBVIOUS
  <2>7. Unwind(k) = SubSeq(k, n, Len(k))
    BY <2>5, <2>6
  <2>8. n \in DOMAIN k /\ \A j \in DOMAIN k : k[j].fn = "native" => n <= j
    BY <2>2, <2>3, <2>6
  <2>9. From(Unwind(k), k, n)
    <3>1. PICK S : k \in Seq(S)
      BY DEF Stack
    <3>2. QED
      BY <2>7, <2>8, <3>1, SubSeqFrom
  <2> HIDE DEF caught, least
  <2>10. QED
    BY <2>8, <2>9, FromNearest
<1>3. QED
  BY <1>1, <1>2

-----------------------------------------------------------------------------
(***************************************************************************)
(* Pages.                                                                  *)
(***************************************************************************)
\* s and r differ in their handlers, listeners and live handlers at most.
Rebound(s, r) ==
  /\ Whole(r) /\ Matched(r)
  /\ r.stack = s.stack /\ r.triggered = s.triggered

\* r is s with the stack k and the type T of events to be dropped.
Restacked(s, r, k, T) ==
  /\ Whole(r) /\ (Matched(s) => Matched(r))
  /\ r.stack = k /\ r.triggered = T /\ r.live = s.live

LEMMA NewStack ==
    ASSUME NEW s, Whole(s), NEW k, NEW T, NEW r,
           \/ r = [s EXCEPT !.stack = k] /\ T = s.triggered
           \/ r = [s EXCEPT !.stack = k, !.triggered = T]
    PROVE  Restacked(s, r, k, T)
<1>1. r = [handlers |-> s.handlers, listening |-> s.listening, attaches |-> s.attaches,
           capture |-> s.capture, live |-> s.live, triggered |-> T, stack |-> k]
  BY DEF Whole
<1>2. /\ r.handlers = s.handlers /\ r.listening = s.listening /\ r.attaches = s.attaches
      /\ r.capture = s.capture /\ r.live = s.live /\ r.triggered = T /\ r.stack = k
  BY <1>1
<1>3. Whole(r)
  BY <1>1, <1>2 DEF Whole
<1>4. Matched(s) => Matched(r)
  BY <1>2 DEF Matched, wants
<1>5. QED
  BY <1>2, <1>3, <1>4 DEF Restacked

LEMMA CountOfTwo ==
    ASSUME NEW W, W \subseteq {"child", "document"}, NEW a \in {0, 1}, NEW b \in {0, 1},
           "child" \in W <=> a = 1, "document" \in W <=> b = 1
    PROVE  Cardinality(W) = a + b
<1>1. CASE a = 0 /\ b = 0
  <2>1. W = {}
    BY <1>1
  <2>2. QED
    BY <1>1, <2>1, FS_EmptySet
<1>2. CASE a = 1 /\ b = 0
  <2>1. W = {"child"}
    <3>1. "child" \in W /\ "document" \notin W
      BY <1>2
    <3>2. QED
      BY <3>1
  <2>2. QED
    BY <1>2, <2>1, FS_Singleton
<1>3. CASE a = 0 /\ b = 1
  <2>1. W = {"document"}
    <3>1. "child" \notin W /\ "document" \in W
      BY <1>3
    <3>2. QED
      BY <3>1
  <2>2. QED
    BY <1>3, <2>1, FS_Singleton
<1>4. CASE a = 1 /\ b = 1
  <2>1. W = {"child"} \union {"document"}
    BY <1>4
  <2>2. IsFiniteSet({"child"}) /\ Cardinality({"child"}) = 1 /\ "document" \notin {"child"}
    BY FS_Singleton
  <2>3. Cardinality({"child"} \union {"document"}) = 2
    BY <2>2, FS_AddElement
  <2>4. QED
    BY <1>4, <2>1, <2>3
<1>5. QED
  BY <1>1, <1>2, <1>3, <1>4

LEMMA WantedBy ==
    ASSUME NEW s
    PROVE  Cardinality({e \in Elements : s.handlers[e]["focusin"] # <<>>})
             = wants(s, "child") + wants(s, "document")
<1> DEFINE W == {e \in Elements : s.handlers[e]["focusin"] # <<>>}
<1>1. /\ wants(s, "child") \in {0, 1} /\ wants(s, "document") \in {0, 1}
      /\ "child" \in W <=> wants(s, "child") = 1
      /\ "document" \in W <=> wants(s, "document") = 1
      /\ W \subseteq {"child", "document"}
  BY DEF Elements, wants
<1> HIDE DEF W
<1>2. Cardinality(W) = wants(s, "child") + wants(s, "document")
  BY <1>1, CountOfTwo
<1>3. QED
  BY <1>2 DEF W

\* The handlers of one type of one element change to l, the native listeners of
\* an element to T, the focus listener to n and c.
withHandlers(s, e, t, l) == [s EXCEPT !.handlers[e][t] = l]
withListening(s, e, T) == [s EXCEPT !.listening[e] = T]
withCapture(s, n, c) == [s EXCEPT !.attaches = n, !.capture = c]

HandlersNow(s, e, t, l, r) ==
  /\ Whole(r) /\ r.handlers[e][t] = l
  /\ \A x \in Elements, y \in AllTypes :
       <<x, y>> # <<e, t>> => r.handlers[x][y] = s.handlers[x][y]
  /\ r.listening = s.listening /\ r.attaches = s.attaches /\ r.capture = s.capture
  /\ r.stack = s.stack /\ r.triggered = s.triggered
ListeningNow(s, e, T, r) ==
  /\ Whole(r) /\ r.listening[e] = T
  /\ \A x \in Elements \ {e} : r.listening[x] = s.listening[x]
  /\ r.handlers = s.handlers /\ r.attaches = s.attaches /\ r.capture = s.capture
  /\ r.stack = s.stack /\ r.triggered = s.triggered
CaptureNow(s, n, c, r) ==
  /\ Whole(r) /\ r.attaches = n /\ r.capture = c
  /\ r.handlers = s.handlers /\ r.listening = s.listening
  /\ r.stack = s.stack /\ r.triggered = s.triggered

LEMMA NewHandlers ==
    ASSUME NEW s, Whole(s), NEW e \in Elements, NEW t \in AllTypes, NEW l
    PROVE  HandlersNow(s, e, t, l, withHandlers(s, e, t, l))
<1> SUFFICES ASSUME NEW r, r = [s EXCEPT !.handlers[e][t] = l]
             PROVE  HandlersNow(s, e, t, l, r)
  BY DEF withHandlers
<1> PICK h : h = [s.handlers EXCEPT ![e] = [@ EXCEPT ![t] = l]]
  OBVIOUS
<1>1. r = [handlers |-> h, listening |-> s.listening, attaches |-> s.attaches,
           capture |-> s.capture, live |-> s.live, triggered |-> s.triggered, stack |-> s.stack]
  BY DEF Whole
<1>2. /\ r.handlers = h /\ r.listening = s.listening /\ r.attaches = s.attaches
      /\ r.capture = s.capture /\ r.triggered = s.triggered /\ r.stack = s.stack
  BY <1>1
<1> PICK H : s.handlers \in [Elements -> [AllTypes -> H]]
  BY DEF Whole
<1>3. /\ h[e][t] = l
      /\ \A x \in Elements, y \in AllTypes : <<x, y>> # <<e, t>> => h[x][y] = s.handlers[x][y]
  OBVIOUS
<1>4. h \in [Elements -> [AllTypes -> H \union {l}]]
  <2>1. /\ [s.handlers[e] EXCEPT ![t] = l] \in [AllTypes -> H \union {l}]
        /\ \A x \in Elements : s.handlers[x] \in [AllTypes -> H \union {l}]
    OBVIOUS
  <2>2. QED
    BY <2>1
<1>5. Whole(r)
  <2>1. /\ s.listening \in [Elements -> SUBSET AllTypes]
        /\ s.attaches \in Int /\ s.capture \in BOOLEAN
    BY DEF Whole
  <2>2. r = [handlers |-> r.handlers, listening |-> r.listening, attaches |-> r.attaches,
             capture |-> r.capture, live |-> r.live, triggered |-> r.triggered,
             stack |-> r.stack]
    BY <1>1
  <2>3. /\ r.listening \in [Elements -> SUBSET AllTypes]
        /\ r.attaches \in Int /\ r.capture \in BOOLEAN
    BY <1>2, <2>1
  <2>4. \E K : r.handlers \in [Elements -> [AllTypes -> K]]
    BY <1>2, <1>4
  <2>5. QED
    BY <2>2, <2>3, <2>4, Zenon DEF Whole
<1>6. QED
  BY <1>2, <1>3, <1>5 DEF HandlersNow

LEMMA NewListener ==
    ASSUME NEW s, Whole(s), NEW e \in Elements, NEW T \in SUBSET AllTypes
    PROVE  ListeningNow(s, e, T, withListening(s, e, T))
<1> SUFFICES ASSUME NEW r, r = [s EXCEPT !.listening[e] = T]
             PROVE  ListeningNow(s, e, T, r)
  BY DEF withListening
<1> PICK g : g = [s.listening EXCEPT ![e] = T]
  OBVIOUS
<1>1. r = [handlers |-> s.handlers, listening |-> g, attaches |-> s.attaches,
           capture |-> s.capture, live |-> s.live, triggered |-> s.triggered, stack |-> s.stack]
  BY DEF Whole
<1>2. /\ r.handlers = s.handlers /\ r.listening = g /\ r.attaches = s.attaches
      /\ r.capture = s.capture /\ r.triggered = s.triggered /\ r.stack = s.stack
  BY <1>1
<1>3. /\ g[e] = T /\ (\A x \in Elements \ {e} : g[x] = s.listening[x])
      /\ g \in [Elements -> SUBSET AllTypes]
  BY DEF Whole
<1>4. Whole(r)
  <2>1. /\ \E H : s.handlers \in [Elements -> [AllTypes -> H]]
        /\ s.attaches \in Int /\ s.capture \in BOOLEAN
    BY DEF Whole
  <2>2. r = [handlers |-> r.handlers, listening |-> r.listening, attaches |-> r.attaches,
             capture |-> r.capture, live |-> r.live, triggered |-> r.triggered,
             stack |-> r.stack]
    BY <1>1
  <2>3. /\ r.listening \in [Elements -> SUBSET AllTypes]
        /\ r.attaches \in Int /\ r.capture \in BOOLEAN
    BY <1>2, <1>3, <2>1
  <2>4. \E H : r.handlers \in [Elements -> [AllTypes -> H]]
    BY <1>2, <2>1
  <2>5. QED
    BY <2>2, <2>3, <2>4, Zenon DEF Whole
<1>5. QED
  BY <1>2, <1>3, <1>4 DEF ListeningNow

LEMMA NewCapture ==
    ASSUME NEW s, Whole(s), NEW n \in Int, NEW c \in BOOLEAN
    PROVE  CaptureNow(s, n, c, withCapture(s, n, c))
<1> SUFFICES ASSUME NEW r, r = [s EXCEPT !.attaches = n, !.capture = c]
             PROVE  CaptureNow(s, n, c, r)
  BY DEF withCapture
<1>1. r = [handlers |-> s.handlers, listening |-> s.listening, attaches |-> n,
           capture |-> c, live |-> s.live, triggered |-> s.triggered, stack |-> s.stack]
  BY DEF Whole
<1>2. QED
  BY <1>1 DEF Whole, CaptureNow

-----------------------------------------------------------------------------
(***************************************************************************)
(* Handlers come and go.                                                   *)
(***************************************************************************)
LEMMA NewLive ==
    ASSUME NEW s, Whole(s), Matched(s), NEW l, NEW r, r = [s EXCEPT !.live = l]
    PROVE  Rebound(s, r)
<1>1. r = [handlers |-> s.handlers, listening |-> s.listening, attaches |-> s.attaches,
           capture |-> s.capture, live |-> l, triggered |-> s.triggered, stack |-> s.stack]
  BY DEF Whole
<1>2. /\ r.handlers = s.handlers /\ r.listening = s.listening /\ r.attaches = s.attaches
      /\ r.capture = s.capture /\ r.triggered = s.triggered /\ r.stack = s.stack
  BY <1>1
<1>3. Whole(r)
  BY <1>1, <1>2 DEF Whole
<1>4. Matched(r)
  BY <1>2 DEF Matched, wants
<1>5. QED
  BY <1>2, <1>3, <1>4 DEF Rebound

\* Handlers change from none to none, or from some to some: no listener does.
LEMMA SameListeners ==
    ASSUME NEW s, Whole(s), Matched(s), NEW e \in Elements, NEW t \in AllTypes, NEW l,
           s.handlers[e][t] = <<>> <=> l = <<>>
    PROVE  Rebound(s, withHandlers(s, e, t, l))
<1> DEFINE r == withHandlers(s, e, t, l)
<1>1. HandlersNow(s, e, t, l, r)
  BY NewHandlers
<1> HIDE DEF r
<1>2. \A x \in Elements, y \in AllTypes : r.handlers[x][y] = <<>> <=> s.handlers[x][y] = <<>>
  BY <1>1 DEF HandlersNow
<1>3. wants(r, "child") = wants(s, "child") /\ wants(r, "document") = wants(s, "document")
  BY <1>2 DEF wants, Elements, AllTypes
<1>4. Rebound(s, r)
  BY <1>1, <1>2, <1>3 DEF Matched, HandlersNow, Rebound
<1>5. QED
  BY <1>4 DEF r

\* Adding the first handler and removing the last: how the count of those who
\* want focusin changes.
LEMMA OtherWants ==
    ASSUME NEW s, NEW r, NEW e \in Elements,
           \A x \in Elements : x # e => r.handlers[x]["focusin"] = s.handlers[x]["focusin"]
    PROVE  wants(r, "child") + wants(r, "document") - wants(r, e)
             = wants(s, "child") + wants(s, "document") - wants(s, e)
<1>1. /\ wants(r, "child") \in Int /\ wants(r, "document") \in Int
      /\ wants(s, "child") \in Int /\ wants(s, "document") \in Int
  BY DEF wants
<1>2. CASE e = "child"
  <2>1. wants(r, "document") = wants(s, "document")
    BY <1>2 DEF wants, Elements
  <2>2. QED
    BY <1>1, <1>2, <2>1
<1>3. CASE e = "document"
  <2>1. wants(r, "child") = wants(s, "child")
    BY <1>3 DEF wants, Elements
  <2>2. QED
    BY <1>1, <1>3, <2>1
<1>4. QED
  BY <1>2, <1>3 DEF Elements

LEMMA FirstHandler ==
    ASSUME NEW s, Whole(s), Matched(s), NEW e \in Elements, NEW t \in AllTypes, NEW l, l # <<>>,
           s.handlers[e][t] = <<>>
    PROVE  Rebound(s, withHandlers(setup(s, e, t), e, t, l))
<1> DEFINE q == setup(s, e, t)
           r == withHandlers(q, e, t, l)
<1>1. CASE t = "focusin"
  <2>1. CaptureNow(s, s.attaches + 1, TRUE, q)
    <3>1. q = withCapture(s, s.attaches + 1, TRUE)
      BY <1>1 DEF setup, withCapture
    <3>2. s.attaches + 1 \in Int
      BY DEF Whole
    <3>3. CaptureNow(s, s.attaches + 1, TRUE, withCapture(s, s.attaches + 1, TRUE))
      BY <3>2, NewCapture
    <3>4. QED
      BY <3>1, <3>3
  <2> HIDE DEF q
  <2>2. Whole(q)
    BY <2>1 DEF CaptureNow
  <2>3. HandlersNow(q, e, t, l, r)
    BY <2>2, NewHandlers
  <2> HIDE DEF r
  <2>4. wants(r, e) = 1 /\ wants(s, e) = 0
    BY <1>1, <2>3 DEF wants, HandlersNow
  <2>5. /\ wants(r, "child") \in {0, 1} /\ wants(r, "document") \in {0, 1}
        /\ wants(s, "child") \in {0, 1} /\ wants(s, "document") \in {0, 1}
    BY DEF wants
  <2>6. wants(r, "child") + wants(r, "document") = wants(s, "child") + wants(s, "document") + 1
    <3>1. \A x \in Elements : x # e => r.handlers[x]["focusin"] = s.handlers[x]["focusin"]
      BY <1>1, <2>1, <2>3 DEF HandlersNow, CaptureNow
    <3>2. wants(r, "child") + wants(r, "document") - wants(r, e)
            = wants(s, "child") + wants(s, "document") - wants(s, e)
      BY <3>1, OtherWants
    <3>3. QED
      BY <2>4, <2>5, <3>2
  <2>7. /\ r.attaches = s.attaches + 1 /\ r.capture = TRUE
        /\ s.attaches = wants(s, "child") + wants(s, "document")
    BY <2>1, <2>3 DEF Matched, HandlersNow, CaptureNow
  <2>8. r.attaches = wants(r, "child") + wants(r, "document") /\ r.attaches > 0
    BY <2>5, <2>6, <2>7
  <2>9. \A x \in Elements, y \in AllTypes \ {"focusin"} :
            y \in r.listening[x] <=> r.handlers[x][y] # <<>>
    BY <1>1, <2>1, <2>3 DEF Matched, HandlersNow, CaptureNow
  <2>10. Matched(r)
    BY <2>7, <2>8, <2>9 DEF Matched
  <2>11. Rebound(s, r)
    BY <2>1, <2>3, <2>10 DEF Rebound, HandlersNow, CaptureNow
  <2>12. QED
    BY <2>11 DEF r, q
<1>2. CASE t # "focusin"
  <2>1. ListeningNow(s, e, s.listening[e] \union {t}, q)
    <3>1. q = withListening(s, e, s.listening[e] \union {t})
      BY <1>2 DEF setup, withListening
    <3>2. s.listening[e] \union {t} \in SUBSET AllTypes
      BY DEF Whole
    <3>3. ListeningNow(s, e, s.listening[e] \union {t},
                       withListening(s, e, s.listening[e] \union {t}))
      BY <3>2, NewListener
    <3>4. QED
      BY <3>1, <3>3
  <2> HIDE DEF q
  <2>2. Whole(q)
    BY <2>1 DEF ListeningNow
  <2>3. HandlersNow(q, e, t, l, r)
    BY <2>2, NewHandlers
  <2> HIDE DEF r
  <2>4. wants(r, "child") = wants(s, "child") /\ wants(r, "document") = wants(s, "document")
    BY <1>2, <2>1, <2>3 DEF wants, Elements, AllTypes, HandlersNow, ListeningNow
  <2>5. ASSUME NEW x \in Elements, NEW y \in AllTypes \ {"focusin"}
        PROVE  y \in r.listening[x] <=> r.handlers[x][y] # <<>>
    <3>1. CASE x = e /\ y = t
      BY <2>1, <2>3, <3>1 DEF HandlersNow, ListeningNow
    <3>2. CASE x # e
      BY <2>1, <2>3, <3>2 DEF Matched, HandlersNow, ListeningNow
    <3>3. CASE x = e /\ y # t
      BY <2>1, <2>3, <3>3 DEF Matched, HandlersNow, ListeningNow
    <3>4. QED
      BY <3>1, <3>2, <3>3
  <2>6. r.attaches = s.attaches /\ r.capture = s.capture
    BY <2>1, <2>3 DEF HandlersNow, ListeningNow
  <2>7. Matched(r)
    BY <2>4, <2>5, <2>6 DEF Matched
  <2>8. Rebound(s, r)
    BY <2>1, <2>3, <2>7 DEF Rebound, HandlersNow, ListeningNow
  <2>9. QED
    BY <2>8 DEF r, q
<1>3. QED
  BY <1>1, <1>2

LEMMA LastHandler ==
    ASSUME NEW s, Whole(s), Matched(s), NEW e \in Elements, NEW t \in AllTypes,
           s.handlers[e][t] # <<>>
    PROVE  Rebound(s, teardown(withHandlers(s, e, t, <<>>), e, t))
<1> DEFINE q == withHandlers(s, e, t, <<>>)
           r == teardown(q, e, t)
<1>1. HandlersNow(s, e, t, <<>>, q)
  BY NewHandlers
<1>2. Whole(q)
  BY <1>1 DEF HandlersNow
<1> HIDE DEF q
<1>3. CASE t = "focusin"
  <2>1. q.attaches \in Int /\ q.attaches - 1 \in Int
    BY <1>2 DEF Whole
  <2>2. \/ q.attaches = 1 /\ CaptureNow(q, q.attaches - 1, FALSE, r)
        \/ q.attaches # 1 /\ CaptureNow(q, q.attaches - 1, TRUE, r)
    <3>1. CASE q.attaches = 1
      <4>1. r = withCapture(q, q.attaches - 1, FALSE)
        BY <1>3, <3>1 DEF teardown, withCapture
      <4>2. CaptureNow(q, q.attaches - 1, FALSE, withCapture(q, q.attaches - 1, FALSE))
        BY <1>2, <2>1, NewCapture
      <4>3. QED
        BY <3>1, <4>1, <4>2
    <3>2. CASE q.attaches # 1
      <4>1. r = withCapture(q, q.attaches - 1, TRUE)
        BY <1>3, <3>2 DEF teardown, withCapture
      <4>2. CaptureNow(q, q.attaches - 1, TRUE, withCapture(q, q.attaches - 1, TRUE))
        BY <1>2, <2>1, NewCapture
      <4>3. QED
        BY <3>2, <4>1, <4>2
    <3>3. QED
      BY <3>1, <3>2
  <2> HIDE DEF r
  <2>3. /\ Whole(r) /\ r.attaches = q.attaches - 1
        /\ (q.attaches = 1 => r.capture = FALSE) /\ (q.attaches # 1 => r.capture = TRUE)
        /\ r.handlers = q.handlers /\ r.listening = q.listening
        /\ r.stack = q.stack /\ r.triggered = q.triggered
    BY <2>2 DEF CaptureNow
  <2>4. wants(r, e) = 0 /\ wants(s, e) = 1
    BY <1>1, <1>3, <2>3 DEF wants, HandlersNow
  <2>5. /\ wants(r, "child") \in {0, 1} /\ wants(r, "document") \in {0, 1}
        /\ wants(s, "child") \in {0, 1} /\ wants(s, "document") \in {0, 1}
    BY DEF wants
  <2>6. wants(r, "child") + wants(r, "document") = wants(s, "child") + wants(s, "document") - 1
    <3>1. \A x \in Elements : x # e => r.handlers[x]["focusin"] = s.handlers[x]["focusin"]
      BY <1>1, <1>3, <2>3 DEF HandlersNow
    <3>2. wants(r, "child") + wants(r, "document") - wants(r, e)
            = wants(s, "child") + wants(s, "document") - wants(s, e)
      BY <3>1, OtherWants
    <3>3. QED
      BY <2>4, <2>5, <3>2
  <2>7. q.attaches = s.attaches /\ s.attaches = wants(s, "child") + wants(s, "document")
    BY <1>1 DEF Matched, HandlersNow
  <2>8. r.attaches = wants(r, "child") + wants(r, "document")
    BY <2>3, <2>5, <2>6, <2>7
  <2>9. r.capture <=> r.attaches > 0
    <3>1. q.attaches # 1 <=> r.attaches > 0
      BY <2>3, <2>5, <2>6, <2>7
    <3>2. QED
      BY <2>3, <3>1
  <2>10. \A x \in Elements, y \in AllTypes \ {"focusin"} :
            y \in r.listening[x] <=> r.handlers[x][y] # <<>>
    BY <1>1, <1>3, <2>3 DEF Matched, HandlersNow
  <2>11. Matched(r)
    BY <2>8, <2>9, <2>10 DEF Matched
  <2>12. Rebound(s, r)
    BY <1>1, <2>3, <2>11 DEF Rebound, HandlersNow
  <2>13. QED
    BY <2>12 DEF r, q
<1>4. CASE t # "focusin"
  <2>1. ListeningNow(q, e, q.listening[e] \ {t}, r)
    <3>1. r = withListening(q, e, q.listening[e] \ {t})
      BY <1>4 DEF teardown, removeEvent, withListening
    <3>2. q.listening[e] \ {t} \in SUBSET AllTypes
      BY <1>2 DEF Whole
    <3>3. ListeningNow(q, e, q.listening[e] \ {t}, withListening(q, e, q.listening[e] \ {t}))
      BY <1>2, <3>2, NewListener
    <3>4. QED
      BY <3>1, <3>3
  <2> HIDE DEF r
  <2>2. wants(r, "child") = wants(s, "child") /\ wants(r, "document") = wants(s, "document")
    BY <1>1, <1>4, <2>1 DEF wants, Elements, AllTypes, HandlersNow, ListeningNow
  <2>3. ASSUME NEW x \in Elements, NEW y \in AllTypes \ {"focusin"}
        PROVE  y \in r.listening[x] <=> r.handlers[x][y] # <<>>
    <3>1. CASE x = e /\ y = t
      BY <1>1, <2>1, <3>1 DEF HandlersNow, ListeningNow
    <3>2. CASE x # e
      BY <1>1, <2>1, <3>2 DEF Matched, HandlersNow, ListeningNow
    <3>3. CASE x = e /\ y # t
      BY <1>1, <2>1, <3>3 DEF Matched, HandlersNow, ListeningNow
    <3>4. QED
      BY <3>1, <3>2, <3>3
  <2>4. r.attaches = s.attaches /\ r.capture = s.capture
    BY <1>1, <2>1 DEF HandlersNow, ListeningNow
  <2>5. Matched(r)
    BY <2>2, <2>3, <2>4 DEF Matched
  <2>6. Rebound(s, r)
    BY <1>1, <2>1, <2>5 DEF Rebound, HandlersNow, ListeningNow
  <2>7. QED
    BY <2>6 DEF r, q
<1>5. QED
  BY <1>3, <1>4

LEMMA Removed ==
    ASSUME NEW s, Whole(s), Matched(s), NEW e \in Elements, NEW t \in AllTypes, NEW match
    PROVE  Rebound(s, remove(s, e, t, match))
<1>1. PICK left : left = Without(s.handlers[e][t], match)
  OBVIOUS
<1>2. remove(s, e, t, match)
        = IF s.handlers[e][t] = <<>> THEN s
          ELSE IF left = <<>> THEN teardown(withHandlers(s, e, t, left), e, t)
          ELSE withHandlers(s, e, t, left)
  BY <1>1 DEF remove, withHandlers
<1>3. Rebound(s, s)
  BY DEF Rebound
<1>4. CASE s.handlers[e][t] = <<>>
  BY <1>2, <1>3, <1>4
<1>5. CASE s.handlers[e][t] # <<>> /\ left = <<>>
  BY <1>2, <1>5, LastHandler
<1>6. CASE s.handlers[e][t] # <<>> /\ left # <<>>
  BY <1>2, <1>6, SameListeners
<1>7. QED
  BY <1>4, <1>5, <1>6

LEMMA Appended ==
    ASSUME NEW l, NEW h
    PROVE  Append(l, h) # <<>>
OBVIOUS

LEMMA Added ==
    ASSUME NEW s, Whole(s), Matched(s), NEW e \in Elements, NEW t \in AllTypes, NEW h
    PROVE  Rebound(s, add(s, e, t, h))
<1> DEFINE with(x) == [x EXCEPT !.handlers[e][t] = Append(@, h)]
           ready == IF s.handlers[e][t] = <<>> THEN setup(s, e, t) ELSE s
<1>1. add(s, e, t, h) = with(ready)
  BY DEF add
<1>2. PICK q : q = ready
  OBVIOUS
<1>3. PICK l : l = Append(q.handlers[e][t], h)
  OBVIOUS
<1>4. with(q) = withHandlers(q, e, t, l)
  BY <1>3 DEF withHandlers
<1>5. l # <<>>
  BY <1>3, Appended
<1> HIDE DEF with
<1>6. add(s, e, t, h) = withHandlers(q, e, t, l)
  BY <1>1, <1>2, <1>4
<1>7. CASE s.handlers[e][t] = <<>>
  BY <1>2, <1>5, <1>6, <1>7, FirstHandler
<1>8. CASE s.handlers[e][t] # <<>>
  BY <1>2, <1>5, <1>6, <1>8, SameListeners
<1>9. QED
  BY <1>7, <1>8

LEMMA InTurn ==
    ASSUME NEW s, NEW q, NEW r, Rebound(s, q), Rebound(q, r)
    PROVE  Rebound(s, r)
BY DEF Rebound

LEMMA NamespaceRemoved ==
    ASSUME NEW s, Whole(s), Matched(s), NEW e \in Elements, NEW ns
    PROVE  Rebound(s, unbindNamespace(s, e, ns))
<1> DEFINE s1 == remove(s, e, "click", Matching(s, e, "click", ns))
           s2 == remove(s1, e, "focus", Matching(s1, e, "focus", ns))
           s3 == remove(s2, e, "focusin", Matching(s2, e, "focusin", ns))
<1>1. Rebound(s, s1)
  BY Removed DEF AllTypes
<1> HIDE DEF s1
<1>2. Rebound(s1, s2)
  BY <1>1, Removed DEF AllTypes, Rebound
<1> HIDE DEF s2
<1>3. Rebound(s2, s3)
  BY <1>2, Removed DEF AllTypes, Rebound
<1> HIDE DEF s3
<1>4. Rebound(s, s3)
  BY <1>1, <1>2, <1>3, InTurn
<1>5. QED
  BY <1>4 DEF unbindNamespace, s1, s2, s3

LEMMA LiveBound ==
    ASSUME NEW s, Whole(s), Matched(s), NEW t \in AllTypes, NEW id
    PROVE  Rebound(s, specialLive(s, t, id))
<1>1. PICK l : l = Append(s.live, [id |-> id, type |-> t])
  OBVIOUS
<1>2. PICK q : q = [s EXCEPT !.live = l]
  OBVIOUS
<1>3. PICK h : h = [id |-> id, kind |-> "live", ns |-> "sel"]
  OBVIOUS
<1>4. specialLive(s, t, id) = add(q, "document", t, h)
  BY <1>1, <1>2, <1>3 DEF specialLive
<1>5. Rebound(s, q)
  BY <1>2, NewLive
<1>6. Rebound(q, add(q, "document", t, h))
  BY <1>5, Added DEF Rebound, Elements
<1>7. QED
  BY <1>4, <1>5, <1>6, InTurn

LEMMA LiveUnbound ==
    ASSUME NEW s, Whole(s), Matched(s), NEW t \in AllTypes, NEW id
    PROVE  Rebound(s, specialDie(s, t, id))
<1>1. PICK l : l = Picked(s.live, {i \in DOMAIN s.live : ~(s.live[i].id = id /\ s.live[i].type = t)})
  OBVIOUS
<1>2. PICK q : q = [s EXCEPT !.live = l]
  OBVIOUS
<1>3. specialDie(s, t, id) = remove(q, "document", t, {id})
  BY <1>1, <1>2 DEF specialDie
<1>4. Rebound(s, q)
  BY <1>2, NewLive
<1>5. Rebound(q, remove(q, "document", t, {id}))
  BY <1>4, Removed DEF Rebound, Elements
<1>6. QED
  BY <1>3, <1>4, <1>5, InTurn

LEMMA LiveAndDie ==
    ASSUME NEW s, Whole(s), Matched(s), NEW t \in AllTypes, NEW id
    PROVE  Rebound(s, live(s, t, id)) /\ Rebound(s, die(s, t, id))
<1> DEFINE q == specialLive(s, t, id)
           r == specialDie(s, t, id)
<1>1. Rebound(s, q) /\ Rebound(s, r)
  BY LiveBound, LiveUnbound
<1>2. live(s, t, id) = IF t = "focus" THEN specialLive(q, "focusin", id) ELSE q
  BY DEF live
<1>3. die(s, t, id) = IF t = "focus" THEN specialDie(r, "focusin", id) ELSE r
  BY DEF die
<1> HIDE DEF q, r
<1>4. Rebound(q, specialLive(q, "focusin", id)) /\ Rebound(r, specialDie(r, "focusin", id))
  BY <1>1, LiveBound, LiveUnbound DEF Rebound, AllTypes
<1>5. Rebound(s, specialLive(q, "focusin", id)) /\ Rebound(s, specialDie(r, "focusin", id))
  BY <1>1, <1>4, InTurn
<1>6. QED
  BY <1>1, <1>2, <1>3, <1>5

-----------------------------------------------------------------------------
(***************************************************************************)
(* Calls, returns, and what frames are told.                               *)
(***************************************************************************)
Steady(s) ==
  /\ Whole(s) /\ Matched(s)
  /\ Stack(s.stack) /\ Inside(s.stack, s.triggered)

\* r has the frames of s, as far as Like tells.
SameCalls(s, r) ==
  /\ Steady(r)
  /\ r.stack # <<>> <=> s.stack # <<>>
  /\ s.stack # <<>> => /\ r.stack[1].fn = s.stack[1].fn
                       /\ CallsNative(r.stack[1]) <=> CallsNative(s.stack[1])

LEMMA AfterRebound ==
    ASSUME NEW s, Steady(s), NEW r, Rebound(s, r)
    PROVE  SameCalls(s, r)
BY DEF Steady, Rebound, SameCalls

LEMMA Called ==
    ASSUME NEW s, Steady(s), NEW f, Frame(f),
           s.stack # <<>> => ~CallsNative(s.stack[1])
    PROVE  Steady(Push(s, f))
<1>1. PICK k : k = <<f>> \o s.stack
  OBVIOUS
<1>2. Push(s, f) = [s EXCEPT !.stack = k]
  BY <1>1 DEF Push
<1>3. PICK r : r = [s EXCEPT !.stack = k]
  OBVIOUS
<1>4. Restacked(s, r, k, s.triggered)
  BY <1>3, NewStack DEF Steady
<1>5. PICK o, T : o = s.stack /\ T = s.triggered
  OBVIOUS
<1>6. Stack(k) /\ Inside(k, T)
  <2>1. /\ Stack(o) /\ Inside(o, T) /\ k = <<f>> \o o
        /\ o # <<>> => ~CallsNative(o[1])
    BY <1>1, <1>5 DEF Steady
  <2>2. QED
    BY <2>1, Pushed
<1>7. Steady(r)
  BY <1>4, <1>5, <1>6 DEF Steady, Restacked
<1>8. QED
  BY <1>2, <1>3, <1>7

LEMMA Told ==
    ASSUME NEW s, Steady(s), NEW i \in Nat, NEW f, i \in DOMAIN s.stack => Like(f, s.stack[i]),
           NEW r, r = [s EXCEPT !.stack[i] = f]
    PROVE  SameCalls(s, r)
<1>1. PICK k : k = [s.stack EXCEPT ![i] = f]
  OBVIOUS
<1>2. r = [s EXCEPT !.stack = k]
  BY <1>1
<1>3. Restacked(s, r, k, s.triggered)
  BY <1>2, NewStack DEF Steady
<1>4. PICK o, T : o = s.stack /\ T = s.triggered
  OBVIOUS
<1>5. /\ Stack(k) /\ Inside(k, T)
      /\ k # <<>> <=> o # <<>>
      /\ o # <<>> => /\ k[1].fn = o[1].fn
                     /\ CallsNative(k[1]) <=> CallsNative(o[1])
  <2>1. /\ Stack(o) /\ Inside(o, T) /\ k = [o EXCEPT ![i] = f]
        /\ i \in DOMAIN o => Like(f, o[i])
    BY <1>1, <1>4 DEF Steady
  <2>2. QED
    BY <2>1, Adjusted
<1>6. QED
  BY <1>3, <1>4, <1>5 DEF Steady, Restacked, SameCalls

\* What a frame is told without its kind and phase.
LEMMA Alike ==
    ASSUME NEW g, Frame(g), NEW v, NEW f,
           \/ f = [g EXCEPT !.rest = v] \/ f = [g EXCEPT !.stop = v]
           \/ f = [g EXCEPT !.stopped = v] \/ f = [g EXCEPT !.prevented = v]
           \/ f = [g EXCEPT !.cur = "document"] \/ f = [g EXCEPT !.liveFired = v]
    PROVE  Like(f, g)
<1>1. CASE f = [g EXCEPT !.rest = v]
  BY <1>1 DEF Like, Frame, CallsNative
<1>2. CASE f = [g EXCEPT !.stop = v]
  BY <1>2 DEF Like, Frame, CallsNative
<1>3. CASE f = [g EXCEPT !.stopped = v]
  BY <1>3 DEF Like, Frame, CallsNative
<1>4. CASE f = [g EXCEPT !.prevented = v]
  BY <1>4 DEF Like, Frame, CallsNative
<1>5. CASE f = [g EXCEPT !.cur = "document"]
  BY <1>5 DEF Like, Frame, CallsNative, Elements
<1>6. CASE f = [g EXCEPT !.liveFired = v]
  BY <1>6 DEF Like, Frame, CallsNative
<1>7. QED
  BY <1>1, <1>2, <1>3, <1>4, <1>5, <1>6

LEMMA NextPhase ==
    ASSUME NEW g, Frame(g), g.fn \in {"trigger", "native"}, ~CallsNative(g),
           NEW ph \in {"call", "bubble"}, NEW f, f = [g EXCEPT !.phase = ph]
    PROVE  Like(f, g)
BY DEF Like, Frame, CallsNative

LEMMA Back ==
    ASSUME NEW s, Steady(s), s.stack # <<>>, ~CallsNative(s.stack[1]),
           NEW r, r = [s EXCEPT !.stack = Tail(@)]
    PROVE  /\ Steady(r)
           /\ s.stack[1].fn # "native" /\ r.stack # <<>> => ~CallsNative(r.stack[1])
<1>1. PICK k : k = Tail(s.stack)
  OBVIOUS
<1>2. r = [s EXCEPT !.stack = k]
  BY <1>1
<1>3. Restacked(s, r, k, s.triggered)
  BY <1>2, NewStack DEF Steady
<1>4. /\ Stack(k) /\ Inside(k, s.triggered)
      /\ k # <<>> /\ s.stack[1].fn # "native" => ~CallsNative(k[1])
  BY <1>1, Returned DEF Steady
<1>5. QED
  BY <1>3, <1>4 DEF Steady, Restacked

\* A trigger that calls no native method, or whose method has returned, leaves.
LEMMA Left ==
    ASSUME NEW s, Steady(s), s.stack # <<>>,
           NEW r, r = [[s EXCEPT !.stack = Tail(@)] EXCEPT !.triggered = "none"]
    PROVE  Steady(r)
<1>1. PICK k : k = Tail(s.stack)
  OBVIOUS
<1>2. r = [s EXCEPT !.stack = k, !.triggered = "none"]
  BY <1>1
<1>3. Restacked(s, r, k, "none")
  BY <1>2, NewStack DEF Steady
<1>4. Stack(k) /\ Inside(k, "none")
  BY <1>1, Returned DEF Steady, Inside
<1>5. QED
  BY <1>3, <1>4 DEF Steady, Restacked

LEMMA ToldOne ==
    ASSUME NEW s, Steady(s), NEW i \in Nat, NEW v, NEW r,
           \/ r = [s EXCEPT !.stack[i].rest = v] \/ r = [s EXCEPT !.stack[i].stop = v]
           \/ r = [s EXCEPT !.stack[i].stopped = v] \/ r = [s EXCEPT !.stack[i].prevented = v]
           \/ r = [s EXCEPT !.stack[i].cur = "document"] \/ r = [s EXCEPT !.stack[i].liveFired = v]
    PROVE  SameCalls(s, r)
<1>1. PICK g : g = s.stack[i]
  OBVIOUS
<1>2. i \in DOMAIN s.stack => Frame(g)
  BY <1>1 DEF Steady, Stack
<1>3. \E f : /\ r = [s EXCEPT !.stack[i] = f]
             /\ \/ f = [g EXCEPT !.rest = v] \/ f = [g EXCEPT !.stop = v]
                \/ f = [g EXCEPT !.stopped = v] \/ f = [g EXCEPT !.prevented = v]
                \/ f = [g EXCEPT !.cur = "document"] \/ f = [g EXCEPT !.liveFired = v]
  BY <1>1
<1>4. PICK f : /\ r = [s EXCEPT !.stack[i] = f]
               /\ \/ f = [g EXCEPT !.rest = v] \/ f = [g EXCEPT !.stop = v]
                  \/ f = [g EXCEPT !.stopped = v] \/ f = [g EXCEPT !.prevented = v]
                  \/ f = [g EXCEPT !.cur = "document"] \/ f = [g EXCEPT !.liveFired = v]
  BY <1>3
<1>5. i \in DOMAIN s.stack => Like(f, s.stack[i])
  <2>1. Frame(g) => Like(f, g)
    BY <1>4, Alike
  <2>2. QED
    BY <1>1, <1>2, <2>1
<1>6. r = [s EXCEPT !.stack[i] = f]
  BY <1>4
<1>7. QED
  BY <1>5, <1>6, Told

LEMMA SameThen ==
    ASSUME NEW s, NEW q, NEW r, SameCalls(s, q), SameCalls(q, r)
    PROVE  SameCalls(s, r)
BY DEF SameCalls

LEMMA ToldTwo ==
    ASSUME NEW s, Steady(s), NEW i \in Nat, NEW v, NEW w
    PROVE  SameCalls(s, [s EXCEPT !.stack[i].stopped = v, !.stack[i].prevented = w])
<1>1. PICK q : q = [s EXCEPT !.stack[i].stopped = v]
  OBVIOUS
<1>2. SameCalls(s, q)
  BY <1>1, ToldOne
<1>3. Steady(q)
  BY <1>2 DEF SameCalls
<1>4. PICK r : r = [q EXCEPT !.stack[i].prevented = w]
  OBVIOUS
<1>5. SameCalls(q, r)
  BY <1>3, <1>4, ToldOne
<1>6. [s EXCEPT !.stack[i].stopped = v, !.stack[i].prevented = w] = r
  BY <1>1, <1>4
<1>7. QED
  BY <1>2, <1>5, <1>6, SameThen

-----------------------------------------------------------------------------
(***************************************************************************)
(* The steps.                                                              *)
(***************************************************************************)
LEMMA TopFrame ==
    ASSUME NEW s, Steady(s), s.stack # <<>>
    PROVE  /\ Head(s.stack) = s.stack[1] /\ Frame(s.stack[1])
           /\ s.stack[1].fn \notin {"trigger"} => ~CallsNative(s.stack[1])
<1>1. PICK S : s.stack \in Seq(S)
  BY DEF Steady, Stack
<1>2. 1 \in DOMAIN s.stack /\ Head(s.stack) = s.stack[1]
  BY <1>1, PoppedOf
<1>3. QED
  BY <1>2 DEF Steady, Stack, CallsNative

LEMMA UserCodeCalls ==
    ASSUME EventsInv, UserCode
    PROVE  Steady(page) /\ (page.stack # <<>> => ~CallsNative(page.stack[1]))
<1>1. Steady(page)
  BY DEF EventsInv, Steady
<1>2. CASE At("handler")
  BY <1>1, <1>2, TopFrame DEF At, Top
<1>3. QED
  BY <1>1, <1>2 DEF UserCode

LEMMA CallKeeps ==
    ASSUME EventsInv, Call, EventsAssumption
    PROVE  Steady(page')
<1>1. Steady(page) /\ Whole(page) /\ Matched(page) /\ Types \subseteq AllTypes
  BY DEF EventsInv, Steady, EventsAssumption
<1>2. SUFFICES Rebound(page, page')
  BY <1>1, AfterRebound DEF SameCalls
<1>3. CASE Bind
  <2>1. PICK e \in Elements, t \in Types, ns \in Namespaces, kind \in Binds \ {"live"} :
          page' = add(page, e, t, [id |-> calls', kind |-> kind, ns |-> ns])
    BY <1>3 DEF Bind
  <2>2. PICK h : h = [id |-> calls', kind |-> kind, ns |-> ns]
    OBVIOUS
  <2>3. QED
    BY <1>1, <2>1, <2>2, Added
<1>4. CASE Live
  <2>1. PICK t \in Types : page' = live(page, t, calls')
    BY <1>4 DEF Live
  <2>2. QED
    BY <1>1, <2>1, LiveAndDie
<1>5. CASE Unbind
  <2>1. CASE \E e \in Elements, t \in Types :
               \/ page.handlers[e][t] # <<>> /\ page' = remove(page, e, t, 1 .. MaxCalls)
               \/ \E h \in ToSet(page.handlers[e][t]) :
                    h.kind # "live" /\ page' = remove(page, e, t, {h.id})
    <3>1. \E e \in Elements, t \in AllTypes : \E match : page' = remove(page, e, t, match)
      BY <1>1, <2>1
    <3>2. QED
      BY <1>1, <3>1, Removed
  <2>2. CASE \E e \in Elements : page' = unbindNamespace(page, e, "a")
    BY <1>1, <2>2, NamespaceRemoved
  <2>3. CASE \E t \in Types, l \in ToSet(page.live) : l.type = t /\ page' = die(page, t, l.id)
    <3>1. PICK t \in Types, l \in ToSet(page.live) : page' = die(page, t, l.id)
      BY <2>3
    <3>2. QED
      BY <1>1, <3>1, LiveAndDie
  <2>4. QED
    BY <1>5, <2>1, <2>2, <2>3 DEF Unbind
<1>6. QED
  BY <1>3, <1>4, <1>5 DEF Call

LEMMA TriggerKeeps ==
    ASSUME EventsInv, trigger, EventsAssumption
    PROVE  Steady(page')
<1>1. Steady(page) /\ (page.stack # <<>> => ~CallsNative(page.stack[1]))
  BY UserCodeCalls DEF trigger
<1>2. PICK e \in Elements, t \in Types, ns \in Namespaces, only \in BOOLEAN :
        page' = Push(page, TriggerFrame(e, t, ns, only, events'))
  BY DEF trigger
<1>3. Frame(TriggerFrame(e, t, ns, only, events'))
  BY DEF Frame, TriggerFrame, EventsAssumption
<1>4. QED
  BY <1>1, <1>2, <1>3, Called

LEMMA UserEventKeeps ==
    ASSUME EventsInv, UserEvent
    PROVE  Steady(page')
<1>1. Steady(page) /\ page.stack = <<>>
  BY DEF EventsInv, Steady, UserEvent
<1>2. PICK t \in {"click", "focus"} : page' = Push(page, NativeFrame(t, events'))
  BY DEF UserEvent
<1>3. Frame(NativeFrame(t, events'))
  BY DEF Frame, NativeFrame, AllTypes, Elements
<1>4. QED
  BY <1>1, <1>2, <1>3, Called

LEMMA NativeBegun ==
    ASSUME NEW k, Stack(k), k # <<>>, NEW f, Frame(f), CallsNative(f), f.fn = k[1].fn,
           NEW l, l = [k EXCEPT ![1] = f]
    PROVE  Stack(l) /\ Inside(l, f.type) /\ l # <<>>
<1>1. PICK S : k \in Seq(S)
  BY DEF Stack
<1>2. 1 \in DOMAIN k
  BY <1>1
<1>3. /\ l \in Seq(S \union {f}) /\ DOMAIN l = DOMAIN k
      /\ \A j \in DOMAIN k : j # 1 => l[j] = k[j]
      /\ l[1] = f
  BY <1>1, <1>2, AdjustedOf
<1>4. \A j \in DOMAIN l : Frame(l[j]) /\ l[j].fn = k[j].fn
  BY <1>3 DEF Stack
<1>5. ASSUME NEW j \in DOMAIN l, CallsNative(l[j]), j # 1 PROVE l[j - 1].fn = "native"
  <2>1. j - 1 \in DOMAIN l
    BY <1>1, <1>3, <1>5
  <2>2. k[j - 1].fn = "native"
    BY <1>3, <1>5 DEF Stack
  <2>3. QED
    BY <1>4, <2>1, <2>2
<1>6. Inside(l, f.type) /\ l # <<>>
  BY <1>2, <1>3 DEF Inside
<1>7. QED
  BY <1>3, <1>4, <1>5, <1>6 DEF Stack

LEMMA HandleKeeps ==
    ASSUME NEW s, Steady(s), s.stack # <<>>, ~CallsNative(s.stack[1]),
           s.stack[1].fn \in {"trigger", "native"}, NEW e \in Elements
    PROVE  Steady(eventHandle(s, e))
<1>1. PICK t : t = Head(s.stack).type
  OBVIOUS
<1>2. PICK f : f = [fn |-> "handle", elem |-> e, type |-> t, rest |-> s.handlers[e][t]]
  OBVIOUS
<1>3. eventHandle(s, e) = Push(s, f) \/ eventHandle(s, e) = s
  BY <1>1, <1>2 DEF eventHandle
<1>4. Frame(f)
  <2>1. t \in AllTypes
    BY <1>1, TopFrame DEF Frame
  <2>2. QED
    BY <1>2, <2>1 DEF Frame
<1>5. Steady(Push(s, f))
  BY <1>4, Called
<1>6. QED
  BY <1>3, <1>5

LEMMA PhaseKeeps ==
    ASSUME Steady(page), page.stack # <<>>, page.stack[1].fn \in {"trigger", "native"},
           ~CallsNative(page.stack[1]), NEW ph \in {"call", "bubble"}
    PROVE  SameCalls(page, Phase(ph)) /\ SameCalls(page, AtParent)
<1>1. ASSUME NEW p \in {"call", "bubble"} PROVE SameCalls(page, Phase(p))
  <2>1. PICK f : f = [page.stack[1] EXCEPT !.phase = p]
    OBVIOUS
  <2>2. Like(f, page.stack[1])
    BY <2>1, TopFrame, NextPhase
  <2>3. Phase(p) = [page EXCEPT !.stack[1] = f]
    BY <2>1 DEF Phase
  <2>4. PICK r : r = [page EXCEPT !.stack[1] = f]
    OBVIOUS
  <2>5. SameCalls(page, r)
    BY <2>2, <2>4, Told
  <2>6. QED
    BY <2>3, <2>4, <2>5
<1>2. SameCalls(page, AtParent)
  <2>1. PICK q : q = Phase("call")
    OBVIOUS
  <2>2. SameCalls(page, q)
    BY <1>1, <2>1
  <2>3. Steady(q)
    BY <2>2 DEF SameCalls
  <2>4. PICK r : r = [q EXCEPT !.stack[1].cur = "document"]
    OBVIOUS
  <2>5. SameCalls(q, r)
    BY <2>3, <2>4, ToldOne
  <2>6. AtParent = r
    BY <2>1, <2>4 DEF AtParent, Phase
  <2>7. QED
    BY <2>2, <2>5, <2>6, SameThen
<1>3. QED
  BY <1>1, <1>2

\* trigger calls the native method: from now on events of the type are dropped, and
\* the native dispatch is above it.
LEMMA MethodCalled ==
    ASSUME Steady(page), page.stack # <<>>, page.stack[1].fn = "trigger", NEW n,
           HasMethod(page.stack[1].target, page.stack[1].type)
    PROVE  Steady(Push([Phase("native") EXCEPT !.triggered = page.stack[1].type],
                       NativeFrame(page.stack[1].type, n)))
<1>1. PICK g : g = page.stack[1]
  OBVIOUS
<1>2. PICK f : f = [g EXCEPT !.phase = "native"]
  OBVIOUS
<1>3. Frame(f) /\ CallsNative(f) /\ f.fn = g.fn /\ f.type = g.type
  <2>1. Frame(g) /\ g.fn = "trigger"
    BY <1>1, TopFrame
  <2>2. QED
    BY <1>2, <2>1 DEF Frame, CallsNative
<1>4. PICK l : l = [page.stack EXCEPT ![1] = f]
  OBVIOUS
<1>5. Stack(l) /\ Inside(l, f.type) /\ l # <<>>
  BY <1>1, <1>3, <1>4, NativeBegun DEF Steady
<1>6. PICK d : d = NativeFrame(g.type, n)
  OBVIOUS
<1>7. Frame(d) /\ d.fn = "native"
  BY <1>1, <1>6 DEF Frame, NativeFrame, HasMethod, AllTypes, Elements
<1>8. PICK k : k = <<d>> \o l
  OBVIOUS
<1>9. Stack(k) /\ Inside(k, f.type)
  BY <1>5, <1>7, <1>8, Pushed
<1>10. PICK T : T = g.type
  OBVIOUS
<1>11. PICK r : r = [page EXCEPT !.stack = k, !.triggered = T]
  OBVIOUS
<1>12. Restacked(page, r, k, T)
  BY <1>11, NewStack DEF Steady
<1>13. Steady(r)
  BY <1>3, <1>9, <1>10, <1>12 DEF Restacked, Steady
<1>14. Push([Phase("native") EXCEPT !.triggered = g.type], d) = r
  BY <1>1, <1>2, <1>4, <1>8, <1>10, <1>11 DEF Push, Phase
<1>15. QED
  BY <1>1, <1>6, <1>13, <1>14

LEMMA TriggerStepKeeps ==
    ASSUME EventsInv, triggerStep
    PROVE  Steady(page')
<1>1. Steady(page) /\ page.stack # <<>> /\ page.stack[1].fn = "trigger" /\ Top = page.stack[1]
  <2>1. Steady(page) /\ page.stack # <<>> /\ Top.fn = "trigger"
    BY DEF EventsInv, Steady, triggerStep, At
  <2>2. QED
    BY <2>1, TopFrame DEF Top
<1>2. Top.phase \in {"call", "bubble", "native"} /\ Top.cur \in Elements
  BY <1>1, TopFrame DEF Frame
<1>3. CASE Top.phase = "call"
  <2>1. page' = eventHandle(Phase("bubble"), Top.cur)
    BY <1>3 DEF triggerStep
  <2>2. ~CallsNative(page.stack[1])
    BY <1>1, <1>3 DEF CallsNative
  <2>3. PICK q : q = Phase("bubble")
    OBVIOUS
  <2>4. SameCalls(page, q)
    BY <1>1, <2>2, <2>3, PhaseKeeps
  <2>5. /\ Steady(q) /\ q.stack # <<>> /\ ~CallsNative(q.stack[1])
        /\ q.stack[1].fn \in {"trigger", "native"}
    BY <1>1, <2>2, <2>4 DEF SameCalls
  <2>6. QED
    BY <1>2, <2>1, <2>3, <2>5, HandleKeeps
<1>4. CASE Top.phase = "bubble" /\ Top.cur = "child" /\ ~Top.stopped
  <2>1. page' = AtParent
    BY <1>4 DEF triggerStep
  <2>2. ~CallsNative(page.stack[1])
    BY <1>1, <1>4 DEF CallsNative
  <2>3. SameCalls(page, AtParent)
    BY <1>1, <2>2, PhaseKeeps
  <2>4. QED
    BY <2>1, <2>3 DEF SameCalls
<1>5. CASE Top.phase = "bubble" /\ ~(Top.cur = "child" /\ ~Top.stopped)
  <2>1. page' = IF Top.prevented THEN Popped
                ELSE IF HasMethod(Top.target, Top.type)
                THEN Push([Phase("native") EXCEPT !.triggered = Top.type], NativeFrame(Top.type, Top.n))
                ELSE [Popped EXCEPT !.triggered = "none"]
    BY <1>5 DEF triggerStep
  <2>2. ~CallsNative(page.stack[1])
    BY <1>1, <1>5 DEF CallsNative
  <2>3. Steady(Popped)
    BY <1>1, <2>2, Back DEF Popped
  <2>4. Steady([Popped EXCEPT !.triggered = "none"])
    BY <1>1, Left DEF Popped
  <2>5. HasMethod(Top.target, Top.type) =>
          Steady(Push([Phase("native") EXCEPT !.triggered = Top.type], NativeFrame(Top.type, Top.n)))
    BY <1>1, MethodCalled
  <2>6. QED
    BY <2>1, <2>3, <2>4, <2>5
<1>6. CASE Top.phase = "native"
  <2>1. page' = [Popped EXCEPT !.triggered = "none"]
    BY <1>6 DEF triggerStep
  <2>2. Steady([Popped EXCEPT !.triggered = "none"])
    BY <1>1, Left DEF Popped
  <2>3. QED
    BY <2>1, <2>2
<1>7. QED
  BY <1>2, <1>3, <1>4, <1>5, <1>6

LEMMA NativeStepKeeps ==
    ASSUME EventsInv, nativeStep
    PROVE  Steady(page')
<1>1. /\ Steady(page) /\ page.stack # <<>> /\ page.stack[1].fn = "native"
      /\ Top = page.stack[1] /\ ~CallsNative(page.stack[1])
  <2>1. Steady(page) /\ page.stack # <<>> /\ Top.fn = "native"
    BY DEF EventsInv, Steady, nativeStep, At
  <2>2. QED
    BY <2>1, TopFrame DEF Top
<1>2. Top.phase \in {"capture", "call", "bubble"} /\ Top.cur \in Elements
  BY <1>1, TopFrame DEF Frame
<1>3. PICK q : q = Phase("call")
  OBVIOUS
<1>4. PICK b : b = Phase("bubble")
  OBVIOUS
<1>5. SameCalls(page, q) /\ SameCalls(page, b) /\ SameCalls(page, AtParent)
  BY <1>1, <1>3, <1>4, PhaseKeeps
<1>6. /\ Steady(q) /\ q.stack # <<>> /\ ~CallsNative(q.stack[1])
      /\ Steady(b) /\ b.stack # <<>> /\ ~CallsNative(b.stack[1])
      /\ b.stack[1].fn \in {"trigger", "native"}
      /\ Steady(AtParent)
  BY <1>1, <1>5 DEF SameCalls
<1>7. CASE Top.phase = "capture"
  <2>1. PICK f : f = TriggerFrame("child", "focusin", "", FALSE, Top.n + MaxEvents)
    OBVIOUS
  <2>2. page' = Push(q, f) \/ page' = q
    BY <1>3, <1>7, <2>1 DEF nativeStep
  <2>3. Frame(f)
    BY <2>1 DEF Frame, TriggerFrame, AllTypes, Elements
  <2>4. Steady(Push(q, f))
    BY <1>6, <2>3, Called
  <2>5. QED
    BY <1>6, <2>2, <2>4
<1>8. CASE Top.phase = "call"
  <2>1. page' = eventHandle(b, Top.cur) \/ page' = b
    BY <1>4, <1>8 DEF nativeStep
  <2>2. Steady(eventHandle(b, Top.cur))
    BY <1>2, <1>6, HandleKeeps
  <2>3. QED
    BY <1>6, <2>1, <2>2
<1>9. CASE Top.phase = "bubble"
  <2>1. page' = AtParent \/ page' = Popped
    BY <1>9 DEF nativeStep
  <2>2. Steady(Popped)
    BY <1>1, Back DEF Popped
  <2>3. QED
    BY <1>6, <2>1, <2>2
<1>10. QED
  BY <1>2, <1>7, <1>8, <1>9

\* A handler is called, that of "one" unbound before.
LEMMA RunKeeps ==
    ASSUME NEW s, Steady(s), s.stack # <<>> => ~CallsNative(s.stack[1]),
           NEW h, NEW e \in Elements, NEW t \in AllTypes, NEW n, Run(s, h, e, t, n)
    PROVE  Steady(page')
<1>1. PICK q : q = IF h.kind = "once" THEN remove(s, e, t, {h.id}) ELSE s
  OBVIOUS
<1>2. PICK f : f = [fn |-> "handler", elem |-> e]
  OBVIOUS
<1>3. page' = Push(q, f)
  BY <1>1, <1>2 DEF Run
<1>4. SameCalls(s, q)
  <2>1. SameCalls(s, s)
    BY DEF SameCalls
  <2>2. Rebound(s, remove(s, e, t, {h.id}))
    BY Removed DEF Steady
  <2>3. SameCalls(s, remove(s, e, t, {h.id}))
    BY <2>2, AfterRebound
  <2>4. QED
    BY <1>1, <2>1, <2>3
<1>5. Steady(q) /\ (q.stack # <<>> => ~CallsNative(q.stack[1]))
  BY <1>4 DEF SameCalls
<1>6. Frame(f)
  BY <1>2 DEF Frame
<1>7. QED
  BY <1>3, <1>5, <1>6, Called

LEMMA HandleStepKeeps ==
    ASSUME EventsInv, handle
    PROVE  Steady(page')
<1>1. /\ Steady(page) /\ page.stack # <<>> /\ page.stack[1].fn = "handle"
      /\ Top = page.stack[1] /\ ~CallsNative(page.stack[1])
  <2>1. Steady(page) /\ page.stack # <<>> /\ Top.fn = "handle"
    BY DEF EventsInv, Steady, handle, At
  <2>2. QED
    BY <2>1, TopFrame DEF Top
<1>2. Top.elem \in Elements /\ Top.type \in AllTypes
  BY <1>1, TopFrame DEF Frame
<1>3. PICK left : left = Tail(Top.rest)
  OBVIOUS
<1>4. PICK s : s = [page EXCEPT !.stack[1].rest = left]
  OBVIOUS
<1>5. s = [page EXCEPT !.stack[1].rest = Tail(@)]
  BY <1>1, <1>3, <1>4
<1>6. SameCalls(page, s)
  BY <1>1, <1>4, ToldOne
<1>7. Steady(s) /\ s.stack # <<>> /\ ~CallsNative(s.stack[1])
  BY <1>1, <1>6 DEF SameCalls
<1>8. CASE page' = Popped
  BY <1>1, <1>8, Back DEF Popped
<1>9. CASE page' = s
  BY <1>7, <1>9
<1>10. CASE page' = liveHandler(s)
  <2>1. PICK q : q = [s EXCEPT !.stack[2].liveFired = TRUE]
    OBVIOUS
  <2>2. SameCalls(s, q)
    BY <1>7, <2>1, ToldOne
  <2>3. Steady(q) /\ (q.stack # <<>> => ~CallsNative(q.stack[1]))
    BY <1>7, <2>2 DEF SameCalls
  <2>4. PICK due : due = OfType(page.live, Top.type)
    OBVIOUS
  <2>5. PICK f : f = [fn |-> "live", type |-> Top.type, rest |-> due, stop |-> FALSE]
    OBVIOUS
  <2>6. liveHandler(s) = Push(q, f) \/ liveHandler(s) = q \/ liveHandler(s) = s
    BY <2>1, <2>4, <2>5 DEF liveHandler
  <2>7. Frame(f)
    BY <1>2, <2>5 DEF Frame
  <2>8. Steady(Push(q, f))
    BY <2>3, <2>7, Called
  <2>9. QED
    BY <1>7, <1>10, <2>3, <2>6, <2>8
<1>11. CASE \E h, n : Run(s, h, Top.elem, Top.type, n)
  <2>1. PICK h, n : Run(s, h, Top.elem, Top.type, n)
    BY <1>11
  <2>2. QED
    BY <1>2, <1>7, <2>1, RunKeeps
<1>12. \/ page' = Popped \/ page' = s \/ page' = liveHandler(s)
       \/ \E h, n : Run(s, h, Top.elem, Top.type, n)
  <2>1. CASE Top.rest = <<>>
    BY <2>1 DEF handle
  <2>2. CASE Top.rest # <<>>
    BY <1>5, <2>2 DEF handle
  <2>3. QED
    BY <2>1, <2>2
<1>13. QED
  BY <1>8, <1>9, <1>10, <1>11, <1>12

LEMMA LiveStepKeeps ==
    ASSUME EventsInv, liveStep
    PROVE  Steady(page')
<1>1. /\ Steady(page) /\ page.stack # <<>> /\ page.stack[1].fn = "live"
      /\ Top = page.stack[1] /\ ~CallsNative(page.stack[1])
  <2>1. Steady(page) /\ page.stack # <<>> /\ Top.fn = "live"
    BY DEF EventsInv, Steady, liveStep, At
  <2>2. QED
    BY <2>1, TopFrame DEF Top
<1>2. Top.type \in AllTypes
  BY <1>1, TopFrame DEF Frame
<1>3. CASE Top.rest = <<>>
  <2>1. PICK q : q = Popped
    OBVIOUS
  <2>2. Steady(q)
    BY <1>1, <2>1, Back DEF Popped
  <2>3. PICK r : r = [q EXCEPT !.stack[2].stopped = TRUE, !.stack[2].prevented = TRUE]
    OBVIOUS
  <2>4. Steady(r)
    BY <2>2, <2>3, ToldTwo DEF SameCalls
  <2>5. page' = r \/ page' = q
    BY <1>3, <2>1, <2>3 DEF liveStep
  <2>6. QED
    BY <2>2, <2>4, <2>5
<1>4. CASE Top.rest # <<>>
  <2>1. PICK left : left = Tail(Top.rest)
    OBVIOUS
  <2>2. PICK s : s = [page EXCEPT !.stack[1].rest = left]
    OBVIOUS
  <2>3. SameCalls(page, s)
    BY <1>1, <2>2, ToldOne
  <2>4. Steady(s) /\ ~CallsNative(s.stack[1])
    BY <1>1, <2>3 DEF SameCalls
  <2>5. s = [page EXCEPT !.stack[1].rest = Tail(@)]
    BY <1>1, <2>1, <2>2
  <2>6. \E h, n : Run(s, h, "child", Top.type, n)
    BY <1>4, <2>5 DEF liveStep
  <2>7. PICK h, n : Run(s, h, "child", Top.type, n)
    BY <2>6
  <2>8. "child" \in Elements
    BY DEF Elements
  <2>9. QED
    BY <1>2, <2>4, <2>7, <2>8, RunKeeps
<1>5. QED
  BY <1>3, <1>4

\* What a handler leaves when it returns.
HandlerLeft ==
      \/ page' = Popped
      \/ \E i \in {2, 3} : /\ i = (IF Below.fn = "live" THEN 3 ELSE 2)
                          /\ \/ page' = [Popped EXCEPT !.stack[i].prevented = TRUE]
                             \/ page' = [Popped EXCEPT !.stack[i].stopped = TRUE]
      \/ page' = IF Below.fn = "live" THEN [Popped EXCEPT !.stack[1].stop = TRUE]
                 ELSE [Popped EXCEPT !.stack[2].stopped = TRUE, !.stack[2].prevented = TRUE]
      \/ page' = IF Below.fn = "live"
                 THEN [Popped EXCEPT !.stack[1].rest = <<>>, !.stack[2].rest = <<>>,
                                     !.stack[3].stopped = TRUE]
                 ELSE [Popped EXCEPT !.stack[1].rest = <<>>, !.stack[2].stopped = TRUE]
      \/ page' = [page EXCEPT !.stack = Unwind(@)]

LEMMA HandlerLeaves == returns => HandlerLeft
<1> SUFFICES ASSUME returns PROVE HandlerLeft
  OBVIOUS
<1>1. PICK i : i = (IF Below.fn = "live" THEN 3 ELSE 2)
  OBVIOUS
<1>2. i \in {2, 3}
  BY <1>1
<1>3. \/ page' = Popped
      \/ page' = preventDefault(Popped, i)
      \/ page' = stopPropagation(Popped, i)
      \/ page' = IF Below.fn = "live" THEN [Popped EXCEPT !.stack[1].stop = TRUE]
                 ELSE preventDefault(stopPropagation(Popped, i), i)
      \/ page' = stopPropagation(IF Below.fn = "live"
                                 THEN [Popped EXCEPT !.stack[1].rest = <<>>, !.stack[2].rest = <<>>]
                                 ELSE [Popped EXCEPT !.stack[1].rest = <<>>], i)
      \/ page' = [page EXCEPT !.stack = Unwind(@)]
  BY <1>1 DEF returns
<1>4. CASE page' = preventDefault(Popped, i) \/ page' = stopPropagation(Popped, i)
  BY <1>1, <1>2, <1>4 DEF preventDefault, stopPropagation, HandlerLeft
<1>5. CASE page' = IF Below.fn = "live" THEN [Popped EXCEPT !.stack[1].stop = TRUE]
                   ELSE preventDefault(stopPropagation(Popped, i), i)
  BY <1>1, <1>5 DEF preventDefault, stopPropagation, HandlerLeft
<1>6. CASE page' = stopPropagation(IF Below.fn = "live"
                                   THEN [Popped EXCEPT !.stack[1].rest = <<>>, !.stack[2].rest = <<>>]
                                   ELSE [Popped EXCEPT !.stack[1].rest = <<>>], i)
  <2>1. CASE Below.fn = "live"
    <3>1. page' = [Popped EXCEPT !.stack[1].rest = <<>>, !.stack[2].rest = <<>>, !.stack[3].stopped = TRUE]
      BY <1>1, <1>6, <2>1 DEF stopPropagation
    <3>2. QED
      BY <2>1, <3>1 DEF HandlerLeft
  <2>2. CASE Below.fn # "live"
    <3>1. page' = [Popped EXCEPT !.stack[1].rest = <<>>, !.stack[2].stopped = TRUE]
      BY <1>1, <1>6, <2>2 DEF stopPropagation
    <3>2. QED
      BY <2>2, <3>1 DEF HandlerLeft
  <2>3. QED
    BY <2>1, <2>2
<1>7. CASE page' = Popped \/ page' = [page EXCEPT !.stack = Unwind(@)]
  BY <1>7 DEF HandlerLeft
<1>8. QED
  BY <1>3, <1>4, <1>5, <1>6, <1>7

LEMMA ReturnsKeep ==
    ASSUME EventsInv, returns
    PROVE  Steady(page')
<1>1. /\ Steady(page) /\ page.stack # <<>> /\ ~CallsNative(page.stack[1])
  <2>1. Steady(page) /\ page.stack # <<>> /\ Top.fn = "handler"
    BY DEF EventsInv, Steady, returns, At
  <2>2. QED
    BY <2>1, TopFrame DEF Top
<1>2. PICK q : q = Popped
  OBVIOUS
<1>3. Steady(q)
  BY <1>1, <1>2, Back DEF Popped
<1>4. PICK a : a = [q EXCEPT !.stack[1].stop = TRUE]
  OBVIOUS
<1>5. PICK b : b = [q EXCEPT !.stack[2].stopped = TRUE, !.stack[2].prevented = TRUE]
  OBVIOUS
<1>6. PICK c : c = [q EXCEPT !.stack[1].rest = <<>>]
  OBVIOUS
<1>7. Steady(a) /\ Steady(b) /\ Steady(c)
  <2>1. SameCalls(q, a)
    BY <1>3, <1>4, ToldOne
  <2>2. SameCalls(q, b)
    BY <1>3, <1>5, ToldTwo
  <2>3. SameCalls(q, c)
    BY <1>3, <1>6, ToldOne
  <2>4. QED
    BY <2>1, <2>2, <2>3 DEF SameCalls
<1>8. PICK d : d = [c EXCEPT !.stack[2].rest = <<>>]
  OBVIOUS
<1>9. PICK g : g = [c EXCEPT !.stack[2].stopped = TRUE]
  OBVIOUS
<1>10. Steady(d) /\ Steady(g)
  <2>1. SameCalls(c, d)
    BY <1>7, <1>8, ToldOne
  <2>2. SameCalls(c, g)
    BY <1>7, <1>9, ToldOne
  <2>3. QED
    BY <2>1, <2>2 DEF SameCalls
<1>11. PICK m : m = [d EXCEPT !.stack[3].stopped = TRUE]
  OBVIOUS
<1>12. Steady(m)
  <2>1. SameCalls(d, m)
    BY <1>10, <1>11, ToldOne
  <2>2. QED
    BY <2>1 DEF SameCalls
<1>13. PICK k : k = Unwind(page.stack)
  OBVIOUS
<1>14. PICK u : u = [page EXCEPT !.stack = k]
  OBVIOUS
<1>15. Steady(u)
  <2>1. PICK o, T : o = page.stack /\ T = page.triggered
    OBVIOUS
  <2>2. Stack(o) /\ o # <<>> /\ ~CallsNative(o[1]) /\ Inside(o, T)
    BY <1>1, <2>1 DEF Steady
  <2>3. Stack(k) /\ Inside(k, T)
    BY <1>13, <2>1, <2>2, Unwound
  <2>4. Restacked(page, u, k, page.triggered)
    BY <1>1, <1>14, NewStack DEF Steady
  <2>5. QED
    BY <1>1, <2>1, <2>3, <2>4 DEF Steady, Restacked
<1>16. \/ page' = q
       \/ page' = a \/ page' = b
       \/ page' = m \/ page' = g
       \/ page' = u
       \/ Steady(page')
  <2>1. CASE page' = Popped
    BY <1>2, <2>1
  <2>2. CASE page' = IF Below.fn = "live" THEN [Popped EXCEPT !.stack[1].stop = TRUE]
                     ELSE [Popped EXCEPT !.stack[2].stopped = TRUE, !.stack[2].prevented = TRUE]
    BY <1>2, <1>4, <1>5, <2>2
  <2>3. CASE page' = IF Below.fn = "live"
                     THEN [Popped EXCEPT !.stack[1].rest = <<>>, !.stack[2].rest = <<>>,
                                         !.stack[3].stopped = TRUE]
                     ELSE [Popped EXCEPT !.stack[1].rest = <<>>, !.stack[2].stopped = TRUE]
    <3>1. [Popped EXCEPT !.stack[1].rest = <<>>, !.stack[2].stopped = TRUE] = g
      BY <1>2, <1>6, <1>9
    <3>2. [Popped EXCEPT !.stack[1].rest = <<>>, !.stack[2].rest = <<>>,
                         !.stack[3].stopped = TRUE] = m
      BY <1>2, <1>6, <1>8, <1>11
    <3>3. QED
      BY <2>3, <3>1, <3>2
  <2>4. CASE page' = [page EXCEPT !.stack = Unwind(@)]
    BY <1>13, <1>14, <2>4
  <2>5. CASE \E i \in {2, 3} : \/ page' = [Popped EXCEPT !.stack[i].prevented = TRUE]
                              \/ page' = [Popped EXCEPT !.stack[i].stopped = TRUE]
    <3>1. PICK i \in {2, 3} : \/ page' = [q EXCEPT !.stack[i].prevented = TRUE]
                             \/ page' = [q EXCEPT !.stack[i].stopped = TRUE]
      BY <1>2, <2>5
    <3>2. SameCalls(q, page')
      BY <1>3, <3>1, ToldOne
    <3>3. QED
      BY <3>2 DEF SameCalls
  <2>6. QED
    BY <2>1, <2>2, <2>3, <2>4, <2>5, HandlerLeaves DEF HandlerLeft
<1>17. QED
  BY <1>3, <1>7, <1>10, <1>12, <1>15, <1>16

LEMMA EventsInvHolds == Spec => []EventsInv
<1>1. Init => EventsInv
  <2> SUFFICES ASSUME Init PROVE EventsInv
    OBVIOUS
  <2>1. PICK h, l : /\ h = [e \in Elements |-> [t \in AllTypes |-> <<>>]]
                    /\ l = [e \in Elements |-> {}]
    OBVIOUS
  <2>2. page = [handlers |-> h, listening |-> l, attaches |-> 0, capture |-> FALSE,
                live |-> <<>>, triggered |-> "none", stack |-> <<>>]
    BY <2>1 DEF Init
  <2>3. /\ \A e \in Elements : l[e] = {} /\ \A t \in AllTypes : h[e][t] = <<>>
        /\ h \in [Elements -> [AllTypes -> {<<>>}]] /\ l \in [Elements -> SUBSET AllTypes]
    BY <2>1
  <2>4. /\ page.handlers = h /\ page.listening = l /\ page.attaches = 0 /\ page.capture = FALSE
        /\ page.triggered = "none" /\ page.stack = <<>>
    BY <2>2
  <2>5. Whole(page)
    <3>1. page = [handlers |-> page.handlers, listening |-> page.listening,
                  attaches |-> page.attaches, capture |-> page.capture, live |-> page.live,
                  triggered |-> page.triggered, stack |-> page.stack]
      BY <2>2
    <3>2. \E H : page.handlers \in [Elements -> [AllTypes -> H]]
      BY <2>3, <2>4
    <3>3. /\ page.listening \in [Elements -> SUBSET AllTypes]
          /\ page.attaches \in Int /\ page.capture \in BOOLEAN
      <4>1. page.listening \in [Elements -> SUBSET AllTypes] /\ page.attaches \in Int
        BY <2>3, <2>4
      <4>2. page.capture \in BOOLEAN
        BY <2>4, Zenon
      <4>3. QED
        BY <4>1, <4>2
    <3>4. QED
      BY <3>1, <3>2, <3>3, Zenon DEF Whole
  <2>6. Matched(page)
    BY <2>3, <2>4 DEF Matched, wants, Elements, AllTypes
  <2>7. Stack(page.stack) /\ Inside(page.stack, page.triggered)
    BY <2>4 DEF Stack, Inside
  <2>8. QED
    BY <2>5, <2>6, <2>7 DEF EventsInv
<1>2. EventsInv /\ [Next]_vars => EventsInv'
  <2> SUFFICES ASSUME EventsInv, [Next]_vars PROVE EventsInv'
    OBVIOUS
  <2>1. Steady(page') => EventsInv'
    BY DEF Steady, EventsInv
  <2>2. CASE Call
    BY <2>1, <2>2, CallKeeps, EventsAssumption
  <2>3. CASE trigger
    BY <2>1, <2>3, TriggerKeeps, EventsAssumption
  <2>4. CASE UserEvent
    BY <2>1, <2>4, UserEventKeeps
  <2>5. CASE triggerStep
    BY <2>1, <2>5, TriggerStepKeeps
  <2>6. CASE nativeStep
    BY <2>1, <2>6, NativeStepKeeps
  <2>7. CASE handle
    BY <2>1, <2>7, HandleStepKeeps
  <2>8. CASE liveStep
    BY <2>1, <2>8, LiveStepKeeps
  <2>9. CASE returns
    BY <2>1, <2>9, ReturnsKeep
  <2>10. CASE UNCHANGED vars
    BY <2>10 DEF vars, EventsInv
  <2>11. QED
    BY <2>2, <2>3, <2>4, <2>5, <2>6, <2>7, <2>8, <2>9, <2>10 DEF Next
<1>3. QED
  BY <1>1, <1>2, PTL DEF Spec

\* An element has a native listener for a type exactly while it has handlers of it,
\* and the document its focus listener while anyone wants focusin, whatever user
\* code binds and unbinds and wherever in a dispatch it does
\* (jquery.js:2640-2656, 2776-2783, 3402-3409).
THEOREM ListenersFollowHandlers == Spec => []ListenersMatch
<1>1. EventsInv => ListenersMatch
  <2> SUFFICES ASSUME EventsInv PROVE ListenersMatch
    OBVIOUS
  <2>1. PICK n : n = Cardinality({e \in Elements : page.handlers[e]["focusin"] # <<>>})
    OBVIOUS
  <2>2. n = wants(page, "child") + wants(page, "document")
    BY <2>1, WantedBy
  <2>3. page.attaches = n
    BY <2>2 DEF EventsInv, Matched
  <2>4. QED
    BY <2>1, <2>3 DEF EventsInv, Matched, ListenersMatch
<1>2. QED
  BY <1>1, EventsInvHolds, PTL

\* jQuery.event.triggered names a type only while a trigger of it has the native
\* method of the element under it, whatever handlers throw out of the dispatches
\* (jquery.js:2596-2601, 2926-2935).
THEOREM DroppedOnlyWhileCalling == Spec => []DroppedOnlyInside
<1>1. EventsInv => DroppedOnlyInside
  BY DEF EventsInv, Inside, CallsNative, DroppedOnlyInside
<1>2. QED
  BY <1>1, EventsInvHolds, PTL

-----------------------------------------------------------------------------
(***************************************************************************)
(* Picked takes the elements at the positions in K, in their order.        *)
(***************************************************************************)
LEMMA LeastNumber ==
    ASSUME NEW T \in SUBSET Nat, T # {}
    PROVE  \E n \in T : \A m \in T : n <= m
<1> DEFINE R == {ss \in Nat \X Nat : ss[1] < ss[2]}
<1>1. IsWellFoundedOn(R, Nat)
  BY NatLessThanWellFounded DEF OpToRel
<1> HIDE DEF R
<1>2. PICK n \in T : \A m \in T : <<m, n>> \notin R
  BY <1>1, WFMin
<1>3. \A m \in T : m \in Nat /\ n \in Nat /\ ~(m < n)
  BY <1>2 DEF R
<1>4. QED
  BY <1>3

\* f holds, for each i up to n, the elements of q at the positions of K up to i.
Picks(q, K, n, f) ==
  f = [i \in 0 .. n |-> IF i = 0 THEN <<>> ELSE IF i \in K THEN Append(f[i - 1], q[i]) ELSE f[i - 1]]

LEMMA OnePickMore ==
    ASSUME NEW q, NEW K, NEW n \in Nat, NEW f, Picks(q, K, n, f)
    PROVE  \E g : Picks(q, K, n + 1, g)
<1> DEFINE g == [i \in 0 .. n + 1 |->
                   IF i = n + 1 THEN IF n + 1 \in K THEN Append(f[n], q[n + 1]) ELSE f[n] ELSE f[i]]
<1>1. ASSUME NEW i \in 0 .. n + 1
      PROVE  g[i] = IF i = 0 THEN <<>> ELSE IF i \in K THEN Append(g[i - 1], q[i]) ELSE g[i - 1]
  <2>1. CASE i = n + 1
    <3>1. g[n + 1] = IF n + 1 \in K THEN Append(f[n], q[n + 1]) ELSE f[n]
      OBVIOUS
    <3>2. g[n] = f[n] /\ i - 1 = n
      BY <2>1
    <3> HIDE DEF g
    <3>3. QED
      BY <2>1, <3>1, <3>2
  <2>2. CASE i # n + 1
    <3>1. i \in 0 .. n /\ g[i] = f[i]
      BY <2>2
    <3>2. f[i] = IF i = 0 THEN <<>> ELSE IF i \in K THEN Append(f[i - 1], q[i]) ELSE f[i - 1]
      BY <3>1 DEF Picks
    <3>3. i # 0 => g[i - 1] = f[i - 1]
      BY <3>1
    <3> HIDE DEF g
    <3>4. QED
      BY <3>1, <3>2, <3>3
  <2>3. QED
    BY <2>1, <2>2
<1>2. DOMAIN g = 0 .. n + 1 /\ g = [i \in 0 .. n + 1 |-> g[i]]
  OBVIOUS
<1> HIDE DEF g
<1>3. g = [i \in 0 .. n + 1 |-> IF i = 0 THEN <<>> ELSE IF i \in K THEN Append(g[i - 1], q[i]) ELSE g[i - 1]]
  BY <1>1, <1>2
<1>4. QED
  BY <1>3 DEF Picks

LEMMA AllPicks ==
    ASSUME NEW q, NEW K, NEW n \in Nat
    PROVE  \E f : Picks(q, K, n, f)
<1> DEFINE Bad == {m \in Nat : ~\E f : Picks(q, K, m, f)}
<1>1. SUFFICES ASSUME Bad # {} PROVE FALSE
  OBVIOUS
<1>2. PICK m \in Bad : \A l \in Bad : m <= l
  <2>1. Bad \subseteq Nat
    OBVIOUS
  <2> HIDE DEF Bad
  <2>2. QED
    BY <1>1, <2>1, LeastNumber
<1>3. CASE m = 0
  <2>1. Picks(q, K, 0, [i \in 0 .. 0 |-> <<>>])
    BY DEF Picks
  <2>2. QED
    BY <1>3, <2>1
<1>4. CASE m # 0
  <2>1. m - 1 \in Nat /\ m - 1 \notin Bad
    BY <1>2, <1>4
  <2>2. PICK f : Picks(q, K, m - 1, f)
    BY <2>1
  <2>3. \E f2 : Picks(q, K, (m - 1) + 1, f2)
    BY <2>1, <2>2, OnePickMore
  <2>4. m - 1 + 1 = m
    OBVIOUS
  <2>5. QED
    BY <2>3, <2>4
<1>5. QED
  BY <1>3, <1>4

LEMMA PickedInOrder ==
    ASSUME NEW S, NEW q \in Seq(S), NEW K
    PROVE  /\ Picked(q, K) \in Seq(S)
           /\ \E p \in [1 .. Len(Picked(q, K)) -> K \cap 1 .. Len(q)] :
                /\ \A i \in 1 .. Len(Picked(q, K)) : Picked(q, K)[i] = q[p[i]]
                /\ \A i, j \in 1 .. Len(Picked(q, K)) : i < j => p[i] < p[j]
<1> DEFINE f == CHOOSE f : Picks(q, K, Len(q), f)
<1>1. Picked(q, K) = f[Len(q)]
  BY DEF Picked, Picks
<1>2. Picks(q, K, Len(q), f)
  <2>1. Len(q) \in Nat
    OBVIOUS
  <2>2. \E g : Picks(q, K, Len(q), g)
    BY <2>1, AllPicks
  <2>3. QED
    BY <2>2
<1> HIDE DEF f
<1> DEFINE Good(n) == /\ f[n] \in Seq(S)
                      /\ \E p \in [1 .. Len(f[n]) -> K \cap 1 .. n] :
                            /\ \A i \in 1 .. Len(f[n]) : f[n][i] = q[p[i]]
                            /\ \A i, j \in 1 .. Len(f[n]) : i < j => p[i] < p[j]
           Bad == {n \in 0 .. Len(q) : ~Good(n)}
<1>3. ASSUME NEW n \in 0 .. Len(q), n = 0 PROVE Good(n)
  <2>1. f[0] = <<>>
    BY <1>2 DEF Picks
  <2>2. <<>> \in Seq(S) /\ Len(<<>>) = 0 /\ 1 .. 0 = {}
    OBVIOUS
  <2>3. [x \in {} |-> 1] \in [1 .. 0 -> K \cap 1 .. n]
    BY <2>2
  <2>4. QED
    BY <1>3, <2>1, <2>2, <2>3
<1>4. ASSUME NEW n \in 0 .. Len(q), n # 0, Good(n - 1) PROVE Good(n)
  <2>1. f[n] = IF n \in K THEN Append(f[n - 1], q[n]) ELSE f[n - 1]
    BY <1>2, <1>4 DEF Picks
  <2>2. PICK p \in [1 .. Len(f[n - 1]) -> K \cap 1 .. n - 1] :
            /\ \A i \in 1 .. Len(f[n - 1]) : f[n - 1][i] = q[p[i]]
            /\ \A i, j \in 1 .. Len(f[n - 1]) : i < j => p[i] < p[j]
    BY <1>4
  <2>3. n - 1 \in Nat /\ n \in Nat /\ n \in 1 .. Len(q) /\ f[n - 1] \in Seq(S)
    BY <1>4
  <2>4. CASE n \notin K
    <3>1. f[n] = f[n - 1]
      BY <2>1, <2>4
    <3>2. p \in [1 .. Len(f[n]) -> K \cap 1 .. n]
      BY <2>2, <2>3, <3>1
    <3>3. QED
      BY <2>2, <2>3, <3>1, <3>2
  <2>5. CASE n \in K
    <3> DEFINE r == f[n - 1]
               p2 == [i \in 1 .. Len(r) + 1 |-> IF i = Len(r) + 1 THEN n ELSE p[i]]
    <3>1. f[n] = Append(r, q[n]) /\ r \in Seq(S) /\ q[n] \in S
      BY <2>1, <2>3, <2>5
    <3>a. p \in [1 .. Len(r) -> K \cap 1 .. n - 1] /\ Len(r) \in Nat
      BY <2>2, <3>1
    <3>b. \A i \in 1 .. Len(r) : r[i] = q[p[i]]
      BY <2>2
    <3>c. \A i, j \in 1 .. Len(r) : i < j => p[i] < p[j]
      BY <2>2
    <3> HIDE DEF r
    <3>2. f[n] \in Seq(S) /\ Len(f[n]) = Len(r) + 1
      BY <3>1, AppendProperties
    <3>3. \A i \in 1 .. Len(f[n]) : f[n][i] = IF i = Len(r) + 1 THEN q[n] ELSE r[i]
      BY <3>1, <3>2, AppendProperties
    <3>4. p2 \in [1 .. Len(f[n]) -> K \cap 1 .. n]
      BY <2>3, <2>5, <3>2, <3>a
    <3>5. \A i \in 1 .. Len(f[n]) : f[n][i] = q[p2[i]]
      BY <3>2, <3>3, <3>a, <3>b
    <3>6. \A i, j \in 1 .. Len(f[n]) : i < j => p2[i] < p2[j]
      <4>1. SUFFICES ASSUME NEW i \in 1 .. Len(f[n]), NEW j \in 1 .. Len(f[n]), i < j PROVE p2[i] < p2[j]
        OBVIOUS
      <4>2. i \in 1 .. Len(r) /\ p2[i] = p[i] /\ p[i] \in 1 .. n - 1
        BY <3>2, <3>a, <4>1
      <4>3. CASE j = Len(r) + 1
        BY <2>3, <3>2, <4>2, <4>3
      <4>4. CASE j # Len(r) + 1
        BY <3>2, <3>a, <3>c, <4>1, <4>2, <4>4
      <4>5. QED
        BY <4>3, <4>4
    <3> HIDE DEF p2
    <3>7. QED
      BY <3>2, <3>4, <3>5, <3>6
  <2>6. QED
    BY <2>4, <2>5
<1> HIDE DEF Good
<1>5. Bad = {}
  <2>1. SUFFICES ASSUME Bad # {} PROVE FALSE
    OBVIOUS
  <2>2. Bad \subseteq Nat
    OBVIOUS
  <2>3. PICK n \in Bad : \A m \in Bad : n <= m
    <3> HIDE DEF Bad
    <3>1. QED
      BY <2>1, <2>2, LeastNumber
  <2>4. n # 0
    BY <1>3
  <2>5. n - 1 \in 0 .. Len(q) /\ n - 1 \notin Bad
    BY <2>3, <2>4
  <2>6. QED
    BY <1>4, <2>3, <2>4, <2>5
<1>6. Good(Len(q))
  <2>1. Len(q) \in 0 .. Len(q)
    OBVIOUS
  <2>2. QED
    BY <1>5, <2>1
<1>7. QED
  BY <1>1, <1>6 DEF Good

-----------------------------------------------------------------------------
(***************************************************************************)
(* Runs.  The types of the fields of a page.                               *)
(***************************************************************************)
Entry == [id : Nat, kind : {"fn", "once", "live"}, ns : {"", "a", "sel"}]
LiveEntry == [id : Nat, type : AllTypes]
Triggers == [fn : {"trigger"}, target : Elements, cur : Elements, type : AllTypes, ns : Namespaces,
             n : Nat, phase : {"call", "bubble", "native"},
             stopped : BOOLEAN, prevented : BOOLEAN, liveFired : BOOLEAN]
Natives == [fn : {"native"}, cur : Elements, type : AllTypes, ns : {""},
            n : Nat, phase : {"capture", "call", "bubble"},
            stopped : BOOLEAN, prevented : BOOLEAN, liveFired : BOOLEAN]
Handles == [fn : {"handle"}, elem : Elements, type : AllTypes, rest : Seq(Entry)]
Lives == [fn : {"live"}, type : AllTypes, rest : Seq(LiveEntry), stop : BOOLEAN]
Codes == [fn : {"handler"}, elem : Elements]
Frames == Triggers \union Natives \union Handles \union Lives \union Codes

Pages == [handlers : [Elements -> [AllTypes -> Seq(Entry)]], listening : [Elements -> SUBSET AllTypes],
          attaches : Int, capture : BOOLEAN, live : Seq(LiveEntry),
          triggered : AllTypes \union {"none"}, stack : Seq(Frames)]

Fields == {"handlers", "listening", "attaches", "capture", "live", "triggered", "stack"}
\* The pages s and t agree in all fields but those of the set.
Same(s, t, but) == \A x \in Fields \ but : t[x] = s[x]
Binding == {"handlers", "listening", "attaches", "capture", "live"}

\* No id twice, no entry twice.
Distinct(q) == \A j, l \in DOMAIN q : q[j].id = q[l].id => j = l
Single(q) == \A j, l \in DOMAIN q : q[j] = q[l] => j = l

\* r has entries of q only, and none of them more often.
Rest(r, q) ==
    /\ \A j \in DOMAIN r : \E l \in DOMAIN q : r[j] = q[l]
    /\ (Distinct(q) => Distinct(r)) /\ (Single(q) => Single(r))

\* Handlers, and handlers of live, go.
Fewer(s, t) ==
    /\ t \in Pages /\ Same(s, t, Binding)
    /\ \A e \in Elements, y \in AllTypes : Rest(t.handlers[e][y], s.handlers[e][y])
    /\ Rest(t.live, s.live)

\* The handler h is bound to e for y.
Adds(s, t, e, y, h) ==
    /\ t \in Pages /\ Same(s, t, Binding \ {"live"})
    /\ t.handlers = [s.handlers EXCEPT ![e] = [s.handlers[e] EXCEPT ![y] = Append(s.handlers[e][y], h)]]

LEMMA PickedRest ==
    ASSUME NEW S, NEW q \in Seq(S), NEW K
    PROVE  /\ Picked(q, K) \in Seq(S) /\ Rest(Picked(q, K), q)
           /\ \A j \in DOMAIN Picked(q, K) : \E l \in DOMAIN q \cap K : Picked(q, K)[j] = q[l]
<1> DEFINE r == Picked(q, K)
<1>1. r \in Seq(S) /\ DOMAIN r = 1 .. Len(r) /\ DOMAIN q = 1 .. Len(q)
  BY PickedInOrder
<1>2. PICK p \in [1 .. Len(r) -> K \cap 1 .. Len(q)] :
          /\ \A i \in 1 .. Len(r) : r[i] = q[p[i]]
          /\ \A i, j \in 1 .. Len(r) : i < j => p[i] < p[j]
  BY PickedInOrder
<1> HIDE DEF r
<1>3. \A i \in DOMAIN r : p[i] \in DOMAIN q \cap K /\ r[i] = q[p[i]]
  BY <1>1, <1>2
<1>4. ASSUME NEW i \in DOMAIN r, NEW j \in DOMAIN r, p[i] = p[j] PROVE i = j
  <2>1. i \in Nat /\ j \in Nat /\ p[i] \in Nat
    BY <1>1, <1>3
  <2>2. ~(i < j) /\ ~(j < i)
    BY <1>1, <1>2, <1>4, <2>1
  <2>3. QED
    BY <2>1, <2>2
<1>5. Rest(r, q)
  BY <1>3, <1>4 DEF Rest, Distinct, Single
<1>6. QED
  BY <1>1, <1>3, <1>5 DEF r

LEMMA WithoutRest ==
    ASSUME NEW q \in Seq(Entry), NEW match
    PROVE  /\ Without(q, match) \in Seq(Entry) /\ Rest(Without(q, match), q)
           /\ \A j \in DOMAIN Without(q, match) : Without(q, match)[j].id \notin match
<1> DEFINE K == {i \in DOMAIN q : q[i].id \notin match}
<1>1. Without(q, match) = Picked(q, K)
  BY DEF Without
<1>2. \A l \in DOMAIN q \cap K : q[l].id \notin match
  OBVIOUS
<1> HIDE DEF K
<1>3. QED
  BY <1>1, <1>2, PickedRest

LEMMA RestSelf == ASSUME NEW q PROVE Rest(q, q)
BY DEF Rest

LEMMA RestRest ==
    ASSUME NEW q, NEW r, NEW u, Rest(r, q), Rest(u, r)
    PROVE  Rest(u, q)
<1>1. \A j \in DOMAIN u : \E l \in DOMAIN q : u[j] = q[l]
  BY DEF Rest
<1>2. QED
  BY <1>1 DEF Rest

LEMMA FewerSelf == ASSUME NEW s \in Pages PROVE Fewer(s, s)
BY RestSelf DEF Fewer, Same

LEMMA FewerFewer ==
    ASSUME NEW s, NEW t, NEW u, Fewer(s, t), Fewer(t, u)
    PROVE  Fewer(s, u)
<1>1. \A e \in Elements, y \in AllTypes : Rest(u.handlers[e][y], s.handlers[e][y])
  BY RestRest DEF Fewer
<1>2. Rest(u.live, s.live)
  BY RestRest DEF Fewer
<1>3. QED
  BY <1>1, <1>2 DEF Fewer, Same

LEMMA ListenEffect ==
    ASSUME NEW s \in Pages, NEW e \in Elements, NEW y \in AllTypes
    PROVE  /\ setup(s, e, y) \in Pages /\ Same(s, setup(s, e, y), {"listening", "attaches", "capture"})
           /\ teardown(s, e, y) \in Pages /\ Same(s, teardown(s, e, y), {"listening", "attaches", "capture"})
<1>0. ASSUME NEW n \in Int, NEW c, c \in BOOLEAN, NEW t, t = [s EXCEPT !.attaches = n, !.capture = c]
      PROVE  t \in Pages /\ Same(s, t, {"listening", "attaches", "capture"})
  <2>1. /\ t.handlers = s.handlers /\ t.listening = s.listening /\ t.live = s.live
        /\ t.triggered = s.triggered /\ t.stack = s.stack
    BY <1>0 DEF Pages
  <2>2. t \in Pages
    BY <1>0 DEF Pages
  <2>3. QED
    BY <2>1, <2>2 DEF Same, Fields
<1>1. ASSUME NEW t, t = [s EXCEPT !.attaches = @ + 1, !.capture = TRUE]
      PROVE  t \in Pages /\ Same(s, t, {"listening", "attaches", "capture"})
  <2>1. s.attaches + 1 \in Int /\ t = [s EXCEPT !.attaches = s.attaches + 1, !.capture = TRUE]
    BY <1>1 DEF Pages
  <2>2. QED
    BY <1>0, <2>1
<1>2. ASSUME NEW t, t = [s EXCEPT !.attaches = @ - 1, !.capture = (s.attaches # 1)]
      PROVE  t \in Pages /\ Same(s, t, {"listening", "attaches", "capture"})
  <2>1. s.attaches - 1 \in Int /\ t = [s EXCEPT !.attaches = s.attaches - 1, !.capture = (s.attaches # 1)]
    BY <1>2 DEF Pages
  <2>2. (s.attaches # 1) \in BOOLEAN
    OBVIOUS
  <2>3. QED
    BY <1>0, <2>1, <2>2
<1>3. ASSUME NEW T \in SUBSET AllTypes, NEW t, t = [s EXCEPT !.listening[e] = T]
      PROVE  t \in Pages /\ Same(s, t, {"listening", "attaches", "capture"})
  BY <1>3 DEF Pages, Same, Fields
<1>4. s.listening[e] \union {y} \in SUBSET AllTypes /\ s.listening[e] \ {y} \in SUBSET AllTypes
  BY DEF Pages
<1>5. QED
  BY <1>1, <1>2, <1>3, <1>4 DEF setup, teardown, removeEvent

LEMMA AddEffect ==
    ASSUME NEW s \in Pages, NEW e \in Elements, NEW y \in AllTypes, NEW h \in Entry
    PROVE  Adds(s, add(s, e, y, h), e, y, h)
<1> DEFINE q == IF s.handlers[e][y] = <<>> THEN setup(s, e, y) ELSE s
           t == [q EXCEPT !.handlers[e][y] = Append(@, h)]
<1>1. add(s, e, y, h) = t
  BY DEF add
<1>2. q \in Pages /\ Same(s, q, {"listening", "attaches", "capture"})
  BY ListenEffect DEF Same
<1> HIDE DEF q
<1>3. Append(q.handlers[e][y], h) \in Seq(Entry)
  BY <1>2 DEF Pages
<1>4. /\ t \in Pages /\ Same(q, t, {"handlers"})
      /\ t.handlers = [q.handlers EXCEPT ![e] = [q.handlers[e] EXCEPT ![y] = Append(q.handlers[e][y], h)]]
  BY <1>2, <1>3 DEF Pages, Same, Fields
<1> HIDE DEF t
<1>5. q.handlers = s.handlers
  BY <1>2 DEF Same, Fields
<1>6. QED
  BY <1>1, <1>2, <1>4, <1>5 DEF Adds, Same, Binding

LEMMA RemoveEffect ==
    ASSUME NEW s \in Pages, NEW e \in Elements, NEW y \in AllTypes, NEW match
    PROVE  LET t == remove(s, e, y, match) IN
           /\ Fewer(s, t) /\ t.live = s.live
           /\ \A j \in DOMAIN t.handlers[e][y] : t.handlers[e][y][j].id \notin match
<1> DEFINE left == Without(s.handlers[e][y], match)
           q == [s EXCEPT !.handlers[e][y] = left]
           t == remove(s, e, y, match)
<1>1. s.handlers[e][y] \in Seq(Entry)
  BY DEF Pages
<1>2. left \in Seq(Entry) /\ Rest(left, s.handlers[e][y]) /\ \A j \in DOMAIN left : left[j].id \notin match
  BY <1>1, WithoutRest
<1>3. t = IF s.handlers[e][y] = <<>> THEN s ELSE IF left = <<>> THEN teardown(q, e, y) ELSE q
  BY DEF remove
<1> HIDE DEF left, t
<1>4. /\ q \in Pages /\ Same(s, q, {"handlers"})
      /\ q.handlers = [s.handlers EXCEPT ![e] = [s.handlers[e] EXCEPT ![y] = left]]
  BY <1>2 DEF Pages, Same, Fields
<1> HIDE DEF q
<1>5. teardown(q, e, y) \in Pages /\ Same(q, teardown(q, e, y), {"listening", "attaches", "capture"})
  BY <1>4, ListenEffect
<1>6. CASE s.handlers[e][y] = <<>>
  <2>1. t = s /\ DOMAIN s.handlers[e][y] = {}
    BY <1>3, <1>6
  <2>2. QED
    BY <2>1, FewerSelf DEF t
<1>7. CASE s.handlers[e][y] # <<>>
  <2>1. /\ t \in Pages /\ Same(s, t, Binding \ {"live"})
        /\ t.handlers = [s.handlers EXCEPT ![e] = [s.handlers[e] EXCEPT ![y] = left]]
    BY <1>3, <1>4, <1>5, <1>7 DEF Same, Fields, Binding
  <2>2. /\ t.handlers[e][y] = left
        /\ \A x \in Elements, z \in AllTypes : x # e \/ z # y => t.handlers[x][z] = s.handlers[x][z]
    BY <2>1 DEF Pages
  <2>3. \A x \in Elements, z \in AllTypes : Rest(t.handlers[x][z], s.handlers[x][z])
    BY <1>2, <2>2, RestSelf
  <2>4. t.live = s.live
    BY <2>1 DEF Same, Fields, Binding
  <2>5. Fewer(s, t)
    BY <2>1, <2>3, <2>4, RestSelf DEF Fewer, Same
  <2>6. QED
    BY <1>2, <2>2, <2>4, <2>5 DEF t
<1>8. QED
  BY <1>6, <1>7

LEMMA NamespaceEffect ==
    ASSUME NEW s \in Pages, NEW e \in Elements, NEW ns
    PROVE  Fewer(s, unbindNamespace(s, e, ns))
<1> DEFINE s1 == remove(s, e, "click", Matching(s, e, "click", ns))
           s2 == remove(s1, e, "focus", Matching(s1, e, "focus", ns))
           s3 == remove(s2, e, "focusin", Matching(s2, e, "focusin", ns))
<1>1. Fewer(s, s1)
  BY RemoveEffect DEF AllTypes
<1> HIDE DEF s1
<1>2. Fewer(s1, s2)
  BY <1>1, RemoveEffect DEF AllTypes, Fewer
<1> HIDE DEF s2
<1>3. Fewer(s2, s3)
  BY <1>2, RemoveEffect DEF AllTypes, Fewer
<1> HIDE DEF s3
<1>4. Fewer(s, s3)
  BY <1>1, <1>2, <1>3, FewerFewer
<1>5. QED
  BY <1>4 DEF unbindNamespace, s1, s2, s3

LEMMA SpecialDieEffect ==
    ASSUME NEW s \in Pages, NEW y \in AllTypes, NEW id
    PROVE  Fewer(s, specialDie(s, y, id))
<1> DEFINE kept == {i \in DOMAIN s.live : ~(s.live[i].id = id /\ s.live[i].type = y)}
           q == [s EXCEPT !.live = Picked(s.live, kept)]
<1>1. specialDie(s, y, id) = remove(q, "document", y, {id})
  BY DEF specialDie
<1>2. Picked(s.live, kept) \in Seq(LiveEntry) /\ Rest(Picked(s.live, kept), s.live)
  BY PickedRest DEF Pages
<1> HIDE DEF kept
<1>3. q \in Pages /\ Same(s, q, {"live"}) /\ q.live = Picked(s.live, kept)
  BY <1>2 DEF Pages, Same, Fields
<1> HIDE DEF q
<1>4. Fewer(s, q)
  BY <1>2, <1>3, RestSelf DEF Fewer, Same, Fields, Binding
<1>5. Fewer(q, remove(q, "document", y, {id}))
  BY <1>3, RemoveEffect DEF Elements
<1>6. QED
  BY <1>1, <1>4, <1>5, FewerFewer

LEMMA DieEffect ==
    ASSUME NEW s \in Pages, NEW y \in AllTypes, NEW id
    PROVE  Fewer(s, die(s, y, id))
<1> DEFINE q == specialDie(s, y, id)
<1>1. Fewer(s, q)
  BY SpecialDieEffect
<1>2. die(s, y, id) = IF y = "focus" THEN specialDie(q, "focusin", id) ELSE q
  BY DEF die
<1> HIDE DEF q
<1>3. Fewer(q, specialDie(q, "focusin", id))
  BY <1>1, SpecialDieEffect DEF Fewer, AllTypes
<1>4. QED
  BY <1>1, <1>2, <1>3, FewerFewer

-----------------------------------------------------------------------------
(***************************************************************************)
(* Where handlers are.  w[id] is where the handler was bound: at an        *)
(* element for a type, or by live.                                         *)
(***************************************************************************)
LivePlace == <<"live", "live">>
Places == (Elements \X AllTypes) \union {LivePlace}

\* q lists handlers of e for t, of the first c calls; live handlers are at the document.
Listed(q, e, t, w, c) ==
    /\ Distinct(q)
    /\ \A j \in DOMAIN q : /\ q[j].id \in 1 .. c
                           /\ q[j].kind = "live" => e = "document" /\ w[q[j].id] = LivePlace
                           /\ q[j].kind # "live" => w[q[j].id] = <<e, t>>
Alive(q, w, c) == \A j \in DOMAIN q : q[j].id \in 1 .. c /\ w[q[j].id] = LivePlace

Placed(s, w, c) ==
    /\ \A e \in Elements, t \in AllTypes : Listed(s.handlers[e][t], e, t, w, c)
    /\ Alive(s.live, w, c) /\ Single(s.live)

\* The same of the handlers that are still to be run.
Fits(f, w, c) ==
    /\ f.fn = "handle" => Listed(f.rest, f.elem, f.type, w, c)
    /\ f.fn = "live" => Alive(f.rest, w, c) /\ Distinct(f.rest)
Filed(k, w, c) == \A i \in DOMAIN k : Fits(k[i], w, c)

isMain(f) == f.fn \in {"trigger", "native"}
\* Below the handlers of an element is the event that has got to it, below live
\* handlers those of the document.
Link(k, i) ==
    /\ k[i].fn = "handle" => /\ i + 1 \in DOMAIN k /\ isMain(k[i + 1])
                             /\ k[i + 1].cur = k[i].elem /\ k[i + 1].phase = "bubble"
    /\ k[i].fn = "live" => /\ i + 1 \in DOMAIN k /\ i + 2 \in DOMAIN k /\ k[i + 1].fn = "handle"
                           /\ k[i + 1].elem = "document" /\ k[i + 2].liveFired = TRUE
    /\ k[i].fn = "handler" => i + 1 \in DOMAIN k /\ k[i + 1].fn \in {"handle", "live"}
Chain(k) == \A i \in DOMAIN k : Link(k, i)

(***************************************************************************)
(* Events and what was run for them.                                       *)
(***************************************************************************)
Numbers(E) == (1 .. E) \union (MaxEvents + 1 .. MaxEvents + E)
RanTo(R, n, e) == \E r \in R : r[1] = n /\ r[3] = e
RanLive(R, n, w) == \E r \in R : r[1] = n /\ w[r[2]] = LivePlace
early(f) == f.phase \in {"call", "capture"}

\* What was not run yet for an event that has got where f says.
Quiet(f, R, w) ==
    /\ f.cur = "child" /\ early(f) => ~RanTo(R, f.n, "child")
    /\ f.cur = "child" \/ early(f) => ~RanTo(R, f.n, "document") /\ f.liveFired = FALSE
    /\ f.liveFired = FALSE => ~RanLive(R, f.n, w)
    /\ f.phase = "capture" => \A r \in R : r[1] # f.n + MaxEvents

\* The event of k[i] is not that of the trigger below it.
Main(k, i) == isMain(k[i]) /\ (i = 1 /\ 2 \in DOMAIN k => ~CallsNative(k[2]))

\* A trigger whose native method runs is on top, or under the native event, which is dropped.
Calls(k, T) ==
    \A i \in DOMAIN k : CallsNative(k[i]) =>
       i \in {1, 2} /\ T = k[i].type /\ (i = 2 => k[1].fn = "native" /\ k[1].type = T)
Separate(k) ==
    \A i, j \in DOMAIN k : Main(k, i) /\ Main(k, j) =>
       (k[i].n = k[j].n => i = j) /\ (k[i].phase = "capture" => k[j].n # k[i].n + MaxEvents)
Numbered(k, E) ==
    \A i \in DOMAIN k : Main(k, i) => k[i].n \in Numbers(E) /\ (k[i].fn = "native" => k[i].n <= E)
Still(k, R, w) == \A i \in DOMAIN k : Main(k, i) => Quiet(k[i], R, w)
NotYet(k, R) ==
    /\ \A i \in DOMAIN k : k[i].fn = "handle" => \A j \in DOMAIN k[i].rest :
          k[i].rest[j].kind # "live" => <<k[i + 1].n, k[i].rest[j].id, k[i].elem>> \notin R
    /\ \A i \in DOMAIN k : k[i].fn = "live" => \A j \in DOMAIN k[i].rest :
          <<k[i + 2].n, k[i].rest[j].id, "child">> \notin R

Exact(k, T, R, E, w) == Calls(k, T) /\ Separate(k) /\ Numbered(k, E) /\ Still(k, R, w) /\ NotYet(k, R)

(***************************************************************************)
(* Frames that go, and handlers that frames are done with.                 *)
(***************************************************************************)
Weaker(f, g) ==
    /\ f.fn = g.fn
    /\ isMain(g) => /\ f.cur = g.cur /\ f.type = g.type /\ f.n = g.n
                    /\ f.phase = g.phase /\ f.liveFired = g.liveFired
    /\ g.fn = "handle" => f.elem = g.elem /\ f.type = g.type /\ Rest(f.rest, g.rest)
    /\ g.fn = "live" => Rest(f.rest, g.rest)

\* l is k without its first d frames, and with weaker ones.
Falls(k, l, d) ==
    /\ k \in Seq(Frames) /\ l \in Seq(Frames) /\ d \in Nat
    /\ \A i \in DOMAIN l : i + d \in DOMAIN k /\ Weaker(l[i], k[i + d])
    /\ \A i \in DOMAIN k : i > d => i - d \in DOMAIN l

LEMMA RestListed ==
    ASSUME NEW q, NEW r, NEW e, NEW t, NEW w, NEW c, Rest(r, q), Listed(q, e, t, w, c)
    PROVE  Listed(r, e, t, w, c)
<1>1. Distinct(r)
  BY DEF Rest, Listed
<1>2. ASSUME NEW j \in DOMAIN r
      PROVE  /\ r[j].id \in 1 .. c
             /\ r[j].kind = "live" => e = "document" /\ w[r[j].id] = LivePlace
             /\ r[j].kind # "live" => w[r[j].id] = <<e, t>>
  <2>1. PICK l \in DOMAIN q : r[j] = q[l]
    BY DEF Rest
  <2>2. QED
    BY <2>1 DEF Listed
<1>3. QED
  BY <1>1, <1>2 DEF Listed

LEMMA RestAlive ==
    ASSUME NEW q, NEW r, NEW w, NEW c, Rest(r, q), Alive(q, w, c)
    PROVE  Alive(r, w, c)
BY DEF Rest, Alive

LEMMA FallsFiled ==
    ASSUME NEW k, NEW l, NEW d, Falls(k, l, d), NEW w, NEW c, Filed(k, w, c)
    PROVE  Filed(l, w, c)
<1> SUFFICES ASSUME NEW i \in DOMAIN l PROVE Fits(l[i], w, c)
  BY DEF Filed
<1>1. i + d \in DOMAIN k /\ Weaker(l[i], k[i + d]) /\ Fits(k[i + d], w, c)
  BY DEF Falls, Filed
<1>2. l[i].fn = "handle" => Listed(l[i].rest, l[i].elem, l[i].type, w, c)
  BY <1>1, RestListed DEF Weaker, Fits
<1>3. l[i].fn = "live" => Alive(l[i].rest, w, c) /\ Distinct(l[i].rest)
  BY <1>1, RestAlive DEF Weaker, Fits, Rest
<1>4. QED
  BY <1>2, <1>3 DEF Fits

LEMMA FallsNext ==
    ASSUME NEW k, NEW l, NEW d, Falls(k, l, d), NEW i \in DOMAIN l, NEW x \in Nat, (i + d) + x \in DOMAIN k
    PROVE  i + x \in DOMAIN l /\ (i + x) + d = (i + d) + x /\ Weaker(l[i + x], k[(i + d) + x])
<1>1. i \in Nat /\ d \in Nat /\ i # 0
  BY DEF Falls
<1>2. (i + d) + x > d /\ ((i + d) + x) - d = i + x /\ (i + x) + d = (i + d) + x
  BY <1>1
<1>3. i + x \in DOMAIN l
  BY <1>2 DEF Falls
<1>4. QED
  BY <1>2, <1>3 DEF Falls

LEMMA FallsChain ==
    ASSUME NEW k, NEW l, NEW d, Falls(k, l, d), Chain(k)
    PROVE  Chain(l)
<1> SUFFICES ASSUME NEW i \in DOMAIN l PROVE Link(l, i)
  BY DEF Chain
<1>1. i + d \in DOMAIN k /\ Weaker(l[i], k[i + d]) /\ Link(k, i + d)
  BY DEF Falls, Chain
<1>2. (i + d) + 1 \in DOMAIN k => i + 1 \in DOMAIN l /\ Weaker(l[i + 1], k[(i + d) + 1])
  BY FallsNext
<1>3. (i + d) + 2 \in DOMAIN k => i + 2 \in DOMAIN l /\ Weaker(l[i + 2], k[(i + d) + 2])
  BY FallsNext
<1>4. l[i].fn = k[i + d].fn
  BY <1>1 DEF Weaker
<1>5. CASE l[i].fn = "handle"
  BY <1>1, <1>2, <1>4, <1>5 DEF Link, Weaker, isMain
<1>6. CASE l[i].fn = "live"
  <2>1. /\ (i + d) + 1 \in DOMAIN k /\ (i + d) + 2 \in DOMAIN k /\ k[(i + d) + 1].fn = "handle"
        /\ k[(i + d) + 1].elem = "document" /\ k[(i + d) + 2].liveFired = TRUE
    BY <1>1, <1>4, <1>6 DEF Link
  <2>2. Link(k, (i + d) + 1)
    BY <2>1 DEF Chain
  <2>3. isMain(k[(i + d) + 2])
    <3>1. ((i + d) + 1) + 1 = (i + d) + 2
      BY DEF Falls
    <3>2. QED
      BY <2>1, <2>2, <3>1 DEF Link
  <2>4. QED
    BY <1>2, <1>3, <1>6, <2>1, <2>3 DEF Link, Weaker
<1>7. CASE l[i].fn = "handler"
  BY <1>1, <1>2, <1>4, <1>7 DEF Link, Weaker
<1>8. CASE l[i].fn \notin {"handle", "live", "handler"}
  BY <1>8 DEF Link
<1>9. QED
  BY <1>5, <1>6, <1>7, <1>8

LEMMA FallsMain ==
    ASSUME NEW k, NEW l, NEW d, Falls(k, l, d), NEW i \in DOMAIN l, Main(l, i)
    PROVE  /\ i + d \in DOMAIN k /\ Main(k, i + d) /\ isMain(k[i + d])
           /\ l[i].fn = k[i + d].fn /\ l[i].n = k[i + d].n /\ l[i].cur = k[i + d].cur
           /\ l[i].phase = k[i + d].phase /\ l[i].liveFired = k[i + d].liveFired
<1>1. i + d \in DOMAIN k /\ Weaker(l[i], k[i + d]) /\ i \in Nat \ {0} /\ d \in Nat
  BY DEF Falls
<1>2. isMain(l[i])
  BY DEF Main
<1>3. isMain(k[i + d])
  BY <1>1, <1>2 DEF Weaker, isMain
<1>4. i + d = 1 /\ 2 \in DOMAIN k => ~CallsNative(k[2])
  <2>1. SUFFICES ASSUME i + d = 1, 2 \in DOMAIN k PROVE ~CallsNative(k[2])
    OBVIOUS
  <2>2. i = 1 /\ d = 0 /\ (i + d) + 1 = 2 /\ i + 1 = 2
    BY <1>1, <2>1
  <2>3. 2 \in DOMAIN l /\ Weaker(l[2], k[2])
    BY <2>1, <2>2, FallsNext
  <2>4. ~CallsNative(l[2])
    BY <2>2, <2>3 DEF Main
  <2>5. QED
    BY <2>3, <2>4 DEF CallsNative, Weaker, isMain
<1>5. QED
  BY <1>1, <1>3, <1>4 DEF Main, Weaker

LEMMA FallsCalls ==
    ASSUME NEW k, NEW l, NEW d, Falls(k, l, d), NEW T, Calls(k, T)
    PROVE  Calls(l, T)
<1> SUFFICES ASSUME NEW i \in DOMAIN l, CallsNative(l[i])
             PROVE  i \in {1, 2} /\ T = l[i].type /\ (i = 2 => l[1].fn = "native" /\ l[1].type = T)
  BY DEF Calls
<1>1. i + d \in DOMAIN k /\ Weaker(l[i], k[i + d]) /\ i \in Nat \ {0} /\ d \in Nat
  BY DEF Falls
<1>2. CallsNative(k[i + d]) /\ l[i].type = k[i + d].type
  BY <1>1 DEF CallsNative, Weaker, isMain
<1>3. i + d \in {1, 2} /\ T = k[i + d].type /\ (i + d = 2 => k[1].fn = "native" /\ k[1].type = T)
  BY <1>1, <1>2 DEF Calls
<1>4. i \in {1, 2}
  BY <1>1, <1>3
<1>5. ASSUME i = 2 PROVE l[1].fn = "native" /\ l[1].type = T
  <2>1. d = 0 /\ 1 \in DOMAIN l
    <3>1. d = 0
      BY <1>1, <1>3, <1>5
    <3>2. DOMAIN l = 1 .. Len(l) /\ Len(l) \in Nat
      BY DEF Falls
    <3>3. QED
      BY <1>5, <3>1, <3>2
  <2>2. Weaker(l[1], k[1]) /\ k[1].fn = "native" /\ k[1].type = T
    BY <1>3, <1>5, <2>1 DEF Falls
  <2>3. QED
    BY <2>2 DEF Weaker, isMain
<1>6. QED
  BY <1>2, <1>3, <1>4, <1>5

LEMMA FallsExact ==
    ASSUME NEW k, NEW l, NEW d, Falls(k, l, d), Chain(k),
           NEW T, NEW R, NEW E, NEW w, Exact(k, T, R, E, w)
    PROVE  Exact(l, T, R, E, w)
<1>1. Calls(l, T)
  BY FallsCalls DEF Exact
<1>2. Separate(l)
  <2> SUFFICES ASSUME NEW i \in DOMAIN l, NEW j \in DOMAIN l, Main(l, i), Main(l, j)
               PROVE  (l[i].n = l[j].n => i = j) /\ (l[i].phase = "capture" => l[j].n # l[i].n + MaxEvents)
    BY DEF Separate
  <2>1. /\ i + d \in DOMAIN k /\ Main(k, i + d) /\ l[i].n = k[i + d].n /\ l[i].phase = k[i + d].phase
        /\ j + d \in DOMAIN k /\ Main(k, j + d) /\ l[j].n = k[j + d].n
    BY FallsMain
  <2>2. (k[i + d].n = k[j + d].n => i + d = j + d) /\ (k[i + d].phase = "capture" => k[j + d].n # k[i + d].n + MaxEvents)
    BY <2>1 DEF Exact, Separate
  <2>3. i \in Nat /\ j \in Nat /\ d \in Nat
    BY DEF Falls
  <2>4. i + d = j + d => i = j
    BY <2>3
  <2>5. QED
    BY <2>1, <2>2, <2>4
<1>3. Numbered(l, E)
  BY FallsMain DEF Exact, Numbered
<1>4. Still(l, R, w)
  <2> SUFFICES ASSUME NEW i \in DOMAIN l, Main(l, i) PROVE Quiet(l[i], R, w)
    BY DEF Still
  <2>1. i + d \in DOMAIN k /\ Main(k, i + d)
    BY FallsMain
  <2>2. Quiet(k[i + d], R, w)
    BY <2>1 DEF Exact, Still
  <2>3. l[i].n = k[i + d].n /\ l[i].cur = k[i + d].cur /\ l[i].phase = k[i + d].phase /\ l[i].liveFired = k[i + d].liveFired
    BY FallsMain
  <2>4. QED
    BY <2>2, <2>3 DEF Quiet, early
<1>5. ASSUME NEW i \in DOMAIN l, l[i].fn = "handle", NEW j \in DOMAIN l[i].rest, l[i].rest[j].kind # "live"
      PROVE  <<l[i + 1].n, l[i].rest[j].id, l[i].elem>> \notin R
  <2>1. i + d \in DOMAIN k /\ Weaker(l[i], k[i + d]) /\ k[i + d].fn = "handle"
    BY <1>5 DEF Falls, Weaker
  <2>2. (i + d) + 1 \in DOMAIN k /\ isMain(k[(i + d) + 1])
    BY <2>1 DEF Chain, Link
  <2>3. l[i + 1].n = k[(i + d) + 1].n
    BY <2>2, FallsNext DEF Weaker
  <2>4. PICK m \in DOMAIN k[i + d].rest : l[i].rest[j] = k[i + d].rest[m]
    BY <1>5, <2>1 DEF Weaker, Rest
  <2>5. l[i].elem = k[i + d].elem
    BY <2>1 DEF Weaker
  <2>6. QED
    BY <1>5, <2>1, <2>3, <2>4, <2>5 DEF Exact, NotYet
<1>6. ASSUME NEW i \in DOMAIN l, l[i].fn = "live", NEW j \in DOMAIN l[i].rest
      PROVE  <<l[i + 2].n, l[i].rest[j].id, "child">> \notin R
  <2>1. i + d \in DOMAIN k /\ Weaker(l[i], k[i + d]) /\ k[i + d].fn = "live"
    BY <1>6 DEF Falls, Weaker
  <2>2. (i + d) + 2 \in DOMAIN k /\ (i + d) + 1 \in DOMAIN k /\ k[(i + d) + 1].fn = "handle"
    BY <2>1 DEF Chain, Link
  <2>a. ((i + d) + 1) + 1 = (i + d) + 2
    BY DEF Falls
  <2>b. isMain(k[(i + d) + 2])
    BY <2>2, <2>a DEF Chain, Link
  <2>3. l[i + 2].n = k[(i + d) + 2].n
    BY <2>2, <2>b, FallsNext DEF Weaker
  <2>4. PICK m \in DOMAIN k[i + d].rest : l[i].rest[j] = k[i + d].rest[m]
    BY <1>6, <2>1 DEF Weaker, Rest
  <2>5. QED
    BY <1>6, <2>1, <2>3, <2>4 DEF Exact, NotYet
<1>7. NotYet(l, R)
  BY <1>5, <1>6 DEF NotYet
<1>8. QED
  BY <1>1, <1>2, <1>3, <1>4, <1>7 DEF Exact

\* The type of events that are dropped does not matter while no native method runs.
NoNative(k) == \A i \in DOMAIN k : ~CallsNative(k[i])
LEMMA AnyType ==
    ASSUME NEW k, NoNative(k), NEW T, NEW U, NEW R, NEW E, NEW w, Exact(k, T, R, E, w)
    PROVE  Exact(k, U, R, E, w)
BY DEF NoNative, Exact, Calls

LEMMA FallsNoNative ==
    ASSUME NEW k, NEW l, NEW d, Falls(k, l, d), NoNative(k)
    PROVE  NoNative(l)
BY DEF Falls, NoNative, Weaker, CallsNative, isMain

\* The event on top gets further.
Retops(k, l, f) ==
    /\ k \in Seq(Frames) /\ l \in Seq(Frames) /\ 1 \in DOMAIN k /\ DOMAIN l = DOMAIN k
    /\ l[1] = f /\ \A i \in DOMAIN k : i # 1 => l[i] = k[i]
    /\ isMain(f) /\ f.fn = k[1].fn /\ f.type = k[1].type /\ f.n = k[1].n

LEMMA RetopsStands ==
    ASSUME NEW k, NEW l, NEW f, Retops(k, l, f), NEW w, NEW c, Filed(k, w, c), Chain(k)
    PROVE  Filed(l, w, c) /\ Chain(l)
<1>1. Fits(f, w, c)
  BY DEF Retops, Fits, isMain
<1>2. Filed(l, w, c)
  BY <1>1 DEF Filed, Retops
<1>3. ASSUME NEW i \in DOMAIN l PROVE Link(l, i)
  <2>1. CASE i = 1
    BY <2>1 DEF Link, Retops, isMain
  <2>2. CASE i # 1
    <3>1. i \in Nat \ {0} /\ i + 1 # 1 /\ i + 2 # 1
      BY DEF Retops
    <3>2. Link(k, i) /\ l[i] = k[i] /\ i \in DOMAIN k
      BY <2>2 DEF Retops, Chain
    <3>3. (i + 1 \in DOMAIN k => l[i + 1] = k[i + 1]) /\ (i + 2 \in DOMAIN k => l[i + 2] = k[i + 2]) /\ DOMAIN l = DOMAIN k
      BY <3>1 DEF Retops
    <3>4. QED
      BY <3>2, <3>3 DEF Link
  <2>3. QED
    BY <2>1, <2>2
<1>4. QED
  BY <1>2, <1>3 DEF Chain

LEMMA RetopsExact ==
    ASSUME NEW k, NEW l, NEW f, Retops(k, l, f), NEW T, NEW R, NEW E, NEW w, Exact(k, T, R, E, w), NEW U,
           f.phase # "capture", Main(k, 1) => Quiet(f, R, w),
           Chain(k),
           \/ U = T /\ ~CallsNative(f)
           \/ U = f.type /\ NoNative(k)
    PROVE  Exact(l, U, R, E, w)
<1>0. isMain(k[1]) /\ isMain(f) /\ l[1] = f /\ f.fn = k[1].fn /\ f.n = k[1].n /\ f.type = k[1].type /\ 1 \in DOMAIN k /\ DOMAIN l = DOMAIN k
  BY DEF Retops, isMain
<1>1. Calls(l, U)
  <2> SUFFICES ASSUME NEW i \in DOMAIN l, CallsNative(l[i])
               PROVE  i \in {1, 2} /\ U = l[i].type /\ (i = 2 => l[1].fn = "native" /\ l[1].type = U)
    BY DEF Calls
  <2>1. CASE U = T /\ ~CallsNative(f)
    <3>1. i # 1 /\ l[i] = k[i]
      BY <1>0, <2>1 DEF Retops
    <3>2. i \in {1, 2} /\ T = k[i].type /\ (i = 2 => k[1].fn = "native" /\ k[1].type = T)
      BY <1>0, <3>1 DEF Exact, Calls
    <3>3. QED
      BY <1>0, <2>1, <3>1, <3>2
  <2>2. CASE U = f.type /\ NoNative(k)
    <3>1. i = 1
      BY <2>2 DEF NoNative, Retops
    <3>2. QED
      BY <1>0, <2>2, <3>1
  <2>3. QED
    BY <2>1, <2>2
<1>2. ASSUME NEW i \in DOMAIN l, Main(l, i)
      PROVE  Main(k, i) /\ l[i].n = k[i].n /\ l[i].fn = k[i].fn /\ i \in DOMAIN k /\ (i # 1 => l[i] = k[i])
  BY <1>0, <1>2 DEF Main, Retops
<1>3. Separate(l)
  <2> SUFFICES ASSUME NEW i \in DOMAIN l, NEW j \in DOMAIN l, Main(l, i), Main(l, j)
               PROVE  (l[i].n = l[j].n => i = j) /\ (l[i].phase = "capture" => l[j].n # l[i].n + MaxEvents)
    BY DEF Separate
  <2>1. Main(k, i) /\ Main(k, j) /\ l[i].n = k[i].n /\ l[j].n = k[j].n /\ i \in DOMAIN k /\ j \in DOMAIN k
    BY <1>2
  <2>2. (k[i].n = k[j].n => i = j) /\ (k[i].phase = "capture" => k[j].n # k[i].n + MaxEvents)
    BY <2>1 DEF Exact, Separate
  <2>3. l[i].phase = "capture" => l[i] = k[i]
    BY <1>0, <1>2
  <2>4. QED
    BY <2>1, <2>2, <2>3
<1>4. Numbered(l, E)
  BY <1>2 DEF Exact, Numbered
<1>5. Still(l, R, w)
  <2> SUFFICES ASSUME NEW i \in DOMAIN l, Main(l, i) PROVE Quiet(l[i], R, w)
    BY DEF Still
  <2>1. Main(k, i) /\ i \in DOMAIN k /\ (i # 1 => l[i] = k[i])
    BY <1>2
  <2>2. Quiet(k[i], R, w)
    BY <2>1 DEF Exact, Still
  <2>3. QED
    BY <1>0, <2>1, <2>2
<1>6. ASSUME NEW i \in DOMAIN l, l[i].fn \in {"handle", "live"}
      PROVE  i \in DOMAIN k /\ l[i] = k[i] /\ i + 1 \in DOMAIN k /\ l[i + 1] = k[i + 1]
             /\ (l[i].fn = "live" => l[i + 2] = k[i + 2])
  <2>1. i # 1 /\ i \in Nat \ {0} /\ i \in DOMAIN k
    BY <1>0, <1>6 DEF isMain, Retops
  <2>2. l[i] = k[i] /\ Link(k, i) /\ i + 1 # 1 /\ i + 2 # 1
    BY <2>1 DEF Retops, Chain
  <2>3. i + 1 \in DOMAIN k /\ (l[i].fn = "live" => i + 2 \in DOMAIN k)
    BY <1>6, <2>2 DEF Link
  <2>4. QED
    BY <2>1, <2>2, <2>3 DEF Retops
<1>7. NotYet(l, R)
  <2>1. ASSUME NEW i \in DOMAIN l, l[i].fn = "handle", NEW j \in DOMAIN l[i].rest, l[i].rest[j].kind # "live"
        PROVE  <<l[i + 1].n, l[i].rest[j].id, l[i].elem>> \notin R
    <3>1. i \in DOMAIN k /\ l[i] = k[i] /\ l[i + 1] = k[i + 1]
      BY <1>6, <2>1
    <3>2. QED
      BY <2>1, <3>1 DEF Exact, NotYet
  <2>2. ASSUME NEW i \in DOMAIN l, l[i].fn = "live", NEW j \in DOMAIN l[i].rest
        PROVE  <<l[i + 2].n, l[i].rest[j].id, "child">> \notin R
    <3>1. i \in DOMAIN k /\ l[i] = k[i] /\ l[i + 2] = k[i + 2]
      BY <1>6, <2>2
    <3>2. QED
      BY <2>2, <3>1 DEF Exact, NotYet
  <2>3. QED
    BY <2>1, <2>2 DEF NotYet
<1>8. QED
  BY <1>1, <1>3, <1>4, <1>5, <1>7 DEF Exact

\* The event below the top has called liveHandler.
Fires(k, l) ==
    /\ k \in Seq(Frames) /\ l \in Seq(Frames) /\ 2 \in DOMAIN k /\ DOMAIN l = DOMAIN k
    /\ \A i \in DOMAIN k : i # 2 => l[i] = k[i]
    /\ k[1].fn = "handle" /\ isMain(k[2]) /\ k[2].cur = "document" /\ k[2].phase = "bubble"
    /\ l[2].fn = k[2].fn /\ l[2].type = k[2].type /\ l[2].n = k[2].n
    /\ l[2].cur = "document" /\ l[2].phase = "bubble" /\ l[2].liveFired = TRUE

LEMMA FiresStands ==
    ASSUME NEW k, NEW l, Fires(k, l), NEW w, NEW c, Filed(k, w, c), Chain(k)
    PROVE  Filed(l, w, c) /\ Chain(l)
<1>1. Fits(l[2], w, c)
  BY DEF Fires, Fits, isMain
<1>2. Filed(l, w, c)
  BY <1>1 DEF Filed, Fires
<1>3. ASSUME NEW i \in DOMAIN l PROVE Link(l, i)
  <2>0. i \in Nat \ {0} /\ Link(k, i) /\ DOMAIN l = DOMAIN k /\ i + 2 # 2
    BY DEF Fires, Chain
  <2>1. CASE i = 1
    <3>1. l[1] = k[1] /\ k[1].fn = "handle" /\ i + 1 = 2
      BY <2>0, <2>1 DEF Fires
    <3>2. QED
      BY <2>0, <2>1, <3>1 DEF Link, Fires, isMain
  <2>2. CASE i = 2
    BY <2>2 DEF Link, Fires, isMain
  <2>3. CASE i # 1 /\ i # 2
    <3>1. i + 1 # 2 /\ l[i] = k[i]
      BY <2>0, <2>3 DEF Fires
    <3>2. (i + 1 \in DOMAIN k => l[i + 1] = k[i + 1]) /\ (i + 2 \in DOMAIN k => l[i + 2] = k[i + 2])
      BY <2>0, <3>1 DEF Fires
    <3>3. QED
      BY <2>0, <3>1, <3>2 DEF Link
  <2>4. QED
    BY <2>1, <2>2, <2>3
<1>4. QED
  BY <1>2, <1>3 DEF Chain

LEMMA FiresExact ==
    ASSUME NEW k, NEW l, Fires(k, l), Chain(k), NEW T, NEW R, NEW E, NEW w, Exact(k, T, R, E, w)
    PROVE  Exact(l, T, R, E, w)
<1>0. DOMAIN l = DOMAIN k /\ \A i \in DOMAIN k : l[i].n = k[i].n /\ l[i].fn = k[i].fn /\ l[i].type = k[i].type /\ l[i].phase = k[i].phase
  BY DEF Fires
<1>1. Calls(l, T)
  <2>1. 1 \in DOMAIN k
    BY DEF Fires
  <2>2. QED
    BY <1>0, <2>1 DEF Exact, Calls, CallsNative
<1>2. ASSUME NEW i \in DOMAIN l, Main(l, i)
      PROVE  Main(k, i) /\ i \in DOMAIN k
  BY <1>0, <1>2 DEF Main, isMain, CallsNative
<1>3. Separate(l)
  <2> SUFFICES ASSUME NEW i \in DOMAIN l, NEW j \in DOMAIN l, Main(l, i), Main(l, j)
               PROVE  (l[i].n = l[j].n => i = j) /\ (l[i].phase = "capture" => l[j].n # l[i].n + MaxEvents)
    BY DEF Separate
  <2>1. Main(k, i) /\ Main(k, j) /\ i \in DOMAIN k /\ j \in DOMAIN k
    BY <1>2
  <2>2. (k[i].n = k[j].n => i = j) /\ (k[i].phase = "capture" => k[j].n # k[i].n + MaxEvents)
    BY <2>1 DEF Exact, Separate
  <2>3. QED
    BY <1>0, <2>1, <2>2
<1>4. Numbered(l, E)
  BY <1>0, <1>2 DEF Exact, Numbered
<1>5. Still(l, R, w)
  <2> SUFFICES ASSUME NEW i \in DOMAIN l, Main(l, i) PROVE Quiet(l[i], R, w)
    BY DEF Still
  <2>1. Main(k, i) /\ i \in DOMAIN k /\ (i # 2 => l[i] = k[i])
    BY <1>2 DEF Fires
  <2>2. Quiet(k[i], R, w)
    BY <2>1 DEF Exact, Still
  <2>3. Quiet(l[2], R, w)
    BY DEF Fires, Quiet, early
  <2>4. QED
    BY <2>1, <2>2, <2>3
<1>6. ASSUME NEW i \in DOMAIN l, l[i].fn \in {"handle", "live"}
      PROVE  i \in DOMAIN k /\ l[i] = k[i] /\ l[i + 1].n = k[i + 1].n /\ (l[i].fn = "live" => l[i + 2].n = k[i + 2].n)
  <2>1. i # 2 /\ i \in DOMAIN k
    BY <1>0, <1>6 DEF Fires, isMain
  <2>2. l[i] = k[i] /\ Link(k, i)
    BY <2>1 DEF Fires, Chain
  <2>3. i + 1 \in DOMAIN k /\ (l[i].fn = "live" => i + 2 \in DOMAIN k)
    BY <1>6, <2>2 DEF Link
  <2>4. QED
    BY <1>0, <2>1, <2>2, <2>3
<1>7. NotYet(l, R)
  <2>1. ASSUME NEW i \in DOMAIN l, l[i].fn = "handle", NEW j \in DOMAIN l[i].rest, l[i].rest[j].kind # "live"
        PROVE  <<l[i + 1].n, l[i].rest[j].id, l[i].elem>> \notin R
    <3>1. i \in DOMAIN k /\ l[i] = k[i] /\ l[i + 1].n = k[i + 1].n
      BY <1>6, <2>1
    <3>2. QED
      BY <2>1, <3>1 DEF Exact, NotYet
  <2>2. ASSUME NEW i \in DOMAIN l, l[i].fn = "live", NEW j \in DOMAIN l[i].rest
        PROVE  <<l[i + 2].n, l[i].rest[j].id, "child">> \notin R
    <3>1. i \in DOMAIN k /\ l[i] = k[i] /\ l[i + 2].n = k[i + 2].n
      BY <1>6, <2>2
    <3>2. QED
      BY <2>2, <3>1 DEF Exact, NotYet
  <2>3. QED
    BY <2>1, <2>2 DEF NotYet
<1>8. QED
  BY <1>1, <1>3, <1>4, <1>5, <1>7 DEF Exact

\* A frame is called.
On(k, l, f) ==
    /\ k \in Seq(Frames) /\ l \in Seq(Frames) /\ 1 \in DOMAIN l /\ l[1] = f
    /\ \A i \in DOMAIN k : i + 1 \in DOMAIN l /\ l[i + 1] = k[i]
    /\ \A i \in DOMAIN l : i # 1 => i - 1 \in DOMAIN k /\ l[i] = k[i - 1]

LEMMA IndexPositive ==
    ASSUME NEW S, NEW k \in Seq(S), NEW i \in DOMAIN k
    PROVE  i \in Nat \ {0}
OBVIOUS

LEMMA OnNext ==
    ASSUME NEW k, NEW l, NEW f, On(k, l, f), NEW i \in DOMAIN l, i # 1, NEW x \in Nat, (i - 1) + x \in DOMAIN k
    PROVE  i + x \in DOMAIN l /\ l[i + x] = k[(i - 1) + x]
<1>1. i \in Nat \ {0}
  BY IndexPositive DEF On
<1>2. ((i - 1) + x) + 1 = i + x
  BY <1>1
<1>3. QED
  BY <1>2 DEF On

LEMMA OnStands ==
    ASSUME NEW k, NEW l, NEW f, On(k, l, f), NEW w, NEW c, Filed(k, w, c), Chain(k),
           Fits(f, w, c), Link(l, 1)
    PROVE  Filed(l, w, c) /\ Chain(l)
<1>1. Filed(l, w, c)
  BY DEF Filed, On
<1>2. ASSUME NEW i \in DOMAIN l, i # 1 PROVE Link(l, i)
  <2>1. Link(k, i - 1) /\ l[i] = k[i - 1]
    BY <1>2 DEF On, Chain
  <2>2. (i - 1) + 1 \in DOMAIN k => i + 1 \in DOMAIN l /\ l[i + 1] = k[(i - 1) + 1]
    BY <1>2, OnNext
  <2>3. (i - 1) + 2 \in DOMAIN k => i + 2 \in DOMAIN l /\ l[i + 2] = k[(i - 1) + 2]
    BY <1>2, OnNext
  <2>4. QED
    BY <2>1, <2>2, <2>3 DEF Link
<1>3. QED
  BY <1>1, <1>2 DEF Chain

LEMMA NothingCalled ==
    ASSUME NEW k, NEW l, NEW f, On(k, l, f), NoNative(k), ~CallsNative(f), NEW U
    PROVE  Calls(l, U) /\ NoNative(l)
BY DEF On, NoNative, Calls

LEMMA MethodCalls ==
    ASSUME NEW k, NEW l, NEW f, On(k, l, f), NEW T, Calls(k, T), CallsNative(k[1]), 1 \in DOMAIN k,
           f.fn = "native", f.type = T
    PROVE  Calls(l, T) /\ (2 \in DOMAIN k => ~CallsNative(k[2]))
<1>1. \A i \in DOMAIN k : CallsNative(k[i]) => i = 1 /\ T = k[i].type
  BY DEF Calls, CallsNative
<1>2. ASSUME NEW i \in DOMAIN l, CallsNative(l[i])
      PROVE  i = 2 /\ T = l[i].type
  <2>1. i # 1
    BY <1>2 DEF On, CallsNative
  <2>a. i \in Nat
    BY IndexPositive DEF On
  <2>2. i - 1 \in DOMAIN k /\ l[i] = k[i - 1] /\ i \in Nat
    BY <2>1, <2>a DEF On
  <2>3. i - 1 = 1 /\ T = l[i].type
    BY <1>1, <1>2, <2>2
  <2>4. QED
    BY <2>2, <2>3
<1>3. QED
  BY <1>1, <1>2 DEF Calls, On

\* The number of the event f was not used.
Unused(k, f) ==
    /\ \A i \in DOMAIN k : Main(k, i) =>
          /\ k[i].n # f.n
          /\ f.phase = "capture" => k[i].n # f.n + MaxEvents
          /\ k[i].phase = "capture" => f.n # k[i].n + MaxEvents
    /\ f.phase = "capture" => f.n # f.n + MaxEvents

\* What a frame holds was not run for the event it is to be run for.
Due(l, R) ==
    /\ l[1].fn = "handle" => \A j \in DOMAIN l[1].rest :
          l[1].rest[j].kind # "live" => <<l[2].n, l[1].rest[j].id, l[1].elem>> \notin R
    /\ l[1].fn = "live" => \A j \in DOMAIN l[1].rest : <<l[3].n, l[1].rest[j].id, "child">> \notin R

LEMMA OnExact ==
    ASSUME NEW k, NEW l, NEW f, On(k, l, f), Chain(k),
           NEW T, NEW R, NEW E, NEW w, Exact(k, T, R, E, w), 2 \in DOMAIN k => ~CallsNative(k[2]),
           NEW U, Calls(l, U), NEW D, E \in Nat, D \in Nat, E <= D,
           Main(l, 1) => /\ Unused(k, f) /\ Quiet(f, R, w)
                         /\ f.n \in Numbers(D) /\ (f.fn = "native" => f.n <= D),
           Due(l, R)
    PROVE  Exact(l, U, R, D, w)
<1>0. l[1] = f /\ 1 \in DOMAIN l
  BY DEF On
<1>1. ASSUME NEW i \in DOMAIN l, i # 1
      PROVE  i - 1 \in DOMAIN k /\ l[i] = k[i - 1] /\ (Main(l, i) => Main(k, i - 1)) /\ i \in Nat
  <2>0. i \in Nat
    BY IndexPositive DEF On
  <2>1. i - 1 \in DOMAIN k /\ l[i] = k[i - 1] /\ i \in Nat
    BY <1>1, <2>0 DEF On
  <2>2. QED
    BY <2>1 DEF Main
<1>2. Separate(l)
  <2> SUFFICES ASSUME NEW i \in DOMAIN l, NEW j \in DOMAIN l, Main(l, i), Main(l, j)
               PROVE  (l[i].n = l[j].n => i = j) /\ (l[i].phase = "capture" => l[j].n # l[i].n + MaxEvents)
    BY DEF Separate
  <2>1. CASE i = 1 /\ j = 1
    BY <1>0, <2>1 DEF Unused
  <2>2. CASE i = 1 /\ j # 1
    <3>1. Main(k, j - 1) /\ j - 1 \in DOMAIN k /\ l[j] = k[j - 1]
      BY <1>1, <2>2
    <3>2. QED
      BY <1>0, <2>2, <3>1 DEF Unused
  <2>3. CASE i # 1 /\ j = 1
    <3>1. Main(k, i - 1) /\ i - 1 \in DOMAIN k /\ l[i] = k[i - 1]
      BY <1>1, <2>3
    <3>2. QED
      BY <1>0, <2>3, <3>1 DEF Unused
  <2>4. CASE i # 1 /\ j # 1
    <3>1. Main(k, i - 1) /\ i - 1 \in DOMAIN k /\ l[i] = k[i - 1] /\ i \in Nat
      BY <1>1, <2>4
    <3>2. Main(k, j - 1) /\ j - 1 \in DOMAIN k /\ l[j] = k[j - 1] /\ j \in Nat
      BY <1>1, <2>4
    <3>3. (k[i - 1].n = k[j - 1].n => i - 1 = j - 1) /\ (k[i - 1].phase = "capture" => k[j - 1].n # k[i - 1].n + MaxEvents)
      BY <3>1, <3>2 DEF Exact, Separate
    <3>4. i - 1 = j - 1 => i = j
      BY <3>1, <3>2
    <3>5. QED
      BY <3>1, <3>2, <3>3, <3>4
  <2>5. QED
    BY <2>1, <2>2, <2>3, <2>4
<1>3. Numbered(l, D)
  <2> SUFFICES ASSUME NEW i \in DOMAIN l, Main(l, i) PROVE l[i].n \in Numbers(D) /\ (l[i].fn = "native" => l[i].n <= D)
    BY DEF Numbered
  <2>1. CASE i = 1
    BY <1>0, <2>1
  <2>2. CASE i # 1
    <3>1. Main(k, i - 1) /\ i - 1 \in DOMAIN k /\ l[i] = k[i - 1]
      BY <1>1, <2>2
    <3>2. l[i].n \in Numbers(E) /\ (l[i].fn = "native" => l[i].n <= E)
      BY <3>1 DEF Exact, Numbered
    <3>3. Numbers(E) \subseteq Numbers(D) /\ \A n \in Numbers(E) : n \in Int
      BY EventsAssumption DEF Numbers
    <3>4. QED
      BY <3>2, <3>3
  <2>3. QED
    BY <2>1, <2>2
<1>4. Still(l, R, w)
  <2> SUFFICES ASSUME NEW i \in DOMAIN l, Main(l, i) PROVE Quiet(l[i], R, w)
    BY DEF Still
  <2>1. CASE i = 1
    BY <1>0, <2>1
  <2>2. CASE i # 1
    BY <1>1, <2>2 DEF Exact, Still
  <2>3. QED
    BY <2>1, <2>2
<1>5. ASSUME NEW i \in DOMAIN l, l[i].fn \in {"handle", "live"}, i # 1
      PROVE  /\ i - 1 \in DOMAIN k /\ l[i] = k[i - 1] /\ l[i + 1] = k[(i - 1) + 1]
             /\ l[i].fn = "live" => l[i + 2] = k[(i - 1) + 2]
  <2>1. i - 1 \in DOMAIN k /\ l[i] = k[i - 1] /\ Link(k, i - 1)
    BY <1>1, <1>5 DEF Chain
  <2>2. (i - 1) + 1 \in DOMAIN k /\ (l[i].fn = "live" => (i - 1) + 2 \in DOMAIN k)
    BY <1>5, <2>1 DEF Link
  <2>3. QED
    BY <1>5, <2>1, <2>2, OnNext
<1>6. NotYet(l, R)
  <2>1. ASSUME NEW i \in DOMAIN l, l[i].fn = "handle", NEW j \in DOMAIN l[i].rest, l[i].rest[j].kind # "live"
        PROVE  <<l[i + 1].n, l[i].rest[j].id, l[i].elem>> \notin R
    <3>1. CASE i = 1
      BY <2>1, <3>1 DEF Due
    <3>2. CASE i # 1
      <4>1. i - 1 \in DOMAIN k /\ l[i] = k[i - 1] /\ l[i + 1] = k[(i - 1) + 1]
        BY <1>5, <2>1, <3>2
      <4>2. QED
        BY <2>1, <4>1 DEF Exact, NotYet
    <3>3. QED
      BY <3>1, <3>2
  <2>2. ASSUME NEW i \in DOMAIN l, l[i].fn = "live", NEW j \in DOMAIN l[i].rest
        PROVE  <<l[i + 2].n, l[i].rest[j].id, "child">> \notin R
    <3>1. CASE i = 1
      BY <2>2, <3>1 DEF Due
    <3>2. CASE i # 1
      <4>1. i - 1 \in DOMAIN k /\ l[i] = k[i - 1] /\ l[i + 2] = k[(i - 1) + 2]
        BY <1>5, <2>2, <3>2
      <4>2. QED
        BY <2>2, <4>1 DEF Exact, NotYet
    <3>3. QED
      BY <3>1, <3>2
  <2>3. QED
    BY <2>1, <2>2 DEF NotYet
<1>7. QED
  BY <1>2, <1>3, <1>4, <1>6 DEF Exact

LEMMA NothingRan ==
    ASSUME NEW T, NEW E, NEW w
    PROVE  Exact(<<>>, T, {}, E, w)
BY DEF Exact, Calls, Separate, Numbered, Still, NotYet

\* A handler of the element on top is run.
LEMMA RanPlain ==
    ASSUME NEW k \in Seq(Frames), k # <<>>, Chain(k), k[1].fn = "handle",
           NEW T, NEW R, NEW E, NEW w, Exact(k, T, R, E, w),
           NEW id, w[id] # LivePlace, \A j \in DOMAIN k[1].rest : k[1].rest[j].id # id
    PROVE  Exact(k, T, R \union {<<k[2].n, id, k[1].elem>>}, E, w)
<1> DEFINE x == <<k[2].n, id, k[1].elem>>
           S == R \union {x}
<1>0. /\ 1 \in DOMAIN k /\ 2 \in DOMAIN k /\ isMain(k[2]) /\ k[2].cur = k[1].elem /\ k[2].phase = "bubble"
      /\ Main(k, 2)
  <2>1. 1 \in DOMAIN k /\ 1 + 1 = 2
    OBVIOUS
  <2>2. QED
    BY <2>1 DEF Chain, Link, Main
<1>1. \A i \in DOMAIN k : Main(k, i) => (k[i].n = k[2].n => i = 2) /\ (k[i].phase = "capture" => k[2].n # k[i].n + MaxEvents)
  BY <1>0 DEF Exact, Separate
<1>2. Still(k, S, w)
  <2> SUFFICES ASSUME NEW i \in DOMAIN k, Main(k, i) PROVE Quiet(k[i], S, w)
    BY DEF Still
  <2>1. Quiet(k[i], R, w)
    BY DEF Exact, Still
  <2>2. k[i].phase = "capture" => \A r \in S : r[1] # k[i].n + MaxEvents
    BY <1>1, <2>1 DEF Quiet
  <2>3. CASE i # 2
    <3>1. x[1] # k[i].n
      BY <1>1, <2>3
    <3>2. \A e : RanTo(S, k[i].n, e) => RanTo(R, k[i].n, e)
      BY <3>1 DEF RanTo
    <3>3. RanLive(S, k[i].n, w) => RanLive(R, k[i].n, w)
      BY <3>1 DEF RanLive
    <3> HIDE DEF S
    <3>4. QED
      BY <2>1, <2>2, <3>2, <3>3 DEF Quiet
  <2>4. CASE i = 2
    <3>1. ~early(k[2])
      BY <1>0 DEF early
    <3>2. RanLive(S, k[2].n, w) => RanLive(R, k[2].n, w)
      BY DEF RanLive
    <3>3. k[2].cur = "child" => (RanTo(S, k[2].n, "document") => RanTo(R, k[2].n, "document"))
      BY <1>0 DEF RanTo
    <3> HIDE DEF S
    <3>4. QED
      BY <2>1, <2>2, <2>4, <3>1, <3>2, <3>3 DEF Quiet
  <2>5. QED
    BY <2>3, <2>4
<1>3. ASSUME NEW i \in DOMAIN k, k[i].fn = "handle", NEW j \in DOMAIN k[i].rest, k[i].rest[j].kind # "live"
      PROVE  <<k[i + 1].n, k[i].rest[j].id, k[i].elem>> \notin S
  <2>1. <<k[i + 1].n, k[i].rest[j].id, k[i].elem>> \notin R
    BY <1>3 DEF Exact, NotYet
  <2>2. CASE i = 1
    BY <2>1, <2>2
  <2>3. CASE i # 1
    <3>1. i \in Nat \ {0} /\ i + 1 \in DOMAIN k /\ isMain(k[i + 1])
      BY <1>3, IndexPositive DEF Chain, Link
    <3>2. i + 1 # 1 /\ i + 1 # 2
      BY <2>3, <3>1
    <3>3. Main(k, i + 1)
      BY <3>1, <3>2 DEF Main
    <3>4. k[i + 1].n # k[2].n
      BY <1>1, <3>1, <3>2, <3>3
    <3>5. QED
      BY <2>1, <3>4
  <2>4. QED
    BY <2>2, <2>3
<1>4. ASSUME NEW i \in DOMAIN k, k[i].fn = "live", NEW j \in DOMAIN k[i].rest
      PROVE  <<k[i + 2].n, k[i].rest[j].id, "child">> \notin S
  <2>1. <<k[i + 2].n, k[i].rest[j].id, "child">> \notin R
    BY <1>4 DEF Exact, NotYet
  <2>2. i \in Nat \ {0} /\ i + 1 \in DOMAIN k /\ i + 2 \in DOMAIN k /\ k[i + 1].fn = "handle"
    BY <1>4, IndexPositive DEF Chain, Link
  <2>3. (i + 1) + 1 = i + 2 /\ i + 2 # 1 /\ i + 2 # 2
    BY <2>2
  <2>4. isMain(k[i + 2])
    BY <2>2, <2>3 DEF Chain, Link
  <2>5. k[i + 2].n # k[2].n
    BY <1>1, <2>2, <2>3, <2>4 DEF Main
  <2>6. QED
    BY <2>1, <2>5
<1>5. NotYet(k, S)
  BY <1>3, <1>4 DEF NotYet
<1> HIDE DEF S
<1>6. Exact(k, T, S, E, w)
  BY <1>2, <1>5 DEF Exact
<1>7. QED
  BY <1>6 DEF S

\* A live handler is run.
LEMMA RanAlive ==
    ASSUME NEW k \in Seq(Frames), k # <<>>, Chain(k), k[1].fn = "live",
           NEW T, NEW R, NEW E, NEW w, Exact(k, T, R, E, w),
           NEW id, \A j \in DOMAIN k[1].rest : k[1].rest[j].id # id
    PROVE  Exact(k, T, R \union {<<k[3].n, id, "child">>}, E, w)
<1> DEFINE x == <<k[3].n, id, "child">>
           S == R \union {x}
<1>0. /\ 1 \in DOMAIN k /\ 2 \in DOMAIN k /\ k[2].fn = "handle" /\ k[2].elem = "document"
      /\ 3 \in DOMAIN k /\ isMain(k[3]) /\ k[3].cur = "document" /\ k[3].phase = "bubble"
      /\ k[3].liveFired = TRUE /\ Main(k, 3)
  <2>1. 1 \in DOMAIN k /\ 1 + 1 = 2 /\ 1 + 2 = 3 /\ 2 + 1 = 3
    OBVIOUS
  <2>2. 2 \in DOMAIN k /\ k[2].fn = "handle" /\ k[2].elem = "document" /\ 3 \in DOMAIN k /\ k[3].liveFired = TRUE
    BY <2>1 DEF Chain, Link
  <2>3. isMain(k[3]) /\ k[3].cur = "document" /\ k[3].phase = "bubble"
    BY <2>1, <2>2 DEF Chain, Link
  <2>4. QED
    BY <2>1, <2>2, <2>3 DEF Main
<1>1. \A i \in DOMAIN k : Main(k, i) => (k[i].n = k[3].n => i = 3) /\ (k[i].phase = "capture" => k[3].n # k[i].n + MaxEvents)
  BY <1>0 DEF Exact, Separate
<1>2. Still(k, S, w)
  <2> SUFFICES ASSUME NEW i \in DOMAIN k, Main(k, i) PROVE Quiet(k[i], S, w)
    BY DEF Still
  <2>1. Quiet(k[i], R, w)
    BY DEF Exact, Still
  <2>2. k[i].phase = "capture" => \A r \in S : r[1] # k[i].n + MaxEvents
    BY <1>1, <2>1 DEF Quiet
  <2>3. CASE i # 3
    <3>1. x[1] # k[i].n
      BY <1>1, <2>3
    <3>2. \A e : RanTo(S, k[i].n, e) => RanTo(R, k[i].n, e)
      BY <3>1 DEF RanTo
    <3>3. RanLive(S, k[i].n, w) => RanLive(R, k[i].n, w)
      BY <3>1 DEF RanLive
    <3> HIDE DEF S
    <3>4. QED
      BY <2>1, <2>2, <3>2, <3>3 DEF Quiet
  <2>4. CASE i = 3
    BY <1>0, <2>2, <2>4 DEF Quiet, early
  <2>5. QED
    BY <2>3, <2>4
<1>3. ASSUME NEW i \in DOMAIN k, k[i].fn = "handle", NEW j \in DOMAIN k[i].rest, k[i].rest[j].kind # "live"
      PROVE  <<k[i + 1].n, k[i].rest[j].id, k[i].elem>> \notin S
  <2>1. <<k[i + 1].n, k[i].rest[j].id, k[i].elem>> \notin R
    BY <1>3 DEF Exact, NotYet
  <2>2. CASE i = 2
    BY <1>0, <2>1, <2>2
  <2>3. CASE i # 2
    <3>1. i \in Nat \ {0} /\ i + 1 \in DOMAIN k /\ isMain(k[i + 1]) /\ i # 1
      BY <1>0, <1>3, IndexPositive DEF Chain, Link
    <3>2. i + 1 # 1 /\ i + 1 # 3
      BY <2>3, <3>1
    <3>3. Main(k, i + 1)
      BY <3>1, <3>2 DEF Main
    <3>4. k[i + 1].n # k[3].n
      BY <1>1, <3>1, <3>2, <3>3
    <3>5. QED
      BY <2>1, <3>4
  <2>4. QED
    BY <2>2, <2>3
<1>4. ASSUME NEW i \in DOMAIN k, k[i].fn = "live", NEW j \in DOMAIN k[i].rest
      PROVE  <<k[i + 2].n, k[i].rest[j].id, "child">> \notin S
  <2>1. <<k[i + 2].n, k[i].rest[j].id, "child">> \notin R
    BY <1>4 DEF Exact, NotYet
  <2>2. i \in Nat \ {0} /\ i + 1 \in DOMAIN k /\ i + 2 \in DOMAIN k /\ k[i + 1].fn = "handle"
    BY <1>4, IndexPositive DEF Chain, Link
  <2>a. CASE i = 1
    BY <2>1, <2>a
  <2>b. CASE i # 1
    <3>1. (i + 1) + 1 = i + 2 /\ i + 2 # 1 /\ i + 2 # 3
      BY <2>2, <2>b
    <3>2. isMain(k[i + 2])
      BY <2>2, <3>1 DEF Chain, Link
    <3>3. k[i + 2].n # k[3].n
      BY <1>1, <2>2, <3>1, <3>2 DEF Main
    <3>4. QED
      BY <2>1, <3>3
  <2>6. QED
    BY <2>a, <2>b
<1>5. NotYet(k, S)
  BY <1>3, <1>4 DEF NotYet
<1> HIDE DEF S
<1>6. Exact(k, T, S, E, w)
  BY <1>2, <1>5 DEF Exact
<1>7. QED
  BY <1>6 DEF S

-----------------------------------------------------------------------------
(***************************************************************************)
(* Pages whose call stack changes.                                         *)
(***************************************************************************)
With(s, k, T) == [s EXCEPT !.stack = k, !.triggered = T]

LEMMA WithStack ==
    ASSUME NEW s \in Pages, NEW k \in Seq(Frames), NEW T \in AllTypes \union {"none"}
    PROVE  /\ With(s, k, T) \in Pages /\ Same(s, With(s, k, T), {"stack", "triggered"})
           /\ With(s, k, T).stack = k /\ With(s, k, T).triggered = T
BY DEF With, Pages, Same, Fields

LEMMA FrameKinds ==
    ASSUME NEW f \in Frames
    PROVE  /\ f.fn \in {"trigger", "native", "handle", "live", "handler"}
           /\ f.fn = "trigger" => f \in Triggers
           /\ f.fn = "native" => f \in Natives
           /\ f.fn = "handle" => f \in Handles
           /\ f.fn = "live" => f \in Lives
           /\ f.fn = "handler" => f \in Codes
BY DEF Frames, Triggers, Natives, Handles, Lives, Codes

\* f is g further on.
Further(f, g) ==
    /\ f \in Frames /\ isMain(f) /\ f.fn = g.fn /\ f.type = g.type /\ f.n = g.n
    /\ f.liveFired = g.liveFired

LEMMA Phased ==
    ASSUME NEW g \in Frames, isMain(g), NEW ph, ph \in {"call", "bubble"} \/ (ph = "native" /\ g.fn = "trigger")
    PROVE  /\ Further([g EXCEPT !.phase = ph], g)
           /\ [g EXCEPT !.phase = ph].phase = ph /\ [g EXCEPT !.phase = ph].cur = g.cur
<1> DEFINE f == [g EXCEPT !.phase = ph]
<1>1. CASE g.fn = "trigger"
  <2>1. g \in Triggers /\ ph \in {"call", "bubble", "native"}
    BY <1>1, FrameKinds
  <2>2. f \in Triggers
    BY <2>1 DEF Triggers
  <2>3. f.fn = g.fn /\ f.type = g.type /\ f.n = g.n /\ f.cur = g.cur /\ f.phase = ph
    BY <2>1 DEF Triggers
  <2>4. f.liveFired = g.liveFired
    BY <2>1 DEF Triggers
  <2> HIDE DEF f
  <2>5. QED
    BY <2>2, <2>3, <2>4, <1>1 DEF Further, Frames, isMain, f
<1>2. CASE g.fn = "native"
  <2>1. g \in Natives /\ ph \in {"call", "bubble"}
    BY <1>2, FrameKinds
  <2>2. f \in Natives
    BY <2>1 DEF Natives
  <2>3. f.fn = g.fn /\ f.type = g.type /\ f.n = g.n /\ f.cur = g.cur /\ f.phase = ph
    BY <2>1 DEF Natives
  <2>4. f.liveFired = g.liveFired
    BY <2>1 DEF Natives
  <2> HIDE DEF f
  <2>5. QED
    BY <2>2, <2>3, <2>4, <1>2 DEF Further, Frames, isMain, f
<1>3. QED
  BY <1>1, <1>2 DEF isMain

LEMMA ToDocument ==
    ASSUME NEW g \in Frames, isMain(g)
    PROVE  LET f == [g EXCEPT !.phase = "call", !.cur = "document"] IN
           Further(f, g) /\ f.phase = "call" /\ f.cur = "document"
<1> DEFINE f == [g EXCEPT !.phase = "call", !.cur = "document"]
<1>1. CASE g.fn = "trigger"
  <2>1. g \in Triggers
    BY <1>1, FrameKinds
  <2>2. f \in Triggers
    BY <2>1 DEF Triggers, Elements
  <2>3. f.fn = g.fn /\ f.type = g.type /\ f.n = g.n /\ f.cur = "document" /\ f.phase = "call"
    BY <2>1 DEF Triggers
  <2>4. f.liveFired = g.liveFired
    BY <2>1 DEF Triggers
  <2> HIDE DEF f
  <2>5. QED
    BY <2>2, <2>3, <2>4, <1>1 DEF Further, Frames, isMain, f
<1>2. CASE g.fn = "native"
  <2>1. g \in Natives
    BY <1>2, FrameKinds
  <2>2. f \in Natives
    BY <2>1 DEF Natives, Elements
  <2>3. f.fn = g.fn /\ f.type = g.type /\ f.n = g.n /\ f.cur = "document" /\ f.phase = "call"
    BY <2>1 DEF Natives
  <2>4. f.liveFired = g.liveFired
    BY <2>1 DEF Natives
  <2> HIDE DEF f
  <2>5. QED
    BY <2>2, <2>3, <2>4, <1>2 DEF Further, Frames, isMain, f
<1>3. QED
  BY <1>1, <1>2 DEF isMain

\* live handlers have fired, the event is stopped, or its default is prevented.
LEMMA Flagged ==
    ASSUME NEW g \in Frames, isMain(g), NEW v \in BOOLEAN
    PROVE  /\ [g EXCEPT !.liveFired = v] \in Frames
           /\ LET f == [g EXCEPT !.liveFired = v] IN
              f.fn = g.fn /\ f.type = g.type /\ f.n = g.n /\ f.cur = g.cur /\ f.phase = g.phase /\ f.liveFired = v
           /\ [g EXCEPT !.stopped = v] \in Frames /\ Weaker([g EXCEPT !.stopped = v], g)
           /\ [g EXCEPT !.prevented = v] \in Frames /\ Weaker([g EXCEPT !.prevented = v], g)
<1>1. CASE g.fn = "trigger"
  <2>1. g \in Triggers
    BY <1>1, FrameKinds
  <2>2. [g EXCEPT !.liveFired = v] \in Triggers /\ [g EXCEPT !.stopped = v] \in Triggers /\ [g EXCEPT !.prevented = v] \in Triggers
    BY <2>1 DEF Triggers
  <2>3. LET f == [g EXCEPT !.liveFired = v] IN
              f.fn = g.fn /\ f.type = g.type /\ f.n = g.n /\ f.cur = g.cur /\ f.phase = g.phase /\ f.liveFired = v
    BY <2>1 DEF Triggers
  <2>4. Weaker([g EXCEPT !.stopped = v], g) /\ Weaker([g EXCEPT !.prevented = v], g)
    BY <1>1, <2>1 DEF Triggers, Weaker
  <2>5. QED
    BY <2>2, <2>3, <2>4 DEF Frames
<1>2. CASE g.fn = "native"
  <2>1. g \in Natives
    BY <1>2, FrameKinds
  <2>2. [g EXCEPT !.liveFired = v] \in Natives /\ [g EXCEPT !.stopped = v] \in Natives /\ [g EXCEPT !.prevented = v] \in Natives
    BY <2>1 DEF Natives
  <2>3. LET f == [g EXCEPT !.liveFired = v] IN
              f.fn = g.fn /\ f.type = g.type /\ f.n = g.n /\ f.cur = g.cur /\ f.phase = g.phase /\ f.liveFired = v
    BY <2>1 DEF Natives
  <2>4. Weaker([g EXCEPT !.stopped = v], g) /\ Weaker([g EXCEPT !.prevented = v], g)
    BY <1>2, <2>1 DEF Natives, Weaker
  <2>5. QED
    BY <2>2, <2>3, <2>4 DEF Frames
<1>3. QED
  BY <1>1, <1>2 DEF isMain

\* A loop over handlers is done with the first, or with all, or is to stop the event.
LEMMA Shortened ==
    ASSUME NEW g \in Frames, g.fn \in {"handle", "live"}, NEW r, r = <<>> \/ (g.rest # <<>> /\ r = Tail(g.rest))
    PROVE  [g EXCEPT !.rest = r] \in Frames /\ Weaker([g EXCEPT !.rest = r], g)
           /\ [g EXCEPT !.rest = r].rest = r
<1>1. ASSUME NEW S, g.rest \in Seq(S)
      PROVE  r \in Seq(S) /\ Rest(r, g.rest)
  <2>1. CASE r = <<>>
    BY <2>1 DEF Rest, Distinct, Single
  <2>2. CASE g.rest # <<>> /\ r = Tail(g.rest)
    <3>1. /\ r \in Seq(S) /\ DOMAIN r = 1 .. Len(g.rest) - 1 /\ DOMAIN g.rest = 1 .. Len(g.rest) /\ Len(g.rest) \in Nat
          /\ \A i \in 1 .. Len(g.rest) - 1 : r[i] = g.rest[i + 1]
      BY <1>1, <2>2
    <3>2. \A i \in DOMAIN r : i + 1 \in DOMAIN g.rest /\ r[i] = g.rest[i + 1] /\ i \in Nat
      BY <3>1
    <3>3. \A i, j \in DOMAIN r : i + 1 = j + 1 => i = j
      BY <3>2
    <3>4. Distinct(g.rest) => Distinct(r)
      BY <3>2, <3>3 DEF Distinct
    <3>5. Single(g.rest) => Single(r)
      BY <3>2, <3>3 DEF Single
    <3>6. QED
      BY <3>1, <3>2, <3>4, <3>5 DEF Rest
  <2>3. QED
    BY <2>1, <2>2
<1>2. CASE g.fn = "handle"
  <2>1. g \in Handles
    BY <1>2, FrameKinds
  <2>2. g.rest \in Seq(Entry)
    BY <2>1 DEF Handles
  <2>3. r \in Seq(Entry) /\ Rest(r, g.rest)
    BY <1>1, <2>2
  <2>4. [g EXCEPT !.rest = r] \in Handles
    BY <2>1, <2>3 DEF Handles
  <2>5. QED
    BY <1>2, <2>1, <2>3, <2>4 DEF Frames, Weaker, isMain, Handles
<1>3. CASE g.fn = "live"
  <2>1. g \in Lives
    BY <1>3, FrameKinds
  <2>2. g.rest \in Seq(LiveEntry)
    BY <2>1 DEF Lives
  <2>3. r \in Seq(LiveEntry) /\ Rest(r, g.rest)
    BY <1>1, <2>2
  <2>4. [g EXCEPT !.rest = r] \in Lives
    BY <2>1, <2>3 DEF Lives
  <2>5. QED
    BY <1>3, <2>1, <2>3, <2>4 DEF Frames, Weaker, isMain, Lives
<1>4. QED
  BY <1>2, <1>3

LEMMA Stopping ==
    ASSUME NEW g \in Frames, g.fn = "live", NEW v \in BOOLEAN
    PROVE  [g EXCEPT !.stop = v] \in Frames /\ Weaker([g EXCEPT !.stop = v], g)
<1>1. g \in Lives
  BY FrameKinds
<1>2. [g EXCEPT !.stop = v] \in Lives
  BY <1>1 DEF Lives
<1>3. QED
  BY <1>1, <1>2, RestSelf DEF Frames, Weaker, isMain, Lives

LEMMA Popping ==
    ASSUME NEW k \in Seq(Frames), k # <<>>
    PROVE  Falls(k, Tail(k), 1) /\ Tail(k) \in Seq(Frames) /\ 1 \in DOMAIN k
<1>1. /\ Tail(k) \in Seq(Frames) /\ DOMAIN Tail(k) = 1 .. Len(k) - 1 /\ DOMAIN k = 1 .. Len(k) /\ Len(k) \in Nat \ {0}
      /\ \A i \in 1 .. Len(k) - 1 : Tail(k)[i] = k[i + 1]
  OBVIOUS
<1>2. ASSUME NEW i \in DOMAIN Tail(k) PROVE i + 1 \in DOMAIN k /\ Weaker(Tail(k)[i], k[i + 1])
  <2>1. i + 1 \in DOMAIN k /\ Tail(k)[i] = k[i + 1]
    BY <1>1
  <2>2. QED
    BY <2>1, RestSelf DEF Weaker
<1>3. \A i \in DOMAIN k : i > 1 => i - 1 \in DOMAIN Tail(k)
  BY <1>1
<1>4. QED
  BY <1>1, <1>2, <1>3 DEF Falls

LEMMA Replacing ==
    ASSUME NEW k \in Seq(Frames), NEW i \in DOMAIN k, NEW f \in Frames
    PROVE  /\ [k EXCEPT ![i] = f] \in Seq(Frames) /\ DOMAIN [k EXCEPT ![i] = f] = DOMAIN k
           /\ [k EXCEPT ![i] = f][i] = f
           /\ \A j \in DOMAIN k : j # i => [k EXCEPT ![i] = f][j] = k[j]
           /\ Weaker(f, k[i]) => Falls(k, [k EXCEPT ![i] = f], 0)
<1> DEFINE l == [k EXCEPT ![i] = f]
<1>1. l \in Seq(Frames) /\ DOMAIN l = DOMAIN k /\ l[i] = f /\ \A j \in DOMAIN k : j # i => l[j] = k[j]
  OBVIOUS
<1> HIDE DEF l
<1>2. ASSUME Weaker(f, k[i]), NEW j \in DOMAIN l
      PROVE  j + 0 \in DOMAIN k /\ Weaker(l[j], k[j + 0])
  <2>1. j + 0 = j /\ j \in DOMAIN k
    BY <1>1, IndexPositive
  <2>2. Weaker(k[j], k[j])
    BY RestSelf DEF Weaker
  <2>3. QED
    BY <1>1, <1>2, <2>1, <2>2
<1>3. \A j \in DOMAIN k : j > 0 => j - 0 \in DOMAIN l
  <2>1. \A j \in DOMAIN k : j - 0 = j
    BY IndexPositive
  <2>2. QED
    BY <1>1, <2>1
<1>4. Weaker(f, k[i]) => Falls(k, l, 0)
  BY <1>1, <1>2, <1>3 DEF Falls
<1>5. QED
  BY <1>1, <1>4 DEF l

LEMMA WeakerWeaker ==
    ASSUME NEW f, NEW g, NEW h, Weaker(f, g), Weaker(g, h)
    PROVE  Weaker(f, h)
BY RestRest DEF Weaker, isMain

LEMMA FallsFalls ==
    ASSUME NEW k, NEW l, NEW m, NEW c, NEW d, Falls(k, l, c), Falls(l, m, d)
    PROVE  Falls(k, m, c + d)
<1>1. c \in Nat /\ d \in Nat /\ c + d \in Nat
  BY DEF Falls
<1>2. ASSUME NEW i \in DOMAIN m PROVE i + (c + d) \in DOMAIN k /\ Weaker(m[i], k[i + (c + d)])
  <2>1. i \in Nat
    BY IndexPositive DEF Falls
  <2>2. i + d \in DOMAIN l /\ Weaker(m[i], l[i + d])
    BY DEF Falls
  <2>3. (i + d) + c \in DOMAIN k /\ Weaker(l[i + d], k[(i + d) + c])
    BY <2>2 DEF Falls
  <2>4. (i + d) + c = i + (c + d)
    BY <1>1, <2>1
  <2>5. QED
    BY <2>2, <2>3, <2>4, WeakerWeaker
<1>3. ASSUME NEW i \in DOMAIN k, i > c + d PROVE i - (c + d) \in DOMAIN m
  <2>1. i \in Nat
    BY IndexPositive DEF Falls
  <2>2. i > c /\ i - c > d /\ (i - c) - d = i - (c + d)
    BY <1>1, <1>3, <2>1
  <2>3. i - c \in DOMAIN l
    BY <2>2 DEF Falls
  <2>4. QED
    BY <2>2, <2>3 DEF Falls
<1>4. QED
  BY <1>1, <1>2, <1>3 DEF Falls

LEMMA Calling ==
    ASSUME NEW k \in Seq(Frames), NEW f \in Frames
    PROVE  On(k, <<f>> \o k, f) /\ <<f>> \o k \in Seq(Frames)
<1> DEFINE l == <<f>> \o k
<1>1. /\ l \in Seq(Frames) /\ DOMAIN l = 1 .. Len(k) + 1 /\ DOMAIN k = 1 .. Len(k) /\ Len(k) \in Nat
      /\ l[1] = f /\ \A i \in 1 .. Len(k) : l[i + 1] = k[i]
  OBVIOUS
<1> HIDE DEF l
<1>2. ASSUME NEW i \in DOMAIN l, i # 1 PROVE i - 1 \in DOMAIN k /\ l[i] = k[i - 1]
  <2>1. i - 1 \in 1 .. Len(k) /\ (i - 1) + 1 = i
    BY <1>1, <1>2
  <2>2. QED
    BY <1>1, <2>1
<1>3. \A i \in DOMAIN k : i + 1 \in DOMAIN l /\ l[i + 1] = k[i]
  BY <1>1
<1>4. 1 \in DOMAIN l
  BY <1>1
<1>5. QED
  BY <1>1, <1>2, <1>3, <1>4 DEF On, l

LEMMA Unwinding ==
    ASSUME NEW k \in Seq(Frames)
    PROVE  Unwind(k) \in Seq(Frames) /\ \E d : Falls(k, Unwind(k), d)
<1>1. CASE \A i \in DOMAIN k : k[i].fn # "native"
  <2>1. Unwind(k) = <<>>
    <3>1. {i \in DOMAIN k : k[i].fn = "native"} = {}
      BY <1>1
    <3>2. QED
      BY <3>1 DEF Unwind
  <2>2. Falls(k, <<>>, Len(k))
    BY DEF Falls
  <2>3. QED
    BY <2>1, <2>2
<1>2. CASE \E i \in DOMAIN k : k[i].fn = "native"
  <2> DEFINE caught == {i \in DOMAIN k : k[i].fn = "native"}
             n == CHOOSE i \in caught : \A j \in caught : i <= j
  <2>1. caught # {} /\ caught \subseteq Nat
    BY <1>2, IndexPositive
  <2>2. \E i \in caught : \A j \in caught : i <= j
    <3> HIDE DEF caught
    <3>1. QED
      BY <2>1, LeastNumber
  <2>3. n \in caught
    <3> HIDE DEF caught
    <3>1. QED
      BY <2>2
  <2>4. Unwind(k) = SubSeq(k, n, Len(k))
    BY <2>1 DEF Unwind
  <2>5. n \in DOMAIN k
    BY <2>3
  <2> HIDE DEF n, caught
  <2>6. From(Unwind(k), k, n)
    BY <2>4, <2>5, SubSeqFrom
  <2>7. Unwind(k) \in Seq(Frames) /\ n \in Nat \ {0}
    BY <2>4, <2>5, IndexPositive
  <2>8. ASSUME NEW i \in DOMAIN Unwind(k)
        PROVE  i + (n - 1) \in DOMAIN k /\ Weaker(Unwind(k)[i], k[i + (n - 1)])
    <3>1. i \in Nat /\ n + i - 1 \in DOMAIN k /\ Unwind(k)[i] = k[n + i - 1]
      BY <2>6 DEF From
    <3>2. n + i - 1 = i + (n - 1)
      BY <2>7, <3>1
    <3>3. QED
      BY <3>1, <3>2, RestSelf DEF Weaker
  <2>9. ASSUME NEW i \in DOMAIN k, i > n - 1 PROVE i - (n - 1) \in DOMAIN Unwind(k)
    <3>1. i \in Nat
      BY IndexPositive
    <3>2. i >= n /\ i - n + 1 = i - (n - 1)
      BY <2>7, <2>9, <3>1
    <3>3. QED
      BY <2>6, <3>2 DEF From
  <2>10. n - 1 \in Nat
    BY <2>7
  <2>11. Falls(k, Unwind(k), n - 1)
    BY <2>7, <2>8, <2>9, <2>10 DEF Falls
  <2>12. QED
    BY <2>7, <2>11
<1>3. QED
  BY <1>1, <1>2

-----------------------------------------------------------------------------
(***************************************************************************)
(* The invariant and the steps.                                            *)
(***************************************************************************)
\* No handler id of an element is bound or still to be run.
GoneFrom(k, id) ==
    \A i \in DOMAIN k : k[i].fn = "handle" => \A j \in DOMAIN k[i].rest : k[i].rest[j].id # id
Gone(s, id) ==
    /\ \A e \in Elements, t \in AllTypes : \A j \in DOMAIN s.handlers[e][t] : s.handlers[e][t][j].id # id
    /\ GoneFrom(s.stack, id)

Stands(s, w, c) == s \in Pages /\ Placed(s, w, c) /\ Filed(s.stack, w, c) /\ Chain(s.stack)

\* f holds a snapshot.
Brings(s, f) ==
    /\ f.fn = "handle" => /\ f.elem \in Elements /\ f.type \in AllTypes
                          /\ f.rest = s.handlers[f.elem][f.type]
    /\ f.fn = "live" => f.rest = OfType(s.live, f.type)

Steps(s, t) ==
    /\ t \in Pages /\ Same(s, t, {"stack", "triggered"})
    /\ \/ \E d : Falls(s.stack, t.stack, d)
       \/ \E f : Retops(s.stack, t.stack, f)
       \/ Fires(s.stack, t.stack)
       \/ \E f : On(s.stack, t.stack, f) /\ Brings(s, f) /\ Link(t.stack, 1)

LEMMA DueAlive ==
    ASSUME NEW q \in Seq(LiveEntry), NEW t, NEW w, NEW c, Alive(q, w, c), Single(q)
    PROVE  OfType(q, t) \in Seq(LiveEntry) /\ Alive(OfType(q, t), w, c) /\ Distinct(OfType(q, t))
<1> DEFINE K == {i \in DOMAIN q : q[i].type = t}
           r == Picked(q, K)
<1>1. OfType(q, t) = r
  BY DEF OfType
<1>2. r \in Seq(LiveEntry) /\ Rest(r, q) /\ \A j \in DOMAIN r : \E l \in DOMAIN q \cap K : r[j] = q[l]
  <2> HIDE DEF K
  <2>1. QED
    BY PickedRest
<1>3. \A j \in DOMAIN r : r[j] \in LiveEntry /\ r[j].type = t
  BY <1>2
<1> HIDE DEF r
<1>4. \A j, l \in DOMAIN r : r[j].id = r[l].id => r[j] = r[l]
  BY <1>3 DEF LiveEntry
<1>5. Single(r)
  BY <1>2 DEF Rest
<1>6. Distinct(r)
  BY <1>4, <1>5 DEF Single, Distinct
<1>7. Alive(r, w, c)
  BY <1>2, RestAlive
<1>8. QED
  BY <1>1, <1>2, <1>6, <1>7

LEMMA StepStands ==
    ASSUME NEW s, NEW t, NEW w, NEW c, Stands(s, w, c), Steps(s, t)
    PROVE  Stands(t, w, c) /\ \A id : Gone(s, id) => Gone(t, id)
<1>1. t \in Pages /\ t.handlers = s.handlers /\ t.live = s.live
  BY DEF Steps, Same, Fields
<1>2. Placed(t, w, c)
  BY <1>1 DEF Stands, Placed
<1>3. SUFFICES Filed(t.stack, w, c) /\ Chain(t.stack) /\ \A id : Gone(s, id) => GoneFrom(t.stack, id)
  BY <1>1, <1>2 DEF Stands, Gone
<1>4. Filed(s.stack, w, c) /\ Chain(s.stack)
  BY DEF Stands
<1>5. ASSUME NEW d, Falls(s.stack, t.stack, d)
      PROVE  Filed(t.stack, w, c) /\ Chain(t.stack) /\ \A id : Gone(s, id) => GoneFrom(t.stack, id)
  <2>1. Filed(t.stack, w, c) /\ Chain(t.stack)
    BY <1>4, <1>5, FallsFiled, FallsChain
  <2>2. ASSUME NEW id, Gone(s, id), NEW i \in DOMAIN t.stack, t.stack[i].fn = "handle", NEW j \in DOMAIN t.stack[i].rest
        PROVE  t.stack[i].rest[j].id # id
    <3>1. i + d \in DOMAIN s.stack /\ Weaker(t.stack[i], s.stack[i + d])
      BY <1>5 DEF Falls
    <3>2. s.stack[i + d].fn = "handle" /\ Rest(t.stack[i].rest, s.stack[i + d].rest)
      BY <2>2, <3>1 DEF Weaker
    <3>3. PICK l \in DOMAIN s.stack[i + d].rest : t.stack[i].rest[j] = s.stack[i + d].rest[l]
      BY <3>2 DEF Rest
    <3>4. QED
      BY <2>2, <3>1, <3>2, <3>3 DEF Gone, GoneFrom
  <2>3. QED
    BY <2>1, <2>2 DEF GoneFrom
<1>6. ASSUME NEW f, Retops(s.stack, t.stack, f)
      PROVE  Filed(t.stack, w, c) /\ Chain(t.stack) /\ \A id : Gone(s, id) => GoneFrom(t.stack, id)
  <2>1. Filed(t.stack, w, c) /\ Chain(t.stack)
    BY <1>4, <1>6, RetopsStands
  <2>2. \A i \in DOMAIN t.stack : t.stack[i].fn = "handle" => i \in DOMAIN s.stack /\ t.stack[i] = s.stack[i]
    BY <1>6 DEF Retops, isMain
  <2>3. QED
    BY <2>1, <2>2 DEF Gone, GoneFrom
<1>7. CASE Fires(s.stack, t.stack)
  <2>1. Filed(t.stack, w, c) /\ Chain(t.stack)
    BY <1>4, <1>7, FiresStands
  <2>2. \A i \in DOMAIN t.stack : t.stack[i].fn = "handle" => i \in DOMAIN s.stack /\ t.stack[i] = s.stack[i]
    BY <1>7 DEF Fires, isMain
  <2>3. QED
    BY <2>1, <2>2 DEF Gone, GoneFrom
<1>8. ASSUME NEW f, On(s.stack, t.stack, f), Brings(s, f), Link(t.stack, 1)
      PROVE  Filed(t.stack, w, c) /\ Chain(t.stack) /\ \A id : Gone(s, id) => GoneFrom(t.stack, id)
  <2>1. Fits(f, w, c)
    <3>1. f.fn = "handle" => Listed(f.rest, f.elem, f.type, w, c)
      BY <1>8 DEF Brings, Stands, Placed
    <3>2. f.fn = "live" => Alive(f.rest, w, c) /\ Distinct(f.rest)
      <4>1. s.live \in Seq(LiveEntry)
        BY DEF Stands, Pages
      <4>2. Alive(s.live, w, c) /\ Single(s.live)
        BY DEF Stands, Placed
      <4>3. QED
        BY <1>8, <4>1, <4>2, DueAlive DEF Brings
    <3>3. QED
      BY <3>1, <3>2 DEF Fits
  <2>2. Filed(t.stack, w, c) /\ Chain(t.stack)
    BY <1>4, <1>8, <2>1, OnStands
  <2>3. ASSUME NEW id, Gone(s, id), NEW i \in DOMAIN t.stack, t.stack[i].fn = "handle"
        PROVE  \A j \in DOMAIN t.stack[i].rest : t.stack[i].rest[j].id # id
    <3>1. CASE i = 1
      BY <1>8, <2>3, <3>1 DEF On, Brings, Gone
    <3>2. CASE i # 1
      <4>1. i - 1 \in DOMAIN s.stack /\ t.stack[i] = s.stack[i - 1]
        BY <1>8, <3>2 DEF On
      <4>2. QED
        BY <2>3, <4>1 DEF Gone, GoneFrom
    <3>3. QED
      BY <3>1, <3>2
  <2>4. QED
    BY <2>2, <2>3 DEF GoneFrom
<1>9. QED
  BY <1>5, <1>6, <1>7, <1>8 DEF Steps

\* t does not have more handlers than s, and no frames that do not fit.
Keeps(s, t) ==
    /\ \A w, c : Stands(s, w, c) => Stands(t, w, c)
    /\ \A id : Gone(s, id) => Gone(t, id)

LEMMA StepKeeps == ASSUME NEW s, NEW t, Steps(s, t) PROVE Keeps(s, t)
<1>1. \A w, c : Stands(s, w, c) => Stands(t, w, c)
  BY StepStands
<1>2. ASSUME NEW id, Gone(s, id) PROVE Gone(t, id)
  <2>1. t.handlers = s.handlers
    BY DEF Steps, Same, Fields
  <2>2. SUFFICES GoneFrom(t.stack, id)
    BY <1>2, <2>1 DEF Gone
  <2>3. ASSUME NEW d, Falls(s.stack, t.stack, d), NEW i \in DOMAIN t.stack, t.stack[i].fn = "handle", NEW j \in DOMAIN t.stack[i].rest
        PROVE  t.stack[i].rest[j].id # id
    <3>1. i + d \in DOMAIN s.stack /\ Weaker(t.stack[i], s.stack[i + d])
      BY <2>3 DEF Falls
    <3>2. s.stack[i + d].fn = "handle" /\ Rest(t.stack[i].rest, s.stack[i + d].rest)
      BY <2>3, <3>1 DEF Weaker
    <3>3. PICK l \in DOMAIN s.stack[i + d].rest : t.stack[i].rest[j] = s.stack[i + d].rest[l]
      BY <2>3, <3>2 DEF Rest
    <3>4. QED
      BY <1>2, <3>1, <3>2, <3>3 DEF Gone, GoneFrom
  <2>4. ASSUME Fires(s.stack, t.stack) \/ \E f : Retops(s.stack, t.stack, f)
        PROVE  GoneFrom(t.stack, id)
    <3>1. \A i \in DOMAIN t.stack : t.stack[i].fn = "handle" => i \in DOMAIN s.stack /\ t.stack[i] = s.stack[i]
      BY <2>4 DEF Fires, Retops, isMain
    <3>2. QED
      BY <1>2, <3>1 DEF Gone, GoneFrom
  <2>5. ASSUME NEW f, On(s.stack, t.stack, f), Brings(s, f), NEW i \in DOMAIN t.stack, t.stack[i].fn = "handle"
        PROVE  \A j \in DOMAIN t.stack[i].rest : t.stack[i].rest[j].id # id
    <3>1. CASE i = 1
      BY <1>2, <2>5, <3>1 DEF On, Brings, Gone
    <3>2. CASE i # 1
      <4>1. i - 1 \in DOMAIN s.stack /\ t.stack[i] = s.stack[i - 1]
        BY <2>5, <3>2 DEF On
      <4>2. QED
        BY <1>2, <2>5, <4>1 DEF Gone, GoneFrom
    <3>3. QED
      BY <3>1, <3>2
  <2>6. QED
    BY <2>3, <2>4, <2>5 DEF Steps, GoneFrom
<1>3. QED
  BY <1>1, <1>2 DEF Keeps

LEMMA KeepsKeeps == ASSUME NEW s, NEW t, NEW u, Keeps(s, t), Keeps(t, u) PROVE Keeps(s, u)
BY DEF Keeps

LEMMA SameTwice ==
    ASSUME NEW s, NEW t, NEW u, NEW X, Same(s, t, X), Same(t, u, X)
    PROVE  Same(s, u, X)
BY DEF Same

LEMMA Pushing ==
    ASSUME NEW s \in Pages, NEW f \in Frames
    PROVE  /\ Push(s, f) \in Pages /\ Same(s, Push(s, f), {"stack", "triggered"})
           /\ On(s.stack, Push(s, f).stack, f) /\ Push(s, f).triggered = s.triggered
<1> DEFINE k == <<f>> \o s.stack
           t == Push(s, f)
<1>1. s.stack \in Seq(Frames) /\ s.triggered \in AllTypes \union {"none"}
  BY DEF Pages
<1>2. On(s.stack, k, f) /\ k \in Seq(Frames)
  BY <1>1, Calling
<1>3. t = With(s, k, s.triggered)
  BY DEF Push, With, Pages
<1> HIDE DEF k, t
<1>4. t \in Pages /\ Same(s, t, {"stack", "triggered"}) /\ t.stack = k /\ t.triggered = s.triggered
  BY <1>1, <1>2, <1>3, WithStack
<1>5. QED
  BY <1>2, <1>4 DEF t

\* The event on top of s gets as far as f, and events of the type U are dropped.
LEMMA GettingOn ==
    ASSUME NEW s \in Pages, 1 \in DOMAIN s.stack, NEW f, Further(f, s.stack[1]),
           NEW U \in AllTypes \union {"none"}, NEW t, t = With(s, [s.stack EXCEPT ![1] = f], U)
    PROVE  /\ t \in Pages /\ Same(s, t, {"stack", "triggered"}) /\ t.triggered = U /\ t.stack[1] = f
           /\ Retops(s.stack, t.stack, f) /\ Steps(s, t)
<1>1. s.stack \in Seq(Frames) /\ f \in Frames /\ isMain(f)
  BY DEF Pages, Further
<1> DEFINE k == [s.stack EXCEPT ![1] = f]
<1>2. k \in Seq(Frames) /\ DOMAIN k = DOMAIN s.stack /\ k[1] = f /\ \A j \in DOMAIN s.stack : j # 1 => k[j] = s.stack[j]
  BY <1>1, Replacing
<1>a. t = With(s, k, U)
  OBVIOUS
<1> HIDE DEF k
<1>3. t \in Pages /\ Same(s, t, {"stack", "triggered"}) /\ t.triggered = U /\ t.stack = k
  BY <1>2, <1>a, WithStack
<1>4. Retops(s.stack, t.stack, f)
  BY <1>1, <1>2, <1>3 DEF Retops, Further
<1>5. QED
  BY <1>2, <1>3, <1>4 DEF Steps

LEMMA QuietFurther ==
    ASSUME NEW f, NEW g, Further(f, g), NEW R, NEW w, Quiet(g, R, w), f.phase # "capture",
           (f.cur = g.cur /\ (early(f) => early(g))) \/ (g.cur = "child" /\ f.cur = "document")
    PROVE  Quiet(f, R, w)
BY DEF Further, Quiet, early

\* eventHandle, for an event that has just got to e.
LEMMA EventHandled ==
    ASSUME NEW s \in Pages, 1 \in DOMAIN s.stack, isMain(s.stack[1]), s.stack[1].phase = "bubble",
           NEW e \in Elements, s.stack[1].cur = e, NEW t, t = eventHandle(s, e)
    PROVE  /\ t \in Pages /\ Same(s, t, {"stack", "triggered"}) /\ Keeps(s, t)
           /\ \A R, w : \A E \in Nat :
                 Chain(s.stack) /\ Exact(s.stack, s.triggered, R, E, w) /\ ~RanTo(R, s.stack[1].n, e)
                   => Exact(t.stack, t.triggered, R, E, w)
<1> DEFINE y == s.stack[1].type
           f == [fn |-> "handle", elem |-> e, type |-> y, rest |-> s.handlers[e][y]]
<1>1. Head(s.stack) = s.stack[1]
  BY DEF Pages
<1>2. CASE t = s
  BY <1>2 DEF Keeps, Same
<1>3. CASE t # s
  <2>1. s.triggered # y /\ t = Push(s, f)
    BY <1>1, <1>3 DEF eventHandle
  <2>2. s.stack[1] \in Frames /\ y \in AllTypes
    <3>1. s.stack[1] \in Frames
      BY DEF Pages
    <3>2. QED
      BY <3>1, FrameKinds DEF isMain, Triggers, Natives
  <2>3. s.handlers[e][y] \in Seq(Entry)
    BY <2>2 DEF Pages
  <2>4. f \in Frames
    BY <2>2, <2>3 DEF Handles, Frames
  <2>5. f.fn = "handle" /\ f.elem = e /\ f.type = y /\ f.rest = s.handlers[e][y]
    OBVIOUS
  <2> HIDE DEF f
  <2>6. /\ t \in Pages /\ Same(s, t, {"stack", "triggered"}) /\ t.triggered = s.triggered
        /\ On(s.stack, t.stack, f)
    BY <2>1, <2>4, Pushing
  <2>7. t.stack[1] = f /\ 1 \in DOMAIN t.stack /\ 2 \in DOMAIN t.stack /\ t.stack[2] = s.stack[1] /\ 1 + 1 = 2
    BY <2>6 DEF On
  <2>8. Link(t.stack, 1)
    BY <2>5, <2>7 DEF Link
  <2>9. Brings(s, f)
    BY <2>2, <2>5 DEF Brings
  <2>10. Keeps(s, t)
    BY <2>6, <2>8, <2>9, StepKeeps DEF Steps
  <2>11. ASSUME NEW R, NEW w, NEW E \in Nat, Chain(s.stack), Exact(s.stack, s.triggered, R, E, w),
                ~RanTo(R, s.stack[1].n, e)
         PROVE  Exact(t.stack, t.triggered, R, E, w)
    <3>1. NoNative(s.stack)
      BY <2>1, <2>11 DEF NoNative, Exact, Calls, CallsNative
    <3>2. ~CallsNative(f)
      BY <2>5 DEF CallsNative
    <3>3. Calls(t.stack, t.triggered)
      BY <2>6, <3>1, <3>2, NothingCalled
    <3>4. Due(t.stack, R)
      BY <2>5, <2>7, <2>11 DEF Due, RanTo
    <3>5. ~Main(t.stack, 1)
      BY <2>5, <2>7 DEF Main, isMain
    <3>6. 2 \in DOMAIN s.stack => ~CallsNative(s.stack[2])
      BY <3>1 DEF NoNative
    <3>7. E <= E
      OBVIOUS
    <3>8. QED
      BY <2>6, <2>11, <3>3, <3>4, <3>5, <3>6, <3>7, OnExact
  <2>12. QED
    BY <2>6, <2>10, <2>11
<1>4. QED
  BY <1>2, <1>3

-----------------------------------------------------------------------------
\* s is further on with the event on its stack.
GotOn(s, t, f, U) ==
    /\ t \in Pages /\ Same(s, t, {"stack", "triggered"}) /\ t.triggered = U
    /\ 1 \in DOMAIN t.stack /\ t.stack[1] = f
    /\ Retops(s.stack, t.stack, f) /\ Keeps(s, t) /\ Further(f, s.stack[1])

LEMMA GotOnBy ==
    ASSUME NEW s \in Pages, 1 \in DOMAIN s.stack, NEW f, Further(f, s.stack[1]),
           NEW U \in AllTypes \union {"none"}, NEW t, t = With(s, [s.stack EXCEPT ![1] = f], U)
    PROVE  GotOn(s, t, f, U)
<1>1. /\ t \in Pages /\ Same(s, t, {"stack", "triggered"}) /\ t.triggered = U /\ t.stack[1] = f
      /\ Retops(s.stack, t.stack, f) /\ Steps(s, t)
  BY GettingOn
<1>2. Keeps(s, t)
  BY <1>1, StepKeeps
<1>3. 1 \in DOMAIN t.stack
  BY <1>1 DEF Retops
<1>4. QED
  BY <1>1, <1>2, <1>3 DEF GotOn

LEMMA PhasedOn ==
    ASSUME page \in Pages, 1 \in DOMAIN page.stack, isMain(page.stack[1]),
           NEW ph, ph \in {"call", "bubble"} \/ (ph = "native" /\ page.stack[1].fn = "trigger")
    PROVE  /\ \E f : GotOn(page, Phase(ph), f, page.triggered) /\ f.phase = ph /\ f.cur = page.stack[1].cur
           /\ \A U \in AllTypes : \E f : GotOn(page, [Phase(ph) EXCEPT !.triggered = U], f, U)
                                         /\ f.phase = ph /\ f.cur = page.stack[1].cur
<1> DEFINE g == page.stack[1]
           f == [g EXCEPT !.phase = ph]
<1>1. g \in Frames /\ page.triggered \in AllTypes \union {"none"}
  BY DEF Pages
<1>2. Further(f, g) /\ f.phase = ph /\ f.cur = g.cur
  BY <1>1, Phased
<1>3. Phase(ph) = With(page, [page.stack EXCEPT ![1] = f], page.triggered)
  BY DEF Phase, With, Pages
<1>4. ASSUME NEW U \in AllTypes
      PROVE  [Phase(ph) EXCEPT !.triggered = U] = With(page, [page.stack EXCEPT ![1] = f], U)
  BY DEF Phase, With, Pages
<1> HIDE DEF f
<1>5. GotOn(page, Phase(ph), f, page.triggered)
  BY <1>1, <1>2, <1>3, GotOnBy
<1>6. ASSUME NEW U \in AllTypes PROVE GotOn(page, [Phase(ph) EXCEPT !.triggered = U], f, U)
  BY <1>2, <1>4, GotOnBy
<1>7. QED
  BY <1>2, <1>5, <1>6

LEMMA ParentOn ==
    ASSUME page \in Pages, 1 \in DOMAIN page.stack, isMain(page.stack[1])
    PROVE  \E f : GotOn(page, AtParent, f, page.triggered) /\ f.phase = "call" /\ f.cur = "document"
<1> DEFINE g == page.stack[1]
           f == [g EXCEPT !.phase = "call", !.cur = "document"]
<1>1. g \in Frames /\ page.triggered \in AllTypes \union {"none"}
  BY DEF Pages
<1>2. Further(f, g) /\ f.phase = "call" /\ f.cur = "document"
  BY <1>1, ToDocument
<1>3. AtParent = With(page, [page.stack EXCEPT ![1] = f], page.triggered)
  BY DEF AtParent, With, Pages
<1> HIDE DEF f
<1>4. QED
  BY <1>1, <1>2, <1>3, GotOnBy

LEMMA GotOnExact ==
    ASSUME NEW s, NEW t, NEW f, NEW U, GotOn(s, t, f, U), Chain(s.stack),
           NEW R, NEW E, NEW w, Exact(s.stack, s.triggered, R, E, w), f.phase # "capture",
           \/ f.cur = s.stack[1].cur /\ (early(f) => early(s.stack[1]))
           \/ s.stack[1].cur = "child" /\ f.cur = "document",
           (U = s.triggered /\ ~CallsNative(f)) \/ (U = f.type /\ NoNative(s.stack))
    PROVE  Exact(t.stack, U, R, E, w) /\ Chain(t.stack)
<1>1. Retops(s.stack, t.stack, f) /\ Further(f, s.stack[1])
  BY DEF GotOn
<1>2. 1 \in DOMAIN s.stack
  BY <1>1 DEF Retops
<1>3. ASSUME Main(s.stack, 1) PROVE Quiet(f, R, w)
  <2>1. Quiet(s.stack[1], R, w)
    BY <1>2, <1>3 DEF Exact, Still
  <2>2. QED
    BY <1>1, <2>1, QuietFurther
<1>4. Exact(t.stack, U, R, E, w)
  BY <1>1, <1>3, RetopsExact
<1>5. ASSUME NEW i \in DOMAIN t.stack PROVE Link(t.stack, i)
  <2>1. CASE i = 1
    BY <1>1, <2>1 DEF Link, Retops, isMain
  <2>2. CASE i # 1
    <3>1. i \in Nat \ {0} /\ i + 1 # 1 /\ i + 2 # 1
      BY <1>1, IndexPositive DEF Retops
    <3>2. Link(s.stack, i) /\ t.stack[i] = s.stack[i] /\ i \in DOMAIN s.stack
      BY <1>1, <2>2 DEF Retops, Chain
    <3>3. /\ i + 1 \in DOMAIN s.stack => t.stack[i + 1] = s.stack[i + 1]
          /\ i + 2 \in DOMAIN s.stack => t.stack[i + 2] = s.stack[i + 2]
          /\ DOMAIN t.stack = DOMAIN s.stack
      BY <1>1, <3>1 DEF Retops
    <3>4. QED
      BY <3>2, <3>3 DEF Link
  <2>3. QED
    BY <2>1, <2>2
<1>6. QED
  BY <1>4, <1>5 DEF Chain

LEMMA Leaving ==
    ASSUME page \in Pages, page.stack # <<>>, NEW U \in AllTypes \union {"none"},
           NEW t, (t = Popped /\ U = page.triggered) \/ t = [Popped EXCEPT !.triggered = U]
    PROVE  /\ t \in Pages /\ t.stack = Tail(page.stack) /\ t.triggered = U
           /\ Falls(page.stack, t.stack, 1) /\ Steps(page, t)
<1>1. page.stack \in Seq(Frames)
  BY DEF Pages
<1> DEFINE k == Tail(page.stack)
<1>2. Falls(page.stack, k, 1) /\ k \in Seq(Frames)
  BY <1>1, Popping
<1>3. t = With(page, k, U)
  BY DEF Popped, With, Pages
<1> HIDE DEF k
<1>4. t \in Pages /\ Same(page, t, {"stack", "triggered"}) /\ t.stack = k /\ t.triggered = U
  BY <1>2, <1>3, WithStack
<1>5. QED
  BY <1>2, <1>4 DEF Steps, k

-----------------------------------------------------------------------------
\* While native events are not dropped by a second trigger, no handler was run twice
\* for an event, and the handlers to be run were not.
Exactly(s, w) == Exact(s.stack, s.triggered, ran, events, w)

\* Handlers of "one" that were run were not bound by live, and are gone unless a
\* dispatch under way held one.
Onced(w) ==
    /\ ranOnce \subseteq 1 .. calls /\ \A id \in ranOnce : w[id] # LivePlace
    /\ onceAgain => reentered
    /\ ~reentered => \A id \in ranOnce : Gone(page, id)

RunInv(w) ==
    /\ Stands(page, w, calls) /\ calls \in Nat /\ events \in Nat /\ events <= MaxEvents
    /\ Onced(w)
    /\ ~overlapped => /\ ~again /\ Exactly(page, w)
                      /\ ran \subseteq Numbers(events) \X (1 .. calls) \X Elements

\* What an action keeps that runs no handler.
LEMMA Onward ==
    ASSUME NEW w, RunInv(w), Keeps(page, page'),
           UNCHANGED <<calls, events, ran, again, ranOnce, onceAgain, reentered>>,
           overlapped => overlapped',
           ~overlapped' => Exact(page'.stack, page'.triggered, ran, events, w)
    PROVE  RunInv(w)'
<1>1. Stands(page', w, calls) /\ \A id : Gone(page, id) => Gone(page', id)
  BY DEF RunInv, Keeps
<1>2. Onced(w)'
  BY <1>1 DEF RunInv, Onced
<1>3. Exactly(page, w)' <=> Exact(page'.stack, page'.triggered, ran, events, w)
  BY DEF Exactly
<1>4. QED
  BY <1>1, <1>2, <1>3 DEF RunInv

LEMMA TopOf ==
    ASSUME NEW fn, At(fn), page \in Pages
    PROVE  /\ page.stack \in Seq(Frames) /\ page.stack # <<>> /\ 1 \in DOMAIN page.stack
           /\ Top = page.stack[1] /\ Top.fn = fn /\ Top \in Frames
BY DEF At, Top, Pages

\* No native method runs while a trigger is on top and has not called its own.
LEMMA NoMethod ==
    ASSUME NEW k, NEW T, Calls(k, T), k[1].fn # "native", ~CallsNative(k[1])
    PROVE  NoNative(k)
BY DEF Calls, NoNative

LEMMA RunTriggerStep ==
    ASSUME NEW w, RunInv(w), triggerStep
    PROVE  RunInv(w)'
<1>1. At("trigger") /\ page \in Pages /\ UNCHANGED <<calls, events, history>>
  BY DEF triggerStep, RunInv, Stands
<1>2. UNCHANGED <<calls, events, ran, again, ranOnce, onceAgain, reentered>> /\ overlapped' = overlapped
  BY <1>1 DEF history
<1> DEFINE k == page.stack
           g == page.stack[1]
<1>3. k \in Seq(Frames) /\ k # <<>> /\ 1 \in DOMAIN k /\ Top = g /\ g.fn = "trigger" /\ g \in Frames
  BY <1>1, TopOf
<1>4. isMain(g) /\ g \in Triggers
  BY <1>3, FrameKinds DEF isMain
<1>5. Chain(k)
  BY DEF RunInv, Stands
<1>6. SUFFICES Keeps(page, page') /\ (~overlapped => Exact(page'.stack, page'.triggered, ran, events, w))
  BY <1>2, Onward
<1>7. ~overlapped => Exact(k, page.triggered, ran, events, w)
  BY DEF RunInv, Exactly
<1>8. ~overlapped /\ ~CallsNative(g) => NoNative(k)
  BY <1>3, <1>7, NoMethod DEF Exact
<1>9. ~overlapped => Main(k, 1)
  <2>1. SUFFICES ASSUME ~overlapped, 2 \in DOMAIN k, CallsNative(k[2]) PROVE FALSE
    BY <1>4 DEF Main
  <2>2. QED
    BY <1>3, <1>7, <2>1 DEF Exact, Calls
<1>10. events \in Nat
  BY DEF RunInv
<1>11. CASE g.phase = "call"
  <2>1. page' = eventHandle(Phase("bubble"), g.cur)
    BY <1>3, <1>11 DEF triggerStep
  <2>2. PICK f : GotOn(page, Phase("bubble"), f, page.triggered) /\ f.phase = "bubble" /\ f.cur = g.cur
    BY <1>1, <1>3, <1>4, PhasedOn
  <2> DEFINE s == Phase("bubble")
  <2>3. /\ s \in Pages /\ 1 \in DOMAIN s.stack /\ isMain(s.stack[1]) /\ s.stack[1].phase = "bubble"
        /\ s.stack[1].cur = g.cur /\ g.cur \in Elements /\ s.stack[1].n = g.n /\ Keeps(page, s)
        /\ s.triggered = page.triggered
    BY <1>4, <2>2 DEF GotOn, Further, Triggers
  <2> HIDE DEF s
  <2>4. Keeps(s, page')
    BY <2>1, <2>3, EventHandled DEF s
  <2>5. ASSUME ~overlapped PROVE Exact(page'.stack, page'.triggered, ran, events, w)
    <3>1. Exact(s.stack, s.triggered, ran, events, w) /\ Chain(s.stack)
      <4>1. early(g)
        BY <1>11 DEF early
      <4>2. ~CallsNative(f)
        BY <2>2 DEF CallsNative
      <4>3. QED
        BY <1>5, <1>7, <2>2, <2>3, <2>5, <4>1, <4>2, GotOnExact DEF s
    <3>2. Quiet(g, ran, w)
      BY <1>3, <1>7, <1>9, <2>5 DEF Exact, Still
    <3>3. ~RanTo(ran, g.n, g.cur)
      BY <1>11, <2>3, <3>2 DEF Quiet, early, Elements
    <3>4. QED
      BY <1>10, <2>1, <2>3, <3>1, <3>3, EventHandled DEF s
  <2>6. QED
    BY <2>3, <2>4, <2>5, KeepsKeeps
<1>12. CASE g.phase = "bubble" /\ g.cur = "child" /\ ~g.stopped
  <2>1. page' = AtParent
    BY <1>3, <1>12 DEF triggerStep
  <2>2. PICK f : GotOn(page, AtParent, f, page.triggered) /\ f.phase = "call" /\ f.cur = "document"
    BY <1>1, <1>3, <1>4, ParentOn
  <2>3. ~CallsNative(f) /\ f.phase # "capture"
    BY <2>2 DEF CallsNative
  <2>4. page'.triggered = page.triggered /\ Keeps(page, page')
    BY <2>1, <2>2 DEF GotOn
  <2>5. ASSUME ~overlapped PROVE Exact(page'.stack, page'.triggered, ran, events, w)
    BY <1>5, <1>7, <1>12, <2>1, <2>2, <2>3, <2>4, <2>5, GotOnExact
  <2>6. QED
    BY <2>4, <2>5
<1>13. CASE g.phase = "bubble" /\ ~(g.cur = "child" /\ ~g.stopped) /\ ~g.prevented /\ HasMethod(g.target, g.type)
  <2> DEFINE s == [Phase("native") EXCEPT !.triggered = g.type]
             h == NativeFrame(g.type, g.n)
  <2>1. page' = Push(s, h)
    BY <1>3, <1>13 DEF triggerStep
  <2>2. g.type \in AllTypes /\ g.n \in Nat
    BY <1>4 DEF Triggers
  <2>3. PICK f : GotOn(page, s, f, g.type) /\ f.phase = "native" /\ f.cur = g.cur
    BY <1>1, <1>3, <1>4, <2>2, PhasedOn
  <2>4. h \in Frames /\ h.fn = "native" /\ h.type = g.type
    BY <2>2 DEF NativeFrame, Natives, Frames, Elements
  <2> HIDE DEF s, h
  <2>5. s \in Pages /\ s.triggered = g.type /\ f.fn = "trigger" /\ f.type = g.type /\ s.stack[1] = f /\ 1 \in DOMAIN s.stack /\ Keeps(page, s)
    BY <1>3, <2>3 DEF GotOn, Further
  <2>6. page' \in Pages /\ Same(s, page', {"stack", "triggered"}) /\ On(s.stack, page'.stack, h) /\ page'.triggered = g.type
    BY <2>1, <2>4, <2>5, Pushing
  <2>7. page'.stack[1] = h
    BY <2>6 DEF On
  <2>8. Keeps(s, page')
    <3>1. Link(page'.stack, 1) /\ Brings(s, h)
      BY <2>4, <2>7 DEF Link, Brings
    <3>2. QED
      BY <2>6, <3>1, StepKeeps DEF Steps
  <2>9. ASSUME ~overlapped PROVE Exact(page'.stack, page'.triggered, ran, events, w)
    <3>1. ~CallsNative(g) /\ CallsNative(f)
      BY <1>13, <2>3, <2>5 DEF CallsNative
    <3>2. Exact(s.stack, g.type, ran, events, w) /\ Chain(s.stack)
      <4>1. ~early(f)
        BY <2>3 DEF early
      <4>2. f.phase # "capture"
        BY <2>3
      <4>3. QED
        BY <1>5, <1>7, <1>8, <2>3, <2>5, <2>9, <3>1, <4>1, <4>2, GotOnExact
    <3>3. Calls(page'.stack, g.type) /\ (2 \in DOMAIN s.stack => ~CallsNative(s.stack[2]))
      BY <2>4, <2>5, <2>6, <3>1, <3>2, MethodCalls DEF Exact
    <3>4. ~Main(page'.stack, 1)
      <4>1. 2 \in DOMAIN page'.stack /\ page'.stack[2] = f
        BY <2>5, <2>6 DEF On
      <4>2. QED
        BY <3>1, <4>1 DEF Main
    <3>5. Due(page'.stack, ran)
      BY <2>4, <2>7 DEF Due
    <3>6. events <= events
      BY <1>10
    <3>7. QED
      BY <1>10, <2>6, <3>2, <3>3, <3>4, <3>5, <3>6, OnExact
  <2>10. QED
    BY <2>5, <2>8, <2>9, KeepsKeeps
<1>14. CASE \/ g.phase = "native"
            \/ g.phase = "bubble" /\ ~(g.cur = "child" /\ ~g.stopped) /\ (g.prevented \/ ~HasMethod(g.target, g.type))
  <2>0. page.triggered \in AllTypes \union {"none"}
    BY <1>1 DEF Pages
  <2>1. \/ page' = Popped /\ g.phase = "bubble"
        \/ page' = [Popped EXCEPT !.triggered = "none"]
    BY <1>3, <1>14 DEF triggerStep
  <2>2. PICK U \in AllTypes \union {"none"} :
           /\ (page' = Popped /\ U = page.triggered /\ g.phase = "bubble") \/ page' = [Popped EXCEPT !.triggered = U]
    BY <2>0, <2>1
  <2>3. page'.stack = Tail(k) /\ page'.triggered = U /\ Falls(k, page'.stack, 1) /\ Steps(page, page')
    BY <1>1, <1>3, <2>2, Leaving
  <2>4. ASSUME ~overlapped PROVE Exact(page'.stack, page'.triggered, ran, events, w)
    <3>1. Exact(page'.stack, page.triggered, ran, events, w)
      BY <1>5, <1>7, <2>3, <2>4, FallsExact
    <3>2. NoNative(page'.stack)
      <4>1. ASSUME NEW i \in DOMAIN page'.stack, CallsNative(page'.stack[i]) PROVE FALSE
        <5>1. i + 1 \in DOMAIN k /\ Weaker(page'.stack[i], k[i + 1]) /\ i \in Nat \ {0}
          BY <2>3, IndexPositive DEF Falls
        <5>2. CallsNative(k[i + 1])
          BY <4>1, <5>1 DEF Weaker, CallsNative, isMain
        <5>3. i + 1 \in {1, 2} /\ (i + 1 = 2 => g.fn = "native")
          BY <1>7, <2>4, <5>1, <5>2 DEF Exact, Calls
        <5>4. QED
          BY <1>3, <5>1, <5>3
      <4>2. QED
        BY <4>1 DEF NoNative
    <3>3. QED
      BY <2>3, <3>1, <3>2, AnyType
  <2>5. QED
    BY <2>3, <2>4, StepKeeps
<1>15. g.phase \in {"call", "bubble", "native"}
  BY <1>4 DEF Triggers
<1>16. QED
  BY <1>11, <1>12, <1>13, <1>14, <1>15

-----------------------------------------------------------------------------
\* Frames go, or are done with handlers.
FallsTo(s, t) == t \in Pages /\ Same(s, t, {"stack"}) /\ \E d : Falls(s.stack, t.stack, d)

LEMMA FallsToFalls ==
    ASSUME NEW s, NEW t, NEW u, FallsTo(s, t), FallsTo(t, u)
    PROVE  FallsTo(s, u)
<1>1. PICK c : Falls(s.stack, t.stack, c)
  BY DEF FallsTo
<1>2. PICK d : Falls(t.stack, u.stack, d)
  BY DEF FallsTo
<1>3. Falls(s.stack, u.stack, c + d)
  BY <1>1, <1>2, FallsFalls
<1>4. QED
  BY <1>3, SameTwice DEF FallsTo

LEMMA FrameFalls ==
    ASSUME NEW s \in Pages, NEW i \in DOMAIN s.stack, NEW f \in Frames, Weaker(f, s.stack[i]),
           NEW t, t = [s EXCEPT !.stack[i] = f]
    PROVE  /\ FallsTo(s, t) /\ t.stack[i] = f /\ DOMAIN t.stack = DOMAIN s.stack
           /\ \A j \in DOMAIN s.stack : j # i => t.stack[j] = s.stack[j]
<1> DEFINE k == [s.stack EXCEPT ![i] = f]
<1>1. s.stack \in Seq(Frames) /\ s.triggered \in AllTypes \union {"none"}
  BY DEF Pages
<1>2. /\ k \in Seq(Frames) /\ DOMAIN k = DOMAIN s.stack /\ k[i] = f
      /\ \A j \in DOMAIN s.stack : j # i => k[j] = s.stack[j]
      /\ Falls(s.stack, k, 0)
  BY <1>1, Replacing
<1>3. t = With(s, k, s.triggered)
  BY DEF With, Pages
<1> HIDE DEF k
<1>4. t \in Pages /\ Same(s, t, {"stack", "triggered"}) /\ t.stack = k /\ t.triggered = s.triggered
  <2> DEFINE u == With(s, k, s.triggered)
  <2>1. u \in Pages /\ Same(s, u, {"stack", "triggered"}) /\ u.stack = k /\ u.triggered = s.triggered
    BY <1>1, <1>2, WithStack
  <2>2. t = u
    BY <1>3
  <2> HIDE DEF u
  <2>3. QED
    BY <2>1, <2>2, Zenon
<1>5. Same(s, t, {"stack"})
  BY <1>4 DEF Same, Fields
<1>6. QED
  BY <1>2, <1>4, <1>5 DEF FallsTo

\* The event at i is stopped or prevented.
LEMMA FlagFalls ==
    ASSUME NEW s \in Pages, NEW i \in DOMAIN s.stack, isMain(s.stack[i]), NEW v \in BOOLEAN, NEW t,
           t = [s EXCEPT !.stack[i].stopped = v] \/ t = [s EXCEPT !.stack[i].prevented = v]
    PROVE  FallsTo(s, t) /\ i \in DOMAIN t.stack /\ isMain(t.stack[i])
<1>1. s.stack[i] \in Frames
  BY DEF Pages
<1>2. PICK f : /\ t = [s EXCEPT !.stack[i] = f]
               /\ f = [s.stack[i] EXCEPT !.stopped = v] \/ f = [s.stack[i] EXCEPT !.prevented = v]
  OBVIOUS
<1>3. f \in Frames /\ Weaker(f, s.stack[i])
  <2> DEFINE g == s.stack[i]
  <2>1. g \in Frames /\ isMain(g) /\ (f = [g EXCEPT !.stopped = v] \/ f = [g EXCEPT !.prevented = v])
    BY <1>1, <1>2
  <2> HIDE DEF g
  <2>a. [g EXCEPT !.stopped = v] \in Frames /\ Weaker([g EXCEPT !.stopped = v], g)
    BY <2>1, Flagged
  <2>b. [g EXCEPT !.prevented = v] \in Frames /\ Weaker([g EXCEPT !.prevented = v], g)
    BY <2>1, Flagged
  <2>2. f \in Frames /\ Weaker(f, g)
    BY <2>1, <2>a, <2>b
  <2>3. QED
    BY <2>2 DEF g
<1>4. FallsTo(s, t) /\ t.stack[i] = f /\ i \in DOMAIN t.stack
  BY <1>2, <1>3, FrameFalls
<1>5. QED
  BY <1>3, <1>4 DEF Weaker, isMain

\* The loop at i is done with all its handlers, or with the first.
Shorter(r, q) == r = <<>> \/ (q # <<>> /\ r = Tail(q))
Resting(s, i, r) == [s EXCEPT !.stack[i].rest = r]
LEMMA RestFalls ==
    ASSUME NEW s \in Pages, NEW i \in DOMAIN s.stack, s.stack[i].fn \in {"handle", "live"},
           NEW r, Shorter(r, s.stack[i].rest),
           NEW t, t = Resting(s, i, r)
    PROVE  /\ FallsTo(s, t) /\ DOMAIN t.stack = DOMAIN s.stack /\ Weaker(t.stack[i], s.stack[i])
           /\ t.stack[i].rest = r
           /\ \A j \in DOMAIN s.stack : j # i => t.stack[j] = s.stack[j]
<1> DEFINE f == [s.stack[i] EXCEPT !.rest = r]
<1>1. s.stack[i] \in Frames
  BY DEF Pages
<1>2. t = [s EXCEPT !.stack[i] = f]
  BY DEF Resting
<1>3. f \in Frames /\ Weaker(f, s.stack[i]) /\ f.rest = r
  BY <1>1, Shortened DEF Shorter
<1> HIDE DEF f
<1>a. PICK u : u = [s EXCEPT !.stack[i] = f]
  OBVIOUS
<1>b. /\ FallsTo(s, u) /\ DOMAIN u.stack = DOMAIN s.stack /\ u.stack[i] = f
      /\ \A j \in DOMAIN s.stack : j # i => u.stack[j] = s.stack[j]
  BY <1>3, <1>a, FrameFalls
<1>c. t = u
  BY <1>2, <1>a
<1>4. /\ FallsTo(s, t) /\ DOMAIN t.stack = DOMAIN s.stack /\ t.stack[i] = f
      /\ \A j \in DOMAIN s.stack : j # i => t.stack[j] = s.stack[j]
  BY <1>b, <1>c, Zenon
<1>5. QED
  BY <1>3, <1>4

LEMMA DoneFalls ==
    ASSUME NEW s \in Pages, NEW i \in DOMAIN s.stack, s.stack[i].fn \in {"handle", "live"},
           NEW t, t = [s EXCEPT !.stack[i].rest = <<>>]
    PROVE  /\ FallsTo(s, t) /\ DOMAIN t.stack = DOMAIN s.stack
           /\ \A j \in DOMAIN s.stack : j # i => t.stack[j] = s.stack[j]
<1>1. PICK r : r = <<>>
  OBVIOUS
<1>2. t = Resting(s, i, r) /\ Shorter(r, s.stack[i].rest)
  BY <1>1 DEF Shorter, Resting
<1>3. QED
  BY <1>2, RestFalls

LEMMA FallsKeep ==
    ASSUME NEW s, NEW t, FallsTo(s, t)
    PROVE  /\ Keeps(s, t)
           /\ \A R, E, w : Chain(s.stack) /\ Exact(s.stack, s.triggered, R, E, w)
                            => Exact(t.stack, t.triggered, R, E, w)
<1>1. PICK d : Falls(s.stack, t.stack, d)
  BY DEF FallsTo
<1>2. t \in Pages /\ Same(s, t, {"stack", "triggered"}) /\ t.triggered = s.triggered
  BY DEF FallsTo, Same, Fields
<1>3. Keeps(s, t)
  BY <1>1, <1>2, StepKeeps DEF Steps
<1>4. QED
  BY <1>1, <1>2, <1>3, FallsExact

LEMMA FallsBack ==
    ASSUME NEW w, RunInv(w), FallsTo(page, page'), UNCHANGED <<calls, events, history>>
    PROVE  RunInv(w)'
<1>1. UNCHANGED <<calls, events, ran, again, ranOnce, onceAgain, reentered>> /\ overlapped' = overlapped
  BY DEF history
<1>2. Keeps(page, page')
  BY FallsKeep
<1>3. ASSUME ~overlapped PROVE Exact(page'.stack, page'.triggered, ran, events, w)
  BY <1>3, FallsKeep DEF RunInv, Exactly, Stands
<1>4. QED
  BY <1>1, <1>2, <1>3, Onward

\* The frame on top returns.
LEMMA PoppedFalls ==
    ASSUME page \in Pages, page.stack # <<>>, Chain(page.stack)
    PROVE  /\ FallsTo(page, Popped) /\ Chain(Popped.stack)
           /\ 2 \in DOMAIN page.stack => 1 \in DOMAIN Popped.stack /\ Weaker(Popped.stack[1], page.stack[2])
<1> DEFINE s == Popped
<1>0. page.triggered \in AllTypes \union {"none"}
  BY DEF Pages
<1>1. s \in Pages /\ s.triggered = page.triggered /\ Falls(page.stack, s.stack, 1) /\ Steps(page, s)
  BY <1>0, Leaving
<1> HIDE DEF s
<1>2. Same(page, s, {"stack"})
  BY <1>1 DEF Steps, Same, Fields
<1>3. Chain(s.stack)
  BY <1>1, FallsChain
<1>4. ASSUME 2 \in DOMAIN page.stack PROVE 1 \in DOMAIN s.stack /\ Weaker(s.stack[1], page.stack[2])
  <2>1. 2 > 1 /\ 2 - 1 = 1 /\ 1 + 1 = 2
    OBVIOUS
  <2>2. 1 \in DOMAIN s.stack
    BY <1>1, <1>4, <2>1 DEF Falls
  <2>3. QED
    BY <1>1, <2>1, <2>2 DEF Falls
<1>5. QED
  BY <1>1, <1>2, <1>3, <1>4 DEF FallsTo, s

LEMMA ReturnsFall ==
    ASSUME page \in Pages, Chain(page.stack), returns
    PROVE  FallsTo(page, page')
<1>1. page.stack \in Seq(Frames) /\ page.stack # <<>> /\ 1 \in DOMAIN page.stack /\ page.stack[1].fn = "handler"
  BY TopOf DEF returns
<1>2. 2 \in DOMAIN page.stack /\ page.stack[2].fn \in {"handle", "live"} /\ Below = page.stack[2]
  <2>1. 1 + 1 = 2
    OBVIOUS
  <2>2. QED
    BY <1>1, <2>1 DEF Chain, Link, Below
<1> DEFINE s == Popped
<1>3. FallsTo(page, s) /\ Chain(s.stack) /\ 1 \in DOMAIN s.stack /\ s.stack[1].fn = page.stack[2].fn
  BY <1>1, <1>2, PoppedFalls DEF Weaker
<1>4. \/ page' = s
      \/ page' = IF page.stack[2].fn = "live" THEN [s EXCEPT !.stack[1].stop = TRUE]
                 ELSE [s EXCEPT !.stack[2].stopped = TRUE, !.stack[2].prevented = TRUE]
      \/ page' = IF page.stack[2].fn = "live"
                 THEN [s EXCEPT !.stack[1].rest = <<>>, !.stack[2].rest = <<>>, !.stack[3].stopped = TRUE]
                 ELSE [s EXCEPT !.stack[1].rest = <<>>, !.stack[2].stopped = TRUE]
      \/ page' = [page EXCEPT !.stack = Unwind(page.stack)]
      \/ \E i \in {2, 3} : /\ i = (IF page.stack[2].fn = "live" THEN 3 ELSE 2)
                          /\ \/ page' = [s EXCEPT !.stack[i].prevented = TRUE]
                             \/ page' = [s EXCEPT !.stack[i].stopped = TRUE]
  BY <1>2, HandlerLeaves DEF HandlerLeft
<1> HIDE DEF s
<1>5. s \in Pages /\ s.stack[1] \in Frames /\ s.stack \in Seq(Frames)
  BY <1>3 DEF FallsTo, Pages
<1>6. /\ s.stack[1].fn = "handle" => 2 \in DOMAIN s.stack /\ isMain(s.stack[2])
      /\ s.stack[1].fn = "live" => /\ 2 \in DOMAIN s.stack /\ s.stack[2].fn = "handle"
                                   /\ 3 \in DOMAIN s.stack /\ isMain(s.stack[3])
  <2>1. 1 + 1 = 2 /\ 1 + 2 = 3 /\ 2 + 1 = 3
    OBVIOUS
  <2>2. Link(s.stack, 1) /\ (2 \in DOMAIN s.stack => Link(s.stack, 2))
    BY <1>3 DEF Chain
  <2>3. QED
    BY <2>1, <2>2 DEF Link
<1>7. CASE page' = s
  BY <1>3, <1>7
<1>8. CASE page' = [s EXCEPT !.stack[1].stop = TRUE] /\ s.stack[1].fn = "live"
  <2> DEFINE f == [s.stack[1] EXCEPT !.stop = TRUE]
  <2>1. f \in Frames /\ Weaker(f, s.stack[1])
    BY <1>5, <1>8, Stopping
  <2>2. page' = [s EXCEPT !.stack[1] = f]
    BY <1>8
  <2> HIDE DEF f
  <2>3. FallsTo(s, page')
    BY <1>3, <1>5, <2>1, <2>2, FrameFalls
  <2>4. QED
    BY <1>3, <2>3, FallsToFalls
<1>9. CASE page' = [s EXCEPT !.stack[2].stopped = TRUE, !.stack[2].prevented = TRUE] /\ s.stack[1].fn = "handle"
  <2> DEFINE q == [s EXCEPT !.stack[2].stopped = TRUE]
  <2>1. FallsTo(s, q) /\ 2 \in DOMAIN q.stack /\ isMain(q.stack[2])
    BY <1>5, <1>6, <1>9, FlagFalls
  <2>2. page' = [q EXCEPT !.stack[2].prevented = TRUE]
    BY <1>9
  <2> HIDE DEF q
  <2>3. FallsTo(q, page')
    BY <2>1, <2>2, FlagFalls DEF FallsTo
  <2>4. QED
    BY <1>3, <2>1, <2>3, FallsToFalls
<1>10. CASE page' = [s EXCEPT !.stack[1].rest = <<>>, !.stack[2].rest = <<>>, !.stack[3].stopped = TRUE] /\ s.stack[1].fn = "live"
  <2>0. /\ s.stack[1].fn = "live" /\ 2 \in DOMAIN s.stack /\ s.stack[2].fn = "handle"
        /\ 3 \in DOMAIN s.stack /\ isMain(s.stack[3])
    BY <1>6, <1>10
  <2>a. PICK q : q = [s EXCEPT !.stack[1].rest = <<>>]
    OBVIOUS
  <2>b. PICK u : u = [q EXCEPT !.stack[2].rest = <<>>]
    OBVIOUS
  <2>1. FallsTo(s, q) /\ 2 \in DOMAIN q.stack /\ q.stack[2] = s.stack[2] /\ 3 \in DOMAIN q.stack /\ q.stack[3] = s.stack[3]
    BY <1>3, <1>5, <2>0, <2>a, DoneFalls
  <2>2. page' = [u EXCEPT !.stack[3].stopped = TRUE]
    BY <1>10, <2>a, <2>b
  <2>c. q \in Pages /\ q.stack[2].fn \in {"handle", "live"}
    BY <2>0, <2>1 DEF FallsTo
  <2>d. /\ FallsTo(q, u) /\ DOMAIN u.stack = DOMAIN q.stack
        /\ \A j \in DOMAIN q.stack : j # 2 => u.stack[j] = q.stack[j]
    BY <2>1, <2>b, <2>c, DoneFalls
  <2>3. FallsTo(q, u) /\ 3 \in DOMAIN u.stack /\ u.stack[3] = s.stack[3]
    BY <2>1, <2>d
  <2>4. FallsTo(u, page')
    BY <1>6, <1>10, <2>2, <2>3, FlagFalls DEF FallsTo
  <2>5. QED
    BY <1>3, <2>1, <2>3, <2>4, FallsToFalls
<1>11. CASE page' = [s EXCEPT !.stack[1].rest = <<>>, !.stack[2].stopped = TRUE] /\ s.stack[1].fn = "handle"
  <2>a. PICK q : q = [s EXCEPT !.stack[1].rest = <<>>]
    OBVIOUS
  <2>1. FallsTo(s, q) /\ 2 \in DOMAIN q.stack /\ q.stack[2] = s.stack[2]
    BY <1>3, <1>5, <1>6, <1>11, <2>a, DoneFalls
  <2>2. page' = [q EXCEPT !.stack[2].stopped = TRUE]
    BY <1>11, <2>a
  <2>3. FallsTo(q, page')
    BY <1>6, <1>11, <2>1, <2>2, FlagFalls DEF FallsTo
  <2>4. QED
    BY <1>3, <2>1, <2>3, FallsToFalls
<1>12. CASE page' = [page EXCEPT !.stack = Unwind(page.stack)]
  <2> DEFINE k == Unwind(page.stack)
  <2>1. k \in Seq(Frames) /\ \E d : Falls(page.stack, k, d)
    BY <1>1, Unwinding
  <2>2. page' = With(page, k, page.triggered) /\ page.triggered \in AllTypes \union {"none"}
    BY <1>12 DEF With, Pages
  <2> HIDE DEF k
  <2>3. page' \in Pages /\ Same(page, page', {"stack", "triggered"}) /\ page'.stack = k /\ page'.triggered = page.triggered
    BY <2>1, <2>2, WithStack
  <2>4. Same(page, page', {"stack"})
    BY <2>3 DEF Same, Fields
  <2>5. QED
    BY <2>1, <2>3, <2>4 DEF FallsTo
<1>13. CASE \E i \in {2, 3} : /\ i = (IF page.stack[2].fn = "live" THEN 3 ELSE 2)
                            /\ \/ page' = [s EXCEPT !.stack[i].prevented = TRUE]
                               \/ page' = [s EXCEPT !.stack[i].stopped = TRUE]
  <2>1. PICK i \in {2, 3} : /\ i = (IF s.stack[1].fn = "live" THEN 3 ELSE 2)
                           /\ \/ page' = [s EXCEPT !.stack[i].prevented = TRUE]
                              \/ page' = [s EXCEPT !.stack[i].stopped = TRUE]
    BY <1>3, <1>13
  <2>2. i \in DOMAIN s.stack /\ isMain(s.stack[i])
    <3>1. s.stack[1].fn \in {"handle", "live"}
      BY <1>2, <1>3
    <3>2. QED
      BY <1>6, <2>1, <3>1
  <2>3. FallsTo(s, page')
    BY <1>5, <2>1, <2>2, FlagFalls
  <2>4. QED
    BY <1>3, <2>3, FallsToFalls
<1>14. QED
  BY <1>2, <1>3, <1>4, <1>7, <1>8, <1>9, <1>10, <1>11, <1>12, <1>13

LEMMA RunReturns ==
    ASSUME NEW w, RunInv(w), returns
    PROVE  RunInv(w)'
<1>1. FallsTo(page, page')
  BY ReturnsFall DEF RunInv, Stands
<1>2. QED
  BY <1>1, FallsBack DEF returns

\* The focusin event that the capturing focus listener triggers.
LEMMA FocusIn ==
    ASSUME NEW k \in Seq(Frames), Chain(k), 1 \in DOMAIN k, k[1].fn = "native", k[1].phase = "capture",
           NEW T, NEW R, NEW E \in Nat, NEW w, Exact(k, T, R, E, w), NoNative(k), E <= MaxEvents,
           NEW l, NEW f, Retops(k, l, f), f.phase = "call", f.fn = "native",
           Exact(l, T, R, E, w), Chain(l),
           NEW m, NEW h, On(l, m, h), h.fn = "trigger", h.phase = "call", h.liveFired = FALSE,
           h.n = k[1].n + MaxEvents
    PROVE  Exact(m, T, R, E, w)
<1> DEFINE n == k[1].n
<1>1. Main(k, 1)
  BY DEF Main, isMain, NoNative
<1>2. n \in Nat
  <2>1. k[1] \in Natives
    BY FrameKinds
  <2>2. QED
    BY <2>1 DEF Natives
<1>3. h.n = n + MaxEvents /\ h.n \in Numbers(E)
  <2>1. n \in Numbers(E) /\ n <= E
    BY <1>1 DEF Exact, Numbered
  <2>2. n \in 1 .. E /\ MaxEvents \in Nat
    BY <1>2, <2>1, EventsAssumption DEF Numbers
  <2>3. n + MaxEvents \in MaxEvents + 1 .. MaxEvents + E
    BY <2>2
  <2>4. QED
    BY <2>3 DEF Numbers
<1>4. Quiet(k[1], R, w)
  BY <1>1 DEF Exact, Still
<1>5. \A r \in R : r[1] # h.n
  BY <1>3, <1>4 DEF Quiet
<1>6. Quiet(h, R, w)
  BY <1>5 DEF Quiet, RanTo, RanLive
<1>7. NoNative(l)
  BY DEF NoNative, Retops, CallsNative
<1>8. ~CallsNative(h)
  BY DEF CallsNative
<1>9. Calls(m, T)
  BY <1>7, <1>8, NothingCalled
<1>10. ASSUME NEW i \in DOMAIN l, Main(l, i)
       PROVE  l[i].n # h.n /\ (l[i].phase = "capture" => h.n # l[i].n + MaxEvents)
  <2>1. Main(k, i) /\ i \in DOMAIN k /\ l[i].n = k[i].n /\ (i # 1 => l[i] = k[i])
    <3>1. i \in DOMAIN k /\ l[i].n = k[i].n /\ (i # 1 => l[i] = k[i]) /\ (isMain(l[i]) => isMain(k[i]))
      BY <1>10, <1>1 DEF Retops, Main
    <3>2. isMain(l[i])
      BY <1>10 DEF Main
    <3>3. QED
      BY <3>1, <3>2 DEF Main, NoNative
  <2>2. k[i].n # n + MaxEvents /\ (k[i].n = n => i = 1)
    BY <1>1, <2>1 DEF Exact, Separate
  <2>3. k[i].n \in Nat
    <3>1. k[i] \in Frames
      BY <2>1
    <3>2. isMain(k[i])
      BY <2>1 DEF Main
    <3>3. QED
      BY <3>1, <3>2, FrameKinds DEF isMain, Triggers, Natives
  <2>4. CASE i = 1
    BY <1>3, <2>1, <2>2, <2>4 DEF Retops
  <2>5. CASE i # 1
    <3>1. k[i].n # n
      BY <2>2, <2>5
    <3>2. n + MaxEvents # k[i].n + MaxEvents
      BY <1>2, <2>3, <3>1, EventsAssumption
    <3>3. QED
      BY <1>3, <2>1, <2>2, <3>2
  <2>6. QED
    BY <2>4, <2>5
<1>11. Unused(l, h)
  BY <1>10 DEF Unused
<1>12. m[1] = h
  BY DEF On
<1>13. Due(m, R)
  BY <1>12 DEF Due
<1>14. E <= E /\ (2 \in DOMAIN l => ~CallsNative(l[2]))
  BY <1>7 DEF NoNative
<1>15. QED
  BY <1>3, <1>6, <1>9, <1>11, <1>13, <1>14, OnExact

LEMMA RunNativeStep ==
    ASSUME NEW w, RunInv(w), nativeStep
    PROVE  RunInv(w)'
<1>1. /\ At("native") /\ page \in Pages /\ UNCHANGED <<calls, events, ran, again, ranOnce, onceAgain, reentered>>
      /\ overlapped' = (overlapped \/ (Top.phase = "capture" /\ page.capture /\ InNative))
  BY DEF nativeStep, RunInv, Stands
<1> DEFINE k == page.stack
           g == page.stack[1]
<1>2. k \in Seq(Frames) /\ k # <<>> /\ 1 \in DOMAIN k /\ Top = g /\ g.fn = "native" /\ g \in Frames
  BY <1>1, TopOf
<1>3. isMain(g) /\ g \in Natives
  BY <1>2, FrameKinds DEF isMain
<1>4. Chain(k) /\ events \in Nat /\ events <= MaxEvents
  BY DEF RunInv, Stands
<1>5. ~overlapped => Exact(k, page.triggered, ran, events, w)
  BY DEF RunInv, Exactly
<1>6. /\ overlapped => overlapped'
      /\ ~overlapped' => ~overlapped /\ ~(g.phase = "capture" /\ page.capture /\ InNative)
  BY <1>1, <1>2
<1>7. SUFFICES Keeps(page, page') /\ (~overlapped' => Exact(page'.stack, page'.triggered, ran, events, w))
  BY <1>1, <1>6, Onward
<1>8. CASE g.phase = "capture" /\ page.capture
  <2> DEFINE h == TriggerFrame("child", "focusin", "", FALSE, g.n + MaxEvents)
             s == Phase("call")
  <2>1. page' = Push(s, h)
    BY <1>2, <1>8 DEF nativeStep
  <2>2. PICK f : GotOn(page, s, f, page.triggered) /\ f.phase = "call" /\ f.cur = g.cur
    BY <1>1, <1>2, <1>3, PhasedOn
  <2>3. /\ h \in Frames /\ h.fn = "trigger" /\ h.phase = "call" /\ h.liveFired = FALSE
        /\ h.n = g.n + MaxEvents
    <3>1. g.n + MaxEvents \in Nat
      <4>1. g.n \in Nat
        BY <1>3 DEF Natives
      <4>2. MaxEvents \in Nat
        BY EventsAssumption
      <4>3. QED
        BY <4>1, <4>2
    <3>2. QED
      BY <3>1 DEF TriggerFrame, Triggers, Frames, Elements, AllTypes, Namespaces
  <2> HIDE DEF s, h
  <2>4. s \in Pages /\ s.triggered = page.triggered /\ f.fn = "native" /\ Retops(k, s.stack, f) /\ Keeps(page, s)
    BY <1>2, <2>2 DEF GotOn, Further
  <2>5. page' \in Pages /\ Same(s, page', {"stack", "triggered"}) /\ On(s.stack, page'.stack, h) /\ page'.triggered = s.triggered
    BY <2>1, <2>3, <2>4, Pushing
  <2>6. Keeps(s, page')
    <3>1. page'.stack[1] = h
      BY <2>5 DEF On
    <3>2. Link(page'.stack, 1) /\ Brings(s, h)
      BY <2>3, <3>1 DEF Link, Brings
    <3>3. QED
      BY <2>5, <3>2, StepKeeps DEF Steps
  <2>7. ASSUME ~overlapped' PROVE Exact(page'.stack, page'.triggered, ran, events, w)
    <3>1. ~overlapped /\ NoNative(k)
      BY <1>6, <1>8, <2>7 DEF InNative, NoNative, CallsNative
    <3>2. Exact(s.stack, page.triggered, ran, events, w) /\ Chain(s.stack)
      <4>1. ~CallsNative(f) /\ f.phase # "capture" /\ early(g)
        BY <1>8, <2>2, <2>4 DEF CallsNative, early
      <4>2. QED
        BY <1>4, <1>5, <2>2, <3>1, <4>1, GotOnExact
    <3>3. QED
      BY <1>2, <1>4, <1>5, <1>8, <2>2, <2>3, <2>4, <2>5, <3>1, <3>2, FocusIn
  <2>8. QED
    BY <2>4, <2>6, <2>7, KeepsKeeps
<1>9. ASSUME NEW ph \in {"call", "bubble"}, page' = Phase(ph), early(g), g.phase = "capture" => ~page.capture
      PROVE  Keeps(page, page') /\ (~overlapped' => Exact(page'.stack, page'.triggered, ran, events, w))
  <2>1. PICK f : GotOn(page, Phase(ph), f, page.triggered) /\ f.phase = ph /\ f.cur = g.cur
    BY <1>1, <1>2, <1>3, PhasedOn
  <2>2. ~CallsNative(f) /\ f.phase # "capture"
    BY <2>1 DEF CallsNative
  <2>3. page'.triggered = page.triggered /\ Keeps(page, page')
    BY <1>9, <2>1 DEF GotOn
  <2>4. ASSUME ~overlapped' PROVE Exact(page'.stack, page'.triggered, ran, events, w)
    BY <1>4, <1>5, <1>6, <1>9, <2>1, <2>2, <2>3, <2>4, GotOnExact
  <2>5. QED
    BY <2>3, <2>4
<1>10. CASE g.phase = "call" /\ g.type \in page.listening[g.cur]
  <2>1. page' = eventHandle(Phase("bubble"), g.cur)
    BY <1>2, <1>10 DEF nativeStep
  <2>2. PICK f : GotOn(page, Phase("bubble"), f, page.triggered) /\ f.phase = "bubble" /\ f.cur = g.cur
    BY <1>1, <1>2, <1>3, PhasedOn
  <2> DEFINE s == Phase("bubble")
  <2>3. /\ s \in Pages /\ 1 \in DOMAIN s.stack /\ isMain(s.stack[1]) /\ s.stack[1].phase = "bubble"
        /\ s.stack[1].cur = g.cur /\ g.cur \in Elements /\ s.stack[1].n = g.n /\ Keeps(page, s)
        /\ s.triggered = page.triggered /\ s.stack[1].type = g.type /\ f.fn = "native"
    BY <1>2, <1>3, <2>2 DEF GotOn, Further, Natives
  <2> HIDE DEF s
  <2>4. Keeps(s, page')
    BY <2>1, <2>3, EventHandled DEF s
  <2>5. ASSUME ~overlapped' PROVE Exact(page'.stack, page'.triggered, ran, events, w)
    <3>0. Exact(k, page.triggered, ran, events, w)
      BY <1>5, <1>6, <2>5
    <3>1. Exact(s.stack, s.triggered, ran, events, w) /\ Chain(s.stack)
      <4>1. early(g)
        BY <1>10 DEF early
      <4>2. ~CallsNative(f)
        BY <2>2 DEF CallsNative
      <4>3. QED
        BY <1>4, <2>2, <2>3, <3>0, <4>1, <4>2, GotOnExact DEF s
    <3>2. CASE Main(k, 1)
      <4>1. Quiet(g, ran, w)
        BY <1>2, <3>0, <3>2 DEF Exact, Still
      <4>2. ~RanTo(ran, g.n, g.cur)
        BY <1>10, <2>3, <4>1 DEF Quiet, early, Elements
      <4>3. QED
        BY <1>4, <2>1, <2>3, <3>1, <4>2, EventHandled DEF s
    <3>3. CASE ~Main(k, 1)
      <4>1. 2 \in DOMAIN k /\ CallsNative(k[2])
        BY <1>3, <3>3 DEF Main
      <4>2. page.triggered = g.type
        BY <3>0, <4>1 DEF Exact, Calls
      <4>3. Head(s.stack) = s.stack[1]
        BY <2>3 DEF Pages
      <4>4. page' = s
        BY <2>1, <2>3, <4>2, <4>3 DEF eventHandle, s
      <4>5. QED
        BY <3>1, <4>4
    <3>4. QED
      BY <3>2, <3>3
  <2>6. QED
    BY <2>3, <2>4, <2>5, KeepsKeeps
<1>11. CASE g.phase = "bubble" /\ g.cur = "child" /\ Bubbles(g.type) /\ ~g.stopped
  <2>1. page' = AtParent
    BY <1>2, <1>11 DEF nativeStep
  <2>2. PICK f : GotOn(page, AtParent, f, page.triggered) /\ f.phase = "call" /\ f.cur = "document"
    BY <1>1, <1>2, <1>3, ParentOn
  <2>3. ~CallsNative(f) /\ f.phase # "capture"
    BY <2>2 DEF CallsNative
  <2>4. page'.triggered = page.triggered /\ Keeps(page, page')
    BY <2>1, <2>2 DEF GotOn
  <2>5. ASSUME ~overlapped' PROVE Exact(page'.stack, page'.triggered, ran, events, w)
    BY <1>4, <1>5, <1>6, <1>11, <2>1, <2>2, <2>3, <2>4, <2>5, GotOnExact
  <2>6. QED
    BY <2>4, <2>5
<1>12. CASE g.phase = "bubble" /\ ~(g.cur = "child" /\ Bubbles(g.type) /\ ~g.stopped)
  <2>1. page' = Popped
    BY <1>2, <1>12 DEF nativeStep
  <2>2. FallsTo(page, page')
    BY <1>1, <1>2, <1>4, <2>1, PoppedFalls
  <2>3. QED
    BY <1>4, <1>5, <1>6, <2>2, FallsKeep
<1>13. CASE g.phase = "capture" /\ ~page.capture
  <2>1. page' = Phase("call")
    BY <1>2, <1>13 DEF nativeStep
  <2>2. QED
    BY <1>9, <1>13, <2>1 DEF early
<1>14. CASE g.phase = "call" /\ g.type \notin page.listening[g.cur]
  <2>1. page' = Phase("bubble")
    BY <1>2, <1>14 DEF nativeStep
  <2>2. QED
    BY <1>9, <1>14, <2>1 DEF early
<1>15. g.phase \in {"capture", "call", "bubble"}
  BY <1>3 DEF Natives
<1>16. QED
  BY <1>8, <1>10, <1>11, <1>12, <1>13, <1>14, <1>15

\* An event with a number of its own, h, begins.
LEMMA NewEvent ==
    ASSUME NEW w, RunInv(w), NEW h \in Frames, page' = Push(page, h), isMain(h), h.n = events + 1,
           h.liveFired = FALSE, h.phase \in {"call", "capture"}, events < MaxEvents, events' = events + 1,
           UNCHANGED <<calls, again, ranOnce, onceAgain, reentered>>,
           \/ page.stack = <<>> /\ ran' = {}
           \/ h.phase = "call" /\ ran' = ran,
           overlapped => overlapped', ~overlapped' => NoNative(page.stack)
    PROVE  RunInv(w)'
<1> DEFINE k == page.stack
<1>1. /\ page \in Pages /\ k \in Seq(Frames) /\ Chain(k) /\ events \in Nat /\ events <= MaxEvents
      /\ ~overlapped' => ran \subseteq Numbers(events) \X (1 .. calls) \X Elements
      /\ MaxEvents \in Nat
  BY EventsAssumption DEF RunInv, Stands, Pages
<1>2. page' \in Pages /\ Same(page, page', {"stack", "triggered"}) /\ On(k, page'.stack, h) /\ page'.triggered = page.triggered
  BY <1>1, Pushing
<1>3. page'.stack[1] = h
  BY <1>2 DEF On
<1>4. Keeps(page, page')
  <2>1. Link(page'.stack, 1) /\ Brings(page, h)
    BY <1>3 DEF Link, Brings, isMain
  <2>2. QED
    BY <1>2, <2>1, StepKeeps DEF Steps
<1>5. Stands(page', w, calls) /\ \A id : Gone(page, id) => Gone(page', id)
  BY <1>4 DEF RunInv, Keeps
<1>6. Onced(w)'
  BY <1>5 DEF RunInv, Onced
<1>7. events' \in Nat /\ events' <= MaxEvents /\ events <= events' /\ events' = events + 1
  BY <1>1
<1>8. Numbers(events) \subseteq Numbers(events') /\ h.n \in Numbers(events') /\ h.n <= events' /\ h.n \notin Numbers(events)
  BY <1>1, <1>7 DEF Numbers
<1>9. ~overlapped' => ran' \subseteq Numbers(events') \X (1 .. calls') \X Elements
  BY <1>1, <1>8
<1>10. ASSUME ~overlapped' PROVE ~again' /\ Exactly(page, w)'
  <2>1. ~overlapped /\ NoNative(k)
    BY <1>10
  <2>2. ~again' /\ Exact(k, page.triggered, ran, events, w)
    BY <2>1 DEF RunInv, Exactly
  <2>3. Exact(k, page.triggered, ran', events, w)
    BY <2>2, NothingRan
  <2>4. ~CallsNative(h)
    BY DEF CallsNative
  <2>5. Calls(page'.stack, page.triggered)
    BY <1>2, <2>1, <2>4, NothingCalled
  <2>6. \A r \in ran' : r[1] # h.n
    BY <1>1, <1>8, <1>10
  <2>7. \A r \in ran' : h.phase = "capture" => r[1] # h.n + MaxEvents
    OBVIOUS
  <2>8. Quiet(h, ran', w)
    BY <2>6, <2>7 DEF Quiet, RanTo, RanLive
  <2>9. ASSUME NEW i \in DOMAIN k, Main(k, i)
        PROVE  /\ k[i].n # h.n
               /\ h.phase = "capture" => k[i].n # h.n + MaxEvents
               /\ k[i].phase = "capture" => h.n # k[i].n + MaxEvents
    <3>1. k[i].n \in Numbers(events)
      BY <2>2, <2>9 DEF Exact, Numbered
    <3>2. h.n # k[i].n + MaxEvents
      BY <1>1, <1>7, <3>1 DEF Numbers
    <3>3. h.phase = "call"
      BY <2>9
    <3>4. QED
      BY <1>8, <3>1, <3>2, <3>3
  <2>10. h.n # h.n + MaxEvents
    BY <1>1
  <2>11. Unused(k, h)
    BY <2>9, <2>10 DEF Unused
  <2>12. Due(page'.stack, ran')
    BY <1>3 DEF Due, isMain
  <2>13. 2 \in DOMAIN k => ~CallsNative(k[2])
    BY <2>1 DEF NoNative
  <2>14. Exact(page'.stack, page.triggered, ran', events', w)
    BY <1>1, <1>2, <1>7, <1>8, <2>3, <2>5, <2>8, <2>11, <2>12, <2>13, OnExact
  <2>15. QED
    BY <1>2, <2>2, <2>14 DEF Exactly
<1>11. QED
  BY <1>5, <1>6, <1>7, <1>9, <1>10 DEF RunInv

LEMMA RunTrigger ==
    ASSUME NEW w, RunInv(w), trigger
    PROVE  RunInv(w)'
<1>1. /\ events < MaxEvents /\ events' = events + 1 /\ UNCHANGED <<calls, again, ranOnce, onceAgain, reentered>>
      /\ overlapped' = (overlapped \/ InNative) /\ ran' = IF page.stack = <<>> THEN {} ELSE ran
  BY DEF trigger
<1>2. PICK e \in Elements, t \in Types, ns \in Namespaces, only \in BOOLEAN :
        page' = Push(page, TriggerFrame(e, t, ns, only, events'))
  BY DEF trigger
<1> DEFINE h == TriggerFrame(e, t, ns, only, events')
<1>3. h \in Frames /\ isMain(h) /\ h.n = events + 1 /\ h.liveFired = FALSE /\ h.phase = "call"
  <2>1. events' \in Nat /\ t \in AllTypes
    BY <1>1, EventsAssumption DEF RunInv
  <2>2. QED
    BY <1>1, <2>1 DEF TriggerFrame, Triggers, Frames, isMain
<1>4. page' = Push(page, h)
  BY <1>2
<1> HIDE DEF h
<1>5. ~overlapped' => NoNative(page.stack)
  BY <1>1 DEF InNative, NoNative, CallsNative
<1>6. QED
  BY <1>1, <1>3, <1>4, <1>5, NewEvent

LEMMA RunUserEvent ==
    ASSUME NEW w, RunInv(w), UserEvent
    PROVE  RunInv(w)'
<1>1. /\ page.stack = <<>> /\ events < MaxEvents /\ events' = events + 1 /\ ran' = {}
      /\ UNCHANGED <<calls, again, overlapped, ranOnce, onceAgain, reentered>>
  BY DEF UserEvent
<1>2. PICK t \in {"click", "focus"} : page' = Push(page, NativeFrame(t, events'))
  BY DEF UserEvent
<1> DEFINE h == NativeFrame(t, events')
<1>3. h \in Frames /\ isMain(h) /\ h.n = events + 1 /\ h.liveFired = FALSE /\ h.phase \in {"call", "capture"}
  <2>1. events' \in Nat
    BY <1>1 DEF RunInv
  <2>2. QED
    BY <1>1, <2>1 DEF NativeFrame, Natives, Frames, isMain, Elements, AllTypes
<1>4. page' = Push(page, h)
  BY <1>2
<1> HIDE DEF h
<1>5. NoNative(page.stack)
  BY <1>1 DEF NoNative
<1>6. QED
  BY <1>1, <1>3, <1>4, <1>5, NewEvent

-----------------------------------------------------------------------------
LEMMA FewerKeeps == ASSUME NEW s, NEW t, Fewer(s, t) PROVE Keeps(s, t)
<1>1. t \in Pages /\ t.stack = s.stack
  BY DEF Fewer, Same, Fields, Binding
<1>2. ASSUME NEW w, NEW c, Stands(s, w, c) PROVE Stands(t, w, c)
  <2>1. \A e \in Elements, y \in AllTypes : Listed(t.handlers[e][y], e, y, w, c)
    BY <1>2, RestListed DEF Fewer, Stands, Placed
  <2>2. Alive(t.live, w, c) /\ Single(t.live)
    <3>1. Alive(s.live, w, c) /\ Single(s.live) /\ Rest(t.live, s.live)
      BY <1>2 DEF Fewer, Stands, Placed
    <3>2. QED
      BY <3>1, RestAlive DEF Rest
  <2>3. QED
    BY <1>1, <1>2, <2>1, <2>2 DEF Stands, Placed
<1>3. ASSUME NEW id, Gone(s, id) PROVE Gone(t, id)
  <2>1. ASSUME NEW e \in Elements, NEW y \in AllTypes, NEW j \in DOMAIN t.handlers[e][y]
        PROVE  t.handlers[e][y][j].id # id
    <3>1. Rest(t.handlers[e][y], s.handlers[e][y])
      BY DEF Fewer
    <3>2. PICK l \in DOMAIN s.handlers[e][y] : t.handlers[e][y][j] = s.handlers[e][y][l]
      BY <3>1 DEF Rest
    <3>3. QED
      BY <1>3, <3>2 DEF Gone
  <2>2. QED
    BY <1>1, <1>3, <2>1 DEF Gone
<1>4. QED
  BY <1>2, <1>3 DEF Keeps

\* A handler is run from the loop on top of s.
LEMMA Ran ==
    ASSUME NEW w, RunInv(w), NEW s, FallsTo(page, s), 1 \in DOMAIN s.stack, s.stack[1].fn \in {"handle", "live"},
           NEW h, NEW e \in Elements, NEW t \in AllTypes, NEW n, Run(s, h, e, t, n), h.id \in 1 .. calls,
           h.id \in ranOnce => reentered,
           h.kind = "once" => w[h.id] = <<e, t>> /\ (~Held(h.id) => GoneFrom(s.stack, h.id)),
           ~overlapped => /\ <<n, h.id, e>> \notin ran /\ n \in Numbers(events) /\ NoNative(s.stack)
                          /\ Exact(s.stack, s.triggered, ran \union {<<n, h.id, e>>}, events, w)
    PROVE  RunInv(w)'
<1> DEFINE s2 == IF h.kind = "once" THEN remove(s, e, t, {h.id}) ELSE s
           f == [fn |-> "handler", elem |-> e]
<1>1. /\ page' = Push(s2, f)
      /\ ran' = ran \union {<<n, h.id, e>>} /\ again' = (again \/ <<n, h.id, e>> \in ran)
      /\ ranOnce' = IF h.kind = "once" THEN ranOnce \union {h.id} ELSE ranOnce
      /\ onceAgain' = (onceAgain \/ h.id \in ranOnce)
      /\ reentered' = (reentered \/ (h.kind = "once" /\ Held(h.id)))
      /\ UNCHANGED <<calls, events, overlapped>>
  BY DEF Run
<1>2. s \in Pages /\ Chain(s.stack) /\ Stands(s, w, calls) /\ Keeps(page, s)
  <2>1. s \in Pages /\ Keeps(page, s)
    BY FallsKeep DEF FallsTo
  <2>2. Stands(s, w, calls)
    BY <2>1 DEF Keeps, RunInv
  <2>3. QED
    BY <2>1, <2>2 DEF Stands
<1>3. Fewer(s, s2) /\ (h.kind = "once" => \A j \in DOMAIN s2.handlers[e][t] : s2.handlers[e][t][j].id # h.id)
  BY <1>2, RemoveEffect, FewerSelf
<1>4. f \in Frames /\ f.fn = "handler"
  BY DEF Codes, Frames
<1> HIDE DEF s2, f
<1>5. s2 \in Pages /\ s2.stack = s.stack /\ s2.triggered = s.triggered /\ Keeps(s, s2)
  BY <1>3, FewerKeeps DEF Fewer, Same, Fields, Binding
<1>6. /\ page' \in Pages /\ Same(s2, page', {"stack", "triggered"}) /\ On(s.stack, page'.stack, f)
      /\ page'.triggered = s.triggered
  BY <1>1, <1>4, <1>5, Pushing
<1>7. page'.stack[1] = f /\ 2 \in DOMAIN page'.stack /\ page'.stack[2] = s.stack[1] /\ page'.handlers = s2.handlers
  <2>1. 1 + 1 = 2
    OBVIOUS
  <2>2. QED
    BY <1>6, <2>1 DEF On, Same, Fields
<1>8. Keeps(s2, page')
  <2>1. 1 + 1 = 2
    OBVIOUS
  <2>2. Link(page'.stack, 1) /\ Brings(s2, f)
    BY <1>4, <1>7, <2>1 DEF Link, Brings
  <2>3. QED
    BY <1>5, <1>6, <2>2, StepKeeps DEF Steps
<1>9. Keeps(page, page')
  BY <1>2, <1>5, <1>8, KeepsKeeps
<1>10. Stands(page', w, calls) /\ \A id : Gone(page, id) => Gone(page', id)
  BY <1>9 DEF RunInv, Keeps
<1>11. ASSUME h.kind = "once", ~Held(h.id) PROVE Gone(page', h.id)
  <2>1. Stands(s2, w, calls)
    BY <1>2, <1>5 DEF Keeps
  <2>2. w[h.id] # LivePlace
    BY <1>11 DEF LivePlace, Elements
  <2>3. ASSUME NEW x \in Elements, NEW y \in AllTypes, NEW j \in DOMAIN s2.handlers[x][y]
        PROVE  s2.handlers[x][y][j].id # h.id
    <3>1. Listed(s2.handlers[x][y], x, y, w, calls)
      BY <2>1 DEF Stands, Placed
    <3>2. SUFFICES ASSUME s2.handlers[x][y][j].id = h.id PROVE FALSE
      OBVIOUS
    <3>3. w[h.id] = <<x, y>>
      BY <2>2, <3>1, <3>2 DEF Listed
    <3>4. x = e /\ y = t
      BY <1>11, <3>3
    <3>5. QED
      BY <1>3, <1>11, <3>2, <3>4
  <2>4. ASSUME NEW i \in DOMAIN page'.stack, page'.stack[i].fn = "handle"
        PROVE  \A j \in DOMAIN page'.stack[i].rest : page'.stack[i].rest[j].id # h.id
    <3>1. i # 1
      BY <1>4, <1>7, <2>4
    <3>2. i - 1 \in DOMAIN s.stack /\ page'.stack[i] = s.stack[i - 1]
      BY <1>6, <3>1 DEF On
    <3>3. GoneFrom(s.stack, h.id)
      BY <1>11
    <3>4. QED
      BY <2>4, <3>2, <3>3 DEF GoneFrom
  <2>5. QED
    BY <1>7, <2>3, <2>4 DEF Gone, GoneFrom
<1>12. Onced(w)'
  <2>1. ranOnce' \subseteq 1 .. calls' /\ \A id \in ranOnce' : w[id] # LivePlace
    <3>1. h.kind = "once" => w[h.id] # LivePlace
      BY DEF LivePlace, Elements
    <3>2. QED
      BY <1>1, <3>1 DEF RunInv, Onced
  <2>2. onceAgain' => reentered'
    BY <1>1 DEF RunInv, Onced
  <2>3. ASSUME ~reentered', NEW id \in ranOnce' PROVE Gone(page', id)
    <3>1. CASE id \in ranOnce
      BY <1>1, <1>10, <2>3, <3>1 DEF RunInv, Onced
    <3>2. CASE id \notin ranOnce
      BY <1>1, <1>11, <2>3, <3>2
    <3>3. QED
      BY <3>1, <3>2
  <2>4. QED
    BY <2>1, <2>2, <2>3 DEF Onced
<1>13. ASSUME ~overlapped'
       PROVE  /\ ~again' /\ Exactly(page, w)'
              /\ ran' \subseteq Numbers(events') \X (1 .. calls') \X Elements
  <2>1. ~overlapped /\ ~again /\ ran \subseteq Numbers(events) \X (1 .. calls) \X Elements /\ events \in Nat
    BY <1>1, <1>13 DEF RunInv
  <2>2. Exact(s.stack, s.triggered, ran', events, w) /\ NoNative(s.stack)
    BY <1>1, <2>1
  <2>3. ~again' /\ ran' \subseteq Numbers(events') \X (1 .. calls') \X Elements
    <3>1. ~again'
      BY <1>1, <2>1
    <3>2. <<n, h.id, e>> \in Numbers(events) \X (1 .. calls) \X Elements
      BY <2>1
    <3>3. ran' \subseteq Numbers(events) \X (1 .. calls) \X Elements
      BY <1>1, <2>1, <3>2
    <3>4. QED
      BY <1>1, <3>1, <3>3
  <2>4. ~CallsNative(f)
    BY <1>4 DEF CallsNative
  <2>5. Calls(page'.stack, s.triggered)
    BY <1>6, <2>2, <2>4, NothingCalled
  <2>6. Due(page'.stack, ran') /\ ~Main(page'.stack, 1)
    BY <1>4, <1>7 DEF Due, Main, isMain
  <2>7. events <= events /\ (2 \in DOMAIN s.stack => ~CallsNative(s.stack[2]))
    BY <2>1, <2>2 DEF NoNative
  <2>8. Exact(page'.stack, s.triggered, ran', events, w)
    BY <1>2, <1>6, <2>1, <2>2, <2>5, <2>6, <2>7, OnExact
  <2>9. QED
    BY <1>1, <1>6, <2>3, <2>8 DEF Exactly
<1>14. QED
  BY <1>1, <1>10, <1>12, <1>13 DEF RunInv

LEMMA HeadOff ==
    ASSUME NEW S, NEW q \in Seq(S), q # <<>>
    PROVE  /\ 1 \in DOMAIN q /\ Head(q) = q[1] /\ Tail(q) \in Seq(S)
           /\ Distinct(q) => \A j \in DOMAIN Tail(q) : Tail(q)[j].id # q[1].id
<1>1. /\ 1 \in DOMAIN q /\ Head(q) = q[1] /\ Tail(q) \in Seq(S)
      /\ \A i \in DOMAIN Tail(q) : i \in Nat \ {0} /\ i + 1 \in DOMAIN q /\ Tail(q)[i] = q[i + 1]
  BY PoppedOf
<1>2. ASSUME Distinct(q), NEW j \in DOMAIN Tail(q) PROVE Tail(q)[j].id # q[1].id
  <2>1. j \in Nat \ {0} /\ j + 1 \in DOMAIN q /\ Tail(q)[j] = q[j + 1]
    BY <1>1
  <2>2. j + 1 # 1
    BY <2>1
  <2>3. q[j + 1].id # q[1].id
    BY <1>1, <1>2, <2>1, <2>2 DEF Distinct
  <2>4. QED
    BY <2>1, <2>3
<1>3. QED
  BY <1>1, <1>2

LEMMA RunLiveStep ==
    ASSUME NEW w, RunInv(w), liveStep
    PROVE  RunInv(w)'
<1> DEFINE k == page.stack
           g == page.stack[1]
<1>1. At("live") /\ page \in Pages /\ Chain(k) /\ Filed(k, w, calls) /\ events \in Nat
  BY DEF liveStep, RunInv, Stands
<1>2. k \in Seq(Frames) /\ k # <<>> /\ 1 \in DOMAIN k /\ Top = g /\ g.fn = "live" /\ g \in Frames
  BY <1>1, TopOf
<1>3. g \in Lives
  BY <1>2, FrameKinds
<1>4. /\ 2 \in DOMAIN k /\ k[2].fn = "handle" /\ k[2].elem = "document"
      /\ 3 \in DOMAIN k /\ isMain(k[3])
  <2>1. 1 + 1 = 2 /\ 1 + 2 = 3 /\ 2 + 1 = 3
    OBVIOUS
  <2>2. 2 \in DOMAIN k /\ k[2].fn = "handle" /\ k[2].elem = "document"
    BY <1>1, <1>2, <2>1 DEF Chain, Link
  <2>3. QED
    BY <1>1, <2>1, <2>2 DEF Chain, Link
<1>5. CASE g.rest = <<>>
  <2> DEFINE s == Popped
  <2>1. /\ page' = IF g.stop THEN [s EXCEPT !.stack[2].stopped = TRUE, !.stack[2].prevented = TRUE] ELSE s
        /\ UNCHANGED <<calls, events, history>>
    BY <1>2, <1>5 DEF liveStep
  <2>2. FallsTo(page, s) /\ Chain(s.stack) /\ 1 \in DOMAIN s.stack /\ s.stack[1].fn = "handle"
    BY <1>1, <1>2, <1>4, PoppedFalls DEF Weaker
  <2> HIDE DEF s
  <2>3. s \in Pages /\ 2 \in DOMAIN s.stack /\ isMain(s.stack[2])
    <3>1. 1 + 1 = 2
      OBVIOUS
    <3>2. QED
      BY <2>2, <3>1 DEF FallsTo, Chain, Link
  <2>4. CASE page' = s
    BY <2>1, <2>2, <2>4, FallsBack
  <2>5. CASE page' = [s EXCEPT !.stack[2].stopped = TRUE, !.stack[2].prevented = TRUE]
    <3>a. PICK q : q = [s EXCEPT !.stack[2].stopped = TRUE]
      OBVIOUS
    <3>1. FallsTo(s, q) /\ 2 \in DOMAIN q.stack /\ isMain(q.stack[2])
      BY <2>3, <3>a, FlagFalls
    <3>2. page' = [q EXCEPT !.stack[2].prevented = TRUE]
      BY <2>5, <3>a
    <3>3. FallsTo(q, page')
      BY <3>1, <3>2, FlagFalls DEF FallsTo
    <3>4. FallsTo(page, page')
      BY <2>2, <3>1, <3>3, FallsToFalls
    <3>5. QED
      BY <2>1, <3>4, FallsBack
  <2>6. QED
    BY <2>1, <2>4, <2>5
<1>6. CASE g.rest # <<>>
  <2> DEFINE id == Head(g.rest).id
  <2>r. PICK r : r = Tail(g.rest)
    OBVIOUS
  <2>a. PICK s : s = Resting(page, 1, r)
    OBVIOUS
  <2>b. PICK h : h = [id |-> id, kind |-> "live"]
    OBVIOUS
  <2>1. Run(s, h, "child", g.type, k[3].n)
    BY <1>2, <1>6, <2>r, <2>a, <2>b DEF liveStep, Resting
  <2>2. /\ FallsTo(page, s) /\ DOMAIN s.stack = DOMAIN k /\ Weaker(s.stack[1], g)
        /\ s.stack[1].rest = Tail(g.rest)
        /\ \A j \in DOMAIN k : j # 1 => s.stack[j] = k[j]
    <3>1. /\ FallsTo(page, s) /\ DOMAIN s.stack = DOMAIN k /\ Weaker(s.stack[1], g)
          /\ s.stack[1].rest = r
          /\ \A j \in DOMAIN k : j # 1 => s.stack[j] = k[j]
      <4>1. Shorter(r, g.rest)
        BY <1>6, <2>r DEF Shorter
      <4>2. QED
        BY <1>1, <1>2, <2>a, <4>1, RestFalls
    <3>2. QED
      BY <2>r, <3>1
  <2>3. g.rest \in Seq(LiveEntry) /\ g.type \in AllTypes
    BY <1>3 DEF Lives
  <2>4. Alive(g.rest, w, calls) /\ Distinct(g.rest)
    BY <1>1, <1>2 DEF Filed, Fits
  <2>5. 1 \in DOMAIN g.rest /\ id = g.rest[1].id /\ \A j \in DOMAIN s.stack[1].rest : s.stack[1].rest[j].id # id
    BY <1>6, <2>2, <2>3, <2>4, HeadOff
  <2>6. h.id = id /\ h.kind = "live"
    BY <2>b
  <2> HIDE DEF id
  <2>7. id \in 1 .. calls /\ w[id] = LivePlace
    BY <2>4, <2>5 DEF Alive
  <2>8. id \notin ranOnce
    BY <2>7 DEF RunInv, Onced
  <2>9. 1 \in DOMAIN s.stack /\ s.stack[1].fn = "live" /\ s.stack[3] = k[3]
    BY <1>2, <1>4, <2>2 DEF Weaker
  <2>10. Keeps(page, s) /\ s \in Pages
    BY <2>2, FallsKeep DEF FallsTo
  <2>11. Stands(s, w, calls)
    BY <2>10 DEF Keeps, RunInv
  <2>12. s.stack \in Seq(Frames) /\ s.stack # <<>> /\ Chain(s.stack)
    BY <2>9, <2>10, <2>11 DEF Pages, Stands
  <2>13. ASSUME ~overlapped
         PROVE  /\ <<k[3].n, h.id, "child">> \notin ran /\ k[3].n \in Numbers(events) /\ NoNative(s.stack)
                /\ Exact(s.stack, s.triggered, ran \union {<<k[3].n, h.id, "child">>}, events, w)
    <3>1. Exact(k, page.triggered, ran, events, w)
      BY <2>13 DEF RunInv, Exactly
    <3>2. <<k[3].n, h.id, "child">> \notin ran
      <4>1. 1 + 2 = 3
        OBVIOUS
      <4>2. NotYet(k, ran)
        BY <3>1 DEF Exact
      <4>3. QED
        BY <1>2, <2>5, <2>6, <4>1, <4>2 DEF NotYet
    <3>3. k[3].n \in Numbers(events)
      <4>1. Main(k, 3)
        BY <1>4 DEF Main
      <4>2. QED
        BY <1>4, <3>1, <4>1 DEF Exact, Numbered
    <3>4. Exact(s.stack, s.triggered, ran, events, w)
      BY <1>1, <2>2, <3>1, FallsKeep
    <3>5. NoNative(s.stack)
      BY <2>9, <3>4, NoMethod DEF Exact, CallsNative
    <3>6. Exact(s.stack, s.triggered, ran \union {<<s.stack[3].n, h.id, "child">>}, events, w)
      BY <2>5, <2>6, <2>9, <2>12, <3>4, RanAlive
    <3>7. QED
      BY <2>9, <3>2, <3>3, <3>5, <3>6
  <2>14. "child" \in Elements
    BY DEF Elements
  <2>15. QED
    BY <2>1, <2>2, <2>3, <2>6, <2>7, <2>8, <2>9, <2>13, <2>14, Ran
<1>7. QED
  BY <1>5, <1>6

LEMMA RunPlain ==
    ASSUME NEW w, RunInv(w), At("handle"), page.stack[1].rest # <<>>, NEW h, h = Head(page.stack[1].rest),
           h.kind # "live", NEW r, r = Tail(page.stack[1].rest), NEW s, s = Resting(page, 1, r),
           Run(s, h, page.stack[1].elem, page.stack[1].type, page.stack[2].n)
    PROVE  RunInv(w)'
<1> DEFINE k == page.stack
           g == page.stack[1]
<1>1. page \in Pages /\ Chain(k) /\ Filed(k, w, calls) /\ events \in Nat
  BY DEF RunInv, Stands
<1>2. k \in Seq(Frames) /\ k # <<>> /\ 1 \in DOMAIN k /\ g.fn = "handle" /\ g \in Frames
  BY <1>1, TopOf
<1>3. g.rest \in Seq(Entry) /\ g.type \in AllTypes /\ g.elem \in Elements
  <2>1. g \in Handles
    BY <1>2, FrameKinds
  <2>2. QED
    BY <2>1 DEF Handles
<1>4. 2 \in DOMAIN k /\ isMain(k[2])
  <2>1. 1 + 1 = 2
    OBVIOUS
  <2>2. QED
    BY <1>1, <1>2, <2>1 DEF Chain, Link
<1>5. /\ FallsTo(page, s) /\ DOMAIN s.stack = DOMAIN k /\ Weaker(s.stack[1], g)
      /\ s.stack[1].rest = r
      /\ \A j \in DOMAIN k : j # 1 => s.stack[j] = k[j]
  <2>1. Shorter(r, g.rest)
    BY DEF Shorter
  <2>2. QED
    BY <1>1, <1>2, <2>1, RestFalls
<1>6. Listed(g.rest, g.elem, g.type, w, calls)
  BY <1>1, <1>2 DEF Filed, Fits
<1>7. 1 \in DOMAIN g.rest /\ h = g.rest[1] /\ \A j \in DOMAIN s.stack[1].rest : s.stack[1].rest[j].id # h.id
  <2>1. PICK q : q = g.rest
    OBVIOUS
  <2>2. q \in Seq(Entry) /\ q # <<>> /\ Distinct(q) /\ h = Head(q) /\ s.stack[1].rest = Tail(q)
    BY <1>3, <1>5, <1>6, <2>1 DEF Listed
  <2>3. 1 \in DOMAIN q /\ h = q[1] /\ \A j \in DOMAIN Tail(q) : Tail(q)[j].id # q[1].id
    BY <2>2, HeadOff
  <2>4. QED
    BY <2>1, <2>2, <2>3
<1>8. h.id \in 1 .. calls /\ w[h.id] = <<g.elem, g.type>>
  BY <1>6, <1>7 DEF Listed
<1>9. h.id \in ranOnce => reentered
  BY <1>2, <1>7 DEF RunInv, Onced, Gone, GoneFrom
<1>10. 1 \in DOMAIN s.stack /\ s.stack[1].fn = "handle" /\ s.stack[1].elem = g.elem /\ s.stack[2] = k[2]
  <2>1. s.stack[1].fn = "handle" /\ s.stack[1].elem = g.elem
    BY <1>2, <1>5 DEF Weaker
  <2>2. 1 \in DOMAIN s.stack /\ s.stack[2] = k[2]
    BY <1>2, <1>4, <1>5
  <2>3. QED
    BY <2>1, <2>2
<1>11. Keeps(page, s) /\ s \in Pages
  BY <1>5, FallsKeep DEF FallsTo
<1>12. Stands(s, w, calls)
  BY <1>11 DEF Keeps, RunInv
<1>13. s.stack \in Seq(Frames) /\ s.stack # <<>> /\ Chain(s.stack)
  <2>1. s.stack \in Seq(Frames)
    BY <1>11 DEF Pages
  <2>2. s.stack # <<>>
    BY <1>10
  <2>3. QED
    BY <1>12, <2>1, <2>2 DEF Stands
<1>14. ASSUME ~Held(h.id), NEW i \in DOMAIN s.stack, s.stack[i].fn = "handle", NEW j \in DOMAIN s.stack[i].rest
       PROVE  s.stack[i].rest[j].id # h.id
  <2>1. CASE i = 1
    BY <1>7, <1>14, <2>1
  <2>2. CASE i # 1
    <3>1. s.stack[i] = k[i] /\ i \in 2 .. Len(k)
      BY <1>2, <1>5, <1>14, <2>2
    <3>2. k[i] \in Handles
      BY <1>2, <1>5, <1>14, <3>1, FrameKinds
    <3>3. k[i].rest \in Seq(Entry)
      BY <3>2 DEF Handles
    <3>4. k[i].rest[j] \in ToSet(k[i].rest)
      BY <1>14, <3>1, <3>3 DEF ToSet
    <3>5. QED
      BY <1>14, <3>1, <3>4 DEF Held
  <2>3. QED
    BY <2>1, <2>2
<1>15. ~Held(h.id) => GoneFrom(s.stack, h.id)
  BY <1>14 DEF GoneFrom
<1>16. ASSUME ~overlapped
       PROVE  /\ <<k[2].n, h.id, g.elem>> \notin ran /\ k[2].n \in Numbers(events) /\ NoNative(s.stack)
              /\ Exact(s.stack, s.triggered, ran \union {<<k[2].n, h.id, g.elem>>}, events, w)
  <2>1. Exact(k, page.triggered, ran, events, w)
    BY <1>16 DEF RunInv, Exactly
  <2>2. <<k[2].n, h.id, g.elem>> \notin ran
    <3>1. 1 + 1 = 2
      OBVIOUS
    <3>2. NotYet(k, ran)
      BY <2>1 DEF Exact
    <3>3. QED
      BY <1>2, <1>7, <3>1, <3>2 DEF NotYet
  <2>3. k[2].n \in Numbers(events)
    <3>1. Main(k, 2)
      BY <1>4 DEF Main
    <3>2. QED
      BY <1>4, <2>1, <3>1 DEF Exact, Numbered
  <2>4. Exact(s.stack, s.triggered, ran, events, w)
    BY <1>1, <1>5, <2>1, FallsKeep
  <2>5. NoNative(s.stack)
    BY <1>10, <2>4, NoMethod DEF Exact, CallsNative
  <2>6. w[h.id] # LivePlace
    BY <1>3, <1>8 DEF LivePlace, Elements
  <2>7. Exact(s.stack, s.triggered, ran \union {<<s.stack[2].n, h.id, s.stack[1].elem>>}, events, w)
    BY <1>7, <1>10, <1>13, <2>4, <2>6, RanPlain
  <2>8. QED
    BY <1>10, <2>2, <2>3, <2>5, <2>7
<1>17. QED
  BY <1>3, <1>5, <1>8, <1>9, <1>10, <1>15, <1>16, Ran

\* The event below the loop of s has fired live handlers.
Firing(s) == [s EXCEPT !.stack[2].liveFired = TRUE]
LEMMA FiringOn ==
    ASSUME NEW s \in Pages, 2 \in DOMAIN s.stack, s.stack[1].fn = "handle", isMain(s.stack[2]),
           s.stack[2].cur = "document", s.stack[2].phase = "bubble"
    PROVE  /\ Firing(s) \in Pages /\ Firing(s).live = s.live /\ Firing(s).triggered = s.triggered
           /\ Fires(s.stack, Firing(s).stack) /\ Keeps(s, Firing(s))
<1> DEFINE g == s.stack[2]
           f == [g EXCEPT !.liveFired = TRUE]
           l == [s.stack EXCEPT ![2] = f]
           t == Firing(s)
<1>1. s.stack \in Seq(Frames) /\ g \in Frames /\ s.triggered \in AllTypes \union {"none"}
  BY DEF Pages
<1>2. t = With(s, l, s.triggered)
  BY DEF Firing, With, Pages
<1>3. f \in Frames /\ f.fn = g.fn /\ f.type = g.type /\ f.n = g.n /\ f.cur = g.cur /\ f.phase = g.phase /\ f.liveFired = TRUE
  BY <1>1, Flagged
<1> HIDE DEF f
<1>4. l \in Seq(Frames) /\ DOMAIN l = DOMAIN s.stack /\ l[2] = f /\ \A j \in DOMAIN s.stack : j # 2 => l[j] = s.stack[j]
  BY <1>1, <1>3, Replacing
<1> HIDE DEF l, t
<1>5. t \in Pages /\ Same(s, t, {"stack", "triggered"}) /\ t.stack = l /\ t.triggered = s.triggered
  BY <1>1, <1>2, <1>4, WithStack
<1>6. Fires(s.stack, t.stack)
  BY <1>1, <1>3, <1>4, <1>5 DEF Fires
<1>7. Keeps(s, t)
  BY <1>5, <1>6, StepKeeps DEF Steps
<1>8. t.live = s.live
  BY <1>5 DEF Same, Fields
<1>9. QED
  BY <1>5, <1>6, <1>7, <1>8 DEF t

LEMMA RunFires ==
    ASSUME NEW w, RunInv(w), At("handle"), page.stack[1].rest # <<>>, Head(page.stack[1].rest).kind = "live",
           NEW r, r = Tail(page.stack[1].rest), NEW s, s = Resting(page, 1, r),
           page' = liveHandler(s), UNCHANGED <<calls, events, history>>
    PROVE  RunInv(w)'
<1> DEFINE k == page.stack
           g == page.stack[1]
<1>1. page \in Pages /\ Chain(k) /\ Filed(k, w, calls) /\ events \in Nat
  BY DEF RunInv, Stands
<1>2. k \in Seq(Frames) /\ k # <<>> /\ 1 \in DOMAIN k /\ Top = g /\ g.fn = "handle" /\ g \in Frames
  BY <1>1, TopOf
<1>3. g.rest \in Seq(Entry) /\ g.type \in AllTypes /\ g.elem \in Elements
  <2>1. g \in Handles
    BY <1>2, FrameKinds
  <2>2. QED
    BY <2>1 DEF Handles
<1>4. /\ 2 \in DOMAIN k /\ isMain(k[2]) /\ k[2].cur = g.elem /\ k[2].phase = "bubble" /\ Below = k[2]
      /\ k[2] \in Triggers \union Natives
  <2>1. 1 + 1 = 2
    OBVIOUS
  <2>a. Link(k, 1)
    BY <1>1, <1>2 DEF Chain
  <2>2. 2 \in DOMAIN k /\ isMain(k[2]) /\ k[2].cur = g.elem /\ k[2].phase = "bubble"
    BY <1>2, <2>1, <2>a DEF Link
  <2>3. k[2] \in Frames
    BY <1>2, <2>2
  <2>4. QED
    BY <2>2, <2>3, FrameKinds DEF Below, isMain
<1>5. /\ FallsTo(page, s) /\ DOMAIN s.stack = DOMAIN k /\ Weaker(s.stack[1], g)
      /\ \A j \in DOMAIN k : j # 1 => s.stack[j] = k[j]
  <2>1. Shorter(r, g.rest)
    BY DEF Shorter
  <2>2. QED
    BY <1>1, <1>2, <2>1, RestFalls
<1>6. g.elem = "document"
  <2>1. Listed(g.rest, g.elem, g.type, w, calls)
    BY <1>1, <1>2 DEF Filed, Fits
  <2>2. 1 \in DOMAIN g.rest /\ Head(g.rest) = g.rest[1]
    BY <1>3, HeadOff
  <2>3. QED
    BY <2>1, <2>2 DEF Listed
<1> DEFINE fire == ~k[2].liveFired /\ page.live # <<>>
           due == OfType(page.live, g.type)
           f == [fn |-> "live", type |-> g.type, rest |-> due, stop |-> FALSE]
<1>7. \/ page' = s
      \/ fire /\ page' = Firing(s)
      \/ fire /\ page' = Push(Firing(s), f)
  BY <1>2, <1>4 DEF liveHandler, Firing
<1>8. CASE page' = s
  BY <1>5, <1>8, FallsBack
<1>9. CASE fire /\ page' \in {Firing(s), Push(Firing(s), f)}
  <2>1. /\ s \in Pages /\ 2 \in DOMAIN s.stack /\ s.stack[1].fn = "handle" /\ s.stack[1].elem = "document"
        /\ s.stack[2] = k[2] /\ s.live = page.live /\ 1 \in DOMAIN s.stack
    <3>1. s.stack[1].fn = "handle" /\ s.stack[1].elem = "document"
      BY <1>2, <1>5, <1>6 DEF Weaker
    <3>2. s \in Pages /\ s.live = page.live
      BY <1>5 DEF FallsTo, Same, Fields
    <3>3. QED
      BY <1>2, <1>4, <1>5, <3>1, <3>2
  <2>2. Keeps(page, s)
    BY <1>5, FallsKeep
  <2>3. Stands(s, w, calls) /\ Chain(s.stack)
    BY <2>2 DEF Keeps, RunInv, Stands
  <2>a. PICK u : u = Firing(s)
    OBVIOUS
  <2>4. u \in Pages /\ u.live = page.live /\ u.triggered = s.triggered /\ Fires(s.stack, u.stack) /\ Keeps(s, u)
    BY <1>4, <1>6, <2>1, <2>a, FiringOn
  <2>5. Stands(u, w, calls) /\ Chain(u.stack) /\ Keeps(page, u)
    BY <2>2, <2>3, <2>4, KeepsKeeps DEF Keeps, Stands
  <2>6. /\ 1 \in DOMAIN u.stack /\ u.stack[1].fn = "handle" /\ u.stack[1].elem = "document"
        /\ 2 \in DOMAIN u.stack /\ u.stack[2].liveFired = TRUE /\ u.stack[2].n = k[2].n
    BY <2>1, <2>4 DEF Fires
  <2>7. ASSUME ~overlapped
        PROVE  /\ Exact(u.stack, u.triggered, ran, events, w) /\ NoNative(u.stack)
               /\ ~RanLive(ran, k[2].n, w)
    <3>1. Exact(k, page.triggered, ran, events, w)
      BY <2>7 DEF RunInv, Exactly
    <3>2. Exact(s.stack, s.triggered, ran, events, w)
      BY <1>1, <1>5, <3>1, FallsKeep
    <3>3. Exact(u.stack, u.triggered, ran, events, w)
      BY <2>3, <2>4, <3>2, FiresExact
    <3>4. NoNative(u.stack)
      BY <2>6, <3>3, NoMethod DEF Exact, CallsNative
    <3>5. Quiet(k[2], ran, w)
      <4>1. Main(k, 2)
        BY <1>4 DEF Main
      <4>2. QED
        BY <1>4, <3>1, <4>1 DEF Exact, Still
    <3>6. k[2].liveFired = FALSE
      BY <1>4, <1>9 DEF Triggers, Natives
    <3>7. QED
      BY <3>3, <3>4, <3>5, <3>6 DEF Quiet
  <2>8. due \in Seq(LiveEntry) /\ Alive(due, w, calls)
    <3>1. page.live \in Seq(LiveEntry) /\ Alive(page.live, w, calls) /\ Single(page.live)
      BY <1>1 DEF Pages, RunInv, Stands, Placed
    <3>2. QED
      BY <3>1, DueAlive
  <2>9. f \in Frames /\ f.fn = "live" /\ f.rest = due /\ f.type = g.type
    <3> HIDE DEF due
    <3>1. QED
      BY <1>3, <2>8 DEF Lives, Frames
  <2>10. f.rest = OfType(u.live, f.type)
    BY <2>4, <2>9
  <2> HIDE DEF f, due
  <2>11. UNCHANGED <<calls, events, ran, again, ranOnce, onceAgain, reentered>> /\ overlapped' = overlapped
    BY DEF history
  <2>12. CASE page' = Firing(s)
    <3>1. page' = u
      BY <2>a, <2>12
    <3>2. QED
      BY <2>5, <2>7, <2>11, <3>1, Onward
  <2>13. CASE page' = Push(Firing(s), f)
    <3>0. page' = Push(u, f)
      BY <2>a, <2>13
    <3>1. page' \in Pages /\ Same(u, page', {"stack", "triggered"}) /\ On(u.stack, page'.stack, f) /\ page'.triggered = u.triggered
      BY <2>4, <2>9, <3>0, Pushing
    <3>2. 1 + 1 = 2 /\ 1 + 2 = 3 /\ 2 + 1 = 3
      OBVIOUS
    <3>3. /\ page'.stack[1] = f /\ 2 \in DOMAIN page'.stack /\ page'.stack[2] = u.stack[1]
          /\ 3 \in DOMAIN page'.stack /\ page'.stack[3] = u.stack[2]
      <4>1. /\ page'.stack[1] = f
            /\ \A i \in DOMAIN u.stack : i + 1 \in DOMAIN page'.stack /\ page'.stack[i + 1] = u.stack[i]
        BY <3>1 DEF On
      <4>2. QED
        BY <2>6, <3>2, <4>1
    <3>4. Link(page'.stack, 1)
      BY <2>6, <2>9, <3>2, <3>3 DEF Link
    <3>5. Brings(u, f)
      BY <2>9, <2>10 DEF Brings
    <3>6. Keeps(u, page')
      BY <3>1, <3>4, <3>5, StepKeeps DEF Steps
    <3>7. Keeps(page, page')
      BY <2>5, <3>6, KeepsKeeps
    <3>8. ASSUME ~overlapped PROVE Exact(page'.stack, page'.triggered, ran, events, w)
      <4>1. Exact(u.stack, u.triggered, ran, events, w) /\ NoNative(u.stack) /\ ~RanLive(ran, k[2].n, w)
        BY <2>7, <3>8
      <4>2. ~CallsNative(f) /\ ~Main(page'.stack, 1)
        BY <2>9, <3>3 DEF CallsNative, Main, isMain
      <4>3. Calls(page'.stack, u.triggered)
        BY <3>1, <4>1, <4>2, NothingCalled
      <4>4. Due(page'.stack, ran)
        <5>1. ASSUME NEW j \in DOMAIN f.rest PROVE <<page'.stack[3].n, f.rest[j].id, "child">> \notin ran
          <6>1. w[f.rest[j].id] = LivePlace
            BY <2>8, <2>9, <5>1 DEF Alive
          <6>2. page'.stack[3].n = k[2].n
            BY <2>6, <3>3
          <6>3. SUFFICES ASSUME <<k[2].n, f.rest[j].id, "child">> \in ran PROVE FALSE
            BY <6>2
          <6>4. QED
            BY <4>1, <6>1, <6>3 DEF RanLive
        <5>2. QED
          BY <2>9, <3>3, <5>1 DEF Due
      <4>5. events <= events /\ (2 \in DOMAIN u.stack => ~CallsNative(u.stack[2]))
        BY <1>1, <4>1 DEF NoNative
      <4>6. QED
        BY <1>1, <2>5, <3>1, <4>1, <4>2, <4>3, <4>4, <4>5, OnExact
    <3>9. QED
      BY <2>11, <3>7, <3>8, Onward
  <2>14. QED
    BY <1>9, <2>12, <2>13
<1>10. QED
  BY <1>7, <1>8, <1>9

LEMMA RunHandle ==
    ASSUME NEW w, RunInv(w), handle
    PROVE  RunInv(w)'
<1> DEFINE k == page.stack
           g == page.stack[1]
<1>1. At("handle") /\ page \in Pages /\ Chain(k)
  BY DEF handle, RunInv, Stands
<1>2. k # <<>> /\ 1 \in DOMAIN k /\ Top = g /\ g.fn = "handle"
  BY <1>1, TopOf
<1>3. Below = k[2]
  BY DEF Below
<1>r. PICK r : r = Tail(g.rest)
  OBVIOUS
<1>s. PICK s : s = Resting(page, 1, r)
  OBVIOUS
<1>h. PICK h : h = Head(g.rest)
  OBVIOUS
<1>4. \/ g.rest = <<>> /\ page' = Popped /\ UNCHANGED <<calls, events, history>>
      \/ g.rest # <<>> /\ page' = s /\ UNCHANGED <<calls, events, history>>
      \/ g.rest # <<>> /\ h.kind = "live" /\ page' = liveHandler(s) /\ UNCHANGED <<calls, events, history>>
      \/ g.rest # <<>> /\ h.kind # "live" /\ Run(s, h, g.elem, g.type, k[2].n)
  BY <1>2, <1>3, <1>r, <1>s, <1>h DEF handle, Resting
<1>5. CASE g.rest = <<>> /\ page' = Popped /\ UNCHANGED <<calls, events, history>>
  <2>1. FallsTo(page, page')
    BY <1>1, <1>2, <1>5, PoppedFalls
  <2>2. QED
    BY <1>5, <2>1, FallsBack
<1>6. CASE g.rest # <<>> /\ page' = s /\ UNCHANGED <<calls, events, history>>
  <2>1. Shorter(r, g.rest)
    BY <1>6, <1>r DEF Shorter
  <2>2. FallsTo(page, s)
    BY <1>1, <1>2, <1>s, <2>1, RestFalls
  <2>3. QED
    BY <1>6, <2>2, FallsBack
<1>7. CASE g.rest # <<>> /\ h.kind = "live" /\ page' = liveHandler(s) /\ UNCHANGED <<calls, events, history>>
  BY <1>1, <1>7, <1>r, <1>s, <1>h, RunFires
<1>8. CASE g.rest # <<>> /\ h.kind # "live" /\ Run(s, h, g.elem, g.type, k[2].n)
  BY <1>1, <1>8, <1>r, <1>s, <1>h, RunPlain
<1>9. QED
  BY <1>4, <1>5, <1>6, <1>7, <1>8

-----------------------------------------------------------------------------
(***************************************************************************)
(* Handlers are bound and unbound.                                         *)
(***************************************************************************)
Unheld(s, e, y, id) == \A j \in DOMAIN s.handlers[e][y] : s.handlers[e][y][j].id # id

LEMMA LastAdded ==
    ASSUME NEW S, NEW q \in Seq(S), NEW h \in S, NEW r, r = Append(q, h)
    PROVE  /\ r \in Seq(S)
           /\ \A j \in DOMAIN r : (j \in DOMAIN q /\ r[j] = q[j]) \/ (j = Len(q) + 1 /\ r[j] = h)
<1>1. r \in Seq(S) /\ Len(r) = Len(q) + 1 /\ Len(q) \in Nat
  BY AppendProperties
<1>2. \A j \in 1 .. Len(q) : r[j] = q[j]
  BY AppendProperties
<1>3. r[Len(q) + 1] = h
  BY AppendProperties
<1>4. QED
  BY <1>1, <1>2, <1>3

\* After a further call the handlers are where they were.
LEMMA PlacedMore ==
    ASSUME NEW s \in Pages, NEW w, NEW c \in Nat, Placed(s, w, c), NEW w2, \A i \in 1 .. c : w2[i] = w[i]
    PROVE  /\ Placed(s, w2, c + 1) /\ \A e \in Elements, y \in AllTypes : Unheld(s, e, y, c + 1)
           /\ \A j \in DOMAIN s.live : s.live[j].id # c + 1
<1>1. 1 .. c \subseteq 1 .. c + 1 /\ c + 1 \notin 1 .. c
  OBVIOUS
<1>2. ASSUME NEW e \in Elements, NEW y \in AllTypes
      PROVE  Listed(s.handlers[e][y], e, y, w2, c + 1) /\ Unheld(s, e, y, c + 1)
  <2>1. Listed(s.handlers[e][y], e, y, w, c)
    BY DEF Placed
  <2>2. QED
    BY <1>1, <2>1 DEF Listed, Unheld
<1>3. Alive(s.live, w, c)
  BY DEF Placed
<1>4. Alive(s.live, w2, c + 1) /\ \A j \in DOMAIN s.live : s.live[j].id # c + 1
  BY <1>1, <1>3 DEF Alive
<1>5. QED
  BY <1>2, <1>4 DEF Placed

LEMMA FiledMore ==
    ASSUME NEW k, NEW w, NEW c \in Nat, Filed(k, w, c), NEW w2, \A i \in 1 .. c : w2[i] = w[i]
    PROVE  Filed(k, w2, c + 1)
<1> SUFFICES ASSUME NEW i \in DOMAIN k PROVE Fits(k[i], w2, c + 1)
  BY DEF Filed
<1>1. 1 .. c \subseteq 1 .. c + 1
  OBVIOUS
<1>2. Fits(k[i], w, c)
  BY DEF Filed
<1>3. k[i].fn = "handle" => Listed(k[i].rest, k[i].elem, k[i].type, w2, c + 1)
  BY <1>1, <1>2 DEF Fits, Listed
<1>4. k[i].fn = "live" => Alive(k[i].rest, w2, c + 1) /\ Distinct(k[i].rest)
  BY <1>1, <1>2 DEF Fits, Alive
<1>5. QED
  BY <1>3, <1>4 DEF Fits

LEMMA AddPlaced ==
    ASSUME NEW s \in Pages, NEW w, NEW c, Placed(s, w, c), NEW e \in Elements, NEW y \in AllTypes,
           NEW h \in Entry, NEW t, Adds(s, t, e, y, h), h.id \in 1 .. c, Unheld(s, e, y, h.id),
           h.kind = "live" => e = "document" /\ w[h.id] = LivePlace, h.kind # "live" => w[h.id] = <<e, y>>
    PROVE  /\ t \in Pages /\ Placed(t, w, c) /\ t.stack = s.stack /\ t.triggered = s.triggered
           /\ t.live = s.live
           /\ \A x \in Elements, z \in AllTypes : x # e \/ z # y => t.handlers[x][z] = s.handlers[x][z]
           /\ \A id : Gone(s, id) /\ id # h.id => Gone(t, id)
<1> DEFINE q == s.handlers[e][y]
           r == Append(q, h)
<1>1. q \in Seq(Entry)
  BY DEF Pages
<1>2. \A j \in DOMAIN r : (j \in DOMAIN q /\ r[j] = q[j]) \/ (j = Len(q) + 1 /\ r[j] = h)
  BY <1>1, LastAdded
<1>3. t \in Pages /\ t.stack = s.stack /\ t.triggered = s.triggered /\ t.live = s.live
  BY DEF Adds, Same, Fields, Binding
<1>4. /\ t.handlers[e][y] = r
      /\ \A x \in Elements, z \in AllTypes : x # e \/ z # y => t.handlers[x][z] = s.handlers[x][z]
  BY DEF Adds, Pages
<1> HIDE DEF r
<1>5. Listed(q, e, y, w, c)
  BY DEF Placed
<1>6. \A j \in DOMAIN q : q[j].id # h.id
  BY DEF Unheld
<1> HIDE DEF q
<1>7. Listed(r, e, y, w, c)
  <2>1. Distinct(r)
    BY <1>2, <1>5, <1>6 DEF Listed, Distinct
  <2>2. QED
    BY <1>2, <1>5, <2>1 DEF Listed
<1>8. Placed(t, w, c)
  <2>1. ASSUME NEW x \in Elements, NEW z \in AllTypes PROVE Listed(t.handlers[x][z], x, z, w, c)
    BY <1>4, <1>7 DEF Placed
  <2>2. QED
    BY <1>3, <2>1 DEF Placed
<1>9. ASSUME NEW id, Gone(s, id), id # h.id PROVE Gone(t, id)
  <2>1. ASSUME NEW x \in Elements, NEW z \in AllTypes, NEW j \in DOMAIN t.handlers[x][z]
        PROVE  t.handlers[x][z][j].id # id
    <3>1. CASE x = e /\ z = y
      BY <1>2, <1>4, <1>9, <2>1, <3>1 DEF Gone, q
    <3>2. CASE ~(x = e /\ z = y)
      BY <1>4, <1>9, <2>1, <3>2 DEF Gone
    <3>3. QED
      BY <3>1, <3>2
  <2>2. QED
    BY <1>3, <1>9, <2>1 DEF Gone
<1>10. QED
  BY <1>3, <1>4, <1>8, <1>9

LEMMA LivePlaced ==
    ASSUME NEW s \in Pages, NEW w, NEW c, Placed(s, w, c), NEW y \in AllTypes, NEW id \in Nat, id \in 1 .. c,
           w[id] = LivePlace, Unheld(s, "document", y, id),
           \A j \in DOMAIN s.live : s.live[j] # [id |-> id, type |-> y],
           NEW t, t = specialLive(s, y, id)
    PROVE  /\ t \in Pages /\ Placed(t, w, c) /\ t.stack = s.stack /\ t.triggered = s.triggered
           /\ \A x \in Elements, z \in AllTypes : x # "document" \/ z # y => t.handlers[x][z] = s.handlers[x][z]
           /\ t.live = Append(s.live, [id |-> id, type |-> y])
           /\ \A x : Gone(s, x) /\ x # id => Gone(t, x)
<1> DEFINE n == [id |-> id, type |-> y]
           h == [id |-> id, kind |-> "live", ns |-> "sel"]
           l == Append(s.live, n)
           u == [s EXCEPT !.live = l]
<1>1. t = add(u, "document", y, h)
  BY DEF specialLive
<1>2. n \in LiveEntry /\ n.id = id /\ h \in Entry /\ h.id = id /\ h.kind = "live" /\ s.live \in Seq(LiveEntry)
  BY DEF LiveEntry, Entry, Pages
<1>3. \A j \in DOMAIN s.live : s.live[j] # n
  OBVIOUS
<1> HIDE DEF n, h
<1>4. l \in Seq(LiveEntry) /\ \A j \in DOMAIN l : (j \in DOMAIN s.live /\ l[j] = s.live[j]) \/ (j = Len(s.live) + 1 /\ l[j] = n)
  BY <1>2, LastAdded
<1> HIDE DEF l
<1>5. u \in Pages /\ Same(s, u, {"live"}) /\ u.live = l
  BY <1>4 DEF Pages, Same, Fields
<1> HIDE DEF u
<1>6. u.handlers = s.handlers /\ u.stack = s.stack /\ u.triggered = s.triggered
  BY <1>5 DEF Same, Fields
<1>7. Alive(l, w, c) /\ Single(l)
  <2>1. Alive(s.live, w, c) /\ Single(s.live)
    BY DEF Placed
  <2>2. Alive(l, w, c)
    BY <1>2, <1>4, <2>1 DEF Alive
  <2>3. Single(l)
    BY <1>3, <1>4, <2>1 DEF Single
  <2>4. QED
    BY <2>2, <2>3
<1>8. Placed(u, w, c)
  BY <1>5, <1>6, <1>7 DEF Placed
<1>9. Adds(u, t, "document", y, h)
  BY <1>1, <1>2, <1>5, AddEffect DEF Elements
<1>10. Unheld(u, "document", y, h.id)
  BY <1>2, <1>6 DEF Unheld
<1>11. \A x : Gone(s, x) => Gone(u, x)
  BY <1>6 DEF Gone
<1>12. "document" \in Elements
  BY DEF Elements
<1>13. /\ t \in Pages /\ Placed(t, w, c) /\ t.stack = u.stack /\ t.triggered = u.triggered /\ t.live = u.live
       /\ \A x \in Elements, z \in AllTypes : x # "document" \/ z # y => t.handlers[x][z] = u.handlers[x][z]
       /\ \A x : Gone(u, x) /\ x # h.id => Gone(t, x)
  BY <1>2, <1>5, <1>8, <1>9, <1>10, <1>12, AddPlaced
<1>14. QED
  BY <1>2, <1>5, <1>6, <1>11, <1>13 DEF l, n

\* What was run before does not depend on where new handlers are.
LEMMA OldExact ==
    ASSUME NEW k, NEW T, NEW R, NEW E, NEW w, Exact(k, T, R, E, w), NEW w2, \A r \in R : w2[r[2]] = w[r[2]]
    PROVE  Exact(k, T, R, E, w2)
<1>1. \A n : RanLive(R, n, w2) <=> RanLive(R, n, w)
  BY DEF RanLive
<1>2. ASSUME NEW f, Quiet(f, R, w) PROVE Quiet(f, R, w2)
  BY <1>1, <1>2 DEF Quiet
<1>3. Still(k, R, w2)
  BY <1>2 DEF Exact, Still
<1>4. QED
  BY <1>3 DEF Exact

LEMMA Rebinding ==
    ASSUME NEW w, RunInv(w), calls' = calls + 1,
           UNCHANGED <<events, ran, again, overlapped, ranOnce, onceAgain, reentered>>,
           NEW w2, \A i \in 1 .. calls : w2[i] = w[i],
           page' \in Pages, page'.stack = page.stack, page'.triggered = page.triggered,
           Placed(page', w2, calls + 1), \A id \in 1 .. calls : Gone(page, id) => Gone(page', id)
    PROVE  RunInv(w2)'
<1>1. calls \in Nat /\ calls' \in Nat /\ 1 .. calls \subseteq 1 .. calls'
  BY DEF RunInv
<1>2. Stands(page', w2, calls')
  <2>1. Filed(page.stack, w2, calls + 1)
    BY <1>1, FiledMore DEF RunInv, Stands
  <2>2. Chain(page.stack)
    BY DEF RunInv, Stands
  <2>3. QED
    BY <2>1, <2>2 DEF Stands
<1>3. Onced(w2)'
  BY <1>1 DEF RunInv, Onced
<1>4. ASSUME ~overlapped'
      PROVE  /\ ~again' /\ Exactly(page, w2)'
             /\ ran' \subseteq Numbers(events') \X (1 .. calls') \X Elements
  <2>1. /\ ~again /\ Exact(page.stack, page.triggered, ran, events, w)
        /\ ran \subseteq Numbers(events) \X (1 .. calls) \X Elements
    BY <1>4 DEF RunInv, Exactly
  <2>2. \A r \in ran : w2[r[2]] = w[r[2]]
    BY <2>1
  <2>3. Exact(page.stack, page.triggered, ran, events, w2)
    BY <2>1, <2>2, OldExact
  <2>4. ran' \subseteq Numbers(events') \X (1 .. calls') \X Elements
    BY <1>1, <2>1
  <2>5. QED
    BY <2>1, <2>3, <2>4 DEF Exactly
<1>5. QED
  BY <1>1, <1>2, <1>3, <1>4 DEF RunInv

LEMMA RunUnbind ==
    ASSUME NEW w, RunInv(w), Call, Unbind
    PROVE  RunInv(w)'
<1>1. page \in Pages /\ calls \in Nat /\ Stands(page, w, calls)
  BY DEF RunInv, Stands
<1>2. calls' = calls + 1 /\ UNCHANGED <<events, ran, again, overlapped, ranOnce, onceAgain, reentered>>
  BY DEF Call, Unbind
<1>3. Fewer(page, page')
  <2>1. ASSUME NEW e \in Elements, NEW t \in Types, page.handlers[e][t] # <<>> /\ page' = remove(page, e, t, 1 .. MaxCalls)
        PROVE  Fewer(page, page')
    BY <1>1, <2>1, RemoveEffect, EventsAssumption
  <2>2. ASSUME NEW e \in Elements, NEW t \in Types, NEW h, page' = remove(page, e, t, {h.id})
        PROVE  Fewer(page, page')
    BY <1>1, <2>2, RemoveEffect, EventsAssumption
  <2>3. ASSUME NEW e \in Elements, page' = unbindNamespace(page, e, "a")
        PROVE  Fewer(page, page')
    BY <1>1, <2>3, NamespaceEffect
  <2>4. ASSUME NEW t \in Types, NEW l, page' = die(page, t, l.id)
        PROVE  Fewer(page, page')
    BY <1>1, <2>4, DieEffect, EventsAssumption
  <2>5. QED
    BY <2>1, <2>2, <2>3, <2>4 DEF Unbind
<1>4. Keeps(page, page')
  BY <1>3, FewerKeeps
<1>5. page' \in Pages /\ page'.stack = page.stack /\ page'.triggered = page.triggered
  BY <1>3 DEF Fewer, Same, Fields, Binding
<1>6. Placed(page', w, calls)
  BY <1>1, <1>4 DEF Keeps, Stands
<1>7. Placed(page', w, calls + 1)
  BY <1>1, <1>5, <1>6, PlacedMore
<1>8. QED
  BY <1>2, <1>4, <1>5, <1>7, Rebinding DEF Keeps

LEMMA RunBind ==
    ASSUME NEW w \in [Nat -> Places], RunInv(w), Call, Bind
    PROVE  \E w2 \in [Nat -> Places] : RunInv(w2)'
<1>1. page \in Pages /\ calls \in Nat /\ Placed(page, w, calls)
  BY DEF RunInv, Stands
<1>2. calls' = calls + 1 /\ UNCHANGED <<events, ran, again, overlapped, ranOnce, onceAgain, reentered>>
  BY DEF Call, Bind
<1>3. PICK e \in Elements, t \in Types, ns \in Namespaces, kind \in Binds \ {"live"} :
         page' = add(page, e, t, [id |-> calls', kind |-> kind, ns |-> ns])
  BY DEF Bind
<1>a. PICK h : h = [id |-> calls', kind |-> kind, ns |-> ns]
  OBVIOUS
<1>b. PICK w2 : w2 = [w EXCEPT ![calls + 1] = <<e, t>>]
  OBVIOUS
<1>4. t \in AllTypes /\ kind \in {"fn", "once"}
  BY EventsAssumption
<1>5. h \in Entry /\ h.id = calls + 1 /\ h.kind # "live"
  <2>1. calls' \in Nat /\ calls' = calls + 1 /\ ns \in {"", "a", "sel"} /\ kind \in {"fn", "once", "live"} /\ kind # "live"
    <3>1. calls' \in Nat /\ calls' = calls + 1
      BY <1>1, <1>2
    <3>2. ns \in {"", "a", "sel"}
      BY DEF Namespaces
    <3>3. QED
      BY <1>4, <3>1, <3>2
  <2>2. QED
    BY <1>a, <2>1 DEF Entry
<1>6. page' = add(page, e, t, h)
  BY <1>3, <1>a
<1>7. w2 \in [Nat -> Places] /\ w2[calls + 1] = <<e, t>> /\ \A i \in 1 .. calls : w2[i] = w[i]
  BY <1>1, <1>4, <1>b DEF Places
<1>8. Placed(page, w2, calls + 1) /\ Unheld(page, e, t, calls + 1)
  <2>1. Placed(page, w2, calls + 1) /\ \A x \in Elements, y \in AllTypes : Unheld(page, x, y, calls + 1)
    BY <1>1, <1>7, PlacedMore
  <2>2. QED
    BY <1>4, <2>1
<1>9. Adds(page, page', e, t, h)
  BY <1>1, <1>4, <1>5, <1>6, AddEffect
<1>10. calls + 1 \in 1 .. calls + 1 /\ calls + 1 \notin 1 .. calls
  BY <1>1
<1>11. /\ page' \in Pages /\ Placed(page', w2, calls + 1) /\ page'.stack = page.stack /\ page'.triggered = page.triggered
       /\ \A id : Gone(page, id) /\ id # calls + 1 => Gone(page', id)
  BY <1>1, <1>4, <1>5, <1>7, <1>8, <1>9, <1>10, AddPlaced
<1>12. \A id \in 1 .. calls : Gone(page, id) => Gone(page', id)
  BY <1>10, <1>11
<1>13. RunInv(w2)'
  BY <1>2, <1>7, <1>11, <1>12, Rebinding
<1>14. QED
  BY <1>7, <1>13

LEMMA RunLive ==
    ASSUME NEW w \in [Nat -> Places], RunInv(w), Call, Live
    PROVE  \E w2 \in [Nat -> Places] : RunInv(w2)'
<1>1. page \in Pages /\ calls \in Nat /\ Placed(page, w, calls)
  BY DEF RunInv, Stands
<1>2. calls' = calls + 1 /\ UNCHANGED <<events, ran, again, overlapped, ranOnce, onceAgain, reentered>>
  BY DEF Call, Live
<1>3. PICK t \in Types : page' = live(page, t, calls')
  BY DEF Live
<1>b. PICK w2 : w2 = [w EXCEPT ![calls + 1] = LivePlace]
  OBVIOUS
<1> DEFINE id == calls + 1
           s1 == specialLive(page, t, id)
           s2 == specialLive(s1, "focusin", id)
<1>4. t \in AllTypes /\ "focusin" \in AllTypes /\ "document" \in Elements
  BY EventsAssumption DEF AllTypes, Elements
<1>5. page' = IF t = "focus" THEN s2 ELSE s1
  BY <1>2, <1>3 DEF live
<1>6. w2 \in [Nat -> Places] /\ w2[id] = LivePlace /\ \A i \in 1 .. calls : w2[i] = w[i]
  BY <1>1, <1>b DEF Places
<1>7. id \in Nat /\ id \in 1 .. id /\ id \notin 1 .. calls
  BY <1>1
<1>8. /\ Placed(page, w2, id) /\ \A e \in Elements, y \in AllTypes : Unheld(page, e, y, id)
      /\ \A j \in DOMAIN page.live : page.live[j].id # id
  BY <1>1, <1>6, PlacedMore
<1> HIDE DEF id
<1>9. \A y : \A j \in DOMAIN page.live : page.live[j] # [id |-> id, type |-> y]
  BY <1>8
<1>10. Unheld(page, "document", t, id)
  BY <1>4, <1>8
<1>11. /\ s1 \in Pages /\ Placed(s1, w2, id) /\ s1.stack = page.stack /\ s1.triggered = page.triggered
       /\ \A x \in Elements, z \in AllTypes : x # "document" \/ z # t => s1.handlers[x][z] = page.handlers[x][z]
       /\ s1.live = Append(page.live, [id |-> id, type |-> t])
       /\ \A x : Gone(page, x) /\ x # id => Gone(s1, x)
  BY <1>1, <1>4, <1>6, <1>7, <1>8, <1>9, <1>10, LivePlaced
<1> HIDE DEF s1
<1>12. ASSUME t = "focus"
       PROVE  /\ s2 \in Pages /\ Placed(s2, w2, id) /\ s2.stack = page.stack /\ s2.triggered = page.triggered
              /\ \A x : Gone(page, x) /\ x # id => Gone(s2, x)
  <2> DEFINE n == [id |-> id, type |-> t]
             m == [id |-> id, type |-> "focusin"]
  <2>1. n # m /\ n \in LiveEntry
    BY <1>4, <1>7, <1>12 DEF LiveEntry
  <2>2. \A j \in DOMAIN page.live : page.live[j] # m
    BY <1>9
  <2>3. page.live \in Seq(LiveEntry) /\ s1.live = Append(page.live, n)
    BY <1>1, <1>11 DEF Pages
  <2> HIDE DEF n, m
  <2>4. \A j \in DOMAIN s1.live : s1.live[j] # m
    BY <2>1, <2>2, <2>3, LastAdded
  <2>5. Unheld(s1, "document", "focusin", id)
    <3>1. s1.handlers["document"]["focusin"] = page.handlers["document"]["focusin"]
      BY <1>4, <1>11, <1>12
    <3>2. Unheld(page, "document", "focusin", id)
      BY <1>4, <1>8
    <3>3. QED
      BY <3>1, <3>2 DEF Unheld
  <2>6. \A j \in DOMAIN s1.live : s1.live[j] # [id |-> id, type |-> "focusin"]
    BY <2>4 DEF m
  <2>a. w2[id] = LivePlace /\ id \in Nat /\ id \in 1 .. id
    BY <1>6, <1>7
  <2>b. s1 \in Pages /\ Placed(s1, w2, id) /\ "focusin" \in AllTypes
    BY <1>4, <1>11
  <2>7. /\ s2 \in Pages /\ Placed(s2, w2, id) /\ s2.stack = s1.stack /\ s2.triggered = s1.triggered
        /\ \A x : Gone(s1, x) /\ x # id => Gone(s2, x)
    BY <2>a, <2>b, <2>5, <2>6, LivePlaced
  <2>8. QED
    BY <1>11, <2>7
<1> HIDE DEF s2
<1>13. /\ page' \in Pages /\ Placed(page', w2, id) /\ page'.stack = page.stack /\ page'.triggered = page.triggered
       /\ \A x : Gone(page, x) /\ x # id => Gone(page', x)
  BY <1>5, <1>11, <1>12
<1>14. \A x \in 1 .. calls : Gone(page, x) => Gone(page', x)
  BY <1>7, <1>13
<1>15. id = calls + 1
  BY DEF id
<1>16. RunInv(w2)'
  BY <1>2, <1>6, <1>13, <1>14, <1>15, Rebinding
<1>17. QED
  BY <1>6, <1>16

-----------------------------------------------------------------------------
\* Every handler is somewhere, and what RunInv says of the runs holds.
RunsInv == \E w \in [Nat -> Places] : RunInv(w)

LEMMA InitialRuns == ASSUME Init PROVE RunsInv
<1> DEFINE w == [i \in Nat |-> LivePlace]
<1>1. w \in [Nat -> Places]
  BY DEF Places
<1>2. /\ calls = 0 /\ events = 0 /\ ran = {} /\ ranOnce = {}
      /\ again = FALSE /\ onceAgain = FALSE /\ page.stack = <<>> /\ page.live = <<>>
      /\ page.handlers = [e \in Elements |-> [t \in AllTypes |-> <<>>]]
  BY DEF Init
<1>3. page \in Pages
  BY DEF Init, Pages
<1>p. PICK v : v = w
  OBVIOUS
<1> HIDE DEF w
<1>4. Placed(page, v, calls)
  <2>1. \A e \in Elements, t \in AllTypes : page.handlers[e][t] = <<>>
    BY <1>2
  <2>2. \A e \in Elements, t \in AllTypes : Listed(page.handlers[e][t], e, t, v, calls)
    BY <2>1 DEF Listed, Distinct
  <2>3. QED
    BY <1>2, <2>2 DEF Placed, Alive, Single
<1>5. Filed(page.stack, v, calls) /\ Chain(page.stack)
  BY <1>2 DEF Filed, Chain
<1>6. Onced(v)
  BY <1>2 DEF Onced
<1>7. Exactly(page, v)
  BY <1>2, NothingRan DEF Exactly
<1>8. MaxEvents \in Nat
  BY EventsAssumption
<1>9. RunInv(v)
  BY <1>2, <1>3, <1>4, <1>5, <1>6, <1>7, <1>8 DEF RunInv, Stands
<1>10. QED
  BY <1>1, <1>p, <1>9 DEF RunsInv

LEMMA StepRuns == ASSUME RunsInv, [Next]_vars PROVE RunsInv'
<1>1. PICK w \in [Nat -> Places] : RunInv(w)
  BY DEF RunsInv
<1>2. SUFFICES \E w2 \in [Nat -> Places] : RunInv(w2)'
  BY DEF RunsInv
<1>3. ASSUME Call PROVE \E w2 \in [Nat -> Places] : RunInv(w2)'
  <2>1. CASE Bind
    BY <1>1, <1>3, <2>1, RunBind
  <2>2. CASE Live
    BY <1>1, <1>3, <2>2, RunLive
  <2>3. CASE Unbind
    BY <1>1, <1>3, <2>3, RunUnbind
  <2>4. QED
    BY <1>3, <2>1, <2>2, <2>3 DEF Call
<1>4. CASE trigger
  BY <1>1, <1>4, RunTrigger
<1>5. CASE UserEvent
  BY <1>1, <1>5, RunUserEvent
<1>6. CASE triggerStep
  BY <1>1, <1>6, RunTriggerStep
<1>7. CASE nativeStep
  BY <1>1, <1>7, RunNativeStep
<1>8. CASE handle
  BY <1>1, <1>8, RunHandle
<1>9. CASE liveStep
  BY <1>1, <1>9, RunLiveStep
<1>10. CASE returns
  BY <1>1, <1>10, RunReturns
<1>11. CASE UNCHANGED vars
  <2>1. UNCHANGED <<page, calls, events, ran, again, overlapped, ranOnce, onceAgain, reentered>>
    BY <1>11 DEF vars, history
  <2>2. RunInv(w)'
    BY <1>1, <2>1 DEF RunInv, Onced, Exactly
  <2>3. QED
    BY <1>1, <2>2
<1>12. QED
  BY <1>3, <1>4, <1>5, <1>6, <1>7, <1>8, <1>9, <1>10, <1>11 DEF Next

\* A handler is run once for an event, unless events were triggered while a native
\* method ran, and a handler of "one" once, unless a dispatch under way held it
\* (jquery.js:2598, 3446, 3624).
THEOREM HandlersRunOnce == Spec => []RunsOnce
<1>1. Init => RunsInv
  BY InitialRuns
<1>2. RunsInv /\ [Next]_vars => RunsInv'
  BY StepRuns
<1>3. RunsInv => RunsOnce
  BY DEF RunsInv, RunInv, Onced, RunsOnce
<1>4. QED
  BY <1>1, <1>2, <1>3, PTL DEF Spec

=============================================================================
