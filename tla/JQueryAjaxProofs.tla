-------------------------- MODULE JQueryAjaxProofs --------------------------
(***************************************************************************)
(* That jQuery.ajax keeps what the adapter promises of a call, for any     *)
(* requests, added callbacks and options; and where its lists of callbacks *)
(* and its count of requests stand.                                        *)
(*                                                                         *)
(* The invariant is about the call stack and the lists.  StackOK: which    *)
(* frames can stand below others, and that a request has one frame of ajax *)
(* and a list one frame that fires it.  Begun: what is known of a request  *)
(* before the callbacks of its options are installed.  ListsOK and         *)
(* CalledOnce: where the callbacks success and error may still stand.      *)
(* The count of requests has an invariant of its own, CountInv, below.     *)
(***************************************************************************)
EXTENDS JQueryAjax, SequenceTheorems, FiniteSetTheorems, WellFoundedInduction, TLAPS

InAjax == {"prefilter", "ajaxStart", "beforeSend", "ajaxSend", "unannounced", "send", "catch"}
Preparing == {"prefilter", "ajaxStart", "beforeSend"}
InFiring == {"firing", "callback"}
Labels == UserCode \union InAjax \union InFiring \union {"resolve"}
Frames == [at : Labels, r : Requests, kind : Kinds, again : BOOLEAN]
ListType == [callbacks : Seq(Callbacks), fired : BOOLEAN, firing : BOOLEAN,
             cancelled : BOOLEAN]

TypeOK ==
    /\ state \in [Requests -> {-1, 0, 1, 2}]
    /\ transport \in [Requests -> {"none", "made", "sent", "script", "loading"}]
    /\ timer \in [Requests -> BOOLEAN]
    /\ lists \in [Requests -> [Kinds -> ListType]]
    /\ fireGlobals \in [Requests -> BOOLEAN]
    /\ active \in Int
    /\ stack \in Seq(Frames)
    /\ called \in [Requests -> [Callbacks -> Nat]]
    /\ finished \in [Requests -> Nat]
    /\ thrown \subseteq Requests /\ cut \subseteq Requests /\ cutAgain \subseteq Requests
    /\ shown \in BOOLEAN
    /\ added \in Nat

Main == {"done", "fail"}
Answers == {"success", "error"}
other(k) == IF k = "done" THEN "fail" ELSE "done"
has(L, c) == \E i \in DOMAIN L.callbacks : L.callbacks[i] = c

StackOK ==
    /\ \A i \in DOMAIN stack : i < Len(stack) => stack[i].at \in UserCode \union {"send"}
    /\ \A i, j \in DOMAIN stack :
          stack[i].at \in InAjax /\ stack[j].at \in InAjax /\ stack[i].r = stack[j].r => i = j
    /\ \A i, j \in DOMAIN stack :
          /\ stack[i].at \in InFiring /\ stack[j].at \in InFiring
          /\ stack[i].r = stack[j].r /\ stack[i].kind = stack[j].kind
          => i = j

\* Frames of a request; those that prepare it, those outside of ajax, and those
\* that fire a list of it.
named(r) == \E i \in DOMAIN stack : stack[i].r = r
prepares(r) == \E i \in DOMAIN stack : stack[i].r = r /\ stack[i].at \in Preparing
outside(r) == \E i \in DOMAIN stack : stack[i].r = r /\ stack[i].at \notin InAjax
isFiring(f, r, k) == f.at \in InFiring /\ f.r = r /\ f.kind = k
fires(r, k) == \E i \in DOMAIN stack : isFiring(stack[i], r, k)

\* A request before ajax is called for it, and before its options are looked at.
Unknown(r) ==
    /\ ~named(r)
    /\ \A k \in Kinds : lists[r][k] = List
    /\ \A c \in Callbacks : called[r][c] = 0
    /\ finished[r] = 0 /\ transport[r] = "none" /\ ~timer[r]
Unanswered(r) ==
    /\ \A c \in Answers : called[r][c] = 0 /\ \A k \in Kinds : ~has(lists[r][k], c)
    /\ transport[r] = "none" /\ ~timer[r]
    /\ state[r] # 2 => ~outside(r) /\ \A k \in Kinds : ~lists[r][k].fired

Begun ==
    \A r \in Requests : (new(r) => Unknown(r)) /\ (prepares(r) => Unanswered(r))

ListOK(r, k) ==
    LET L == lists[r][k] IN
    /\ L.cancelled => L.callbacks = <<>>
    /\ L.firing => ~L.fired
    /\ \A i \in DOMAIN L.callbacks :
          L.callbacks[i] \in Answers => k \in Main /\ L.callbacks[i] = optionCallbacks[k]
    /\ \A i, j \in DOMAIN L.callbacks :
          L.callbacks[i] = L.callbacks[j] /\ L.callbacks[i] \in Answers => i = j
    /\ k \in Main /\ (L.fired \/ L.firing) => lists[r][other(k)].cancelled
ListsOK == \A r \in Requests, k \in Kinds : ListOK(r, k)

Once(r, k) ==
    LET c == optionCallbacks[k] IN
    /\ called[r][c] \in {0, 1}
    /\ called[r][c] = 1 => /\ lists[r][other(k)].cancelled
                           /\ called[r][optionCallbacks[other(k)]] = 0
                           /\ ~has(lists[r][k], c)
CalledOnce == \A r \in Requests, k \in Main : Once(r, k)

AjaxInv == TypeOK /\ StackOK /\ FiringOnStack /\ Begun /\ ListsOK /\ CalledOnce

-----------------------------------------------------------------------------
(***************************************************************************)
(* The stack after a call, a return, and a step of the function on top.    *)
(***************************************************************************)
LEMMA Popped ==
    ASSUME stack \in Seq(Frames), NEW n \in 1..Len(stack)
    PROVE  LET s == SubSeq(stack, 1, n - 1) IN
           /\ s \in Seq(Frames) /\ Len(s) = n - 1 /\ DOMAIN s = 1..(n - 1)
           /\ \A i \in 1..(n - 1) : i \in DOMAIN stack /\ s[i] = stack[i]
<1> DEFINE s == SubSeq(stack, 1, n - 1)
<1>1. DOMAIN stack = 1..Len(stack) /\ Len(stack) \in Nat /\ n \in Nat
  OBVIOUS
<1>2. \A i \in 1..(n - 1) : i \in DOMAIN stack /\ stack[i] \in Frames
  BY <1>1
<1>3. /\ s \in Seq(Frames) /\ Len(s) = n - 1
      /\ \A i \in 1..(n - 1) : s[i] = stack[i]
  BY <1>1, <1>2, SubSeqProperties
<1>4. DOMAIN s = 1..(n - 1)
  BY <1>1, <1>3
<1>5. QED
  BY <1>2, <1>3, <1>4

LEMMA Appended ==
    ASSUME NEW s \in Seq(Frames), NEW f \in Frames
    PROVE  LET t == Append(s, f) IN
           /\ t \in Seq(Frames) /\ Len(t) = Len(s) + 1 /\ DOMAIN t = 1..(Len(s) + 1)
           /\ DOMAIN s = 1..Len(s) /\ Len(s) \in Nat
           /\ \A i \in 1..Len(s) : t[i] = s[i]
           /\ t[Len(s) + 1] = f
  OBVIOUS

\* What is left when the frames from n on are gone.
LEMMA Unwinds ==
    ASSUME stack \in Seq(Frames), StackOK, NEW n \in 1..Len(stack),
           stack' = SubSeq(stack, 1, n - 1)
    PROVE  /\ stack' \in Seq(Frames) /\ StackOK'
           /\ \A r : /\ named(r)' => named(r)
                     /\ prepares(r)' => prepares(r)
                     /\ outside(r)' => outside(r)
           /\ \A r, k : fires(r, k)' <=> \E i \in 1..(n - 1) : isFiring(stack[i], r, k)
<1> DEFINE D == 1..(n - 1)
<1>1. /\ stack' \in Seq(Frames) /\ Len(stack') = n - 1 /\ DOMAIN stack' = D
      /\ \A i \in D : i \in DOMAIN stack /\ stack'[i] = stack[i]
  BY Popped
<1>2. \A i \in D : i < Len(stack)
  BY DEF D
<1> HIDE DEF D
<1>b. \A i \in DOMAIN stack' : i \in D /\ stack'[i] = stack[i]
  BY <1>1
<1>3. StackOK'
  <2>1. \A i \in D : stack[i].at \in UserCode \union {"send"}
    BY <1>1, <1>2 DEF StackOK
  <2>2. \A i, j \in D :
           stack[i].at \in InAjax /\ stack[j].at \in InAjax /\ stack[i].r = stack[j].r => i = j
    BY <1>1 DEF StackOK
  <2>3. \A i, j \in D :
           /\ stack[i].at \in InFiring /\ stack[j].at \in InFiring
           /\ stack[i].r = stack[j].r /\ stack[i].kind = stack[j].kind
           => i = j
    BY <1>1 DEF StackOK
  <2>4. \A i \in DOMAIN stack' : i < Len(stack') => stack'[i].at \in UserCode \union {"send"}
    BY <1>1, <2>1
  <2>5. \A i, j \in DOMAIN stack' :
           stack'[i].at \in InAjax /\ stack'[j].at \in InAjax /\ stack'[i].r = stack'[j].r => i = j
    BY <1>b, <2>2
  <2>6. \A i, j \in DOMAIN stack' :
           /\ stack'[i].at \in InFiring /\ stack'[j].at \in InFiring
           /\ stack'[i].r = stack'[j].r /\ stack'[i].kind = stack'[j].kind
           => i = j
    BY <1>b, <2>3
  <2>7. QED
    BY <2>4, <2>5, <2>6 DEF StackOK
<1>4. \A r : /\ named(r)' => named(r)
             /\ prepares(r)' => prepares(r)
             /\ outside(r)' => outside(r)
  BY <1>1 DEF named, prepares, outside
<1>5. \A r, k : fires(r, k)' <=> \E i \in D : isFiring(stack[i], r, k)
  BY <1>1 DEF fires, isFiring
<1>6. QED
  BY <1>1, <1>3, <1>4, <1>5 DEF D

\* What a frame put on top of the first n - 1 changes.
LEMMA Stacks ==
    ASSUME stack \in Seq(Frames), StackOK, NEW n \in 1..(Len(stack) + 1),
           NEW s, s \in Seq(Frames), Len(s) = n - 1,
           \A i \in 1..(n - 1) : i \in DOMAIN stack /\ s[i] = stack[i],
           NEW f \in Frames, stack' = Append(s, f),
           \A i \in 1..(n - 1) : stack[i].at \in UserCode \union {"send"},
           f.at \in InAjax =>
              \A i \in 1..(n - 1) : stack[i].at \in InAjax => stack[i].r # f.r,
           \A i \in 1..(n - 1) : ~isFiring(stack[i], f.r, f.kind) \/ f.at \notin InFiring
    PROVE  /\ stack' \in Seq(Frames) /\ StackOK'
           /\ \A r : /\ named(r)' => named(r) \/ r = f.r
                     /\ prepares(r)' => prepares(r) \/ (r = f.r /\ f.at \in Preparing)
                     /\ outside(r)' => outside(r) \/ (r = f.r /\ f.at \notin InAjax)
           /\ \A r, k : fires(r, k)' <=> \/ isFiring(f, r, k)
                                         \/ \E i \in 1..(n - 1) : isFiring(stack[i], r, k)
<1> DEFINE D == 1..(n - 1)
<1>1. /\ stack' \in Seq(Frames) /\ Len(stack') = n /\ DOMAIN stack' = D \union {n}
      /\ \A i \in D : i \in DOMAIN stack /\ stack'[i] = stack[i]
      /\ stack'[n] = f
  <2>1. /\ stack' \in Seq(Frames) /\ Len(stack') = n /\ DOMAIN stack' = 1..n
        /\ \A i \in D : stack'[i] = s[i]
        /\ stack'[n] = f
    BY Appended
  <2>2. 1..n = D \union {n}
    OBVIOUS
  <2>3. QED
    BY <2>1, <2>2
<1>2. n \notin D /\ \A i \in D : i < n
  OBVIOUS
<1>a. /\ \A i \in D : stack[i].at \in UserCode \union {"send"}
      /\ f.at \in InAjax => \A i \in D : stack[i].at \in InAjax => stack[i].r # f.r
      /\ \A i \in D : ~isFiring(stack[i], f.r, f.kind) \/ f.at \notin InFiring
  OBVIOUS
<1> HIDE DEF D
<1>b. \A i \in DOMAIN stack' : (i \in D /\ stack'[i] = stack[i]) \/ (i = n /\ stack'[i] = f)
  BY <1>1
<1>3. StackOK'
  <2>1. \A i \in DOMAIN stack' : i < Len(stack') => stack'[i].at \in UserCode \union {"send"}
    BY <1>1, <1>2, <1>a, Z3
  <2>2. \A i, j \in DOMAIN stack' :
           stack'[i].at \in InAjax /\ stack'[j].at \in InAjax /\ stack'[i].r = stack'[j].r => i = j
    <3>1. \A i, j \in D :
             stack[i].at \in InAjax /\ stack[j].at \in InAjax /\ stack[i].r = stack[j].r => i = j
      BY <1>1 DEF StackOK
    <3>2. QED
      BY <1>1, <1>2, <1>a, <3>1
  <2>3. \A i, j \in DOMAIN stack' :
           /\ stack'[i].at \in InFiring /\ stack'[j].at \in InFiring
           /\ stack'[i].r = stack'[j].r /\ stack'[i].kind = stack'[j].kind
           => i = j
    <3>1. \A i, j \in D :
           /\ stack[i].at \in InFiring /\ stack[j].at \in InFiring
           /\ stack[i].r = stack[j].r /\ stack[i].kind = stack[j].kind
           => i = j
      BY <1>1 DEF StackOK
    <3>2. \A i \in D : ~(/\ stack[i].at \in InFiring /\ f.at \in InFiring
                        /\ stack[i].r = f.r /\ stack[i].kind = f.kind)
      BY <1>a DEF isFiring
    <3>3. SUFFICES ASSUME NEW i \in DOMAIN stack', NEW j \in DOMAIN stack',
                          stack'[i].at \in InFiring /\ stack'[j].at \in InFiring,
                          stack'[i].r = stack'[j].r, stack'[i].kind = stack'[j].kind
                   PROVE  i = j
      OBVIOUS
    <3>4. /\ (i \in D /\ stack'[i] = stack[i]) \/ (i = n /\ stack'[i] = f)
          /\ (j \in D /\ stack'[j] = stack[j]) \/ (j = n /\ stack'[j] = f)
      BY <1>b
    <3>5. QED
      BY <3>1, <3>2, <3>3, <3>4
  <2>4. QED
    BY <2>1, <2>2, <2>3 DEF StackOK
<1>4. \A r : /\ named(r)' => named(r) \/ r = f.r
             /\ prepares(r)' => prepares(r) \/ (r = f.r /\ f.at \in Preparing)
             /\ outside(r)' => outside(r) \/ (r = f.r /\ f.at \notin InAjax)
  BY <1>1 DEF named, prepares, outside
<1>5. \A r, k : fires(r, k)' <=> \/ isFiring(f, r, k)
                                 \/ \E i \in D : isFiring(stack[i], r, k)
  BY <1>1 DEF fires, isFiring
<1>6. QED
  BY <1>1, <1>3, <1>4, <1>5 DEF D

LEMMA TopFrame ==
    ASSUME stack \in Seq(Frames), stack # <<>>, StackOK
    PROVE  /\ top \in Frames /\ Len(stack) \in DOMAIN stack /\ top = stack[Len(stack)]
           /\ Len(stack) \in 1..Len(stack)
           /\ DOMAIN stack = 1..(Len(stack) - 1) \union {Len(stack)}
           /\ \A i \in 1..(Len(stack) - 1) :
                 i \in DOMAIN stack /\ i # Len(stack) /\ stack[i].at \in UserCode \union {"send"}
<1>1. DOMAIN stack = 1..Len(stack) /\ Len(stack) \in Nat /\ Len(stack) # 0
  OBVIOUS
<1>2. DOMAIN stack = 1..(Len(stack) - 1) \union {Len(stack)} /\ Len(stack) \in 1..Len(stack)
  BY <1>1
<1>3. top = stack[Len(stack)] /\ top \in Frames
  BY <1>1, <1>2 DEF top
<1>4. \A i \in 1..(Len(stack) - 1) : i \in DOMAIN stack /\ i # Len(stack) /\ i < Len(stack)
  <2>1. \A l \in Nat : \A i \in 1..(l - 1) : i \in 1..l /\ i # l /\ i < l
    OBVIOUS
  <2>2. QED
    BY <1>1, <2>1
<1>5. QED
  BY <1>2, <1>3, <1>4 DEF StackOK

LEMMA FiresBelow ==
    ASSUME stack \in Seq(Frames), stack # <<>>, StackOK, NEW r, NEW k
    PROVE  (\E i \in 1..(Len(stack) - 1) : isFiring(stack[i], r, k))
              <=> fires(r, k) /\ ~isFiring(top, r, k)
<1> DEFINE D == 1..(Len(stack) - 1)
<1>1. /\ DOMAIN stack = D \union {Len(stack)} /\ top = stack[Len(stack)]
      /\ \A i \in D : i # Len(stack)
  BY TopFrame
<1> HIDE DEF D
<1>2. \A i, j \in DOMAIN stack : isFiring(stack[i], r, k) /\ isFiring(stack[j], r, k) => i = j
  <2>1. \A i, j \in DOMAIN stack :
          /\ stack[i].at \in InFiring /\ stack[j].at \in InFiring
          /\ stack[i].r = stack[j].r /\ stack[i].kind = stack[j].kind
          => i = j
    BY DEF StackOK
  <2>2. QED
    BY <2>1 DEF isFiring
<1>3. (\E i \in D : isFiring(stack[i], r, k)) <=> fires(r, k) /\ ~isFiring(top, r, k)
  BY <1>1, <1>2 DEF fires
<1>4. QED
  BY <1>3 DEF D

\* The function on top returns.
LEMMA Returns ==
    ASSUME stack \in Seq(Frames), StackOK, stack # <<>>, stack' = below
    PROVE  /\ stack' \in Seq(Frames) /\ StackOK'
           /\ \A r : /\ named(r)' => named(r)
                     /\ prepares(r)' => prepares(r)
                     /\ outside(r)' => outside(r)
           /\ \A r, k : fires(r, k)' <=> fires(r, k) /\ ~isFiring(top, r, k)
<1>1. Len(stack) \in 1..Len(stack)
  BY TopFrame
<1>2. stack' = SubSeq(stack, 1, Len(stack) - 1)
  BY DEF below
<1>3. /\ stack' \in Seq(Frames) /\ StackOK'
      /\ \A r : /\ named(r)' => named(r)
                /\ prepares(r)' => prepares(r)
                /\ outside(r)' => outside(r)
      /\ \A r, k : fires(r, k)' <=> \E i \in 1..(Len(stack) - 1) : isFiring(stack[i], r, k)
  BY <1>1, <1>2, Unwinds
<1>4. QED
  BY <1>3, FiresBelow

\* It goes on elsewhere.
LEMMA GoesOn ==
    ASSUME stack \in Seq(Frames), StackOK, stack # <<>>,
           NEW f \in Frames, stack' = Append(below, f), f.r = top.r,
           f.at \in InAjax => top.at \in InAjax,
           f.at \in InFiring => isFiring(top, f.r, f.kind) \/ ~fires(f.r, f.kind)
    PROVE  /\ stack' \in Seq(Frames) /\ StackOK'
           /\ \A r : /\ named(r)' => named(r)
                     /\ prepares(r)' => prepares(r) \/ (r = f.r /\ f.at \in Preparing)
                     /\ outside(r)' => outside(r) \/ (r = f.r /\ f.at \notin InAjax)
           /\ \A r, k : fires(r, k)' <=> \/ isFiring(f, r, k)
                                         \/ fires(r, k) /\ ~isFiring(top, r, k)
<1> DEFINE n == Len(stack)
<1>1. /\ Len(stack) \in DOMAIN stack /\ top = stack[n] /\ n \in 1..Len(stack)
      /\ \A i \in 1..(n - 1) :
            i \in DOMAIN stack /\ i # n /\ stack[i].at \in UserCode \union {"send"}
  BY TopFrame
<1>2. below \in Seq(Frames) /\ Len(below) = n - 1
      /\ \A i \in 1..(n - 1) : i \in DOMAIN stack /\ below[i] = stack[i]
  BY <1>1, Popped DEF below
<1>3. f.at \in InAjax => \A i \in 1..(n - 1) : stack[i].at \in InAjax => stack[i].r # f.r
  BY <1>1 DEF StackOK
<1>4. \A i \in 1..(n - 1) : ~isFiring(stack[i], f.r, f.kind) \/ f.at \notin InFiring
  BY FiresBelow
<1>5. n \in 1..(Len(stack) + 1)
  BY <1>1
<1>6. /\ stack' \in Seq(Frames) /\ StackOK'
      /\ \A r : /\ named(r)' => named(r) \/ r = f.r
                /\ prepares(r)' => prepares(r) \/ (r = f.r /\ f.at \in Preparing)
                /\ outside(r)' => outside(r) \/ (r = f.r /\ f.at \notin InAjax)
      /\ \A r, k : fires(r, k)' <=> \/ isFiring(f, r, k)
                                    \/ \E i \in 1..(n - 1) : isFiring(stack[i], r, k)
  <2> HIDE DEF n
  <2>1. QED
    BY <1>1, <1>2, <1>3, <1>4, <1>5, Stacks
<1>7. named(f.r)
  BY <1>1 DEF named
<1>8. QED
  BY <1>6, <1>7, FiresBelow

\* It calls another.
LEMMA CallsOf ==
    ASSUME stack \in Seq(Frames), StackOK, stack # <<>> => top.at \in UserCode \union {"send"},
           NEW f \in Frames, stack' = Append(stack, f),
           f.at \in InAjax => ~named(f.r),
           f.at \in InFiring => ~fires(f.r, f.kind)
    PROVE  /\ stack' \in Seq(Frames) /\ StackOK'
           /\ \A r : /\ named(r)' => named(r) \/ r = f.r
                     /\ prepares(r)' => prepares(r) \/ (r = f.r /\ f.at \in Preparing)
                     /\ outside(r)' => outside(r) \/ (r = f.r /\ f.at \notin InAjax)
           /\ \A r, k : fires(r, k)' <=> isFiring(f, r, k) \/ fires(r, k)
<1> DEFINE n == Len(stack) + 1
<1>1. DOMAIN stack = 1..Len(stack) /\ Len(stack) \in Nat
  OBVIOUS
<1>2. n \in 1..(Len(stack) + 1) /\ Len(stack) = n - 1
  BY <1>1
<1>3. \A i \in 1..(n - 1) : i \in DOMAIN stack
  BY <1>1
<1>4. \A i \in 1..(n - 1) : stack[i].at \in UserCode \union {"send"}
  <2>1. CASE stack = <<>>
    BY <2>1, <1>1
  <2>2. CASE stack # <<>>
    <3>1. \A i \in DOMAIN stack : i < Len(stack) \/ i = Len(stack)
      BY <1>1
    <3>2. QED
      BY <2>2, <3>1, <1>3 DEF StackOK, top
  <2>3. QED
    BY <2>1, <2>2
<1>5. f.at \in InAjax => \A i \in 1..(n - 1) : stack[i].at \in InAjax => stack[i].r # f.r
  BY <1>3 DEF named
<1>6. \A i \in 1..(n - 1) : ~isFiring(stack[i], f.r, f.kind) \/ f.at \notin InFiring
  BY <1>3 DEF fires
<1>7. /\ stack' \in Seq(Frames) /\ StackOK'
      /\ \A r : /\ named(r)' => named(r) \/ r = f.r
                /\ prepares(r)' => prepares(r) \/ (r = f.r /\ f.at \in Preparing)
                /\ outside(r)' => outside(r) \/ (r = f.r /\ f.at \notin InAjax)
      /\ \A r, k : fires(r, k)' <=> \/ isFiring(f, r, k)
                                    \/ \E i \in 1..(n - 1) : isFiring(stack[i], r, k)
  <2> HIDE DEF n
  <2>1. QED
    BY <1>2, <1>3, <1>4, <1>5, <1>6, Stacks
<1>8. \A r, k : fires(r, k) <=> \E i \in 1..(n - 1) : isFiring(stack[i], r, k)
  BY <1>1 DEF fires
<1>9. QED
  BY <1>7, <1>8

-----------------------------------------------------------------------------
(***************************************************************************)
(* The steps that leave the lists alone.                                   *)
(***************************************************************************)
LEMMA FiringFires ==
    FiringOnStack <=> \A r \in Requests, k \in Kinds : lists[r][k].firing <=> fires(r, k)
BY DEF FiringOnStack, fires, isFiring, InFiring

LEMMA FiringFiresNext ==
    FiringOnStack' <=> \A r \in Requests, k \in Kinds : (lists[r][k].firing <=> fires(r, k))'
BY DEF FiringOnStack, fires, isFiring, InFiring

\* What such a step may do to a request that is new, or not yet sent.
Keeps(r) ==
    /\ new(r)' => /\ new(r) /\ ~named(r)'
                  /\ UNCHANGED <<finished[r], transport[r], timer[r]>>
    /\ prepares(r)' => /\ prepares(r)
                       /\ transport'[r] = "none" /\ ~timer'[r]
                       /\ state'[r] # 2 => state[r] # 2 /\ (outside(r)' => outside(r))

LEMMA Quiet ==
    ASSUME AjaxInv, TypeOK', StackOK', UNCHANGED <<lists, called>>,
           \A r \in Requests, k \in Kinds : fires(r, k)' <=> fires(r, k),
           \A r \in Requests : Keeps(r)
    PROVE  AjaxInv'
<1>1. FiringOnStack'
  <2>1. \A r \in Requests, k \in Kinds : lists[r][k].firing <=> fires(r, k)
    BY FiringFires DEF AjaxInv
  <2>2. \A r \in Requests, k \in Kinds : (lists[r][k].firing <=> fires(r, k))'
    BY <2>1
  <2>3. QED
    BY <2>2, FiringFiresNext
<1>2. Begun'
  <2>1. SUFFICES ASSUME NEW r \in Requests
                 PROVE  (new(r)' => Unknown(r)') /\ (prepares(r)' => Unanswered(r)')
    BY DEF Begun
  <2>2. (new(r) => Unknown(r)) /\ (prepares(r) => Unanswered(r))
    BY DEF AjaxInv, Begun
  <2>3. Keeps(r)
    OBVIOUS
  <2>4. new(r)' => Unknown(r)'
    BY <2>2, <2>3 DEF Unknown, Keeps
  <2>5. prepares(r)' => Unanswered(r)'
    BY <2>2, <2>3 DEF Unanswered, Keeps, has
  <2>6. QED
    BY <2>4, <2>5
<1>3. ListsOK'
  BY DEF AjaxInv, ListsOK, ListOK
<1>4. CalledOnce'
  BY DEF AjaxInv, CalledOnce, Once, has
<1>5. QED
  BY <1>1, <1>2, <1>3, <1>4 DEF AjaxInv

\* The request of the frame on top.
LEMMA TopRequest ==
    ASSUME AjaxInv, stack # <<>>
    PROVE  /\ stack \in Seq(Frames) /\ StackOK
           /\ top \in Frames /\ top.r \in Requests /\ ~new(top.r) /\ named(top.r)
           /\ top.at \in InAjax \ Preparing => ~prepares(top.r)
           /\ top.at \in Preparing => prepares(top.r)
           /\ top.at \notin InAjax => outside(top.r)
<1>1. stack \in Seq(Frames) /\ StackOK
  BY DEF AjaxInv, TypeOK
<1>2. top \in Frames /\ Len(stack) \in DOMAIN stack /\ top = stack[Len(stack)]
  BY <1>1, TopFrame
<1>3. top.r \in Requests
  BY <1>2 DEF Frames
<1>4. named(top.r)
  BY <1>2 DEF named
<1>5. ~new(top.r)
  BY <1>3, <1>4 DEF AjaxInv, Begun, Unknown
<1>6. top.at \in InAjax \ Preparing => ~prepares(top.r)
  <2>1. Preparing \subseteq InAjax
    BY DEF Preparing, InAjax
  <2>2. \A i, j \in DOMAIN stack :
           stack[i].at \in InAjax /\ stack[j].at \in InAjax /\ stack[i].r = stack[j].r => i = j
    BY <1>1 DEF StackOK
  <2>3. QED
    BY <1>2, <2>1, <2>2 DEF prepares
<1>7. (top.at \in Preparing => prepares(top.r)) /\ (top.at \notin InAjax => outside(top.r))
  BY <1>2 DEF prepares, outside
<1>8. QED
  BY <1>1, <1>2, <1>3, <1>4, <1>5, <1>6, <1>7

\* The function on top returns, or goes on at another point of the same kind.
Steps(label) ==
    \/ stack' = below
    \/ /\ goto(label)
       /\ label \in Labels \ InFiring
       /\ label \in InAjax <=> top.at \in InAjax
       /\ label \in Preparing => top.at \in Preparing

LEMMA StepStack ==
    ASSUME AjaxInv, stack # <<>>, top.at \notin InFiring, NEW label, Steps(label)
    PROVE  /\ stack' \in Seq(Frames) /\ StackOK'
           /\ \A r : /\ named(r)' => named(r)
                     /\ prepares(r)' => prepares(r)
                     /\ outside(r)' => outside(r)
           /\ \A r \in Requests, k \in Kinds : fires(r, k)' <=> fires(r, k)
<1>1. /\ stack \in Seq(Frames) /\ StackOK /\ top \in Frames
      /\ top.at \in Preparing => prepares(top.r)
      /\ top.at \notin InAjax => outside(top.r)
  BY TopRequest
<1>2. CASE stack' = below
  BY <1>1, <1>2, Returns DEF isFiring
<1>3. CASE goto(label) /\ stack' # below
  <2> DEFINE f == [top EXCEPT !.at = label]
  <2>1. label \in Labels \ InFiring
    BY <1>3 DEF Steps
  <2>2. f \in Frames /\ f.r = top.r /\ f.at = label
    BY <1>1, <2>1 DEF Frames
  <2>3. stack' = Append(below, f)
    BY <1>3 DEF goto
  <2>4. (label \in InAjax <=> top.at \in InAjax) /\ (label \in Preparing => top.at \in Preparing)
    BY <1>3 DEF Steps
  <2> HIDE DEF f
  <2>5. /\ stack' \in Seq(Frames) /\ StackOK'
        /\ \A r : /\ named(r)' => named(r)
                  /\ prepares(r)' => prepares(r) \/ (r = f.r /\ f.at \in Preparing)
                  /\ outside(r)' => outside(r) \/ (r = f.r /\ f.at \notin InAjax)
        /\ \A r, k : fires(r, k)' <=> \/ isFiring(f, r, k)
                                      \/ fires(r, k) /\ ~isFiring(top, r, k)
    BY <1>1, <2>1, <2>2, <2>3, <2>4, GoesOn
  <2>6. \A r, k : ~isFiring(f, r, k) /\ ~isFiring(top, r, k)
    BY <2>1, <2>2 DEF isFiring
  <2>7. QED
    BY <1>1, <2>2, <2>4, <2>5, <2>6
<1>4. QED
  BY <1>2, <1>3 DEF Steps

\* What is done besides concerns at most one request, known, and not one that is
\* prepared.
LEMMA QuietStep ==
    ASSUME AjaxInv, stack # <<>>, top.at \notin InFiring, NEW label, Steps(label),
           stack' \in Seq(Frames) => TypeOK',
           UNCHANGED <<lists, called>>, NEW q \in Requests,
           \A r \in Requests \ {q} : UNCHANGED <<state[r], transport[r], timer[r], finished[r]>>,
           \/ UNCHANGED <<state[q], transport[q], timer[q], finished[q]>>
           \/ ~new(q) /\ ~prepares(q) /\ state'[q] # -1
    PROVE  AjaxInv'
<1>1. /\ stack' \in Seq(Frames) /\ StackOK'
      /\ \A r : /\ named(r)' => named(r)
                /\ prepares(r)' => prepares(r)
                /\ outside(r)' => outside(r)
      /\ \A r \in Requests, k \in Kinds : fires(r, k)' <=> fires(r, k)
  BY StepStack
<1>2. \A r \in Requests : Keeps(r)
  <2>1. SUFFICES ASSUME NEW r \in Requests PROVE Keeps(r)
    OBVIOUS
  <2>2. (new(r) => ~named(r)) /\ (prepares(r) => transport[r] = "none" /\ ~timer[r])
    BY DEF AjaxInv, Begun, Unknown, Unanswered
  <2>3. CASE UNCHANGED <<state[r], transport[r], timer[r], finished[r]>>
    BY <1>1, <2>2, <2>3 DEF Keeps, new
  <2>4. CASE r = q /\ ~new(q) /\ ~prepares(q) /\ state'[q] # -1
    BY <1>1, <2>4 DEF Keeps, new
  <2>5. QED
    BY <2>3, <2>4
<1>3. QED
  BY <1>1, <1>2, Quiet

\* A function returns, with no more effect than the flags it sets.
LEMMA ReturnsKeep ==
    ASSUME AjaxInv,
           \/ prefiltersReturn \/ ajaxStartReturn \/ ajaxSendReturn \/ sendReturn
           \/ scriptSend \/ sendThrows \/ sendDone \/ ajaxCompleteReturn \/ ajaxStopReturn
    PROVE  AjaxInv'
<1> USE DEF InAjax, Preparing, InFiring, Labels, UserCode
<1>1. stack # <<>>
  BY DEF prefiltersReturn, ajaxStartReturn, ajaxSendReturn, sendReturn, scriptSend,
         sendThrows, sendDone, ajaxCompleteReturn, ajaxStopReturn, at
<1>2. /\ top.r \in Requests /\ ~new(top.r)
      /\ top.at \in InAjax \ Preparing => ~prepares(top.r)
  BY <1>1, TopRequest
<1>3. TypeOK
  BY DEF AjaxInv
<1>4. CASE prefiltersReturn
  <2>1. UNCHANGED <<state, transport, timer, lists, called, finished>> /\ top.at = "prefilter"
    BY <1>4 DEF prefiltersReturn, at, historyVars
  <2>2. Steps("ajaxStart") \/ Steps("beforeSend")
    BY <1>4 DEF prefiltersReturn, countRequest, Steps, at
  <2>3. stack' \in Seq(Frames) => TypeOK'
    <3>1. fireGlobals' \in [Requests -> BOOLEAN]
      BY <1>2, <1>3, <1>4 DEF prefiltersReturn, TypeOK, scriptPrefilter
    <3>2. active' \in Int /\ shown' \in BOOLEAN
      <4>1. \/ active' = active + 1 /\ shown' = (shown \/ active = 0)
            \/ UNCHANGED <<active, shown>>
        BY <1>4 DEF prefiltersReturn, countRequest
      <4>2. active \in Int /\ shown \in BOOLEAN
        BY <1>3 DEF TypeOK
      <4>3. active' \in Int
        BY <4>1, <4>2
      <4>4. shown' \in BOOLEAN
        BY <4>1, <4>2, Zenon
      <4>5. QED
        BY <4>3, <4>4
    <3>3. UNCHANGED <<thrown, cut, cutAgain, added>>
      BY <1>4 DEF prefiltersReturn, historyVars
    <3>4. QED
      BY <1>3, <2>1, <3>1, <3>2, <3>3 DEF TypeOK
  <2>4. QED
    BY <1>1, <1>2, <2>1, <2>2, <2>3, QuietStep
<1>5. CASE ajaxStartReturn
  <2>1. UNCHANGED <<state, transport, timer, finished, lists, called>> /\ top.at = "ajaxStart"
    BY <1>5 DEF ajaxStartReturn, at, requestVars, historyVars
  <2>2. Steps("beforeSend")
    BY <1>5 DEF ajaxStartReturn, Steps, at
  <2>3. stack' \in Seq(Frames) => TypeOK'
    BY <1>2, <1>3, <1>5 DEF ajaxStartReturn, TypeOK, requestVars, historyVars
  <2>4. QED
    BY <1>1, <1>2, <2>1, <2>2, <2>3, QuietStep
<1>6. CASE ajaxSendReturn
  <2>1. UNCHANGED <<transport, finished, lists, called>> /\ top.at \in {"ajaxSend", "unannounced"}
    BY <1>6 DEF ajaxSendReturn, at, requestVars, historyVars
  <2>2. Steps("send")
    BY <1>6 DEF ajaxSendReturn, Steps, at
  <2>3. stack' \in Seq(Frames) => TypeOK'
    BY <1>2, <1>3, <1>6, AjaxAssumption DEF ajaxSendReturn, TypeOK, historyVars
  <2>4. /\ \A r \in Requests \ {top.r} : UNCHANGED <<state[r], transport[r], timer[r], finished[r]>>
        /\ state'[top.r] # -1
    BY <1>2, <1>3, <1>6 DEF ajaxSendReturn, TypeOK, historyVars, new
  <2>5. QED
    BY <1>1, <1>2, <2>1, <2>2, <2>3, <2>4, QuietStep
<1>7. CASE sendReturn
  <2>1. UNCHANGED <<state, timer, finished, lists, called>> /\ top.at = "send"
    BY <1>7 DEF sendReturn, at, requestVars, historyVars
  <2>2. Steps("send")
    BY <1>7 DEF sendReturn, Steps, at
  <2>3. stack' \in Seq(Frames) => TypeOK'
    BY <1>2, <1>3, <1>7 DEF sendReturn, TypeOK, requestVars, historyVars
  <2>4. /\ \A r \in Requests \ {top.r} : UNCHANGED <<state[r], transport[r], timer[r], finished[r]>>
        /\ state'[top.r] # -1
    BY <1>2, <1>3, <1>7 DEF sendReturn, TypeOK, historyVars, new
  <2>5. QED
    BY <1>1, <1>2, <2>1, <2>2, <2>3, <2>4, QuietStep
<1>8. CASE scriptSend
  <2>1. UNCHANGED <<state, timer, finished, lists, called>> /\ top.at = "send"
    BY <1>8 DEF scriptSend, at, requestVars, historyVars
  <2>2. Steps("send")
    BY <1>8 DEF scriptSend, Steps, at
  <2>3. stack' \in Seq(Frames) => TypeOK'
    BY <1>2, <1>3, <1>8 DEF scriptSend, TypeOK, requestVars, historyVars
  <2>4. /\ \A r \in Requests \ {top.r} : UNCHANGED <<state[r], transport[r], timer[r], finished[r]>>
        /\ state'[top.r] # -1
    BY <1>2, <1>3, <1>8 DEF scriptSend, TypeOK, historyVars, new
  <2>5. QED
    BY <1>1, <1>2, <2>1, <2>2, <2>3, <2>4, QuietStep
<1>9. CASE sendThrows
  <2>1. UNCHANGED <<state, transport, timer, finished, lists, called>> /\ top.at = "send"
    BY <1>9 DEF sendThrows, at, requestVars, historyVars
  <2>2. Steps("catch")
    BY <1>9 DEF sendThrows, Steps, at
  <2>3. stack' \in Seq(Frames) => TypeOK'
    BY <1>2, <1>3, <1>9 DEF sendThrows, TypeOK, requestVars, historyVars
  <2>4. QED
    BY <1>1, <1>2, <2>1, <2>2, <2>3, QuietStep
<1>10. CASE sendDone
  <2>1. UNCHANGED <<state, transport, timer, finished, lists, called>> /\ top.at = "send"
    BY <1>10 DEF sendDone, at, requestVars, historyVars
  <2>2. Steps("send")
    BY <1>10 DEF sendDone, Steps, at
  <2>3. stack' \in Seq(Frames) => TypeOK'
    BY <1>2, <1>3, <1>10 DEF sendDone, TypeOK, requestVars, historyVars
  <2>4. QED
    BY <1>1, <1>2, <2>1, <2>2, <2>3, QuietStep
<1>11. CASE ajaxCompleteReturn
  <2>1. UNCHANGED <<state, transport, timer, finished, lists, called>> /\ top.at = "ajaxComplete"
    BY <1>11 DEF ajaxCompleteReturn, at, requestVars, historyVars
  <2>2. Steps("ajaxStop")
    BY <1>11 DEF ajaxCompleteReturn, Steps, at
  <2>3. stack' \in Seq(Frames) => TypeOK'
    BY <1>2, <1>3, <1>11 DEF ajaxCompleteReturn, TypeOK, requestVars, historyVars
  <2>4. QED
    BY <1>1, <1>2, <2>1, <2>2, <2>3, QuietStep
<1>12. CASE ajaxStopReturn
  <2>1. UNCHANGED <<state, transport, timer, finished, lists, called>> /\ top.at = "ajaxStop"
    BY <1>12 DEF ajaxStopReturn, at, requestVars, historyVars
  <2>2. Steps("ajaxStop")
    BY <1>12 DEF ajaxStopReturn, Steps, at
  <2>3. stack' \in Seq(Frames) => TypeOK'
    BY <1>2, <1>3, <1>12 DEF ajaxStopReturn, TypeOK, requestVars, historyVars
  <2>4. QED
    BY <1>1, <1>2, <2>1, <2>2, <2>3, QuietStep
<1>13. QED
  BY <1>4, <1>5, <1>6, <1>7, <1>8, <1>9, <1>10, <1>11, <1>12

LEMMA FinishKeeps ==
    ASSUME AjaxInv, NEW r \in Requests, ~new(r), NEW ok, NEW base, finish(r, ok, base),
           \/ base = stack /\ (stack # <<>> => top.at \in UserCode \union {"send"})
           \/ base = below /\ stack # <<>> /\ top.at \in {"beforeSend", "catch"} /\ top.r = r
    PROVE  AjaxInv'
<1> USE DEF InAjax, Preparing, InFiring, Labels, UserCode
<1>1. stack \in Seq(Frames) /\ StackOK /\ TypeOK
  BY DEF AjaxInv, TypeOK
<1>2. CASE state[r] = 2
  <2>1. UNCHANGED <<state, transport, timer, lists, fireGlobals, active, shown, called,
                    finished, thrown, cut, cutAgain, added>> /\ stack' = base
    BY <1>2 DEF finish, requestVars, historyVars
  <2>2. /\ stack' \in Seq(Frames) /\ StackOK'
        /\ \A q : /\ named(q)' => named(q)
                  /\ prepares(q)' => prepares(q)
                  /\ outside(q)' => outside(q)
        /\ \A q \in Requests, k \in Kinds : fires(q, k)' <=> fires(q, k)
    <3>1. CASE stack' = stack
      BY <1>1, <3>1 DEF StackOK, named, prepares, outside, fires, isFiring
    <3>2. CASE stack' = below /\ stack # <<>> /\ top.at \in {"beforeSend", "catch"}
      BY <1>1, <3>2, Returns DEF isFiring
    <3>3. QED
      BY <2>1, <3>1, <3>2
  <2>3. TypeOK'
    BY <1>1, <2>1, <2>2 DEF TypeOK
  <2>4. \A q \in Requests : Keeps(q)
    <3>1. \A q \in Requests : /\ new(q) => ~named(q)
                              /\ prepares(q) => transport[q] = "none" /\ ~timer[q]
      BY DEF AjaxInv, Begun, Unknown, Unanswered
    <3>2. QED
      BY <2>1, <2>2, <3>1 DEF Keeps, new
  <2>5. QED
    BY <2>1, <2>2, <2>3, <2>4, Quiet
<1>3. CASE state[r] # 2
  <2>1. /\ UNCHANGED <<lists, fireGlobals, active, shown, called, thrown, cut, cutAgain, added>>
        /\ state' = [state EXCEPT ![r] = 2]
        /\ timer' = [timer EXCEPT ![r] = FALSE]
        /\ transport' = [transport EXCEPT ![r] = "none"]
        /\ finished' = [finished EXCEPT ![r] = @ + 1]
    BY <1>3 DEF finish, requestVars, historyVars
  <2>2. PICK f \in Frames : stack' = Append(base, f) /\ f.at = "resolve" /\ f.r = r
    <3>1. PICK k \in Main : stack' = Append(base, [frame("resolve", r) EXCEPT !.kind = k])
      BY <1>3 DEF finish, Main
    <3>2. /\ [frame("resolve", r) EXCEPT !.kind = k] \in Frames
          /\ [frame("resolve", r) EXCEPT !.kind = k].at = "resolve"
          /\ [frame("resolve", r) EXCEPT !.kind = k].r = r
      BY DEF frame, Frames, Main, Kinds
    <3>3. QED
      BY <3>1, <3>2
  <2>3. /\ stack' \in Seq(Frames) /\ StackOK'
        /\ \A q : /\ named(q)' => named(q) \/ q = r
                  /\ prepares(q)' => prepares(q)
                  /\ outside(q)' => outside(q) \/ q = r
        /\ \A q \in Requests, k \in Kinds : fires(q, k)' <=> fires(q, k)
    <3>1. CASE base = stack /\ (stack # <<>> => top.at \in UserCode \union {"send"})
      <4>1. /\ stack' \in Seq(Frames) /\ StackOK'
            /\ \A q : /\ named(q)' => named(q) \/ q = f.r
                      /\ prepares(q)' => prepares(q) \/ (q = f.r /\ f.at \in Preparing)
                      /\ outside(q)' => outside(q) \/ (q = f.r /\ f.at \notin InAjax)
            /\ \A q, k : fires(q, k)' <=> isFiring(f, q, k) \/ fires(q, k)
        BY <1>1, <2>2, <3>1, CallsOf
      <4>2. QED
        BY <2>2, <4>1 DEF isFiring
    <3>2. CASE base = below /\ stack # <<>> /\ top.at \in {"beforeSend", "catch"} /\ top.r = r
      <4>1. /\ stack' \in Seq(Frames) /\ StackOK'
            /\ \A q : /\ named(q)' => named(q)
                      /\ prepares(q)' => prepares(q) \/ (q = f.r /\ f.at \in Preparing)
                      /\ outside(q)' => outside(q) \/ (q = f.r /\ f.at \notin InAjax)
            /\ \A q, k : fires(q, k)' <=> \/ isFiring(f, q, k)
                                          \/ fires(q, k) /\ ~isFiring(top, q, k)
        BY <1>1, <2>2, <3>2, GoesOn
      <4>2. QED
        BY <2>2, <3>2, <4>1 DEF isFiring
    <3>3. QED
      BY <3>1, <3>2
  <2>4. TypeOK'
    BY <1>1, <2>1, <2>3 DEF TypeOK
  <2>5. \A q \in Requests : Keeps(q)
    <3>1. SUFFICES ASSUME NEW q \in Requests PROVE Keeps(q)
      OBVIOUS
    <3>2. /\ new(q) => ~named(q)
          /\ prepares(q) => transport[q] = "none" /\ ~timer[q]
      BY DEF AjaxInv, Begun, Unknown, Unanswered
    <3>3. CASE q # r
      <4>1. UNCHANGED <<state[q], transport[q], timer[q], finished[q]>>
        BY <1>1, <2>1, <3>3 DEF TypeOK
      <4>2. QED
        BY <2>3, <3>2, <3>3, <4>1 DEF Keeps, new
    <3>4. CASE q = r
      <4>1. state'[q] = 2 /\ transport'[q] = "none" /\ timer'[q] = FALSE
        BY <1>1, <2>1, <3>4 DEF TypeOK
      <4>2. QED
        BY <2>3, <4>1 DEF Keeps, new
    <3>5. QED
      BY <3>3, <3>4
  <2>6. QED
    BY <2>1, <2>3, <2>4, <2>5, Quiet
<1>4. QED
  BY <1>2, <1>3

\* A request under way, or whose timer runs, is not new.
LEMMA Known ==
    ASSUME AjaxInv, NEW r \in Requests,
           transport[r] # "none" \/ timer[r] \/ finished[r] > 0
    PROVE  ~new(r)
BY DEF AjaxInv, Begun, Unknown, TypeOK

\* done, wherever it is called.
LEMMA DoneKeeps ==
    ASSUME AjaxInv,
           \/ beforeSendRefuses \/ sendFromCache \/ catch
           \/ \E r \in Requests : abort(r) \/ answer(r) \/ scriptLoaded(r) \/ timeout(r)
    PROVE  AjaxInv'
<1>1. CASE beforeSendRefuses \/ catch
  <2>1. stack # <<>> /\ top.at \in {"beforeSend", "catch"} /\ finish(top.r, FALSE, below)
    BY <1>1 DEF beforeSendRefuses, catch, at
  <2>2. PICK r \in Requests : r = top.r /\ ~new(r)
    BY <2>1, TopRequest
  <2>3. QED
    BY <2>1, <2>2, FinishKeeps
<1>2. CASE sendFromCache
  <2>1. PICK ok \in BOOLEAN : finish(top.r, ok, stack)
    BY <1>2 DEF sendFromCache
  <2>2. stack # <<>> /\ top.at = "send"
    BY <1>2 DEF sendFromCache, at
  <2>3. PICK r \in Requests : r = top.r /\ ~new(r)
    BY <2>2, TopRequest
  <2>4. QED
    BY <2>1, <2>2, <2>3, FinishKeeps
<1>3. ASSUME NEW r \in Requests, abort(r) PROVE AjaxInv'
  BY <1>3, FinishKeeps DEF abort, userRuns
<1>4. ASSUME NEW r \in Requests, answer(r) \/ scriptLoaded(r) \/ timeout(r) PROVE AjaxInv'
  <2>1. stack = <<>> /\ \E ok \in BOOLEAN : finish(r, ok, stack)
    BY <1>4 DEF answer, scriptLoaded, timeout
  <2>2. ~new(r)
    BY <1>4, Known DEF answer, scriptLoaded, timeout
  <2>3. QED
    BY <2>1, <2>2, FinishKeeps
<1>5. QED
  BY <1>1, <1>2, <1>3, <1>4

\* A callback returns, or done has called those of its outcome.
LEMMA GoOnKeeps ==
    ASSUME AjaxInv, callbackReturn \/ outcomeReturn
    PROVE  AjaxInv'
<1> USE DEF InAjax, Preparing, InFiring, Labels, UserCode
<1>1. stack # <<>> /\ top.at \in {"callback", "outcome"}
  BY DEF callbackReturn, outcomeReturn, at
<1>2. stack \in Seq(Frames) /\ StackOK /\ top \in Frames /\ outside(top.r)
  BY <1>1, TopRequest
<1>3. UNCHANGED <<state, transport, timer, lists, fireGlobals, active, shown, called,
                  finished, thrown, cut, cutAgain, added>>
  BY DEF callbackReturn, outcomeReturn, requestVars, historyVars
<1>4. PICK f \in Frames : /\ stack' = Append(below, f) /\ f.r = top.r
                          /\ \/ top.at = "callback" /\ f.at = "firing" /\ f.kind = top.kind
                             \/ top.at = "outcome" /\ f.at = "resolve"
  <2>1. CASE callbackReturn
    <3>1. [top EXCEPT !.at = "firing"] \in Frames
      BY <1>2 DEF Frames
    <3>2. QED
      BY <1>2, <2>1, <3>1 DEF callbackReturn, at, goto, Frames
  <2>2. CASE outcomeReturn
    <3>1. [top EXCEPT !.at = "resolve", !.kind = "complete"] \in Frames
      BY <1>2 DEF Frames, Kinds
    <3>2. QED
      BY <1>2, <2>2, <3>1 DEF outcomeReturn, at, Frames
  <2>3. QED
    BY <2>1, <2>2
<1>5. /\ stack' \in Seq(Frames) /\ StackOK'
      /\ \A q : /\ named(q)' => named(q)
                /\ prepares(q)' => prepares(q) \/ (q = f.r /\ f.at \in Preparing)
                /\ outside(q)' => outside(q) \/ (q = f.r /\ f.at \notin InAjax)
      /\ \A q, k : fires(q, k)' <=> \/ isFiring(f, q, k)
                                    \/ fires(q, k) /\ ~isFiring(top, q, k)
  BY <1>1, <1>2, <1>4, GoesOn DEF isFiring
<1>6. \A q, k : isFiring(f, q, k) <=> isFiring(top, q, k)
  BY <1>4 DEF isFiring
<1>7. \A k \in Kinds, q \in Requests : fires(q, k)' <=> fires(q, k)
  <2>1. \A q, k : isFiring(top, q, k) => fires(q, k)
    BY <1>1, <1>2, TopFrame DEF fires
  <2>2. QED
    BY <1>5, <1>6, <2>1
<1>8. TypeOK'
  BY <1>3, <1>5 DEF TypeOK, AjaxInv
<1>9. \A q \in Requests : Keeps(q)
  <2>1. \A q \in Requests : /\ new(q) => ~named(q)
                            /\ prepares(q) => transport[q] = "none" /\ ~timer[q]
    BY DEF AjaxInv, Begun, Unknown, Unanswered
  <2>2. \A q \in Requests : (prepares(q)' => prepares(q)) /\ (outside(q)' => outside(q))
    BY <1>2, <1>4, <1>5
  <2>3. QED
    BY <1>3, <1>5, <2>1, <2>2 DEF Keeps, new
<1>10. QED
  BY <1>3, <1>5, <1>7, <1>8, <1>9, Quiet

-----------------------------------------------------------------------------
(***************************************************************************)
(* The steps that change a list.                                           *)
(***************************************************************************)
LEMMA AfterFiring ==
    ASSUME AjaxInv, stack # <<>>, top.at \in {"resolve", "firing"}, afterFiring
    PROVE  /\ stack' \in Seq(Frames) /\ StackOK'
           /\ \A q : /\ named(q)' => named(q)
                     /\ prepares(q)' => prepares(q)
                     /\ outside(q)' => outside(q)
           /\ \A q, k : fires(q, k)' <=> fires(q, k) /\ ~isFiring(top, q, k)
<1> USE DEF InAjax, Preparing, InFiring, Labels, UserCode
<1>1. stack \in Seq(Frames) /\ StackOK /\ top \in Frames /\ outside(top.r)
  BY TopRequest
<1>2. CASE stack' = below
  BY <1>1, <1>2, Returns
<1>3. ASSUME NEW label \in {"outcome", "ajaxComplete"}, goto(label)
      PROVE  /\ stack' \in Seq(Frames) /\ StackOK'
             /\ \A q : /\ named(q)' => named(q)
                       /\ prepares(q)' => prepares(q)
                       /\ outside(q)' => outside(q)
             /\ \A q, k : fires(q, k)' <=> fires(q, k) /\ ~isFiring(top, q, k)
  <2>1. PICK f \in Frames : stack' = Append(below, f) /\ f.r = top.r /\ f.at = label
    <3>1. [top EXCEPT !.at = label] \in Frames
      BY <1>1 DEF Frames
    <3>2. QED
      BY <1>1, <1>3, <3>1 DEF goto, Frames
  <2>2. /\ stack' \in Seq(Frames) /\ StackOK'
        /\ \A q : /\ named(q)' => named(q)
                  /\ prepares(q)' => prepares(q) \/ (q = f.r /\ f.at \in Preparing)
                  /\ outside(q)' => outside(q) \/ (q = f.r /\ f.at \notin InAjax)
        /\ \A q, k : fires(q, k)' <=> \/ isFiring(f, q, k)
                                      \/ fires(q, k) /\ ~isFiring(top, q, k)
    BY <1>1, <2>1, GoesOn
  <2>3. \A q, k : ~isFiring(f, q, k)
    BY <2>1 DEF isFiring
  <2>4. QED
    BY <1>1, <2>1, <2>2, <2>3
<1>4. QED
  BY <1>2, <1>3 DEF afterFiring

\* The operations on a list, field by field.
LEMMA ListFields ==
    ASSUME NEW L \in ListType
    PROVE  /\ fire(L) \in ListType
           /\ fire(L).callbacks = L.callbacks /\ fire(L).fired = L.fired
           /\ fire(L).firing /\ fire(L).cancelled = L.cancelled
           /\ cancel(L) \in ListType
           /\ cancel(L).callbacks = <<>> /\ cancel(L).fired = L.fired
           /\ cancel(L).firing = L.firing /\ cancel(L).cancelled
           /\ firedNow(L) \in ListType
           /\ firedNow(L).callbacks = L.callbacks /\ firedNow(L).fired
           /\ ~firedNow(L).firing /\ firedNow(L).cancelled = L.cancelled
<1>1. L.callbacks \in Seq(Callbacks) /\ {L.fired, L.firing, L.cancelled} \subseteq BOOLEAN
  BY DEF ListType
<1>2. /\ fire(L) \in ListType
      /\ fire(L).callbacks = L.callbacks /\ fire(L).fired = L.fired
      /\ fire(L).firing /\ fire(L).cancelled = L.cancelled
  BY <1>1 DEF fire, ListType
<1>3. /\ cancel(L) \in ListType
      /\ cancel(L).callbacks = <<>> /\ cancel(L).fired = L.fired
      /\ cancel(L).firing = L.firing /\ cancel(L).cancelled
  <2>1. <<>> \in Seq(Callbacks)
    OBVIOUS
  <2>2. QED
    BY <1>1, <2>1 DEF cancel, ListType
<1>4. /\ firedNow(L) \in ListType
      /\ firedNow(L).callbacks = L.callbacks /\ firedNow(L).fired
      /\ ~firedNow(L).firing /\ firedNow(L).cancelled = L.cancelled
  BY <1>1 DEF firedNow, ListType
<1>5. QED
  BY <1>2, <1>3, <1>4

LEMMA ShiftFields ==
    ASSUME NEW L \in ListType, L.callbacks # <<>>
    PROVE  /\ shift(L) \in ListType /\ shift(L).callbacks = Tail(L.callbacks)
           /\ shift(L).fired = L.fired /\ shift(L).firing = L.firing
           /\ shift(L).cancelled = L.cancelled
           /\ Head(L.callbacks) \in Callbacks /\ has(L, Head(L.callbacks))
           /\ \A c : has(shift(L), c) => has(L, c)
           /\ \A i \in DOMAIN shift(L).callbacks :
                 /\ i + 1 \in DOMAIN L.callbacks /\ i + 1 # 1
                 /\ i \in Int
                 /\ shift(L).callbacks[i] = L.callbacks[i + 1]
           /\ 1 \in DOMAIN L.callbacks /\ L.callbacks[1] = Head(L.callbacks)
<1>1. L = [callbacks |-> L.callbacks, fired |-> L.fired, firing |-> L.firing,
           cancelled |-> L.cancelled]
  BY DEF ListType
<1>2. L.callbacks \in Seq(Callbacks) /\ {L.fired, L.firing, L.cancelled} \subseteq BOOLEAN
  BY DEF ListType
<1>3. shift(L) = [callbacks |-> Tail(L.callbacks), fired |-> L.fired, firing |-> L.firing,
                  cancelled |-> L.cancelled]
  BY <1>1 DEF shift
<1>4. /\ Tail(L.callbacks) \in Seq(Callbacks) /\ Head(L.callbacks) \in Callbacks
      /\ 1 \in DOMAIN L.callbacks /\ L.callbacks[1] = Head(L.callbacks)
      /\ \A i \in DOMAIN Tail(L.callbacks) :
            /\ i + 1 \in DOMAIN L.callbacks /\ i + 1 # 1 /\ i \in Int
            /\ Tail(L.callbacks)[i] = L.callbacks[i + 1]
  <2> DEFINE s == L.callbacks
  <2>1. s \in Seq(Callbacks) /\ s # <<>>
    BY <1>2
  <2> HIDE DEF s
  <2>2. /\ Tail(s) \in Seq(Callbacks) /\ Head(s) \in Callbacks
        /\ Len(s) \in Nat \ {0} /\ DOMAIN s = 1..Len(s) /\ s[1] = Head(s)
        /\ Len(Tail(s)) = Len(s) - 1
        /\ \A i \in 1..(Len(s) - 1) : Tail(s)[i] = s[i + 1]
    BY <2>1
  <2>3. DOMAIN Tail(s) = 1..(Len(s) - 1)
    BY <2>2
  <2>4. \A i \in 1..(Len(s) - 1) : i + 1 \in 1..Len(s) /\ i + 1 # 1 /\ i \in Int
    BY <2>2
  <2>5. 1 \in 1..Len(s)
    BY <2>2
  <2>6. QED
    BY <2>2, <2>3, <2>4, <2>5 DEF s
<1>5. shift(L) \in ListType /\ shift(L).callbacks = Tail(L.callbacks)
  BY <1>2, <1>3, <1>4 DEF ListType
<1>6. has(L, Head(L.callbacks)) /\ \A c : has(shift(L), c) => has(L, c)
  BY <1>4, <1>5 DEF has
<1>7. /\ shift(L).fired = L.fired /\ shift(L).firing = L.firing
      /\ shift(L).cancelled = L.cancelled
  BY <1>3
<1>8. \A i \in DOMAIN shift(L).callbacks :
         /\ i + 1 \in DOMAIN L.callbacks /\ i + 1 # 1 /\ i \in Int
         /\ shift(L).callbacks[i] = L.callbacks[i + 1]
  BY <1>4, <1>5
<1>9. QED
  BY <1>4, <1>5, <1>6, <1>7, <1>8

LEMMA DoneFields ==
    ASSUME NEW L \in ListType, NEW c \in Callbacks, ~L.cancelled
    PROVE  /\ done(L, c) \in ListType /\ done(L, c).callbacks = Append(L.callbacks, c)
           /\ ~done(L, c).fired /\ done(L, c).firing = (L.firing \/ L.fired)
           /\ ~done(L, c).cancelled
           /\ \A d : has(done(L, c), d) => d = c \/ has(L, d)
           /\ \A i \in DOMAIN done(L, c).callbacks :
                 \/ i \in DOMAIN L.callbacks /\ done(L, c).callbacks[i] = L.callbacks[i]
                 \/ i = Len(L.callbacks) + 1 /\ done(L, c).callbacks[i] = c
<1>1. L = [callbacks |-> L.callbacks, fired |-> L.fired, firing |-> L.firing,
           cancelled |-> L.cancelled]
  BY DEF ListType
<1>2. L.callbacks \in Seq(Callbacks) /\ {L.fired, L.firing, L.cancelled} \subseteq BOOLEAN
  BY DEF ListType
<1>3. done(L, c) = [callbacks |-> Append(L.callbacks, c), fired |-> FALSE,
                    firing |-> L.firing \/ L.fired, cancelled |-> L.cancelled]
  BY <1>1 DEF done
<1>4. /\ Append(L.callbacks, c) \in Seq(Callbacks)
      /\ \A i \in DOMAIN Append(L.callbacks, c) :
            \/ i \in DOMAIN L.callbacks /\ Append(L.callbacks, c)[i] = L.callbacks[i]
            \/ i = Len(L.callbacks) + 1 /\ Append(L.callbacks, c)[i] = c
  <2> DEFINE s == L.callbacks
  <2>1. s \in Seq(Callbacks)
    BY <1>2
  <2> HIDE DEF s
  <2>2. /\ Append(s, c) \in Seq(Callbacks) /\ Len(s) \in Nat /\ DOMAIN s = 1..Len(s)
        /\ DOMAIN Append(s, c) = 1..(Len(s) + 1)
        /\ \A i \in 1..Len(s) : Append(s, c)[i] = s[i]
        /\ Append(s, c)[Len(s) + 1] = c
    BY <2>1
  <2>3. \A i \in 1..(Len(s) + 1) : i \in 1..Len(s) \/ i = Len(s) + 1
    BY <2>2
  <2>4. QED
    BY <2>2, <2>3 DEF s
<1>5. (L.firing \/ L.fired) \in BOOLEAN
  OBVIOUS
<1>6. done(L, c) \in ListType /\ done(L, c).callbacks = Append(L.callbacks, c)
  BY <1>2, <1>3, <1>4, <1>5 DEF ListType
<1>7. \A d : has(done(L, c), d) => d = c \/ has(L, d)
  BY <1>4, <1>6 DEF has
<1>8. ~done(L, c).fired /\ ~done(L, c).cancelled /\ done(L, c).firing = (L.firing \/ L.fired)
  BY <1>3
<1>9. QED
  BY <1>4, <1>6, <1>7, <1>8

\* A step that changes the lists of one request, which ajax has been called for.
LEMMA ListStep ==
    ASSUME AjaxInv, TypeOK', StackOK', FiringOnStack', NEW q \in Requests, ~new(q),
           UNCHANGED <<state, transport, timer, finished>>,
           \A r \in Requests \ {q} : UNCHANGED <<lists[r], called[r]>>,
           \A r : /\ named(r)' => named(r) \/ r = q
                  /\ prepares(r)' => prepares(r)
                  /\ outside(r)' => outside(r) \/ r = q,
           \A k \in Kinds : ListOK(q, k)', \A k \in Main : Once(q, k)',
           prepares(q)' => Unanswered(q)'
    PROVE  AjaxInv'
<1>1. Begun'
  <2>1. SUFFICES ASSUME NEW r \in Requests
                 PROVE  (new(r)' => Unknown(r)') /\ (prepares(r)' => Unanswered(r)')
    BY DEF Begun
  <2>2. (new(r) => Unknown(r)) /\ (prepares(r) => Unanswered(r))
    BY DEF AjaxInv, Begun
  <2>3. CASE r = q
    BY <2>3 DEF new
  <2>4. CASE r # q
    <3>1. new(r)' => Unknown(r)'
      BY <2>2, <2>4 DEF new, Unknown
    <3>2. prepares(r)' => Unanswered(r)'
      BY <2>2, <2>4 DEF Unanswered, has
    <3>3. QED
      BY <3>1, <3>2
  <2>5. QED
    BY <2>3, <2>4
<1>2. ListsOK'
  <2>1. \A r \in Requests \ {q}, k \in Kinds : ListOK(r, k)'
    BY DEF AjaxInv, ListsOK, ListOK
  <2>2. QED
    BY <2>1 DEF ListsOK
<1>3. CalledOnce'
  <2>1. \A r \in Requests \ {q}, k \in Main : Once(r, k)'
    BY DEF AjaxInv, CalledOnce, Once, has
  <2>2. QED
    BY <2>1 DEF CalledOnce
<1>4. QED
  BY <1>1, <1>2, <1>3 DEF AjaxInv

\* What the invariant says of a list.
LEMMA ListFacts ==
    ASSUME AjaxInv, NEW r \in Requests, NEW k \in Kinds
    PROVE  /\ lists[r][k] \in ListType /\ ListOK(r, k)
           /\ lists[r][k].firing <=> fires(r, k)
BY FiringFires DEF AjaxInv, TypeOK, ListsOK

LEMMA ResolveKeeps ==
    ASSUME AjaxInv, resolveWith
    PROVE  AjaxInv'
<1> USE DEF InAjax, Preparing, InFiring, Labels
<1>1. /\ stack # <<>> /\ top.at = "resolve"
      /\ UNCHANGED <<state, transport, timer, fireGlobals, active, shown, called,
                     finished, thrown, cut, cutAgain, added>>
  BY DEF resolveWith, at, historyVars
<1>2. /\ stack \in Seq(Frames) /\ StackOK /\ top \in Frames /\ outside(top.r)
      /\ top.r \in Requests /\ ~new(top.r) /\ named(top.r)
  BY <1>1, TopRequest
<1>3. CASE ~mayFire(lists[top.r][top.kind]) /\ afterFiring /\ lists' = lists
  <2>1. /\ stack' \in Seq(Frames) /\ StackOK'
        /\ \A q : /\ named(q)' => named(q)
                  /\ prepares(q)' => prepares(q)
                  /\ outside(q)' => outside(q)
        /\ \A q, k : fires(q, k)' <=> fires(q, k)
    BY <1>1, <1>3, AfterFiring DEF isFiring
  <2>2. TypeOK'
    BY <1>1, <1>3, <2>1 DEF AjaxInv, TypeOK
  <2>3. \A q \in Requests : Keeps(q)
    <3>1. \A q \in Requests : /\ new(q) => ~named(q)
                              /\ prepares(q) => transport[q] = "none" /\ ~timer[q]
      BY DEF AjaxInv, Begun, Unknown, Unanswered
    <3>2. QED
      BY <1>1, <2>1, <3>1 DEF Keeps, new
  <2>4. QED
    BY <1>1, <1>3, <2>1, <2>2, <2>3, Quiet
<1>4. CASE mayFire(lists[top.r][top.kind]) /\ fireOnly(top.r, top.kind) /\ goto("firing")
  <2>1. PICK q \in Requests, K \in Kinds : q = top.r /\ K = top.kind
    BY <1>2 DEF Frames
  <2>2. /\ mayFire(lists[q][K]) /\ outside(q) /\ ~new(q)
        /\ lists' = [lists EXCEPT ![q] = [j \in Kinds |->
                       IF j = K THEN fire(lists[q][j])
                       ELSE IF "complete" \in {j, K} THEN lists[q][j] ELSE cancel(lists[q][j])]]
    BY <1>2, <1>4, <2>1 DEF fireOnly, TypeOK, AjaxInv
  <2>3. \A k \in Kinds : lists[q][k] \in ListType /\ ListOK(q, k) /\ (lists[q][k].firing <=> fires(q, k))
    BY ListFacts
  <2>4. /\ \A r \in Requests \ {q} : lists'[r] = lists[r]
        /\ \A k \in Kinds : lists'[q][k] =
              IF k = K THEN fire(lists[q][k])
              ELSE IF "complete" \in {k, K} THEN lists[q][k] ELSE cancel(lists[q][k])
        /\ lists' \in [Requests -> [Kinds -> ListType]]
    <3>1. \A k \in Kinds : fire(lists[q][k]) \in ListType /\ cancel(lists[q][k]) \in ListType
      BY <2>3, ListFields
    <3>2. lists \in [Requests -> [Kinds -> ListType]]
      BY DEF AjaxInv, TypeOK
    <3>3. QED
      BY <2>2, <2>3, <3>1, <3>2
  <2> DEFINE old(k) == lists[q][k]
             upd(k) == lists'[q][k]
  <2>5. \A k \in Kinds :
           /\ upd(k).fired = old(k).fired
           /\ upd(k).firing <=> old(k).firing \/ k = K
           /\ \/ upd(k).cancelled = old(k).cancelled /\ upd(k).callbacks = old(k).callbacks
                 /\ (k = K \/ "complete" \in {k, K})
              \/ upd(k).cancelled /\ upd(k).callbacks = <<>>
    BY <2>3, <2>4, ListFields
  <2>6. ~old(K).cancelled /\ ~old(K).fired /\ ~old(K).firing /\ ~fires(q, K)
    BY <2>2, <2>3 DEF mayFire
  <2>7. PICK f \in Frames : stack' = Append(below, f) /\ f.r = q /\ f.kind = K /\ f.at = "firing"
    <3>1. [top EXCEPT !.at = "firing"] \in Frames
      BY <1>2 DEF Frames
    <3>2. QED
      BY <1>2, <1>4, <2>1, <3>1 DEF goto, Frames
  <2>8. /\ stack' \in Seq(Frames) /\ StackOK'
        /\ \A r : /\ named(r)' => named(r)
                  /\ prepares(r)' => prepares(r) \/ (r = f.r /\ f.at \in Preparing)
                  /\ outside(r)' => outside(r) \/ (r = f.r /\ f.at \notin InAjax)
        /\ \A r, k : fires(r, k)' <=> \/ isFiring(f, r, k)
                                      \/ fires(r, k) /\ ~isFiring(top, r, k)
    BY <1>1, <1>2, <2>1, <2>6, <2>7, GoesOn
  <2>9. TypeOK'
    BY <1>1, <2>4, <2>8 DEF AjaxInv, TypeOK
  <2>10. FiringOnStack'
    <3>1. \A r, k : fires(r, k)' <=> (r = q /\ k = K) \/ fires(r, k)
      BY <1>1, <2>7, <2>8 DEF isFiring
    <3>2. \A r \in Requests, k \in Kinds : lists[r][k].firing <=> fires(r, k)
      BY ListFacts
    <3>3. \A r \in Requests, k \in Kinds : (lists[r][k].firing <=> fires(r, k))'
      BY <2>4, <2>5, <3>1, <3>2
    <3>4. QED
      BY <3>3, FiringFiresNext
  <2>11. \A k \in Kinds : ListOK(q, k)'
    <3>1. \A k \in Kinds : ListOK(q, k)
      BY <2>3
    <3>2. SUFFICES ASSUME NEW k \in Kinds PROVE ListOK(q, k)'
      OBVIOUS
    <3>3. upd(k).cancelled => upd(k).callbacks = <<>>
      BY <2>5, <3>1 DEF ListOK
    <3>4. upd(k).firing => ~upd(k).fired
      BY <2>5, <2>6, <3>1 DEF ListOK
    <3>5. \A i \in DOMAIN upd(k).callbacks :
             upd(k).callbacks[i] \in Answers => k \in Main /\ upd(k).callbacks[i] = optionCallbacks[k]
      BY <2>5, <3>1 DEF ListOK
    <3>6. \A i, j \in DOMAIN upd(k).callbacks :
             upd(k).callbacks[i] = upd(k).callbacks[j] /\ upd(k).callbacks[i] \in Answers => i = j
      BY <2>5, <3>1 DEF ListOK
    <3>7. k \in Main /\ (upd(k).fired \/ upd(k).firing) => upd(other(k)).cancelled
      <4>1. ASSUME k \in Main PROVE other(k) \in Kinds /\ other(other(k)) = k /\ other(k) # k
        BY <4>1 DEF Main, Kinds, other
      <4>2. CASE k = K /\ k \in Main
        <5>1. other(k) # K /\ "complete" \notin {other(k), K}
          BY <4>2 DEF Main, other
        <5>2. QED
          BY <2>5, <4>1, <4>2, <5>1
      <4>3. CASE k # K /\ k \in Main
        <5>1. upd(k).fired \/ upd(k).firing => old(other(k)).cancelled
          BY <2>5, <3>1, <4>3 DEF ListOK
        <5>2. QED
          BY <2>5, <4>1, <4>3, <5>1
      <4>4. QED
        BY <4>2, <4>3
    <3>8. QED
      BY <3>3, <3>4, <3>5, <3>6, <3>7 DEF ListOK
  <2>12. \A k \in Kinds : \A c : /\ old(k).cancelled => upd(k).cancelled
                                 /\ has(upd(k), c) => has(old(k), c)
    BY <2>5 DEF has
  <2>13. \A k \in Main : Once(q, k)'
    <3>1. \A k \in Main : k \in Kinds /\ other(k) \in Kinds /\ Once(q, k)
      BY DEF AjaxInv, CalledOnce, Main, Kinds, other
    <3>2. QED
      BY <1>1, <2>12, <3>1 DEF Once
  <2>14. prepares(q)' => Unanswered(q)'
    <3>1. prepares(q)' => prepares(q) /\ Unanswered(q) /\ state[q] = 2
      BY <2>2, <2>7, <2>8 DEF AjaxInv, Begun, Unanswered
    <3>2. QED
      BY <1>1, <2>12, <3>1 DEF Unanswered
  <2> HIDE DEF old, upd
  <2>15. QED
    BY <1>1, <2>2, <2>4, <2>7, <2>8, <2>9, <2>10, <2>11, <2>13, <2>14, ListStep
<1>5. QED
  BY <1>3, <1>4 DEF resolveWith

\* Setting one list.
LEMMA SetList ==
    ASSUME AjaxInv, NEW q \in Requests, NEW K \in Kinds, NEW L \in ListType, setList(q, K, L)
    PROVE  /\ lists' \in [Requests -> [Kinds -> ListType]]
           /\ \A r \in Requests \ {q} : lists'[r] = lists[r]
           /\ \A k \in Kinds \ {K} : lists'[q][k] = lists[q][k]
           /\ lists'[q][K] = L
<1>1. lists \in [Requests -> [Kinds -> ListType]]
  BY DEF AjaxInv, TypeOK
<1>2. QED
  BY <1>1 DEF setList

LEMMA CallNextKeeps ==
    ASSUME AjaxInv, callNext
    PROVE  AjaxInv'
<1> USE DEF InAjax, Preparing, InFiring, Labels, UserCode
<1>1. /\ stack # <<>> /\ top.at = "firing"
      /\ UNCHANGED <<state, transport, timer, fireGlobals, active, shown, finished, thrown, cut, cutAgain, added>>
  BY DEF callNext, at
<1>2. /\ stack \in Seq(Frames) /\ StackOK /\ top \in Frames /\ outside(top.r)
      /\ top.r \in Requests /\ ~new(top.r) /\ named(top.r)
  BY <1>1, TopRequest
<1>3. PICK q \in Requests, K \in Kinds : q = top.r /\ K = top.kind
  BY <1>2 DEF Frames
<1> DEFINE L == lists[q][K]
<1>4. /\ L \in ListType /\ ListOK(q, K)
      /\ \A k \in Kinds : ListOK(q, k) /\ lists[q][k] \in ListType
      /\ \A r \in Requests, k \in Kinds : lists[r][k].firing <=> fires(r, k)
  BY ListFacts
<1>5. isFiring(top, q, K) /\ fires(q, K) /\ L.firing
  <2>1. isFiring(top, q, K)
    BY <1>1, <1>3 DEF isFiring
  <2>2. fires(q, K)
    BY <1>1, <1>2, <2>1, TopFrame DEF fires
  <2>3. QED
    BY <1>4, <2>1, <2>2
<1>6. \A k \in Main : k \in Kinds /\ other(k) \in Kinds \ {k} /\ Once(q, k)
  BY DEF AjaxInv, CalledOnce, Main, Kinds, other
<1>7. (~L.fired /\ ~L.cancelled) \/ L.callbacks = <<>>
  BY <1>4, <1>5 DEF ListOK
<1>8. prepares(q) => Unanswered(q) /\ state[q] = 2
  BY <1>2, <1>3 DEF AjaxInv, Begun, Unanswered
<1>9. CASE /\ L.callbacks # <<>> /\ setList(q, K, shift(L)) /\ goto("callback")
           /\ called' = [called EXCEPT ![q][Head(L.callbacks)] = @ + 1]
  <2> DEFINE c == Head(L.callbacks)
  <2>1. /\ shift(L) \in ListType
        /\ shift(L).fired = L.fired /\ shift(L).firing = L.firing
        /\ shift(L).cancelled = L.cancelled
        /\ c \in Callbacks /\ has(L, c)
        /\ \A d : has(shift(L), d) => has(L, d)
        /\ \A i \in DOMAIN shift(L).callbacks :
              /\ i + 1 \in DOMAIN L.callbacks /\ i + 1 # 1 /\ i \in Int
              /\ shift(L).callbacks[i] = L.callbacks[i + 1]
        /\ 1 \in DOMAIN L.callbacks /\ L.callbacks[1] = c
    BY <1>4, <1>9, ShiftFields
  <2>2. /\ lists' \in [Requests -> [Kinds -> ListType]]
        /\ \A r \in Requests \ {q} : lists'[r] = lists[r]
        /\ \A k \in Kinds \ {K} : lists'[q][k] = lists[q][k]
        /\ lists'[q][K] = shift(L)
    BY <1>9, <2>1, SetList
  <2>3. /\ called' \in [Requests -> [Callbacks -> Nat]]
        /\ \A r \in Requests \ {q} : called'[r] = called[r]
        /\ \A d \in Callbacks \ {c} : called'[q][d] = called[q][d]
        /\ called'[q][c] = called[q][c] + 1
    <3>1. called \in [Requests -> [Callbacks -> Nat]] /\ c \in Callbacks
      BY <2>1 DEF AjaxInv, TypeOK
    <3> HIDE DEF c
    <3>2. called' = [called EXCEPT ![q][c] = @ + 1]
      BY <1>9 DEF c
    <3>3. QED
      BY <3>1, <3>2
  <2> HIDE DEF L, c
  <2>4. PICK f \in Frames : stack' = Append(below, f) /\ f.r = q /\ f.kind = K /\ f.at = "callback"
    <3>1. [top EXCEPT !.at = "callback"] \in Frames
      BY <1>2 DEF Frames
    <3>2. QED
      BY <1>2, <1>3, <1>9, <3>1 DEF goto, Frames
  <2>5. /\ stack' \in Seq(Frames) /\ StackOK'
        /\ \A r : /\ named(r)' => named(r)
                  /\ prepares(r)' => prepares(r) \/ (r = f.r /\ f.at \in Preparing)
                  /\ outside(r)' => outside(r) \/ (r = f.r /\ f.at \notin InAjax)
        /\ \A r, k : fires(r, k)' <=> \/ isFiring(f, r, k)
                                      \/ fires(r, k) /\ ~isFiring(top, r, k)
    BY <1>1, <1>2, <1>3, <1>5, <2>4, GoesOn
  <2>6. TypeOK'
    BY <1>1, <2>2, <2>3, <2>5 DEF AjaxInv, TypeOK
  <2>7. FiringOnStack'
    <3>1. \A r, k : fires(r, k)' <=> fires(r, k)
      BY <1>1, <1>3, <1>5, <2>4, <2>5 DEF isFiring
    <3>2. \A k \in Kinds : lists'[q][k].firing = lists[q][k].firing
      BY <2>1, <2>2 DEF L
    <3>3. \A r \in Requests, k \in Kinds : (lists[r][k].firing <=> fires(r, k))'
      BY <1>4, <2>2, <3>1, <3>2
    <3>4. QED
      BY <3>3, FiringFiresNext
  <2>8. \A k \in Kinds : ListOK(q, k)'
    <3>1. \A k \in Kinds : /\ lists'[q][k].cancelled = lists[q][k].cancelled
                           /\ lists'[q][k].fired = lists[q][k].fired
                           /\ lists'[q][k].firing = lists[q][k].firing
      BY <2>1, <2>2 DEF L
    <3>2. ASSUME NEW k \in Kinds \ {K} PROVE ListOK(q, k)'
      BY <1>4, <1>6, <2>2, <3>1, <3>2 DEF ListOK
    <3>3. ListOK(q, K)'
      <4>1. ~shift(L).cancelled
        BY <1>7, <1>9, <2>1 DEF L
      <4>2. shift(L).firing => ~shift(L).fired
        BY <1>4, <2>1 DEF ListOK, L
      <4>3. \A i \in DOMAIN shift(L).callbacks :
               shift(L).callbacks[i] \in Answers
                  => K \in Main /\ shift(L).callbacks[i] = optionCallbacks[K]
        BY <1>4, <2>1 DEF ListOK, L
      <4>4. \A i, j \in DOMAIN shift(L).callbacks :
               /\ shift(L).callbacks[i] = shift(L).callbacks[j]
               /\ shift(L).callbacks[i] \in Answers
               => i = j
        <5>1. \A i, j \in DOMAIN L.callbacks :
                 L.callbacks[i] = L.callbacks[j] /\ L.callbacks[i] \in Answers => i = j
          BY <1>4 DEF ListOK, L
        <5>2. SUFFICES ASSUME NEW i \in DOMAIN shift(L).callbacks,
                              NEW j \in DOMAIN shift(L).callbacks,
                              shift(L).callbacks[i] = shift(L).callbacks[j],
                              shift(L).callbacks[i] \in Answers
                       PROVE  i = j
          OBVIOUS
        <5>3. i + 1 = j + 1 /\ i \in Int /\ j \in Int
          BY <2>1, <5>1, <5>2
        <5>4. QED
          BY <5>3
      <4>5. K \in Main /\ (shift(L).fired \/ shift(L).firing) => lists'[q][other(K)].cancelled
        BY <1>4, <1>6, <2>1, <3>1 DEF ListOK, L
      <4>6. QED
        BY <2>2, <4>1, <4>2, <4>3, <4>4, <4>5 DEF ListOK
    <3>4. QED
      BY <3>2, <3>3
  <2>9. c \in Answers => /\ K \in Main /\ c = optionCallbacks[K] /\ lists[q][other(K)].cancelled
                         /\ ~has(shift(L), c)
    <3>1. SUFFICES ASSUME c \in Answers
                   PROVE  /\ K \in Main /\ c = optionCallbacks[K] /\ lists[q][other(K)].cancelled
                          /\ ~has(shift(L), c)
      OBVIOUS
    <3>2. K \in Main /\ c = optionCallbacks[K] /\ lists[q][other(K)].cancelled
      BY <1>4, <1>5, <2>1, <3>1 DEF ListOK, L
    <3>3. \A i \in DOMAIN L.callbacks : L.callbacks[i] = c => i = 1
      BY <1>4, <2>1, <3>1 DEF ListOK, L
    <3>4. ~has(shift(L), c)
      BY <2>1, <3>3 DEF has
    <3>5. QED
      BY <3>2, <3>4
  <2>10. \A k \in Kinds : \A d : /\ lists'[q][k].cancelled = lists[q][k].cancelled
                                 /\ has(lists'[q][k], d) => has(lists[q][k], d)
    BY <2>1, <2>2 DEF L
  <2>11. \A k \in Main : /\ optionCallbacks[k] \in Answers \cap Callbacks
                         /\ optionCallbacks[other(k)] \in (Answers \cap Callbacks) \ {optionCallbacks[k]}
                         /\ \A j \in Main : j = k \/ (j = other(k) /\ k = other(j))
    BY DEF Main, other, optionCallbacks, Answers, Callbacks
  <2>12. \A k \in Main : Once(q, k)'
    <3>1. CASE c \notin Answers
      <4>1. \A k \in Main : /\ called'[q][optionCallbacks[k]] = called[q][optionCallbacks[k]]
                            /\ called'[q][optionCallbacks[other(k)]] = called[q][optionCallbacks[other(k)]]
        BY <2>3, <2>11, <3>1
      <4>2. QED
        BY <1>6, <2>10, <4>1 DEF Once
    <3>2. CASE c \in Answers
      <4>1. K \in Main /\ c = optionCallbacks[K] /\ lists[q][other(K)].cancelled /\ ~has(shift(L), c)
        BY <2>9, <3>2
      <4>2. called[q][c] = 0
        BY <1>6, <2>1, <4>1 DEF Once, L
      <4>3. called[q][optionCallbacks[other(K)]] = 0
        <5>1. other(K) \in Main /\ other(other(K)) = K
          BY <4>1 DEF Main, other
        <5>2. ~lists[q][K].cancelled
          BY <1>7, <1>9 DEF L
        <5>3. QED
          BY <1>6, <5>1, <5>2 DEF Once
      <4>4. Once(q, K)'
        <5>1. called'[q][optionCallbacks[K]] = 1 /\ called'[q][optionCallbacks[other(K)]] = 0
          BY <2>3, <2>11, <4>1, <4>2, <4>3
        <5>2. lists'[q][other(K)].cancelled /\ ~has(lists'[q][K], optionCallbacks[K])
          BY <1>6, <2>2, <2>10, <4>1
        <5>3. QED
          BY <5>1, <5>2 DEF Once
      <4>5. Once(q, other(K))'
        <5>1. called'[q][optionCallbacks[other(K)]] = 0
          BY <2>3, <2>11, <4>1, <4>3
        <5>2. QED
          BY <5>1 DEF Once
      <4>6. QED
        BY <2>11, <4>1, <4>4, <4>5
    <3>3. QED
      BY <3>1, <3>2
  <2>13. prepares(q)' => Unanswered(q)'
    <3>1. prepares(q)' => prepares(q)
      BY <2>4, <2>5
    <3>2. ASSUME prepares(q) PROVE c \notin Answers
      BY <1>8, <2>1, <3>2 DEF Unanswered, L
    <3>3. ASSUME prepares(q) PROVE \A d \in Answers : called'[q][d] = 0
      BY <1>8, <2>3, <3>2, <3>3 DEF Unanswered, Answers, Callbacks
    <3>4. QED
      BY <1>1, <1>8, <2>10, <3>1, <3>3 DEF Unanswered
  <2>14. QED
    BY <1>1, <1>2, <1>3, <2>2, <2>3, <2>4, <2>5, <2>6, <2>7, <2>8, <2>12, <2>13, ListStep
<1>10. CASE /\ L.callbacks = <<>> /\ setList(q, K, firedNow(L)) /\ afterFiring /\ called' = called
  <2>1. /\ firedNow(L) \in ListType
        /\ firedNow(L).callbacks = L.callbacks /\ firedNow(L).fired
        /\ ~firedNow(L).firing /\ firedNow(L).cancelled = L.cancelled
    BY <1>4, ListFields
  <2>2. /\ lists' \in [Requests -> [Kinds -> ListType]]
        /\ \A r \in Requests \ {q} : lists'[r] = lists[r]
        /\ \A k \in Kinds \ {K} : lists'[q][k] = lists[q][k]
        /\ lists'[q][K] = firedNow(L)
    BY <1>10, <2>1, SetList
  <2>3. /\ stack' \in Seq(Frames) /\ StackOK'
        /\ \A r : /\ named(r)' => named(r)
                  /\ prepares(r)' => prepares(r)
                  /\ outside(r)' => outside(r)
        /\ \A r, k : fires(r, k)' <=> fires(r, k) /\ ~isFiring(top, r, k)
    BY <1>1, <1>10, AfterFiring
  <2> HIDE DEF L
  <2>4. TypeOK'
    BY <1>1, <1>10, <2>2, <2>3 DEF AjaxInv, TypeOK
  <2>5. FiringOnStack'
    <3>1. \A r, k : isFiring(top, r, k) <=> r = q /\ k = K
      BY <1>1, <1>3 DEF isFiring
    <3>2. \A r \in Requests, k \in Kinds : (lists[r][k].firing <=> fires(r, k))'
      BY <1>4, <2>1, <2>2, <2>3, <3>1
    <3>3. QED
      BY <3>2, FiringFiresNext
  <2>6. \A k \in Kinds : ListOK(q, k)'
    <3>1. \A k \in Kinds : lists'[q][k].cancelled = lists[q][k].cancelled
      BY <2>1, <2>2 DEF L
    <3>2. ASSUME NEW k \in Kinds \ {K} PROVE ListOK(q, k)'
      BY <1>4, <1>6, <2>2, <3>1, <3>2 DEF ListOK
    <3>3. ListOK(q, K)'
      BY <1>4, <1>5, <1>6, <2>1, <2>2, <3>1 DEF ListOK, L
    <3>4. QED
      BY <3>2, <3>3
  <2>7. \A k \in Kinds : \A d : /\ lists'[q][k].cancelled = lists[q][k].cancelled
                                /\ has(lists'[q][k], d) => has(lists[q][k], d)
    BY <2>1, <2>2 DEF L, has
  <2>8. \A k \in Main : Once(q, k)'
    BY <1>6, <1>10, <2>7 DEF Once
  <2>9. prepares(q)' => Unanswered(q)'
    BY <1>1, <1>8, <1>10, <2>3, <2>7 DEF Unanswered
  <2>10. QED
    BY <1>1, <1>2, <1>3, <1>10, <2>2, <2>3, <2>4, <2>5, <2>6, <2>8, <2>9, ListStep
<1>11. QED
  BY <1>3, <1>9, <1>10 DEF callNext

\* A call of ajax for a new request.
LEMMA CallAjaxKeeps ==
    ASSUME AjaxInv, NEW q \in Requests, callAjax(q)
    PROVE  AjaxInv'
<1> USE DEF InAjax, Preparing, InFiring, Labels
<1>1. /\ new(q) /\ userRuns /\ state' = [state EXCEPT ![q] = 0]
      /\ stack' = Append(stack, frame("prefilter", q))
      /\ UNCHANGED <<transport, timer, lists, fireGlobals, active, shown, called,
                     finished, thrown, cut, cutAgain, added>>
  BY DEF callAjax, historyVars
<1>2. Unknown(q) /\ TypeOK /\ StackOK /\ stack \in Seq(Frames)
  BY <1>1 DEF AjaxInv, Begun, TypeOK
<1>3. PICK f \in Frames : stack' = Append(stack, f) /\ f.at = "prefilter" /\ f.r = q
  <2>1. frame("prefilter", q) \in Frames
    BY DEF frame, Frames, Kinds
  <2>2. QED
    BY <1>1, <2>1 DEF frame
<1>4. stack # <<>> => top.at \in UserCode \union {"send"}
  BY <1>1 DEF userRuns
<1>5. ~named(q)
  BY <1>2 DEF Unknown
<1>6. /\ stack' \in Seq(Frames) /\ StackOK'
      /\ \A r : /\ named(r)' => named(r) \/ r = f.r
                /\ prepares(r)' => prepares(r) \/ (r = f.r /\ f.at \in Preparing)
                /\ outside(r)' => outside(r) \/ (r = f.r /\ f.at \notin InAjax)
      /\ \A r, k : fires(r, k)' <=> isFiring(f, r, k) \/ fires(r, k)
  BY <1>2, <1>3, <1>4, <1>5, CallsOf
<1>7. TypeOK'
  BY <1>1, <1>2, <1>6 DEF TypeOK
<1>8. FiringOnStack'
  <2>1. \A r \in Requests, k \in Kinds : (lists[r][k].firing <=> fires(r, k))'
    BY <1>1, <1>3, <1>6, ListFacts DEF isFiring
  <2>2. QED
    BY <2>1, FiringFiresNext
<1>9. state'[q] = 0 /\ \A r \in Requests \ {q} : state'[r] = state[r]
  BY <1>1, <1>2 DEF TypeOK
<1>10. Begun'
  <2>1. SUFFICES ASSUME NEW r \in Requests
                 PROVE  (new(r)' => Unknown(r)') /\ (prepares(r)' => Unanswered(r)')
    BY DEF Begun
  <2>2. (new(r) => Unknown(r)) /\ (prepares(r) => Unanswered(r))
    BY DEF AjaxInv, Begun
  <2>3. CASE r # q
    BY <1>1, <1>3, <1>6, <1>9, <2>2, <2>3 DEF new, Unknown, Unanswered, has
  <2>4. CASE r = q
    <3>1. ~outside(r)'
      <4>1. outside(r) => named(r)
        BY DEF outside, named
      <4>2. QED
        BY <1>3, <1>5, <1>6, <2>4, <4>1
    <3>2. \A c \in Answers : c \in Callbacks
      BY DEF Answers, Callbacks
    <3>3. \A c, k : ~has(List, c) /\ ~List.fired
      BY DEF has, List
    <3>4. Unanswered(r)'
      BY <1>1, <1>2, <2>4, <3>1, <3>2, <3>3 DEF Unknown, Unanswered, has
    <3>5. QED
      BY <1>9, <2>4, <3>4 DEF new
  <2>5. QED
    BY <2>3, <2>4
<1>11. ListsOK' /\ CalledOnce'
  BY <1>1 DEF AjaxInv, ListsOK, ListOK, CalledOnce, Once, has
<1>12. QED
  BY <1>6, <1>7, <1>8, <1>10, <1>11 DEF AjaxInv

\* The callbacks of the options are installed.
LEMMA InstallKeeps ==
    ASSUME AjaxInv, beforeSendReturn
    PROVE  AjaxInv'
<1> USE DEF InAjax, Preparing, InFiring, Labels
<1>1. /\ stack # <<>> /\ top.at = "beforeSend" /\ state[top.r] # 2
      /\ UNCHANGED <<state, timer, fireGlobals, active, shown, called, finished, thrown, cut, cutAgain, added>>
  BY DEF beforeSendReturn, at, historyVars
<1>2. /\ stack \in Seq(Frames) /\ StackOK /\ top \in Frames
      /\ top.r \in Requests /\ ~new(top.r) /\ named(top.r) /\ prepares(top.r)
  BY <1>1, TopRequest
<1>3. PICK q \in Requests : q = top.r
  BY <1>2
<1>4. Unanswered(q) /\ TypeOK /\ ~outside(q)
  BY <1>1, <1>2, <1>3 DEF AjaxInv, Begun, Unanswered
<1>5. \A r \in Requests, k \in Kinds : /\ lists[r][k] \in ListType /\ ListOK(r, k)
                                       /\ lists[r][k].firing <=> fires(r, k)
  BY ListFacts
<1>6. \A k \in Kinds : ~lists[q][k].fired /\ ~lists[q][k].firing
  <2>1. \A k \in Kinds : ~fires(q, k)
    BY <1>4 DEF fires, isFiring, outside
  <2>2. QED
    BY <1>1, <1>3, <1>4, <1>5, <2>1 DEF Unanswered
<1>7. /\ lists' = [lists EXCEPT ![q] = [k \in Kinds |-> done(lists[q][k], optionCallbacks[k])]]
      /\ \E t \in {"none", "made", "script"} : transport' = [transport EXCEPT ![q] = t]
      /\ goto("catch") \/ goto("ajaxSend") \/ goto("unannounced")
  BY <1>3, <1>4 DEF beforeSendReturn, inspectPrefiltersOrTransports, TypeOK
<1>8. \A k \in Kinds :
         \/ lists[q][k].cancelled /\ done(lists[q][k], optionCallbacks[k]) = lists[q][k]
         \/ /\ ~lists[q][k].cancelled
            /\ done(lists[q][k], optionCallbacks[k]) \in ListType
            /\ ~done(lists[q][k], optionCallbacks[k]).fired
            /\ ~done(lists[q][k], optionCallbacks[k]).firing
            /\ ~done(lists[q][k], optionCallbacks[k]).cancelled
            /\ \A i \in DOMAIN done(lists[q][k], optionCallbacks[k]).callbacks :
                 \/ /\ i \in DOMAIN lists[q][k].callbacks
                    /\ done(lists[q][k], optionCallbacks[k]).callbacks[i] = lists[q][k].callbacks[i]
                 \/ /\ i = Len(lists[q][k].callbacks) + 1
                    /\ done(lists[q][k], optionCallbacks[k]).callbacks[i] = optionCallbacks[k]
  <2>1. \A k \in Kinds : optionCallbacks[k] \in Callbacks
    BY DEF Kinds, optionCallbacks, Callbacks
  <2>2. SUFFICES ASSUME NEW k \in Kinds, ~lists[q][k].cancelled
                 PROVE  LET D == done(lists[q][k], optionCallbacks[k]) IN
                        /\ D \in ListType /\ ~D.fired /\ ~D.firing /\ ~D.cancelled
                        /\ \A i \in DOMAIN D.callbacks :
                             \/ /\ i \in DOMAIN lists[q][k].callbacks
                                /\ D.callbacks[i] = lists[q][k].callbacks[i]
                             \/ /\ i = Len(lists[q][k].callbacks) + 1
                                /\ D.callbacks[i] = optionCallbacks[k]
    BY DEF done
  <2> DEFINE D == done(lists[q][k], optionCallbacks[k])
  <2>3. /\ D \in ListType /\ ~D.fired /\ ~D.cancelled
        /\ D.firing = (lists[q][k].firing \/ lists[q][k].fired)
        /\ \A i \in DOMAIN D.callbacks :
              \/ i \in DOMAIN lists[q][k].callbacks /\ D.callbacks[i] = lists[q][k].callbacks[i]
              \/ i = Len(lists[q][k].callbacks) + 1 /\ D.callbacks[i] = optionCallbacks[k]
    BY <1>5, <2>1, <2>2, DoneFields
  <2> HIDE DEF D
  <2>4. ~D.firing
    BY <1>6, <2>3, Zenon
  <2>5. QED
    BY <2>3, <2>4 DEF D
<1> DEFINE old(k) == lists[q][k]
           upd(k) == lists'[q][k]
<1>9. /\ \A r \in Requests \ {q} : lists'[r] = lists[r]
      /\ \A k \in Kinds : upd(k) = done(lists[q][k], optionCallbacks[k])
      /\ lists' \in [Requests -> [Kinds -> ListType]]
  <2>1. \A k \in Kinds : done(lists[q][k], optionCallbacks[k]) \in ListType
    BY <1>5, <1>8
  <2>2. lists \in [Requests -> [Kinds -> ListType]]
    BY <1>4 DEF TypeOK
  <2>3. QED
    BY <1>7, <2>1, <2>2
<1>10. \A k \in Kinds :
          \/ old(k).cancelled /\ upd(k) = old(k)
          \/ /\ ~old(k).cancelled /\ ~upd(k).fired /\ ~upd(k).firing /\ ~upd(k).cancelled
             /\ \A i \in DOMAIN upd(k).callbacks :
                  \/ i \in DOMAIN old(k).callbacks /\ upd(k).callbacks[i] = old(k).callbacks[i]
                  \/ i = Len(old(k).callbacks) + 1 /\ upd(k).callbacks[i] = optionCallbacks[k]
  BY <1>8, <1>9
<1>11. \A k \in Kinds : \A i \in DOMAIN old(k).callbacks : old(k).callbacks[i] \notin Answers
  BY <1>4 DEF Unanswered, has
<1> HIDE DEF old, upd
<1>12. \A k \in Kinds : ListOK(q, k)'
  <2>1. SUFFICES ASSUME NEW k \in Kinds PROVE ListOK(q, k)'
    OBVIOUS
  <2>2. CASE old(k).cancelled /\ upd(k) = old(k)
    <3>1. ~upd(k).fired /\ ~upd(k).firing
      BY <1>6, <2>2 DEF old
    <3>2. upd(k).callbacks = <<>>
      BY <1>5, <2>2 DEF old, ListOK
    <3>3. QED
      BY <3>1, <3>2 DEF ListOK, upd
  <2>3. CASE ~old(k).cancelled
    <3>1. /\ ~upd(k).fired /\ ~upd(k).firing /\ ~upd(k).cancelled
          /\ \A i \in DOMAIN upd(k).callbacks :
               upd(k).callbacks[i] \in Answers
                  => i = Len(old(k).callbacks) + 1 /\ upd(k).callbacks[i] = optionCallbacks[k]
      BY <1>10, <1>11, <2>3
    <3>2. optionCallbacks[k] \in Answers => k \in Main
      BY DEF optionCallbacks, Kinds, Answers, Main
    <3>3. QED
      BY <3>1, <3>2 DEF ListOK, upd
  <2>4. QED
    BY <1>10, <2>2, <2>3
<1>13. \A k \in Main : Once(q, k)'
  <2>1. \A k \in Main : optionCallbacks[k] \in Answers
    BY DEF Main, optionCallbacks, Answers
  <2>2. \A k \in Main : called'[q][optionCallbacks[k]] = 0
    BY <1>1, <1>4, <2>1 DEF Unanswered
  <2>3. QED
    BY <2>2 DEF Once
<1>14. PICK f \in Frames : /\ stack' = Append(below, f) /\ f.r = q
                           /\ f.at \in {"catch", "ajaxSend", "unannounced"}
  <2>1. \A l \in {"catch", "ajaxSend", "unannounced"} :
           [top EXCEPT !.at = l] \in Frames /\ [top EXCEPT !.at = l].r = q
              /\ [top EXCEPT !.at = l].at = l
    BY <1>2, <1>3 DEF Frames, UserCode
  <2>2. QED
    BY <1>7, <2>1 DEF goto
<1>15. /\ stack' \in Seq(Frames) /\ StackOK'
       /\ \A r : /\ named(r)' => named(r)
                 /\ prepares(r)' => prepares(r) \/ (r = f.r /\ f.at \in Preparing)
                 /\ outside(r)' => outside(r) \/ (r = f.r /\ f.at \notin InAjax)
       /\ \A r, k : fires(r, k)' <=> \/ isFiring(f, r, k)
                                     \/ fires(r, k) /\ ~isFiring(top, r, k)
  BY <1>1, <1>2, <1>3, <1>14, GoesOn
<1>16. TypeOK'
  BY <1>1, <1>4, <1>7, <1>9, <1>15 DEF TypeOK
<1>17. FiringOnStack'
  <2>1. \A r, k : fires(r, k)' <=> fires(r, k)
    BY <1>1, <1>14, <1>15 DEF isFiring
  <2>2. \A k \in Kinds : ~upd(k).firing /\ ~fires(q, k)
    BY <1>5, <1>6, <1>10 DEF old
  <2>3. \A r \in Requests, k \in Kinds : (lists[r][k].firing <=> fires(r, k))'
    BY <1>5, <1>9, <2>1, <2>2 DEF upd
  <2>4. QED
    BY <2>3, FiringFiresNext
<1>18. ~prepares(q)'
  <2>1. /\ Len(stack') \in DOMAIN stack' /\ stack'[Len(stack')] = f
    <3>1. Len(stack) \in 1..Len(stack)
      BY <1>1, <1>2, TopFrame
    <3>2. below \in Seq(Frames)
      BY <1>2, <3>1, Popped DEF below
    <3>3. QED
      BY <1>14, <3>2, Appended
  <2>2. \A i, j \in DOMAIN stack' :
           stack'[i].at \in InAjax /\ stack'[j].at \in InAjax /\ stack'[i].r = stack'[j].r => i = j
    BY <1>15 DEF StackOK
  <2>3. \A i \in DOMAIN stack' : stack'[i].r = q /\ stack'[i].at \in InAjax => stack'[i].at = f.at
    BY <1>14, <2>1, <2>2
  <2>4. QED
    BY <1>14, <2>3 DEF prepares
<1>19. Begun'
  <2>1. SUFFICES ASSUME NEW r \in Requests
                 PROVE  (new(r)' => Unknown(r)') /\ (prepares(r)' => Unanswered(r)')
    BY DEF Begun
  <2>2. (new(r) => Unknown(r)) /\ (prepares(r) => Unanswered(r))
    BY DEF AjaxInv, Begun
  <2>3. CASE r = q
    BY <1>1, <1>2, <1>3, <1>18, <2>3 DEF new
  <2>4. CASE r # q
    <3>1. transport'[r] = transport[r]
      BY <1>4, <1>7, <2>4 DEF TypeOK
    <3>2. QED
      BY <1>1, <1>9, <1>14, <1>15, <2>2, <2>4, <3>1 DEF new, Unknown, Unanswered, has
  <2>5. QED
    BY <2>3, <2>4
<1>20. ListsOK'
  <2>1. \A r \in Requests \ {q}, k \in Kinds : ListOK(r, k)'
    BY <1>5, <1>9 DEF ListOK
  <2>2. QED
    BY <1>12, <2>1 DEF ListsOK
<1>21. CalledOnce'
  <2>1. \A r \in Requests \ {q}, k \in Main : Once(r, k)'
    BY <1>1, <1>9 DEF AjaxInv, CalledOnce, Once, has
  <2>2. QED
    BY <1>13, <2>1 DEF CalledOnce
<1>22. QED
  BY <1>15, <1>16, <1>17, <1>19, <1>20, <1>21 DEF AjaxInv

\* A set of positions in a sequence has a greatest one.
LEMMA Greatest ==
    ASSUME NEW n \in Nat, NEW T \in SUBSET (1..n), T # {}
    PROVE  \E x \in T : \A y \in T : y <= x
<1> DEFINE rest(x) == (x + 1)..n
           R == {rest(x) : x \in T}
<1>1. IsFiniteSet(1..n)
  BY FS_Interval
<1>2. IsWellFoundedOn(StrictSubsetOrdering(1..n), FiniteSubsetsOf(1..n))
  BY FS_StrictSubsetOrderingWellFounded
<1>3. R \subseteq FiniteSubsetsOf(1..n) /\ R # {}
  <2>1. \A x \in T : rest(x) \subseteq 1..n
    OBVIOUS
  <2>2. \A x \in T : IsFiniteSet(rest(x))
    BY <1>1, <2>1, FS_Subset
  <2>3. QED
    BY <2>1, <2>2 DEF FiniteSubsetsOf
<1>4. PICK x \in T : \A y \in T : ~(<<rest(y), rest(x)>> \in StrictSubsetOrdering(1..n))
  <2> HIDE DEF R
  <2>1. PICK m \in R : \A o \in R : ~(<<o, m>> \in StrictSubsetOrdering(1..n))
    BY <1>2, <1>3, WFMin
  <2> USE DEF R
  <2>2. PICK x \in T : m = rest(x)
    BY DEF R
  <2>3. QED
    BY <2>1, <2>2
<1>5. ASSUME NEW y \in T, y > x PROVE FALSE
  <2>1. x \in Int /\ y \in 1..n
    BY <1>5
  <2>2. rest(y) \subseteq rest(x) /\ y \in rest(x) /\ y \notin rest(y)
    BY <1>5, <2>1
  <2>3. rest(x) \subseteq 1..n
    BY <2>1
  <2> HIDE DEF rest
  <2>4. <<rest(y), rest(x)>> \in StrictSubsetOrdering(1..n)
    BY <2>2, <2>3 DEF StrictSubsetOrdering
  <2>5. QED
    BY <1>4, <2>4
<1>6. \A y \in T : y <= x
  BY <1>5
<1>7. QED
  BY <1>6

\* A callback added to a request.
LEMMA AddLateKeeps ==
    ASSUME AjaxInv, NEW q \in Requests, NEW K \in Kinds, addLate(q, K)
    PROVE  AjaxInv'
<1> USE DEF InAjax, Preparing, InFiring, Labels
<1> DEFINE L == lists[q][K]
           D == done(L, "late")
<1>1. /\ userRuns /\ setList(q, K, D)
      /\ UNCHANGED <<state, transport, timer, fireGlobals, active, shown, called,
                     finished, thrown, cut, cutAgain>>
      /\ added' = added + 1
      /\ underWay(q) \/ finished[q] > 0
      /\ \/ /\ L.fired /\ ~L.cancelled
            /\ stack' = Append(stack, [at |-> "firing", r |-> q, kind |-> K, again |-> TRUE])
         \/ ~(L.fired /\ ~L.cancelled) /\ stack' = stack
  BY DEF addLate
<1>2. ~new(q)
  BY <1>1, Known DEF underWay
<1>3. /\ L \in ListType
      /\ \A k \in Kinds : ListOK(q, k) /\ lists[q][k] \in ListType
      /\ \A r \in Requests, k \in Kinds : lists[r][k].firing <=> fires(r, k)
  BY ListFacts
<1>4. StackOK /\ TypeOK /\ stack \in Seq(Frames)
  BY DEF AjaxInv, TypeOK
<1>5. \/ L.cancelled /\ D = L
      \/ /\ ~L.cancelled /\ D \in ListType /\ ~D.fired /\ ~D.cancelled
         /\ D.firing = (L.firing \/ L.fired)
         /\ \A d : has(D, d) => d = "late" \/ has(L, d)
         /\ \A i \in DOMAIN D.callbacks :
               \/ i \in DOMAIN L.callbacks /\ D.callbacks[i] = L.callbacks[i]
               \/ i = Len(L.callbacks) + 1 /\ D.callbacks[i] = "late"
  <2>1. CASE L.cancelled
    BY <2>1 DEF done
  <2>2. CASE ~L.cancelled
    <3>1. "late" \in Callbacks
      BY DEF Callbacks
    <3>2. QED
      BY <1>3, <2>2, <3>1, DoneFields
  <2>3. QED
    BY <2>1, <2>2
<1> HIDE DEF L, D
<1>6. /\ lists' \in [Requests -> [Kinds -> ListType]]
      /\ \A r \in Requests \ {q} : lists'[r] = lists[r]
      /\ \A k \in Kinds \ {K} : lists'[q][k] = lists[q][k]
      /\ lists'[q][K] = D
  BY <1>1, <1>3, <1>5, SetList
<1>7. D.firing <=> L.firing \/ (L.fired /\ ~L.cancelled)
  <2>1. CASE L.cancelled
    BY <1>5, <2>1
  <2>2. CASE ~L.cancelled
    BY <1>5, <2>2, Zenon
  <2>3. QED
    BY <2>1, <2>2
<1>8. L.fired => ~fires(q, K)
  BY <1>3 DEF ListOK, L
<1>9. /\ stack' \in Seq(Frames) /\ StackOK'
      /\ \A r : /\ named(r)' => named(r) \/ r = q
                /\ prepares(r)' => prepares(r)
                /\ outside(r)' => outside(r) \/ (r = q /\ L.fired)
      /\ \A r, k : fires(r, k)' <=> (L.fired /\ ~L.cancelled /\ r = q /\ k = K) \/ fires(r, k)
  <2>1. CASE stack' = stack /\ ~(L.fired /\ ~L.cancelled)
    BY <1>4, <2>1 DEF StackOK, named, prepares, outside, fires, isFiring
  <2>2. CASE /\ L.fired /\ ~L.cancelled
             /\ stack' = Append(stack, [at |-> "firing", r |-> q, kind |-> K, again |-> TRUE])
    <3>1. PICK f \in Frames : stack' = Append(stack, f) /\ f.at = "firing" /\ f.r = q /\ f.kind = K
      <4>1. [at |-> "firing", r |-> q, kind |-> K, again |-> TRUE] \in Frames
        BY DEF Frames
      <4>2. QED
        BY <2>2, <4>1
    <3>2. stack # <<>> => top.at \in UserCode \union {"send"}
      BY <1>1 DEF userRuns
    <3>3. /\ stack' \in Seq(Frames) /\ StackOK'
          /\ \A r : /\ named(r)' => named(r) \/ r = f.r
                    /\ prepares(r)' => prepares(r) \/ (r = f.r /\ f.at \in Preparing)
                    /\ outside(r)' => outside(r) \/ (r = f.r /\ f.at \notin InAjax)
          /\ \A r, k : fires(r, k)' <=> isFiring(f, r, k) \/ fires(r, k)
      BY <1>4, <1>8, <2>2, <3>1, <3>2, CallsOf
    <3>4. \A r, k : isFiring(f, r, k) <=> r = q /\ k = K
      BY <3>1 DEF isFiring
    <3>5. QED
      BY <2>2, <3>1, <3>3, <3>4
  <2>3. QED
    BY <1>1, <2>1, <2>2
<1>10. TypeOK'
  BY <1>1, <1>4, <1>6, <1>9 DEF TypeOK
<1>11. FiringOnStack'
  <2>1. \A r \in Requests, k \in Kinds : (lists[r][k].firing <=> fires(r, k))'
    <3>1. SUFFICES ASSUME NEW r \in Requests, NEW k \in Kinds
                   PROVE  lists'[r][k].firing <=> fires(r, k)'
      OBVIOUS
    <3>2. CASE r = q /\ k = K
      BY <1>3, <1>6, <1>7, <1>9, <3>2 DEF L
    <3>3. CASE ~(r = q /\ k = K)
      BY <1>3, <1>6, <1>9, <3>3
    <3>4. QED
      BY <3>2, <3>3
  <2>2. QED
    BY <2>1, FiringFiresNext
<1>12. /\ \A k \in Kinds : lists'[q][k].cancelled = lists[q][k].cancelled
       /\ \A k \in Kinds : lists'[q][k].fired => lists[q][k].fired
       /\ \A k \in Kinds : lists'[q][k].firing => lists[q][k].firing \/ lists[q][k].fired
       /\ \A k \in Kinds, d \in Answers : has(lists'[q][k], d) => has(lists[q][k], d)
  <2>1. \A k \in Kinds \ {K} : lists'[q][k] = lists[q][k]
    BY <1>6
  <2>2. /\ D.cancelled = L.cancelled
        /\ D.fired => L.fired
        /\ D.firing => L.firing \/ L.fired
        /\ \A d \in Answers : has(D, d) => has(L, d)
    <3>1. D.cancelled = L.cancelled
      BY <1>3, <1>5 DEF ListType
    <3>2. (D.fired => L.fired) /\ (D.firing => L.firing \/ L.fired)
      BY <1>5, <1>7
    <3>3. \A d \in Answers : has(D, d) => has(L, d)
      BY <1>5 DEF Answers
    <3>4. QED
      BY <3>1, <3>2, <3>3
  <2>3. QED
    BY <1>6, <2>1, <2>2 DEF L
<1>13. \A k \in Main : k \in Kinds /\ other(k) \in Kinds /\ Once(q, k)
  BY DEF AjaxInv, CalledOnce, Main, Kinds, other
<1>14. \A k \in Kinds : ListOK(q, k)'
  <2>1. SUFFICES ASSUME NEW k \in Kinds PROVE ListOK(q, k)'
    OBVIOUS
  <2>2. ListOK(q, k)
    BY <1>3
  <2>3. k \in Main /\ (lists'[q][k].fired \/ lists'[q][k].firing) => lists'[q][other(k)].cancelled
    BY <1>12, <1>13, <2>2 DEF ListOK
  <2>4. CASE k # K \/ D = L
    <3>1. lists'[q][k] = lists[q][k]
      BY <1>6, <2>4 DEF L
    <3>2. QED
      BY <2>2, <2>3, <3>1 DEF ListOK
  <2>5. CASE k = K /\ ~L.cancelled /\ D # L
    <3>1. ~D.fired /\ ~D.cancelled
      BY <1>5, <2>5
    <3>2. \A i \in DOMAIN D.callbacks :
             D.callbacks[i] \in Answers => i \in DOMAIN L.callbacks /\ D.callbacks[i] = L.callbacks[i]
      BY <1>5, <2>5 DEF Answers
    <3>3. \A i \in DOMAIN D.callbacks :
             D.callbacks[i] \in Answers => k \in Main /\ D.callbacks[i] = optionCallbacks[k]
      BY <2>2, <2>5, <3>2 DEF ListOK, L
    <3>4. \A i, j \in DOMAIN D.callbacks :
             D.callbacks[i] = D.callbacks[j] /\ D.callbacks[i] \in Answers => i = j
      BY <2>2, <2>5, <3>2 DEF ListOK, L
    <3>5. QED
      BY <1>6, <2>3, <2>5, <3>1, <3>3, <3>4 DEF ListOK
  <2>6. QED
    BY <1>5, <2>4, <2>5
<1>15. \A k \in Main : Once(q, k)'
  <2>1. \A k \in Main : optionCallbacks[k] \in Answers
    BY DEF Main, optionCallbacks, Answers
  <2>2. QED
    BY <1>1, <1>12, <1>13, <2>1 DEF Once
<1>16. prepares(q)' => Unanswered(q)'
  <2>1. prepares(q)' => prepares(q) /\ Unanswered(q)
    BY <1>9 DEF AjaxInv, Begun
  <2>2. SUFFICES ASSUME Unanswered(q) PROVE Unanswered(q)'
    BY <2>1
  <2>3. state[q] # 2 => ~L.fired /\ ~outside(q) /\ \A k \in Kinds : ~lists[q][k].fired
    BY <2>2 DEF Unanswered, L
  <2>4. state'[q] # 2 => ~outside(q)' /\ \A k \in Kinds : ~lists'[q][k].fired
    BY <1>1, <1>9, <1>12, <2>3
  <2>5. \A c \in Answers : called'[q][c] = 0 /\ \A k \in Kinds : ~has(lists'[q][k], c)
    BY <1>1, <1>12, <2>2 DEF Unanswered
  <2>6. QED
    BY <1>1, <2>2, <2>4, <2>5 DEF Unanswered
<1>17. QED
  BY <1>1, <1>2, <1>6, <1>9, <1>10, <1>11, <1>14, <1>15, <1>16, ListStep

\* The call that catches an exception.
LEMMA CaughtAt ==
    ASSUME stack \in Seq(Frames)
    PROVE  /\ caughtAt \in 0..Len(stack) /\ Len(stack) \in Nat
           /\ caughtAt # 0 => caughtAt \in 1..Len(stack) /\ stack[caughtAt].at = "send"
<1>1. DOMAIN stack = 1..Len(stack) /\ Len(stack) \in Nat
  OBVIOUS
<1>2. CASE inTry = {}
  BY <1>1, <1>2 DEF caughtAt
<1>3. CASE inTry # {}
  <2>1. inTry \in SUBSET (1..Len(stack))
    BY <1>1 DEF inTry
  <2>2. \E i \in inTry : \A j \in inTry : j <= i
    BY <1>1, <1>3, <2>1, Greatest
  <2>3. caughtAt \in inTry
    BY <1>3, <2>2 DEF caughtAt
  <2>4. caughtAt \in 1..Len(stack) /\ stack[caughtAt].at = "send"
    BY <2>1, <2>3 DEF inTry
  <2>5. QED
    BY <1>1, <2>4
<1>4. QED
  BY <1>2, <1>3

\* The stack that an exception leaves behind.
LEMMA ThrowStack ==
    ASSUME AjaxInv, throw
    PROVE  /\ stack' \in Seq(Frames) /\ StackOK'
           /\ \A r : /\ named(r)' => named(r)
                     /\ prepares(r)' => prepares(r)
                     /\ outside(r)' => outside(r)
           /\ \A r, k : fires(r, k)' <=> \E i \in 1..(caughtAt - 1) : isFiring(stack[i], r, k)
<1> USE DEF InAjax, Preparing, InFiring, Labels
<1>1. stack \in Seq(Frames) /\ StackOK
  BY DEF AjaxInv, TypeOK
<1>2. CASE caughtAt = 0
  <2>1. stack' = <<>>
    BY <1>2 DEF throw
  <2>2. /\ stack' \in Seq(Frames) /\ Len(stack') = 0 /\ DOMAIN stack' = {}
    BY <2>1
  <2>3. 1..(caughtAt - 1) = {}
    BY <1>2
  <2>4. QED
    BY <2>2, <2>3 DEF StackOK, named, prepares, outside, fires
<1>3. CASE caughtAt # 0
  <2> DEFINE s == SubSeq(stack, 1, caughtAt - 1)
  <2>1. PICK n \in 1..Len(stack) : n = caughtAt /\ stack[n].at = "send"
    BY <1>1, <1>3, CaughtAt
  <2>2. /\ s \in Seq(Frames) /\ Len(s) = n - 1
        /\ \A i \in 1..(n - 1) : i \in DOMAIN stack /\ s[i] = stack[i]
    BY <1>1, <2>1, Popped
  <2>3. DOMAIN stack = 1..Len(stack) /\ Len(stack) \in Nat
    BY <1>1
  <2>4. n \in DOMAIN stack /\ stack[n] \in Frames /\ n \in 1..(Len(stack) + 1)
    BY <1>1, <2>1, <2>3
  <2>5. PICK f \in Frames : stack' = Append(s, f) /\ f.r = stack[n].r /\ f.at = "catch"
    <3>1. stack' = Append(s, [stack[n] EXCEPT !.at = "catch"])
      BY <1>3, <2>1 DEF throw
    <3>2. /\ [stack[n] EXCEPT !.at = "catch"] \in Frames
          /\ [stack[n] EXCEPT !.at = "catch"].r = stack[n].r
          /\ [stack[n] EXCEPT !.at = "catch"].at = "catch"
      BY <2>4 DEF Frames
    <3>3. QED
      BY <3>1, <3>2
  <2> HIDE DEF s
  <2>6. \A i \in 1..(n - 1) : i < Len(stack) /\ i # n
    BY <2>1, <2>3
  <2>7. \A i \in 1..(n - 1) : stack[i].at \in UserCode \union {"send"}
    BY <1>1, <2>2, <2>6 DEF StackOK
  <2>8. \A i \in 1..(n - 1) : stack[i].at \in InAjax => stack[i].r # f.r
    BY <1>1, <2>1, <2>2, <2>4, <2>5, <2>6 DEF StackOK
  <2>9. /\ stack' \in Seq(Frames) /\ StackOK'
        /\ \A r : /\ named(r)' => named(r) \/ r = f.r
                  /\ prepares(r)' => prepares(r) \/ (r = f.r /\ f.at \in Preparing)
                  /\ outside(r)' => outside(r) \/ (r = f.r /\ f.at \notin InAjax)
        /\ \A r, k : fires(r, k)' <=> \/ isFiring(f, r, k)
                                      \/ \E i \in 1..(n - 1) : isFiring(stack[i], r, k)
    BY <1>1, <2>2, <2>4, <2>5, <2>7, <2>8, Stacks
  <2>10. named(f.r) /\ \A r, k : ~isFiring(f, r, k)
    BY <2>4, <2>5 DEF named, isFiring
  <2>11. QED
    BY <2>1, <2>5, <2>9, <2>10
<1>4. QED
  BY <1>2, <1>3

\* An exception.
LEMMA ThrowKeeps ==
    ASSUME AjaxInv, throw
    PROVE  AjaxInv'
<1> USE DEF InAjax, Preparing, InFiring, Labels, UserCode
<1> DEFINE n == caughtAt
           gone(r, k) == \E i \in (n + 1)..Len(stack) : isFiring(stack[i], r, k)
           kept(r, k) == \E i \in 1..(n - 1) : isFiring(stack[i], r, k)
<1>1. /\ stack # <<>> /\ top.at \in UserCode
      /\ UNCHANGED <<state, transport, timer, fireGlobals, active, shown, called,
                     finished, added>>
  BY DEF throw
<1>2. stack \in Seq(Frames) /\ StackOK /\ TypeOK
  BY DEF AjaxInv, TypeOK
<1>3. /\ n \in 0..Len(stack) /\ Len(stack) \in Nat /\ DOMAIN stack = 1..Len(stack)
      /\ n # 0 => n \in 1..Len(stack) /\ stack[n].at = "send"
  BY <1>2, CaughtAt
<1>4. /\ stack' \in Seq(Frames) /\ StackOK'
      /\ \A r : /\ named(r)' => named(r)
                /\ prepares(r)' => prepares(r)
                /\ outside(r)' => outside(r)
      /\ \A r, k : fires(r, k)' <=> kept(r, k)
  BY ThrowStack
<1>5. \A i \in DOMAIN stack : isFiring(stack[i], stack[i].r, stack[i].kind) => stack[i].at = "callback"
  <2>1. \A i \in DOMAIN stack : i < Len(stack) => stack[i].at \in UserCode \union {"send"}
    BY <1>2 DEF StackOK
  <2>2. \A i \in DOMAIN stack : i = Len(stack) => stack[i].at \in UserCode
    BY <1>1 DEF top
  <2>3. \A i \in DOMAIN stack : i < Len(stack) \/ i = Len(stack)
    BY <1>3
  <2>4. QED
    BY <2>1, <2>2, <2>3 DEF isFiring
<1>6. \A r, k : gone(r, k) <=> \E f \in unwound : f.at = "callback" /\ f.r = r /\ f.kind = k
  <2>1. (n + 1)..Len(stack) \subseteq DOMAIN stack
    BY <1>3
  <2>2. unwound = {stack[i] : i \in (n + 1)..Len(stack)}
    BY DEF unwound
  <2> HIDE DEF n
  <2>3. QED
    BY <1>5, <2>1, <2>2 DEF isFiring
<1>7. \A r, k : /\ fires(r, k) <=> gone(r, k) \/ kept(r, k)
                /\ ~(gone(r, k) /\ kept(r, k))
  <2>1. /\ DOMAIN stack = 1..(n - 1) \union (n + 1)..Len(stack) \union ({n} \ {0})
        /\ \A i \in 1..(n - 1), j \in (n + 1)..Len(stack) : i # j
    BY <1>3
  <2> HIDE DEF n
  <2>2. \A i, j \in DOMAIN stack : \A r, k : isFiring(stack[i], r, k) /\ isFiring(stack[j], r, k) => i = j
    <3>1. \A i, j \in DOMAIN stack :
            /\ stack[i].at \in InFiring /\ stack[j].at \in InFiring
            /\ stack[i].r = stack[j].r /\ stack[i].kind = stack[j].kind
            => i = j
      BY <1>2 DEF StackOK
    <3>2. QED
      BY <3>1 DEF isFiring
  <2>3. \A r, k : n # 0 => ~isFiring(stack[n], r, k)
    BY <1>3 DEF isFiring
  <2>4. \A r, k : fires(r, k) <=> gone(r, k) \/ kept(r, k)
    BY <2>1, <2>3 DEF fires
  <2>5. \A r, k : ~(gone(r, k) /\ kept(r, k))
    BY <2>1, <2>2
  <2>6. QED
    BY <2>4, <2>5
<1> HIDE DEF n, gone, kept
<1>8. \A r \in Requests, k \in Kinds :
         /\ lists[r][k] \in ListType /\ ListOK(r, k)
         /\ lists[r][k].firing <=> fires(r, k)
  BY ListFacts
<1>9. /\ \A r \in Requests, k \in Kinds :
            lists'[r][k] = IF gone(r, k) THEN firedNow(lists[r][k]) ELSE lists[r][k]
      /\ lists' \in [Requests -> [Kinds -> ListType]]
  <2>1. lists' = [r \in Requests |-> [k \in Kinds |->
                    IF gone(r, k) THEN firedNow(lists[r][k]) ELSE lists[r][k]]]
    BY <1>6 DEF throw
  <2>2. \A r \in Requests, k \in Kinds : firedNow(lists[r][k]) \in ListType
    BY <1>8, ListFields
  <2>3. QED
    BY <1>8, <2>1, <2>2
<1>10. \A r \in Requests, k \in Kinds :
          /\ lists'[r][k].callbacks = lists[r][k].callbacks
          /\ lists'[r][k].cancelled = lists[r][k].cancelled
          /\ gone(r, k) => lists'[r][k].fired /\ ~lists'[r][k].firing
          /\ ~gone(r, k) => lists'[r][k].fired = lists[r][k].fired
                            /\ lists'[r][k].firing = lists[r][k].firing
  BY <1>8, <1>9, ListFields
<1>11. TypeOK'
  <2>1. thrown' \subseteq Requests /\ cut' \subseteq Requests /\ cutAgain' \subseteq Requests
    <3>1. \A f \in unwound : f.r \in Requests
      <4>1. (n + 1)..Len(stack) \subseteq DOMAIN stack
        BY <1>3
      <4>2. \A i \in DOMAIN stack : stack[i] \in Frames
        BY <1>2
      <4>3. QED
        BY <4>1, <4>2 DEF unwound, n, Frames
    <3>2. cutNow \subseteq Requests
      BY <3>1 DEF cutNow
    <3>3. {f.r : f \in {g \in unwound : beforeSending(g)}} \subseteq Requests
      BY <3>1
    <3>4. QED
      BY <1>2, <3>2, <3>3 DEF throw, TypeOK
  <2>2. QED
    BY <1>1, <1>2, <1>4, <1>9, <2>1 DEF TypeOK
<1>12. FiringOnStack'
  <2>1. \A r \in Requests, k \in Kinds : (lists[r][k].firing <=> fires(r, k))'
    BY <1>4, <1>7, <1>8, <1>10
  <2>2. QED
    BY <2>1, FiringFiresNext
<1>13. Begun'
  <2>1. SUFFICES ASSUME NEW r \in Requests
                 PROVE  (new(r)' => Unknown(r)') /\ (prepares(r)' => Unanswered(r)')
    BY DEF Begun
  <2>2. (new(r) => Unknown(r)) /\ (prepares(r) => Unanswered(r))
    BY DEF AjaxInv, Begun
  <2>3. \A k \in Kinds : gone(r, k) => outside(r) /\ named(r)
    BY <1>7 DEF fires, isFiring, outside, named
  <2>4. new(r)' => Unknown(r)'
    <3>1. SUFFICES ASSUME new(r)' PROVE Unknown(r)'
      OBVIOUS
    <3>2. Unknown(r)
      BY <1>1, <2>2, <3>1 DEF new
    <3>3. \A k \in Kinds : lists'[r][k] = lists[r][k]
      BY <1>9, <2>3, <3>2 DEF Unknown
    <3>4. QED
      BY <1>1, <1>4, <3>2, <3>3 DEF Unknown
  <2>5. prepares(r)' => Unanswered(r)'
    <3>1. SUFFICES ASSUME Unanswered(r) PROVE Unanswered(r)'
      BY <1>4, <2>2
    <3>2. state'[r] # 2 => ~outside(r)' /\ \A k \in Kinds : ~lists'[r][k].fired
      BY <1>1, <1>4, <1>9, <2>3, <3>1 DEF Unanswered
    <3>3. \A k \in Kinds : \A c : has(lists'[r][k], c) <=> has(lists[r][k], c)
      BY <1>10 DEF has
    <3>4. QED
      BY <1>1, <3>1, <3>2, <3>3 DEF Unanswered
  <2>6. QED
    BY <2>4, <2>5
<1>14. ListsOK'
  <2>1. SUFFICES ASSUME NEW r \in Requests, NEW k \in Kinds PROVE ListOK(r, k)'
    BY DEF ListsOK
  <2>2. ListOK(r, k)
    BY <1>8
  <2>3. k \in Main => other(k) \in Kinds
    BY DEF Main, Kinds, other
  <2>4. lists'[r][k].firing => ~lists'[r][k].fired
    BY <1>10, <2>2 DEF ListOK
  <2>5. k \in Main /\ (lists'[r][k].fired \/ lists'[r][k].firing) => lists'[r][other(k)].cancelled
    <3>1. gone(r, k) => lists[r][k].firing
      BY <1>7, <1>8
    <3>2. QED
      BY <1>10, <2>2, <2>3, <3>1 DEF ListOK
  <2>6. QED
    BY <1>10, <2>2, <2>4, <2>5 DEF ListOK
<1>15. CalledOnce'
  <2>1. \A r \in Requests, k \in Main : k \in Kinds /\ other(k) \in Kinds /\ Once(r, k)
    BY DEF AjaxInv, CalledOnce, Main, Kinds, other
  <2>2. \A r \in Requests, k \in Main : Once(r, k)'
    BY <1>1, <1>10, <2>1 DEF Once, has
  <2>3. QED
    BY <2>2 DEF CalledOnce
<1>16. QED
  BY <1>4, <1>11, <1>12, <1>13, <1>14, <1>15 DEF AjaxInv

-----------------------------------------------------------------------------
LEMMA AjaxInit == Init => AjaxInv
<1> SUFFICES ASSUME Init PROVE AjaxInv
  OBVIOUS
<1>1. List \in ListType /\ List.callbacks = <<>> /\ ~List.fired /\ ~List.firing /\ ~List.cancelled
  <2>1. <<>> \in Seq(Callbacks)
    OBVIOUS
  <2>2. QED
    BY <2>1 DEF List, ListType
<1>2. stack \in Seq(Frames) /\ DOMAIN stack = {} /\ Len(stack) = 0
  BY DEF Init
<1>3. \A r \in Requests, k \in Kinds : lists[r][k] = List
  BY DEF Init
<1>4. TypeOK
  <2>1. lists \in [Requests -> [Kinds -> ListType]]
    BY <1>1 DEF Init
  <2>2. /\ state \in [Requests -> {-1, 0, 1, 2}]
        /\ transport \in [Requests -> {"none", "made", "sent", "script", "loading"}]
        /\ timer \in [Requests -> BOOLEAN] /\ fireGlobals \in [Requests -> BOOLEAN]
    BY DEF Init
  <2>3. called \in [Requests -> [Callbacks -> Nat]] /\ finished \in [Requests -> Nat]
    BY DEF Init
  <2>4. active \in Int /\ thrown = {} /\ cut = {} /\ cutAgain = {} /\ shown = FALSE /\ added \in Nat
    BY DEF Init
  <2>5. QED
    BY <1>2, <2>1, <2>2, <2>3, <2>4 DEF TypeOK
<1>5. StackOK
  BY <1>2 DEF StackOK
<1>6. \A r, k : ~fires(r, k) /\ ~named(r) /\ ~prepares(r)
  BY <1>2 DEF fires, named, prepares
<1>7. FiringOnStack
  BY <1>1, <1>3, <1>6, FiringFires
<1>8. Begun
  BY <1>3, <1>6 DEF Init, Begun, Unknown
<1>9. ListsOK
  BY <1>1, <1>3 DEF ListsOK, ListOK
<1>10. CalledOnce
  <2>1. \A k \in Main : optionCallbacks[k] \in Callbacks
    BY DEF Main, optionCallbacks, Callbacks
  <2>2. QED
    BY <2>1 DEF Init, CalledOnce, Once
<1>11. QED
  BY <1>4, <1>5, <1>7, <1>8, <1>9, <1>10 DEF AjaxInv

LEMMA AjaxStutters == AjaxInv /\ UNCHANGED vars => AjaxInv'
<1> SUFFICES ASSUME AjaxInv, UNCHANGED vars PROVE AjaxInv'
  OBVIOUS
<1>1. UNCHANGED <<state, transport, timer, lists, fireGlobals, active, shown, stack, called,
                  finished, thrown, cut, cutAgain, added>>
  BY DEF vars, requestVars, historyVars
<1>2. TypeOK' /\ StackOK' /\ FiringOnStack'
  BY <1>1 DEF AjaxInv, TypeOK, StackOK, FiringOnStack
<1>3. Begun' /\ ListsOK' /\ CalledOnce'
  BY <1>1 DEF AjaxInv, Begun, Unknown, Unanswered, new, named, prepares, outside, has,
              ListsOK, ListOK, CalledOnce, Once
<1>4. QED
  BY <1>2, <1>3 DEF AjaxInv

\* Each step of jQuery and of the application keeps the invariant.
LEMMA AjaxSteps == AjaxInv /\ [Next]_vars => AjaxInv'
<1> SUFFICES ASSUME AjaxInv, [Next]_vars PROVE AjaxInv'
  OBVIOUS
<1>1. CASE Return
  <2>1. CASE \/ prefiltersReturn \/ ajaxStartReturn \/ ajaxSendReturn \/ sendReturn
             \/ scriptSend \/ sendThrows \/ sendDone \/ ajaxCompleteReturn \/ ajaxStopReturn
    BY <2>1, ReturnsKeep
  <2>2. CASE beforeSendReturn
    BY <2>2, InstallKeeps
  <2>3. CASE beforeSendRefuses \/ sendFromCache \/ catch
    BY <2>3, DoneKeeps
  <2>4. CASE resolveWith
    BY <2>4, ResolveKeeps
  <2>5. CASE callNext
    BY <2>5, CallNextKeeps
  <2>6. CASE callbackReturn \/ outcomeReturn
    BY <2>6, GoOnKeeps
  <2>7. QED
    BY <1>1, <2>1, <2>2, <2>3, <2>4, <2>5, <2>6 DEF Return
<1>2. CASE throw
  BY <1>2, ThrowKeeps
<1>3. ASSUME NEW r \in Requests, callAjax(r) PROVE AjaxInv'
  BY <1>3, CallAjaxKeeps
<1>4. ASSUME NEW r \in Requests, abort(r) \/ answer(r) \/ scriptLoaded(r) \/ timeout(r)
      PROVE  AjaxInv'
  BY <1>4, DoneKeeps
<1>5. ASSUME NEW r \in Requests, NEW k \in Kinds, addLate(r, k) PROVE AjaxInv'
  BY <1>5, AddLateKeeps
<1>6. CASE UNCHANGED vars
  BY <1>6, AjaxStutters
<1>7. QED
  BY <1>1, <1>2, <1>3, <1>4, <1>5, <1>6 DEF Next

LEMMA AjaxInvariant == Spec => []AjaxInv
BY AjaxInit, AjaxSteps, PTL DEF Spec

\* The lists, the flags of the requests and the call stack stay well formed, for
\* any requests, options and bounds (jquery.js:6947-7325).
THEOREM AjaxTypeOK == Spec => []TypeOK
<1>1. AjaxInv => TypeOK
  BY DEF AjaxInv
<1>2. QED
  BY <1>1, AjaxInvariant, PTL

\* The flag firing of a list is up exactly while a call of resolveWith for it is
\* on the stack, whatever callbacks throw, abort or add: the finally of
\* jquery.js:1004-1007 runs for each list an exception unwinds, so no callback
\* that is added later waits for a list that nobody fires.
THEOREM ListsFireOnStack == Spec => []FiringOnStack
<1>1. AjaxInv => FiringOnStack
  BY DEF AjaxInv
<1>2. QED
  BY <1>1, AjaxInvariant, PTL

-----------------------------------------------------------------------------
(***************************************************************************)
(* One outcome, one callback: the refinement of AjaxCall.                  *)
(***************************************************************************)
\* What the invariant says of the callbacks called.
LEMMA Outcomes ==
    ASSUME AjaxInv, NEW r \in Requests
    PROVE  \/ called[r]["success"] = 0 /\ called[r]["error"] = 0
           \/ called[r]["success"] = 1 /\ called[r]["error"] = 0
           \/ called[r]["success"] = 0 /\ called[r]["error"] = 1
<1>1. Once(r, "done") /\ Once(r, "fail")
  BY DEF AjaxInv, CalledOnce, Main
<1>2. /\ called[r]["success"] \in {0, 1} /\ called[r]["error"] \in {0, 1}
      /\ called[r]["success"] = 1 => called[r]["error"] = 0
  BY <1>1 DEF Once, optionCallbacks, other
<1>3. QED
  BY <1>2

\* The outcome of a call, as the page sees it.
LEMMA OutcomeOf ==
    ASSUME AjaxInv, NEW r \in Requests
    PROVE  outcomeOf[r] = IF called[r]["success"] = 1 THEN "success"
                          ELSE IF called[r]["error"] = 1 THEN "error"
                          ELSE IF new(r) THEN "new" ELSE "open"
BY Outcomes DEF outcomeOf, outcomes

LEMMA OutcomesNext ==
    ASSUME AjaxInv', NEW r \in Requests
    PROVE  \/ called'[r]["success"] = 0 /\ called'[r]["error"] = 0
           \/ called'[r]["success"] = 1 /\ called'[r]["error"] = 0
           \/ called'[r]["success"] = 0 /\ called'[r]["error"] = 1
<1>1. Once(r, "done")' /\ Once(r, "fail")'
  BY DEF AjaxInv, CalledOnce, Main
<1>2. /\ called'[r]["success"] \in {0, 1} /\ called'[r]["error"] \in {0, 1}
      /\ called'[r]["success"] = 1 => called'[r]["error"] = 0
  BY <1>1 DEF Once, optionCallbacks, other
<1>3. QED
  BY <1>2

LEMMA OutcomeOfNext ==
    ASSUME AjaxInv', NEW r \in Requests
    PROVE  outcomeOf'[r] = IF called'[r]["success"] = 1 THEN "success"
                           ELSE IF called'[r]["error"] = 1 THEN "error"
                           ELSE IF state'[r] = -1 THEN "new" ELSE "open"
BY OutcomesNext DEF outcomeOf, outcomes, new

LEMMA CallInit == Init => Call!Init
<1> SUFFICES ASSUME Init PROVE outcomeOf = [r \in Requests |-> "new"]
  BY DEF Call!Init
<1>1. \A r \in Requests : called[r]["success"] = 0 /\ called[r]["error"] = 0 /\ new(r)
  BY DEF Init, new, Callbacks
<1>2. QED
  BY <1>1 DEF outcomeOf, outcomes

\* A step that calls no callback and for no new request keeps the outcomes.
LEMMA SameOutcomes ==
    ASSUME called' = called, \A r \in Requests : new(r)' <=> new(r)
    PROVE  outcomeOf' = outcomeOf
BY DEF outcomeOf, outcomes

\* A step that concerns the outcome of one request only.
LEMMA OneOutcome ==
    ASSUME NEW q \in Requests,
           \A r \in Requests \ {q} : called'[r] = called[r] /\ (new(r)' <=> new(r))
    PROVE  /\ \A r \in Requests \ {q} : outcomeOf'[r] = outcomeOf[r]
           /\ outcomeOf' = [outcomeOf EXCEPT ![q] = outcomeOf'[q]]
<1>1. \A r \in Requests \ {q} : outcomeOf'[r] = outcomeOf[r]
  BY DEF outcomeOf, outcomes
<1>2. /\ outcomeOf' = [r \in Requests |-> outcomeOf'[r]]
      /\ outcomeOf = [r \in Requests |-> outcomeOf[r]]
  BY DEF outcomeOf
<1> HIDE DEF outcomeOf
<1>3. QED
  BY <1>1, <1>2

\* Calling a callback is a step of AjaxCall, or none.
LEMMA CallNextCalls ==
    ASSUME AjaxInv, AjaxInv', callNext
    PROVE  Call!Next \/ UNCHANGED outcomeOf
<1>1. stack # <<>> /\ state' = state /\ \A r : new(r)' <=> new(r)
  BY DEF callNext, at, new
<1>2. PICK q \in Requests : q = top.r /\ ~new(q)
  BY <1>1, TopRequest
<1>3. CASE called' = called
  BY <1>1, <1>3, SameOutcomes
<1>4. ASSUME NEW c \in Callbacks, called' = [called EXCEPT ![q][c] = @ + 1]
      PROVE  Call!Next \/ UNCHANGED outcomeOf
  <2>1. called \in [Requests -> [Callbacks -> Nat]]
    BY DEF AjaxInv, TypeOK
  <2>2. /\ \A r \in Requests \ {q} : called'[r] = called[r]
        /\ called'[q][c] = called[q][c] + 1
        /\ \A d \in Callbacks \ {c} : called'[q][d] = called[q][d]
    BY <1>4, <2>1
  <2>3. outcomeOf' = [outcomeOf EXCEPT ![q] = outcomeOf'[q]]
    BY <1>1, <2>2, OneOutcome
  <2>4. outcomeOf[q] = IF called[q]["success"] = 1 THEN "success"
                       ELSE IF called[q]["error"] = 1 THEN "error" ELSE "open"
    BY <1>2, OutcomeOf
  <2>5. outcomeOf'[q] = IF called'[q]["success"] = 1 THEN "success"
                        ELSE IF called'[q]["error"] = 1 THEN "error" ELSE "open"
    BY <1>1, <1>2, OutcomeOfNext DEF new
  <2>6. \/ called'[q]["success"] = 0 /\ called'[q]["error"] = 0
        \/ called'[q]["success"] = 1 /\ called'[q]["error"] = 0
        \/ called'[q]["success"] = 0 /\ called'[q]["error"] = 1
    BY OutcomesNext
  <2>7. called[q]["success"] \in Nat /\ called[q]["error"] \in Nat
    BY <2>1 DEF Callbacks
  <2>8. CASE c = "success"
    <3>1. called'[q]["error"] = called[q]["error"]
      BY <2>2, <2>8 DEF Callbacks
    <3>2. outcomeOf[q] = "open" /\ outcomeOf'[q] = "success"
      BY <2>2, <2>4, <2>5, <2>6, <2>7, <2>8, <3>1
    <3>3. QED
      BY <2>3, <3>2 DEF Call!Next, Call!success
  <2>9. CASE c = "error"
    <3>1. called'[q]["success"] = called[q]["success"]
      BY <2>2, <2>9 DEF Callbacks
    <3>2. outcomeOf[q] = "open" /\ outcomeOf'[q] = "error"
      BY <2>2, <2>4, <2>5, <2>6, <2>7, <2>9, <3>1
    <3>3. QED
      BY <2>3, <3>2 DEF Call!Next, Call!error
  <2>10. CASE c \notin {"success", "error"}
    <3>1. called'[q]["success"] = called[q]["success"] /\ called'[q]["error"] = called[q]["error"]
      BY <2>2, <2>10 DEF Callbacks
    <3>2. outcomeOf'[q] = outcomeOf[q]
      BY <2>4, <2>5, <3>1
    <3>3. outcomeOf' = outcomeOf
      BY <2>3, <3>2 DEF outcomeOf
    <3>4. QED
      BY <3>3
  <2>11. QED
    BY <2>8, <2>9, <2>10
<1>5. CASE /\ lists[q][top.kind].callbacks # <<>>
           /\ called' = [called EXCEPT ![q][Head(lists[q][top.kind].callbacks)] = @ + 1]
  <2>1. top.kind \in Kinds
    BY <1>1, TopRequest DEF Frames
  <2>2. lists[q][top.kind] \in ListType
    BY <2>1, ListFacts
  <2>3. Head(lists[q][top.kind].callbacks) \in Callbacks
    BY <1>5, <2>2, ShiftFields
  <2>4. QED
    BY <1>4, <1>5, <2>3
<1>6. QED
  BY <1>2, <1>3, <1>5 DEF callNext

\* Every other step leaves the outcomes alone, but for the call of ajax.
LEMMA OthersCall ==
    ASSUME AjaxInv, AjaxInv', [Next]_vars, ~callNext, \A r \in Requests : ~callAjax(r)
    PROVE  UNCHANGED outcomeOf
<1> DEFINE Same == called' = called /\ \A r \in Requests : new(r)' <=> new(r)
<1>1. TypeOK
  BY DEF AjaxInv
<1>2. ASSUME NEW q \in Requests, ~new(q), called' = called,
             \/ state' = [state EXCEPT ![q] = 1]
             \/ state' = [state EXCEPT ![q] = 2]
             \/ state' = state
      PROVE  Same
  BY <1>1, <1>2 DEF TypeOK, new
<1>3. ASSUME NEW q \in Requests, ~new(q), NEW ok, NEW base, finish(q, ok, base) PROVE Same
  <2>1. /\ called' = called
        /\ state' = [state EXCEPT ![q] = 2] \/ state' = state
    BY <1>3 DEF finish, requestVars, historyVars
  <2>2. QED
    BY <1>2, <1>3, <2>1
<1>4. ASSUME Return PROVE Same
  <2>1. ASSUME ajaxSendReturn PROVE Same
    <3>1. stack # <<>>
      BY <2>1 DEF ajaxSendReturn, at
    <3>2. PICK q \in Requests : q = top.r /\ ~new(q)
      BY <3>1, TopRequest
    <3>3. called' = called /\ state' = [state EXCEPT ![q] = 1]
      BY <2>1, <3>2 DEF ajaxSendReturn, historyVars
    <3>4. QED
      BY <1>2, <3>2, <3>3
  <2>2. ASSUME beforeSendRefuses \/ sendFromCache \/ catch PROVE Same
    <3>1. stack # <<>> /\ \E ok, base : finish(top.r, ok, base)
      BY <2>2 DEF beforeSendRefuses, sendFromCache, catch, at
    <3>2. PICK q \in Requests : q = top.r /\ ~new(q)
      BY <3>1, TopRequest
    <3>3. QED
      BY <1>3, <3>1, <3>2
  <2>3. ASSUME \/ prefiltersReturn \/ ajaxStartReturn \/ beforeSendReturn \/ sendReturn
               \/ scriptSend \/ sendThrows \/ sendDone \/ resolveWith
               \/ callbackReturn \/ outcomeReturn \/ ajaxCompleteReturn \/ ajaxStopReturn
        PROVE  Same
    BY <2>3 DEF prefiltersReturn, ajaxStartReturn, beforeSendReturn, sendReturn,
           scriptSend, sendThrows, sendDone, resolveWith, callbackReturn, outcomeReturn,
           ajaxCompleteReturn, ajaxStopReturn, requestVars, historyVars, new
  <2>4. QED
    BY <1>4, <2>1, <2>2, <2>3 DEF Return
<1>5. ASSUME throw PROVE Same
  BY <1>5 DEF throw, new
<1>6. ASSUME NEW q \in Requests, abort(q) \/ answer(q) \/ scriptLoaded(q) \/ timeout(q)
      PROVE  Same
  <2>1. \E ok, base : finish(q, ok, base)
    BY <1>6 DEF abort, answer, scriptLoaded, timeout
  <2>2. ~new(q)
    BY <1>6, Known DEF abort, answer, scriptLoaded, timeout
  <2>3. QED
    BY <1>3, <2>1, <2>2
<1>7. ASSUME NEW q \in Requests, NEW k \in Kinds, addLate(q, k) PROVE Same
  BY <1>7 DEF addLate, new
<1>8. ASSUME UNCHANGED vars PROVE Same
  BY <1>8 DEF vars, requestVars, historyVars, new
<1>9. Same
  BY <1>4, <1>5, <1>6, <1>7, <1>8 DEF Next
<1>10. QED
  BY <1>9, SameOutcomes

LEMMA CallSteps == AjaxInv /\ AjaxInv' /\ [Next]_vars => [Call!Next]_outcomeOf
<1> SUFFICES ASSUME AjaxInv, AjaxInv', [Next]_vars PROVE Call!Next \/ UNCHANGED outcomeOf
  OBVIOUS
<1>1. ASSUME NEW q \in Requests, callAjax(q) PROVE Call!Next
  <2>1. /\ new(q) /\ called' = called /\ state' = [state EXCEPT ![q] = 0]
    BY <1>1 DEF callAjax, historyVars
  <2>2. state'[q] = 0 /\ \A r \in Requests \ {q} : new(r)' <=> new(r)
    BY <2>1 DEF AjaxInv, TypeOK, new
  <2>3. called[q]["success"] = 0 /\ called[q]["error"] = 0
    BY <2>1 DEF AjaxInv, Begun, Unknown, Callbacks
  <2>4. outcomeOf[q] = "new"
    BY <2>1, <2>3, OutcomeOf
  <2>5. outcomeOf'[q] = "open"
    BY <2>1, <2>2, <2>3, OutcomeOfNext
  <2>6. outcomeOf' = [outcomeOf EXCEPT ![q] = "open"]
    BY <2>1, <2>2, <2>5, OneOutcome
  <2>7. QED
    BY <2>4, <2>6 DEF Call!Next, Call!open
<1>2. CASE callNext
  BY <1>2, CallNextCalls
<1>3. CASE ~callNext /\ \A r \in Requests : ~callAjax(r)
  BY <1>3, OthersCall
<1>4. QED
  BY <1>1, <1>2, <1>3

\* A call of ajax ends in one call of one of the callbacks success and error,
\* however answers, timeouts, aborts and exceptions come in between, at any depth
\* of calls: jQuery.ajax keeps what amq_jquery_adapter.js:26-41 says of it
\* (jquery.js:947-1060, 7070-7190, 7255-7325).
THEOREM AjaxImplementsCall == Spec => ImplementsAjaxCall
<1>1. Init => Call!Init
  BY CallInit
<1>2. AjaxInv /\ AjaxInv' /\ [Next]_vars => [Call!Next]_outcomeOf
  BY CallSteps
<1>3. QED
  BY <1>1, <1>2, AjaxInvariant, PTL DEF Spec, ImplementsAjaxCall, Call!Spec

-----------------------------------------------------------------------------
(***************************************************************************)
(* The count of requests.                                                  *)
(*                                                                         *)
(* A request that fires global events is counted from the moment its       *)
(* options are known until the handlers of ajaxComplete have returned: its *)
(* done has not begun, or is on the stack, or has been left by an          *)
(* exception.                                                              *)
(***************************************************************************)
Early == Preparing \union {"ajaxSend", "unannounced"}
works(f) == f.at \in {"resolve", "firing", "callback", "outcome", "ajaxComplete"} /\ ~f.again
busy(r) == \E i \in DOMAIN stack : works(stack[i]) /\ stack[i].r = r
counted == {r \in Requests : fireGlobals[r] /\ (finished[r] = 0 \/ r \in cut \/ busy(r))}

FrameOK(f) ==
    /\ f.at \in Early => finished[f.r] = 0
    /\ f.at = "prefilter" => ~fireGlobals[f.r]
    /\ f.at \in {"ajaxSend", "unannounced"} => ~underWay(f.r)
    /\ f.at \in {"resolve", "outcome", "ajaxComplete"} => ~f.again
    /\ f.at = "ajaxComplete" => fireGlobals[f.r]
    /\ works(f) => finished[f.r] # 0 /\ f.r \notin cut
FramesOK ==
    /\ \A i \in DOMAIN stack : FrameOK(stack[i])
    /\ \A i, j \in DOMAIN stack :
          works(stack[i]) /\ works(stack[j]) /\ stack[i].r = stack[j].r => i = j
RequestsOK ==
    \A r \in Requests :
        /\ new(r) => ~fireGlobals[r]
        /\ finished[r] = 0 => r \notin cut
        /\ state[r] # 2 => finished[r] = 0
        /\ r \in cut => fireGlobals[r]

CountInv ==
    /\ FramesOK /\ RequestsOK
    /\ IsFiniteSet(counted) /\ active = Cardinality(counted)
    /\ shown = (active > 0)

busyBelow(n, r) == \E i \in 1..(n - 1) : works(stack[i]) /\ stack[i].r = r

\* The frames that an exception or a return leaves.
LEMMA CountUnwinds ==
    ASSUME stack \in Seq(Frames), FramesOK, NEW n \in 1..Len(stack),
           stack' = SubSeq(stack, 1, n - 1),
           \A i \in 1..(n - 1), g \in Frames : g = stack[i] => FrameOK(g)'
    PROVE  FramesOK' /\ \A r : busy(r)' <=> busyBelow(n, r)
<1> DEFINE D == 1..(n - 1)
<1>1. /\ stack' \in Seq(Frames) /\ Len(stack') = n - 1 /\ DOMAIN stack' = D
      /\ \A i \in D : i \in DOMAIN stack /\ stack'[i] = stack[i]
  BY Popped
<1>2. \A i \in D, g \in Frames : g = stack[i] => FrameOK(g)'
  OBVIOUS
<1> HIDE DEF D
<1>3. \A i \in DOMAIN stack' : FrameOK(stack[i])'
  <2>1. SUFFICES ASSUME NEW i \in DOMAIN stack' PROVE FrameOK(stack[i])'
    OBVIOUS
  <2>2. i \in D /\ stack[i] \in Frames /\ stack'[i] = stack[i]
    BY <1>1
  <2>3. PICK g \in Frames : g = stack[i]
    BY <2>2
  <2>4. FrameOK(g)' /\ stack'[i] = g
    BY <1>2, <2>2, <2>3
  <2>5. QED
    BY <2>4 DEF FrameOK
<1>4. \A i, j \in DOMAIN stack' :
         works(stack'[i]) /\ works(stack'[j]) /\ stack'[i].r = stack'[j].r => i = j
  BY <1>1 DEF FramesOK
<1>5. FramesOK'
  BY <1>3, <1>4 DEF FramesOK
<1>6. \A r : busy(r)' <=> busyBelow(n, r)
  BY <1>1 DEF busy, busyBelow, D
<1>7. QED
  BY <1>5, <1>6

\* One more frame on the first n - 1.
LEMMA CountStacks ==
    ASSUME stack \in Seq(Frames), FramesOK, NEW n \in 1..(Len(stack) + 1),
           NEW s, s \in Seq(Frames), Len(s) = n - 1,
           \A i \in 1..(n - 1) : i \in DOMAIN stack /\ s[i] = stack[i],
           NEW f \in Frames, stack' = Append(s, f),
           \A i \in 1..(n - 1), g \in Frames : g = stack[i] => FrameOK(g)',
           FrameOK(f)', works(f) => ~busyBelow(n, f.r)
    PROVE  FramesOK' /\ \A r : busy(r)' <=> busyBelow(n, r) \/ (works(f) /\ f.r = r)
<1> DEFINE D == 1..(n - 1)
<1>1. /\ stack' \in Seq(Frames) /\ DOMAIN stack' = D \union {n}
      /\ \A i \in D : i \in DOMAIN stack /\ stack'[i] = stack[i]
      /\ stack'[n] = f
  <2>1. /\ stack' \in Seq(Frames) /\ Len(stack') = n /\ DOMAIN stack' = 1..n
        /\ \A i \in D : stack'[i] = s[i]
        /\ stack'[n] = f
    BY Appended
  <2>2. 1..n = D \union {n}
    OBVIOUS
  <2>3. QED
    BY <2>1, <2>2
<1>2. \A i \in D, g \in Frames : g = stack[i] => FrameOK(g)'
  OBVIOUS
<1> HIDE DEF D
<1>3. \A i \in DOMAIN stack' : FrameOK(stack[i])'
  <2>1. SUFFICES ASSUME NEW i \in DOMAIN stack' PROVE FrameOK(stack[i])'
    OBVIOUS
  <2>2. PICK g \in Frames : g = stack'[i]
    BY <1>1
  <2>3. g = f \/ (i \in D /\ g = stack[i])
    BY <1>1, <2>2
  <2>4. FrameOK(g)'
    BY <1>2, <2>3
  <2>5. QED
    BY <2>2, <2>4 DEF FrameOK
<1>4. \A i, j \in DOMAIN stack' :
         works(stack'[i]) /\ works(stack'[j]) /\ stack'[i].r = stack'[j].r => i = j
  <2>1. SUFFICES ASSUME NEW i \in DOMAIN stack', NEW j \in DOMAIN stack',
                        works(stack'[i]), works(stack'[j]), stack'[i].r = stack'[j].r
                 PROVE  i = j
    OBVIOUS
  <2>2. /\ (i \in D /\ stack'[i] = stack[i]) \/ (i = n /\ stack'[i] = f)
        /\ (j \in D /\ stack'[j] = stack[j]) \/ (j = n /\ stack'[j] = f)
    BY <1>1
  <2>3. \A k \in D : works(stack[k]) /\ works(f) => stack[k].r # f.r
    BY DEF busyBelow, D
  <2>4. \A k, l \in D : works(stack[k]) /\ works(stack[l]) /\ stack[k].r = stack[l].r => k = l
    BY <1>1 DEF FramesOK
  <2>5. QED
    BY <2>1, <2>2, <2>3, <2>4
<1>5. FramesOK'
  BY <1>3, <1>4 DEF FramesOK
<1>6. \A r : busy(r)' <=> busyBelow(n, r) \/ (works(f) /\ f.r = r)
  BY <1>1 DEF busy, busyBelow, D
<1>7. QED
  BY <1>5, <1>6

LEMMA BusyBelow ==
    ASSUME stack \in Seq(Frames), stack # <<>>, StackOK, FramesOK, NEW r
    PROVE  busyBelow(Len(stack), r) <=> busy(r) /\ ~(works(top) /\ top.r = r)
<1> DEFINE D == 1..(Len(stack) - 1)
<1>1. /\ DOMAIN stack = D \union {Len(stack)} /\ top = stack[Len(stack)]
      /\ \A i \in D : i # Len(stack)
  BY TopFrame
<1> HIDE DEF D
<1>2. \A i, j \in DOMAIN stack :
         works(stack[i]) /\ works(stack[j]) /\ stack[i].r = stack[j].r => i = j
  BY DEF FramesOK
<1>3. QED
  BY <1>1, <1>2 DEF busy, busyBelow, D

\* The frames that stay, when what a frame promises is kept.
LEMMA CountReturns ==
    ASSUME stack \in Seq(Frames), StackOK, FramesOK, stack # <<>>, stack' = below,
           \A i \in 1..(Len(stack) - 1), g \in Frames : g = stack[i] => FrameOK(g)'
    PROVE  FramesOK' /\ \A r : busy(r)' <=> busy(r) /\ ~(works(top) /\ top.r = r)
<1>1. Len(stack) \in 1..Len(stack)
  BY TopFrame
<1>2. stack' = SubSeq(stack, 1, Len(stack) - 1)
  BY DEF below
<1>3. FramesOK' /\ \A r : busy(r)' <=> busyBelow(Len(stack), r)
  BY <1>1, <1>2, CountUnwinds
<1>4. QED
  BY <1>3, BusyBelow

LEMMA CountGoesOn ==
    ASSUME stack \in Seq(Frames), StackOK, FramesOK, stack # <<>>,
           NEW f \in Frames, stack' = Append(below, f), f.r = top.r,
           \A i \in 1..(Len(stack) - 1), g \in Frames : g = stack[i] => FrameOK(g)',
           FrameOK(f)', works(f) => works(top) \/ ~busy(f.r)
    PROVE  /\ FramesOK'
           /\ \A r : busy(r)' <=> \/ busy(r) /\ ~(works(top) /\ top.r = r)
                                  \/ works(f) /\ f.r = r
<1> DEFINE n == Len(stack)
<1>1. n \in 1..Len(stack) /\ n \in 1..(Len(stack) + 1)
  <2>1. n \in 1..n
    BY TopFrame
  <2>2. n \in Nat
    OBVIOUS
  <2>3. QED
    BY <2>1, <2>2
<1>2. below \in Seq(Frames) /\ Len(below) = n - 1
      /\ \A i \in 1..(n - 1) : i \in DOMAIN stack /\ below[i] = stack[i]
  BY <1>1, Popped DEF below
<1>3. works(f) => ~busyBelow(n, f.r)
  BY BusyBelow
<1>4. \A i \in 1..(n - 1), g \in Frames : g = stack[i] => FrameOK(g)'
  OBVIOUS
<1>5. FramesOK' /\ \A r : busy(r)' <=> busyBelow(n, r) \/ (works(f) /\ f.r = r)
  <2> HIDE DEF n
  <2>1. QED
    BY <1>1, <1>2, <1>3, <1>4, CountStacks
<1>6. QED
  BY <1>5, BusyBelow

LEMMA CountCalls ==
    ASSUME stack \in Seq(Frames), FramesOK, NEW f \in Frames, stack' = Append(stack, f),
           \A i \in DOMAIN stack, g \in Frames : g = stack[i] => FrameOK(g)',
           FrameOK(f)', works(f) => ~busy(f.r)
    PROVE  FramesOK' /\ \A r : busy(r)' <=> busy(r) \/ (works(f) /\ f.r = r)
<1> DEFINE n == Len(stack) + 1
<1>1. /\ DOMAIN stack = 1..(n - 1) /\ Len(stack) = n - 1 /\ n \in 1..(Len(stack) + 1)
      /\ \A i \in 1..(n - 1) : i \in DOMAIN stack
  OBVIOUS
<1>2. \A r : busyBelow(n, r) <=> busy(r)
  BY <1>1 DEF busy, busyBelow
<1>3. FramesOK' /\ \A r : busy(r)' <=> busyBelow(n, r) \/ (works(f) /\ f.r = r)
  <2> HIDE DEF n
  <2>1. QED
    BY <1>1, <1>2, CountStacks
<1>4. QED
  BY <1>2, <1>3


\* A frame that stays, when the flags of its request do.
LEMMA SameFrame ==
    ASSUME NEW g \in Frames, FrameOK(g), UNCHANGED <<fireGlobals, finished, cut>>,
           g.at \in {"ajaxSend", "unannounced"} => ~underWay(g.r)'
    PROVE  FrameOK(g)'
BY DEF FrameOK

\* The counter stays, and so do the requests it counts.
LEMMA CountQuiet ==
    ASSUME CountInv, FramesOK', UNCHANGED <<fireGlobals, finished, cut, active, shown>>,
           \A r \in Requests : /\ fireGlobals[r] => (busy(r)' <=> busy(r))
                               /\ new(r)' => new(r)
                               /\ state'[r] # 2 => finished[r] = 0
    PROVE  CountInv'
<1>1. counted' = counted
  BY DEF counted
<1>2. RequestsOK'
  BY DEF CountInv, RequestsOK
<1>3. IsFiniteSet(counted)' /\ active' = Cardinality(counted') /\ shown' = (active' > 0)
  BY <1>1 DEF CountInv
<1>4. QED
  BY <1>2, <1>3 DEF CountInv

\* The function on top returns, or goes on at another point.
LEMMA CountSteps ==
    ASSUME AjaxInv, CountInv, stack # <<>>,
           UNCHANGED <<fireGlobals, finished, cut, active, shown>>,
           \A r \in Requests : /\ new(r)' => new(r)
                               /\ state'[r] # 2 => finished[r] = 0
                               /\ underWay(r)' => underWay(r) \/ (r = top.r /\ top.at = "send"),
           NEW f \in Frames,
           \/ stack' = below /\ ~(works(top) /\ fireGlobals[top.r])
           \/ /\ stack' = Append(below, f) /\ f.r = top.r
              /\ works(f) <=> works(top)
              /\ FrameOK(f)'
    PROVE  CountInv'
<1>1. stack \in Seq(Frames) /\ StackOK /\ FramesOK /\ top.r \in Requests
  BY TopRequest DEF CountInv
<1>2. \A i \in 1..(Len(stack) - 1), g \in Frames : g = stack[i] => FrameOK(g)'
  <2>1. SUFFICES ASSUME NEW i \in 1..(Len(stack) - 1), NEW g \in Frames, g = stack[i]
                 PROVE  FrameOK(g)'
    OBVIOUS
  <2>2. /\ i \in DOMAIN stack /\ i # Len(stack)
        /\ Len(stack) \in DOMAIN stack /\ top = stack[Len(stack)]
    BY <1>1, TopFrame
  <2>3. FrameOK(g) /\ g.r \in Requests
    BY <1>1, <2>2, <2>1 DEF FramesOK, Frames
  <2>4. g.at \in {"ajaxSend", "unannounced"} => ~underWay(g.r)'
    <3>1. SUFFICES ASSUME g.at \in {"ajaxSend", "unannounced"}, underWay(g.r)' PROVE FALSE
      OBVIOUS
    <3>2. ~underWay(g.r)
      BY <2>3, <3>1 DEF FrameOK
    <3>3. g.r = top.r /\ top.at = "send"
      BY <2>3, <3>1, <3>2
    <3>4. QED
      BY <1>1, <2>1, <2>2, <3>1, <3>3 DEF StackOK, InAjax
  <2>5. QED
    BY <2>3, <2>4, SameFrame
<1>3. FramesOK' /\ \A r \in Requests : fireGlobals[r] => (busy(r)' <=> busy(r))
  <2>1. CASE stack' = below /\ ~(works(top) /\ fireGlobals[top.r])
    <3>1. FramesOK' /\ \A r : busy(r)' <=> busy(r) /\ ~(works(top) /\ top.r = r)
      BY <1>1, <1>2, <2>1, CountReturns
    <3>2. QED
      BY <2>1, <3>1
  <2>2. CASE /\ stack' = Append(below, f) /\ f.r = top.r
             /\ works(f) <=> works(top)
             /\ FrameOK(f)'
    <3>1. /\ FramesOK'
          /\ \A r : busy(r)' <=> \/ busy(r) /\ ~(works(top) /\ top.r = r)
                                 \/ works(f) /\ f.r = r
      BY <1>1, <1>2, <2>2, CountGoesOn
    <3>2. works(top) => busy(top.r)
      BY <1>1, TopFrame DEF busy
    <3>3. QED
      BY <2>2, <3>1, <3>2
  <2>3. QED
    BY <2>1, <2>2
<1>4. QED
  BY <1>3, CountQuiet


LEMMA TopOK ==
    ASSUME AjaxInv, CountInv, stack # <<>>
    PROVE  /\ top \in Frames /\ top.r \in Requests /\ ~new(top.r) /\ FrameOK(top)
           /\ works(top) => busy(top.r)
<1>1. top \in Frames /\ Len(stack) \in DOMAIN stack /\ top = stack[Len(stack)]
  BY TopRequest, TopFrame
<1>2. FrameOK(top) /\ (works(top) => busy(top.r))
  BY <1>1 DEF CountInv, FramesOK, busy
<1>3. QED
  BY <1>1, <1>2, TopRequest

\* The steps that count nothing and run no done.
LEMMA ReturnsCount ==
    ASSUME AjaxInv, CountInv,
           \/ ajaxStartReturn \/ beforeSendReturn \/ ajaxSendReturn \/ sendReturn
           \/ scriptSend \/ sendThrows \/ sendDone \/ ajaxStopReturn
           \/ callbackReturn \/ outcomeReturn
    PROVE  CountInv'
<1> USE DEF InAjax, Preparing, InFiring, Labels, UserCode, Early
<1>1. stack # <<>>
  BY DEF ajaxStartReturn, beforeSendReturn, ajaxSendReturn, sendReturn, scriptSend,
         sendThrows, sendDone, ajaxStopReturn, callbackReturn, outcomeReturn, at
<1>2. top \in Frames /\ top.r \in Requests /\ ~new(top.r) /\ FrameOK(top)
  BY <1>1, TopOK
<1>3. TypeOK /\ RequestsOK
  BY DEF AjaxInv, CountInv
<1>4. UNCHANGED <<fireGlobals, finished, cut, active, shown>>
  BY DEF ajaxStartReturn, beforeSendReturn, ajaxSendReturn, sendReturn, scriptSend,
         sendThrows, sendDone, ajaxStopReturn, callbackReturn, outcomeReturn,
         requestVars, historyVars
<1>5. ASSUME UNCHANGED <<state, transport>>
      PROVE  \A r \in Requests : /\ new(r)' => new(r)
                                 /\ state'[r] # 2 => finished[r] = 0
                                 /\ underWay(r)' => underWay(r)
  BY <1>3, <1>5 DEF RequestsOK, new, underWay
<1>6. ASSUME NEW label \in Labels
      PROVE  LET f == [top EXCEPT !.at = label] IN
             /\ f \in Frames /\ f.at = label /\ f.r = top.r
             /\ f.again = top.again /\ f.kind = top.kind
  BY <1>2 DEF Frames
<1>7. CASE ajaxStartReturn
  <2>1. UNCHANGED <<state, transport>> /\ top.at = "ajaxStart" /\ goto("beforeSend")
    BY <1>7 DEF ajaxStartReturn, at, requestVars
  <2>2. PICK f \in Frames : /\ stack' = Append(below, f) /\ f.r = top.r
                            /\ f.at = "beforeSend"
    BY <1>6, <2>1 DEF goto
  <2>3. (works(f) <=> works(top)) /\ FrameOK(f)'
    BY <1>2, <1>4, <2>1, <2>2 DEF works, FrameOK
  <2>4. QED
    BY <1>1, <1>4, <1>5, <2>1, <2>2, <2>3, CountSteps
<1>8. CASE beforeSendReturn
  <2>1. UNCHANGED state /\ top.at = "beforeSend" /\ state[top.r] # 2
    BY <1>8 DEF beforeSendReturn, at
  <2>2. PICK label \in {"catch", "ajaxSend", "unannounced"} :
           /\ goto(label)
           /\ \A r \in Requests : underWay(r)' => underWay(r) /\ r # top.r
    <3>1. PICK t \in inspectPrefiltersOrTransports(top.r) :
             /\ transport' = [transport EXCEPT ![top.r] = t]
             /\ IF t = "none" THEN goto("catch")
                ELSE goto(IF fireGlobals[top.r] THEN "ajaxSend" ELSE "unannounced")
      BY <1>8 DEF beforeSendReturn
    <3>2. t \notin {"sent", "loading"}
      BY <3>1 DEF inspectPrefiltersOrTransports
    <3>3. \A r \in Requests : underWay(r)' => underWay(r) /\ r # top.r
      BY <1>2, <1>3, <3>1, <3>2 DEF underWay, TypeOK
    <3>4. goto("catch") \/ goto("ajaxSend") \/ goto("unannounced")
      BY <3>1
    <3>5. QED
      BY <3>3, <3>4
  <2>3. PICK f \in Frames : stack' = Append(below, f) /\ f.r = top.r /\ f.at = label
    BY <1>6, <2>2 DEF goto
  <2>4. (works(f) <=> works(top)) /\ FrameOK(f)'
    <3>1. ~underWay(f.r)'
      BY <1>2, <2>2, <2>3
    <3>2. QED
      BY <1>2, <1>4, <2>1, <2>3, <3>1 DEF works, FrameOK
  <2>5. \A r \in Requests : (new(r)' => new(r)) /\ (state'[r] # 2 => finished[r] = 0)
    BY <1>3, <2>1 DEF RequestsOK, new
  <2>6. QED
    BY <1>1, <1>4, <2>2, <2>3, <2>4, <2>5, CountSteps
<1>9. CASE ajaxSendReturn
  <2>1. UNCHANGED transport /\ top.at \in {"ajaxSend", "unannounced"} /\ goto("send")
        /\ state' = [state EXCEPT ![top.r] = 1]
    BY <1>9 DEF ajaxSendReturn, at
  <2>2. PICK f \in Frames : stack' = Append(below, f) /\ f.r = top.r /\ f.at = "send"
    BY <1>6, <2>1 DEF goto
  <2>3. (works(f) <=> works(top)) /\ FrameOK(f)'
    BY <2>1, <2>2 DEF works, FrameOK
  <2>4. \A r \in Requests : /\ new(r)' => new(r)
                            /\ state'[r] # 2 => finished[r] = 0
                            /\ underWay(r)' => underWay(r)
    <3>1. finished[top.r] = 0
      BY <1>2, <2>1 DEF FrameOK
    <3>2. QED
      BY <1>2, <1>3, <2>1, <3>1 DEF RequestsOK, new, underWay, TypeOK
  <2>5. QED
    BY <1>1, <1>4, <2>2, <2>3, <2>4, CountSteps
<1>10. CASE sendReturn \/ scriptSend
  <2>1. UNCHANGED state /\ top.at = "send" /\ stack' = below
        /\ \E t \in {"sent", "loading"} : transport' = [transport EXCEPT ![top.r] = t]
    BY <1>10 DEF sendReturn, scriptSend, at
  <2>2. \A r \in Requests : /\ new(r)' => new(r)
                            /\ state'[r] # 2 => finished[r] = 0
                            /\ underWay(r)' => underWay(r) \/ r = top.r
    BY <1>3, <2>1 DEF RequestsOK, new, underWay, TypeOK
  <2>3. QED
    BY <1>1, <1>2, <1>4, <2>1, <2>2, CountSteps DEF works
<1>11. CASE sendThrows
  <2>1. UNCHANGED <<state, transport>> /\ top.at = "send" /\ goto("catch")
    BY <1>11 DEF sendThrows, at, requestVars
  <2>2. PICK f \in Frames : stack' = Append(below, f) /\ f.r = top.r /\ f.at = "catch"
    BY <1>6, <2>1 DEF goto
  <2>3. (works(f) <=> works(top)) /\ FrameOK(f)'
    BY <2>1, <2>2 DEF works, FrameOK
  <2>4. QED
    BY <1>1, <1>4, <1>5, <2>1, <2>2, <2>3, CountSteps
<1>12. CASE sendDone \/ ajaxStopReturn
  <2>1. UNCHANGED <<state, transport>> /\ top.at \in {"send", "ajaxStop"} /\ stack' = below
    BY <1>12 DEF sendDone, ajaxStopReturn, at, requestVars
  <2>2. QED
    BY <1>1, <1>2, <1>4, <1>5, <2>1, CountSteps DEF works
<1>13. CASE callbackReturn
  <2>1. UNCHANGED <<state, transport>> /\ top.at = "callback" /\ goto("firing")
    BY <1>13 DEF callbackReturn, at, requestVars
  <2>2. PICK f \in Frames : /\ stack' = Append(below, f) /\ f.r = top.r
                            /\ f.at = "firing" /\ f.again = top.again
    BY <1>6, <2>1 DEF goto
  <2>3. (works(f) <=> works(top)) /\ FrameOK(f)'
    BY <1>2, <1>4, <2>1, <2>2 DEF works, FrameOK
  <2>4. QED
    BY <1>1, <1>4, <1>5, <2>1, <2>2, <2>3, CountSteps
<1>14. CASE outcomeReturn
  <2>1. UNCHANGED <<state, transport>> /\ top.at = "outcome"
        /\ stack' = Append(below, [top EXCEPT !.at = "resolve", !.kind = "complete"])
    BY <1>14 DEF outcomeReturn, at, requestVars
  <2>2. PICK f \in Frames : /\ stack' = Append(below, f) /\ f.r = top.r
                            /\ f.at = "resolve" /\ f.again = top.again
    <3>1. LET f == [top EXCEPT !.at = "resolve", !.kind = "complete"] IN
          f \in Frames /\ f.r = top.r /\ f.at = "resolve" /\ f.again = top.again
      BY <1>2 DEF Frames, Kinds
    <3>2. QED
      BY <2>1, <3>1
  <2>3. (works(f) <=> works(top)) /\ FrameOK(f)'
    BY <1>2, <1>4, <2>1, <2>2 DEF works, FrameOK
  <2>4. QED
    BY <1>1, <1>4, <1>5, <2>1, <2>2, <2>3, CountSteps
<1>15. QED
  BY <1>7, <1>8, <1>9, <1>10, <1>11, <1>12, <1>13, <1>14


\* A list fires.
LEMMA FiringCounts ==
    ASSUME AjaxInv, CountInv, resolveWith \/ callNext
    PROVE  CountInv'
<1> USE DEF InAjax, Preparing, InFiring, Labels, UserCode, Early
<1>1. stack # <<>> /\ top.at \in {"resolve", "firing"}
  BY DEF resolveWith, callNext, at
<1>2. top \in Frames /\ top.r \in Requests /\ ~new(top.r) /\ FrameOK(top)
  BY <1>1, TopOK
<1>3. UNCHANGED <<state, transport, fireGlobals, finished, cut, active, shown>>
  BY DEF resolveWith, callNext, historyVars
<1>4. \A r \in Requests : /\ new(r)' => new(r)
                          /\ state'[r] # 2 => finished[r] = 0
                          /\ underWay(r)' => underWay(r)
  BY <1>3 DEF CountInv, RequestsOK, new, underWay
<1>5. \/ stack' = below /\ (top.again \/ ~fireGlobals[top.r])
      \/ \E label \in {"firing", "callback", "outcome", "ajaxComplete"} :
            /\ goto(label)
            /\ label = "firing" => top.at = "resolve"
            /\ label = "callback" => top.at = "firing"
            /\ label \in {"outcome", "ajaxComplete"} => ~top.again
            /\ label = "ajaxComplete" => fireGlobals[top.r]
  BY DEF resolveWith, callNext, at, afterFiring
<1>6. CASE stack' = below /\ (top.again \/ ~fireGlobals[top.r])
  BY <1>1, <1>2, <1>3, <1>4, <1>6, CountSteps DEF works
<1>7. ASSUME NEW label \in {"firing", "callback", "outcome", "ajaxComplete"}, goto(label),
             label \in {"outcome", "ajaxComplete"} => ~top.again,
             label = "ajaxComplete" => fireGlobals[top.r]
      PROVE  CountInv'
  <2>1. PICK f \in Frames : /\ stack' = Append(below, f) /\ f.r = top.r
                            /\ f.at = label /\ f.again = top.again
    <3>1. LET f == [top EXCEPT !.at = label] IN
          f \in Frames /\ f.r = top.r /\ f.at = label /\ f.again = top.again
      BY <1>2 DEF Frames
    <3>2. QED
      BY <1>7, <3>1 DEF goto
  <2>2. (works(f) <=> works(top)) /\ FrameOK(f)'
    BY <1>1, <1>2, <1>3, <1>7, <2>1 DEF works, FrameOK
  <2>3. QED
    BY <1>1, <1>3, <1>4, <2>1, <2>2, CountSteps
<1>8. QED
  BY <1>5, <1>6, <1>7

\* The frames of the requests whose flags stay, wherever they are on the stack.
LEMMA SameFrames ==
    ASSUME TypeOK, FramesOK, UNCHANGED <<fireGlobals, finished, cut>>,
           \A r : underWay(r)' => underWay(r)
    PROVE  \A i \in DOMAIN stack, g \in Frames : g = stack[i] => FrameOK(g)'
<1>1. SUFFICES ASSUME NEW i \in DOMAIN stack, NEW g \in Frames, g = stack[i]
               PROVE  FrameOK(g)'
  OBVIOUS
<1>2. FrameOK(g)
  BY <1>1 DEF FramesOK
<1>3. g.at \in {"ajaxSend", "unannounced"} => ~underWay(g.r)'
  BY <1>2 DEF FrameOK
<1>4. QED
  BY <1>2, <1>3, SameFrame

\* A callback added later is called by no frame of done.
LEMMA AddLateCounts ==
    ASSUME AjaxInv, CountInv, NEW q \in Requests, NEW k \in Kinds, addLate(q, k)
    PROVE  CountInv'
<1> USE DEF InAjax, Preparing, InFiring, Labels, UserCode, Early
<1>1. UNCHANGED <<state, transport, fireGlobals, finished, cut, active, shown>>
  BY DEF addLate
<1>2. TypeOK /\ stack \in Seq(Frames) /\ FramesOK
  BY DEF AjaxInv, TypeOK, CountInv
<1>3. \A i \in DOMAIN stack, g \in Frames : g = stack[i] => FrameOK(g)'
  BY <1>1, <1>2, SameFrames DEF underWay
<1>4. FramesOK' /\ \A r : busy(r)' <=> busy(r)
  <2>1. CASE UNCHANGED stack
    BY <1>1, <1>2, <2>1 DEF FramesOK, FrameOK, busy, underWay
  <2>2. CASE stack' = Append(stack, [at |-> "firing", r |-> q, kind |-> k, again |-> TRUE])
    <3>1. PICK f \in Frames : stack' = Append(stack, f) /\ f.at = "firing" /\ f.again
      <4>1. [at |-> "firing", r |-> q, kind |-> k, again |-> TRUE] \in Frames
        BY DEF Frames
      <4>2. QED
        BY <2>2, <4>1
    <3>2. ~works(f) /\ FrameOK(f)'
      BY <3>1 DEF works, FrameOK
    <3>3. QED
      BY <1>2, <1>3, <3>1, <3>2, CountCalls
  <2>3. QED
    BY <2>1, <2>2 DEF addLate
<1>5. QED
  BY <1>1, <1>4, CountQuiet DEF CountInv, RequestsOK, new

LEMMA CallAjaxCounts ==
    ASSUME AjaxInv, CountInv, NEW q \in Requests, callAjax(q)
    PROVE  CountInv'
<1> USE DEF InAjax, Preparing, InFiring, Labels, UserCode, Early
<1>1. /\ UNCHANGED <<transport, fireGlobals, finished, cut, active, shown>>
      /\ new(q) /\ state' = [state EXCEPT ![q] = 0]
      /\ stack' = Append(stack, frame("prefilter", q))
  BY DEF callAjax, historyVars
<1>2. TypeOK /\ stack \in Seq(Frames) /\ FramesOK /\ RequestsOK
  BY DEF AjaxInv, TypeOK, CountInv
<1>3. \A i \in DOMAIN stack, g \in Frames : g = stack[i] => FrameOK(g)'
  BY <1>1, <1>2, SameFrames DEF underWay
<1>4. finished[q] = 0 /\ ~fireGlobals[q]
  BY <1>1, <1>2 DEF AjaxInv, Begun, Unknown, RequestsOK
<1>5. PICK f \in Frames : stack' = Append(stack, f) /\ f.at = "prefilter" /\ f.r = q
  <2>1. frame("prefilter", q) \in Frames /\ frame("prefilter", q).at = "prefilter"
        /\ frame("prefilter", q).r = q
    BY DEF frame, Frames, Kinds
  <2>2. QED
    BY <1>1, <2>1
<1>6. ~works(f) /\ FrameOK(f)'
  BY <1>1, <1>4, <1>5 DEF works, FrameOK
<1>7. FramesOK' /\ \A r : busy(r)' <=> busy(r)
  BY <1>2, <1>3, <1>5, <1>6, CountCalls
<1>8. \A r \in Requests : (new(r)' => new(r)) /\ (state'[r] # 2 => finished[r] = 0)
  BY <1>1, <1>2, <1>4 DEF RequestsOK, TypeOK, new
<1>9. QED
  BY <1>1, <1>7, <1>8, CountQuiet


\* One more request is counted; one less.
LEMMA CountMore ==
    ASSUME CountInv, NEW q, q \notin counted, counted' = counted \union {q},
           active' = active + 1, shown' = (shown \/ active = 0)
    PROVE  IsFiniteSet(counted)' /\ active' = Cardinality(counted') /\ shown' = (active' > 0)
<1>1. /\ IsFiniteSet(counted) /\ active = Cardinality(counted) /\ shown = (active > 0)
      /\ active \in Nat
  BY FS_CardinalityType DEF CountInv
<1>2. IsFiniteSet(counted') /\ Cardinality(counted') = Cardinality(counted) + 1
  BY <1>1, FS_AddElement
<1>3. active' > 0 /\ (shown \/ active = 0)
  <2>1. active' > 0 /\ (active > 0 \/ active = 0)
    BY <1>1
  <2>2. active > 0 => shown
    BY <1>1, Zenon
  <2>3. QED
    BY <2>1, <2>2
<1>4. shown' = TRUE /\ (active' > 0) = TRUE
  BY <1>3
<1>5. QED
  BY <1>1, <1>2, <1>4

LEMMA CountLess ==
    ASSUME CountInv, NEW q, q \in counted, counted' = counted \ {q},
           active' = active - 1, shown' = (shown /\ active # 1)
    PROVE  IsFiniteSet(counted)' /\ active' = Cardinality(counted') /\ shown' = (active' > 0)
<1>1. /\ IsFiniteSet(counted) /\ active = Cardinality(counted) /\ shown = (active > 0)
      /\ active \in Nat
  BY FS_CardinalityType DEF CountInv
<1>2. IsFiniteSet(counted') /\ Cardinality(counted') = Cardinality(counted) - 1
  BY <1>1, FS_RemoveElement
<1>3. shown' = (active' > 0)
  <2>1. (active > 0 /\ active # 1) <=> active' > 0
    BY <1>1
  <2>2. shown <=> active > 0
    BY <1>1, Zenon
  <2>3. CASE active' > 0
    <3>1. (shown /\ active # 1) = TRUE /\ (active' > 0) = TRUE
      BY <2>1, <2>2, <2>3
    <3>2. QED
      BY <3>1
  <2>4. CASE ~(active' > 0)
    <3>1. (shown /\ active # 1) = FALSE /\ (active' > 0) = FALSE
      BY <2>1, <2>2, <2>4
    <3>2. QED
      BY <3>1
  <2>5. QED
    BY <2>3, <2>4
<1>4. QED
  BY <1>1, <1>2, <1>3

\* The options of a request are known: it is counted, if it fires global events.
LEMMA PrefiltersCount ==
    ASSUME AjaxInv, CountInv, prefiltersReturn
    PROVE  CountInv'
<1> USE DEF InAjax, Preparing, InFiring, Labels, UserCode, Early
<1>1. stack # <<>> /\ top.at = "prefilter"
  BY DEF prefiltersReturn, at
<1>2. PICK q \in Requests : q = top.r
  BY <1>1, TopOK
<1>3. top \in Frames /\ ~new(q) /\ FrameOK(top) /\ ~works(top)
  BY <1>1, <1>2, TopOK DEF works
<1>4. /\ finished[q] = 0 /\ ~fireGlobals[q] /\ q \notin cut
      /\ TypeOK /\ RequestsOK /\ stack \in Seq(Frames) /\ StackOK /\ FramesOK
  BY <1>1, <1>2, <1>3 DEF FrameOK, CountInv, RequestsOK, AjaxInv, TypeOK
<1>5. UNCHANGED <<state, transport, finished, cut>>
  BY DEF prefiltersReturn, historyVars
<1>6. CASE state[q] = 2
  <2>1. UNCHANGED <<fireGlobals, active, shown>> /\ stack' = below
    BY <1>2, <1>6 DEF prefiltersReturn
  <2>2. \A r \in Requests : /\ new(r)' => new(r)
                            /\ state'[r] # 2 => finished[r] = 0
                            /\ underWay(r)' => underWay(r)
    BY <1>4, <1>5 DEF RequestsOK, new, underWay
  <2>3. QED
    BY <1>1, <1>3, <1>5, <2>1, <2>2, CountSteps
<1>7. CASE state[q] # 2
  <2>1. PICK b \in BOOLEAN : fireGlobals' = [fireGlobals EXCEPT ![q] = b]
    BY <1>2, <1>7 DEF prefiltersReturn, scriptPrefilter
  <2>2. fireGlobals'[q] = b /\ \A r \in Requests \ {q} : fireGlobals'[r] = fireGlobals[r]
    BY <1>4, <2>1 DEF TypeOK
  <2>3. countRequest(b)
    BY <1>2, <1>7, <2>2 DEF prefiltersReturn
  <2>4. PICK f \in Frames : /\ stack' = Append(below, f) /\ f.r = q
                            /\ f.at \in {"ajaxStart", "beforeSend"}
    <3>1. goto("ajaxStart") \/ goto("beforeSend")
      BY <2>3 DEF countRequest
    <3>2. \A label \in {"ajaxStart", "beforeSend"} :
             LET f == [top EXCEPT !.at = label] IN f \in Frames /\ f.r = q /\ f.at = label
      BY <1>2, <1>3 DEF Frames
    <3>3. QED
      BY <3>1, <3>2 DEF goto
  <2>5. ~works(f) /\ FrameOK(f)'
    BY <1>4, <1>5, <2>4 DEF works, FrameOK
  <2>6. \A i \in 1..(Len(stack) - 1), g \in Frames : g = stack[i] => FrameOK(g)'
    <3>1. SUFFICES ASSUME NEW i \in 1..(Len(stack) - 1), NEW g \in Frames, g = stack[i]
                   PROVE  FrameOK(g)'
      OBVIOUS
    <3>2. /\ i \in DOMAIN stack /\ i # Len(stack)
          /\ Len(stack) \in DOMAIN stack /\ top = stack[Len(stack)]
      BY <1>1, <1>4, TopFrame
    <3>3. FrameOK(g) /\ g.r \in Requests
      BY <1>4, <3>1, <3>2 DEF FramesOK, Frames
    <3>4. g.r = q => g.at # "prefilter" /\ g.at # "ajaxComplete"
      <4>1. g.r = q => g.at # "prefilter"
        BY <1>1, <1>2, <1>4, <3>1, <3>2 DEF StackOK
      <4>2. g.r = q => g.at # "ajaxComplete"
        BY <1>4, <3>3 DEF FrameOK
      <4>3. QED
        BY <4>1, <4>2
    <3>5. QED
      BY <1>5, <2>2, <3>3, <3>4 DEF FrameOK, underWay, works
  <2>7. FramesOK' /\ \A r : busy(r)' <=> busy(r)
    BY <1>1, <1>2, <1>3, <1>4, <2>4, <2>5, <2>6, CountGoesOn
  <2>8. RequestsOK'
    BY <1>3, <1>4, <1>5, <2>2 DEF RequestsOK, new
  <2>9. CASE b
    <3>1. active' = active + 1 /\ shown' = (shown \/ active = 0)
      BY <2>3, <2>9 DEF countRequest
    <3>2. q \notin counted /\ counted' = counted \union {q}
      BY <1>4, <1>5, <2>2, <2>7, <2>9 DEF counted
    <3>3. QED
      BY <2>7, <2>8, <3>1, <3>2, CountMore DEF CountInv
  <2>10. CASE ~b
    <3>1. UNCHANGED <<active, shown>>
      BY <2>3, <2>10 DEF countRequest
    <3>2. counted' = counted
      BY <1>4, <1>5, <2>2, <2>7, <2>10 DEF counted
    <3>3. QED
      BY <2>7, <2>8, <3>1, <3>2 DEF CountInv
  <2>11. QED
    BY <2>9, <2>10
<1>8. QED
  BY <1>6, <1>7

\* The handlers of ajaxComplete have returned: the request is no more counted.
LEMMA CompleteCounts ==
    ASSUME AjaxInv, CountInv, ajaxCompleteReturn
    PROVE  CountInv'
<1> USE DEF InAjax, Preparing, InFiring, Labels, UserCode, Early
<1>1. stack # <<>> /\ top.at = "ajaxComplete"
  BY DEF ajaxCompleteReturn, at
<1>2. PICK q \in Requests : q = top.r
  BY <1>1, TopOK
<1>3. top \in Frames /\ FrameOK(top) /\ works(top) /\ busy(q)
  BY <1>1, <1>2, TopOK DEF works, FrameOK
<1>4. /\ finished[q] # 0 /\ fireGlobals[q] /\ q \notin cut
      /\ TypeOK /\ RequestsOK /\ stack \in Seq(Frames) /\ StackOK /\ FramesOK
  BY <1>1, <1>2, <1>3 DEF FrameOK, CountInv, AjaxInv, TypeOK
<1>5. UNCHANGED <<state, transport, fireGlobals, finished, cut>>
      /\ active' = active - 1 /\ shown' = (shown /\ active # 1)
  BY DEF ajaxCompleteReturn, requestVars, historyVars
<1>6. \A i \in 1..(Len(stack) - 1), g \in Frames : g = stack[i] => FrameOK(g)'
  <2>1. \A i \in DOMAIN stack, g \in Frames : g = stack[i] => FrameOK(g)'
    BY <1>4, <1>5, SameFrames DEF underWay
  <2>2. QED
    BY <1>1, <1>4, <2>1, TopFrame
<1>7. FramesOK' /\ \A r : busy(r)' <=> busy(r) /\ r # q
  <2>1. CASE stack' = below
    BY <1>1, <1>2, <1>3, <1>4, <1>6, <2>1, CountReturns
  <2>2. CASE goto("ajaxStop")
    <3>1. PICK f \in Frames : stack' = Append(below, f) /\ f.r = q /\ f.at = "ajaxStop"
      <4>1. LET f == [top EXCEPT !.at = "ajaxStop"] IN
            f \in Frames /\ f.r = q /\ f.at = "ajaxStop"
        BY <1>2, <1>3 DEF Frames
      <4>2. QED
        BY <2>2, <4>1 DEF goto
    <3>2. ~works(f) /\ FrameOK(f)'
      BY <3>1 DEF works, FrameOK
    <3>3. /\ FramesOK'
          /\ \A r : busy(r)' <=> \/ busy(r) /\ ~(works(top) /\ top.r = r)
                                 \/ works(f) /\ f.r = r
      BY <1>1, <1>2, <1>4, <1>6, <3>1, <3>2, CountGoesOn
    <3>4. QED
      BY <1>2, <1>3, <3>2, <3>3
  <2>3. QED
    BY <2>1, <2>2 DEF ajaxCompleteReturn
<1>8. RequestsOK'
  BY <1>4, <1>5 DEF RequestsOK, new
<1>9. q \in counted /\ counted' = counted \ {q}
  BY <1>3, <1>4, <1>5, <1>7 DEF counted
<1>10. QED
  BY <1>5, <1>7, <1>8, <1>9, CountLess DEF CountInv


\* done is called: its request stays counted until the handlers of ajaxComplete.
LEMMA FinishCounts ==
    ASSUME AjaxInv, CountInv, NEW r \in Requests, ~new(r), NEW ok, NEW base,
           finish(r, ok, base),
           \/ /\ base = stack
              /\ \/ stack = <<>> \/ underWay(r) \/ state[r] = 2
                 \/ stack # <<>> /\ top.at = "send" /\ top.r = r
           \/ base = below /\ stack # <<>> /\ top.at \in {"beforeSend", "catch"} /\ top.r = r
    PROVE  CountInv'
<1> USE DEF InAjax, Preparing, InFiring, Labels, UserCode, Early
<1>1. TypeOK /\ RequestsOK /\ stack \in Seq(Frames) /\ StackOK /\ FramesOK
  BY DEF AjaxInv, TypeOK, CountInv
<1>2. CASE state[r] = 2
  <2>1. /\ UNCHANGED <<state, transport, fireGlobals, finished, cut, active, shown>>
        /\ stack' = base
    BY <1>2 DEF finish, requestVars, historyVars
  <2>2. \A q \in Requests : /\ new(q)' => new(q)
                            /\ state'[q] # 2 => finished[q] = 0
                            /\ underWay(q)' => underWay(q)
    BY <1>1, <2>1 DEF RequestsOK, new, underWay
  <2>3. CASE stack' = stack
    <3>1. FramesOK' /\ \A q : busy(q)' <=> busy(q)
      BY <1>1, <2>1, <2>3 DEF FramesOK, FrameOK, busy, underWay
    <3>2. QED
      BY <2>1, <2>2, <3>1, CountQuiet
  <2>4. CASE stack' = below /\ stack # <<>> /\ top.at \in {"beforeSend", "catch"}
    <3>1. top \in Frames /\ ~works(top)
      BY <2>4, TopOK DEF works
    <3>2. QED
      BY <2>1, <2>2, <2>4, <3>1, CountSteps
  <2>5. QED
    BY <2>1, <2>3, <2>4
<1>3. CASE state[r] # 2
  <2>1. /\ UNCHANGED <<fireGlobals, active, shown, cut>>
        /\ state' = [state EXCEPT ![r] = 2]
        /\ transport' = [transport EXCEPT ![r] = "none"]
        /\ finished' = [finished EXCEPT ![r] = @ + 1]
        /\ \E k \in Main : stack' = Append(base, [frame("resolve", r) EXCEPT !.kind = k])
    BY <1>3 DEF finish, requestVars, historyVars, Main
  <2>2. finished[r] = 0 /\ r \notin cut
    BY <1>1, <1>3 DEF RequestsOK
  <2>3. /\ finished'[r] = 1 /\ state'[r] = 2 /\ ~underWay(r)'
        /\ \A q \in Requests \ {r} :
              UNCHANGED <<finished[q], state[q], transport[q]>>
    BY <1>1, <2>1, <2>2 DEF TypeOK, underWay
  <2>4. \A i \in DOMAIN stack : works(stack[i]) => stack[i].r # r
    BY <1>1, <2>2 DEF FramesOK, FrameOK
  <2>5. ~busy(r)
    BY <2>4 DEF busy
  <2>6. PICK f \in Frames : /\ stack' = Append(base, f) /\ f.at = "resolve" /\ f.r = r
                            /\ ~f.again
    <3>1. PICK k \in Main : stack' = Append(base, [frame("resolve", r) EXCEPT !.kind = k])
      BY <2>1
    <3>2. LET f == [frame("resolve", r) EXCEPT !.kind = k] IN
          f \in Frames /\ f.at = "resolve" /\ f.r = r /\ ~f.again
      BY DEF frame, Frames, Main, Kinds
    <3>3. QED
      BY <3>1, <3>2
  <2>7. works(f) /\ FrameOK(f)'
    BY <2>1, <2>2, <2>3, <2>6 DEF works, FrameOK
  <2>8. ASSUME NEW i \in DOMAIN stack, NEW g \in Frames, g = stack[i],
               g.r = r => g.at \notin Early
        PROVE  FrameOK(g)'
    <3>1. FrameOK(g) /\ g.r \in Requests
      BY <1>1, <2>8 DEF FramesOK, Frames
    <3>2. CASE g.r = r
      <4>1. ~works(g)
        BY <2>4, <2>8, <3>2
      <4>2. QED
        BY <2>1, <2>8, <3>1, <3>2, <4>1 DEF FrameOK
    <3>3. CASE g.r # r
      BY <2>1, <2>3, <3>1, <3>3 DEF FrameOK, underWay
    <3>4. QED
      BY <3>2, <3>3
  <2>9. FramesOK' /\ \A q : busy(q)' <=> busy(q) \/ q = r
    <3>1. CASE base = stack /\ \/ stack = <<>> \/ underWay(r)
                               \/ stack # <<>> /\ top.at = "send" /\ top.r = r
      <4>1. ASSUME NEW i \in DOMAIN stack, stack[i].r = r, stack[i].at \in Early
            PROVE  FALSE
        <5>1. stack # <<>>
          OBVIOUS
        <5>2. CASE underWay(r)
          <6>1. ~prepares(r)
            BY <5>2 DEF AjaxInv, Begun, Unanswered, underWay
          <6>2. stack[i].at \notin {"ajaxSend", "unannounced"}
            BY <1>1, <4>1, <5>2 DEF FramesOK, FrameOK
          <6>3. QED
            BY <4>1, <6>1, <6>2 DEF prepares
        <5>3. CASE top.at = "send" /\ top.r = r
          <6>1. Len(stack) \in DOMAIN stack /\ top = stack[Len(stack)]
            BY <1>1, <5>1, TopFrame
          <6>2. i = Len(stack)
            BY <1>1, <4>1, <5>3, <6>1 DEF StackOK
          <6>3. QED
            BY <4>1, <5>3, <6>1, <6>2
        <5>4. QED
          BY <3>1, <5>1, <5>2, <5>3
      <4>2. \A i \in DOMAIN stack, g \in Frames : g = stack[i] => FrameOK(g)'
        BY <2>8, <4>1
      <4>3. FramesOK' /\ \A q : busy(q)' <=> busy(q) \/ (works(f) /\ f.r = q)
        BY <1>1, <2>5, <2>6, <2>7, <3>1, <4>2, CountCalls
      <4>4. QED
        BY <2>6, <2>7, <4>3
    <3>2. CASE base = below /\ stack # <<>> /\ top.at \in {"beforeSend", "catch"} /\ top.r = r
      <4>1. \A i \in 1..(Len(stack) - 1), g \in Frames : g = stack[i] => FrameOK(g)'
        <5>1. SUFFICES ASSUME NEW i \in 1..(Len(stack) - 1), NEW g \in Frames, g = stack[i]
                       PROVE  FrameOK(g)'
          OBVIOUS
        <5>2. /\ i \in DOMAIN stack /\ i # Len(stack)
              /\ Len(stack) \in DOMAIN stack /\ top = stack[Len(stack)]
          BY <1>1, <3>2, TopFrame
        <5>3. g.r = r => g.at \notin InAjax
          BY <1>1, <3>2, <5>1, <5>2 DEF StackOK
        <5>4. QED
          BY <2>8, <5>1, <5>2, <5>3
      <4>2. /\ FramesOK'
            /\ \A q : busy(q)' <=> \/ busy(q) /\ ~(works(top) /\ top.r = q)
                                   \/ works(f) /\ f.r = q
        BY <1>1, <2>5, <2>6, <2>7, <3>2, <4>1, CountGoesOn
      <4>3. ~works(top)
        BY <3>2 DEF works
      <4>4. QED
        BY <2>6, <2>7, <4>2, <4>3
    <3>3. QED
      BY <1>3, <3>1, <3>2
  <2>10. RequestsOK'
    BY <1>1, <2>1, <2>2, <2>3 DEF RequestsOK, new
  <2>11. counted' = counted
    <3>1. \A q \in Requests : (q \in counted)' <=> q \in counted
      BY <2>1, <2>2, <2>3, <2>9 DEF counted
    <3>2. QED
      BY <3>1 DEF counted
  <2>12. QED
    BY <2>1, <2>9, <2>10, <2>11 DEF CountInv
<1>4. QED
  BY <1>2, <1>3


\* done, wherever it is called, when no request is aborted before it is sent.
LEMMA DoneCounts ==
    ASSUME ~AbortsInSend, AjaxInv, CountInv,
           \/ beforeSendRefuses \/ sendFromCache \/ catch
           \/ \E r \in Requests : abort(r) \/ answer(r) \/ scriptLoaded(r) \/ timeout(r)
    PROVE  CountInv'
<1>1. CASE beforeSendRefuses \/ catch
  <2>1. stack # <<>> /\ top.at \in {"beforeSend", "catch"} /\ finish(top.r, FALSE, below)
    BY <1>1 DEF beforeSendRefuses, catch, at
  <2>2. PICK r \in Requests : r = top.r /\ ~new(r)
    BY <2>1, TopRequest
  <2>3. QED
    BY <2>1, <2>2, FinishCounts
<1>2. CASE sendFromCache
  <2>1. PICK ok \in BOOLEAN : finish(top.r, ok, stack)
    BY <1>2 DEF sendFromCache
  <2>2. stack # <<>> /\ top.at = "send"
    BY <1>2 DEF sendFromCache, at
  <2>3. PICK r \in Requests : r = top.r /\ ~new(r)
    BY <2>2, TopRequest
  <2>4. QED
    BY <2>1, <2>2, <2>3, FinishCounts
<1>3. ASSUME NEW r \in Requests, abort(r) PROVE CountInv'
  BY <1>3, FinishCounts DEF abort
<1>4. ASSUME NEW r \in Requests, answer(r) \/ scriptLoaded(r) \/ timeout(r) PROVE CountInv'
  <2>1. stack = <<>> /\ \E ok \in BOOLEAN : finish(r, ok, stack)
    BY <1>4 DEF answer, scriptLoaded, timeout
  <2>2. ~new(r)
    BY <1>4, Known DEF answer, scriptLoaded, timeout
  <2>3. QED
    BY <2>1, <2>2, FinishCounts
<1>5. QED
  BY <1>1, <1>2, <1>3, <1>4

\* An exception cuts the done of the requests whose frames it leaves.
LEMMA ThrowCounts ==
    ASSUME AjaxInv, CountInv, throw
    PROVE  CountInv'
<1> USE DEF InAjax, Preparing, InFiring, Labels, UserCode, Early
<1>1. TypeOK /\ RequestsOK /\ stack \in Seq(Frames) /\ StackOK /\ FramesOK
      /\ stack # <<>> /\ top.at \in UserCode
  BY DEF AjaxInv, TypeOK, CountInv, throw
<1>2. UNCHANGED <<state, transport, fireGlobals, finished, active, shown>>
  BY DEF throw
<1>3. caughtAt \in 0..Len(stack) /\ Len(stack) \in Nat /\ DOMAIN stack = 1..Len(stack)
      /\ (caughtAt # 0 => caughtAt \in 1..Len(stack) /\ stack[caughtAt].at = "send")
  BY <1>1, CaughtAt
<1>4. cut' = cut \union cutNow
  BY DEF throw
<1>5. ASSUME NEW i \in DOMAIN stack
      PROVE  /\ stack[i] \in Frames /\ FrameOK(stack[i])
             /\ works(stack[i]) => inDone(stack[i])
             /\ inDone(stack[i]) => works(stack[i])
  <2>1. stack[i] \in Frames /\ FrameOK(stack[i])
    BY <1>1 DEF FramesOK
  <2>2. stack[i].at \in UserCode \union {"send"}
    <3>1. \A j \in DOMAIN stack : j < Len(stack) => stack[j].at \in UserCode \union {"send"}
      BY <1>1 DEF StackOK
    <3>2. i < Len(stack) \/ i = Len(stack)
      BY <1>3
    <3>3. top = stack[Len(stack)]
      BY <1>1, TopFrame
    <3>4. QED
      BY <1>1, <3>1, <3>2, <3>3
  <2>3. QED
    BY <2>1, <2>2 DEF works, inDone
<1>6. ASSUME NEW q
      PROVE  q \in cutNow <=> \E i \in (caughtAt + 1)..Len(stack) :
                                 i \in DOMAIN stack /\ works(stack[i]) /\ stack[i].r = q /\ fireGlobals[q]
  <2>1. \A i \in (caughtAt + 1)..Len(stack) : i \in DOMAIN stack
    BY <1>3
  <2>2. \A i \in (caughtAt + 1)..Len(stack) : inDone(stack[i]) <=> works(stack[i])
    BY <1>5, <2>1
  <2>3. QED
    BY <2>1, <2>2 DEF unwound, cutNow
<1>7. ASSUME NEW i \in 1..(caughtAt - 1), NEW g \in Frames, g = stack[i]
      PROVE  FrameOK(g)'
  <2>1. i \in DOMAIN stack /\ \A j \in (caughtAt + 1)..Len(stack) : i # j
    BY <1>3
  <2>2. FrameOK(g)
    BY <1>5, <1>7, <2>1
  <2>3. works(g) => g.r \notin cutNow
    <3>1. \A k, l \in DOMAIN stack :
             works(stack[k]) /\ works(stack[l]) /\ stack[k].r = stack[l].r => k = l
      BY <1>1 DEF FramesOK
    <3>2. QED
      BY <1>6, <1>7, <2>1, <3>1
  <2>4. QED
    BY <1>2, <1>4, <2>2, <2>3 DEF FrameOK, underWay
<1>8. FramesOK' /\ \A r : busy(r)' <=> busyBelow(caughtAt, r)
  <2>1. CASE caughtAt = 0
    <3>1. stack' = <<>> /\ 1..(caughtAt - 1) = {}
      BY <2>1 DEF throw
    <3>2. DOMAIN stack' = {}
      BY <3>1
    <3>3. QED
      BY <3>1, <3>2 DEF FramesOK, busy, busyBelow
  <2>2. CASE caughtAt # 0
    <3> DEFINE s == SubSeq(stack, 1, caughtAt - 1)
    <3>1. PICK n \in 1..Len(stack) : n = caughtAt
      BY <1>3, <2>2
    <3>2. /\ s \in Seq(Frames) /\ Len(s) = n - 1
          /\ \A i \in 1..(n - 1) : i \in DOMAIN stack /\ s[i] = stack[i]
      BY <1>1, <3>1, Popped
    <3>3. n \in DOMAIN stack /\ n \in 1..(Len(stack) + 1)
      BY <1>3, <3>1
    <3>4. PICK f \in Frames : stack' = Append(s, f) /\ f.at = "catch"
      <4>1. stack' = Append(s, [stack[n] EXCEPT !.at = "catch"])
        BY <2>2, <3>1 DEF throw
      <4>2. LET f == [stack[n] EXCEPT !.at = "catch"] IN f \in Frames /\ f.at = "catch"
        BY <1>5, <3>3 DEF Frames
      <4>3. QED
        BY <4>1, <4>2
    <3>5. ~works(f) /\ FrameOK(f)'
      BY <3>4 DEF works, FrameOK
    <3>6. \A i \in 1..(n - 1), g \in Frames : g = stack[i] => FrameOK(g)'
      BY <1>7, <3>1
    <3> HIDE DEF s
    <3>7. FramesOK' /\ \A r : busy(r)' <=> busyBelow(n, r) \/ (works(f) /\ f.r = r)
      BY <1>1, <3>2, <3>3, <3>4, <3>5, <3>6, CountStacks
    <3>8. QED
      BY <3>1, <3>5, <3>7
  <2>3. QED
    BY <2>1, <2>2
<1>9. ASSUME NEW q
      PROVE  fireGlobals[q] => (busy(q) <=> busyBelow(caughtAt, q) \/ q \in cutNow)
  <2>1. \A i \in DOMAIN stack :
           works(stack[i]) => i \in 1..(caughtAt - 1) \/ i \in (caughtAt + 1)..Len(stack)
    <3>1. \A i \in DOMAIN stack : works(stack[i]) => i # caughtAt
      BY <1>3 DEF works
    <3>2. QED
      BY <1>3, <3>1
  <2>2. \A i \in 1..(caughtAt - 1) : i \in DOMAIN stack
    BY <1>3
  <2>3. QED
    BY <1>6, <2>1, <2>2 DEF busy, busyBelow
<1>10. ASSUME NEW q, q \in cutNow PROVE finished[q] # 0 /\ fireGlobals[q] /\ q \in Requests
  <2>1. PICK i \in DOMAIN stack : works(stack[i]) /\ stack[i].r = q /\ fireGlobals[q]
    BY <1>6, <1>10
  <2>2. QED
    BY <1>5, <2>1 DEF FrameOK, Frames
<1>11. RequestsOK'
  BY <1>1, <1>2, <1>4, <1>10 DEF RequestsOK, new
<1>12. counted' = counted
  <2>1. \A q \in Requests :
           fireGlobals[q] => (q \in cut' \/ busy(q)' <=> q \in cut \/ busy(q))
    BY <1>4, <1>8, <1>9
  <2>2. QED
    BY <1>2, <2>1 DEF counted
<1>13. QED
  BY <1>2, <1>8, <1>11, <1>12 DEF CountInv

LEMMA CountInit == Init => CountInv
<1> SUFFICES ASSUME Init PROVE CountInv
  OBVIOUS
<1>1. stack = <<>> /\ DOMAIN stack = {} /\ cut = {} /\ active = 0 /\ shown = FALSE
      /\ \A r \in Requests : state[r] = -1 /\ ~fireGlobals[r] /\ finished[r] = 0
  BY DEF Init
<1>2. counted = {}
  BY <1>1 DEF counted
<1>3. IsFiniteSet(counted) /\ Cardinality(counted) = 0
  BY <1>2, FS_EmptySet
<1>4. FramesOK
  BY <1>1 DEF FramesOK
<1>5. RequestsOK
  BY <1>1 DEF RequestsOK
<1>6. shown = (active > 0)
  <2>1. (active > 0) = FALSE
    BY <1>1
  <2>2. QED
    BY <1>1, <2>1
<1>7. QED
  BY <1>1, <1>3, <1>4, <1>5, <1>6 DEF CountInv

LEMMA CountNext == ~AbortsInSend /\ AjaxInv /\ CountInv /\ [Next]_vars => CountInv'
<1> SUFFICES ASSUME ~AbortsInSend, AjaxInv, CountInv, [Next]_vars PROVE CountInv'
  OBVIOUS
<1>1. CASE Return
  <2>1. CASE prefiltersReturn
    BY <2>1, PrefiltersCount
  <2>2. CASE \/ ajaxStartReturn \/ beforeSendReturn \/ ajaxSendReturn \/ sendReturn
             \/ scriptSend \/ sendThrows \/ sendDone \/ ajaxStopReturn
             \/ callbackReturn \/ outcomeReturn
    BY <2>2, ReturnsCount
  <2>3. CASE beforeSendRefuses \/ sendFromCache \/ catch
    BY <2>3, DoneCounts
  <2>4. CASE resolveWith \/ callNext
    BY <2>4, FiringCounts
  <2>5. CASE ajaxCompleteReturn
    BY <2>5, CompleteCounts
  <2>6. QED
    BY <1>1, <2>1, <2>2, <2>3, <2>4, <2>5 DEF Return
<1>2. CASE throw
  BY <1>2, ThrowCounts
<1>3. ASSUME NEW r \in Requests, callAjax(r) PROVE CountInv'
  BY <1>3, CallAjaxCounts
<1>4. ASSUME NEW r \in Requests, abort(r) \/ answer(r) \/ scriptLoaded(r) \/ timeout(r)
      PROVE  CountInv'
  BY <1>4, DoneCounts
<1>5. ASSUME NEW r \in Requests, NEW k \in Kinds, addLate(r, k) PROVE CountInv'
  BY <1>5, AddLateCounts
<1>6. CASE UNCHANGED vars
  BY <1>6 DEF vars, requestVars, historyVars, CountInv, FramesOK, RequestsOK, FrameOK,
              counted, busy, underWay, new
<1>7. QED
  BY <1>1, <1>2, <1>3, <1>4, <1>5, <1>6 DEF Next

-----------------------------------------------------------------------------
(***************************************************************************)
(* Where a counted request is that has not ended: in ajax, under way, or   *)
(* left there by an exception.                                             *)
(***************************************************************************)
inAjax(r) == \E i \in DOMAIN stack : stack[i].r = r /\ stack[i].at \in InAjax
topIs(r) == top.r = r /\ top.at \in InAjax

Placed(r) ==
    /\ finished[r] \in {0, 1} /\ (state[r] = 2 <=> finished[r] = 1)
    /\ underWay(r) => finished[r] = 0
    /\ r \in thrown => ~new(r) /\ ~inAjax(r) /\ ~underWay(r)
    /\ fireGlobals[r] /\ finished[r] = 0 => underWay(r) \/ r \in thrown \/ inAjax(r)
PlaceInv == cutAgain = {} /\ \A r \in Requests : Placed(r)

LEMMA AjaxBelow ==
    ASSUME stack \in Seq(Frames), stack # <<>>, StackOK, stack' = below
    PROVE  \A r : inAjax(r)' <=> inAjax(r) /\ ~topIs(r)
<1>1. stack' = SubSeq(stack, 1, Len(stack) - 1) /\ Len(stack) \in 1..Len(stack)
  BY TopFrame DEF below
<1> DEFINE D == 1..(Len(stack) - 1)
<1>2. DOMAIN stack' = D /\ \A i \in D : stack'[i] = stack[i]
  BY <1>1, Popped
<1>3. /\ DOMAIN stack = D \union {Len(stack)} /\ top = stack[Len(stack)]
      /\ \A i \in D : i \in DOMAIN stack /\ i # Len(stack)
  BY TopFrame
<1>4. \A i, j \in DOMAIN stack :
         stack[i].at \in InAjax /\ stack[j].at \in InAjax /\ stack[i].r = stack[j].r => i = j
  BY DEF StackOK
<1> HIDE DEF D
<1>5. QED
  BY <1>2, <1>3, <1>4 DEF inAjax, topIs

LEMMA AjaxGoesOn ==
    ASSUME stack \in Seq(Frames), stack # <<>>, StackOK,
           NEW f \in Frames, stack' = Append(below, f), f.r = top.r
    PROVE  \A r : inAjax(r)' <=> \/ inAjax(r) /\ ~topIs(r)
                                 \/ r = top.r /\ f.at \in InAjax
<1> DEFINE n == Len(stack)
           D == 1..(n - 1)
<1>1. n \in 1..n
  BY TopFrame
<1>2. below \in Seq(Frames) /\ Len(below) = n - 1
      /\ \A i \in D : below[i] = stack[i]
  BY <1>1, Popped DEF below
<1>3. n \in Nat /\ (n - 1) + 1 = n /\ 1..n = D \union {n}
  BY <1>1
<1>4. /\ DOMAIN stack' = D \union {n} /\ stack'[n] = f
      /\ \A i \in D : stack'[i] = below[i]
  <2>1. /\ DOMAIN stack' = 1..(Len(below) + 1) /\ stack'[Len(below) + 1] = f
        /\ \A i \in 1..Len(below) : stack'[i] = below[i]
    BY <1>2, Appended
  <2>2. QED
    BY <1>2, <1>3, <2>1
<1>5. /\ DOMAIN stack = D \union {n} /\ top = stack[n]
      /\ \A i \in D : i \in DOMAIN stack /\ i # n
  BY TopFrame
<1>6. \A i, j \in DOMAIN stack :
         stack[i].at \in InAjax /\ stack[j].at \in InAjax /\ stack[i].r = stack[j].r => i = j
  BY DEF StackOK
<1> HIDE DEF D, n
<1>7. QED
  BY <1>2, <1>4, <1>5, <1>6 DEF inAjax, topIs

LEMMA AjaxCalls ==
    ASSUME stack \in Seq(Frames), NEW f \in Frames, stack' = Append(stack, f)
    PROVE  \A r : inAjax(r)' <=> inAjax(r) \/ (r = f.r /\ f.at \in InAjax)
<1> DEFINE n == Len(stack) + 1
<1>1. /\ DOMAIN stack' = DOMAIN stack \union {n} /\ stack'[n] = f
      /\ \A i \in DOMAIN stack : stack'[i] = stack[i]
  <2>1. /\ DOMAIN stack' = 1..n /\ stack'[n] = f /\ DOMAIN stack = 1..Len(stack)
        /\ \A i \in 1..Len(stack) : stack'[i] = stack[i]
        /\ Len(stack) \in Nat
    BY Appended
  <2>2. 1..n = 1..Len(stack) \union {n}
    BY <2>1
  <2> HIDE DEF n
  <2>3. QED
    BY <2>1, <2>2
<1> HIDE DEF n
<1>2. QED
  BY <1>1 DEF inAjax

\* A step that starts, sends and ends no request.
LEMMA PlaceQuiet ==
    ASSUME PlaceInv, UNCHANGED <<state, transport, fireGlobals, finished, thrown, cutAgain>>,
           \A r \in Requests : /\ inAjax(r)' => inAjax(r)
                               /\ inAjax(r) /\ ~inAjax(r)' => state[r] = 2
    PROVE  PlaceInv'
<1>1. ASSUME NEW r \in Requests PROVE Placed(r)'
  <2>1. Placed(r)
    BY DEF PlaceInv
  <2>2. (inAjax(r)' => inAjax(r)) /\ (inAjax(r) /\ ~inAjax(r)' => finished[r] = 1)
    BY <2>1 DEF Placed
  <2>3. QED
    BY <2>1, <2>2 DEF Placed, underWay, new
<1>2. QED
  BY <1>1 DEF PlaceInv

\* The function on top goes on at another point; in ajax, if it was there.
LEMMA PlaceGoesOn ==
    ASSUME AjaxInv, stack # <<>>, NEW label, goto(label), label \in Labels,
           label \in InAjax <=> top.at \in InAjax
    PROVE  \A r \in Requests : inAjax(r)' <=> inAjax(r)
<1>1. stack \in Seq(Frames) /\ StackOK /\ top \in Frames /\ Len(stack) \in DOMAIN stack
      /\ top = stack[Len(stack)]
  BY TopRequest, TopFrame
<1>2. PICK f \in Frames : stack' = Append(below, f) /\ f.r = top.r /\ f.at = label
  <2>1. LET f == [top EXCEPT !.at = label] IN f \in Frames /\ f.r = top.r /\ f.at = label
    BY <1>1 DEF Frames
  <2>2. QED
    BY <2>1 DEF goto
<1>3. \A r : inAjax(r)' <=> \/ inAjax(r) /\ ~topIs(r)
                            \/ r = top.r /\ f.at \in InAjax
  BY <1>1, <1>2, AjaxGoesOn
<1>4. \A r : topIs(r) => inAjax(r)
  BY <1>1 DEF topIs, inAjax
<1>5. QED
  BY <1>2, <1>3, <1>4 DEF topIs

\* The steps that start, send and end no request.
LEMMA QuietPlaces ==
    ASSUME AjaxInv, PlaceInv,
           \/ ajaxStartReturn \/ sendThrows \/ sendDone \/ ajaxStopReturn
           \/ callbackReturn \/ outcomeReturn \/ ajaxCompleteReturn
           \/ resolveWith \/ callNext
    PROVE  PlaceInv'
<1> USE DEF InAjax, InFiring, Labels, UserCode
<1>1. stack # <<>> /\ UNCHANGED <<state, transport, fireGlobals, finished, thrown, cutAgain>>
  BY DEF ajaxStartReturn, sendThrows, sendDone, ajaxStopReturn, callbackReturn,
         outcomeReturn, ajaxCompleteReturn, resolveWith, callNext, at, requestVars,
         historyVars
<1>2. stack \in Seq(Frames) /\ StackOK /\ top \in Frames
  BY <1>1, TopRequest
<1>3. CASE /\ stack' = below
           /\ top.at \in InAjax => state[top.r] = 2
  <2>1. \A r : inAjax(r)' <=> inAjax(r) /\ ~topIs(r)
    BY <1>1, <1>2, <1>3, AjaxBelow
  <2>2. \A r \in Requests : /\ inAjax(r)' => inAjax(r)
                            /\ inAjax(r) /\ ~inAjax(r)' => state[r] = 2
    BY <1>3, <2>1 DEF topIs
  <2>3. QED
    BY <1>1, <2>2, PlaceQuiet
<1>4. ASSUME NEW label \in Labels, goto(label), label \in InAjax <=> top.at \in InAjax
      PROVE  PlaceInv'
  <2>1. \A r \in Requests : inAjax(r)' <=> inAjax(r)
    BY <1>1, <1>4, PlaceGoesOn
  <2>2. QED
    BY <1>1, <2>1, PlaceQuiet
<1>5. CASE ajaxStartReturn
  BY <1>4, <1>5 DEF ajaxStartReturn, at
<1>6. CASE sendThrows
  BY <1>4, <1>6 DEF sendThrows, at
<1>7. CASE sendDone \/ ajaxStopReturn
  BY <1>3, <1>7 DEF sendDone, ajaxStopReturn, at
<1>8. CASE callbackReturn
  BY <1>4, <1>8 DEF callbackReturn, at
<1>9. CASE outcomeReturn
  <2>1. top.at = "outcome"
        /\ stack' = Append(below, [top EXCEPT !.at = "resolve", !.kind = "complete"])
    BY <1>9 DEF outcomeReturn, at
  <2>2. PICK f \in Frames : stack' = Append(below, f) /\ f.r = top.r /\ f.at = "resolve"
    <3>1. LET f == [top EXCEPT !.at = "resolve", !.kind = "complete"] IN
          f \in Frames /\ f.r = top.r /\ f.at = "resolve"
      BY <1>2 DEF Frames, Kinds
    <3>2. QED
      BY <2>1, <3>1
  <2>3. \A r : inAjax(r)' <=> inAjax(r)
    BY <1>1, <1>2, <2>1, <2>2, AjaxGoesOn DEF topIs
  <2>4. QED
    BY <1>1, <2>3, PlaceQuiet
<1>10. CASE ajaxCompleteReturn
  <2>1. top.at = "ajaxComplete" /\ (stack' = below \/ goto("ajaxStop"))
    BY <1>10 DEF ajaxCompleteReturn, at
  <2>2. QED
    BY <1>3, <1>4, <2>1
<1>11. CASE resolveWith \/ callNext
  <2>1. top.at \in {"resolve", "firing"}
        /\ (stack' = below \/ \E label \in {"firing", "callback", "outcome", "ajaxComplete"} :
                                 goto(label))
    BY <1>11 DEF resolveWith, callNext, at, afterFiring
  <2>2. QED
    BY <1>3, <1>4, <2>1
<1>12. QED
  BY <1>5, <1>6, <1>7, <1>8, <1>9, <1>10, <1>11

\* ajax is called, and goes on up to the sending.
LEMMA AjaxPlaces ==
    ASSUME AjaxInv, CountInv, PlaceInv,
           \/ \E r \in Requests : callAjax(r)
           \/ prefiltersReturn \/ beforeSendReturn \/ ajaxSendReturn
           \/ sendReturn \/ scriptSend
    PROVE  PlaceInv'
<1> USE DEF InAjax, InFiring, Labels, UserCode
<1>1. UNCHANGED <<finished, thrown, cutAgain>>
  BY DEF callAjax, prefiltersReturn, beforeSendReturn, ajaxSendReturn, sendReturn,
         scriptSend, historyVars
<1>2. TypeOK /\ stack \in Seq(Frames) /\ \A r \in Requests : Placed(r)
  BY DEF AjaxInv, TypeOK, PlaceInv
<1>3. ASSUME NEW q \in Requests, callAjax(q) PROVE PlaceInv'
  <2>1. /\ UNCHANGED <<transport, fireGlobals>> /\ new(q)
        /\ state' = [state EXCEPT ![q] = 0] /\ stack' = Append(stack, frame("prefilter", q))
    BY <1>3 DEF callAjax
  <2>2. PICK f \in Frames : stack' = Append(stack, f) /\ f.at = "prefilter" /\ f.r = q
    <3>1. frame("prefilter", q) \in Frames /\ frame("prefilter", q).at = "prefilter"
          /\ frame("prefilter", q).r = q
      BY DEF frame, Frames, Kinds
    <3>2. QED
      BY <2>1, <3>1
  <2>3. \A r : inAjax(r)' <=> inAjax(r) \/ r = q
    BY <1>2, <2>2, AjaxCalls
  <2>4. ASSUME NEW r \in Requests PROVE Placed(r)'
    <3>1. Placed(r)
      BY <1>2
    <3>2. CASE r = q
      <4>1. state[r] = -1 /\ state'[r] = 0
        BY <1>2, <2>1, <3>2 DEF TypeOK, new
      <4>2. QED
        BY <1>1, <2>1, <2>3, <3>1, <3>2, <4>1 DEF Placed, underWay, new
    <3>3. CASE r # q
      BY <1>1, <1>2, <2>1, <2>3, <3>1, <3>3 DEF Placed, underWay, new, TypeOK
    <3>4. QED
      BY <3>2, <3>3
  <2>5. QED
    BY <1>1, <2>4 DEF PlaceInv
<1>4. ASSUME NEW q \in Requests, stack # <<>>, q = top.r, top.at \in InAjax
      PROVE  /\ inAjax(q) /\ q \notin thrown /\ ~new(q) /\ StackOK /\ top \in Frames
             /\ FrameOK(top)
  <2>1. /\ StackOK /\ top \in Frames /\ ~new(q) /\ FrameOK(top)
        /\ Len(stack) \in DOMAIN stack /\ top = stack[Len(stack)]
    BY <1>4, TopRequest, TopFrame, TopOK
  <2>2. inAjax(q)
    BY <1>4, <2>1 DEF inAjax
  <2>3. QED
    BY <1>2, <2>1, <2>2 DEF Placed
<1>5. CASE prefiltersReturn
  <2>1. stack # <<>> /\ top.at = "prefilter" /\ UNCHANGED <<state, transport>>
    BY <1>5 DEF prefiltersReturn, at
  <2>2. PICK q \in Requests : q = top.r
    BY <2>1, TopRequest
  <2>3. inAjax(q) /\ StackOK /\ top \in Frames
    BY <1>4, <2>1, <2>2
  <2>4. CASE state[q] = 2
    <3>1. UNCHANGED fireGlobals /\ stack' = below
      BY <1>5, <2>2, <2>4 DEF prefiltersReturn
    <3>2. \A r : inAjax(r)' <=> inAjax(r) /\ ~topIs(r)
      BY <1>2, <2>1, <2>3, <3>1, AjaxBelow
    <3>3. \A r \in Requests : /\ inAjax(r)' => inAjax(r)
                              /\ inAjax(r) /\ ~inAjax(r)' => state[r] = 2
      BY <2>2, <2>4, <3>2 DEF topIs
    <3>4. QED
      BY <1>1, <2>1, <3>1, <3>3, PlaceQuiet
  <2>5. CASE state[q] # 2
    <3>1. PICK label \in {"ajaxStart", "beforeSend"} : goto(label)
      BY <1>5, <2>2, <2>5 DEF prefiltersReturn, countRequest
    <3>2. \A r \in Requests : inAjax(r)' <=> inAjax(r)
      BY <2>1, <3>1, PlaceGoesOn
    <3>3. PICK b \in BOOLEAN : fireGlobals' = [fireGlobals EXCEPT ![q] = b]
      BY <1>5, <2>2, <2>5 DEF prefiltersReturn, scriptPrefilter
    <3>4. \A r \in Requests \ {q} : fireGlobals'[r] = fireGlobals[r]
      BY <1>2, <3>3 DEF TypeOK
    <3>5. ASSUME NEW r \in Requests PROVE Placed(r)'
      <4>1. Placed(r) /\ (inAjax(r)' <=> inAjax(r))
        BY <1>2, <3>2
      <4>2. CASE r = q
        BY <1>1, <2>1, <2>3, <4>1, <4>2 DEF Placed, underWay, new
      <4>3. CASE r # q
        BY <1>1, <2>1, <3>4, <4>1, <4>3 DEF Placed, underWay, new
      <4>4. QED
        BY <4>2, <4>3
    <3>6. QED
      BY <1>1, <3>5 DEF PlaceInv
  <2>6. QED
    BY <2>4, <2>5
<1>6. CASE beforeSendReturn
  <2>1. stack # <<>> /\ top.at = "beforeSend" /\ UNCHANGED <<state, fireGlobals>>
    BY <1>6 DEF beforeSendReturn, at
  <2>2. PICK q \in Requests : q = top.r
    BY <2>1, TopRequest
  <2>3. inAjax(q) /\ q \notin thrown
    BY <1>4, <2>1, <2>2
  <2>4. PICK t \in inspectPrefiltersOrTransports(q) :
           /\ transport' = [transport EXCEPT ![q] = t]
           /\ \E label \in {"catch", "ajaxSend", "unannounced"} : goto(label)
    BY <1>6, <2>2 DEF beforeSendReturn
  <2>5. \A r \in Requests : inAjax(r)' <=> inAjax(r)
    BY <2>1, <2>4, PlaceGoesOn
  <2>6. ASSUME NEW r \in Requests PROVE Placed(r)'
    <3>1. Placed(r) /\ (inAjax(r)' <=> inAjax(r))
      BY <1>2, <2>5
    <3>2. CASE r = q
      <4>1. ~underWay(r)'
        BY <1>2, <2>4, <3>2 DEF underWay, inspectPrefiltersOrTransports, TypeOK
      <4>2. QED
        BY <1>1, <2>1, <2>3, <3>1, <3>2, <4>1 DEF Placed, new
    <3>3. CASE r # q
      <4>1. transport'[r] = transport[r]
        BY <1>2, <2>4, <3>3 DEF TypeOK
      <4>2. QED
        BY <1>1, <2>1, <3>1, <4>1 DEF Placed, underWay, new
    <3>4. QED
      BY <3>2, <3>3
  <2>7. QED
    BY <1>1, <2>6 DEF PlaceInv
<1>7. CASE ajaxSendReturn
  <2>1. stack # <<>> /\ top.at \in {"ajaxSend", "unannounced"} /\ goto("send")
        /\ UNCHANGED <<transport, fireGlobals>> /\ state' = [state EXCEPT ![top.r] = 1]
    BY <1>7 DEF ajaxSendReturn, at
  <2>2. PICK q \in Requests : q = top.r
    BY <2>1, TopRequest
  <2>3. finished[q] = 0 /\ ~new(q)
    BY <1>4, <2>1, <2>2 DEF FrameOK, Early
  <2>4. \A r \in Requests : inAjax(r)' <=> inAjax(r)
    BY <2>1, PlaceGoesOn
  <2>5. ASSUME NEW r \in Requests PROVE Placed(r)'
    <3>1. Placed(r) /\ (inAjax(r)' <=> inAjax(r))
      BY <1>2, <2>4
    <3>2. CASE r = q
      <4>1. state'[r] = 1
        BY <1>2, <2>1, <2>2, <3>2 DEF TypeOK
      <4>2. QED
        BY <1>1, <2>1, <2>3, <3>1, <3>2, <4>1 DEF Placed, underWay, new
    <3>3. CASE r # q
      <4>1. state'[r] = state[r]
        BY <1>2, <2>1, <2>2, <3>3 DEF TypeOK
      <4>2. QED
        BY <1>1, <2>1, <3>1, <4>1 DEF Placed, underWay, new
    <3>4. QED
      BY <3>2, <3>3
  <2>6. QED
    BY <1>1, <2>5 DEF PlaceInv
<1>8. CASE sendReturn \/ scriptSend
  <2>1. PICK t \in {"sent", "loading"} : transport' = [transport EXCEPT ![top.r] = t]
    BY <1>8 DEF sendReturn, scriptSend
  <2>2. stack # <<>> /\ top.at = "send" /\ state[top.r] = 1 /\ stack' = below
        /\ UNCHANGED <<state, fireGlobals>>
    BY <1>8 DEF sendReturn, scriptSend, at
  <2>3. PICK q \in Requests : q = top.r
    BY <2>2, TopRequest
  <2>4. q \notin thrown /\ StackOK
    BY <1>4, <2>2, <2>3
  <2>5. \A r : inAjax(r)' <=> inAjax(r) /\ ~topIs(r)
    BY <1>2, <2>2, <2>4, AjaxBelow
  <2>6. ASSUME NEW r \in Requests PROVE Placed(r)'
    <3>1. Placed(r)
      BY <1>2
    <3>2. CASE r = q
      <4>1. underWay(r)' /\ finished[r] = 0
        BY <1>2, <2>1, <2>2, <2>3, <3>1, <3>2 DEF underWay, TypeOK, Placed
      <4>2. QED
        BY <1>1, <2>2, <2>4, <3>1, <3>2, <4>1 DEF Placed, new
    <3>3. CASE r # q
      <4>1. transport'[r] = transport[r] /\ (inAjax(r)' <=> inAjax(r))
        BY <1>2, <2>1, <2>3, <2>5, <3>3 DEF TypeOK, topIs
      <4>2. QED
        BY <1>1, <2>2, <3>1, <4>1 DEF Placed, underWay, new
    <3>4. QED
      BY <3>2, <3>3
  <2>7. QED
    BY <1>1, <2>6 DEF PlaceInv
<1>9. QED
  BY <1>3, <1>5, <1>6, <1>7, <1>8

\* done is called.
LEMMA FinishPlaces ==
    ASSUME AjaxInv, PlaceInv, NEW r \in Requests, NEW ok, NEW base, finish(r, ok, base),
           base = stack \/ (base = below /\ stack # <<>> /\ top.r = r)
    PROVE  PlaceInv'
<1> USE DEF InAjax, InFiring, Labels, UserCode
<1>1. TypeOK /\ stack \in Seq(Frames) /\ StackOK /\ \A q \in Requests : Placed(q)
  BY DEF AjaxInv, TypeOK, PlaceInv
<1>2. CASE state[r] = 2
  <2>1. UNCHANGED <<state, transport, fireGlobals, finished, thrown, cutAgain>> /\ stack' = base
    BY <1>2 DEF finish, requestVars, historyVars
  <2>2. CASE stack' = stack
    BY <2>1, <2>2, PlaceQuiet DEF inAjax
  <2>3. CASE stack' = below /\ stack # <<>> /\ top.r = r
    <3>1. \A q : inAjax(q)' <=> inAjax(q) /\ ~topIs(q)
      BY <1>1, <2>3, AjaxBelow
    <3>2. QED
      BY <1>2, <2>1, <2>3, <3>1, PlaceQuiet DEF topIs
  <2>4. QED
    BY <2>1, <2>2, <2>3
<1>3. CASE state[r] # 2
  <2>1. /\ UNCHANGED <<fireGlobals, thrown, cutAgain>>
        /\ state' = [state EXCEPT ![r] = 2]
        /\ transport' = [transport EXCEPT ![r] = "none"]
        /\ finished' = [finished EXCEPT ![r] = @ + 1]
        /\ \E k \in Main : stack' = Append(base, [frame("resolve", r) EXCEPT !.kind = k])
    BY <1>3 DEF finish, Main
  <2>2. finished[r] = 0
    BY <1>1, <1>3 DEF Placed
  <2>3. /\ finished'[r] = 1 /\ state'[r] = 2 /\ ~underWay(r)'
        /\ \A q \in Requests \ {r} :
              UNCHANGED <<finished[q], state[q], transport[q]>>
    BY <1>1, <2>1, <2>2 DEF TypeOK, underWay
  <2>4. PICK f \in Frames : stack' = Append(base, f) /\ f.at = "resolve" /\ f.r = r
    <3>1. PICK k \in Main : stack' = Append(base, [frame("resolve", r) EXCEPT !.kind = k])
      BY <2>1
    <3>2. LET f == [frame("resolve", r) EXCEPT !.kind = k] IN
          f \in Frames /\ f.at = "resolve" /\ f.r = r
      BY DEF frame, Frames, Main, Kinds
    <3>3. QED
      BY <3>1, <3>2
  <2>5. \A q \in Requests : /\ inAjax(q)' => inAjax(q)
                            /\ q # r => (inAjax(q) => inAjax(q)')
    <3>1. CASE base = stack
      BY <1>1, <2>4, <3>1, AjaxCalls
    <3>2. CASE base = below /\ stack # <<>> /\ top.r = r
      BY <1>1, <2>4, <3>2, AjaxGoesOn DEF topIs
    <3>3. QED
      BY <3>1, <3>2
  <2>6. ASSUME NEW q \in Requests PROVE Placed(q)'
    <3>1. Placed(q) /\ (inAjax(q)' => inAjax(q))
      BY <1>1, <2>5
    <3>2. CASE q = r
      BY <2>1, <2>3, <3>1, <3>2 DEF Placed, new
    <3>3. CASE q # r
      <4>1. UNCHANGED <<finished[q], state[q], transport[q]>> /\ (inAjax(q)' <=> inAjax(q))
        BY <2>3, <2>5, <3>3
      <4>2. QED
        BY <2>1, <3>1, <4>1 DEF Placed, underWay, new
    <3>4. QED
      BY <3>2, <3>3
  <2>7. QED
    BY <2>1, <2>6 DEF PlaceInv
<1>4. QED
  BY <1>2, <1>3

\* An exception leaves requests in ajax, which are then known as thrown.
LEMMA ThrowPlaces ==
    ASSUME AjaxInv, CountInv, PlaceInv, throw
    PROVE  PlaceInv'
<1> USE DEF InAjax, InFiring, Labels, UserCode, Early
<1> DEFINE n == caughtAt
           gone(r) == \E i \in (n + 1)..Len(stack) : stack[i].r = r /\ stack[i].at \in InAjax
           kept(r) == \E i \in 1..n : stack[i].r = r /\ stack[i].at \in InAjax
<1>1. /\ TypeOK /\ stack \in Seq(Frames) /\ StackOK /\ FramesOK /\ \A q \in Requests : Placed(q)
      /\ stack # <<>> /\ top.at \in UserCode
      /\ UNCHANGED <<state, transport, fireGlobals, finished>>
  BY DEF AjaxInv, TypeOK, CountInv, PlaceInv, throw
<1>2. n \in 0..Len(stack) /\ Len(stack) \in Nat /\ DOMAIN stack = 1..Len(stack)
      /\ (n # 0 => n \in 1..Len(stack) /\ stack[n].at = "send")
  BY <1>1, CaughtAt
<1>3. \A i \in (n + 1)..Len(stack) :
         /\ i \in DOMAIN stack /\ FrameOK(stack[i]) /\ stack[i] \in Frames
         /\ stack[i].at \in InAjax <=> beforeSending(stack[i])
  <2>1. SUFFICES ASSUME NEW i \in (n + 1)..Len(stack)
                 PROVE  /\ i \in DOMAIN stack /\ FrameOK(stack[i]) /\ stack[i] \in Frames
                        /\ stack[i].at \in InAjax <=> beforeSending(stack[i])
    OBVIOUS
  <2>2. i \in DOMAIN stack /\ i \in 1..Len(stack)
    BY <1>2
  <2>3. stack[i].at \in UserCode \union {"send"}
    BY <1>1, <1>2, <2>2, TopFrame
  <2>4. stack[i].at # "send"
    <3>1. SUFFICES ASSUME stack[i].at = "send" PROVE FALSE
      OBVIOUS
    <3>2. i \in inTry
      BY <2>2, <3>1 DEF inTry
    <3>3. inTry \in SUBSET (1..Len(stack))
      BY <1>2 DEF inTry
    <3>4. \E k \in inTry : \A j \in inTry : j <= k
      BY <1>2, <3>2, <3>3, Greatest
    <3>5. n \in inTry /\ \A j \in inTry : j <= n
      BY <3>2, <3>4 DEF caughtAt
    <3>6. i <= n
      BY <3>2, <3>5
    <3>7. QED
      BY <1>2, <2>1, <3>6
  <2>5. QED
    BY <1>1, <2>2, <2>3, <2>4 DEF beforeSending, FramesOK
<1>4. thrown' = thrown \union {f.r : f \in {g \in unwound : beforeSending(g)}}
  BY DEF throw
<1>5. \A r : r \in thrown' <=> r \in thrown \/ gone(r)
  <2>1. unwound = {stack[i] : i \in (n + 1)..Len(stack)}
    BY DEF unwound
  <2> HIDE DEF n
  <2>2. QED
    BY <1>3, <1>4, <2>1
<1>6. \A r : /\ inAjax(r) <=> gone(r) \/ kept(r)
             /\ ~(gone(r) /\ kept(r))
  <2>1. /\ DOMAIN stack = 1..n \union (n + 1)..Len(stack)
        /\ \A i \in 1..n, j \in (n + 1)..Len(stack) : i # j
    BY <1>2
  <2>2. \A i, j \in DOMAIN stack :
           stack[i].at \in InAjax /\ stack[j].at \in InAjax /\ stack[i].r = stack[j].r => i = j
    BY <1>1 DEF StackOK
  <2> HIDE DEF n
  <2>3. QED
    BY <2>1, <2>2 DEF inAjax
<1>7. \A r : inAjax(r)' <=> kept(r)
  <2>1. CASE n = 0
    <3>1. stack' = <<>> /\ 1..n = {}
      BY <2>1 DEF throw
    <3>2. DOMAIN stack' = {}
      BY <3>1
    <3>3. QED
      BY <3>1, <3>2 DEF inAjax
  <2>2. CASE n # 0
    <3>1. PICK m \in 1..Len(stack) : m = n
      BY <1>2, <2>2
    <3> DEFINE s == SubSeq(stack, 1, m - 1)
               f == [stack[m] EXCEPT !.at = "catch"]
               D == 1..(m - 1)
    <3>2. s \in Seq(Frames) /\ Len(s) = m - 1 /\ \A i \in D : s[i] = stack[i]
      BY <1>1, Popped
    <3>3. stack[m] \in Frames /\ stack[m].at = "send" /\ m \in Nat
      BY <1>1, <1>2, <3>1
    <3>4. f \in Frames /\ f.r = stack[m].r /\ f.at = "catch"
      BY <3>3 DEF Frames
    <3>5. stack' = Append(s, f)
      BY <2>2, <3>1 DEF throw
    <3>6. 1..m = D \union {m} /\ (m - 1) + 1 = m
      BY <3>3
    <3> HIDE DEF s, f
    <3>7. DOMAIN stack' = 1..m /\ stack'[m] = f /\ \A i \in D : stack'[i] = stack[i]
      <4>1. /\ DOMAIN stack' = 1..(Len(s) + 1) /\ stack'[Len(s) + 1] = f
            /\ \A i \in 1..Len(s) : stack'[i] = s[i]
        BY <3>2, <3>4, <3>5, Appended
      <4>2. QED
        BY <3>2, <3>6, <4>1
    <3> HIDE DEF D
    <3>8. \A i \in 1..m : stack'[i].r = stack[i].r /\ (stack'[i].at \in InAjax <=> stack[i].at \in InAjax)
      BY <3>3, <3>4, <3>6, <3>7
    <3>9. DOMAIN stack' = 1..n
      BY <3>1, <3>7
    <3> HIDE DEF n
    <3>10. QED
      BY <3>1, <3>8, <3>9 DEF inAjax
  <2>3. QED
    BY <2>1, <2>2
<1>8. ASSUME NEW r \in Requests, gone(r) PROVE ~underWay(r) /\ ~new(r)
  <2>1. PICK i \in (n + 1)..Len(stack) : stack[i].r = r /\ stack[i].at \in InAjax
    BY <1>8
  <2>2. stack[i].at \in {"prefilter", "ajaxStart", "beforeSend", "ajaxSend"} /\ FrameOK(stack[i])
        /\ i \in DOMAIN stack
    BY <1>3, <2>1 DEF beforeSending
  <2>3. ~new(r)
    BY <2>1, <2>2 DEF AjaxInv, Begun, Unknown, named
  <2>4. CASE stack[i].at = "ajaxSend"
    BY <2>1, <2>2, <2>3, <2>4 DEF FrameOK
  <2>5. CASE stack[i].at # "ajaxSend"
    <3>1. prepares(r)
      BY <2>1, <2>2, <2>5 DEF prepares, Preparing
    <3>2. QED
      BY <2>3, <3>1 DEF AjaxInv, Begun, Unanswered, underWay
  <2>6. QED
    BY <2>4, <2>5
<1>9. cutAgain' = {}
  <2>1. cut \intersect cutNow = {}
    <3>1. SUFFICES ASSUME NEW f \in unwound, inDone(f) PROVE f.r \notin cut
      BY DEF cutNow
    <3>2. PICK i \in (n + 1)..Len(stack) : f = stack[i]
      BY DEF unwound
    <3>3. FrameOK(f) /\ works(f)
      BY <1>3, <3>1, <3>2 DEF works, inDone
    <3>4. QED
      BY <3>3 DEF FrameOK
  <2>2. QED
    BY <2>1 DEF throw, PlaceInv
<1> HIDE DEF n, gone, kept
<1>10. ASSUME NEW r \in Requests PROVE Placed(r)'
  <2>1. Placed(r)
    BY <1>1
  <2>2. underWay(r)' = underWay(r) /\ new(r)' = new(r)
    BY <1>1 DEF underWay, new
  <2>3. QED
    BY <1>1, <1>5, <1>6, <1>7, <1>8, <2>1, <2>2 DEF Placed
<1>11. QED
  BY <1>9, <1>10 DEF PlaceInv

LEMMA AddLatePlaces ==
    ASSUME AjaxInv, PlaceInv, NEW q \in Requests, NEW k \in Kinds, addLate(q, k)
    PROVE  PlaceInv'
<1>1. UNCHANGED <<state, transport, fireGlobals, finished, thrown, cutAgain>>
  BY DEF addLate
<1>2. \A r : inAjax(r)' <=> inAjax(r)
  <2>1. CASE UNCHANGED stack
    BY <2>1 DEF inAjax
  <2>2. CASE stack' = Append(stack, [at |-> "firing", r |-> q, kind |-> k, again |-> TRUE])
    <3>1. PICK f \in Frames : stack' = Append(stack, f) /\ f.at = "firing"
      <4>1. [at |-> "firing", r |-> q, kind |-> k, again |-> TRUE] \in Frames
        BY DEF Frames, Labels, InFiring
      <4>2. QED
        BY <2>2, <4>1
    <3>2. stack \in Seq(Frames) /\ f.at \notin InAjax
      BY <3>1 DEF AjaxInv, TypeOK, InAjax
    <3>3. QED
      BY <3>1, <3>2, AjaxCalls
  <2>3. QED
    BY <2>1, <2>2 DEF addLate
<1>3. QED
  BY <1>1, <1>2, PlaceQuiet

LEMMA PlaceInit == Init => PlaceInv
<1> SUFFICES ASSUME Init PROVE PlaceInv
  OBVIOUS
<1>1. /\ cutAgain = {} /\ thrown = {}
      /\ \A r \in Requests : /\ state[r] = -1 /\ ~fireGlobals[r] /\ finished[r] = 0
                             /\ transport[r] = "none"
  BY DEF Init
<1>2. QED
  BY <1>1 DEF PlaceInv, Placed, underWay

LEMMA PlaceNext == AjaxInv /\ CountInv /\ PlaceInv /\ [Next]_vars => PlaceInv'
<1> SUFFICES ASSUME AjaxInv, CountInv, PlaceInv, [Next]_vars PROVE PlaceInv'
  OBVIOUS
<1>1. CASE Return
  <2>1. CASE \/ ajaxStartReturn \/ sendThrows \/ sendDone \/ ajaxStopReturn
             \/ callbackReturn \/ outcomeReturn \/ ajaxCompleteReturn
             \/ resolveWith \/ callNext
    BY <2>1, QuietPlaces
  <2>2. CASE \/ prefiltersReturn \/ beforeSendReturn \/ ajaxSendReturn
             \/ sendReturn \/ scriptSend
    BY <2>2, AjaxPlaces
  <2>3. CASE beforeSendRefuses \/ sendFromCache \/ catch
    <3>1. stack # <<>> /\ \E ok, base : finish(top.r, ok, base) /\ base \in {stack, below}
      BY <2>3 DEF beforeSendRefuses, sendFromCache, catch, at
    <3>2. PICK r \in Requests : r = top.r
      BY <3>1, TopRequest
    <3>3. PICK ok, base : finish(r, ok, base) /\ base \in {stack, below}
      BY <3>1, <3>2
    <3>4. base = stack \/ (base = below /\ stack # <<>> /\ top.r = r)
      BY <3>1, <3>2, <3>3
    <3>5. QED
      BY <3>3, <3>4, FinishPlaces
  <2>4. QED
    BY <1>1, <2>1, <2>2, <2>3 DEF Return
<1>2. CASE throw
  BY <1>2, ThrowPlaces
<1>3. ASSUME NEW r \in Requests, callAjax(r) PROVE PlaceInv'
  BY <1>3, AjaxPlaces
<1>4. ASSUME NEW r \in Requests, abort(r) \/ answer(r) \/ scriptLoaded(r) \/ timeout(r)
      PROVE  PlaceInv'
  <2>1. PICK ok : finish(r, ok, stack)
    BY <1>4 DEF abort, answer, scriptLoaded, timeout
  <2>2. QED
    BY <2>1, FinishPlaces
<1>5. ASSUME NEW r \in Requests, NEW k \in Kinds, addLate(r, k) PROVE PlaceInv'
  BY <1>5, AddLatePlaces
<1>6. CASE UNCHANGED vars
  BY <1>6, PlaceQuiet DEF vars, requestVars, historyVars, inAjax
<1>7. QED
  BY <1>1, <1>2, <1>3, <1>4, <1>5, <1>6 DEF Next

\* Between events no done and no ajax is on the stack: a counted request is under
\* way, or was left unsent, or was cut, and only one of these.
LEMMA CountedIdle ==
    ASSUME AjaxInv, CountInv, PlaceInv
    PROVE  ActiveCount
<1> SUFFICES ASSUME stack = <<>>
             PROVE  /\ active = Cardinality(sent) + Cardinality(leftUnsent) + Cardinality(cut)
                                  + Cardinality(cutAgain) - Cardinality(endedTwice)
                    /\ shown = (active > 0)
  BY DEF ActiveCount
<1>1. /\ IsFiniteSet(counted) /\ active = Cardinality(counted) /\ shown = (active > 0)
      /\ RequestsOK /\ TypeOK /\ \A r \in Requests : Placed(r)
  BY DEF CountInv, AjaxInv, PlaceInv
<1>2. \A r : ~busy(r) /\ ~inAjax(r)
  BY DEF busy, inAjax
<1>3. endedTwice = {} /\ cutAgain = {}
  BY <1>1 DEF endedTwice, Placed, PlaceInv
<1> DEFINE open == sent \union leftUnsent
<1>4. counted = open \union cut /\ open \intersect cut = {} /\ sent \intersect leftUnsent = {}
  <2>1. \A r \in Requests : r \in counted <=> r \in open \/ r \in cut
    BY <1>1, <1>2 DEF counted, sent, leftUnsent, Placed, RequestsOK
  <2>2. counted \subseteq Requests /\ open \subseteq Requests /\ cut \subseteq Requests
    BY <1>1 DEF counted, sent, leftUnsent, TypeOK
  <2>3. \A r \in Requests : ~(r \in open /\ r \in cut) /\ ~(r \in sent /\ r \in leftUnsent)
    BY <1>1 DEF sent, leftUnsent, Placed, RequestsOK
  <2>4. sent \subseteq Requests
    BY DEF sent
  <2> HIDE DEF open
  <2>5. QED
    BY <2>1, <2>2, <2>3, <2>4
<1>5. open \in SUBSET counted /\ cut \in SUBSET counted
      /\ sent \in SUBSET counted /\ leftUnsent \in SUBSET counted
  BY <1>4
<1>6. IsFiniteSet(open) /\ IsFiniteSet(cut) /\ IsFiniteSet(sent) /\ IsFiniteSet(leftUnsent)
  BY <1>1, <1>5, FS_Subset
<1>7. Cardinality(open \union cut) =
         Cardinality(open) + Cardinality(cut) - Cardinality(open \intersect cut)
  <2> HIDE DEF open
  <2>1. QED
    BY <1>6, FS_Union
<1>8. Cardinality(open) =
         Cardinality(sent) + Cardinality(leftUnsent) - Cardinality(sent \intersect leftUnsent)
  BY <1>6, FS_Union
<1>9. /\ Cardinality(open \intersect cut) = 0 /\ Cardinality(sent \intersect leftUnsent) = 0
      /\ Cardinality(cutAgain) = 0 /\ Cardinality(endedTwice) = 0
  BY <1>3, <1>4, FS_EmptySet
<1>10. /\ Cardinality(open) \in Nat /\ Cardinality(cut) \in Nat
       /\ Cardinality(sent) \in Nat /\ Cardinality(leftUnsent) \in Nat
  BY <1>6, FS_CardinalityType
<1> HIDE DEF open
<1>11. QED
  BY <1>1, <1>4, <1>7, <1>8, <1>9, <1>10

\* When no request is aborted before it is sent, jQuery.active is, between
\* events, the number of requests under way, of those that an exception of the
\* application left in ajax before the sending, and of those whose done one has
\* left: nothing else is counted and nothing is taken off twice.  ajaxStart has
\* been triggered without ajaxStop exactly while the count is above zero
\* (jquery.js:7256-7259, 7187-7190).
THEOREM AjaxCounts == ASSUME ~AbortsInSend PROVE Spec => []ActiveCount
<1>1. AjaxInv /\ CountInv /\ PlaceInv => ActiveCount
  BY CountedIdle
<1>2. ~AbortsInSend /\ AjaxInv /\ CountInv /\ [Next]_vars => CountInv'
  BY CountNext
<1>3. AjaxInv /\ CountInv /\ [Next]_vars => CountInv'
  BY <1>2
<1>4. AjaxInv /\ CountInv /\ PlaceInv /\ [Next]_vars => PlaceInv'
  BY PlaceNext
<1>5. QED
  BY <1>1, <1>3, <1>4, AjaxInvariant, CountInit, PlaceInit, PTL DEF Spec

=============================================================================
