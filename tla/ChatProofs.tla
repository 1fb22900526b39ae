----------------------------- MODULE ChatProofs -----------------------------
(***************************************************************************)
(* The chat for any pages and any number of joins and leaves, whichever    *)
(* messages overtake others on their way to a page.                        *)
(*                                                                         *)
(* That a page stays in the room until its user leaves rests on where its  *)
(* own leave messages are: one at most is under way for each call, so that *)
(* none is left over when the page joins again.                            *)
(***************************************************************************)
EXTENDS Chat, SequenceTheorems, TLAPS

\* The messages on their way to a page.
queue(p) == inbox[p] \o held[p]

IsOwn(c, p) == c.type = "leave" /\ c.from = name(p)
LeavesIn(s, p) == {k \in DOMAIN s : IsOwn(s[k], p)}
One(S) == \A j, k \in S : j = k

\* What a page sends names itself.
Own(p) == {listen, unlisten} \union {message(t, p) : t \in {"join", "leave", "ping"}}
SignedBy(s, p) == \A k \in DOMAIN s : s[k] \in Own(p)
Signed == \A p \in Pages : SignedBy(outbox[p], p)

\* The leave messages of a page that are under way.
Tracked(p) ==
    p \notin doubled =>
        /\ ~user[p] \/ p \notin leaving
           => LeavesIn(outbox[p], p) = {} /\ LeavesIn(queue(p), p) = {}
        /\ LeavesIn(outbox[p], p) = {} \/ LeavesIn(queue(p), p) = {}
        /\ One(LeavesIn(outbox[p], p)) /\ One(LeavesIn(queue(p), p))

ChatInv == TypeOK /\ Signed /\ \A p \in Pages : Tracked(p)

-----------------------------------------------------------------------------
LEMMA MessageType ==
    ASSUME NEW p \in Pages, NEW t \in {"join", "leave", "ping"}
    PROVE  /\ message(t, p) \in Messages /\ message(t, p) \in Commands
           /\ message(t, p).type = t /\ message(t, p) \notin {listen, unlisten}
           /\ message(t, p).late = FALSE
           /\ listen \in Commands /\ unlisten \in Commands
           /\ listen.type = "listen" /\ unlisten.type = "unlisten"
BY DEF message, Messages, Commands, name, Names, listen, unlisten

LEMMA CommandKinds ==
    ASSUME NEW c \in Commands
    PROVE  /\ c = listen <=> c.type = "listen"
           /\ c = unlisten <=> c.type = "unlisten"
           /\ c \notin {listen, unlisten} <=> c \in Messages
           /\ c \in Messages => c.type \in {"join", "leave", "ping"}
BY DEF Commands, Messages, listen, unlisten

LEMMA QueueType ==
    ASSUME TypeOK, NEW p \in Pages
    PROVE  queue(p) \in Seq(Messages) /\ inbox[p] \in Seq(Messages) /\ held[p] \in Seq(Messages)
BY DEF TypeOK, queue

LEMMA TailLeaves ==
    ASSUME NEW S, NEW s \in Seq(S), s # <<>>, NEW p, One(LeavesIn(s, p))
    PROVE  /\ One(LeavesIn(Tail(s), p))
           /\ IsOwn(Head(s), p) => LeavesIn(Tail(s), p) = {}
           /\ LeavesIn(s, p) = {} => ~IsOwn(Head(s), p) /\ LeavesIn(Tail(s), p) = {}
<1>1. /\ DOMAIN s = 1..Len(s) /\ Len(s) \in Nat \ {0} /\ Head(s) = s[1]
      /\ DOMAIN Tail(s) = 1..(Len(s) - 1)
      /\ \A k \in 1..(Len(s) - 1) : Tail(s)[k] = s[k + 1]
  OBVIOUS
<1>2. \A k \in LeavesIn(Tail(s), p) : k + 1 \in LeavesIn(s, p) /\ k \in Nat \ {0}
  BY <1>1 DEF LeavesIn
<1>3. IsOwn(Head(s), p) => 1 \in LeavesIn(s, p)
  BY <1>1 DEF LeavesIn
<1>4. QED
  BY <1>2, <1>3 DEF One

LEMMA AppendLeaves ==
    ASSUME NEW S, NEW s \in Seq(S), NEW p, NEW c \in S
    PROVE  /\ ~IsOwn(c, p) => LeavesIn(Append(s, c), p) = LeavesIn(s, p)
           /\ LeavesIn(s, p) = {} => One(LeavesIn(Append(s, c), p))
<1>1. /\ DOMAIN s = 1..Len(s) /\ Len(s) \in Nat
      /\ DOMAIN Append(s, c) = 1..(Len(s) + 1)
      /\ \A k \in 1..Len(s) : Append(s, c)[k] = s[k]
      /\ Append(s, c)[Len(s) + 1] = c
  OBVIOUS
<1>2. QED
  BY <1>1 DEF LeavesIn, One

LEMMA ConcatLeaves ==
    ASSUME NEW S, NEW s \in Seq(S), NEW p, NEW t \in Seq(S)
    PROVE  /\ LeavesIn(t, p) = {} => LeavesIn(s \o t, p) = LeavesIn(s, p)
           /\ LeavesIn(s, p) \subseteq LeavesIn(s \o t, p)
<1>1. /\ DOMAIN s = 1..Len(s) /\ Len(s) \in Nat /\ DOMAIN t = 1..Len(t) /\ Len(t) \in Nat
      /\ DOMAIN (s \o t) = 1..(Len(s) + Len(t))
      /\ \A k \in 1..(Len(s) + Len(t)) :
            (s \o t)[k] = IF k <= Len(s) THEN s[k] ELSE t[k - Len(s)]
  OBVIOUS
<1>2. ASSUME LeavesIn(t, p) = {}, NEW k \in (Len(s) + 1)..(Len(s) + Len(t))
      PROVE  ~IsOwn((s \o t)[k], p)
  <2>1. k - Len(s) \in 1..Len(t) /\ ~(k <= Len(s)) /\ k \in 1..(Len(s) + Len(t))
    BY <1>1
  <2>2. ~IsOwn(t[k - Len(s)], p)
    BY <1>1, <1>2, <2>1 DEF LeavesIn
  <2>3. QED
    BY <1>1, <2>1, <2>2
<1>3. \A k \in 1..Len(s) : k \in 1..(Len(s) + Len(t)) /\ (s \o t)[k] = s[k]
  BY <1>1
<1>4. LeavesIn(s, p) \subseteq LeavesIn(s \o t, p)
  BY <1>1, <1>3 DEF LeavesIn
<1>5. ASSUME LeavesIn(t, p) = {} PROVE LeavesIn(s \o t, p) \subseteq LeavesIn(s, p)
  <2> SUFFICES ASSUME NEW k \in LeavesIn(s \o t, p) PROVE k \in LeavesIn(s, p)
    OBVIOUS
  <2>1. k \in 1..(Len(s) + Len(t)) /\ IsOwn((s \o t)[k], p)
    BY <1>1 DEF LeavesIn
  <2>2. k \in 1..Len(s)
    BY <1>1, <1>2, <1>5, <2>1
  <2>3. QED
    BY <1>1, <1>3, <2>1, <2>2 DEF LeavesIn
<1>6. QED
  BY <1>4, <1>5

-----------------------------------------------------------------------------
(***************************************************************************)
(* A poll takes a message of those held to the front, and may mark some of *)
(* the others.                                                             *)
(***************************************************************************)
source(k, i) == IF i = 1 THEN k ELSE IF i <= k THEN i - 1 ELSE i

LEMMA Marked ==
    ASSUME NEW s \in Seq(Messages), NEW k \in DOMAIN s
    PROVE  /\ overtaken(s, k) \in Seq(Messages) /\ DOMAIN overtaken(s, k) = DOMAIN s
           /\ Len(overtaken(s, k)) = Len(s) /\ DOMAIN s = 1..Len(s) /\ Len(s) \in Nat
           /\ \A j \in DOMAIN s :
                 /\ overtaken(s, k)[j].type = s[j].type
                 /\ overtaken(s, k)[j].from = s[j].from
                 /\ overtaken(s, k)[j].late =
                       (s[j].late \/ (j < k /\ s[k].type = "ping" /\ s[j].type # "ping"))
<1>1. DOMAIN s = 1..Len(s) /\ Len(s) \in Nat /\ \A j \in DOMAIN s : s[j] \in Messages
  OBVIOUS
<1>2. ASSUME NEW j \in DOMAIN s
      PROVE  /\ overtaken(s, k)[j] \in Messages
             /\ overtaken(s, k)[j].type = s[j].type
             /\ overtaken(s, k)[j].from = s[j].from
             /\ overtaken(s, k)[j].late =
                   (s[j].late \/ (j < k /\ s[k].type = "ping" /\ s[j].type # "ping"))
  <2>1. s[j] \in Messages
    BY <1>1
  <2>2. overtaken(s, k)[j] = IF j < k /\ s[k].type = "ping" /\ s[j].type # "ping"
                             THEN [s[j] EXCEPT !.late = TRUE] ELSE s[j]
    BY DEF overtaken
  <2>3. CASE j < k /\ s[k].type = "ping" /\ s[j].type # "ping"
    <3>1. overtaken(s, k)[j] = [s[j] EXCEPT !.late = TRUE]
      BY <2>2, <2>3
    <3>2. QED
      BY <2>1, <2>3, <3>1 DEF Messages
  <2>4. CASE ~(j < k /\ s[k].type = "ping" /\ s[j].type # "ping")
    <3>1. overtaken(s, k)[j] = s[j]
      BY <2>2, <2>4
    <3>2. s[j].late \in BOOLEAN
      BY <2>1 DEF Messages
    <3>3. QED
      BY <2>1, <2>4, <3>1, <3>2
  <2>5. QED
    BY <2>3, <2>4
<1>3. overtaken(s, k) = [j \in 1..Len(s) |-> overtaken(s, k)[j]] /\ DOMAIN overtaken(s, k) = 1..Len(s)
  BY <1>1 DEF overtaken
<1>4. overtaken(s, k) \in [1..Len(s) -> Messages]
  BY <1>1, <1>2, <1>3
<1>5. overtaken(s, k) \in Seq(Messages) /\ Len(overtaken(s, k)) = Len(s)
  BY <1>1, <1>3, <1>4
<1>6. QED
  BY <1>1, <1>2, <1>3, <1>5

\* What a poll makes of the queue of a page.
Reordered(s, t, k) ==
    /\ DOMAIN t = DOMAIN s
    /\ \A i \in DOMAIN t : t[i] = overtaken(s, k)[source(k, i)]

LEMMA SourceIn ==
    ASSUME NEW n \in Nat, NEW k \in 1..n, NEW i \in 1..n
    PROVE  source(k, i) \in 1..n
BY DEF source

\* The messages o are split into a response x and a rest h, in which they keep
\* their order, by taking the k-th to the front.
Split(o, k, x, h) ==
    /\ x \in Seq(Messages) /\ h \in Seq(Messages)
    /\ DOMAIN (x \o h) = DOMAIN o
    /\ \A i \in DOMAIN o : (x \o h)[i] = o[source(k, i)]
    /\ \A i, j \in DOMAIN h : i < j =>
          \E a, b \in DOMAIN o : a < b /\ h[i] = o[a] /\ h[j] = o[b]

LEMMA FirstFront ==
    ASSUME NEW o \in Seq(Messages), o # <<>>
    PROVE  Split(o, 1, <<o[1]>>, Tail(o))
<1>1. /\ DOMAIN o = 1..Len(o) /\ Len(o) \in Nat \ {0} /\ o[1] \in Messages
      /\ Tail(o) \in Seq(Messages) /\ DOMAIN Tail(o) = 1..(Len(o) - 1)
      /\ \A k \in 1..(Len(o) - 1) : Tail(o)[k] = o[k + 1]
      /\ Len(Tail(o)) = Len(o) - 1
  OBVIOUS
<1> PICK h : h = <<o[1]>>
  OBVIOUS
<1> PICK t : t = Tail(o)
  OBVIOUS
<1>2. h \in Seq(Messages) /\ Len(h) = 1 /\ h[1] = o[1]
  BY <1>1
<1>3. /\ DOMAIN (h \o t) = 1..Len(o)
      /\ \A k \in 1..Len(o) : (h \o t)[k] = IF k <= 1 THEN h[k] ELSE t[k - 1]
  BY <1>1, <1>2
<1>4. ASSUME NEW i \in 1..Len(o) PROVE (h \o t)[i] = o[source(1, i)]
  <2>1. CASE i = 1
    BY <1>1, <1>2, <1>3, <2>1 DEF source
  <2>2. CASE i # 1
    <3>1. i - 1 \in 1..(Len(o) - 1) /\ ~(i <= 1) /\ (i - 1) + 1 = i
      BY <1>1, <2>2
    <3>2. (h \o t)[i] = t[i - 1] /\ t[i - 1] = o[i]
      BY <1>1, <1>3, <3>1
    <3>3. source(1, i) = i
      BY <2>2, <3>1 DEF source
    <3>4. QED
      BY <3>2, <3>3
  <2>3. QED
    BY <2>1, <2>2
<1>5. ASSUME NEW i \in DOMAIN t, NEW j \in DOMAIN t, i < j
      PROVE  \E a, b \in DOMAIN o : a < b /\ t[i] = o[a] /\ t[j] = o[b]
  <2>1. /\ i + 1 \in DOMAIN o /\ j + 1 \in DOMAIN o /\ i + 1 < j + 1
        /\ t[i] = o[i + 1] /\ t[j] = o[j + 1]
    BY <1>1, <1>5
  <2>2. QED
    BY <2>1
<1>6. QED
  BY <1>1, <1>2, <1>3, <1>4, <1>5 DEF Split

LEMMA LaterFront ==
    ASSUME NEW o \in Seq(Messages), NEW k \in DOMAIN o, k > 1,
           NEW h, h = [i \in 1..(Len(o) - 2) |-> o[IF i + 1 < k THEN i + 1 ELSE i + 2]]
    PROVE  Split(o, k, <<o[k], o[1]>>, h)
<1> PICK n : n = Len(o)
  OBVIOUS
<1>1. /\ DOMAIN o = 1..n /\ n \in Nat /\ k \in 1..n /\ n >= 2 /\ n - 2 \in Nat
      /\ \A i \in 1..n : o[i] \in Messages
  <2>1. DOMAIN o = 1..n /\ n \in Nat /\ \A i \in 1..n : o[i] \in Messages
    OBVIOUS
  <2>2. QED
    BY <2>1
<1> DEFINE g(i) == IF i + 1 < k THEN i + 1 ELSE i + 2
<1>2. \A i \in 1..(n - 2) : g(i) \in 1..n
  BY <1>1
<1>3. \A i, j \in 1..(n - 2) : i < j => g(i) < g(j)
  BY <1>1
<1>4. DOMAIN h = 1..(n - 2) /\ \A i \in 1..(n - 2) : h[i] = o[g(i)]
  OBVIOUS
<1>5. h \in Seq(Messages) /\ Len(h) = n - 2
  <2>1. \A i \in 1..(n - 2) : h[i] \in Messages
    BY <1>1, <1>2, <1>4
  <2>2. h = [i \in 1..(n - 2) |-> h[i]]
    BY <1>4
  <2>3. h \in [1..(n - 2) -> Messages]
    BY <2>1, <2>2
  <2>4. QED
    BY <1>1, <1>4, <2>3
<1> PICK t : t = <<o[k], o[1]>>
  OBVIOUS
<1>6. t \in Seq(Messages) /\ Len(t) = 2 /\ t[1] = o[k] /\ t[2] = o[1]
  BY <1>1
<1>7. /\ DOMAIN (t \o h) = 1..n
      /\ \A i \in 1..n : (t \o h)[i] = IF i <= 2 THEN t[i] ELSE h[i - 2]
  BY <1>1, <1>5, <1>6
<1>8. ASSUME NEW i \in 1..n PROVE (t \o h)[i] = o[source(k, i)]
  <2>1. CASE i = 1
    BY <1>6, <1>7, <2>1 DEF source
  <2>2. CASE i = 2
    <3>1. source(k, i) = 1
      BY <1>1, <2>2 DEF source
    <3>2. QED
      BY <1>6, <1>7, <2>2, <3>1
  <2>3. CASE i \notin {1, 2}
    <3>1. i - 2 \in 1..(n - 2) /\ ~(i <= 2)
      BY <1>1, <2>3
    <3>2. (t \o h)[i] = o[g(i - 2)]
      BY <1>4, <1>7, <3>1
    <3>3. g(i - 2) = source(k, i)
      BY <1>1, <2>3 DEF source
    <3>4. QED
      BY <3>2, <3>3
  <2>4. QED
    BY <2>1, <2>2, <2>3
<1>9. ASSUME NEW i \in DOMAIN h, NEW j \in DOMAIN h, i < j
      PROVE  \E a, b \in DOMAIN o : a < b /\ h[i] = o[a] /\ h[j] = o[b]
  <2>1. g(i) \in DOMAIN o /\ g(j) \in DOMAIN o /\ g(i) < g(j) /\ h[i] = o[g(i)] /\ h[j] = o[g(j)]
    BY <1>1, <1>2, <1>3, <1>4, <1>9
  <2>2. QED
    BY <2>1
<1>10. QED
  BY <1>1, <1>5, <1>6, <1>7, <1>8, <1>9 DEF Split

LEMMA PollReorders ==
    ASSUME TypeOK, NEW p \in Pages, doMessages(p)
    PROVE  /\ queue(p) = held[p] /\ queue(p)' \in Seq(Messages)
           /\ inbox' \in [Pages -> Seq(Messages)] /\ held' \in [Pages -> Seq(Messages)]
           /\ \A q \in Pages : q # p => queue(q)' = queue(q) /\ held'[q] = held[q]
           /\ \E k \in DOMAIN held[p] :
                 /\ Reordered(held[p], queue(p)', k)
                 /\ \A i, j \in DOMAIN held'[p] : i < j => \E a, b \in DOMAIN held[p] :
                       /\ a < b /\ held'[p][i] = overtaken(held[p], k)[a]
                       /\ held'[p][j] = overtaken(held[p], k)[b]
<1>1. /\ held \in [Pages -> Seq(Messages)] /\ inbox \in [Pages -> Seq(Messages)]
      /\ held[p] \in Seq(Messages) /\ inbox[p] = <<>>
  BY DEF TypeOK, doMessages, idle
<1>2. queue(p) = held[p]
  BY <1>1 DEF queue
<1>3. PICK k \in DOMAIN held[p] :
         LET s == overtaken(held[p], k) IN
         \/ /\ k = 1
            /\ inbox' = [inbox EXCEPT ![p] = <<s[1]>>]
            /\ held' = [held EXCEPT ![p] = Tail(s)]
         \/ /\ k > 1
            /\ inbox' = [inbox EXCEPT ![p] = <<s[k], s[1]>>]
            /\ held' = [held EXCEPT ![p] =
                   [i \in 1..(Len(s) - 2) |-> s[IF i + 1 < k THEN i + 1 ELSE i + 2]]]
  BY DEF doMessages
<1> PICK o : o = overtaken(held[p], k)
  OBVIOUS
<1>4. o \in Seq(Messages) /\ DOMAIN o = DOMAIN held[p] /\ k \in DOMAIN o /\ o # <<>>
  <2>1. o \in Seq(Messages) /\ DOMAIN o = DOMAIN held[p]
    BY <1>1, Marked
  <2>2. QED
    BY <2>1
<1>5. \E x, h : /\ inbox' = [inbox EXCEPT ![p] = x] /\ held' = [held EXCEPT ![p] = h]
                /\ Split(o, k, x, h)
  <2>1. CASE /\ k = 1
             /\ inbox' = [inbox EXCEPT ![p] = <<o[1]>>]
             /\ held' = [held EXCEPT ![p] = Tail(o)]
    BY <1>4, <2>1, FirstFront
  <2>2. CASE /\ k > 1
             /\ inbox' = [inbox EXCEPT ![p] = <<o[k], o[1]>>]
             /\ held' = [held EXCEPT ![p] =
                    [i \in 1..(Len(o) - 2) |-> o[IF i + 1 < k THEN i + 1 ELSE i + 2]]]
    <3> PICK h : h = [i \in 1..(Len(o) - 2) |-> o[IF i + 1 < k THEN i + 1 ELSE i + 2]]
      OBVIOUS
    <3>1. Split(o, k, <<o[k], o[1]>>, h)
      BY <1>4, <2>2, LaterFront
    <3>2. QED
      BY <2>2, <3>1
  <2>3. QED
    BY <1>3, <2>1, <2>2
<1>6. PICK x, h : /\ inbox' = [inbox EXCEPT ![p] = x] /\ held' = [held EXCEPT ![p] = h]
                  /\ x \in Seq(Messages) /\ h \in Seq(Messages)
                  /\ DOMAIN (x \o h) = DOMAIN o
                  /\ \A i \in DOMAIN o : (x \o h)[i] = o[source(k, i)]
                  /\ \A i, j \in DOMAIN h : i < j =>
                        \E a, b \in DOMAIN o : a < b /\ h[i] = o[a] /\ h[j] = o[b]
  BY <1>5 DEF Split
<1>7. /\ inbox'[p] = x /\ held'[p] = h
      /\ inbox' \in [Pages -> Seq(Messages)] /\ held' \in [Pages -> Seq(Messages)]
      /\ \A q \in Pages : q # p => inbox'[q] = inbox[q] /\ held'[q] = held[q]
  BY <1>1, <1>6
<1>8. queue(p)' = x \o h /\ x \o h \in Seq(Messages)
  BY <1>6, <1>7 DEF queue
<1>9. \A q \in Pages : q # p => queue(q)' = queue(q)
  BY <1>7 DEF queue
<1>10. Reordered(held[p], queue(p)', k)
  BY <1>4, <1>6, <1>8 DEF Reordered
<1>11. \A i, j \in DOMAIN held'[p] : i < j => \E a, b \in DOMAIN held[p] :
          /\ a < b /\ held'[p][i] = overtaken(held[p], k)[a]
          /\ held'[p][j] = overtaken(held[p], k)[b]
  BY <1>4, <1>6, <1>7
<1>12. QED
  BY <1>2, <1>7, <1>8, <1>9, <1>10, <1>11

\* No message of a kind is gained or lost.
LEMMA ReorderedKinds ==
    ASSUME NEW s \in Seq(Messages), NEW t, NEW k \in DOMAIN s, Reordered(s, t, k)
    PROVE  /\ DOMAIN s = 1..Len(s) /\ Len(s) \in Nat /\ DOMAIN t = DOMAIN s
           /\ \A i \in DOMAIN t : /\ source(k, i) \in DOMAIN s
                                  /\ t[i].type = s[source(k, i)].type
                                  /\ t[i].from = s[source(k, i)].from
                                  /\ t[i].late = overtaken(s, k)[source(k, i)].late
<1>1. DOMAIN s = 1..Len(s) /\ Len(s) \in Nat /\ DOMAIN t = DOMAIN s
  BY DEF Reordered
<1>2. \A i \in DOMAIN t : source(k, i) \in DOMAIN s
  BY <1>1, SourceIn
<1>3. \A i \in DOMAIN t : t[i] = overtaken(s, k)[source(k, i)]
  BY DEF Reordered
<1>4. QED
  <2> SUFFICES ASSUME NEW i \in DOMAIN t
               PROVE  /\ t[i].type = s[source(k, i)].type /\ t[i].from = s[source(k, i)].from
                      /\ t[i].late = overtaken(s, k)[source(k, i)].late
    BY <1>1, <1>2
  <2> PICK j \in DOMAIN s : j = source(k, i)
    BY <1>2
  <2>1. overtaken(s, k)[j].type = s[j].type /\ overtaken(s, k)[j].from = s[j].from
    BY Marked
  <2>2. t[i] = overtaken(s, k)[j]
    BY <1>3
  <2>3. QED
    BY <2>1, <2>2

LEMMA ReorderedLeaves ==
    ASSUME NEW s \in Seq(Messages), NEW t, NEW k \in DOMAIN s, Reordered(s, t, k), NEW p
    PROVE  /\ LeavesIn(s, p) = {} => LeavesIn(t, p) = {}
           /\ One(LeavesIn(s, p)) => One(LeavesIn(t, p))
<1>1. \A i \in LeavesIn(t, p) : source(k, i) \in LeavesIn(s, p)
  BY ReorderedKinds DEF LeavesIn, IsOwn
<1>2. \A i, j \in 1..Len(s) : source(k, i) = source(k, j) => i = j
  BY ReorderedKinds DEF source
<1>3. LeavesIn(t, p) \subseteq 1..Len(s)
  BY ReorderedKinds DEF LeavesIn
<1>4. QED
  BY <1>1, <1>2, <1>3 DEF One

-----------------------------------------------------------------------------
LEMMA ChatInitially == Init => ChatInv
<1> SUFFICES ASSUME Init PROVE ChatInv
  OBVIOUS
<1>1. TypeOK
  BY ChatAssumption DEF Init, TypeOK
<1>2. \A p \in Pages : outbox[p] = <<>> /\ queue(p) = <<>>
  BY DEF Init, queue
<1>3. QED
  BY <1>1, <1>2 DEF ChatInv, Signed, SignedBy, Tracked, LeavesIn, One

\* What the handler of a page sends.
LEMMA Answers ==
    ASSUME NEW p \in Pages, NEW m, joinOrLeave(p, m)
    PROVE  \E s \in {<<>>, <<unlisten>>, <<message("ping", p)>>} :
              s \in Seq(Commands) /\ outbox' = [outbox EXCEPT ![p] = @ \o s]
<1>1. /\ <<unlisten>> \in Seq(Commands) /\ <<message("ping", p)>> \in Seq(Commands)
      /\ <<>> \in Seq(Commands)
  <2>1. "ping" \in {"join", "leave", "ping"}
    OBVIOUS
  <2>2. unlisten \in Commands /\ message("ping", p) \in Commands
    BY <2>1, MessageType
  <2>3. QED
    BY <2>2
<1>2. QED
  BY <1>1 DEF joinOrLeave, issue

LEMMA ChatTypes ==
    ASSUME TypeOK, [Next]_vars
    PROVE  TypeOK'
<1> USE DEF TypeOK
<1>1. ASSUME NEW p \in Pages, join(p)
      PROVE  TypeOK'
  <2>1. <<listen, message("join", p)>> \in Seq(Commands)
    <3>1. "join" \in {"join", "leave", "ping"}
      OBVIOUS
    <3>2. listen \in Commands /\ message("join", p) \in Commands
      BY <3>1, MessageType
    <3>3. QED
      BY <3>2
  <2>2. outbox' \in [Pages -> Seq(Commands)]
    BY <1>1, <2>1 DEF join, issue
  <2>3. joins' \in 0..MaxJoins
    BY <1>1, ChatAssumption DEF join
  <2>4. QED
    BY <1>1, <2>2, <2>3 DEF join
<1>2. ASSUME NEW p \in Pages, leave(p)
      PROVE  TypeOK'
  <2>1. <<message("leave", p)>> \in Seq(Commands)
    <3>1. "leave" \in {"join", "leave", "ping"}
      OBVIOUS
    <3>2. message("leave", p) \in Commands
      BY <3>1, MessageType
    <3>3. QED
      BY <3>2
  <2>2. outbox' \in [Pages -> Seq(Commands)]
    BY <1>2, <2>1 DEF leave, issue
  <2>3. leaves' \in 0..MaxLeaves
    BY <1>2, ChatAssumption DEF leave
  <2>4. leaving' \subseteq Pages /\ doubled' \subseteq Pages
    BY <1>2 DEF leave
  <2>5. QED
    BY <1>2, <2>2, <2>3, <2>4 DEF leave
<1>3. ASSUME NEW p \in Pages, carryOut(p)
      PROVE  TypeOK'
  <2> PICK c : c = Head(outbox[p])
    OBVIOUS
  <2>1. outbox[p] \in Seq(Commands) /\ outbox[p] # <<>>
    BY <1>3 DEF carryOut
  <2>2. c \in Commands /\ Tail(outbox[p]) \in Seq(Commands)
    BY <2>1
  <2>3. outbox' \in [Pages -> Seq(Commands)]
    BY <1>3, <2>2 DEF carryOut
  <2>4. held' \in [Pages -> Seq(Messages)] /\ subscribed' \subseteq Pages
    <3>1. CASE c \in Messages /\ subscribed' = subscribed
               /\ held' = [q \in Pages |-> IF q \in subscribed THEN Append(held[q], c) ELSE held[q]]
      <4>1. \A q \in Pages : held[q] \in Seq(Messages) /\ Append(held[q], c) \in Seq(Messages)
        BY <3>1
      <4>2. QED
        BY <3>1, <4>1
    <3>2. CASE subscribed' = subscribed \union {p} /\ held' = held
      BY <3>2
    <3>3. CASE subscribed' = subscribed \ {p} /\ held' = [held EXCEPT ![p] = <<>>]
      BY <3>3
    <3>4. QED
      BY <1>3, <3>1, <3>2, <3>3 DEF carryOut
  <2>5. QED
    BY <1>3, <2>3, <2>4 DEF carryOut, historyVars
<1>4. ASSUME NEW p \in Pages, doMessages(p)
      PROVE  TypeOK'
  <2>1. inbox' \in [Pages -> Seq(Messages)] /\ held' \in [Pages -> Seq(Messages)]
    BY <1>4, PollReorders
  <2>2. QED
    BY <1>4, <2>1 DEF doMessages, historyVars
<1>5. ASSUME NEW p \in Pages, receive(p)
      PROVE  TypeOK'
  <2> PICK m : m = Head(inbox[p])
    OBVIOUS
  <2>1. m \in Messages /\ inbox' \in [Pages -> Seq(Messages)] /\ held' = held
        /\ UNCHANGED <<subscribed, held, historyVars>>
    BY <1>5 DEF receive
  <2>2. CASE joinOrLeave(p, m)
    <3>1. PICK s \in Seq(Commands) : outbox' = [outbox EXCEPT ![p] = @ \o s]
      BY <2>2, Answers
    <3>2. outbox' \in [Pages -> Seq(Commands)]
      BY <3>1
    <3>3. members' \in [Pages -> SUBSET Names] /\ outrun' \subseteq Pages
      BY <2>2 DEF joinOrLeave
    <3>4. user' \in [Pages -> BOOLEAN] /\ handler' \in [Pages -> BOOLEAN]
      BY <2>2 DEF joinOrLeave
    <3>5. QED
      BY <2>1, <3>2, <3>3, <3>4 DEF historyVars
  <2>3. CASE ping(p, m)
    <3>1. m.from \in Names
      BY <2>1 DEF Messages
    <3>2. members' \in [Pages -> SUBSET Names]
      BY <2>3, <3>1 DEF ping
    <3>3. QED
      BY <2>1, <2>3, <3>2 DEF ping, historyVars
  <2>4. CASE UNCHANGED <<members, user, handler, outbox, outrun>>
    BY <2>1, <2>4 DEF historyVars
  <2>5. QED
    BY <1>5, <2>2, <2>3, <2>4 DEF receive
<1>6. CASE UNCHANGED vars
  BY <1>6 DEF vars, historyVars
<1>7. QED
  BY <1>1, <1>2, <1>3, <1>4, <1>5, <1>6 DEF Next

\* The types of the chat's state, whatever the pages do (chat.js:20-92, 149-169).
THEOREM ChatTypeOK == Spec => []TypeOK
<1>1. Init => TypeOK
  BY ChatInitially DEF ChatInv
<1>2. TypeOK /\ [Next]_vars => TypeOK'
  BY ChatTypes
<1>3. QED
  BY <1>1, <1>2, PTL DEF Spec

-----------------------------------------------------------------------------
\* What a command of a page does to the queues of messages.
LEMMA Carried ==
    ASSUME TypeOK, NEW p \in Pages, carryOut(p), NEW c, c = Head(outbox[p])
    PROVE  /\ outbox[p] \in Seq(Commands) /\ outbox[p] # <<>> /\ c \in Commands
           /\ outbox' = [outbox EXCEPT ![p] = Tail(@)] /\ outbox \in [Pages -> Seq(Commands)]
           /\ \/ /\ c = listen /\ subscribed' = subscribed \union {p}
                 /\ \A q \in Pages : queue(q)' = queue(q) /\ held'[q] = held[q]
              \/ /\ c = unlisten /\ subscribed' = subscribed \ {p}
                 /\ queue(p)' = inbox[p] /\ held'[p] = <<>>
                 /\ \A q \in Pages : q # p => queue(q)' = queue(q) /\ held'[q] = held[q]
              \/ /\ c \in Messages /\ subscribed' = subscribed
                 /\ \A q \in subscribed : /\ queue(q)' = Append(queue(q), c)
                                          /\ held'[q] = Append(held[q], c)
                 /\ \A q \in Pages \ subscribed : queue(q)' = queue(q) /\ held'[q] = held[q]
<1>1. /\ held \in [Pages -> Seq(Messages)] /\ inbox \in [Pages -> Seq(Messages)]
      /\ outbox \in [Pages -> Seq(Commands)] /\ subscribed \subseteq Pages
  BY DEF TypeOK
<1>2. outbox[p] \in Seq(Commands) /\ outbox[p] # <<>> /\ c \in Commands
      /\ outbox' = [outbox EXCEPT ![p] = Tail(@)] /\ inbox' = inbox
  BY <1>1 DEF carryOut
<1>3. CASE c = listen /\ subscribed' = subscribed \union {p} /\ held' = held
  BY <1>2, <1>3, <1>1 DEF queue
<1>4. CASE c = unlisten /\ subscribed' = subscribed \ {p} /\ held' = [held EXCEPT ![p] = <<>>]
  <2>1. held'[p] = <<>> /\ \A q \in Pages : q # p => held'[q] = held[q]
    BY <1>1, <1>4
  <2>2. inbox[p] \o <<>> = inbox[p]
    BY <1>1
  <2>3. queue(p)' = inbox[p] /\ \A q \in Pages : q # p => queue(q)' = queue(q)
    BY <1>2, <2>1, <2>2 DEF queue
  <2>4. QED
    BY <1>1, <1>2, <1>4, <2>1, <2>3
<1>5. CASE /\ c \in Messages /\ subscribed' = subscribed
           /\ held' = [q \in Pages |-> IF q \in subscribed THEN Append(held[q], c) ELSE held[q]]
  <2>1. /\ \A q \in subscribed : held'[q] = Append(held[q], c)
        /\ \A q \in Pages \ subscribed : held'[q] = held[q]
    BY <1>1, <1>5
  <2>2. ASSUME NEW q \in subscribed PROVE queue(q)' = Append(queue(q), c)
    <3>1. held[q] \in Seq(Messages) /\ inbox[q] \in Seq(Messages)
      BY <1>1
    <3>2. ASSUME NEW s \in Seq(Messages), NEW t \in Seq(Messages)
          PROVE  s \o Append(t, c) = Append(s \o t, c)
      BY <1>5
    <3>3. QED
      BY <1>2, <2>1, <3>1, <3>2 DEF queue
  <2>3. \A q \in Pages \ subscribed : queue(q)' = queue(q)
    BY <1>2, <2>1 DEF queue
  <2>4. QED
    BY <1>1, <1>2, <1>5, <2>1, <2>2, <2>3
<1>6. QED
  BY <1>3, <1>4, <1>5 DEF carryOut

\* What the handling of a message does to the queues.
LEMMA Received ==
    ASSUME TypeOK, NEW p \in Pages, receive(p), NEW m, m = Head(inbox[p])
    PROVE  /\ m \in Messages /\ queue(p) \in Seq(Messages) /\ queue(p) # <<>>
           /\ m = Head(queue(p)) /\ queue(p)' = Tail(queue(p)) /\ held' = held
           /\ \A q \in Pages : q # p => queue(q)' = queue(q)
<1>1. /\ held[p] \in Seq(Messages) /\ inbox[p] \in Seq(Messages) /\ inbox[p] # <<>>
      /\ inbox' = [inbox EXCEPT ![p] = Tail(@)] /\ held' = held
      /\ inbox \in [Pages -> Seq(Messages)]
  BY DEF receive, TypeOK
<1>2. ASSUME NEW s \in Seq(Messages), NEW t \in Seq(Messages), s # <<>>
      PROVE  s \o t # <<>> /\ Head(s \o t) = Head(s) /\ Tail(s \o t) = Tail(s) \o t
  <2>1. /\ DOMAIN s = 1..Len(s) /\ Len(s) \in Nat \ {0} /\ DOMAIN t = 1..Len(t) /\ Len(t) \in Nat
        /\ Len(s \o t) = Len(s) + Len(t) /\ s \o t \in Seq(Messages)
        /\ \A k \in 1..(Len(s) + Len(t)) :
              (s \o t)[k] = IF k <= Len(s) THEN s[k] ELSE t[k - Len(s)]
    BY <1>2
  <2>2. s \o t # <<>> /\ Head(s \o t) = Head(s)
    BY <1>2, <2>1
  <2>3. Tail(s \o t) \in Seq(Messages) /\ Tail(s) \o t \in Seq(Messages)
    BY <1>2, <2>1, <2>2
  <2>4. Len(Tail(s \o t)) = Len(s) + Len(t) - 1 /\ Len(Tail(s) \o t) = Len(s) + Len(t) - 1
    BY <1>2, <2>1, <2>2
  <2>5. ASSUME NEW k \in 1..(Len(s) + Len(t) - 1)
        PROVE  Tail(s \o t)[k] = (Tail(s) \o t)[k]
    <3>1. Tail(s \o t)[k] = (s \o t)[k + 1]
      BY <2>1, <2>2, <2>5
    <3>2. CASE k <= Len(s) - 1
      <4>1. (s \o t)[k + 1] = s[k + 1] /\ (Tail(s) \o t)[k] = Tail(s)[k] /\ Tail(s)[k] = s[k + 1]
        BY <1>2, <2>1, <3>2
      <4>2. QED
        BY <3>1, <4>1
    <3>3. CASE ~(k <= Len(s) - 1)
      <4>1. k + 1 \in 1..(Len(s) + Len(t)) /\ ~(k + 1 <= Len(s))
        BY <2>1, <3>3
      <4>2. (s \o t)[k + 1] = t[(k + 1) - Len(s)]
        BY <2>1, <4>1
      <4>3. (Tail(s) \o t)[k] = t[k - (Len(s) - 1)]
        BY <1>2, <2>1, <3>3
      <4>4. (k + 1) - Len(s) = k - (Len(s) - 1)
        BY <2>1
      <4>5. QED
        BY <3>1, <4>2, <4>3, <4>4
    <3>4. QED
      BY <3>2, <3>3
  <2>6. QED
    BY <2>2, <2>3, <2>4, <2>5, SeqEqual
<1>3. \A q \in Pages : q # p => inbox'[q] = inbox[q]
  BY <1>1
<1>4. inbox'[p] = Tail(inbox[p])
  BY <1>1
<1>5. m \in Messages
  BY <1>1
<1>6. queue(p) \in Seq(Messages)
  BY QueueType
<1>7. /\ queue(p) # <<>> /\ m = Head(queue(p)) /\ queue(p)' = Tail(queue(p))
  BY <1>1, <1>2, <1>4 DEF queue
<1>8. \A q \in Pages : q # p => queue(q)' = queue(q)
  BY <1>1, <1>3 DEF queue
<1>9. QED
  BY <1>1, <1>5, <1>6, <1>7, <1>8
-----------------------------------------------------------------------------
LEMMA OwnSigned ==
    ASSUME NEW p \in Pages, NEW c \in Own(p)
    PROVE  SignedBy(<<c>>, p)
BY DEF SignedBy

LEMMA OwnMessages ==
    ASSUME NEW p \in Pages
    PROVE  /\ listen \in Own(p) /\ unlisten \in Own(p)
           /\ \A t \in {"join", "leave", "ping"} : message(t, p) \in Own(p)
BY DEF Own

LEMMA OnlyItsOwn ==
    ASSUME NEW p \in Pages, NEW q \in Pages, p # q, ~SameNames, NEW c \in Own(p)
    PROVE  ~IsOwn(c, q)
<1>1. name(p) # name(q) /\ "leave" # "listen" /\ "leave" # "unlisten"
  BY DEF name
<1>2. CASE c \in {listen, unlisten}
  BY <1>2 DEF IsOwn, listen, unlisten
<1>3. CASE c \in {message(t, p) : t \in {"join", "leave", "ping"}}
  <2>1. c.from = name(p)
    BY <1>3 DEF message
  <2>2. QED
    BY <1>1, <2>1 DEF IsOwn
<1>4. QED
  BY <1>2, <1>3 DEF Own

LEMMA OneCommand ==
    ASSUME NEW p \in Pages, NEW c, ~IsOwn(c, p)
    PROVE  LeavesIn(<<c>>, p) = {}
BY DEF LeavesIn

LEMMA NothingIn ==
    ASSUME NEW p \in Pages
    PROVE  LeavesIn(<<>>, p) = {} /\ SignedBy(<<>>, p)
BY DEF LeavesIn, SignedBy

LEMMA ConcatSigned ==
    ASSUME NEW S, NEW s \in Seq(S), NEW t \in Seq(S), NEW p, SignedBy(s, p), SignedBy(t, p)
    PROVE  SignedBy(s \o t, p)
<1>1. /\ DOMAIN s = 1..Len(s) /\ Len(s) \in Nat /\ DOMAIN t = 1..Len(t) /\ Len(t) \in Nat
      /\ DOMAIN (s \o t) = 1..(Len(s) + Len(t))
      /\ \A k \in 1..(Len(s) + Len(t)) :
            (s \o t)[k] = IF k <= Len(s) THEN s[k] ELSE t[k - Len(s)]
  OBVIOUS
<1>2. SUFFICES ASSUME NEW k \in 1..(Len(s) + Len(t)) PROVE (s \o t)[k] \in Own(p)
  BY <1>1 DEF SignedBy
<1>3. k <= Len(s) => k \in 1..Len(s)
  BY <1>1
<1>4. ~(k <= Len(s)) => k - Len(s) \in 1..Len(t)
  BY <1>1
<1>5. QED
  BY <1>1, <1>3, <1>4 DEF SignedBy

LEMMA TailSigned ==
    ASSUME NEW S, NEW s \in Seq(S), s # <<>>, NEW p, SignedBy(s, p)
    PROVE  SignedBy(Tail(s), p) /\ Head(s) \in Own(p)
<1>1. /\ DOMAIN s = 1..Len(s) /\ Len(s) \in Nat \ {0} /\ Head(s) = s[1]
      /\ DOMAIN Tail(s) = 1..(Len(s) - 1)
      /\ \A k \in 1..(Len(s) - 1) : Tail(s)[k] = s[k + 1]
  OBVIOUS
<1>2. QED
  BY <1>1 DEF SignedBy

\* A page whose own state and queues stay keeps its account.
LEMMA Elsewhere ==
    ASSUME NEW q \in Pages, Tracked(q), q \in doubled' <=> q \in doubled,
           user'[q] = user[q], q \in leaving' <=> q \in leaving,
           LeavesIn(outbox'[q], q) = LeavesIn(outbox[q], q),
           LeavesIn(queue(q)', q) = LeavesIn(queue(q), q)
    PROVE  Tracked(q)'
BY DEF Tracked

LEMMA JoinTracked ==
    ASSUME ChatInv, NEW p \in Pages, join(p), ~SameNames
    PROVE  Signed' /\ \A q \in Pages : Tracked(q)'
<1> DEFINE s == <<listen, message("join", p)>>
<1>1. TypeOK /\ Signed /\ \A q \in Pages : Tracked(q)
  BY DEF ChatInv
<1>2. s \in Seq(Commands) /\ SignedBy(s, p) /\ LeavesIn(s, p) = {}
  <2>1. "join" \in {"join", "leave", "ping"}
    OBVIOUS
  <2>2. /\ listen \in Commands /\ message("join", p) \in Commands
        /\ listen.type = "listen" /\ message("join", p).type = "join"
        /\ listen \in Own(p) /\ message("join", p) \in Own(p)
    BY <2>1, MessageType, OwnMessages
  <2>3. QED
    BY <2>2 DEF SignedBy, LeavesIn, IsOwn
<1> HIDE DEF s
<1>5. outbox' = [outbox EXCEPT ![p] = @ \o s] /\ outbox \in [Pages -> Seq(Commands)]
  BY <1>1 DEF join, issue, s, TypeOK
<1>6. Signed'
  BY <1>1, <1>2, <1>5, ConcatSigned DEF Signed
<1>7. ASSUME NEW q \in Pages PROVE Tracked(q)'
  <2>1. LeavesIn(outbox'[q], q) = LeavesIn(outbox[q], q)
    BY <1>2, <1>5, ConcatLeaves
  <2>4. queue(q)' = queue(q) /\ doubled' = doubled /\ leaving' = leaving \ {p}
    BY DEF join, queue
  <2>2. CASE q = p
    <3>1. ~user[p]
      BY DEF join
    <3>2. QED
      BY <1>1, <2>1, <2>2, <2>4, <3>1 DEF Tracked, One
  <2>3. CASE q # p
    <3>1. user'[q] = user[q] /\ (q \in leaving' <=> q \in leaving)
      BY <1>1, <2>3, <2>4 DEF join, TypeOK
    <3>2. QED
      BY <1>1, <2>1, <2>4, <3>1, Elsewhere
  <2>5. QED
    BY <2>2, <2>3
<1>8. QED
  BY <1>6, <1>7

LEMMA LeaveTracked ==
    ASSUME ChatInv, NEW p \in Pages, leave(p), ~SameNames
    PROVE  Signed' /\ \A q \in Pages : Tracked(q)'
<1>1. TypeOK /\ Signed /\ \A q \in Pages : Tracked(q)
  BY DEF ChatInv
<1> PICK c : c = message("leave", p)
  OBVIOUS
<1>2. c \in Commands /\ c \in Own(p) /\ SignedBy(<<c>>, p) /\ <<c>> \in Seq(Commands)
  <2>1. "leave" \in {"join", "leave", "ping"}
    OBVIOUS
  <2>2. c \in Commands /\ c \in Own(p)
    BY <2>1, MessageType, OwnMessages
  <2>3. QED
    BY <2>2, OwnSigned
<1>3. outbox' = [outbox EXCEPT ![p] = @ \o <<c>>] /\ outbox \in [Pages -> Seq(Commands)]
  BY <1>1 DEF leave, issue, TypeOK
<1>4. Signed'
  BY <1>1, <1>2, <1>3, ConcatSigned DEF Signed
<1>6. /\ user' = user /\ leaving' = leaving \union {p} /\ user[p]
      /\ doubled' = IF p \in leaving THEN doubled \union {p} ELSE doubled
      /\ \A q \in Pages : queue(q)' = queue(q)
  BY DEF leave, queue
<1>5. ASSUME NEW q \in Pages PROVE Tracked(q)'
  <2>1. CASE q = p
    <3>1. CASE p \notin leaving
      <4>1. SUFFICES ASSUME p \notin doubled' PROVE Tracked(p)'
        BY <2>1 DEF Tracked
      <4>2. p \notin doubled /\ user'[p] /\ queue(p)' = queue(p) /\ p \in leaving'
        BY <1>6, <3>1, <4>1
      <4>3. LeavesIn(outbox[p], p) = {} /\ LeavesIn(queue(p), p) = {}
        BY <1>1, <3>1, <4>2 DEF Tracked
      <4>4. outbox'[p] = Append(outbox[p], c)
        BY <1>2, <1>3
      <4>5. One(LeavesIn(outbox'[p], p))
        <5>1. outbox[p] \in Seq(Commands)
          BY <1>3
        <5>2. One(LeavesIn(Append(outbox[p], c), p))
          BY <1>2, <4>3, <5>1, AppendLeaves
        <5>3. QED
          BY <4>4, <5>2
      <4>6. QED
        BY <4>2, <4>3, <4>5 DEF Tracked, One
    <3>2. CASE p \in leaving
      <4>1. p \in doubled'
        BY <1>6, <3>2
      <4>2. QED
        BY <2>1, <4>1 DEF Tracked
    <3>3. QED
      BY <3>1, <3>2
  <2>2. CASE q # p
    <3>1. /\ user'[q] = user[q] /\ (q \in leaving' <=> q \in leaving)
          /\ (q \in doubled' <=> q \in doubled)
          /\ outbox'[q] = outbox[q] /\ queue(q)' = queue(q)
      BY <1>3, <1>6, <2>2
    <3>2. QED
      BY <1>1, <3>1, Elsewhere
  <2>3. QED
    BY <2>1, <2>2
<1>7. QED
  BY <1>4, <1>5

LEMMA CarryOutTracked ==
    ASSUME ChatInv, NEW p \in Pages, carryOut(p), ~SameNames
    PROVE  Signed' /\ \A q \in Pages : Tracked(q)'
<1>1. TypeOK /\ Signed /\ \A q \in Pages : Tracked(q)
  BY DEF ChatInv
<1> PICK c : c = Head(outbox[p])
  OBVIOUS
<1>2. /\ outbox[p] \in Seq(Commands) /\ outbox[p] # <<>> /\ outbox \in [Pages -> Seq(Commands)]
      /\ outbox' = [outbox EXCEPT ![p] = Tail(@)]
  BY <1>1, Carried
<1>3. c \in Commands /\ c \in Own(p) /\ SignedBy(Tail(outbox[p]), p)
  <2>1. SignedBy(outbox[p], p)
    BY <1>1 DEF Signed
  <2>2. QED
    BY <1>2, <2>1, TailSigned
<1>4. \A q \in Pages : /\ queue(q) \in Seq(Messages)
                       /\ \/ queue(q)' = queue(q)
                          \/ q = p /\ ~IsOwn(c, p) /\ queue(q)' = inbox[q]
                          \/ c \in Messages /\ queue(q)' = Append(queue(q), c)
  <2> SUFFICES ASSUME NEW q \in Pages
               PROVE  /\ queue(q) \in Seq(Messages)
                      /\ \/ queue(q)' = queue(q)
                         \/ q = p /\ ~IsOwn(c, p) /\ queue(q)' = inbox[q]
                         \/ c \in Messages /\ queue(q)' = Append(queue(q), c)
    OBVIOUS
  <2>1. queue(q) \in Seq(Messages)
    BY <1>1, QueueType
  <2>2. c = unlisten => ~IsOwn(c, p)
    BY <1>3, CommandKinds DEF IsOwn
  <2>3. \/ queue(q)' = queue(q)
        \/ q = p /\ c = unlisten /\ queue(q)' = inbox[q]
        \/ c \in Messages /\ queue(q)' = Append(queue(q), c)
    BY <1>1, Carried
  <2>4. QED
    BY <2>1, <2>2, <2>3
<1>5. user' = user /\ leaving' = leaving /\ doubled' = doubled
  BY DEF carryOut, historyVars
<1>6. Signed'
  BY <1>1, <1>2, <1>3 DEF Signed
<1>7. ASSUME NEW q \in Pages
      PROVE  /\ ~IsOwn(c, q) => LeavesIn(queue(q)', q) \subseteq LeavesIn(queue(q), q)
             /\ ~IsOwn(c, q) /\ q # p => LeavesIn(queue(q)', q) = LeavesIn(queue(q), q)
             /\ LeavesIn(queue(q), q) = {} => One(LeavesIn(queue(q)', q))
  <2>1. CASE queue(q)' = queue(q)
    BY <2>1 DEF One
  <2>2. CASE c \in Messages /\ queue(q)' = Append(queue(q), c)
    <3>1. queue(q) \in Seq(Messages)
      BY <1>4
    <3>2. /\ ~IsOwn(c, q) => LeavesIn(Append(queue(q), c), q) = LeavesIn(queue(q), q)
          /\ LeavesIn(queue(q), q) = {} => One(LeavesIn(Append(queue(q), c), q))
      BY <2>2, <3>1, AppendLeaves
    <3>3. QED
      BY <2>2, <3>2
  <2>3. CASE q = p /\ ~IsOwn(c, p) /\ queue(q)' = inbox[q]
    <3>1. inbox[q] \in Seq(Messages) /\ held[q] \in Seq(Messages)
      BY <1>1, QueueType
    <3>2. LeavesIn(inbox[q], q) \subseteq LeavesIn(queue(q), q)
      BY <3>1, ConcatLeaves DEF queue
    <3>3. QED
      BY <2>3, <3>2 DEF One
  <2>4. QED
    BY <1>4, <2>1, <2>2, <2>3
<1>8. ASSUME NEW q \in Pages PROVE Tracked(q)'
  <2>1. CASE q = p
    <3>1. SUFFICES ASSUME p \notin doubled PROVE Tracked(p)'
      BY <1>5, <2>1 DEF Tracked
    <3>2. /\ One(LeavesIn(outbox[p], p)) /\ One(LeavesIn(queue(p), p))
          /\ LeavesIn(outbox[p], p) = {} \/ LeavesIn(queue(p), p) = {}
          /\ ~user[p] \/ p \notin leaving
             => LeavesIn(outbox[p], p) = {} /\ LeavesIn(queue(p), p) = {}
      BY <1>1, <3>1 DEF Tracked
    <3>3. /\ One(LeavesIn(outbox'[p], p))
          /\ IsOwn(c, p) => LeavesIn(outbox'[p], p) = {}
          /\ LeavesIn(outbox[p], p) = {} => ~IsOwn(c, p) /\ LeavesIn(outbox'[p], p) = {}
      <4>1. outbox'[p] = Tail(outbox[p])
        BY <1>2
      <4>2. QED
        BY <1>2, <3>2, <4>1, TailLeaves
    <3>4. CASE IsOwn(c, p)
      <4>1. LeavesIn(queue(p), p) = {} /\ user[p] /\ p \in leaving
        BY <3>2, <3>3, <3>4
      <4>2. One(LeavesIn(queue(p)', p))
        BY <1>7, <4>1
      <4>3. QED
        BY <1>5, <3>3, <3>4, <4>1, <4>2 DEF Tracked
    <3>5. CASE ~IsOwn(c, p)
      <4>1. LeavesIn(queue(p)', p) \subseteq LeavesIn(queue(p), p)
        BY <1>7, <3>5
      <4>2. One(LeavesIn(queue(p)', p))
        BY <3>2, <4>1 DEF One
      <4>3. LeavesIn(queue(p), p) = {} => LeavesIn(queue(p)', p) = {}
        BY <4>1
      <4>4. QED
        BY <1>5, <3>2, <3>3, <4>2, <4>3 DEF Tracked
    <3>6. QED
      BY <3>4, <3>5
  <2>2. CASE q # p
    <3>1. ~IsOwn(c, q)
      BY <1>3, <2>2, OnlyItsOwn
    <3>2. outbox'[q] = outbox[q]
      BY <1>2, <2>2
    <3>3. LeavesIn(queue(q)', q) = LeavesIn(queue(q), q)
      BY <1>7, <2>2, <3>1
    <3>4. QED
      BY <1>1, <1>5, <3>2, <3>3, Elsewhere
  <2>3. QED
    BY <2>1, <2>2
<1>9. QED
  BY <1>6, <1>8

LEMMA PollTracked ==
    ASSUME ChatInv, NEW p \in Pages, doMessages(p)
    PROVE  Signed' /\ \A q \in Pages : Tracked(q)'
<1>1. TypeOK /\ Signed /\ \A q \in Pages : Tracked(q)
  BY DEF ChatInv
<1>2. user' = user /\ outbox' = outbox /\ leaving' = leaving /\ doubled' = doubled
  BY DEF doMessages, historyVars
<1>3. /\ queue(p) = held[p] /\ held[p] \in Seq(Messages)
      /\ \A q \in Pages : q # p => queue(q)' = queue(q)
      /\ \E k \in DOMAIN held[p] : Reordered(held[p], queue(p)', k)
  BY <1>1, PollReorders, QueueType
<1>4. /\ LeavesIn(queue(p), p) = {} => LeavesIn(queue(p)', p) = {}
      /\ One(LeavesIn(queue(p), p)) => One(LeavesIn(queue(p)', p))
  <2> PICK t : t = queue(p)'
    OBVIOUS
  <2>1. PICK k \in DOMAIN held[p] : Reordered(held[p], t, k)
    BY <1>3
  <2>2. QED
    BY <1>3, <2>1, ReorderedLeaves
<1>5. ASSUME NEW q \in Pages PROVE Tracked(q)'
  <2>1. Tracked(q)
    BY <1>1
  <2>2. CASE q = p
    BY <1>2, <1>4, <2>1, <2>2 DEF Tracked
  <2>3. CASE q # p
    BY <1>2, <1>3, <2>1, <2>3 DEF Tracked
  <2>4. QED
    BY <2>2, <2>3
<1>6. Signed'
  BY <1>1, <1>2 DEF Signed
<1>7. QED
  BY <1>5, <1>6

LEMMA ReceiveTracked ==
    ASSUME ChatInv, NEW p \in Pages, receive(p), ~SameNames
    PROVE  Signed' /\ \A q \in Pages : Tracked(q)'
<1>1. TypeOK /\ Signed /\ \A q \in Pages : Tracked(q)
  BY DEF ChatInv
<1> PICK m : m = Head(inbox[p])
  OBVIOUS
<1>2. /\ outbox \in [Pages -> Seq(Commands)] /\ user \in [Pages -> BOOLEAN]
      /\ leaving' = leaving /\ doubled' = doubled
  BY <1>1 DEF receive, TypeOK, historyVars
<1>3. /\ m \in Messages /\ queue(p) \in Seq(Messages) /\ queue(p) # <<>>
      /\ m = Head(queue(p)) /\ queue(p)' = Tail(queue(p))
      /\ \A q \in Pages : q # p => queue(q)' = queue(q)
  BY <1>1, Received
<1>4. \E s \in Seq(Commands) : /\ outbox' = [outbox EXCEPT ![p] = @ \o s]
                               /\ LeavesIn(s, p) = {} /\ SignedBy(s, p)
  <2>1. <<>> \in Seq(Commands) /\ LeavesIn(<<>>, p) = {} /\ SignedBy(<<>>, p)
    BY NothingIn
  <2>2. \A c \in {unlisten, message("ping", p)} :
           <<c>> \in Seq(Commands) /\ LeavesIn(<<c>>, p) = {} /\ SignedBy(<<c>>, p)
    <3>1. "ping" \in {"join", "leave", "ping"}
      OBVIOUS
    <3>2. /\ unlisten \in Commands /\ unlisten \in Own(p) /\ unlisten.type = "unlisten"
          /\ message("ping", p) \in Commands /\ message("ping", p) \in Own(p)
          /\ message("ping", p).type = "ping"
      BY <3>1, MessageType, OwnMessages
    <3>3. ~IsOwn(unlisten, p) /\ ~IsOwn(message("ping", p), p)
      BY <3>2 DEF IsOwn
    <3>4. ASSUME NEW c \in Commands, c \in Own(p), ~IsOwn(c, p)
          PROVE  <<c>> \in Seq(Commands) /\ LeavesIn(<<c>>, p) = {} /\ SignedBy(<<c>>, p)
      BY <3>4, OneCommand, OwnSigned
    <3>5. QED
      BY <3>2, <3>3, <3>4
  <2>3. \E s \in {<<>>, <<unlisten>>, <<message("ping", p)>>} : outbox' = [outbox EXCEPT ![p] = @ \o s]
    <3>1. CASE joinOrLeave(p, m)
      BY <3>1 DEF joinOrLeave, issue
    <3>2. CASE outbox' = outbox
      <4>1. outbox[p] \in Seq(Commands)
        BY <1>2
      <4>2. outbox[p] \o <<>> = outbox[p]
        BY <4>1
      <4>3. QED
        BY <1>2, <3>2, <4>2
    <3>3. QED
      BY <3>1, <3>2 DEF receive, ping
  <2>4. QED
    BY <2>1, <2>2, <2>3
<1>5. /\ \A q \in Pages : q # p => user'[q] = user[q]
      /\ user'[p] = user[p] \/ IsOwn(m, p)
  <2>1. CASE joinOrLeave(p, m)
    BY <1>2, <2>1 DEF joinOrLeave, IsOwn
  <2>2. CASE user' = user
    BY <2>2
  <2>3. QED
    BY <2>1, <2>2 DEF receive, ping
<1>6. PICK s \in Seq(Commands) : /\ outbox' = [outbox EXCEPT ![p] = @ \o s]
                                 /\ LeavesIn(s, p) = {} /\ SignedBy(s, p)
  BY <1>4
<1>7. Signed'
  BY <1>1, <1>2, <1>6, ConcatSigned DEF Signed
<1>8. LeavesIn(outbox'[p], p) = LeavesIn(outbox[p], p)
  <2>1. outbox[p] \in Seq(Commands) /\ outbox'[p] = outbox[p] \o s
    BY <1>2, <1>6
  <2>2. QED
    BY <1>6, <2>1, ConcatLeaves
<1>9. ASSUME NEW q \in Pages PROVE Tracked(q)'
  <2>1. CASE q = p
    <3>1. SUFFICES ASSUME p \notin doubled PROVE Tracked(p)'
      BY <1>2, <2>1 DEF Tracked
    <3>2. /\ One(LeavesIn(outbox[p], p)) /\ One(LeavesIn(queue(p), p))
          /\ LeavesIn(outbox[p], p) = {} \/ LeavesIn(queue(p), p) = {}
          /\ ~user[p] \/ p \notin leaving
             => LeavesIn(outbox[p], p) = {} /\ LeavesIn(queue(p), p) = {}
      BY <1>1, <3>1 DEF Tracked
    <3>3. /\ One(LeavesIn(queue(p)', p))
          /\ IsOwn(m, p) => LeavesIn(queue(p)', p) = {}
          /\ LeavesIn(queue(p), p) = {} => ~IsOwn(m, p) /\ LeavesIn(queue(p)', p) = {}
      BY <1>3, <3>2, TailLeaves
    <3>4. QED
      BY <1>2, <1>5, <1>8, <3>2, <3>3 DEF Tracked
  <2>2. CASE q # p
    <3>1. outbox'[q] = outbox[q] /\ queue(q)' = queue(q)
      BY <1>2, <1>3, <1>6, <2>2
    <3>2. QED
      BY <1>1, <1>2, <1>5, <2>2, <3>1, Elsewhere
  <2>3. QED
    BY <2>1, <2>2
<1>10. QED
  BY <1>7, <1>9

LEMMA ChatStep ==
    ASSUME ChatInv, [Next]_vars, ~SameNames
    PROVE  ChatInv'
<1>1. TypeOK'
  BY ChatTypes DEF ChatInv
<1>2. Signed' /\ \A q \in Pages : Tracked(q)'
  <2>1. CASE UNCHANGED vars
    BY <2>1 DEF vars, historyVars, ChatInv, Signed, Tracked, queue
  <2>2. QED
    BY <2>1, JoinTracked, LeaveTracked, CarryOutTracked, PollTracked, ReceiveTracked DEF Next
<1>3. QED
  BY <1>1, <1>2 DEF ChatInv

\* A page leaves only by its own leave message.
LEMMA LeftByLeave ==
    ASSUME ChatInv, [Next]_vars, NEW p \in Pages, user[p], ~user'[p]
    PROVE  p \in leaving \/ p \in doubled
<1>1. TypeOK /\ Tracked(p)
  BY DEF ChatInv
<1>2. receive(p) /\ IsOwn(Head(inbox[p]), p)
  <2>1. UNCHANGED user => FALSE
    OBVIOUS
  <2>2. PICK q \in Pages : receive(q) \/ join(q)
    BY <2>1 DEF Next, vars, leave, carryOut, doMessages
  <2>3. ~join(q)
    BY <1>1 DEF join, TypeOK
  <2>4. joinOrLeave(q, Head(inbox[q])) /\ inbox[q] # <<>>
    BY <2>1, <2>2, <2>3 DEF receive, ping
  <2>5. q = p /\ Head(inbox[q]).type = "leave" /\ Head(inbox[q]).from = name(q)
    BY <1>1, <2>1, <2>4 DEF joinOrLeave, TypeOK
  <2>6. QED
    BY <2>2, <2>3, <2>5 DEF IsOwn
<1>3. LeavesIn(queue(p), p) # {}
  <2>1. queue(p) \in Seq(Messages) /\ queue(p) # <<>> /\ Head(inbox[p]) = Head(queue(p))
    BY <1>1, <1>2, Received
  <2>2. 1 \in DOMAIN queue(p) /\ Head(queue(p)) = queue(p)[1]
    BY <2>1
  <2>3. QED
    BY <1>2, <2>1, <2>2 DEF LeavesIn
<1>4. QED
  BY <1>1, <1>3 DEF Tracked

\* While names differ, no page leaves the room unless its user asked since it
\* has joined, or asked twice for one join, for any number of pages, joins and
\* leaves (chat.js:74-82).
THEOREM ChatStays ==
    ASSUME ~SameNames
    PROVE  Spec => StaysUntilLeave
<1>1. Init => ChatInv
  BY ChatInitially
<1>2. ChatInv /\ [Next]_vars => ChatInv'
  BY ChatStep
<1>3. ChatInv /\ [Next]_vars
      => [\A p \in Pages : user[p] /\ ~user'[p] => p \in leaving \/ p \in doubled]_vars
  BY LeftByLeave
<1>4. QED
  BY <1>1, <1>2, <1>3, PTL DEF Spec, StaysUntilLeave
-----------------------------------------------------------------------------
(***************************************************************************)
(* Nobody is missing, whatever names are given.  A page p lists a page q,  *)
(* both with a user, or something is still to come: a join of p, which     *)
(* makes everyone announce himself; or an announcement of q, or what makes *)
(* q announce himself; or the announcement has arrived at p, and nothing   *)
(* behind it clears the list; or what clears the list last was overtaken   *)
(* by a ping.                                                              *)
(*                                                                         *)
(* A ping that overtakes a join or a leave overtakes those before it too,  *)
(* so that among the messages held those that were overtaken come first.   *)
(***************************************************************************)
clearing == {"join", "leave"}
Has(s, T) == \E k \in DOMAIN s : s[k].type \in T

\* In s a page subscribes for good, and then joins.
Opens(s) == \E i \in DOMAIN s :
    /\ s[i].type = "listen"
    /\ \A j \in DOMAIN s : j > i => s[j].type # "unlisten"
    /\ \E j \in DOMAIN s : j > i /\ s[j].type = "join"

\* In s there is a ping of a user named n, and no clearing message behind it.
Announces(s, n) == \E i \in DOMAIN s :
    /\ s[i].type = "ping" /\ s[i].from = n
    /\ \A j \in DOMAIN s : j > i => s[j].type \notin clearing

\* From some message on s clears the list only by messages that a ping has overtaken.
EndsLate(s) == \E i \in DOMAIN s :
    /\ s[i].type \in clearing
    /\ \A j \in DOMAIN s : j >= i /\ s[j].type \in clearing => s[j].late
LateFirst(s) == \A i, j \in DOMAIN s : i < j /\ s[j].late /\ s[i].type \in clearing => s[i].late

PingsNamed(s, p) == \A k \in DOMAIN s :
    /\ s[k].type = "ping" => s[k].from = name(p)
    /\ s[k] \in Messages => ~s[k].late

Pinging(q) == Has(outbox[q], {"join", "ping"}) \/ Has(queue(q), clearing)
Shown(p, n) == n \in members[p] \/ p \in outrun
Listed(p, q) ==
    \/ Announces(queue(p), name(q))
    \/ EndsLate(queue(p))
    \/ ~Has(queue(p), clearing) /\ Shown(p, name(q))

Linked(p) ==
    /\ handler[p] = user[p]
    /\ PingsNamed(outbox[p], p)
    /\ user[p] => Opens(outbox[p]) \/ (p \in subscribed /\ ~Has(outbox[p], {"unlisten"}))
ToBeListed(p, q) == Has(outbox[p], {"join"}) \/ Pinging(q) \/ Listed(p, q)

ListInv ==
    /\ TypeOK
    /\ \A p \in Pages : Linked(p) /\ LateFirst(held[p])
    /\ \A p, q \in Pages : user[p] /\ user[q] => ToBeListed(p, q)

-----------------------------------------------------------------------------
LEMMA TailOf ==
    ASSUME NEW S, NEW s \in Seq(S), s # <<>>
    PROVE  /\ DOMAIN s = 1..Len(s) /\ Len(s) \in Nat \ {0} /\ Head(s) = s[1] /\ 1 \in DOMAIN s
           /\ DOMAIN Tail(s) = 1..(Len(s) - 1) /\ Tail(s) \in Seq(S) /\ Head(s) \in S
           /\ \A k \in DOMAIN Tail(s) : k + 1 \in DOMAIN s /\ Tail(s)[k] = s[k + 1]
           /\ \A k \in DOMAIN s : k # 1 => k - 1 \in DOMAIN Tail(s) /\ Tail(s)[k - 1] = s[k]
<1>1. /\ DOMAIN s = 1..Len(s) /\ Len(s) \in Nat \ {0} /\ Head(s) = s[1] /\ 1 \in DOMAIN s
      /\ DOMAIN Tail(s) = 1..(Len(s) - 1) /\ Tail(s) \in Seq(S) /\ Head(s) \in S
  OBVIOUS
<1>2. \A k \in 1..(Len(s) - 1) : k + 1 \in DOMAIN s /\ Tail(s)[k] = s[k + 1]
  BY <1>1
<1>3. ASSUME NEW k \in DOMAIN s, k # 1
      PROVE  k - 1 \in DOMAIN Tail(s) /\ Tail(s)[k - 1] = s[k]
  <2>1. k - 1 \in 1..(Len(s) - 1) /\ (k - 1) + 1 = k
    BY <1>1, <1>3
  <2>2. QED
    BY <1>1, <1>2, <2>1
<1>4. QED
  BY <1>1, <1>2, <1>3

LEMMA ConcatOf ==
    ASSUME NEW S, NEW s \in Seq(S), NEW t \in Seq(S)
    PROVE  /\ DOMAIN s = 1..Len(s) /\ Len(s) \in Nat
           /\ \A k \in DOMAIN s : k \in DOMAIN (s \o t) /\ (s \o t)[k] = s[k]
           /\ \A k \in DOMAIN t : Len(s) + k \in DOMAIN (s \o t) /\ (s \o t)[Len(s) + k] = t[k]
           /\ \A k \in DOMAIN (s \o t) : \/ k \in DOMAIN s
                                         \/ \E j \in DOMAIN t : k = Len(s) + j
<1>1. /\ DOMAIN s = 1..Len(s) /\ Len(s) \in Nat /\ DOMAIN t = 1..Len(t) /\ Len(t) \in Nat
      /\ DOMAIN (s \o t) = 1..(Len(s) + Len(t))
      /\ \A k \in 1..(Len(s) + Len(t)) :
            (s \o t)[k] = IF k <= Len(s) THEN s[k] ELSE t[k - Len(s)]
  OBVIOUS
<1>2. ASSUME NEW k \in DOMAIN t
      PROVE  Len(s) + k \in DOMAIN (s \o t) /\ (s \o t)[Len(s) + k] = t[k]
  <2>1. Len(s) + k \in 1..(Len(s) + Len(t)) /\ ~(Len(s) + k <= Len(s)) /\ (Len(s) + k) - Len(s) = k
    BY <1>1
  <2>2. QED
    BY <1>1, <2>1
<1>3. ASSUME NEW k \in DOMAIN (s \o t), k \notin DOMAIN s
      PROVE  \E j \in DOMAIN t : k = Len(s) + j
  <2>1. k - Len(s) \in DOMAIN t /\ k = Len(s) + (k - Len(s))
    BY <1>1, <1>3
  <2>2. QED
    BY <2>1
<1>4. QED
  BY <1>1, <1>2, <1>3

LEMMA AppendOf ==
    ASSUME NEW S, NEW s \in Seq(S), NEW c \in S
    PROVE  /\ DOMAIN s = 1..Len(s) /\ Len(s) \in Nat
           /\ DOMAIN Append(s, c) = 1..(Len(s) + 1)
           /\ \A k \in DOMAIN s : k \in DOMAIN Append(s, c) /\ Append(s, c)[k] = s[k]
           /\ Append(s, c)[Len(s) + 1] = c
OBVIOUS

\* What is left of a queue after its first element, and with something behind it.
LEMMA TailHas ==
    ASSUME NEW S, NEW s \in Seq(S), s # <<>>, NEW T
    PROVE  /\ Has(Tail(s), T) => Has(s, T)
           /\ Has(s, T) => Has(Tail(s), T) \/ Head(s).type \in T
<1>1. ASSUME Has(Tail(s), T) PROVE Has(s, T)
  <2>1. PICK k \in DOMAIN Tail(s) : Tail(s)[k].type \in T
    BY <1>1 DEF Has
  <2>2. QED
    BY <2>1, TailOf DEF Has
<1>2. ASSUME Has(s, T), Head(s).type \notin T PROVE Has(Tail(s), T)
  <2>1. PICK k \in DOMAIN s : s[k].type \in T
    BY <1>2 DEF Has
  <2>2. k # 1
    BY <1>2, <2>1, TailOf
  <2>3. k - 1 \in DOMAIN Tail(s) /\ Tail(s)[k - 1] = s[k]
    BY <2>2, TailOf
  <2>4. QED
    BY <2>1, <2>3 DEF Has
<1>3. QED
  BY <1>1, <1>2

LEMMA ConcatHas ==
    ASSUME NEW S, NEW s \in Seq(S), NEW t \in Seq(S), NEW T
    PROVE  Has(s \o t, T) <=> Has(s, T) \/ Has(t, T)
<1>1. ASSUME Has(s, T) \/ Has(t, T) PROVE Has(s \o t, T)
  <2>1. ASSUME NEW k \in DOMAIN s, s[k].type \in T PROVE Has(s \o t, T)
    BY <2>1, ConcatOf DEF Has
  <2>2. ASSUME NEW k \in DOMAIN t, t[k].type \in T PROVE Has(s \o t, T)
    <3>1. Len(s) + k \in DOMAIN (s \o t) /\ (s \o t)[Len(s) + k] = t[k]
      BY ConcatOf
    <3>2. QED
      BY <2>2, <3>1 DEF Has
  <2>3. QED
    BY <1>1, <2>1, <2>2 DEF Has
<1>2. ASSUME Has(s \o t, T) PROVE Has(s, T) \/ Has(t, T)
  <2>1. PICK k \in DOMAIN (s \o t) : (s \o t)[k].type \in T
    BY <1>2 DEF Has
  <2>2. CASE k \in DOMAIN s
    BY <2>1, <2>2, ConcatOf DEF Has
  <2>3. CASE \E j \in DOMAIN t : k = Len(s) + j
    BY <2>1, <2>3, ConcatOf DEF Has
  <2>4. QED
    BY <2>2, <2>3, ConcatOf
<1>3. QED
  BY <1>1, <1>2

LEMMA AppendHas ==
    ASSUME NEW S, NEW s \in Seq(S), NEW c \in S, NEW T
    PROVE  Has(Append(s, c), T) <=> Has(s, T) \/ c.type \in T
<1>1. ASSUME Has(s, T) \/ c.type \in T PROVE Has(Append(s, c), T)
  <2>1. Len(s) + 1 \in DOMAIN Append(s, c)
    BY AppendOf
  <2>2. QED
    BY <1>1, <2>1, AppendOf DEF Has
<1>2. ASSUME Has(Append(s, c), T) PROVE Has(s, T) \/ c.type \in T
  <2>1. PICK k \in DOMAIN Append(s, c) : Append(s, c)[k].type \in T
    BY <1>2 DEF Has
  <2>2. k \in DOMAIN s \/ k = Len(s) + 1
    BY AppendOf
  <2>3. QED
    BY <2>1, <2>2, AppendOf DEF Has
<1>3. QED
  BY <1>1, <1>2

LEMMA TailOpens ==
    ASSUME NEW S, NEW s \in Seq(S), s # <<>>, Opens(s)
    PROVE  /\ Has(Tail(s), {"join"})
           /\ Opens(Tail(s)) \/ (Head(s).type = "listen" /\ ~Has(Tail(s), {"unlisten"}))
<1>1. PICK i \in DOMAIN s : /\ s[i].type = "listen"
                            /\ \A j \in DOMAIN s : j > i => s[j].type # "unlisten"
                            /\ \E j \in DOMAIN s : j > i /\ s[j].type = "join"
  BY DEF Opens
<1>2. PICK j \in DOMAIN s : j > i /\ s[j].type = "join"
  BY <1>1
<1>3. /\ i \in Nat \ {0} /\ j \in Nat /\ j # 1
      /\ j - 1 \in DOMAIN Tail(s) /\ Tail(s)[j - 1] = s[j]
  <2>1. i \in Nat \ {0} /\ j \in Nat /\ j # 1
    BY <1>2, TailOf
  <2>2. QED
    BY <2>1, TailOf
<1>4. Has(Tail(s), {"join"})
  BY <1>2, <1>3 DEF Has
<1>5. \A k \in DOMAIN Tail(s) : k \in Nat /\ (k + 1 > i => Tail(s)[k].type # "unlisten")
  <2> TAKE k \in DOMAIN Tail(s)
  <2>1. k \in Nat /\ k + 1 \in DOMAIN s /\ Tail(s)[k] = s[k + 1]
    BY TailOf
  <2>2. QED
    BY <1>1, <2>1
<1>6. CASE i = 1
  <2>1. Head(s).type = "listen"
    BY <1>1, <1>6, TailOf
  <2>2. \A k \in DOMAIN Tail(s) : Tail(s)[k].type # "unlisten"
    <3> TAKE k \in DOMAIN Tail(s)
    <3>1. k \in Nat \ {0}
      BY TailOf
    <3>2. k + 1 > i
      BY <1>6, <3>1
    <3>3. QED
      BY <1>5, <3>2
  <2>3. QED
    BY <1>4, <2>1, <2>2 DEF Has
<1>7. CASE i # 1
  <2>1. i - 1 \in DOMAIN Tail(s) /\ Tail(s)[i - 1] = s[i]
    BY <1>7, TailOf
  <2>2. \A k \in DOMAIN Tail(s) : k > i - 1 => Tail(s)[k].type # "unlisten"
    <3> TAKE k \in DOMAIN Tail(s)
    <3>1. k > i - 1 => k + 1 > i
      BY <1>3, <1>5
    <3>2. QED
      BY <1>5, <3>1
  <2>3. j - 1 > i - 1
    BY <1>2, <1>3
  <2>4. QED
    BY <1>1, <1>2, <1>3, <1>4, <2>1, <2>2, <2>3 DEF Opens
<1>8. QED
  BY <1>6, <1>7

LEMMA ConcatOpens ==
    ASSUME NEW S, NEW s \in Seq(S), NEW t \in Seq(S), Opens(s), ~Has(t, {"unlisten"})
    PROVE  Opens(s \o t)
<1>1. PICK i \in DOMAIN s : /\ s[i].type = "listen"
                            /\ \A j \in DOMAIN s : j > i => s[j].type # "unlisten"
                            /\ \E j \in DOMAIN s : j > i /\ s[j].type = "join"
  BY DEF Opens
<1>2. i \in DOMAIN (s \o t) /\ (s \o t)[i].type = "listen"
  BY <1>1, ConcatOf
<1>3. \A j \in DOMAIN (s \o t) : j > i => (s \o t)[j].type # "unlisten"
  <2> TAKE j \in DOMAIN (s \o t)
  <2>1. CASE j \in DOMAIN s
    BY <1>1, <2>1, ConcatOf
  <2>2. CASE \E k \in DOMAIN t : j = Len(s) + k
    BY <2>2, ConcatOf DEF Has
  <2>3. QED
    BY <2>1, <2>2, ConcatOf
<1>4. \E j \in DOMAIN (s \o t) : j > i /\ (s \o t)[j].type = "join"
  BY <1>1, ConcatOf
<1>5. QED
  BY <1>2, <1>3, <1>4 DEF Opens

LEMMA TailAnnounces ==
    ASSUME NEW S, NEW s \in Seq(S), s # <<>>, NEW n, Announces(s, n)
    PROVE  \/ Announces(Tail(s), n)
           \/ /\ Head(s).type = "ping" /\ Head(s).from = n
              /\ ~Has(Tail(s), clearing)
<1>1. PICK i \in DOMAIN s : /\ s[i].type = "ping" /\ s[i].from = n
                            /\ \A j \in DOMAIN s : j > i => s[j].type \notin clearing
  BY DEF Announces
<1>2. i \in Nat \ {0}
  BY TailOf
<1>3. \A k \in DOMAIN Tail(s) : k \in Nat \ {0} /\ (k + 1 > i => Tail(s)[k].type \notin clearing)
  <2> TAKE k \in DOMAIN Tail(s)
  <2>1. k \in Nat \ {0} /\ k + 1 \in DOMAIN s /\ Tail(s)[k] = s[k + 1]
    BY TailOf
  <2>2. QED
    BY <1>1, <2>1
<1>4. CASE i = 1
  <2>1. \A k \in DOMAIN Tail(s) : Tail(s)[k].type \notin clearing
    BY <1>3, <1>4
  <2>2. QED
    BY <1>1, <1>4, <2>1, TailOf DEF Has
<1>5. CASE i # 1
  <2>1. i - 1 \in DOMAIN Tail(s) /\ Tail(s)[i - 1] = s[i]
    BY <1>5, TailOf
  <2>2. \A k \in DOMAIN Tail(s) : k > i - 1 => Tail(s)[k].type \notin clearing
    BY <1>2, <1>3
  <2>3. QED
    BY <1>1, <2>1, <2>2 DEF Announces
<1>6. QED
  BY <1>4, <1>5

LEMMA AppendAnnounces ==
    ASSUME NEW S, NEW s \in Seq(S), NEW c \in S, NEW n, c.type = "ping"
    PROVE  /\ Announces(s, n) => Announces(Append(s, c), n)
           /\ c.from = n => Announces(Append(s, c), n)
<1>1. "ping" \notin clearing
  BY DEF clearing
<1>2. ASSUME c.from = n PROVE Announces(Append(s, c), n)
  <2>1. /\ Len(s) + 1 \in DOMAIN Append(s, c) /\ Append(s, c)[Len(s) + 1] = c
        /\ \A j \in DOMAIN Append(s, c) : ~(j > Len(s) + 1)
    BY AppendOf
  <2>2. QED
    BY <1>2, <2>1 DEF Announces
<1>3. ASSUME Announces(s, n) PROVE Announces(Append(s, c), n)
  <2>1. PICK i \in DOMAIN s : /\ s[i].type = "ping" /\ s[i].from = n
                              /\ \A j \in DOMAIN s : j > i => s[j].type \notin clearing
    BY <1>3 DEF Announces
  <2>2. \A j \in DOMAIN Append(s, c) : j \in DOMAIN s \/ j = Len(s) + 1
    BY AppendOf
  <2>3. \A j \in DOMAIN Append(s, c) : j > i => Append(s, c)[j].type \notin clearing
    BY <1>1, <2>1, <2>2, AppendOf
  <2>4. QED
    BY <2>1, <2>3, AppendOf DEF Announces
<1>4. QED
  BY <1>2, <1>3

LEMMA TailEndsLate ==
    ASSUME NEW S, NEW s \in Seq(S), s # <<>>, EndsLate(s)
    PROVE  \/ EndsLate(Tail(s))
           \/ Head(s).type \in clearing /\ Head(s).late /\ ~Has(Tail(s), clearing)
<1>1. PICK i \in DOMAIN s : /\ s[i].type \in clearing
                            /\ \A j \in DOMAIN s : j >= i /\ s[j].type \in clearing => s[j].late
  BY DEF EndsLate
<1>2. i \in Nat \ {0} /\ \A k \in DOMAIN Tail(s) : k \in Nat
  BY TailOf
<1>3. \A k \in DOMAIN Tail(s) : k + 1 >= i /\ Tail(s)[k].type \in clearing => Tail(s)[k].late
  <2> TAKE k \in DOMAIN Tail(s)
  <2>1. k + 1 \in DOMAIN s /\ Tail(s)[k] = s[k + 1]
    BY TailOf
  <2>2. QED
    BY <1>1, <2>1
<1>4. CASE i = 1
  <2>1. Head(s).type \in clearing /\ Head(s).late
    BY <1>1, <1>4, TailOf
  <2>2. ASSUME Has(Tail(s), clearing) PROVE EndsLate(Tail(s))
    <3>1. PICK k \in DOMAIN Tail(s) : Tail(s)[k].type \in clearing
      BY <2>2 DEF Has
    <3>2. \A j \in DOMAIN Tail(s) : Tail(s)[j].type \in clearing => Tail(s)[j].late
      BY <1>2, <1>3, <1>4
    <3>3. QED
      BY <3>1, <3>2 DEF EndsLate
  <2>3. QED
    BY <2>1, <2>2
<1>5. CASE i # 1
  <2>1. i - 1 \in DOMAIN Tail(s) /\ Tail(s)[i - 1] = s[i]
    BY <1>5, TailOf
  <2>2. \A j \in DOMAIN Tail(s) : j >= i - 1 /\ Tail(s)[j].type \in clearing => Tail(s)[j].late
    <3> TAKE j \in DOMAIN Tail(s)
    <3>1. j >= i - 1 => j + 1 >= i
      BY <1>2
    <3>2. QED
      BY <1>3, <3>1
  <2>3. QED
    BY <1>1, <2>1, <2>2 DEF EndsLate
<1>6. QED
  BY <1>4, <1>5

LEMMA AppendEndsLate ==
    ASSUME NEW S, NEW s \in Seq(S), NEW c \in S, c.type \notin clearing, EndsLate(s)
    PROVE  EndsLate(Append(s, c))
<1>1. PICK i \in DOMAIN s : /\ s[i].type \in clearing
                            /\ \A j \in DOMAIN s : j >= i /\ s[j].type \in clearing => s[j].late
  BY DEF EndsLate
<1>2. \A j \in DOMAIN Append(s, c) : j \in DOMAIN s \/ j = Len(s) + 1
  BY AppendOf
<1>3. \A j \in DOMAIN Append(s, c) :
         j >= i /\ Append(s, c)[j].type \in clearing => Append(s, c)[j].late
  BY <1>1, <1>2, AppendOf
<1>4. QED
  BY <1>1, <1>3, AppendOf DEF EndsLate

LEMMA AppendLateFirst ==
    ASSUME NEW S, NEW s \in Seq(S), NEW c \in S, ~c.late, LateFirst(s)
    PROVE  LateFirst(Append(s, c))
<1> SUFFICES ASSUME NEW i \in DOMAIN Append(s, c), NEW j \in DOMAIN Append(s, c), i < j,
                    Append(s, c)[j].late, Append(s, c)[i].type \in clearing
             PROVE  Append(s, c)[i].late
  BY DEF LateFirst
<1>1. j # Len(s) + 1
  BY AppendOf
<1>2. j \in DOMAIN s /\ i \in DOMAIN s
  BY <1>1, AppendOf
<1>3. Append(s, c)[i] = s[i] /\ Append(s, c)[j] = s[j]
  BY <1>2, AppendOf
<1>4. QED
  BY <1>2, <1>3 DEF LateFirst

-----------------------------------------------------------------------------
\* Where a message of the queue is after a poll.
place(k, i) == IF i = k THEN 1 ELSE IF i < k THEN i + 1 ELSE i

LEMMA PlaceOf ==
    ASSUME NEW n \in Nat, NEW k \in 1..n, NEW i \in 1..n
    PROVE  /\ place(k, i) \in 1..n /\ source(k, place(k, i)) = i
           /\ i # k => \A j \in 1..n : j > place(k, i) => source(k, j) > i
BY DEF place, source

LEMMA FrontOf ==
    ASSUME NEW n \in Nat, NEW k \in 1..n, NEW j \in 1..n
    PROVE  /\ j > 1 => source(k, j) # k
           /\ source(k, j) \in 1..n
BY DEF source

LEMMA ReorderedHas ==
    ASSUME NEW s \in Seq(Messages), NEW t, NEW k \in DOMAIN s, Reordered(s, t, k), NEW T
    PROVE  Has(s, T) <=> Has(t, T)
<1>1. /\ DOMAIN s = 1..Len(s) /\ Len(s) \in Nat /\ DOMAIN t = DOMAIN s
      /\ \A i \in DOMAIN t : source(k, i) \in DOMAIN s /\ t[i].type = s[source(k, i)].type
  BY ReorderedKinds
<1>2. ASSUME NEW i \in DOMAIN s, s[i].type \in T PROVE Has(t, T)
  <2>1. place(k, i) \in DOMAIN t /\ source(k, place(k, i)) = i
    BY <1>1, PlaceOf
  <2>2. t[place(k, i)].type = s[i].type
    BY <1>1, <2>1
  <2>3. QED
    BY <1>2, <2>1, <2>2 DEF Has
<1>3. QED
  BY <1>1, <1>2 DEF Has

\* An announcement that overtakes what clears the list leaves it marked.
LEMMA ReorderedAnnounces ==
    ASSUME NEW s \in Seq(Messages), NEW t, NEW k \in DOMAIN s, Reordered(s, t, k), NEW n,
           Announces(s, n)
    PROVE  Announces(t, n) \/ EndsLate(t)
<1>1. /\ DOMAIN s = 1..Len(s) /\ Len(s) \in Nat /\ DOMAIN t = DOMAIN s
      /\ \A i \in DOMAIN t : /\ source(k, i) \in DOMAIN s
                             /\ t[i].type = s[source(k, i)].type
                             /\ t[i].from = s[source(k, i)].from
                             /\ t[i].late = overtaken(s, k)[source(k, i)].late
  BY ReorderedKinds
<1>2. PICK i \in DOMAIN s : /\ s[i].type = "ping" /\ s[i].from = n
                            /\ \A j \in DOMAIN s : j > i => s[j].type \notin clearing
  BY DEF Announces
<1>3. CASE i # k
  <2>1. /\ place(k, i) \in DOMAIN t /\ source(k, place(k, i)) = i
        /\ \A j \in DOMAIN t : j > place(k, i) => source(k, j) > i
    <3>1. k \in 1..Len(s) /\ i \in 1..Len(s) /\ Len(s) \in Nat /\ DOMAIN t = 1..Len(s)
      BY <1>1
    <3>2. place(k, i) \in 1..Len(s) /\ source(k, place(k, i)) = i
      BY <3>1, PlaceOf
    <3>3. \A j \in 1..Len(s) : j > place(k, i) => source(k, j) > i
      BY <1>3, <3>1, PlaceOf
    <3>4. QED
      BY <3>1, <3>2, <3>3
  <2>2. t[place(k, i)].type = "ping" /\ t[place(k, i)].from = n
    BY <1>1, <1>2, <2>1
  <2>3. \A j \in DOMAIN t : j > place(k, i) => t[j].type \notin clearing
    BY <1>1, <1>2, <2>1
  <2>4. QED
    BY <2>1, <2>2, <2>3 DEF Announces
<1>4. CASE i = k
  <2>1. 1 \in DOMAIN t /\ source(k, 1) = k
    BY <1>1 DEF source
  <2>2. \A j \in DOMAIN t : j > 1 => source(k, j) # k
    BY <1>1, FrontOf
  <2>3. CASE \A j \in DOMAIN s : j < k => s[j].type \notin clearing
    <3>1. \A j \in DOMAIN t : j > 1 => t[j].type \notin clearing
      <4> SUFFICES ASSUME NEW j \in DOMAIN t, j > 1 PROVE t[j].type \notin clearing
        OBVIOUS
      <4>1. source(k, j) \in DOMAIN s /\ source(k, j) # k
        BY <1>1, <2>2
      <4>2. source(k, j) < k \/ source(k, j) > k
        BY <1>1, <4>1
      <4>3. QED
        BY <1>1, <1>2, <1>4, <2>3, <4>1, <4>2
    <3>2. t[1].type = "ping" /\ t[1].from = n
      BY <1>1, <1>2, <1>4, <2>1
    <3>3. QED
      BY <2>1, <3>1, <3>2 DEF Announces
  <2>4. ASSUME NEW a \in DOMAIN s, a < k, s[a].type \in clearing PROVE EndsLate(t)
    <3>1. /\ place(k, a) \in DOMAIN t /\ source(k, place(k, a)) = a /\ place(k, a) > 1
      <4>1. place(k, a) \in DOMAIN t /\ source(k, place(k, a)) = a
        BY <1>1, PlaceOf
      <4>2. place(k, a) > 1
        BY <1>1, <2>4 DEF place
      <4>3. QED
        BY <4>1, <4>2
    <3>2. t[place(k, a)].type \in clearing
      BY <1>1, <2>4, <3>1
    <3>3. ASSUME NEW j \in DOMAIN t, j >= place(k, a), t[j].type \in clearing
          PROVE  t[j].late
      <4>1. j > 1
        BY <1>1, <3>1, <3>3
      <4>2. source(k, j) \in DOMAIN s /\ source(k, j) # k /\ s[source(k, j)].type \in clearing
        BY <1>1, <2>2, <3>3, <4>1
      <4>3. source(k, j) < k
        BY <1>1, <1>2, <1>4, <4>2
      <4>4. s[source(k, j)].type # "ping"
        BY <4>2 DEF clearing
      <4>5. overtaken(s, k)[source(k, j)].late
        BY <1>2, <1>4, <4>2, <4>3, <4>4, Marked
      <4>6. QED
        BY <1>1, <4>5
    <3>4. QED
      BY <3>1, <3>2, <3>3 DEF EndsLate
  <2>5. QED
    BY <2>3, <2>4
<1>5. QED
  BY <1>3, <1>4

LEMMA ReorderedEndsLate ==
    ASSUME NEW s \in Seq(Messages), NEW t, NEW k \in DOMAIN s, Reordered(s, t, k),
           LateFirst(s), EndsLate(s)
    PROVE  EndsLate(t)
<1>1. /\ DOMAIN s = 1..Len(s) /\ Len(s) \in Nat /\ DOMAIN t = DOMAIN s
      /\ \A i \in DOMAIN t : /\ source(k, i) \in DOMAIN s
                             /\ t[i].type = s[source(k, i)].type
                             /\ t[i].late = overtaken(s, k)[source(k, i)].late
  BY ReorderedKinds
<1>2. PICK i \in DOMAIN s : /\ s[i].type \in clearing
                            /\ \A j \in DOMAIN s : j >= i /\ s[j].type \in clearing => s[j].late
  BY DEF EndsLate
<1>3. \A j \in DOMAIN s : s[j].type \in clearing => s[j].late
  <2> SUFFICES ASSUME NEW j \in DOMAIN s, s[j].type \in clearing PROVE s[j].late
    OBVIOUS
  <2>1. s[i].late
    BY <1>1, <1>2
  <2>2. j >= i \/ j < i
    BY <1>1
  <2>3. QED
    BY <1>2, <2>1, <2>2 DEF LateFirst
<1>4. \A j \in DOMAIN s : s[j].late => overtaken(s, k)[j].late
  BY Marked
<1>5. \A j \in DOMAIN t : t[j].type \in clearing => t[j].late
  BY <1>1, <1>3, <1>4
<1>6. \E j \in DOMAIN t : t[j].type \in clearing
  <2>1. Has(s, clearing)
    BY <1>2 DEF Has
  <2>2. Has(t, clearing)
    BY <2>1, ReorderedHas
  <2>3. QED
    BY <2>2 DEF Has
<1>7. QED
  BY <1>5, <1>6 DEF EndsLate

LEMMA OvertakenLateFirst ==
    ASSUME NEW s \in Seq(Messages), NEW k \in DOMAIN s, LateFirst(s), NEW h,
           \A i, j \in DOMAIN h : i < j => \E a, b \in DOMAIN s :
                /\ a < b /\ h[i] = overtaken(s, k)[a] /\ h[j] = overtaken(s, k)[b]
    PROVE  LateFirst(h)
<1> SUFFICES ASSUME NEW i \in DOMAIN h, NEW j \in DOMAIN h, i < j,
                    h[j].late, h[i].type \in clearing
             PROVE  h[i].late
  BY DEF LateFirst
<1>1. PICK a \in DOMAIN s, b \in DOMAIN s :
         a < b /\ h[i] = overtaken(s, k)[a] /\ h[j] = overtaken(s, k)[b]
  OBVIOUS
<1>2. DOMAIN s = 1..Len(s) /\ Len(s) \in Nat
  OBVIOUS
<1>3. /\ s[a].type \in clearing
      /\ s[b].late \/ (b < k /\ s[k].type = "ping")
      /\ s[a].late \/ (a < k /\ s[k].type = "ping" /\ s[a].type # "ping")
         => overtaken(s, k)[a].late
  <2>1. \A m \in DOMAIN s :
           /\ overtaken(s, k)[m].type = s[m].type
           /\ overtaken(s, k)[m].late
              = (s[m].late \/ (m < k /\ s[k].type = "ping" /\ s[m].type # "ping"))
    BY Marked
  <2>2. h[i].type = s[a].type /\ overtaken(s, k)[b].late
    BY <1>1, <2>1
  <2>3. s[b].late \/ (b < k /\ s[k].type = "ping" /\ s[b].type # "ping")
    BY <2>1, <2>2
  <2>4. QED
    BY <2>1, <2>2, <2>3
<1>4. s[a].type # "ping"
  BY <1>3 DEF clearing
<1>5. CASE s[b].late
  <2>1. s[a].late
    BY <1>1, <1>3, <1>5 DEF LateFirst
  <2>2. QED
    BY <1>1, <1>3, <2>1
<1>6. CASE b < k /\ s[k].type = "ping"
  <2>1. a < k
    BY <1>1, <1>2, <1>6
  <2>2. QED
    BY <1>1, <1>3, <1>4, <1>6, <2>1
<1>7. QED
  BY <1>3, <1>5, <1>6

-----------------------------------------------------------------------------
LEMMA MessageKinds ==
    ASSUME NEW p \in Pages, NEW t \in {"join", "leave", "ping"}
    PROVE  message(t, p).type = t /\ message(t, p).from = name(p)
BY DEF message

LEMMA OneHas ==
    ASSUME NEW c, NEW T
    PROVE  Has(<<c>>, T) <=> c.type \in T
<1>1. DOMAIN <<c>> = {1} /\ <<c>>[1] = c
  OBVIOUS
<1>2. QED
  BY <1>1 DEF Has

LEMMA NameKnown ==
    ASSUME NEW p \in Pages PROVE name(p) \in Names
BY DEF name, Names

\* Commands issued behind those on their way take nothing from a page, unless
\* it leaves.
LEMMA IssuedNamed ==
    ASSUME NEW s \in Seq(Commands), NEW t \in Seq(Commands), NEW p \in Pages,
           PingsNamed(s, p), PingsNamed(t, p)
    PROVE  PingsNamed(s \o t, p)
<1> SUFFICES ASSUME NEW k \in DOMAIN (s \o t)
             PROVE  /\ (s \o t)[k].type = "ping" => (s \o t)[k].from = name(p)
                    /\ (s \o t)[k] \in Messages => ~(s \o t)[k].late
  BY DEF PingsNamed
<1>1. CASE k \in DOMAIN s
  BY <1>1, ConcatOf DEF PingsNamed
<1>2. CASE \E j \in DOMAIN t : k = Len(s) + j
  BY <1>2, ConcatOf DEF PingsNamed
<1>3. QED
  BY <1>1, <1>2, ConcatOf

LEMMA CarriedNamed ==
    ASSUME NEW s \in Seq(Commands), s # <<>>, NEW p \in Pages, PingsNamed(s, p)
    PROVE  /\ PingsNamed(Tail(s), p)
           /\ Head(s).type = "ping" => Head(s).from = name(p)
           /\ Head(s) \in Messages => ~Head(s).late
BY TailOf DEF PingsNamed

LEMMA ListInitially == Init => ListInv
<1> SUFFICES ASSUME Init PROVE ListInv
  OBVIOUS
<1>1. TypeOK
  BY ChatInitially DEF ChatInv
<1>2. ASSUME NEW p \in Pages PROVE ~user[p] /\ handler[p] = user[p] /\ outbox[p] = <<>> /\ held[p] = <<>>
  BY DEF Init
<1>3. \A p \in Pages : Linked(p) /\ LateFirst(held[p])
  BY <1>2 DEF Linked, PingsNamed, LateFirst
<1>4. QED
  BY <1>1, <1>2, <1>3 DEF ListInv

\* What is to come for a pair of pages stays when both only get more to send.
LEMMA StillToBeListed ==
    ASSUME TypeOK, NEW p \in Pages, NEW q \in Pages, ToBeListed(p, q),
           queue(p)' = queue(p), queue(q)' = queue(q), Shown(p, name(q))' = Shown(p, name(q)),
           NEW s \in Seq(Commands), outbox'[p] = outbox[p] \o s,
           NEW t \in Seq(Commands), outbox'[q] = outbox[q] \o t
    PROVE  ToBeListed(p, q)'
<1>1. outbox[p] \in Seq(Commands) /\ outbox[q] \in Seq(Commands)
  BY DEF TypeOK
<1>2. /\ Has(outbox[p], {"join"}) => Has(outbox'[p], {"join"})
      /\ Has(outbox[q], {"join", "ping"}) => Has(outbox'[q], {"join", "ping"})
  BY <1>1, ConcatHas
<1>3. QED
  BY <1>2 DEF ToBeListed, Pinging, Listed

LEMMA NothingIssued ==
    ASSUME TypeOK, NEW p \in Pages
    PROVE  <<>> \in Seq(Commands) /\ outbox[p] = outbox[p] \o <<>>
BY DEF TypeOK

LEMMA JoinOpens ==
    ASSUME NEW S, NEW s \in Seq(S), NEW t \in Seq(S),
           DOMAIN t = {1, 2}, t[1].type = "listen", t[2].type = "join"
    PROVE  Opens(s \o t)
<1> DEFINE o == s \o t
           n == Len(s)
<1>1. /\ n \in Nat /\ DOMAIN s = 1..n
      /\ \A k \in DOMAIN o : k \in DOMAIN s \/ \E j \in DOMAIN t : k = n + j
  BY ConcatOf
<1>2. ASSUME NEW k \in DOMAIN t
      PROVE  n + k \in DOMAIN o /\ o[n + k] = t[k]
  BY ConcatOf
<1> HIDE DEF o, n
<1> 1 \in DOMAIN t /\ 2 \in DOMAIN t
  OBVIOUS
<1>3. n + 1 \in DOMAIN o /\ o[n + 1] = t[1]
  BY <1>2
<1>4. n + 2 \in DOMAIN o /\ o[n + 2] = t[2]
  BY <1>2
<1>5. \A j \in DOMAIN o : j > n + 1 => j = n + 2
  <2> SUFFICES ASSUME NEW j \in DOMAIN o, j > n + 1 PROVE j = n + 2
    OBVIOUS
  <2>1. j \notin 1..n
    BY <1>1
  <2>2. PICK k \in DOMAIN t : j = n + k
    BY <1>1, <2>1
  <2>3. QED
    BY <1>1, <2>2
<1>6. n + 2 > n + 1
  BY <1>1
<1>7. Opens(o)
  BY <1>3, <1>4, <1>5, <1>6 DEF Opens
<1>8. QED
  BY <1>7 DEF o

LEMMA JoinListed ==
    ASSUME ListInv, NEW p \in Pages, join(p)
    PROVE  /\ \A q \in Pages : Linked(q)' /\ LateFirst(held'[q])
           /\ \A r, q \in Pages : user'[r] /\ user'[q] => ToBeListed(r, q)'
<1>0. PICK s : s = <<listen, message("join", p)>>
  OBVIOUS
<1>1. TypeOK /\ \A q \in Pages : Linked(q) /\ LateFirst(held[q])
  BY DEF ListInv
<1>2. /\ s \in Seq(Commands) /\ DOMAIN s = {1, 2}
      /\ s[1].type = "listen" /\ s[2].type = "join"
      /\ s[1] \notin Messages /\ ~s[2].late
  <2>1. "join" \in {"join", "leave", "ping"}
    OBVIOUS
  <2>2. /\ message("join", p) \in Commands /\ listen \in Commands
        /\ message("join", p).type = "join" /\ listen.type = "listen"
        /\ ~message("join", p).late /\ listen \notin Messages
    BY <2>1, MessageType, CommandKinds
  <2>3. QED
    BY <1>0, <2>2
<1>3. /\ outbox' = [outbox EXCEPT ![p] = @ \o s] /\ outbox \in [Pages -> Seq(Commands)]
      /\ user' = [user EXCEPT ![p] = TRUE] /\ handler' = [handler EXCEPT ![p] = TRUE]
      /\ user \in [Pages -> BOOLEAN] /\ handler \in [Pages -> BOOLEAN]
      /\ UNCHANGED <<members, subscribed, inbox, held, outrun>>
  BY <1>0, <1>1 DEF join, issue, TypeOK
<1>4. outbox'[p] = outbox[p] \o s /\ outbox[p] \in Seq(Commands)
  BY <1>3
<1>5. Has(s, {"join"}) /\ Has(s, {"join", "ping"})
  BY <1>2 DEF Has
<1>6. Has(outbox'[p], {"join"}) /\ Has(outbox'[p], {"join", "ping"})
  <2>1. ASSUME NEW T, Has(s, T) PROVE Has(outbox'[p], T)
    <3>1. Has(outbox[p] \o s, T) <=> Has(outbox[p], T) \/ Has(s, T)
      BY <1>2, <1>4, ConcatHas
    <3>2. QED
      BY <1>4, <2>1, <3>1
  <2>2. QED
    BY <1>5, <2>1
<1>7. Opens(outbox'[p])
  <2>1. Opens(outbox[p] \o s)
    BY <1>2, <1>4, JoinOpens
  <2>2. QED
    BY <1>4, <2>1
<1>8. PingsNamed(outbox'[p], p)
  <2>1. PingsNamed(s, p)
    BY <1>2 DEF PingsNamed
  <2>2. PingsNamed(outbox[p], p)
    BY <1>1 DEF Linked
  <2>3. PingsNamed(outbox[p] \o s, p)
    BY <1>2, <1>4, <2>1, <2>2, IssuedNamed
  <2>4. QED
    BY <1>4, <2>3
<1>9. ASSUME NEW q \in Pages PROVE Linked(q)'
  <2>1. CASE q = p
    BY <1>3, <1>7, <1>8, <2>1 DEF Linked
  <2>2. CASE q # p
    <3>1. outbox'[q] = outbox[q] /\ user'[q] = user[q] /\ handler'[q] = handler[q]
      BY <1>3, <2>2
    <3>2. QED
      BY <1>1, <1>3, <3>1 DEF Linked
  <2>3. QED
    BY <2>1, <2>2
<1>10. ASSUME NEW r \in Pages, NEW q \in Pages, user'[r], user'[q]
       PROVE  ToBeListed(r, q)'
  <2>1. CASE r = p \/ q = p
    BY <1>6, <2>1 DEF ToBeListed, Pinging
  <2>2. CASE r # p /\ q # p
    <3>1. /\ outbox'[r] = outbox[r] /\ outbox'[q] = outbox[q] /\ user[r] /\ user[q]
          /\ queue(r)' = queue(r) /\ queue(q)' = queue(q) /\ members' = members /\ outrun' = outrun
      BY <1>3, <1>10, <2>2 DEF queue
    <3>2. ToBeListed(r, q)
      BY <3>1 DEF ListInv
    <3>3. QED
      BY <1>1, <3>1, <3>2 DEF ToBeListed, Pinging, Listed, Shown
  <2>3. QED
    BY <2>1, <2>2
<1>11. QED
  BY <1>1, <1>3, <1>9, <1>10

LEMMA LeaveListed ==
    ASSUME ListInv, NEW p \in Pages, leave(p)
    PROVE  /\ \A q \in Pages : Linked(q)' /\ LateFirst(held'[q])
           /\ \A r, q \in Pages : user'[r] /\ user'[q] => ToBeListed(r, q)'
<1>0. PICK s : s = <<message("leave", p)>>
  OBVIOUS
<1>1. TypeOK /\ \A q \in Pages : Linked(q) /\ LateFirst(held[q])
  BY DEF ListInv
<1>2. s \in Seq(Commands) /\ PingsNamed(s, p) /\ ~Has(s, {"unlisten"})
  <2>1. "leave" \in {"join", "leave", "ping"}
    OBVIOUS
  <2>2. /\ message("leave", p) \in Commands /\ message("leave", p).type = "leave"
        /\ ~message("leave", p).late
    BY <2>1, MessageType
  <2>3. ~Has(s, {"unlisten"})
    BY <1>0, <2>2, OneHas
  <2>4. PingsNamed(s, p)
    BY <1>0, <2>2 DEF PingsNamed
  <2>5. QED
    BY <1>0, <2>2, <2>3, <2>4
<1>3. /\ outbox' = [outbox EXCEPT ![p] = @ \o s] /\ outbox \in [Pages -> Seq(Commands)]
      /\ UNCHANGED <<user, handler, members, subscribed, inbox, held, outrun>>
  BY <1>0, <1>1 DEF leave, issue, TypeOK
<1>4. \A q \in Pages : \E t \in Seq(Commands) :
          outbox'[q] = outbox[q] \o t /\ PingsNamed(t, q) /\ ~Has(t, {"unlisten"})
  <2> TAKE q \in Pages
  <2>1. CASE q = p
    BY <1>2, <1>3, <2>1
  <2>2. CASE q # p
    <3>1. <<>> \in Seq(Commands) /\ outbox'[q] = outbox[q] \o <<>>
      BY <1>1, <1>3, <2>2, NothingIssued
    <3>2. PingsNamed(<<>>, q) /\ ~Has(<<>>, {"unlisten"})
      BY DEF PingsNamed, Has
    <3>3. QED
      BY <3>1, <3>2
  <2>3. QED
    BY <2>1, <2>2
<1>5. ASSUME NEW q \in Pages PROVE Linked(q)'
  <2>1. PICK t \in Seq(Commands) :
            outbox'[q] = outbox[q] \o t /\ PingsNamed(t, q) /\ ~Has(t, {"unlisten"})
    BY <1>4
  <2>2. outbox[q] \in Seq(Commands) /\ Linked(q)
    BY <1>1, <1>3
  <2>3. PingsNamed(outbox'[q], q)
    BY <2>1, <2>2, IssuedNamed DEF Linked
  <2>4. Opens(outbox[q]) => Opens(outbox'[q])
    BY <2>1, <2>2, ConcatOpens
  <2>5. ~Has(outbox[q], {"unlisten"}) => ~Has(outbox'[q], {"unlisten"})
    BY <2>1, <2>2, ConcatHas
  <2>6. QED
    BY <1>3, <2>2, <2>3, <2>4, <2>5 DEF Linked
<1>6. ASSUME NEW r \in Pages, NEW q \in Pages, user'[r], user'[q]
      PROVE  ToBeListed(r, q)'
  <2>1. ToBeListed(r, q)
    BY <1>3, <1>6 DEF ListInv
  <2>2. PICK s1 \in Seq(Commands), s2 \in Seq(Commands) :
            outbox'[r] = outbox[r] \o s1 /\ outbox'[q] = outbox[q] \o s2
    BY <1>4
  <2>3. /\ queue(r)' = queue(r) /\ queue(q)' = queue(q)
        /\ Shown(r, name(q))' = Shown(r, name(q))
    BY <1>3 DEF queue, Shown, name
  <2>4. QED
    BY <1>1, <2>1, <2>2, <2>3, StillToBeListed
<1>7. QED
  BY <1>1, <1>3, <1>5, <1>6

\* A page with a user that does not hear the topic has a join on its way.
LEMMA HearsOrJoins ==
    ASSUME NEW p \in Pages, TypeOK, Linked(p), user[p], p \notin subscribed
    PROVE  Opens(outbox[p]) /\ Has(outbox[p], {"join"})
<1>1. Opens(outbox[p])
  BY DEF Linked
<1>2. PICK i \in DOMAIN outbox[p] : \E j \in DOMAIN outbox[p] : outbox[p][j].type = "join"
  BY <1>1 DEF Opens
<1>3. QED
  BY <1>1, <1>2 DEF Has

LEMMA CarryOutListed ==
    ASSUME ListInv, NEW p \in Pages, carryOut(p)
    PROVE  /\ \A q \in Pages : Linked(q)' /\ LateFirst(held'[q])
           /\ \A r, q \in Pages : user'[r] /\ user'[q] => ToBeListed(r, q)'
<1> PICK c : c = Head(outbox[p])
  OBVIOUS
<1>1. TypeOK /\ \A q \in Pages : Linked(q) /\ LateFirst(held[q])
  BY DEF ListInv
<1>2. /\ outbox[p] \in Seq(Commands) /\ outbox[p] # <<>> /\ outbox \in [Pages -> Seq(Commands)]
      /\ outbox' = [outbox EXCEPT ![p] = Tail(@)] /\ outbox'[p] = Tail(outbox[p])
      /\ \A q \in Pages : q # p => outbox'[q] = outbox[q]
      /\ \A q \in Pages : queue(q) \in Seq(Messages) /\ held[q] \in Seq(Messages)
      /\ user' = user /\ handler' = handler /\ members' = members /\ outrun' = outrun
  BY <1>1, QueueType DEF carryOut, TypeOK
<1>3. /\ c \in Commands
      /\ PingsNamed(outbox'[p], p) /\ (c.type = "ping" => c.from = name(p))
      /\ c \in Messages => ~c.late
  <2>1. PingsNamed(outbox[p], p)
    BY <1>1 DEF Linked
  <2>2. c \in Commands
    BY <1>2, TailOf
  <2>3. /\ PingsNamed(Tail(outbox[p]), p)
        /\ Head(outbox[p]).type = "ping" => Head(outbox[p]).from = name(p)
        /\ Head(outbox[p]) \in Messages => ~Head(outbox[p]).late
    BY <1>2, <2>1, CarriedNamed
  <2>4. QED
    BY <1>2, <2>2, <2>3
<1>4. /\ c = listen <=> c.type = "listen"
      /\ c = unlisten <=> c.type = "unlisten"
      /\ c \notin {listen, unlisten} <=> c \in Messages
      /\ c \in Messages => c.type \in {"join", "leave", "ping"}
      /\ listen # unlisten
  BY <1>3, CommandKinds DEF listen, unlisten
<1>5. \/ /\ c = listen /\ subscribed' = subscribed \union {p}
         /\ \A q \in Pages : queue(q)' = queue(q) /\ held'[q] = held[q]
      \/ /\ c = unlisten /\ subscribed' = subscribed \ {p} /\ held'[p] = <<>>
         /\ \A q \in Pages : q # p => queue(q)' = queue(q) /\ held'[q] = held[q]
      \/ /\ c \in Messages /\ subscribed' = subscribed
         /\ \A q \in subscribed : /\ queue(q)' = Append(queue(q), c)
                                  /\ held'[q] = Append(held[q], c)
         /\ \A q \in Pages \ subscribed : queue(q)' = queue(q) /\ held'[q] = held[q]
  BY <1>1, Carried
<1>9. ASSUME NEW q \in Pages PROVE LateFirst(held'[q])
  <2>1. CASE held'[q] = held[q]
    BY <1>1, <2>1
  <2>2. CASE held'[q] = <<>>
    BY <2>2 DEF LateFirst
  <2>3. CASE c \in Messages /\ held'[q] = Append(held[q], c)
    <3>1. LateFirst(Append(held[q], c))
      BY <1>1, <1>2, <1>3, <2>3, AppendLateFirst
    <3>2. QED
      BY <2>3, <3>1
  <2>4. QED
    BY <1>5, <2>1, <2>2, <2>3
<1>6. ASSUME NEW q \in Pages PROVE Linked(q)'
  <2>1. CASE q # p
    <3>1. outbox'[q] = outbox[q] /\ (q \in subscribed <=> q \in subscribed')
      BY <1>2, <1>5, <2>1
    <3>2. QED
      BY <1>1, <1>2, <3>1 DEF Linked
  <2>2. CASE q = p
    <3>1. SUFFICES ASSUME user[p]
                   PROVE  \/ Opens(outbox'[p])
                          \/ p \in subscribed' /\ ~Has(outbox'[p], {"unlisten"})
      BY <1>1, <1>2, <1>3, <2>2 DEF Linked
    <3>2. CASE Opens(outbox[p])
      <4>1. \/ Opens(Tail(outbox[p]))
            \/ c.type = "listen" /\ ~Has(Tail(outbox[p]), {"unlisten"})
        BY <1>2, <3>2, TailOpens
      <4>2. c.type = "listen" => p \in subscribed'
        BY <1>4, <1>5
      <4>3. QED
        BY <1>2, <4>1, <4>2
    <3>3. CASE p \in subscribed /\ ~Has(outbox[p], {"unlisten"})
      <4>1. ~Has(Tail(outbox[p]), {"unlisten"})
        BY <1>2, <3>3, TailHas
      <4>2. c.type # "unlisten"
        BY <1>2, <3>3, TailOf DEF Has
      <4>3. p \in subscribed'
        BY <1>4, <1>5, <3>3, <4>2
      <4>4. QED
        BY <1>2, <4>1, <4>3
    <3>4. QED
      BY <1>1, <3>1, <3>2, <3>3 DEF Linked
  <2>3. QED
    BY <2>1, <2>2
<1>7. ASSUME NEW r \in Pages, NEW q \in Pages, user'[r], user'[q]
      PROVE  ToBeListed(r, q)'
  <2>1. user[r] /\ user[q] /\ ToBeListed(r, q)
    BY <1>2, <1>7 DEF ListInv
  <2>2. ASSUME NEW x \in Pages, NEW T, Has(outbox[x], T), c.type \notin T
        PROVE  Has(outbox'[x], T)
    <3>1. CASE x = p
      BY <1>2, <2>2, <3>1, TailHas
    <3>2. CASE x # p
      BY <1>2, <2>2, <3>2
    <3>3. QED
      BY <3>1, <3>2
  <2>7. CASE c = unlisten /\ (r = p \/ q = p)
    \* The page is to join again.
    <3>1. Has(outbox[p], {"unlisten"})
      BY <1>2, <1>4, <2>7, TailOf DEF Has
    <3>2. Opens(outbox[p])
      BY <1>1, <2>1, <2>7, <3>1 DEF Linked
    <3>3. Has(outbox'[p], {"join"})
      BY <1>2, <3>2, TailOpens
    <3>4. Has(outbox'[p], {"join", "ping"})
      BY <3>3 DEF Has
    <3>5. QED
      BY <2>7, <3>3, <3>4 DEF ToBeListed, Pinging
  <2>3. CASE c \in {listen, unlisten} /\ ~(c = unlisten /\ (r = p \/ q = p))
    <3>1. c.type \in {"listen", "unlisten"} /\ queue(r)' = queue(r) /\ queue(q)' = queue(q)
      <4>1. c \notin Messages /\ c.type \in {"listen", "unlisten"}
        BY <1>4, <2>3
      <4>2. \A x \in {r, q} : queue(x)' = queue(x)
        BY <1>4, <1>5, <2>3, <4>1
      <4>3. QED
        BY <4>1, <4>2
    <3>2. /\ Has(outbox[r], {"join"}) => Has(outbox'[r], {"join"})
          /\ Has(outbox[q], {"join", "ping"}) => Has(outbox'[q], {"join", "ping"})
      BY <2>2, <3>1
    <3>3. QED
      BY <1>2, <2>1, <3>1, <3>2 DEF ToBeListed, Pinging, Listed, Shown
  <2>4. CASE c \in Messages /\ c.type \in clearing
    \* The page q hears of it, or is to join itself.
    <3>1. c \notin {listen, unlisten}
      BY <1>4, <2>4 DEF clearing
    <3>2. CASE q \in subscribed
      <4>1. queue(q)' = Append(queue(q), c) /\ queue(q) \in Seq(Messages)
        BY <1>2, <1>5, <3>1, <3>2
      <4>2. Has(Append(queue(q), c), clearing)
        BY <2>4, <4>1, AppendHas
      <4>3. QED
        BY <4>1, <4>2 DEF ToBeListed, Pinging
    <3>3. CASE q \notin subscribed
      <4>1. Opens(outbox[q]) /\ Has(outbox[q], {"join"})
        BY <1>1, <2>1, <3>3, HearsOrJoins
      <4>2. Has(outbox'[q], {"join"})
        <5>1. CASE q = p
          BY <1>2, <4>1, <5>1, TailOpens
        <5>2. CASE q # p
          BY <1>2, <4>1, <5>2
        <5>3. QED
          BY <5>1, <5>2
      <4>3. Has(outbox'[q], {"join", "ping"})
        BY <4>2 DEF Has
      <4>4. QED
        BY <4>3 DEF ToBeListed, Pinging
    <3>4. QED
      BY <3>2, <3>3
  <2>5. CASE c \in Messages /\ c.type = "ping"
    <3>1. c \notin {listen, unlisten} /\ c.type \notin {"join"} /\ "ping" \notin clearing
      BY <1>4, <2>5 DEF clearing
    <3>2. ASSUME NEW x \in Pages
          PROVE  /\ Has(queue(x)', clearing) <=> Has(queue(x), clearing)
                 /\ \A n : Announces(queue(x), n) => Announces(queue(x)', n)
                 /\ EndsLate(queue(x)) => EndsLate(queue(x)')
                 /\ x \in subscribed => Announces(queue(x)', c.from)
      <4>1. queue(x) \in Seq(Messages)
        BY <1>2
      <4>2. CASE x \in subscribed
        <5>1. queue(x)' = Append(queue(x), c)
          BY <1>5, <3>1, <4>2
        <5>2. Has(Append(queue(x), c), clearing) <=> Has(queue(x), clearing)
          BY <2>5, <3>1, <4>1, AppendHas
        <5>3. /\ \A n : Announces(queue(x), n) => Announces(Append(queue(x), c), n)
              /\ Announces(Append(queue(x), c), c.from)
          BY <2>5, <4>1, AppendAnnounces
        <5>5. EndsLate(queue(x)) => EndsLate(Append(queue(x), c))
          BY <2>5, <3>1, <4>1, AppendEndsLate
        <5>4. QED
          BY <5>1, <5>2, <5>3, <5>5
      <4>3. CASE x \notin subscribed
        <5>1. queue(x)' = queue(x)
          BY <1>5, <3>1, <4>3
        <5>2. QED
          BY <4>3, <5>1
      <4>4. QED
        BY <4>2, <4>3
    <3>3. CASE Has(outbox[r], {"join"})
      BY <2>2, <3>1, <3>3 DEF ToBeListed
    <3>4. CASE Has(outbox[q], {"join", "ping"})
      <4>1. CASE q # p
        BY <1>2, <3>4, <4>1 DEF ToBeListed, Pinging
      <4>2. CASE q = p /\ r \in subscribed
        <5>1. Announces(queue(r)', name(q)')
          BY <1>3, <2>5, <3>2, <4>2 DEF name
        <5>2. QED
          BY <5>1 DEF ToBeListed, Listed
      <4>3. CASE r \notin subscribed
        <5>1. Has(outbox[r], {"join"})
          BY <1>1, <2>1, <4>3, HearsOrJoins
        <5>2. QED
          BY <2>2, <3>1, <5>1 DEF ToBeListed
      <4>4. QED
        BY <4>1, <4>2, <4>3
    <3>5. CASE Has(queue(q), clearing)
      BY <3>2, <3>5 DEF ToBeListed, Pinging
    <3>6. CASE Listed(r, q)
      BY <1>2, <3>2, <3>6 DEF ToBeListed, Listed, Shown, name
    <3>7. QED
      BY <2>1, <3>3, <3>4, <3>5, <3>6 DEF ToBeListed, Pinging
  <2>6. QED
    BY <1>4, <2>3, <2>4, <2>5, <2>7 DEF clearing
<1>8. QED
  BY <1>6, <1>7, <1>9

LEMMA PollListed ==
    ASSUME ListInv, NEW p \in Pages, doMessages(p)
    PROVE  /\ \A q \in Pages : Linked(q)' /\ LateFirst(held'[q])
           /\ \A r, q \in Pages : user'[r] /\ user'[q] => ToBeListed(r, q)'
<1>1. TypeOK /\ \A q \in Pages : Linked(q) /\ LateFirst(held[q])
  BY DEF ListInv
<1>2. UNCHANGED <<user, handler, members, outbox, subscribed, outrun>>
  BY DEF doMessages
<1>3. /\ queue(p) = held[p] /\ held[p] \in Seq(Messages)
      /\ \A q \in Pages : q # p => queue(q)' = queue(q) /\ held'[q] = held[q]
      /\ \E k \in DOMAIN held[p] :
            /\ Reordered(held[p], queue(p)', k)
            /\ \A i, j \in DOMAIN held'[p] : i < j => \E a, b \in DOMAIN held[p] :
                  /\ a < b /\ held'[p][i] = overtaken(held[p], k)[a]
                  /\ held'[p][j] = overtaken(held[p], k)[b]
  BY <1>1, PollReorders, QueueType
<1> PICK s \in Seq(Messages) : s = held[p]
  BY <1>3
<1> PICK t : t = queue(p)'
  OBVIOUS
<1> PICK h : h = held'[p]
  OBVIOUS
<1>4. PICK k \in DOMAIN s :
         /\ Reordered(s, t, k)
         /\ \A i, j \in DOMAIN h : i < j => \E a, b \in DOMAIN s :
               /\ a < b /\ h[i] = overtaken(s, k)[a] /\ h[j] = overtaken(s, k)[b]
  BY <1>3
<1>5. LateFirst(s)
  BY <1>1
<1>6. LateFirst(h)
  BY <1>4, <1>5, OvertakenLateFirst
<1>7. /\ Has(s, clearing) <=> Has(t, clearing)
      /\ \A n : Announces(s, n) => Announces(t, n) \/ EndsLate(t)
      /\ EndsLate(s) => EndsLate(t)
  BY <1>4, <1>5, ReorderedHas, ReorderedAnnounces, ReorderedEndsLate
<1>8. ASSUME NEW q \in Pages PROVE Linked(q)' /\ LateFirst(held'[q])
  <2>1. Linked(q)'
    BY <1>1, <1>2 DEF Linked
  <2>2. LateFirst(held'[q])
    BY <1>1, <1>3, <1>6
  <2>3. QED
    BY <2>1, <2>2
<1>9. ASSUME NEW r \in Pages, NEW q \in Pages, user'[r], user'[q]
      PROVE  ToBeListed(r, q)'
  <2>1. ToBeListed(r, q)
    BY <1>2, <1>9 DEF ListInv
  <2>2. ASSUME NEW x \in Pages
        PROVE  /\ Has(queue(x), clearing) <=> Has(queue(x)', clearing)
               /\ \A n : Announces(queue(x), n) => Announces(queue(x)', n) \/ EndsLate(queue(x)')
               /\ EndsLate(queue(x)) => EndsLate(queue(x)')
    <3>1. CASE x = p
      BY <1>3, <1>7, <3>1
    <3>2. CASE x # p
      <4>1. queue(x)' = queue(x)
        BY <1>3, <3>2
      <4>2. QED
        BY <4>1
    <3>3. QED
      BY <3>1, <3>2
  <2>3. Pinging(q) => Pinging(q)'
    BY <1>2, <2>2 DEF Pinging
  <2>4. Listed(r, q) => Listed(r, q)'
    BY <1>2, <2>2 DEF Listed, Shown, name
  <2>5. QED
    BY <1>2, <2>1, <2>3, <2>4 DEF ToBeListed
<1>10. QED
  BY <1>8, <1>9

LEMMA ReceiveListed ==
    ASSUME ListInv, NEW p \in Pages, receive(p)
    PROVE  /\ \A q \in Pages : Linked(q)' /\ LateFirst(held'[q])
           /\ \A r, q \in Pages : user'[r] /\ user'[q] => ToBeListed(r, q)'
<1> PICK m : m = Head(inbox[p])
  OBVIOUS
<1>1. TypeOK /\ \A q \in Pages : Linked(q) /\ LateFirst(held[q])
  BY DEF ListInv
<1>2. /\ m \in Messages /\ queue(p) \in Seq(Messages) /\ queue(p) # <<>>
      /\ m = Head(queue(p)) /\ queue(p)' = Tail(queue(p)) /\ held' = held
      /\ \A q \in Pages : q # p => queue(q)' = queue(q)
      /\ subscribed' = subscribed
      /\ outbox \in [Pages -> Seq(Commands)]
      /\ user \in [Pages -> BOOLEAN] /\ handler \in [Pages -> BOOLEAN]
      /\ members \in [Pages -> SUBSET Names] /\ outrun \subseteq Pages
      /\ handler[p] = user[p]
  <2>1. /\ m \in Messages /\ queue(p) \in Seq(Messages) /\ queue(p) # <<>>
        /\ m = Head(queue(p)) /\ queue(p)' = Tail(queue(p)) /\ held' = held
        /\ \A q \in Pages : q # p => queue(q)' = queue(q)
    BY <1>1, Received
  <2>2. QED
    BY <1>1, <2>1 DEF receive, TypeOK, Linked
<1>3. m.type \in {"join", "leave", "ping"}
  BY <1>2 DEF Messages
<1>4. /\ \A q \in Pages : q # p => /\ user'[q] = user[q] /\ handler'[q] = handler[q]
                                  /\ members'[q] = members[q] /\ outbox'[q] = outbox[q]
                                  /\ (q \in outrun' <=> q \in outrun)
      /\ handler'[p] = user'[p]
      /\ user'[p] => user[p]
  <2>1. CASE handler[p] /\ m.type # "ping" /\ joinOrLeave(p, m)
    <3>1. \/ UNCHANGED <<user, handler>>
          \/ user' = [user EXCEPT ![p] = FALSE] /\ handler' = [handler EXCEPT ![p] = FALSE]
      BY <2>1 DEF joinOrLeave
    <3>2. PICK t : outbox' = [outbox EXCEPT ![p] = @ \o t]
      BY <2>1 DEF joinOrLeave, issue
    <3>3. /\ members' = [members EXCEPT ![p] = {}]
          /\ outrun' = IF m.late THEN outrun \union {p} ELSE outrun \ {p}
      BY <2>1 DEF joinOrLeave
    <3>4. QED
      BY <1>2, <3>1, <3>2, <3>3
  <2>2. CASE handler[p] /\ m.type = "ping" /\ ping(p, m)
    BY <1>2, <2>2 DEF ping
  <2>3. CASE ~handler[p] /\ UNCHANGED <<members, user, handler, outbox, outrun>>
    BY <1>2, <2>3
  <2>4. QED
    BY <2>1, <2>2, <2>3 DEF receive
<1>5. \/ ~user'[p] /\ outbox'[p] = outbox[p] \o <<>>
      \/ ~user'[p] /\ outbox'[p] = outbox[p] \o <<unlisten>>
      \/ /\ user'[p] /\ m.type \in clearing /\ (m.late => p \in outrun')
         /\ outbox'[p] = outbox[p] \o <<message("ping", p)>>
      \/ /\ user'[p] /\ m.type = "ping" /\ outbox'[p] = outbox[p] \o <<>>
         /\ members'[p] = members[p] \union {m.from} /\ outrun' = outrun
  <2>1. CASE handler[p] /\ m.type # "ping" /\ joinOrLeave(p, m)
    <3>1. m.type \in clearing
      BY <1>3, <2>1 DEF clearing
    <3>2. CASE m.type = "leave" /\ user[p] /\ m.from = name(p)
      BY <1>2, <2>1, <3>2 DEF joinOrLeave, issue
    <3>3. CASE ~(m.type = "leave" /\ user[p] /\ m.from = name(p))
      BY <1>2, <2>1, <3>1, <3>3 DEF joinOrLeave, issue
    <3>4. QED
      BY <3>2, <3>3
  <2>2. CASE handler[p] /\ m.type = "ping" /\ ping(p, m)
    <3>1. outbox'[p] = outbox[p] \o <<>> /\ user' = user
      BY <1>1, <2>2, NothingIssued DEF ping
    <3>2. members'[p] = members[p] \union {m.from} /\ outrun' = outrun
      BY <1>2, <2>2 DEF ping
    <3>3. QED
      BY <1>2, <2>2, <3>1, <3>2
  <2>3. CASE ~handler[p] /\ UNCHANGED <<members, user, handler, outbox, outrun>>
    BY <1>1, <1>2, <2>3, NothingIssued
  <2>4. QED
    BY <2>1, <2>2, <2>3 DEF receive
<1>6. PICK s \in Seq(Commands) :
          /\ outbox'[p] = outbox[p] \o s /\ PingsNamed(s, p)
          /\ user'[p] => ~Has(s, {"unlisten"})
          /\ user'[p] /\ m.type \in clearing => Has(s, {"join", "ping"})
  <2>1. /\ <<>> \in Seq(Commands) /\ PingsNamed(<<>>, p) /\ ~Has(<<>>, {"unlisten"})
    BY DEF PingsNamed, Has
  <2>2. <<unlisten>> \in Seq(Commands) /\ PingsNamed(<<unlisten>>, p)
    <3>1. unlisten \in Commands /\ unlisten.type = "unlisten" /\ unlisten \notin Messages
      <4>1. "ping" \in {"join", "leave", "ping"}
        OBVIOUS
      <4>2. unlisten \in Commands
        BY <4>1, MessageType
      <4>3. QED
        BY <4>2, CommandKinds
    <3>2. QED
      BY <3>1 DEF PingsNamed
  <2>3. /\ <<message("ping", p)>> \in Seq(Commands) /\ PingsNamed(<<message("ping", p)>>, p)
        /\ ~Has(<<message("ping", p)>>, {"unlisten"})
        /\ Has(<<message("ping", p)>>, {"join", "ping"})
    <3>1. "ping" \in {"join", "leave", "ping"}
      OBVIOUS
    <3>2. /\ message("ping", p) \in Commands /\ message("ping", p).type = "ping"
          /\ message("ping", p).from = name(p) /\ ~message("ping", p).late
      BY <3>1, MessageType, MessageKinds
    <3>3. /\ ~Has(<<message("ping", p)>>, {"unlisten"})
          /\ Has(<<message("ping", p)>>, {"join", "ping"})
      BY <3>2, OneHas
    <3>4. QED
      BY <3>2, <3>3 DEF PingsNamed
  <2>4. "ping" \notin clearing
    BY DEF clearing
  <2>5. QED
    BY <1>5, <2>1, <2>2, <2>3, <2>4
<1>7. outbox[p] \in Seq(Commands)
  BY <1>2
<1>8. \A T : Has(outbox[p], T) \/ Has(s, T) => Has(outbox'[p], T)
  <2>1. \A T : Has(outbox[p], T) \/ Has(s, T) => Has(outbox[p] \o s, T)
    BY <1>7, ConcatHas
  <2>2. QED
    BY <1>6, <2>1
<1>9. ASSUME NEW q \in Pages PROVE Linked(q)'
  <2>1. CASE q # p
    BY <1>1, <1>2, <1>4, <2>1 DEF Linked
  <2>2. CASE q = p
    <3>1. PingsNamed(outbox[p], p)
      BY <1>1 DEF Linked
    <3>2. PingsNamed(outbox[p] \o s, p)
      BY <1>6, <1>7, <3>1, IssuedNamed
    <3>3. ASSUME user'[p]
          PROVE  /\ Opens(outbox[p]) => Opens(outbox[p] \o s)
                 /\ ~Has(outbox[p], {"unlisten"}) => ~Has(outbox[p] \o s, {"unlisten"})
      BY <1>6, <1>7, <3>3, ConcatOpens, ConcatHas
    <3>4. PingsNamed(outbox'[p], p)
      BY <1>6, <3>2
    <3>5. user'[p] => Opens(outbox'[p]) \/ (p \in subscribed' /\ ~Has(outbox'[p], {"unlisten"}))
      BY <1>1, <1>2, <1>4, <1>6, <3>3 DEF Linked
    <3>6. QED
      BY <1>4, <2>2, <3>4, <3>5 DEF Linked
  <2>3. QED
    BY <2>1, <2>2
<1>10. ASSUME NEW r \in Pages, NEW q \in Pages, user'[r], user'[q]
       PROVE  ToBeListed(r, q)'
  <2>1. user[r] /\ user[q]
    BY <1>4, <1>10
  <2>2. ToBeListed(r, q)
    BY <2>1 DEF ListInv
  <2>3. \A x \in Pages : \A T : Has(outbox[x], T) => Has(outbox'[x], T)
    BY <1>4, <1>8
  <2>4. CASE r # p /\ q # p
    <3>1. Listed(r, q) => Listed(r, q)'
      BY <1>2, <1>4, <2>4 DEF Listed, Shown, name
    <3>2. Pinging(q) => Pinging(q)'
      BY <1>2, <2>3, <2>4 DEF Pinging
    <3>3. QED
      BY <2>2, <2>3, <3>1, <3>2 DEF ToBeListed
  <2>5. CASE (r = p \/ q = p) /\ m.type \in clearing
    <3>1. CASE q = p
      <4>1. Has(outbox'[p], {"join", "ping"})
        BY <1>6, <1>8, <1>10, <2>5, <3>1
      <4>2. QED
        BY <3>1, <4>1 DEF ToBeListed, Pinging
    <3>2. CASE q # p
      <4>1. r = p
        BY <2>5, <3>2
      <4>2. Pinging(q) => Pinging(q)'
        BY <1>2, <2>3, <3>2 DEF Pinging
      <4>3. ~Listed(p, q) \/ Listed(p, q)'
        <5>1. Has(queue(p), clearing)
          BY <1>2, <2>5, TailOf DEF Has
        <5>2. Announces(queue(p), name(q)) => Announces(Tail(queue(p)), name(q))
          <6>1. m.type # "ping"
            BY <2>5 DEF clearing
          <6>2. QED
            BY <1>2, <6>1, TailAnnounces
        <5>3. CASE EndsLate(queue(p))
          <6>1. \/ EndsLate(Tail(queue(p)))
                \/ m.late /\ ~Has(Tail(queue(p)), clearing)
            BY <1>2, <5>3, TailEndsLate
          <6>2. m.late => p \in outrun'
            BY <1>5, <1>10, <2>5, <4>1 DEF clearing
          <6>3. QED
            BY <1>2, <6>1, <6>2 DEF Listed, Shown
        <5>4. QED
          BY <1>2, <5>1, <5>2, <5>3 DEF Listed, name
      <4>4. QED
        BY <2>2, <2>3, <4>1, <4>2, <4>3 DEF ToBeListed
    <3>3. QED
      BY <3>1, <3>2
  <2>6. CASE (r = p \/ q = p) /\ m.type = "ping"
    <3>1. m.type \notin clearing /\ user'[p]
      BY <1>10, <2>6 DEF clearing
    <3>2. \A x \in Pages : Has(queue(x), clearing) <=> Has(queue(x)', clearing)
      <4>1. Has(queue(p), clearing) <=> Has(Tail(queue(p)), clearing)
        BY <1>2, <3>1, TailHas
      <4>2. QED
        BY <1>2, <4>1
    <3>3. Pinging(q) => Pinging(q)'
      BY <2>3, <3>2 DEF Pinging
    <3>4. Listed(r, q) => Listed(r, q)'
      <4>1. CASE r # p
        BY <1>2, <1>4, <4>1 DEF Listed, Shown, name
      <4>2. CASE r = p
        <5>1. members'[p] = members[p] \union {m.from} /\ outrun' = outrun
          BY <1>5, <2>6, <3>1 DEF clearing
        <5>2. Shown(p, name(q)) \/ m.from = name(q) => Shown(p, name(q))'
          BY <5>1 DEF Shown, name
        <5>3. CASE Announces(queue(p), name(q))
          <6>1. \/ Announces(Tail(queue(p)), name(q))
                \/ m.from = name(q) /\ ~Has(Tail(queue(p)), clearing)
            BY <1>2, <5>3, TailAnnounces
          <6>2. QED
            BY <1>2, <4>2, <5>2, <6>1 DEF Listed, name
        <5>4. CASE EndsLate(queue(p))
          <6>1. EndsLate(Tail(queue(p)))
            BY <1>2, <3>1, <5>4, TailEndsLate
          <6>2. QED
            BY <1>2, <4>2, <6>1 DEF Listed
        <5>5. CASE ~Has(queue(p), clearing) /\ Shown(p, name(q))
          <6>1. ~Has(queue(p)', clearing)
            BY <3>2, <5>5
          <6>2. QED
            BY <4>2, <5>2, <5>5, <6>1 DEF Listed
        <5>6. QED
          BY <4>2, <5>3, <5>4, <5>5 DEF Listed
      <4>3. QED
        BY <4>1, <4>2
    <3>5. QED
      BY <2>2, <2>3, <3>3, <3>4 DEF ToBeListed
  <2>7. QED
    BY <1>3, <2>4, <2>5, <2>6 DEF clearing
<1>11. QED
  BY <1>1, <1>2, <1>9, <1>10

LEMMA ListStep ==
    ASSUME ListInv, [Next]_vars
    PROVE  ListInv'
<1>1. TypeOK'
  BY ChatTypes DEF ListInv
<1>2. /\ \A q \in Pages : Linked(q)' /\ LateFirst(held'[q])
      /\ \A r, q \in Pages : user'[r] /\ user'[q] => ToBeListed(r, q)'
  <2>1. CASE UNCHANGED vars
    BY <2>1 DEF vars, ListInv, Linked, ToBeListed, Pinging, Listed, Shown, queue, name
  <2>2. CASE Next
    BY <2>2, JoinListed, LeaveListed, CarryOutListed, PollListed, ReceiveListed DEF Next
  <2>3. QED
    BY <2>1, <2>2
<1>3. QED
  BY <1>1, <1>2 DEF ListInv

LEMMA QuietLists ==
    ASSUME ListInv
    PROVE  NobodyMissing
<1> SUFFICES ASSUME quiet, NEW p \in present \ outrun, NEW q \in present
             PROVE  name(q) \in members[p]
  BY DEF NobodyMissing
<1>1. p \in Pages /\ q \in Pages /\ ToBeListed(p, q)
  BY DEF present, ListInv
<1>2. outbox[p] = <<>> /\ queue(p) = <<>> /\ outbox[q] = <<>> /\ queue(q) = <<>>
  BY <1>1 DEF quiet, queue
<1>3. \A T : ~Has(<<>>, T)
  BY DEF Has
<1>4. ~EndsLate(<<>>) /\ \A n : ~Announces(<<>>, n)
  BY DEF Announces, EndsLate
<1>5. QED
  BY <1>1, <1>2, <1>3, <1>4 DEF ToBeListed, Pinging, Listed, Shown

\* Once every message has arrived, each page that has a user lists everyone who
\* has one, except where a ping overtook what cleared its list last; for any
\* pages, any number of joins and leaves, in whatever order they cross, and
\* whether or not names differ (chat.js:57-86).
THEOREM ChatListsEveryone == Spec => []NobodyMissing
<1>1. Init => ListInv
  BY ListInitially
<1>2. ListInv /\ [Next]_vars => ListInv'
  BY ListStep
<1>3. ListInv => NobodyMissing
  BY QuietLists
<1>4. QED
  BY <1>1, <1>2, <1>3, PTL DEF Spec
=============================================================================
