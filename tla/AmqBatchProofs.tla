--------------------------- MODULE AmqBatchProofs ---------------------------
(***************************************************************************)
(* Theorems about a batch of amq.js, for queues of any length: the loop of *)
(* endBatch computes the split that AmqClient works with, and the servlet  *)
(* decodes what the page has put in the body.                              *)
(*                                                                         *)
(* The split of a queue 1..n is decided by its first entry alone: with a   *)
(* header it goes alone, without one every entry without headers goes.     *)
(* SplitSoFar says so of the entries the loop has seen, FieldsSoFar what   *)
(* each field of the body stands for, and CommandsSoFar the same of the    *)
(* commands doPost has carried out.                                        *)
(***************************************************************************)
EXTENDS AmqBatch, WellFoundedInduction, TLAPS

withHeaders == {n \in DOMAIN queue : queue[n].headers}

goes(n) == IF 1 \in withHeaders THEN n = 1 ELSE n \notin withHeaders

sentText(n) == IF queue[n].text = "plain" THEN n ELSE -n
sentValue(name, n) == IF name = "m" THEN sentText(n) ELSE n

QueueOK ==
    /\ Len(queue) \in Nat \ {0}
    /\ queue \in [1..Len(queue) -> Entries]
    /\ pc \in {"endBatch", "doPost", "done"}
    /\ i \in 1..(Len(queue) + 1)
    /\ pc # "endBatch" => i = Len(queue) + 1

SplitSoFar ==
    /\ messagesToSend_ \in Seq(1..Len(queue))
    /\ messagesToQueue_ \in Seq(1..Len(queue))
    /\ Indices(messagesToSend_) = {n \in 1..(i - 1) : goes(n)}
    /\ Indices(messagesToQueue_) = {n \in 1..(i - 1) : ~goes(n)}
    /\ Increasing(messagesToSend_) /\ Increasing(messagesToQueue_)
    /\ outgoingHeaders = IF i > 1 /\ 1 \in withHeaders THEN 1 ELSE NoHeaders

Fields == [name : {"d", "m", "t", "other"}, nr : Nat, value : Int]

FieldsSoFar ==
    /\ body \in Seq(Fields)
    /\ built \in 0..Len(messagesToSend_)
    /\ built > 0 => i = Len(queue) + 1
    /\ pc # "endBatch" => built = Len(messagesToSend_)
    /\ \A k \in DOMAIN body : body[k].name # "other" =>
          /\ body[k].nr < built
          /\ body[k].value = sentValue(body[k].name, messagesToSend_[body[k].nr + 1])
    /\ \A nr \in 0..(built - 1), name \in {"d", "m", "t"} :
          \E k \in DOMAIN body : body[k].name = name /\ body[k].nr = nr

commandOf(n) ==
    [destination |-> n, message |-> sentText(n), type |-> n,
     selector |-> IF queue[n].headers THEN n ELSE NoHeaders]

CommandsSoFar ==
    /\ messages \in 0..built
    /\ pc = "endBatch" => messages = 0
    /\ pc = "done" => messages = built
    /\ decoded = [k \in 1..messages |-> commandOf(messagesToSend_[k])]

BatchInv == QueueOK /\ SplitSoFar /\ FieldsSoFar /\ CommandsSoFar

-----------------------------------------------------------------------------
\* A non-empty set of numbers has a least element.
LEMMA LeastExists ==
    ASSUME NEW S \in SUBSET Nat, S # {}
    PROVE  \E n \in S : \A m \in S : n <= m
<1> DEFINE R == {ss \in Nat \X Nat : ss[1] < ss[2]}
<1>1. IsWellFoundedOn(R, Nat)
  BY NatLessThanWellFounded DEF OpToRel
<1> HIDE DEF R
<1>2. PICK n \in S : \A m \in S : <<m, n>> \notin R
  BY <1>1, WFMin
<1>3. \A m \in S : m \in Nat /\ n \in Nat /\ ~(m < n)
  BY <1>2 DEF R
<1>4. QED
  BY <1>3

\* What appending does to the set of the elements and to their order.
LEMMA AppendIndices ==
    ASSUME NEW s \in Seq(Int), NEW n \in Int
    PROVE  /\ Indices(Append(s, n)) = Indices(s) \union {n}
           /\ Increasing(s) /\ (\A m \in Indices(s) : m < n)
                => Increasing(Append(s, n))
<1> DEFINE a == Append(s, n)
<1>1. /\ Len(s) \in Nat /\ DOMAIN s = 1..Len(s)
      /\ DOMAIN a = 1..(Len(s) + 1)
      /\ \A k \in 1..Len(s) : a[k] = s[k] /\ s[k] \in Int
      /\ a[Len(s) + 1] = n
  OBVIOUS
<1> HIDE DEF a
<1>2. Indices(a) = Indices(s) \union {n}
  <2>1. \A k \in DOMAIN a : a[k] \in Indices(s) \union {n}
    BY <1>1 DEF Indices
  <2>2. \A k \in DOMAIN s : s[k] \in Indices(a)
    BY <1>1 DEF Indices
  <2>3. n \in Indices(a)
    BY <1>1 DEF Indices
  <2>4. QED
    BY <2>1, <2>2, <2>3 DEF Indices
<1>3. ASSUME Increasing(s), \A m \in Indices(s) : m < n,
             NEW k \in DOMAIN a, NEW l \in DOMAIN a, k < l
      PROVE  a[k] < a[l]
  <2>1. CASE l = Len(s) + 1
    <3>1. k \in DOMAIN s
      BY <1>1, <1>3, <2>1
    <3>2. QED
      BY <1>1, <1>3, <2>1, <3>1 DEF Indices
  <2>2. CASE l # Len(s) + 1
    BY <1>1, <1>3, <2>2 DEF Increasing
  <2>3. QED
    BY <2>1, <2>2
<1>4. QED
  BY <1>2, <1>3 DEF a, Increasing

-----------------------------------------------------------------------------
LEMMA BatchInvInit == Init => BatchInv
<1> SUFFICES ASSUME Init PROVE BatchInv
  OBVIOUS
<1>1. QueueOK
  <2>1. PICK n \in 1..MaxQueue : queue \in [1..n -> Entries]
    BY DEF Init
  <2>2. Len(queue) = n
    BY <2>1, BatchAssumption
  <2>3. QED
    BY <2>1, <2>2, BatchAssumption DEF Init, QueueOK
<1>2. SplitSoFar
  BY DEF Init, SplitSoFar, Indices, Increasing
<1>3. FieldsSoFar
  BY DEF Init, FieldsSoFar
<1>4. CommandsSoFar
  BY DEF Init, CommandsSoFar
<1>5. QED
  BY <1>1, <1>2, <1>3, <1>4 DEF BatchInv

LEMMA SplitKept ==
    ASSUME SplitSoFar,
           UNCHANGED <<queue, i, messagesToSend_, messagesToQueue_, outgoingHeaders>>
    PROVE  SplitSoFar'
<1>1. withHeaders' = withHeaders
  BY DEF withHeaders
<1>2. \A n : goes(n)' = goes(n)
  BY <1>1 DEF goes
<1>3. /\ Indices(messagesToSend_)' = Indices(messagesToSend_)
      /\ Indices(messagesToQueue_)' = Indices(messagesToQueue_)
      /\ Increasing(messagesToSend_)' /\ Increasing(messagesToQueue_)'
  BY DEF SplitSoFar, Indices, Increasing
<1>4. QED
  BY <1>1, <1>2, <1>3 DEF SplitSoFar

\* The loop of endBatch: which branch a turn takes is what goes says.
LEMMA ScanKeeps ==
    ASSUME BatchInv, scanEntry
    PROVE  BatchInv'
<1> USE DEF BatchInv
<1>1. /\ UNCHANGED <<pc, queue, built, body, messages, decoded>>
      /\ pc = "endBatch" /\ i \in 1..Len(queue) /\ i' = i + 1
  BY DEF scanEntry, QueueOK
<1>2. QueueOK'
  BY <1>1 DEF QueueOK
<1>3. i \in Int /\ Len(queue) \in Nat /\ built = 0
  BY <1>1 DEF QueueOK, FieldsSoFar
<1>4. withHeaders' = withHeaders /\ \A n : goes(n)' = goes(n)
  BY <1>1 DEF withHeaders, goes
<1>5. queue[i].headers <=> i \in withHeaders
  BY <1>1 DEF QueueOK, withHeaders
<1>6. messagesToSend_ = <<>> <=> i = 1
  <2>1. CASE i = 1
    <3>1. Indices(messagesToSend_) = {}
      BY <2>1, <1>3 DEF SplitSoFar
    <3>2. DOMAIN messagesToSend_ = {}
      BY <3>1 DEF Indices
    <3>3. QED
      BY <2>1, <3>2 DEF SplitSoFar
  <2>2. CASE i # 1
    <3>1. 1 \in 1..(i - 1) /\ goes(1)
      BY <1>1, <1>3, <2>2 DEF goes
    <3>2. 1 \in Indices(messagesToSend_)
      BY <3>1 DEF SplitSoFar
    <3>3. QED
      BY <2>2, <3>2 DEF Indices
  <2>3. QED
    BY <2>1, <2>2
<1>7. outgoingHeaders = NoHeaders <=> ~(i > 1 /\ 1 \in withHeaders)
  BY DEF SplitSoFar, NoHeaders
<1>8. \/ /\ goes(i)
         /\ messagesToSend_' = Append(messagesToSend_, i)
         /\ messagesToQueue_' = messagesToQueue_
         /\ outgoingHeaders' = IF i \in withHeaders THEN i ELSE outgoingHeaders
      \/ /\ ~goes(i)
         /\ messagesToQueue_' = Append(messagesToQueue_, i)
         /\ UNCHANGED <<messagesToSend_, outgoingHeaders>>
  BY <1>1, <1>3, <1>5, <1>6, <1>7 DEF scanEntry, goes
<1>9. 1..(i' - 1) = 1..(i - 1) \union {i}
  BY <1>1, <1>3
<1>10. /\ messagesToSend_ \in Seq(Int) /\ messagesToQueue_ \in Seq(Int)
       /\ \A m \in Indices(messagesToSend_) : m < i
       /\ \A m \in Indices(messagesToQueue_) : m < i
  BY <1>3 DEF SplitSoFar
<1>11. outgoingHeaders' = IF i' > 1 /\ 1 \in withHeaders' THEN 1 ELSE NoHeaders
  <2>1. i' > 1
    BY <1>1, <1>3
  <2>2. CASE 1 \in withHeaders
    BY <1>1, <1>3, <1>4, <1>8, <2>1, <2>2 DEF SplitSoFar, goes
  <2>3. CASE 1 \notin withHeaders
    BY <1>1, <1>3, <1>4, <1>8, <2>1, <2>3 DEF SplitSoFar, goes
  <2>4. QED
    BY <2>2, <2>3
<1>12. /\ messagesToSend_' \in Seq(1..Len(queue'))
       /\ messagesToQueue_' \in Seq(1..Len(queue'))
  <2>1. Len(queue') = Len(queue)
    BY <1>1
  <2>2. /\ messagesToSend_ \in Seq(1..Len(queue))
        /\ messagesToQueue_ \in Seq(1..Len(queue))
    BY DEF SplitSoFar
  <2> DEFINE Q == 1..Len(queue)
  <2>3. /\ messagesToSend_ \in Seq(Q) /\ messagesToQueue_ \in Seq(Q) /\ i \in Q
    BY <1>1, <2>2
  <2>4. Q = 1..Len(queue')
    BY <2>1
  <2> HIDE DEF Q
  <2>5. messagesToSend_' \in Seq(Q) /\ messagesToQueue_' \in Seq(Q)
    <3>1. /\ Append(messagesToSend_, i) \in Seq(Q)
          /\ Append(messagesToQueue_, i) \in Seq(Q)
      BY <2>3
    <3>2. CASE goes(i)
      BY <1>8, <2>3, <3>1, <3>2
    <3>3. CASE ~goes(i)
      BY <1>8, <2>3, <3>1, <3>3
    <3>4. QED
      BY <3>2, <3>3
  <2>6. QED
    BY <2>4, <2>5
<1>13. /\ Indices(messagesToSend_') = {n \in 1..(i' - 1) : goes(n)}
       /\ Increasing(messagesToSend_')
  <2>1. CASE goes(i)
    <3>1. messagesToSend_' = Append(messagesToSend_, i)
      BY <1>8, <2>1
    <3>2. /\ Indices(Append(messagesToSend_, i)) = Indices(messagesToSend_) \union {i}
          /\ Increasing(Append(messagesToSend_, i))
      <4>1. Increasing(messagesToSend_)
        BY DEF SplitSoFar
      <4>2. QED
        BY <1>3, <1>10, <4>1, AppendIndices
    <3>3. QED
      BY <1>9, <2>1, <3>1, <3>2 DEF SplitSoFar
  <2>2. CASE ~goes(i)
    BY <1>8, <1>9, <2>2 DEF SplitSoFar
  <2>3. QED
    BY <2>1, <2>2
<1>14. /\ Indices(messagesToQueue_') = {n \in 1..(i' - 1) : ~goes(n)}
       /\ Increasing(messagesToQueue_')
  <2>1. CASE goes(i)
    BY <1>8, <1>9, <2>1 DEF SplitSoFar
  <2>2. CASE ~goes(i)
    <3>1. messagesToQueue_' = Append(messagesToQueue_, i)
      BY <1>8, <2>2
    <3>2. /\ Indices(Append(messagesToQueue_, i)) = Indices(messagesToQueue_) \union {i}
          /\ Increasing(Append(messagesToQueue_, i))
      <4>1. Increasing(messagesToQueue_)
        BY DEF SplitSoFar
      <4>2. QED
        BY <1>3, <1>10, <4>1, AppendIndices
    <3>3. QED
      BY <1>9, <2>2, <3>1, <3>2 DEF SplitSoFar
  <2>3. QED
    BY <2>1, <2>2
<1>15. SplitSoFar'
  BY <1>4, <1>11, <1>12, <1>13, <1>14 DEF SplitSoFar, Indices, Increasing
<1>16. FieldsSoFar' 
  <2>1. \A nr \in Int : ~(nr \in Nat /\ nr < built)
    BY <1>3
  <2>2. \A k \in DOMAIN body : body[k].name = "other"
    <3>1. SUFFICES ASSUME NEW k \in DOMAIN body, body[k].name # "other" PROVE FALSE
      OBVIOUS
    <3>2. body[k] \in Fields /\ body[k].nr < built
      BY <3>1 DEF FieldsSoFar
    <3>3. QED
      BY <2>1, <3>2 DEF Fields
  <2>3. QED
    BY <1>1, <1>3, <1>12, <2>2 DEF FieldsSoFar
<1>17. CommandsSoFar'
  <2>1. messages = 0 /\ decoded = <<>>
    BY <1>1 DEF CommandsSoFar
  <2>2. QED
    BY <1>1, <1>3, <2>1 DEF CommandsSoFar
<1>18. QED
  BY <1>2, <1>15, <1>16, <1>17
-----------------------------------------------------------------------------
\* The fields one turn of buildParams adds.
LEMMA Joined ==
    ASSUME NEW a \in Fields, NEW s \in Seq(Fields), NEW b \in Fields
    PROVE  LET j == <<a>> \o s \o <<b>> IN
           /\ j \in Seq(Fields) /\ DOMAIN j = 1..(Len(s) + 2)
           /\ j[1] = a /\ j[Len(s) + 2] = b
           /\ \A k \in 1..Len(s) : j[k + 1] = s[k]
<1> DEFINE u == <<a>> \o s
<1>1. /\ <<a>> \in Seq(Fields) /\ Len(<<a>>) = 1 /\ <<a>>[1] = a
      /\ <<b>> \in Seq(Fields) /\ Len(<<b>>) = 1 /\ <<b>>[1] = b
      /\ Len(s) \in Nat
  OBVIOUS
<1>2. /\ u \in Seq(Fields) /\ Len(u) = Len(s) + 1 /\ u[1] = a
      /\ \A k \in 1..Len(s) : u[k + 1] = s[k]
  BY <1>1
<1> HIDE DEF u
<1>3. /\ u \o <<b>> \in Seq(Fields) /\ DOMAIN (u \o <<b>>) = 1..(Len(s) + 2)
      /\ (u \o <<b>>)[Len(s) + 2] = b
      /\ \A k \in 1..(Len(s) + 1) : (u \o <<b>>)[k] = u[k]
  BY <1>1, <1>2
<1>4. QED
  BY <1>1, <1>2, <1>3 DEF u

LEMMA FieldsOfOne ==
    ASSUME NEW nr \in Nat, NEW n \in Int
    PROVE  /\ fieldsOf(nr, n) \in Seq(Fields)
           /\ \A k \in DOMAIN fieldsOf(nr, n) : fieldsOf(nr, n)[k].name # "other" =>
                  /\ fieldsOf(nr, n)[k].nr = nr
                  /\ fieldsOf(nr, n)[k].value = sentValue(fieldsOf(nr, n)[k].name, n)
           /\ \A name \in {"d", "m", "t"} : \E k \in DOMAIN fieldsOf(nr, n) :
                  fieldsOf(nr, n)[k].name = name /\ fieldsOf(nr, n)[k].nr = nr
<1> DEFINE f(name, v) == [name |-> name, nr |-> nr, value |-> v]
           rest == [name |-> "other", nr |-> 0, value |-> n]
<1>1. /\ \A name \in {"d", "m", "t"}, v \in Int : f(name, v) \in Fields
      /\ rest \in Fields
      /\ \A name, v : /\ f(name, v).name = name /\ f(name, v).nr = nr
                      /\ f(name, v).value = v
      /\ rest.name = "other"
  BY DEF Fields
<1> DEFINE s == fieldsOf(nr, n)
<1>2. -n \in Int /\ sentText(n) \in Int
  BY DEF sentText
<1>3. s = <<f("d", n)>> \o messageField(nr, n) \o <<f("t", n)>>
  BY DEF fieldsOf, field
<1>4. CASE queue[n].text = "plain"
  <2>1. messageField(nr, n) = <<f("m", n)>> /\ sentText(n) = n
    BY <1>4 DEF messageField, field, sentText
  <2> HIDE DEF f, rest, s
  <2>2. <<f("m", n)>> \in Seq(Fields) /\ Len(<<f("m", n)>>) = 1
    BY <1>1
  <2>3. /\ s \in Seq(Fields) /\ DOMAIN s = 1..3
        /\ s[1] = f("d", n) /\ s[2] = f("m", n) /\ s[3] = f("t", n)
    BY <1>1, <1>3, <2>1, <2>2, Joined
  <2>4. \A k \in DOMAIN s : s[k].nr = nr /\ s[k].value = sentValue(s[k].name, n)
    BY <1>1, <2>1, <2>3 DEF sentValue
  <2>5. \A name \in {"d", "m", "t"} : \E k \in DOMAIN s : s[k].name = name /\ s[k].nr = nr
    BY <1>1, <2>3
  <2>6. QED
    BY <2>3, <2>4, <2>5 DEF s
<1>5. CASE queue[n].text # "plain"
  <2> DEFINE t == <<f("m", -n)>> \o <<rest>>
  <2>1. messageField(nr, n) = t /\ sentText(n) = -n
    BY <1>5 DEF messageField, field, sentText
  <2> HIDE DEF f, rest, s
  <2>2. /\ t \in Seq(Fields) /\ Len(t) = 2 /\ t[1] = f("m", -n) /\ t[2] = rest
    BY <1>1, <1>2
  <2> HIDE DEF t
  <2>3. /\ s \in Seq(Fields) /\ DOMAIN s = 1..4
        /\ s[1] = f("d", n) /\ s[2] = f("m", -n) /\ s[3] = rest /\ s[4] = f("t", n)
    <3>1. f("d", n) \in Fields /\ f("t", n) \in Fields
      BY <1>1
    <3>2. /\ s \in Seq(Fields) /\ DOMAIN s = 1..(Len(t) + 2)
          /\ s[1] = f("d", n) /\ s[Len(t) + 2] = f("t", n)
          /\ \A k \in 1..Len(t) : s[k + 1] = t[k]
      <4>1. PICK a \in Fields, u \in Seq(Fields), b \in Fields :
                a = f("d", n) /\ u = t /\ b = f("t", n)
        BY <2>2, <3>1
      <4>2. s = <<a>> \o u \o <<b>>
        BY <1>3, <2>1, <4>1
      <4>3. QED
        BY <4>1, <4>2, Joined
    <3>3. s[2] = t[1] /\ s[3] = t[2]
      <4>1. 1 \in 1..Len(t) /\ 2 \in 1..Len(t) /\ 1 + 1 = 2 /\ 2 + 1 = 3
        BY <2>2
      <4>2. QED
        BY <3>2, <4>1
    <3>4. QED
      BY <2>2, <3>2, <3>3
  <2>4. \A k \in DOMAIN s : s[k].name # "other" =>
           s[k].nr = nr /\ s[k].value = sentValue(s[k].name, n)
    BY <1>1, <2>1, <2>3 DEF sentValue
  <2>5. \A name \in {"d", "m", "t"} : \E k \in DOMAIN s : s[k].name = name /\ s[k].nr = nr
    BY <1>1, <2>3
  <2>6. QED
    BY <2>3, <2>4, <2>5 DEF s
<1>6. QED
  BY <1>4, <1>5

LEMMA BuildKeeps ==
    ASSUME BatchInv, buildParams
    PROVE  BatchInv'
<1> USE DEF BatchInv
<1> DEFINE n == messagesToSend_[built + 1]
           fs == fieldsOf(built, n)
<1>1. /\ UNCHANGED <<pc, queue, i, messagesToSend_, messagesToQueue_,
                     outgoingHeaders, messages, decoded>>
      /\ pc = "endBatch" /\ i > Len(queue) /\ built < Len(messagesToSend_)
      /\ built' = built + 1
  BY DEF buildParams
<1>2. body' = body \o fs
  BY DEF buildParams
<1>3. /\ Len(messagesToSend_) \in Nat /\ built \in Nat
      /\ messagesToSend_ \in Seq(1..Len(queue)) /\ Len(queue) \in Nat
  BY DEF FieldsSoFar, SplitSoFar, QueueOK
<1>4. n \in Int
  BY <1>1, <1>3
<1> HIDE DEF n
<1>5. /\ fs \in Seq(Fields)
      /\ \A k \in DOMAIN fs : fs[k].name # "other" =>
            fs[k].nr = built /\ fs[k].value = sentValue(fs[k].name, n)
      /\ \A name \in {"d", "m", "t"} : \E k \in DOMAIN fs :
            fs[k].name = name /\ fs[k].nr = built
  <2>1. PICK b \in Nat, m \in Int : b = built /\ m = n
    BY <1>3, <1>4
  <2> DEFINE g == fieldsOf(b, m)
  <2>2. fs = g
    BY <2>1
  <2>3. /\ g \in Seq(Fields)
        /\ \A k \in DOMAIN g : g[k].name # "other" =>
              g[k].nr = b /\ g[k].value = sentValue(g[k].name, m)
        /\ \A name \in {"d", "m", "t"} : \E k \in DOMAIN g :
              g[k].name = name /\ g[k].nr = b
    BY FieldsOfOne
  <2> HIDE DEF fs, g
  <2>4. QED
    BY <2>1, <2>2, <2>3
<1> HIDE DEF fs
<1>6. body \in Seq(Fields)
  BY DEF FieldsSoFar
<1>7. /\ body' \in Seq(Fields)
      /\ Len(body) \in Nat /\ Len(fs) \in Nat
      /\ DOMAIN body = 1..Len(body) /\ DOMAIN fs = 1..Len(fs)
      /\ DOMAIN body' = 1..(Len(body) + Len(fs))
      /\ \A k \in DOMAIN body : body'[k] = body[k]
      /\ \A k \in DOMAIN fs : body'[Len(body) + k] = fs[k]
  BY <1>2, <1>5, <1>6
<1>8. \A name, m : sentValue(name, m)' = sentValue(name, m)
  BY <1>1 DEF sentValue, sentText
<1>9. ASSUME NEW k \in DOMAIN body', body'[k].name # "other"
      PROVE  /\ body'[k].nr < built'
             /\ body'[k].value = sentValue(body'[k].name, messagesToSend_[body'[k].nr + 1])
  <2>1. CASE k \in DOMAIN body
    <3>1. /\ body[k] \in Fields /\ body[k].nr < built
          /\ body[k].value = sentValue(body[k].name, messagesToSend_[body[k].nr + 1])
      BY <1>6, <1>7, <1>9, <2>1 DEF FieldsSoFar
    <3>2. body[k].nr < built'
      BY <1>1, <1>3, <3>1 DEF Fields
    <3>3. QED
      BY <1>7, <2>1, <3>1, <3>2
  <2>2. CASE k \notin DOMAIN body
    <3>1. PICK l \in DOMAIN fs : k = Len(body) + l
      <4>1. k - Len(body) \in DOMAIN fs
        BY <1>7, <1>9, <2>2
      <4>2. k = Len(body) + (k - Len(body))
        BY <1>7, <1>9
      <4>3. QED
        BY <4>1, <4>2
    <3>2. body'[k] = fs[l]
      BY <1>7, <3>1
    <3>3. fs[l].nr = built /\ fs[l].value = sentValue(fs[l].name, n)
      BY <1>5, <1>9, <3>2
    <3>4. QED
      BY <1>1, <1>3, <3>2, <3>3 DEF n
  <2>3. QED
    BY <2>1, <2>2
<1>10. ASSUME NEW nr \in 0..(built' - 1), NEW name \in {"d", "m", "t"}
       PROVE  \E k \in DOMAIN body' : body'[k].name = name /\ body'[k].nr = nr
  <2>1. CASE nr = built
    <3>1. PICK l \in DOMAIN fs : fs[l].name = name /\ fs[l].nr = built
      BY <1>5
    <3>2. Len(body) + l \in DOMAIN body' /\ body'[Len(body) + l] = fs[l]
      BY <1>7
    <3>3. QED
      BY <2>1, <3>1, <3>2
  <2>2. CASE nr # built
    <3>1. nr \in 0..(built - 1)
      BY <1>1, <1>3, <2>2
    <3>2. PICK k \in DOMAIN body : body[k].name = name /\ body[k].nr = nr
      BY <3>1 DEF FieldsSoFar
    <3>3. k \in DOMAIN body' /\ body'[k] = body[k]
      BY <1>7
    <3>4. QED
      BY <3>2, <3>3
  <2>3. QED
    BY <2>1, <2>2
<1>11. built' \in 0..Len(messagesToSend_)
  BY <1>1, <1>3
<1>12. i = Len(queue) + 1
  BY <1>1, <1>3 DEF QueueOK
<1>13. FieldsSoFar'
  BY <1>1, <1>7, <1>8, <1>9, <1>10, <1>11, <1>12 DEF FieldsSoFar
<1>14. QueueOK'
  BY <1>1 DEF QueueOK
<1>15. SplitSoFar'
  BY <1>1, SplitKept
<1>16. CommandsSoFar'
  <2>1. messages = 0 /\ decoded = <<>>
    BY <1>1 DEF CommandsSoFar
  <2>2. QED
    BY <1>1, <1>3, <2>1 DEF CommandsSoFar
<1>17. QED
  BY <1>13, <1>14, <1>15, <1>16

LEMMA PostKeeps ==
    ASSUME BatchInv, postBody
    PROVE  BatchInv'
<1> USE DEF BatchInv
<1>1. /\ UNCHANGED <<queue, i, messagesToSend_, messagesToQueue_,
                     outgoingHeaders, built, body, messages, decoded>>
      /\ pc = "endBatch" /\ pc' = "doPost"
      /\ i > Len(queue) /\ built = Len(messagesToSend_)
  BY DEF postBody
<1>2. QueueOK'
  BY <1>1 DEF QueueOK
<1>3. SplitSoFar'
  BY <1>1, SplitKept
<1>4. FieldsSoFar'
  BY <1>1 DEF FieldsSoFar, sentValue, sentText
<1>5. CommandsSoFar'
  BY <1>1 DEF CommandsSoFar, commandOf, sentText
<1>6. QED
  BY <1>2, <1>3, <1>4, <1>5

-----------------------------------------------------------------------------
\* A parameter has the value of its command, or none after the last command.
LEMMA ParametersRead ==
    ASSUME BatchInv, pc = "doPost", NEW name \in {"d", "m", "t"}
    PROVE  getParameter(name, messages) =
               IF messages < built
               THEN sentValue(name, messagesToSend_[messages + 1])
               ELSE Null
<1> USE DEF BatchInv
<1> DEFINE at == {k \in DOMAIN body : body[k].name = name /\ body[k].nr = messages}
           first == CHOOSE k \in at : \A l \in at : k <= l
<1>1. getParameter(name, messages) = IF at = {} THEN Null ELSE body[first].value
  BY DEF getParameter
<1>2. messages \in Nat /\ built \in Nat
  BY DEF FieldsSoFar, CommandsSoFar, SplitSoFar
<1>3. CASE messages < built
  <2>1. messages \in 0..(built - 1)
    BY <1>2, <1>3
  <2>2. at # {}
    <3>1. \E k \in DOMAIN body : body[k].name = name /\ body[k].nr = messages
      BY <2>1 DEF FieldsSoFar
    <3>2. QED
      BY <3>1
  <2>3. at \in SUBSET Nat
    BY DEF FieldsSoFar
  <2> HIDE DEF at
  <2>4. \E k \in at : \A l \in at : k <= l
    BY <2>2, <2>3, LeastExists
  <2>5. first \in at
    BY <2>4
  <2> HIDE DEF first
  <2>6. /\ first \in DOMAIN body
        /\ body[first].name = name /\ body[first].nr = messages
    BY <2>5 DEF at
  <2>7. body[first].value = sentValue(name, messagesToSend_[messages + 1])
    BY <2>6 DEF FieldsSoFar
  <2>8. QED
    BY <1>1, <1>3, <2>2, <2>7
<1>4. CASE ~(messages < built)
  <2>1. ASSUME NEW k \in at PROVE FALSE
    BY <1>4 DEF FieldsSoFar
  <2>2. QED
    BY <1>1, <1>4, <2>1
<1>5. QED
  BY <1>3, <1>4

\* What is sent is a position of the queue: never Null, cut or not.
LEMMA SentIsCommand ==
    ASSUME BatchInv, messages < built
    PROVE  LET n == messagesToSend_[messages + 1] IN
           /\ n \in 1..Len(queue) /\ goes(n)
           /\ n # Null /\ sentText(n) # Null
<1> USE DEF BatchInv
<1> DEFINE n == messagesToSend_[messages + 1]
<1>1. /\ messages \in Nat /\ built \in Nat /\ Len(messagesToSend_) \in Nat
      /\ built <= Len(messagesToSend_)
      /\ messagesToSend_ \in Seq(1..Len(queue)) /\ Len(queue) \in Nat
  BY DEF FieldsSoFar, CommandsSoFar, SplitSoFar, QueueOK
<1>2. messages + 1 \in DOMAIN messagesToSend_
  BY <1>1
<1>3. n \in Indices(messagesToSend_)
  BY <1>2 DEF Indices
<1>4. n \in 1..Len(queue)
  BY <1>1, <1>2
<1>5. goes(n)
  BY <1>3 DEF SplitSoFar
<1> HIDE DEF n
<1>6. n \in Int /\ n > 0
  BY <1>1, <1>4
<1>7. QED
  BY <1>4, <1>5, <1>6 DEF n, sentText, Null

LEMMA IncompleteAtTheEnd ==
    ASSUME BatchInv, pc = "doPost"
    PROVE  incomplete <=> ~(messages < built)
<1> DEFINE n == messagesToSend_[messages + 1]
<1>1. CASE messages < built
  <2>1. /\ getParameter("d", messages) = n /\ getParameter("t", messages) = n
        /\ getParameter("m", messages) = sentText(n)
    BY <1>1, ParametersRead DEF sentValue
  <2>2. n # Null /\ sentText(n) # Null
    BY <1>1, SentIsCommand
  <2> HIDE DEF n
  <2>3. QED
    BY <1>1, <2>1, <2>2 DEF incomplete
<1>2. CASE ~(messages < built)
  <2>1. getParameter("d", messages) = Null
    BY <1>2, ParametersRead
  <2>2. QED
    BY <1>2, <2>1 DEF incomplete
<1>3. QED
  BY <1>1, <1>2

LEMMA DecodeKeeps ==
    ASSUME BatchInv, decodeCommand
    PROVE  BatchInv'
<1> USE DEF BatchInv
<1> DEFINE n == messagesToSend_[messages + 1]
<1>1. /\ UNCHANGED <<pc, queue, i, messagesToSend_, messagesToQueue_,
                     outgoingHeaders, built, body>>
      /\ pc = "doPost" /\ ~incomplete /\ messages' = messages + 1
  BY DEF decodeCommand
<1>2. messages < built
  BY <1>1, IncompleteAtTheEnd
<1>3. /\ getParameter("d", messages) = n /\ getParameter("t", messages) = n
      /\ getParameter("m", messages) = sentText(n)
  BY <1>1, <1>2, ParametersRead DEF sentValue
<1>4. n \in 1..Len(queue) /\ goes(n)
  BY <1>2, SentIsCommand
<1>5. /\ messages \in Nat /\ built \in Nat /\ Len(queue) \in Nat
      /\ i = Len(queue) + 1 /\ queue[n] \in Entries /\ DOMAIN queue = 1..Len(queue)
  BY <1>1, <1>4 DEF FieldsSoFar, CommandsSoFar, SplitSoFar, QueueOK
<1> HIDE DEF n
<1>6. (IF queue[n].type = "listen" THEN outgoingHeaders ELSE NoHeaders)
          = (IF queue[n].headers THEN n ELSE NoHeaders)
  <2>1. queue[n].headers <=> n \in withHeaders
    BY <1>4, <1>5 DEF withHeaders
  <2>2. i > 1
    BY <1>4, <1>5
  <2>3. CASE 1 \in withHeaders
    <3>1. n = 1 /\ outgoingHeaders = 1 /\ queue[n].headers
      BY <1>4, <2>1, <2>2, <2>3 DEF goes, SplitSoFar
    <3>2. queue[n].type = "listen"
      BY <1>5, <3>1 DEF Entries
    <3>3. QED
      BY <3>1, <3>2
  <2>4. CASE 1 \notin withHeaders
    <3>1. outgoingHeaders = NoHeaders /\ ~queue[n].headers
      BY <1>4, <2>1, <2>4 DEF goes, SplitSoFar
    <3>2. QED
      BY <3>1
  <2>5. QED
    BY <2>3, <2>4
<1>7. decoded' = Append(decoded, commandOf(n))
  BY <1>3, <1>6 DEF decodeCommand, commandOf
<1>8. decoded' = [k \in 1..(messages + 1) |-> commandOf(messagesToSend_[k])]
  <2>1. decoded = [k \in 1..messages |-> commandOf(messagesToSend_[k])]
    BY DEF CommandsSoFar
  <2> DEFINE g(k) == commandOf(messagesToSend_[k])
  <2>2. g(messages + 1) = commandOf(n)
    BY DEF n
  <2> HIDE DEF g
  <2>3. decoded = [k \in 1..messages |-> g(k)] /\ decoded' = Append(decoded, g(messages + 1))
    BY <1>7, <2>1, <2>2 DEF g
  <2>4. decoded' = [k \in 1..(messages + 1) |-> g(k)]
    BY <1>5, <2>3
  <2>5. QED
    BY <2>4 DEF g
<1>9. \A m : commandOf(m)' = commandOf(m)
  BY <1>1 DEF commandOf, sentText
<1>10. messages' \in 0..built
  BY <1>1, <1>2, <1>5
<1>11. CommandsSoFar'
  BY <1>1, <1>8, <1>9, <1>10 DEF CommandsSoFar
<1>12. QueueOK'
  BY <1>1 DEF QueueOK
<1>13. SplitSoFar'
  BY <1>1, SplitKept
<1>14. FieldsSoFar'
  BY <1>1 DEF FieldsSoFar, sentValue, sentText
<1>15. QED
  BY <1>11, <1>12, <1>13, <1>14

LEMMA BatchInvNext == BatchInv /\ [Next]_vars => BatchInv'
<1> SUFFICES ASSUME BatchInv, [Next]_vars PROVE BatchInv'
  OBVIOUS
<1>1. CASE scanEntry
  BY <1>1, ScanKeeps
<1>2. CASE buildParams
  BY <1>2, BuildKeeps
<1>3. CASE postBody
  BY <1>3, PostKeeps
<1>4. CASE decodeCommand
  BY <1>4, DecodeKeeps
<1>5. CASE decodeEnd
  <2>1. /\ UNCHANGED <<queue, i, messagesToSend_, messagesToQueue_,
                       outgoingHeaders, built, body, messages, decoded>>
        /\ pc = "doPost" /\ pc' = "done" /\ incomplete
    BY <1>5 DEF decodeEnd
  <2>2. messages = built
    <3>1. ~(messages < built)
      BY <2>1, IncompleteAtTheEnd
    <3>2. messages \in Int /\ built \in Int /\ messages <= built
      BY DEF BatchInv, CommandsSoFar, FieldsSoFar, SplitSoFar
    <3>3. QED
      BY <3>1, <3>2
  <2>3. QueueOK'
    BY <2>1 DEF BatchInv, QueueOK
  <2>4. SplitSoFar'
    BY <2>1, SplitKept DEF BatchInv
  <2>5. FieldsSoFar'
    BY <2>1 DEF BatchInv, FieldsSoFar, sentValue, sentText
  <2>6. CommandsSoFar'
    BY <2>1, <2>2 DEF BatchInv, CommandsSoFar, commandOf, sentText
  <2>7. QED
    BY <2>3, <2>4, <2>5, <2>6 DEF BatchInv
<1>6. CASE UNCHANGED vars
  <2> USE <1>6 DEF vars, BatchInv
  <2>1. QueueOK'
    BY DEF QueueOK
  <2>2. SplitSoFar'
    BY SplitKept
  <2>3. FieldsSoFar'
    BY DEF FieldsSoFar, sentValue, sentText
  <2>4. CommandsSoFar'
    BY DEF CommandsSoFar, commandOf, sentText
  <2>5. QED
    BY <2>1, <2>2, <2>3, <2>4
<1>7. QED
  BY <1>1, <1>2, <1>3, <1>4, <1>5, <1>6 DEF Next

-----------------------------------------------------------------------------
\* The loop of endBatch computes the split of AmqQueue and keeps the order of
\* the queue in both parts, whatever the queue (amq.js:248-258).
THEOREM LoopSplits == Spec => []LoopComputesSplit
<1>1. BatchInv => LoopComputesSplit
  <2> SUFFICES ASSUME BatchInv, pc # "endBatch" PROVE LoopComputesSplit
    BY DEF LoopComputesSplit
  <2>1. /\ Len(queue) \in Nat /\ Len(queue) > 0 /\ DOMAIN queue = 1..Len(queue)
        /\ i = Len(queue) + 1
    BY DEF BatchInv, QueueOK
  <2>2. 1..(i - 1) = DOMAIN queue /\ 1 \in DOMAIN queue
    BY <2>1
  <2>3. \A n \in DOMAIN queue : isFirst(n, DOMAIN queue) <=> n = 1
    <3>1. SUFFICES ASSUME NEW n \in DOMAIN queue
                   PROVE  isFirst(n, DOMAIN queue) <=> n = 1
      OBVIOUS
    <3>2. n \in Int /\ 1 <= n
      BY <2>1
    <3>3. isFirst(n, DOMAIN queue) => n <= 1
      BY <2>2 DEF isFirst
    <3>4. n = 1 => isFirst(n, DOMAIN queue)
      BY <2>1 DEF isFirst
    <3>5. QED
      BY <3>2, <3>3, <3>4
  <2>4. \A n \in DOMAIN queue : n \in messagesToSend(DOMAIN queue, withHeaders) <=> goes(n)
    BY <2>2, <2>3 DEF messagesToSend, goes, withHeaders
  <2>5. messagesToSend(DOMAIN queue, withHeaders) = {n \in DOMAIN queue : goes(n)}
    BY <2>4 DEF messagesToSend
  <2>6. messagesToQueue(DOMAIN queue, withHeaders) = {n \in DOMAIN queue : ~goes(n)}
    BY <2>5 DEF messagesToQueue
  <2>7. QED
    BY <2>2, <2>5, <2>6 DEF BatchInv, SplitSoFar, LoopComputesSplit, withHeaders
<1>2. QED
  BY <1>1, BatchInvInit, BatchInvNext, PTL DEF Spec

\* The servlet carries out exactly the commands of the batch, in order, each
\* with what the page gave it, whatever texts there are in the batch
\* (amq.js:245-249, MessageListenerServlet.java:134-149).
THEOREM BatchDecoded == Spec => []DecodedAsSent
<1>1. BatchInv => DecodedAsSent
  <2> SUFFICES ASSUME BatchInv, pc = "done" PROVE DecodedAsSent
    BY DEF DecodedAsSent
  <2>1. /\ messages = Len(messagesToSend_) /\ messages \in Nat
        /\ decoded = [k \in 1..messages |-> commandOf(messagesToSend_[k])]
    BY DEF BatchInv, CommandsSoFar, FieldsSoFar, SplitSoFar
  <2>2. Len(decoded) = messages /\ DOMAIN decoded = 1..messages
    BY <2>1
  <2>3. \A k \in DOMAIN decoded : decoded[k] = commandOf(messagesToSend_[k])
    BY <2>1
  <2>4. QED
    BY <2>1, <2>2, <2>3 DEF DecodedAsSent, commandOf, sentText
<1>2. QED
  BY <1>1, BatchInvInit, BatchInvNext, PTL DEF Spec
=============================================================================
