-------------------------- MODULE AmqClientProofs --------------------------
(***************************************************************************)
(* What AmqClient guarantees for every set of ids, every number of calls   *)
(* and every choice of the application's options, checked by TLAPS.        *)
(***************************************************************************)
EXTENDS AmqClient, SequenceTheorems, WellFoundedInduction, TLAPS

USE BoundsAssumption, OptionsAssumption

-----------------------------------------------------------------------------
(***************************************************************************)
(* The split of endBatch.                                                  *)
(***************************************************************************)
\* Both parts come from the queue, they are disjoint, and together they are it.
LEMMA SplitPartitions ==
    ASSUME NEW queue, NEW withH
    PROVE  /\ messagesToSend(queue, withH) \subseteq queue
           /\ messagesToQueue(queue, withH) \subseteq queue
           /\ messagesToSend(queue, withH) \intersect messagesToQueue(queue, withH) = {}
           /\ messagesToSend(queue, withH) \union messagesToQueue(queue, withH) = queue
BY DEF messagesToSend, messagesToQueue

\* A command with headers is sent alone.
LEMMA SplitHeadersAlone ==
    ASSUME NEW queue \in SUBSET Int, NEW withH,
           NEW n \in messagesToSend(queue, withH), n \in withH
    PROVE  messagesToSend(queue, withH) = {n}
<1>1. n \in queue /\ isFirst(n, queue)
  BY DEF messagesToSend
<1>2. ASSUME NEW m \in messagesToSend(queue, withH) PROVE m = n
  <2>1. m \in queue
    BY DEF messagesToSend
  <2>2. isFirst(m, queue)
    BY <1>1 DEF messagesToSend
  <2>3. QED
    BY <1>1, <2>1, <2>2 DEF isFirst
<1>3. QED
  BY <1>2

\* Within a class, what is sent is older than what stays.
LEMMA SplitKeepsOrder ==
    ASSUME NEW queue \in SUBSET Int, NEW withH,
           NEW n \in messagesToSend(queue, withH),
           NEW m \in messagesToQueue(queue, withH),
           n \in withH <=> m \in withH
    PROVE  n < m
<1>1. n \in queue /\ m \in queue /\ m \notin messagesToSend(queue, withH) /\ n # m
  BY DEF messagesToSend, messagesToQueue
<1>2. CASE n \in withH
  <2>1. isFirst(n, queue)
    BY <1>2 DEF messagesToSend
  <2>2. QED
    BY <1>1, <2>1 DEF isFirst
<1>3. CASE n \notin withH
  <2>1. m \in messagesToSend(queue, withH)
    BY <1>1, <1>3 DEF messagesToSend
  <2>2. QED
    BY <1>1, <2>1
<1>4. QED
  BY <1>2, <1>3

-----------------------------------------------------------------------------
(***************************************************************************)
(* Type correctness.                                                       *)
(***************************************************************************)
LEMMA TypeInit == Init => TypeOK
<1> SUFFICES ASSUME Init PROVE TypeOK
  OBVIOUS
<1>1. calls \in Seq(Commands) /\ Len(calls) <= MaxCalls
  BY DEF Init
<1>2. replies \in Seq([cb : Callbacks, ids : Seq(Ids)]) /\ todo \in Seq(Ids)
  BY DEF Init
<1>3. posted \in Seq(SUBSET (1..MaxCalls))
  BY DEF Init
<1>4. waiting \in [Callbacks -> Nat]
  BY DEF Init
<1>5. QED
  BY <1>1, <1>2, <1>3, <1>4 DEF Init, TypeOK

\* What one API call leaves behind, whichever it is.
LEMMA SendTyped ==
    ASSUME TypeOK, NEW cmd \in Commands, sendJmsMessage(cmd),
           messageHandlers' \subseteq Ids
    PROVE  TypeOK'
<1> DEFINE n == Len(calls) + 1
<1> USE DEF TypeOK
<1>1. n \in 1..MaxCalls
  BY DEF sendJmsMessage
<1>2. calls' \in Seq(Commands) /\ Len(calls') <= MaxCalls
  BY <1>1 DEF sendJmsMessage
<1>3. CASE batchInProgress
  <2>1. messageQueue' \subseteq 1..MaxCalls
    BY <1>1, <1>3 DEF sendJmsMessage
  <2>2. QED
    BY <1>2, <1>3, <2>1 DEF sendJmsMessage, pollVars
<1>4. CASE ~batchInProgress
  <2>1. posted' = Append(posted, {n}) /\ batchInProgress' = TRUE /\ UNCHANGED messageQueue
    BY <1>4 DEF sendJmsMessage, Post
  <2>2. posted' \in Seq(SUBSET (1..MaxCalls)) /\ DOMAIN posted' = DOMAIN posted \union {Len(posted) + 1}
    BY <1>1, <2>1
  <2>3. inFlight' \subseteq DOMAIN posted' /\ unserved' \subseteq DOMAIN posted'
    BY <1>4, <2>2 DEF sendJmsMessage, Post
  <2>4. QED
    BY <1>2, <2>1, <2>2, <2>3 DEF sendJmsMessage, pollVars
<1>5. QED
  BY <1>3, <1>4

\* What endBatch does to the queue and the POSTs.
LEMMA EndBatchTyped ==
    ASSUME TypeOK, endBatchCall
    PROVE  /\ batchInProgress' \in BOOLEAN
           /\ messageQueue' \subseteq 1..MaxCalls
           /\ posted' \in Seq(SUBSET (1..MaxCalls))
           /\ DOMAIN posted \subseteq DOMAIN posted'
           /\ unserved' \subseteq DOMAIN posted'
<1> USE DEF TypeOK
<1>1. CASE messageQueue # {}
  <2> DEFINE S == messagesToSend(messageQueue, withHeaders)
  <2>1. S \subseteq 1..MaxCalls
    BY SplitPartitions
  <2>2. posted' = Append(posted, S) /\ unserved' = unserved \union {Len(posted) + 1}
    BY <1>1 DEF endBatchCall
  <2> HIDE DEF S
  <2>3. posted' \in Seq(SUBSET (1..MaxCalls)) /\ DOMAIN posted' = DOMAIN posted \union {Len(posted) + 1}
    <3>1. posted \in Seq(SUBSET (1..MaxCalls)) /\ S \in SUBSET (1..MaxCalls)
      BY <2>1
    <3>2. QED
      BY <2>2, <3>1
  <2> USE DEF S
  <2>4. QED
    BY <1>1, <2>2, <2>3, SplitPartitions DEF endBatchCall
<1>2. CASE messageQueue = {}
  BY <1>2 DEF endBatchCall
<1>3. QED
  BY <1>1, <1>2

\* An answer holds ids the server has a consumer for.
LEMMA AnswersAreHeard ==
    ASSUME TypeOK, NEW ids \in Answers
    PROVE  ids \in Seq(Ids) /\ Elements(ids) \subseteq subscribed
<1>1. PICK k \in 0..MaxResponse : ids \in [1..k -> subscribed]
  BY DEF Answers
<1>2. k \in Nat /\ subscribed \subseteq Ids
  BY DEF TypeOK
<1>3. ids \in [1..k -> Ids] /\ DOMAIN ids = 1..k /\ \A i \in 1..k : ids[i] \in subscribed
  BY <1>1, <1>2
<1>4. ids \in Seq(Ids)
  BY <1>2, <1>3
<1>5. QED
  BY <1>3, <1>4 DEF Elements

LEMMA TypeNext == TypeOK /\ [Next]_vars => TypeOK'
<1> SUFFICES ASSUME TypeOK, [Next]_vars PROVE TypeOK'
  OBVIOUS
<1> USE DEF TypeOK, Commands, Types, Callbacks, postVars, serverVars, pollVars
<1>1. ASSUME NEW id \in Ids, addListener(id) PROVE TypeOK'
  <2>1. PICK h \in BOOLEAN : sendJmsMessage([type |-> "listen", id |-> id, headers |-> h])
    BY <1>1 DEF addListener
  <2>2. QED
    BY <1>1, <2>1, SendTyped DEF addListener
<1>2. ASSUME NEW id \in Ids, removeListener(id) PROVE TypeOK'
  <2>1. [type |-> "unlisten", id |-> id, headers |-> FALSE] \in Commands
    OBVIOUS
  <2>2. QED
    BY <1>2, <2>1, SendTyped DEF removeListener
<1>3. ASSUME NEW id \in Ids, sendMessage(id) PROVE TypeOK'
  <2>1. [type |-> "send", id |-> id, headers |-> FALSE] \in Commands
    OBVIOUS
  <2>2. QED
    BY <1>3, <2>1, SendTyped DEF sendMessage
<1>4. CASE startBatch
  BY <1>4 DEF startBatch
<1>5. CASE endBatch
  BY <1>5, EndBatchTyped DEF endBatch, newPosts
<1>6. ASSUME NEW p \in DOMAIN posted, servePost(p) PROVE TypeOK'
  <2>1. PICK R \in SUBSET listensOf(p) : refused' = refused \union R
    BY <1>6 DEF servePost
  <2>2. R \subseteq 1..MaxCalls
    BY <2>1 DEF listensOf
  <2>3. QED
    BY <1>6, <2>1, <2>2 DEF servePost, subscriptionsAfter
<1>7. ASSUME NEW cb \in Callbacks, answerPoll(cb) PROVE TypeOK'
  <2>1. PICK ids \in Answers : replies' = Append(replies, [cb |-> cb, ids |-> ids])
    BY <1>7 DEF answerPoll
  <2>2. ids \in Seq(Ids)
    BY <2>1, AnswersAreHeard
  <2>3. QED
    BY <1>7, <2>1, <2>2 DEF answerPoll
<1>8. ASSUME NEW p \in DOMAIN posted, postSuccess(p) PROVE TypeOK'
  BY <1>8, EndBatchTyped DEF postSuccess, newPosts
<1>9. ASSUME NEW p \in DOMAIN posted, errorHandler(p) PROVE TypeOK'
  BY <1>9 DEF errorHandler
<1>10. ASSUME NEW cb \in Callbacks, pollErrorHandler(cb) PROVE TypeOK'
  BY <1>10 DEF pollErrorHandler
<1>11. CASE pollTimer
  BY <1>11 DEF pollTimer, sendPollCall
<1>12. CASE initHandler
  BY <1>12 DEF initHandler, lost
<1>13. CASE initHandlerReturn
  BY <1>13 DEF initHandlerReturn, sendPollCall
<1>14. CASE initHandlerThrow
  BY <1>14 DEF initHandlerThrow
<1>15. CASE pollHandler
  <2>1. Head(replies).ids \in Seq(Ids)
    <3>1. Head(replies) \in [cb : Callbacks, ids : Seq(Ids)]
      BY <1>15, HeadTailProperties DEF pollHandler
    <3>2. QED
      BY <3>1
  <2>2. Tail(replies) \in Seq([cb : Callbacks, ids : Seq(Ids)])
    BY <1>15 DEF pollHandler
  <2>3. QED
    BY <1>15, <2>1, <2>2 DEF pollHandler
<1>16. CASE callHandler
  BY <1>16 DEF callHandler
<1>17. CASE skipResponse
  BY <1>17 DEF skipResponse
<1>18. CASE pollHandlerThrow
  BY <1>18 DEF pollHandlerThrow, pollHandlerFinally, lost
<1>19. CASE pollHandlerReturn
  BY <1>19 DEF pollHandlerReturn, pollHandlerFinally
<1>20. CASE pollErrorHandlerReturn \/ pollErrorHandlerThrow
  <2>1. CASE pollErrorHandlerReturn
    BY <2>1 DEF pollErrorHandlerReturn
  <2>2. CASE pollErrorHandlerThrow
    BY <2>2 DEF pollErrorHandlerThrow
  <2>3. QED
    BY <1>20, <2>1, <2>2
<1>21. CASE connectStatusReturn
  BY <1>21 DEF connectStatusReturn
<1>22. CASE noHandlerThrow
  <2>1. dropped' \subseteq Ids /\ pollHandlerFinally
    BY <1>22 DEF noHandlerThrow, lost
  <2>2. QED
    BY <2>1 DEF noHandlerThrow, pollHandlerFinally
<1>23. CASE UNCHANGED vars
  BY <1>23 DEF vars
<1>24. QED
  BY <1>1, <1>2, <1>3, <1>4, <1>5, <1>6, <1>7, <1>8, <1>9, <1>10, <1>11,
     <1>12, <1>13, <1>14, <1>15, <1>16, <1>17, <1>18, <1>19, <1>20,
     <1>21, <1>22, <1>23
     DEF Next, Application, Server, Page

\* The state of the client stays well formed: every number in the queue and in
\* a POST is that of a call, and no counter of polls goes below zero.
THEOREM TypeCorrect == Spec => []TypeOK
<1>1. QED
  BY TypeInit, TypeNext, PTL DEF Spec

-----------------------------------------------------------------------------
(***************************************************************************)
(* The outbound commands.  EachCommandOnce, HeadersAlone and ClassOrder    *)
(* are not inductive without QueueNeedsBatch: a call that finds no batch   *)
(* in progress is posted at once, which is in order only when no earlier   *)
(* command is still in the queue.                                          *)
(***************************************************************************)
QueueNeedsBatch == ~batchInProgress => messageQueue = {}

OnlyCalls ==
    /\ messageQueue \subseteq DOMAIN calls
    /\ \A p \in DOMAIN posted : posted[p] \subseteq DOMAIN calls

NoneLost ==
    \A n \in DOMAIN calls :
        n \in messageQueue \/ \E p \in DOMAIN posted : n \in posted[p]

NoneTwice ==
    /\ \A p \in DOMAIN posted : posted[p] \intersect messageQueue = {}
    /\ \A p, q \in DOMAIN posted : p # q => posted[p] \intersect posted[q] = {}

QueueInv ==
    /\ QueueNeedsBatch
    /\ OnlyCalls
    /\ NoneLost
    /\ NoneTwice
    /\ HeadersAlone
    /\ ClassOrder

LEMMA QueueInvInit == Init => QueueInv
BY DEF Init, QueueInv, QueueNeedsBatch, OnlyCalls, NoneLost, NoneTwice,
       HeadersAlone, ClassOrder

\* A command that is posted or queued in its turn.
LEMMA SendKeepsQueueInv ==
    ASSUME TypeOK, QueueInv, NEW cmd \in Commands, sendJmsMessage(cmd)
    PROVE  QueueInv'
<1> DEFINE n == Len(calls) + 1
<1> USE DEF TypeOK
<1>1. /\ DOMAIN calls' = DOMAIN calls \union {n} /\ n \notin DOMAIN calls
      /\ \A m \in DOMAIN calls : m < n /\ Headers(m)' = Headers(m)
  BY DEF sendJmsMessage, Headers
<1>2. CASE batchInProgress
  <2>1. batchInProgress' /\ messageQueue' = messageQueue \union {n} /\ posted' = posted
    BY <1>2 DEF sendJmsMessage
  <2>2. QueueNeedsBatch' /\ OnlyCalls' /\ NoneLost' /\ NoneTwice'
    <3>1. QueueNeedsBatch'
      BY <2>1 DEF QueueNeedsBatch
    <3>2. OnlyCalls'
      BY <1>1, <2>1 DEF QueueInv, OnlyCalls
    <3>3. NoneLost'
      BY <1>1, <2>1 DEF QueueInv, NoneLost
    <3>4. NoneTwice'
      BY <1>1, <2>1 DEF QueueInv, OnlyCalls, NoneTwice
    <3>5. QED
      BY <3>1, <3>2, <3>3, <3>4
  <2>3. HeadersAlone'
    BY <1>1, <2>1 DEF QueueInv, OnlyCalls, HeadersAlone
  <2>4. ClassOrder'
    BY <1>1, <2>1 DEF QueueInv, OnlyCalls, ClassOrder
  <2>5. QED
    BY <2>2, <2>3, <2>4 DEF QueueInv
<1>3. CASE ~batchInProgress
  <2> DEFINE k == Len(posted) + 1
  <2>1. batchInProgress' /\ messageQueue' = messageQueue /\ messageQueue = {}
        /\ posted' = Append(posted, {n})
    BY <1>3 DEF sendJmsMessage, Post, QueueInv, QueueNeedsBatch
  <2>2. /\ DOMAIN posted' = DOMAIN posted \union {k} /\ k \notin DOMAIN posted
        /\ posted'[k] = {n}
        /\ \A p \in DOMAIN posted : p < k /\ posted'[p] = posted[p]
    BY <2>1
  <2>3. QueueNeedsBatch' /\ OnlyCalls' /\ NoneLost' /\ NoneTwice'
    BY <1>1, <2>1, <2>2 DEF QueueInv, QueueNeedsBatch, OnlyCalls, NoneLost, NoneTwice
  <2>4. HeadersAlone'
    BY <1>1, <2>2 DEF QueueInv, OnlyCalls, HeadersAlone
  <2>5. ClassOrder'
    <3>1. ASSUME NEW p \in DOMAIN posted', NEW q \in DOMAIN posted', p < q,
                 NEW a \in posted'[p], NEW b \in posted'[q], Headers(a)' = Headers(b)'
          PROVE  a < b
      <4>1. p \in DOMAIN posted /\ a \in DOMAIN calls
        BY <2>2, <3>1 DEF QueueInv, OnlyCalls
      <4>2. CASE q = k
        BY <1>1, <2>2, <4>1, <4>2, <3>1
      <4>3. CASE q \in DOMAIN posted
        <5>1. b \in DOMAIN calls
          BY <2>2, <3>1, <4>3 DEF QueueInv, OnlyCalls
        <5>2. QED
          BY <1>1, <2>2, <3>1, <4>1, <4>3, <5>1 DEF QueueInv, ClassOrder
      <4>4. QED
        BY <2>2, <4>2, <4>3
    <3>2. QED
      BY <2>1, <3>1 DEF ClassOrder
  <2>6. QED
    BY <2>3, <2>4, <2>5 DEF QueueInv
<1>4. QED
  BY <1>2, <1>3

\* endBatch, whoever calls it.
LEMMA EndBatchKeepsQueueInv ==
    ASSUME TypeOK, QueueInv, endBatchCall, UNCHANGED calls
    PROVE  QueueInv'
<1> USE DEF TypeOK
<1>1. CASE messageQueue = {}
  <2>1. UNCHANGED <<calls, messageQueue, posted>>
    BY <1>1 DEF endBatchCall
  <2>2. QED
    BY <1>1, <2>1 DEF QueueInv, QueueNeedsBatch, OnlyCalls, NoneLost, NoneTwice,
                      HeadersAlone, ClassOrder, Headers
<1>2. CASE messageQueue # {}
  <2> DEFINE k == Len(posted) + 1
             S == messagesToSend(messageQueue, withHeaders)
             R == messagesToQueue(messageQueue, withHeaders)
  <2>1. batchInProgress' /\ messageQueue' = R /\ posted' = Append(posted, S)
    BY <1>2 DEF endBatchCall
  <2>2. /\ S \subseteq messageQueue /\ R \subseteq messageQueue
        /\ S \intersect R = {} /\ S \union R = messageQueue
    BY SplitPartitions
  <2>3. messageQueue \in SUBSET Int /\ messageQueue \subseteq DOMAIN calls
    BY DEF QueueInv, OnlyCalls
  <2> HIDE DEF S, R
  <2>4. /\ DOMAIN posted' = DOMAIN posted \union {k} /\ k \notin DOMAIN posted
        /\ posted'[k] = S
        /\ \A p \in DOMAIN posted : p < k /\ posted'[p] = posted[p]
    <3>1. S \in SUBSET (1..MaxCalls)
      BY <2>2
    <3>2. QED
      BY <2>1, <3>1
  <2>5. \A m \in DOMAIN calls : Headers(m)' = Headers(m) /\ (m \in withHeaders <=> Headers(m))
    BY DEF Headers, withHeaders
  <2>6. QueueNeedsBatch' /\ OnlyCalls'
    BY <2>1, <2>2, <2>4 DEF QueueInv, QueueNeedsBatch, OnlyCalls
  <2>7. NoneLost'
    BY <2>1, <2>2, <2>4 DEF QueueInv, NoneLost
  <2>8. NoneTwice'
    <3>1. /\ \A p \in DOMAIN posted : posted[p] \intersect messageQueue = {}
          /\ \A p, q \in DOMAIN posted : p # q => posted[p] \intersect posted[q] = {}
      BY DEF QueueInv, NoneTwice
    <3>2. ASSUME NEW p \in DOMAIN posted'
          PROVE  posted'[p] \intersect messageQueue' = {}
      <4>1. CASE p = k
        BY <2>1, <2>2, <2>4, <4>1
      <4>2. CASE p \in DOMAIN posted
        BY <2>1, <2>2, <2>4, <3>1, <4>2
      <4>3. QED
        BY <2>4, <4>1, <4>2
    <3>3. ASSUME NEW p \in DOMAIN posted', NEW q \in DOMAIN posted', p # q
          PROVE  posted'[p] \intersect posted'[q] = {}
      <4>1. CASE p \in DOMAIN posted /\ q \in DOMAIN posted
        BY <2>4, <3>1, <3>3, <4>1
      <4>2. CASE p = k /\ q \in DOMAIN posted
        BY <2>2, <2>4, <3>1, <4>2
      <4>3. CASE p \in DOMAIN posted /\ q = k
        BY <2>2, <2>4, <3>1, <4>3
      <4>4. QED
        BY <2>4, <3>3, <4>1, <4>2, <4>3
    <3>4. QED
      BY <3>2, <3>3 DEF NoneTwice
  <2>9. HeadersAlone'
    <3>1. \A a \in S : Headers(a) => S = {a}
      BY <2>2, <2>3, <2>5, SplitHeadersAlone DEF S
    <3>2. QED
      BY <2>2, <2>3, <2>4, <2>5, <3>1 DEF QueueInv, OnlyCalls, HeadersAlone
  <2>10. ClassOrder'
    <3>1. \A a \in S, m \in R : Headers(m) = Headers(a) => a < m
      <4>1. SUFFICES ASSUME NEW a \in S, NEW m \in R, Headers(m) = Headers(a)
                     PROVE  a < m
        OBVIOUS
      <4>2. a \in DOMAIN calls /\ m \in DOMAIN calls
        BY <2>2, <2>3
      <4>3. a \in withHeaders <=> m \in withHeaders
        BY <2>5, <4>1, <4>2
      <4>4. QED
        BY <2>3, <4>3, SplitKeepsOrder DEF S, R
    <3>2. ASSUME NEW p \in DOMAIN posted', NEW a \in posted'[p],
                 NEW m \in messageQueue', Headers(m)' = Headers(a)'
          PROVE  a < m
      <4>1. m \in R /\ m \in DOMAIN calls
        BY <2>1, <2>2, <2>3
      <4>2. CASE p = k
        BY <2>2, <2>3, <2>4, <2>5, <3>1, <3>2, <4>1, <4>2
      <4>3. CASE p \in DOMAIN posted
        BY <2>2, <2>4, <2>5, <3>2, <4>1, <4>3 DEF QueueInv, OnlyCalls, ClassOrder
      <4>4. QED
        BY <2>4, <4>2, <4>3
    <3>3. ASSUME NEW p \in DOMAIN posted', NEW q \in DOMAIN posted', p < q,
                 NEW a \in posted'[p], NEW b \in posted'[q], Headers(a)' = Headers(b)'
          PROVE  a < b
      <4>1. p \in DOMAIN posted /\ a \in posted[p] /\ a \in DOMAIN calls
        BY <2>4, <3>3 DEF QueueInv, OnlyCalls
      <4>2. CASE q = k
        <5>1. b \in messageQueue /\ b \in DOMAIN calls
          BY <2>2, <2>3, <2>4, <3>3, <4>2
        <5>2. QED
          BY <2>5, <3>3, <4>1, <5>1 DEF QueueInv, ClassOrder
      <4>3. CASE q \in DOMAIN posted
        <5>1. b \in posted[q] /\ b \in DOMAIN calls
          BY <2>4, <3>3, <4>3 DEF QueueInv, OnlyCalls
        <5>2. QED
          BY <2>5, <3>3, <4>1, <4>3, <5>1 DEF QueueInv, ClassOrder
      <4>4. QED
        BY <2>4, <4>2, <4>3
    <3>4. QED
      BY <3>2, <3>3 DEF ClassOrder
  <2>11. QED
    BY <2>6, <2>7, <2>8, <2>9, <2>10 DEF QueueInv
<1>3. QED
  BY <1>1, <1>2

\* The parts of the state the invariant talks about.
outbound == <<calls, batchInProgress, messageQueue, posted>>

LEMMA OtherStepsKeepQueueInv ==
    ASSUME QueueInv, UNCHANGED outbound
    PROVE  QueueInv'
BY DEF outbound, QueueInv, QueueNeedsBatch, OnlyCalls, NoneLost, NoneTwice,
       HeadersAlone, ClassOrder, Headers

LEMMA QueueInvNext == TypeOK /\ QueueInv /\ [Next]_vars => QueueInv'
<1> SUFFICES ASSUME TypeOK, QueueInv, [Next]_vars PROVE QueueInv'
  OBVIOUS
<1>1. CASE Application
  <2>1. ASSUME NEW id \in Ids, addListener(id) \/ removeListener(id) \/ sendMessage(id)
        PROVE  QueueInv'
    <3>1. PICK cmd \in Commands : sendJmsMessage(cmd)
      <4>1. ASSUME NEW t \in Types, NEW h \in BOOLEAN
            PROVE  [type |-> t, id |-> id, headers |-> h] \in Commands
        BY DEF Commands
      <4>2. (IF Selectors THEN BOOLEAN ELSE {FALSE}) \subseteq BOOLEAN
        OBVIOUS
      <4>3. QED
        BY <2>1, <4>1, <4>2 DEF addListener, removeListener, sendMessage, Types
    <3>2. QED
      BY <3>1, SendKeepsQueueInv
  <2>2. CASE startBatch
    BY <2>2 DEF startBatch, QueueInv, QueueNeedsBatch, OnlyCalls, NoneLost,
                NoneTwice, HeadersAlone, ClassOrder, Headers
  <2>3. CASE endBatch
    BY <2>3, EndBatchKeepsQueueInv DEF endBatch
  <2>4. QED
    BY <1>1, <2>1, <2>2, <2>3 DEF Application
<1>2. CASE Server
  <2>1. UNCHANGED outbound
    BY <1>2 DEF Server, servePost, answerPoll, outbound, postVars
  <2>2. QED
    BY <2>1, OtherStepsKeepQueueInv
<1>3. CASE Page
  <2>1. ASSUME NEW p \in DOMAIN posted, postSuccess(p) PROVE QueueInv'
    BY <2>1, EndBatchKeepsQueueInv DEF postSuccess
  <2>2. ASSUME ~\E p \in DOMAIN posted : postSuccess(p) PROVE UNCHANGED outbound
    BY <1>3, <2>2
       DEF Page, errorHandler, pollErrorHandler, pollErrorHandlerReturn,
           pollErrorHandlerThrow, connectStatusReturn, noHandlerThrow, pollTimer, initHandler,
           initHandlerReturn, initHandlerThrow, pollHandler, callHandler,
           skipResponse, pollHandlerThrow, pollHandlerReturn,
           pollHandlerFinally, outbound, postVars
  <2>3. QED
    BY <2>1, <2>2, OtherStepsKeepQueueInv
<1>4. CASE UNCHANGED vars
  BY <1>4, OtherStepsKeepQueueInv DEF vars, postVars, outbound
<1>5. QED
  BY <1>1, <1>2, <1>3, <1>4 DEF Next

LEMMA QueueInvHolds == Spec => []QueueInv
BY QueueInvInit, QueueInvNext, TypeCorrect, PTL DEF Spec

\* Every command the application issued is in the queue or in exactly one
\* POST, however calls, callbacks, failed POSTs and the application's own
\* batches interleave.
THEOREM CommandsConserved == Spec => []EachCommandOnce
<1>1. TypeOK /\ QueueInv => EachCommandOnce
  <2> SUFFICES ASSUME TypeOK, QueueInv PROVE EachCommandOnce
    OBVIOUS
  <2>1. messageQueue \union UNION Elements(posted) = DOMAIN calls
    BY DEF QueueInv, OnlyCalls, NoneLost, Elements
  <2>2. QED
    BY <2>1 DEF QueueInv, NoneTwice, EachCommandOnce
<1>2. QED
  BY <1>1, QueueInvHolds, TypeCorrect, PTL

\* A command with a selector header shares its POST with no other.
THEOREM HeadersSentAlone == Spec => []HeadersAlone
<1>1. QueueInv => HeadersAlone
  BY DEF QueueInv
<1>2. QED
  BY <1>1, QueueInvHolds, PTL

\* Commands of one class leave the page in the order of the calls.
THEOREM ClassesStayInOrder == Spec => []ClassOrder
<1>1. QueueInv => ClassOrder
  BY DEF QueueInv
<1>2. QED
  BY <1>1, QueueInvHolds, PTL

-----------------------------------------------------------------------------
(***************************************************************************)
(* The flag.  That there is one POST at a time follows from the flag       *)
(* covering it: a call that finds the flag down then finds no POST         *)
(* outstanding, and a callback replaces its POST by at most one.           *)
(***************************************************************************)
FlagInv == ~AppBatches => OnePostAtATime /\ FlagCoversPosts

LEMMA FlagInvInit == Init => FlagInv
BY DEF Init, FlagInv, OnePostAtATime, FlagCoversPosts

LEMMA FlagInvNext == TypeOK /\ FlagInv /\ [Next]_vars => FlagInv'
<1> SUFFICES ASSUME TypeOK, FlagInv, [Next]_vars, ~AppBatches PROVE FlagInv'
  BY DEF FlagInv
<1> USE DEF FlagInv, OnePostAtATime, FlagCoversPosts
<1>1. CASE Application
  <2>1. ASSUME NEW cmd, sendJmsMessage(cmd) PROVE FlagInv'
    BY <2>1 DEF sendJmsMessage, Post
  <2>2. \E cmd : sendJmsMessage(cmd)
    BY <1>1 DEF Application, addListener, removeListener, sendMessage,
                startBatch, endBatch
  <2>3. QED
    BY <2>1, <2>2
<1>2. CASE Server
  BY <1>2 DEF Server, servePost, answerPoll, postVars
<1>3. CASE Page
  <2>1. ASSUME NEW p \in DOMAIN posted, postSuccess(p) PROVE FlagInv'
    <3>1. inFlight = {p}
      BY <2>1 DEF postSuccess
    <3>2. inFlight' = newPosts
      BY <2>1, <3>1 DEF postSuccess
    <3>3. CASE messageQueue = {}
      BY <2>1, <3>2, <3>3 DEF postSuccess, endBatchCall, newPosts
    <3>4. CASE messageQueue # {}
      <4>1. batchInProgress' /\ posted' = Append(posted, messagesToSend(messageQueue, withHeaders))
        BY <2>1, <3>4 DEF postSuccess, endBatchCall
      <4>2. newPosts = {Len(posted) + 1}
        BY <4>1 DEF newPosts, TypeOK
      <4>3. QED
        BY <3>2, <4>1, <4>2
    <3>5. QED
      BY <3>3, <3>4
  <2>2. ASSUME NEW p \in DOMAIN posted, errorHandler(p) PROVE FlagInv'
    BY <2>2 DEF errorHandler
  <2>3. ASSUME ~\E p \in DOMAIN posted : postSuccess(p) \/ errorHandler(p)
        PROVE  UNCHANGED <<batchInProgress, inFlight>>
    BY <1>3, <2>3
       DEF Page, pollErrorHandler, pollErrorHandlerReturn,
           pollErrorHandlerThrow, connectStatusReturn, noHandlerThrow, pollTimer, initHandler,
           initHandlerReturn, initHandlerThrow, pollHandler, callHandler,
           skipResponse, pollHandlerThrow, pollHandlerReturn,
           pollHandlerFinally, postVars
  <2>4. QED
    BY <2>1, <2>2, <2>3
<1>4. CASE UNCHANGED vars
  BY <1>4 DEF vars, postVars
<1>5. QED
  BY <1>1, <1>2, <1>3, <1>4 DEF Next

\* A page that leaves the batching to amq.js has at most one POST outstanding,
\* and batchInProgress is up while it has one: failed POSTs included.
THEOREM OnePost == Spec => [](~AppBatches => OnePostAtATime /\ FlagCoversPosts)
<1>1. FlagInv => (~AppBatches => OnePostAtATime /\ FlagCoversPosts)
  BY DEF FlagInv
<1>2. QED
  BY <1>1, FlagInvInit, FlagInvNext, TypeCorrect, PTL DEF Spec

-----------------------------------------------------------------------------
\* A non-empty queue has a first command ...
LEMMA FirstExists ==
    ASSUME NEW queue \in SUBSET Nat, queue # {}
    PROVE  \E n \in queue : isFirst(n, queue)
<1> DEFINE R == {ss \in Nat \X Nat : ss[1] < ss[2]}
<1>1. IsWellFoundedOn(R, Nat)
  BY NatLessThanWellFounded DEF OpToRel
<1> HIDE DEF R
<1>2. PICK n \in queue : \A m \in queue : <<m, n>> \notin R
  BY <1>1, WFMin
<1>3. \A m \in queue : n <= m
  <2>1. SUFFICES ASSUME NEW m \in queue PROVE n <= m
    OBVIOUS
  <2>2. m \in Nat /\ n \in Nat
    OBVIOUS
  <2>3. ~(m < n)
    BY <1>2, <2>2 DEF R
  <2>4. QED
    BY <2>2, <2>3
<1>4. QED
  BY <1>3 DEF isFirst

\* ... and it is among those that endBatch sends: it goes with its class.
LEMMA FirstIsSent ==
    ASSUME NEW queue \in SUBSET Nat, NEW withH, NEW n \in queue, isFirst(n, queue)
    PROVE  n \in messagesToSend(queue, withH)
<1>1. CASE n \in withH
  BY <1>1 DEF messagesToSend
<1>2. CASE n \notin withH
  <2>1. \A m \in queue \intersect withH : ~isFirst(m, queue)
    <3>1. SUFFICES ASSUME NEW m \in queue \intersect withH, isFirst(m, queue)
                   PROVE  FALSE
      OBVIOUS
    <3>2. m = n
      BY <3>1 DEF isFirst
    <3>3. QED
      BY <1>2, <3>2
  <2>2. QED
    BY <1>2, <2>1 DEF messagesToSend
<1>3. QED
  BY <1>1, <1>2

\* Every POST sent from a non-empty queue takes the oldest command along, so
\* no class of commands can be held back by the other.
THEOREM OldestGoesAlong == Spec => OldestGoes
<1> DEFINE A == messageQueue # {} /\ posted' # posted
                   => \E n \in posted'[Len(posted')] : isFirst(n, messageQueue)
<1>1. TypeOK /\ QueueInv /\ [Next]_vars => [A]_vars
  <2> SUFFICES ASSUME TypeOK, QueueInv, Next, messageQueue # {}, posted' # posted
               PROVE  \E n \in posted'[Len(posted')] : isFirst(n, messageQueue)
    OBVIOUS
  <2>1. batchInProgress
    BY DEF QueueInv, QueueNeedsBatch
  <2>2. endBatchCall
    BY <2>1
       DEF Next, Application, Server, Page, addListener, removeListener,
           sendMessage, sendJmsMessage, startBatch, endBatch, postSuccess,
           errorHandler, servePost, answerPoll, pollErrorHandler, pollErrorHandlerReturn,
           pollErrorHandlerThrow, connectStatusReturn, noHandlerThrow, pollTimer,
           initHandler, initHandlerReturn, initHandlerThrow, pollHandler,
           callHandler, skipResponse, pollHandlerThrow, pollHandlerReturn,
           pollHandlerFinally, postVars
  <2> DEFINE S == messagesToSend(messageQueue, withHeaders)
  <2>3. posted' = Append(posted, S)
    BY <2>2 DEF endBatchCall
  <2> messageQueue \in SUBSET Nat
    BY DEF TypeOK
  <2>4. PICK n \in messageQueue : isFirst(n, messageQueue)
    BY FirstExists
  <2>5. n \in S
    BY <2>4, FirstIsSent
  <2> HIDE DEF S
  <2>6. posted'[Len(posted')] = S
    <3>1. S \in SUBSET (1..MaxCalls)
      BY SplitPartitions DEF TypeOK, S
    <3>2. QED
      BY <2>3, <3>1 DEF TypeOK
  <2>7. QED
    BY <2>4, <2>5, <2>6
<1>2. QED
  BY <1>1, TypeCorrect, QueueInvHolds, PTL DEF Spec, OldestGoes

-----------------------------------------------------------------------------
(***************************************************************************)
(* The chain of polls.  OnePollChain is inductive given the types: each    *)
(* step of the chain moves its one poll from one stage to the next.        *)
(***************************************************************************)
LEMMA OnePollChainNext == TypeOK /\ OnePollChain /\ [Next]_vars => OnePollChain'
<1> SUFFICES ASSUME TypeOK, OnePollChain, [Next]_vars PROVE OnePollChain'
  OBVIOUS
<1> USE DEF OnePollChain
<1>0. /\ waiting \in [Callbacks -> Nat] /\ waiting["init"] \in Nat /\ waiting["poll"] \in Nat
      /\ Len(replies) \in Nat /\ pollTimers \in Nat
      /\ replies # <<>> => Len(Tail(replies)) = Len(replies) - 1
  <2>1. replies # <<>> => Len(Tail(replies)) = Len(replies) - 1
    BY HeadTailProperties DEF TypeOK
  <2>2. QED
    BY <2>1 DEF TypeOK, Callbacks
<1>1. CASE Application
  <2>1. UNCHANGED pollVars
    BY <1>1 DEF Application, addListener, removeListener, sendMessage,
                sendJmsMessage, startBatch, endBatch
  <2>2. QED
    BY <2>1 DEF pollVars
<1>2. CASE Server
  <2>1. ASSUME NEW p \in DOMAIN posted, servePost(p) PROVE OnePollChain'
    BY <2>1 DEF servePost, pollVars
  <2>2. ASSUME NEW cb \in Callbacks, answerPoll(cb) PROVE OnePollChain'
    <3>1. Len(replies') = Len(replies) + 1
      BY <2>2 DEF answerPoll, TypeOK
    <3>2. QED
      BY <1>0, <2>2, <3>1 DEF answerPoll, Callbacks
  <2>3. QED
    BY <1>2, <2>1, <2>2 DEF Server
<1>3. CASE Page
  <2>1. ASSUME NEW p \in DOMAIN posted, postSuccess(p) \/ errorHandler(p)
        PROVE  OnePollChain'
    BY <2>1 DEF postSuccess, errorHandler, pollVars
  <2>2. ASSUME NEW cb \in Callbacks, pollErrorHandler(cb) PROVE OnePollChain'
    BY <1>0, <2>2 DEF pollErrorHandler, Callbacks
  <2>3. CASE pollTimer
    BY <1>0, <2>3 DEF pollTimer, sendPollCall, Callbacks
  <2>4. CASE initHandler \/ pollHandler
    <3>1. CASE initHandler
      BY <1>0, <3>1, SMTT(20) DEF initHandler
    <3>2. CASE pollHandler
      BY <1>0, <3>2, SMTT(20) DEF pollHandler
    <3>3. QED
      BY <2>4, <3>1, <3>2
  <2>5. CASE initHandlerReturn
    BY <1>0, <2>5 DEF initHandlerReturn, sendPollCall, Callbacks
  <2>6. CASE \/ initHandlerThrow \/ callHandler \/ skipResponse
             \/ pollErrorHandlerReturn \/ pollErrorHandlerThrow \/ connectStatusReturn
    BY <1>0, <2>6 DEF initHandlerThrow, callHandler, skipResponse,
       pollErrorHandlerReturn, pollErrorHandlerThrow, connectStatusReturn
  <2>7. CASE pollHandlerThrow \/ noHandlerThrow \/ pollHandlerReturn
    <3>1. running # "none" /\ pollHandlerFinally
      BY <2>7 DEF pollHandlerThrow, noHandlerThrow, pollHandlerReturn
    <3>2. QED
      BY <1>0, <3>1, SMTT(20) DEF pollHandlerFinally
  <2>8. QED
    BY <1>3, <2>1, <2>2, <2>3, <2>4, <2>5, <2>6, <2>7 DEF Page
<1>4. CASE UNCHANGED vars
  BY <1>4 DEF vars, pollVars
<1>5. QED
  BY <1>1, <1>2, <1>3, <1>4 DEF Next

\* Never are two polls under way, whatever fails: the page holds one parked
\* request on the server at a time.
THEOREM PollsFormOneChain == Spec => []OnePollChain
<1>1. Init => OnePollChain
  BY DEF Init, OnePollChain, Callbacks
<1>2. QED
  BY <1>1, OnePollChainNext, TypeCorrect, PTL DEF Spec
-----------------------------------------------------------------------------
(***************************************************************************)
(* The subscriptions.  While the page has no selectors and leaves batching *)
(* to amq.js, commands reach the server in the order of the calls: each    *)
(* POST holds later calls than those before it, the queue later ones       *)
(* still, and a POST is only sent when the server has processed the one    *)
(* before.  The server has then carried out a prefix of the calls.         *)
(***************************************************************************)
about(S, id, cs) == {n \in S : cs[n].id = id /\ cs[n].type # "send"}
listensLast(T, R, cs) ==
    \E n \in T \ R : cs[n].type = "listen" /\ \A m \in T : m <= n

\* subscriptionsAfter for the calls cs.
after(S, X, R, cs) ==
    {id \in Ids : \/ about(S, id, cs) = {} /\ id \in X
                 \/ listensLast(about(S, id, cs), R, cs)}

LEMMA AfterCalls ==
    ASSUME NEW S, NEW X, NEW R
    PROVE  /\ subscriptionsAfter(S, X, R) = after(S, X, R, calls)
           /\ subscriptionsAfter(S, X, R)' = after(S, X, R, calls')
BY DEF subscriptionsAfter, after, about, listensLast

\* Commands carried out in two parts, the older ones first.
LEMMA AfterThen ==
    ASSUME NEW S \in SUBSET Nat, NEW T \in SUBSET Nat, \A n \in S, m \in T : n < m, NEW X, NEW R, NEW cs
    PROVE  after(S \union T, X, R, cs) = after(T, after(S, X, R, cs), R, cs)
<1>1. ASSUME NEW id \in Ids
      PROVE  id \in after(S \union T, X, R, cs)
                <=> id \in after(T, after(S, X, R, cs), R, cs)
  <2> DEFINE s == about(S, id, cs)
             t == about(T, id, cs)
             st == about(S \union T, id, cs)
  <2>1. st = s \union t /\ s \in SUBSET Nat /\ t \in SUBSET Nat /\ \A n \in s, m \in t : n < m
    BY DEF about
  <2>2. /\ id \in after(S \union T, X, R, cs) <=> (st = {} /\ id \in X) \/ listensLast(st, R, cs)
        /\ id \in after(T, after(S, X, R, cs), R, cs)
              <=> (t = {} /\ id \in after(S, X, R, cs)) \/ listensLast(t, R, cs)
        /\ id \in after(S, X, R, cs) <=> (s = {} /\ id \in X) \/ listensLast(s, R, cs)
    BY DEF after
  <2> HIDE DEF s, t, st
  <2>3. CASE t = {}
    <3>1. st = s /\ ~listensLast(t, R, cs)
      BY <2>1, <2>3 DEF listensLast
    <3>2. QED
      BY <2>2, <2>3, <3>1
  <2>4. CASE t # {}
    <3>1. listensLast(st, R, cs) => listensLast(t, R, cs)
      <4>1. SUFFICES ASSUME NEW n \in st \ R, cs[n].type = "listen", \A m \in st : m <= n
                     PROVE  listensLast(t, R, cs)
        BY DEF listensLast
      <4>2. n \in t
        <5>1. PICK k \in t : TRUE
          BY <2>4
        <5>2. k <= n /\ n \in Nat /\ k \in Nat
          BY <2>1, <4>1, <5>1
        <5>3. n \notin s
          BY <2>1, <5>1, <5>2
        <5>4. QED
          BY <2>1, <5>3
      <4>3. QED
        BY <2>1, <4>1, <4>2 DEF listensLast
    <3>2. listensLast(t, R, cs) => listensLast(st, R, cs)
      <4>1. SUFFICES ASSUME NEW n \in t \ R, cs[n].type = "listen", \A m \in t : m <= n
                     PROVE  listensLast(st, R, cs)
        BY DEF listensLast
      <4>2. \A m \in st : m <= n
        BY <2>1, <4>1
      <4>3. QED
        BY <2>1, <4>1, <4>2 DEF listensLast
    <3>3. st # {}
      BY <2>1, <2>4
    <3>4. QED
      BY <2>2, <2>4, <3>1, <3>2, <3>3
  <2>5. QED
    BY <2>3, <2>4
<1>2. QED
  BY <1>1 DEF after

\* Later calls, and later refusals, do not change what earlier calls mean.
LEMMA AfterStays ==
    ASSUME NEW S, NEW X, NEW R, NEW Q, NEW cs, NEW ds,
           \A n \in S : ds[n] = cs[n] /\ (n \in R <=> n \in Q)
    PROVE  after(S, X, R, ds) = after(S, X, Q, cs)
<1>1. ASSUME NEW id
      PROVE  /\ about(S, id, ds) = about(S, id, cs)
             /\ listensLast(about(S, id, ds), R, ds) <=> listensLast(about(S, id, cs), Q, cs)
  BY DEF about, listensLast
<1>2. QED
  BY <1>1 DEF after

\* The page has one POST under way, sent or still to be processed, the last.
Serial ==
    /\ \A n \in DOMAIN calls : ~Headers(n)
    /\ \A p, q \in inFlight \union unserved : p = q
    /\ inFlight \union unserved # {} => batchInProgress
    /\ unserved \subseteq {Len(posted)}

\* A POST of the commands S is sent when none is under way.
posts(S) ==
    /\ posted' = Append(posted, S)
    /\ unserved = {}
    /\ unserved' = {Len(posted) + 1} /\ inFlight' = {Len(posted) + 1}
    /\ batchInProgress'

LEMMA SendPosts ==
    ASSUME TypeOK, Serial, NEW cmd \in Commands, sendJmsMessage(cmd)
    PROVE  \/ batchInProgress /\ UNCHANGED <<batchInProgress, posted, inFlight, unserved>>
           \/ posts({Len(calls) + 1})
BY DEF sendJmsMessage, Serial, posts, Post

LEMMA SuccessPosts ==
    ASSUME TypeOK, Serial, NEW p \in DOMAIN posted, postSuccess(p)
    PROVE  \/ unserved = {} /\ inFlight' = {} /\ UNCHANGED <<posted, unserved>>
           \/ posts(messagesToSend(messageQueue, withHeaders))
<1>1. inFlight = {p} /\ unserved = {}
  BY DEF postSuccess, Serial
<1>2. CASE messageQueue = {}
  BY <1>1, <1>2 DEF postSuccess, endBatchCall, newPosts
<1>3. CASE messageQueue # {}
  <2> DEFINE S == messagesToSend(messageQueue, withHeaders)
  <2>1. posted' = Append(posted, S) /\ batchInProgress' /\ unserved' = {Len(posted) + 1}
    BY <1>1, <1>3 DEF postSuccess, endBatchCall
  <2>2. S \in SUBSET (1..MaxCalls)
    BY SplitPartitions DEF TypeOK
  <2> HIDE DEF S
  <2>3. newPosts = {Len(posted) + 1}
    BY <2>1, <2>2 DEF newPosts, TypeOK
  <2>4. inFlight' = {Len(posted) + 1}
    BY <1>1, <2>3 DEF postSuccess
  <2>5. QED
    BY <1>1, <2>1, <2>4 DEF posts, S
<1>4. QED
  BY <1>2, <1>3

LEMMA SerialNext ==
    ASSUME ~Selectors, ~AppBatches, TypeOK, Serial, [Next]_vars
    PROVE  Serial'
<1>1. ASSUME NEW S \in SUBSET (1..MaxCalls), posts(S), \A n \in DOMAIN calls' : ~Headers(n)'
      PROVE  Serial'
  <2>1. posted \in Seq(SUBSET (1..MaxCalls)) /\ posted' = Append(posted, S)
    BY <1>1 DEF TypeOK, posts
  <2>2. Len(posted') = Len(posted) + 1
    BY <2>1
  <2>3. QED
    BY <1>1, <2>2 DEF posts, Serial
<1>2. CASE \E id \in Ids : addListener(id) \/ removeListener(id) \/ sendMessage(id)
  <2>1. PICK cmd \in Commands : sendJmsMessage(cmd) /\ ~cmd.headers
    <3>1. ASSUME NEW id \in Ids, NEW t \in Types
          PROVE  /\ [type |-> t, id |-> id, headers |-> FALSE] \in Commands
                 /\ [type |-> t, id |-> id, headers |-> FALSE].headers = FALSE
      BY DEF Commands
    <3>2. QED
      BY <1>2, <3>1 DEF addListener, removeListener, sendMessage, Types
  <2>2. calls \in Seq(Commands) /\ calls' = Append(calls, cmd) /\ Len(calls) + 1 \in 1..MaxCalls
    BY <2>1 DEF sendJmsMessage, TypeOK
  <2>3. \A n \in DOMAIN calls' : ~Headers(n)'
    BY <2>1, <2>2 DEF Serial, Headers
  <2>4. CASE posts({Len(calls) + 1})
    BY <1>1, <2>2, <2>3, <2>4
  <2>5. CASE UNCHANGED <<batchInProgress, posted, inFlight, unserved>>
    BY <2>3, <2>5 DEF Serial
  <2>6. QED
    BY <2>1, <2>4, <2>5, SendPosts
<1>3. ASSUME UNCHANGED calls
      PROVE  \A n \in DOMAIN calls' : ~Headers(n)'
  BY <1>3 DEF Serial, Headers
<1>4. ASSUME NEW p \in DOMAIN posted, postSuccess(p)
      PROVE  Serial'
  <2>1. \A n \in DOMAIN calls' : ~Headers(n)'
    BY <1>3, <1>4 DEF postSuccess
  <2>2. CASE posts(messagesToSend(messageQueue, withHeaders))
    <3>1. PICK S \in SUBSET (1..MaxCalls) : S = messagesToSend(messageQueue, withHeaders)
      BY SplitPartitions DEF TypeOK
    <3>2. QED
      BY <1>1, <2>1, <2>2, <3>1
  <2>3. CASE unserved = {} /\ inFlight' = {} /\ UNCHANGED <<posted, unserved>>
    BY <2>1, <2>3 DEF Serial
  <2>4. QED
    BY <1>4, <2>2, <2>3, SuccessPosts
<1>5. ASSUME UNCHANGED <<calls, batchInProgress, posted>>, inFlight' \subseteq inFlight,
             unserved' \subseteq unserved
      PROVE  Serial'
  BY <1>3, <1>5 DEF Serial
<1>6. CASE Server
  BY <1>5, <1>6 DEF Server, servePost, answerPoll, postVars, serverVars
<1>7. ASSUME NEW p \in DOMAIN posted, errorHandler(p)
      PROVE  Serial'
  BY <1>5, <1>7 DEF errorHandler, serverVars
<1>8. ASSUME Page, ~\E p \in DOMAIN posted : postSuccess(p) \/ errorHandler(p)
      PROVE  UNCHANGED <<calls, postVars, serverVars>>
  BY <1>8 DEF Page, pollErrorHandler, pollErrorHandlerReturn,
           pollErrorHandlerThrow, connectStatusReturn, noHandlerThrow, pollTimer, initHandler, initHandlerReturn,
     initHandlerThrow, pollHandler, callHandler, skipResponse, pollHandlerThrow,
     pollHandlerReturn, pollHandlerFinally
<1>9. CASE Page
  BY <1>4, <1>5, <1>7, <1>8, <1>9 DEF postVars, serverVars
<1>10. CASE UNCHANGED vars
  BY <1>5, <1>10 DEF vars, postVars, serverVars
<1>11. QED
  BY <1>2, <1>6, <1>9, <1>10 DEF Next, Application, startBatch, endBatch

\* What the page and the server make of the calls: the handlers are those of
\* all calls, the subscriptions those of the POSTs that have been processed.
served == {n \in DOMAIN calls : \E p \in DOMAIN posted \ unserved : n \in posted[p]}

Agreed ==
    /\ messageHandlers = subscriptionsAfter(DOMAIN calls, {}, {})
    /\ subscribed = subscriptionsAfter(served, {}, refused)
    /\ \A n \in refused : n \in served /\ calls[n].type = "listen"

\* One call more.
LEMMA HandlersFollow ==
    ASSUME TypeOK, Agreed, NEW cmd \in Commands, calls' = Append(calls, cmd),
           \/ cmd.type = "listen" /\ messageHandlers' = messageHandlers \union {cmd.id}
           \/ cmd.type = "unlisten" /\ messageHandlers' = messageHandlers \ {cmd.id}
           \/ cmd.type = "send" /\ messageHandlers' = messageHandlers
    PROVE  messageHandlers' = subscriptionsAfter(DOMAIN calls, {}, {})'
<1> PICK n \in Nat : n = Len(calls) + 1
  BY DEF TypeOK
<1> PICK S \in SUBSET Nat : S = DOMAIN calls
  BY DEF TypeOK
<1> PICK H : H = messageHandlers
  OBVIOUS
<1>1. /\ calls' \in Seq(Commands) /\ DOMAIN calls' = S \union {n} /\ calls'[n] = cmd
      /\ \A k \in S : calls'[k] = calls[k] /\ k < n
  BY DEF TypeOK
<1>2. H = after(S, {}, {}, calls')
  <2>1. H = after(S, {}, {}, calls)
    BY AfterCalls DEF Agreed
  <2>2. after(S, {}, {}, calls') = after(S, {}, {}, calls)
    <3> PICK Z : Z = {}
      OBVIOUS
    <3>1. \A k \in S : calls'[k] = calls[k]
      BY <1>1
    <3>2. after(S, {}, Z, calls') = after(S, {}, Z, calls)
      BY ONLY <3>1 DEF after, about, listensLast
    <3>3. QED
      BY <3>2
  <2>3. QED
    BY <2>1, <2>2
<1>3. after(S \union {n}, {}, {}, calls') = after({n}, H, {}, calls')
  BY <1>1, <1>2, AfterThen
<1>4. after({n}, H, {}, calls') = messageHandlers'
  <2>1. H \subseteq Ids /\ cmd.id \in Ids
    BY DEF TypeOK, Commands
  <2>2. ASSUME NEW id \in Ids
        PROVE  id \in after({n}, H, {}, calls') <=> id \in messageHandlers'
    <3>1. about({n}, id, calls') = IF cmd.id = id /\ cmd.type # "send" THEN {n} ELSE {}
      BY <1>1 DEF about
    <3>2. listensLast({n}, {}, calls') <=> cmd.type = "listen"
      BY <1>1 DEF listensLast
    <3>3. ~listensLast({}, {}, calls')
      BY DEF listensLast
    <3>4. QED
      BY <2>1, <3>1, <3>2, <3>3 DEF after
  <2>3. QED
    BY <2>1, <2>2 DEF after
<1>5. QED
  BY <1>1, <1>3, <1>4, AfterCalls

\* The server has no more to go by until it has processed a POST.
LEMMA SubscriptionsStay ==
    ASSUME TypeOK, QueueInv, Agreed, UNCHANGED <<subscribed, refused>>,
           calls' = calls \/ \E cmd \in Commands : calls' = Append(calls, cmd),
           \/ UNCHANGED <<posted, unserved>>
           \/ \E S \in SUBSET (1..MaxCalls) : posts(S)
    PROVE  /\ subscribed' = subscriptionsAfter(served, {}, refused)'
           /\ \A n \in refused' : n \in served' /\ calls'[n].type = "listen"
<1>1. /\ DOMAIN calls \subseteq DOMAIN calls' /\ \A n \in DOMAIN calls : calls'[n] = calls[n]
  <2>1. ASSUME NEW cmd \in Commands, calls' = Append(calls, cmd)
        PROVE  /\ DOMAIN calls \subseteq DOMAIN calls'
               /\ \A n \in DOMAIN calls : calls'[n] = calls[n]
    BY <2>1 DEF TypeOK
  <2>2. QED
    BY <2>1
<1>2. /\ \A p \in DOMAIN posted : posted[p] \subseteq DOMAIN calls
  BY DEF QueueInv, OnlyCalls
<1>3. served' = served
  <2>1. CASE UNCHANGED <<posted, unserved>>
    BY <1>1, <1>2, <2>1 DEF served
  <2>2. CASE \E S \in SUBSET (1..MaxCalls) : posts(S)
    <3>1. PICK S \in SUBSET (1..MaxCalls) : posts(S)
      BY <2>2
    <3>2. posted \in Seq(SUBSET (1..MaxCalls)) /\ posted' = Append(posted, S)
      BY <3>1 DEF TypeOK, posts
    <3>3. /\ DOMAIN posted' = DOMAIN posted \union {Len(posted) + 1}
          /\ Len(posted) + 1 \notin DOMAIN posted
          /\ \A p \in DOMAIN posted : posted'[p] = posted[p]
      BY <3>2
    <3>4. DOMAIN posted' \ unserved' = DOMAIN posted /\ DOMAIN posted \ unserved = DOMAIN posted
      BY <3>1, <3>3 DEF posts
    <3>5. QED
      BY <1>1, <1>2, <3>3, <3>4 DEF served
  <2>3. QED
    BY <2>1, <2>2
<1> PICK S : S = served
  OBVIOUS
<1> PICK R : R = refused
  OBVIOUS
<1>4. \A n \in S : calls'[n] = calls[n]
  BY <1>1 DEF served
<1>5. after(S, {}, R, calls') = after(S, {}, R, calls)
  BY <1>4, AfterStays
<1>6. subscribed = after(S, {}, R, calls)
  BY AfterCalls DEF Agreed
<1>7. subscriptionsAfter(served, {}, refused)' = after(S, {}, R, calls')
  BY <1>3, AfterCalls DEF subscriptionsAfter, after, about, listensLast
<1>8. \A n \in refused' : n \in served' /\ calls'[n].type = "listen"
  BY <1>3, <1>4 DEF Agreed
<1>9. QED
  BY <1>5, <1>6, <1>7, <1>8

\* The server processes the one POST under way, whose commands are later than
\* all those it has carried out.
LEMMA ServeFollows ==
    ASSUME TypeOK, QueueInv, Serial, Agreed, NEW p \in DOMAIN posted, servePost(p)
    PROVE  /\ subscribed' = subscriptionsAfter(served, {}, refused)'
           /\ \A n \in refused' : n \in served' /\ calls'[n].type = "listen"
<1> PICK S : S = served
  OBVIOUS
<1> PICK T : T = posted[p]
  OBVIOUS
<1>1. UNCHANGED <<calls, posted>> /\ p \in unserved /\ unserved' = unserved \ {p}
  BY DEF servePost, postVars
<1>2. unserved = {p} /\ p = Len(posted) /\ posted \in Seq(SUBSET (1..MaxCalls))
  BY <1>1 DEF Serial, TypeOK
<1>3. T \subseteq DOMAIN calls /\ S \in SUBSET Nat /\ T \in SUBSET Nat
  BY DEF QueueInv, OnlyCalls, TypeOK, served
<1>4. served' = S \union T
  BY <1>1, <1>2, <1>3 DEF served
<1>5. ASSUME NEW n \in S, NEW m \in T
      PROVE  n < m
  <2>1. PICK q \in DOMAIN posted \ unserved : n \in posted[q]
    BY DEF served
  <2>2. q < p
    BY <1>2, <2>1
  <2>3. Headers(n) = Headers(m)
    <3>1. n \in DOMAIN calls /\ m \in DOMAIN calls /\ ~Headers(n) /\ ~Headers(m)
      BY <1>3 DEF Serial, served
    <3>2. Headers(n) \in BOOLEAN /\ Headers(m) \in BOOLEAN
      <4>1. calls[n] \in Commands /\ calls[m] \in Commands
        BY <3>1 DEF TypeOK
      <4>2. QED
        BY <4>1 DEF Headers, Commands
    <3>3. QED
      BY <3>1, <3>2
  <2>4. QED
    BY <2>1, <2>2, <2>3 DEF QueueInv, ClassOrder
<1>6. PICK R \in SUBSET listensOf(p) :
          /\ refused' = refused \union R
          /\ subscribed' = subscriptionsAfter(posted[p], subscribed, R)
  BY DEF servePost
<1>7. PICK Q : Q = refused'
  OBVIOUS
<1>8. subscribed' = after(T, after(S, {}, refused, calls), R, calls)
  BY <1>6, AfterCalls DEF Agreed
<1>9. /\ \A n \in S : n \in refused <=> n \in Q
      /\ \A n \in T : n \in R <=> n \in Q
  <2>1. R \subseteq T /\ \A n \in R : calls[n].type = "listen"
    BY <1>6 DEF listensOf
  <2>2. S \intersect T = {}
    BY <1>3, <1>5
  <2>3. refused \subseteq S
    BY DEF Agreed
  <2>4. QED
    BY <1>6, <1>7, <2>1, <2>2, <2>3
<1>10. /\ after(S, {}, refused, calls) = after(S, {}, Q, calls)
       /\ \A X : after(T, X, R, calls) = after(T, X, Q, calls)
  BY <1>9, AfterStays
<1>11. after(S \union T, {}, Q, calls) = after(T, after(S, {}, Q, calls), Q, calls)
  BY <1>3, <1>5, AfterThen
<1>12. subscriptionsAfter(served, {}, refused)' = after(S \union T, {}, Q, calls)
  BY <1>1, <1>4, <1>7 DEF subscriptionsAfter, after, about, listensLast
<1>13. \A n \in refused' : n \in served' /\ calls'[n].type = "listen"
  BY <1>1, <1>4, <1>6 DEF Agreed, listensOf
<1>14. QED
  BY <1>8, <1>10, <1>11, <1>12, <1>13

LEMMA AgreedNext ==
    ASSUME ~AppBatches, TypeOK, QueueInv, Serial, Agreed, [Next]_vars
    PROVE  Agreed'
<1>1. CASE \E id \in Ids : addListener(id) \/ removeListener(id) \/ sendMessage(id)
  <2>1. PICK cmd \in Commands :
           /\ sendJmsMessage(cmd)
           /\ \/ cmd.type = "listen" /\ messageHandlers' = messageHandlers \union {cmd.id}
              \/ cmd.type = "unlisten" /\ messageHandlers' = messageHandlers \ {cmd.id}
              \/ cmd.type = "send" /\ messageHandlers' = messageHandlers
    <3>1. ASSUME NEW id \in Ids, NEW t \in Types, NEW h \in BOOLEAN
          PROVE  /\ [type |-> t, id |-> id, headers |-> h] \in Commands
                 /\ [type |-> t, id |-> id, headers |-> h].type = t
                 /\ [type |-> t, id |-> id, headers |-> h].id = id
      BY DEF Commands
    <3>2. (IF Selectors THEN BOOLEAN ELSE {FALSE}) \subseteq BOOLEAN
      OBVIOUS
    <3>3. PICK id \in Ids : addListener(id) \/ removeListener(id) \/ sendMessage(id)
      BY <1>1
    <3>4. CASE addListener(id)
      <4>1. PICK h \in BOOLEAN : sendJmsMessage([type |-> "listen", id |-> id, headers |-> h])
        BY <3>2, <3>4 DEF addListener
      <4>2. PICK cmd \in Commands : cmd = [type |-> "listen", id |-> id, headers |-> h]
        BY <3>1 DEF Types
      <4>3. sendJmsMessage(cmd) /\ cmd.type = "listen" /\ cmd.id = id
        BY <4>1, <4>2
      <4>4. QED
        BY <3>4, <4>3 DEF addListener
    <3>5. CASE removeListener(id)
      <4>1. PICK cmd \in Commands : cmd = [type |-> "unlisten", id |-> id, headers |-> FALSE]
        BY <3>1 DEF Types
      <4>2. sendJmsMessage(cmd) /\ cmd.type = "unlisten" /\ cmd.id = id
        BY <3>5, <4>1 DEF removeListener
      <4>3. QED
        BY <3>5, <4>2 DEF removeListener
    <3>6. CASE sendMessage(id)
      <4>1. PICK cmd \in Commands : cmd = [type |-> "send", id |-> id, headers |-> FALSE]
        BY <3>1 DEF Types
      <4>2. sendJmsMessage(cmd) /\ cmd.type = "send" /\ cmd.id = id
        BY <3>6, <4>1 DEF sendMessage
      <4>3. QED
        BY <3>6, <4>2 DEF sendMessage
    <3>7. QED
      BY <3>3, <3>4, <3>5, <3>6
  <2>2. calls' = Append(calls, cmd) /\ UNCHANGED <<subscribed, refused>> /\ Len(calls) + 1 \in 1..MaxCalls
    BY <2>1 DEF sendJmsMessage, TypeOK
  <2>3. messageHandlers' = subscriptionsAfter(DOMAIN calls, {}, {})'
    BY <2>1, <2>2, HandlersFollow
  <2>4. UNCHANGED <<posted, unserved>> \/ \E S \in SUBSET (1..MaxCalls) : posts(S)
    BY <2>1, <2>2, SendPosts
  <2>5. QED
    BY <2>2, <2>3, <2>4, SubscriptionsStay DEF Agreed
<1>2. ASSUME UNCHANGED <<calls, messageHandlers>>
      PROVE  messageHandlers' = subscriptionsAfter(DOMAIN calls, {}, {})'
  BY <1>2 DEF Agreed, subscriptionsAfter
<1>3. ASSUME NEW p \in DOMAIN posted, postSuccess(p)
      PROVE  Agreed'
  <2>1. UNCHANGED <<calls, messageHandlers, subscribed, refused>>
    BY <1>3 DEF postSuccess
  <2>2. UNCHANGED <<posted, unserved>> \/ \E S \in SUBSET (1..MaxCalls) : posts(S)
    <3>1. messagesToSend(messageQueue, withHeaders) \in SUBSET (1..MaxCalls)
      BY SplitPartitions DEF TypeOK
    <3>2. QED
      BY <1>3, <3>1, SuccessPosts
  <2>3. QED
    BY <1>2, <2>1, <2>2, SubscriptionsStay DEF Agreed
<1>4. ASSUME NEW p \in DOMAIN posted, servePost(p)
      PROVE  Agreed'
  BY <1>2, <1>4, ServeFollows DEF Agreed, servePost
<1>5. ASSUME UNCHANGED <<calls, messageHandlers, posted, serverVars>>
      PROVE  Agreed'
  BY <1>2, <1>5, SubscriptionsStay DEF Agreed, serverVars
<1>6. CASE UNCHANGED vars
  BY <1>5, <1>6 DEF vars, postVars
<1>7. ASSUME NEW cb \in Callbacks, answerPoll(cb)
      PROVE  Agreed'
  BY <1>5, <1>7 DEF answerPoll, postVars
<1>8. CASE Page
  <2>1. ASSUME ~\E p \in DOMAIN posted : postSuccess(p)
        PROVE  UNCHANGED <<calls, messageHandlers, posted, serverVars>>
    BY <1>8, <2>1 DEF Page, errorHandler, pollErrorHandler, pollErrorHandlerReturn,
           pollErrorHandlerThrow, connectStatusReturn, noHandlerThrow, pollTimer, initHandler,
       initHandlerReturn, initHandlerThrow, pollHandler, callHandler, skipResponse,
       pollHandlerThrow, pollHandlerReturn, pollHandlerFinally, postVars
  <2>2. QED
    BY <1>3, <1>5, <2>1
<1>9. QED
  BY <1>1, <1>4, <1>6, <1>7, <1>8 DEF Next, Application, Server, startBatch, endBatch

\* When nothing is queued and nothing waits at the server, the server has a
\* consumer for exactly the ids with a handler (amq.js:279-297), but for those
\* whose last listen JMS refused, whatever addListener, removeListener, callbacks
\* and failing POSTs interleave.  It does not hold of a page that passes
\* selectors, whose listens are sent apart from the other commands, nor of one
\* that calls endBatch while a POST is outstanding.
THEOREM SubscriptionsSettle ==
    ASSUME ~Selectors, ~AppBatches
    PROVE  Spec => []QuiescentSubscriptions
<1>1. Init => Serial /\ Agreed
  <2> SUFFICES ASSUME Init PROVE Serial /\ Agreed
    OBVIOUS
  <2>1. calls = <<>> /\ posted = <<>> /\ DOMAIN calls = {} /\ DOMAIN posted = {}
    BY DEF Init
  <2>2. Serial
    BY <2>1 DEF Init, Serial
  <2>3. served = {}
    BY <2>1 DEF served
  <2>4. subscriptionsAfter({}, {}, {}) = {}
    BY DEF subscriptionsAfter
  <2>5. QED
    BY <2>1, <2>2, <2>3, <2>4 DEF Init, Agreed
<1>2. TypeOK /\ QueueInv /\ Serial /\ Agreed /\ [Next]_vars => Serial' /\ Agreed'
  BY SerialNext, AgreedNext
<1>3. TypeOK /\ QueueInv /\ Agreed => QuiescentSubscriptions
  <2> SUFFICES ASSUME TypeOK, QueueInv, Agreed, messageQueue = {}, unserved = {}
               PROVE  subscribed = messageHandlers \ unheard
    BY DEF QuiescentSubscriptions
  <2>1. served = DOMAIN calls
    BY DEF served, QueueInv, NoneLost
  <2>2. \A n \in refused : n \in DOMAIN calls /\ calls[n].type = "listen"
    BY <2>1 DEF Agreed
  <2>3. ASSUME NEW id \in Ids
        PROVE  id \in unheard <=> \E n \in about(DOMAIN calls, id, calls) :
                  n \in refused /\ \A m \in about(DOMAIN calls, id, calls) : m <= n
    <3>1. \A m, n \in DOMAIN calls : ~(m > n) <=> m <= n
      BY DEF TypeOK
    <3>2. QED
      BY <2>2, <3>1 DEF unheard, about
  <2>4. ASSUME NEW id \in Ids
        PROVE  /\ id \in messageHandlers <=> listensLast(about(DOMAIN calls, id, calls), {}, calls)
               /\ id \in subscribed <=> listensLast(about(DOMAIN calls, id, calls), refused, calls)
    <3>1. /\ messageHandlers = after(DOMAIN calls, {}, {}, calls)
          /\ subscribed = after(DOMAIN calls, {}, refused, calls)
      BY <2>1, AfterCalls DEF Agreed
    <3>2. QED
      BY <3>1 DEF after
  <2>5. ASSUME NEW id \in Ids
        PROVE  id \in subscribed <=> id \in messageHandlers \ unheard
    <3> PICK A : A = about(DOMAIN calls, id, calls)
      OBVIOUS
    <3>1. A \in SUBSET Nat
      BY DEF about, TypeOK
    <3>2. \A m, n \in A : m <= n /\ n <= m => m = n
      BY <3>1
    <3>3. QED
      BY <2>3, <2>4, <3>2 DEF listensLast
  <2>6. QED
    BY <2>5 DEF TypeOK
<1>4. QED
  BY <1>1, <1>2, <1>3, TypeCorrect, QueueInvHolds, PTL DEF Spec

-----------------------------------------------------------------------------
(***************************************************************************)
(* Messages discarded.  Two answers are not gone through: that to the      *)
(* first poll, which initHandler ignores, and what follows an element that *)
(* has no handler while logging is off.  The first is harmless when the    *)
(* application waits for the session: there is one poll at a time, so that *)
(* an answer for initHandler comes before any call.  For the second, an    *)
(* element without a handler means that a listener was removed: the server *)
(* answers with ids that were listened to.                                 *)
(***************************************************************************)
noneFor(cb) == waiting[cb] = 0 /\ \A i \in DOMAIN replies : replies[i].cb # cb

BeforeCalls ==
    /\ running \in {"init", "status", "poll"} => sessionInitialized
    /\ ~early /\ ~sessionInitialized => calls = <<>> /\ messageHandlers = {}
    /\ IF sessionInitialized THEN noneFor("init") ELSE noneFor("poll")

LEMMA BeforeCallsNext ==
    ASSUME TypeOK, OnePollChain, BeforeCalls, [Next]_vars
    PROVE  BeforeCalls'
<1> USE DEF BeforeCalls, noneFor
<1>0. /\ waiting \in [Callbacks -> Nat] /\ waiting["init"] \in Nat /\ waiting["poll"] \in Nat
      /\ replies \in Seq([cb : Callbacks, ids : Seq(Ids)]) /\ pollTimers \in Nat
  BY DEF TypeOK, Callbacks
<1>1. ASSUME UNCHANGED pollVars, UNCHANGED <<calls, messageHandlers, early>>
      PROVE  BeforeCalls'
  BY <1>1 DEF pollVars
<1>2. CASE Application
  <2>1. CASE startBatch \/ endBatch
    BY <1>1, <2>1 DEF startBatch, endBatch
  <2>2. ASSUME NEW cmd, sendJmsMessage(cmd)
        PROVE  BeforeCalls'
    <3>1. UNCHANGED pollVars /\ early' = (early \/ ~sessionInitialized)
      BY <2>2 DEF sendJmsMessage
    <3>2. QED
      BY <3>1 DEF pollVars
  <2>3. (\E cmd : sendJmsMessage(cmd)) \/ startBatch \/ endBatch
    BY <1>2 DEF Application, addListener, removeListener, sendMessage
  <2>4. QED
    BY <2>1, <2>2, <2>3
<1>3. CASE Server
  <2>1. ASSUME NEW p \in DOMAIN posted, servePost(p) PROVE BeforeCalls'
    BY <1>1, <2>1 DEF servePost
  <2>2. ASSUME NEW cb \in Callbacks, answerPoll(cb) PROVE BeforeCalls'
    <3>1. PICK ids \in Answers : replies' = Append(replies, [cb |-> cb, ids |-> ids])
      BY <2>2 DEF answerPoll
    <3>2. PICK e \in [cb : Callbacks, ids : Seq(Ids)] : e = [cb |-> cb, ids |-> ids]
      <4>1. ids \in Seq(Ids)
        BY <3>1, AnswersAreHeard
      <4>2. QED
        BY <4>1
    <3>3. /\ DOMAIN replies' = DOMAIN replies \union {Len(replies) + 1}
          /\ replies'[Len(replies) + 1] = e /\ e.cb = cb
          /\ \A i \in DOMAIN replies : replies'[i] = replies[i]
      BY <1>0, <3>1, <3>2
    <3>4. cb # (IF sessionInitialized THEN "init" ELSE "poll")
      BY <2>2 DEF answerPoll
    <3>5. IF sessionInitialized THEN waiting'["init"] = 0 ELSE waiting'["poll"] = 0
      BY <1>0, <2>2, <3>4 DEF answerPoll, Callbacks
    <3>6. QED
      BY <2>2, <3>3, <3>4, <3>5 DEF answerPoll
  <2>3. QED
    BY <1>3, <2>1, <2>2 DEF Server
<1>4. CASE Page
  <2>1. ASSUME NEW p \in DOMAIN posted, postSuccess(p) \/ errorHandler(p)
        PROVE  BeforeCalls'
    BY <1>1, <2>1 DEF postSuccess, errorHandler
  <2>2. ASSUME NEW cb \in Callbacks, pollErrorHandler(cb) PROVE BeforeCalls'
    BY <1>0, <2>2 DEF pollErrorHandler, Callbacks
  <2>3. CASE pollTimer \/ initHandlerReturn
    BY <1>0, <2>3 DEF pollTimer, initHandlerReturn, sendPollCall, Callbacks
  <2>4. CASE initHandler
    <3>0. Len(replies) \in Nat /\ Len(replies) # 0
      BY <1>0, <2>4 DEF initHandler
    <3>1. waiting["init"] = 0 /\ Len(replies) = 1
      <4>1. PICK w, v, n, t \in Nat : /\ w = waiting["init"] /\ v = waiting["poll"]
                                      /\ n = Len(replies) /\ t = pollTimers
        BY <1>0, <3>0
      <4>2. w + v + n + t + 0 <= 1
        BY <2>4, <4>1 DEF initHandler, OnePollChain
      <4>3. QED
        BY <3>0, <4>1, <4>2
    <3>2. replies' = <<>>
      <4>1. Len(Tail(replies)) = 0 /\ Tail(replies) \in Seq([cb : Callbacks, ids : Seq(Ids)])
        BY <1>0, <2>4, <3>1, HeadTailProperties DEF initHandler
      <4>2. QED
        BY <2>4, <4>1 DEF initHandler
    <3>3. QED
      BY <2>4, <3>1, <3>2 DEF initHandler
  <2>5. CASE pollHandler
    <3>1. replies # <<>> /\ replies' = Tail(replies) /\ Head(replies).cb = "poll"
      BY <2>5 DEF pollHandler
    <3>2. \A i \in DOMAIN replies' : i + 1 \in DOMAIN replies /\ replies'[i] = replies[i + 1]
      BY <1>0, <3>1
    <3>3. sessionInitialized
      <4>1. SUFFICES ASSUME ~sessionInitialized PROVE FALSE
        OBVIOUS
      <4>2. 1 \in DOMAIN replies /\ replies[1].cb = "poll"
        BY <1>0, <3>1
      <4>3. QED
        BY <4>1, <4>2
    <3>4. QED
      BY <2>5, <3>2, <3>3 DEF pollHandler
  <2>6. CASE \/ initHandlerThrow \/ callHandler \/ skipResponse
             \/ pollErrorHandlerReturn \/ pollErrorHandlerThrow \/ connectStatusReturn
    BY <2>6 DEF initHandlerThrow, callHandler, skipResponse,
       pollErrorHandlerReturn, pollErrorHandlerThrow, connectStatusReturn
  <2>7. CASE pollHandlerThrow \/ noHandlerThrow \/ pollHandlerReturn
    BY <2>7 DEF pollHandlerThrow, noHandlerThrow, pollHandlerReturn, pollHandlerFinally
  <2>8. QED
    BY <1>4, <2>1, <2>2, <2>3, <2>4, <2>5, <2>6, <2>7 DEF Page
<1>5. CASE UNCHANGED vars
  BY <1>1, <1>5 DEF vars
<1>6. QED
  BY <1>2, <1>3, <1>4, <1>5 DEF Next

listened == {calls[n].id : n \in {k \in DOMAIN calls : calls[k].type = "listen"}}
unlistened == \E n \in DOMAIN calls : calls[n].type = "unlisten"

Heard ==
    /\ subscribed \subseteq listened
    /\ \A i \in DOMAIN replies : Elements(replies[i].ids) \subseteq listened
    /\ Elements(todo) \subseteq listened
    /\ unlistened \/ listened \subseteq messageHandlers

\* One call more: what was listened to stays so.
LEMMA CallHeard ==
    ASSUME TypeOK, Heard, NEW cmd \in Commands, sendJmsMessage(cmd),
           \/ cmd.type = "listen" /\ messageHandlers' = messageHandlers \union {cmd.id}
           \/ cmd.type = "unlisten" /\ messageHandlers' = messageHandlers \ {cmd.id}
           \/ cmd.type = "send" /\ messageHandlers' = messageHandlers
    PROVE  Heard' /\ (unlistened => unlistened')
<1>1. calls \in Seq(Commands) /\ calls' = Append(calls, cmd) /\ UNCHANGED <<subscribed, replies, todo>>
  BY DEF sendJmsMessage, TypeOK, pollVars
<1>2. /\ DOMAIN calls' = DOMAIN calls \union {Len(calls) + 1} /\ calls'[Len(calls) + 1] = cmd
      /\ \A n \in DOMAIN calls : calls'[n] = calls[n]
  BY <1>1
<1>3. listened' = IF cmd.type = "listen" THEN listened \union {cmd.id} ELSE listened
  BY <1>2 DEF listened
<1>4. unlistened' <=> unlistened \/ cmd.type = "unlisten"
  BY <1>2 DEF unlistened
<1>5. QED
  BY <1>1, <1>3, <1>4 DEF Heard

LEMMA HeardNext ==
    ASSUME TypeOK, QueueInv, Heard, [Next]_vars
    PROVE  Heard' /\ (unlistened => unlistened')
<1>0. /\ replies \in Seq([cb : Callbacks, ids : Seq(Ids)]) /\ todo \in Seq(Ids)
  BY DEF TypeOK
<1>1. ASSUME UNCHANGED <<calls, messageHandlers, subscribed, replies, todo>>
      PROVE  Heard' /\ (unlistened => unlistened')
  BY <1>1 DEF Heard, listened, unlistened
<1>2. CASE Application
  <2>1. CASE startBatch \/ endBatch
    BY <1>1, <2>1 DEF startBatch, endBatch, pollVars, serverVars
  <2>2. ASSUME NEW id \in Ids, NEW h \in BOOLEAN, NEW t \in Types
        PROVE  /\ [type |-> t, id |-> id, headers |-> h] \in Commands
               /\ [type |-> t, id |-> id, headers |-> h].type = t
               /\ [type |-> t, id |-> id, headers |-> h].id = id
    BY DEF Commands
  <2>3. ASSUME NEW id \in Ids, addListener(id)
        PROVE  Heard' /\ (unlistened => unlistened')
    <3>1. PICK h \in BOOLEAN : sendJmsMessage([type |-> "listen", id |-> id, headers |-> h])
      BY <2>3 DEF addListener
    <3>2. QED
      BY <2>2, <2>3, <3>1, CallHeard DEF addListener, Types
  <2>4. ASSUME NEW id \in Ids, removeListener(id)
        PROVE  Heard' /\ (unlistened => unlistened')
    BY <2>2, <2>4, CallHeard DEF removeListener, Types
  <2>5. ASSUME NEW id \in Ids, sendMessage(id)
        PROVE  Heard' /\ (unlistened => unlistened')
    BY <2>2, <2>5, CallHeard DEF sendMessage, Types
  <2>6. QED
    BY <1>2, <2>1, <2>3, <2>4, <2>5 DEF Application
<1>3. CASE Server
  <2>1. ASSUME NEW p \in DOMAIN posted, servePost(p)
        PROVE  Heard' /\ (unlistened => unlistened')
    <3>1. UNCHANGED <<calls, messageHandlers, replies, todo>>
      BY <2>1 DEF servePost, pollVars
    <3>2. PICK R : subscribed' = subscriptionsAfter(posted[p], subscribed, R)
      BY <2>1 DEF servePost
    <3>3. posted[p] \subseteq DOMAIN calls
      BY DEF QueueInv, OnlyCalls
    <3>4. subscribed' \subseteq listened
      BY <3>2, <3>3 DEF Heard, listened, subscriptionsAfter
    <3>5. QED
      BY <3>1, <3>4 DEF Heard, listened, unlistened
  <2>2. ASSUME NEW cb \in Callbacks, answerPoll(cb)
        PROVE  Heard' /\ (unlistened => unlistened')
    <3>1. PICK ids \in Answers : replies' = Append(replies, [cb |-> cb, ids |-> ids])
      BY <2>2 DEF answerPoll
    <3>2. ids \in Seq(Ids) /\ Elements(ids) \subseteq listened
      <4>1. ids \in Seq(Ids) /\ Elements(ids) \subseteq subscribed
        BY <3>1, AnswersAreHeard
      <4>2. QED
        BY <4>1 DEF Heard
    <3>3. PICK e \in [cb : Callbacks, ids : Seq(Ids)] : e = [cb |-> cb, ids |-> ids]
      BY <3>2
    <3>4. /\ DOMAIN replies' = DOMAIN replies \union {Len(replies) + 1}
          /\ replies'[Len(replies) + 1] = e /\ e.ids = ids
          /\ \A i \in DOMAIN replies : replies'[i] = replies[i]
      BY <1>0, <3>1, <3>3
    <3>5. UNCHANGED <<calls, messageHandlers, subscribed, todo>>
      BY <2>2 DEF answerPoll, serverVars
    <3>6. \A i \in DOMAIN replies' : Elements(replies'[i].ids) \subseteq listened
      BY <3>2, <3>4 DEF Heard
    <3>7. QED
      BY <3>5, <3>6 DEF Heard, listened, unlistened
  <2>3. QED
    BY <1>3, <2>1, <2>2 DEF Server
<1>4. CASE Page
  <2>1. UNCHANGED <<calls, messageHandlers, subscribed>>
    BY <1>4 DEF Page, postSuccess, errorHandler, pollErrorHandler, pollErrorHandlerReturn,
       pollErrorHandlerThrow, connectStatusReturn, noHandlerThrow, pollTimer,
       initHandler, initHandlerReturn, initHandlerThrow, pollHandler, callHandler,
       skipResponse, pollHandlerThrow, pollHandlerReturn, pollHandlerFinally, serverVars
  <2>2. replies' = replies \/ (replies # <<>> /\ replies' = Tail(replies))
    BY <1>4 DEF Page, postSuccess, errorHandler, pollErrorHandler, pollErrorHandlerReturn,
       pollErrorHandlerThrow, connectStatusReturn, noHandlerThrow, pollTimer,
       initHandler, initHandlerReturn, initHandlerThrow, pollHandler, callHandler,
       skipResponse, pollHandlerThrow, pollHandlerReturn, pollHandlerFinally, pollVars
  <2>3. \/ todo' = todo
        \/ todo # <<>> /\ todo' = Tail(todo)
        \/ todo' = <<>>
        \/ replies # <<>> /\ todo' = Head(replies).ids
    BY <1>4 DEF Page, postSuccess, errorHandler, pollErrorHandler, pollErrorHandlerReturn,
       pollErrorHandlerThrow, connectStatusReturn, noHandlerThrow, pollTimer,
       initHandler, initHandlerReturn, initHandlerThrow, pollHandler, callHandler,
       skipResponse, pollHandlerThrow, pollHandlerReturn, pollHandlerFinally, pollVars
  <2>4. \A i \in DOMAIN replies' : Elements(replies'[i].ids) \subseteq listened
    <3>1. CASE replies # <<>> /\ replies' = Tail(replies)
      <4>1. \A i \in DOMAIN replies' : i + 1 \in DOMAIN replies /\ replies'[i] = replies[i + 1]
        BY <1>0, <3>1
      <4>2. QED
        BY <4>1 DEF Heard
    <3>2. QED
      BY <2>2, <3>1 DEF Heard
  <2>5. Elements(todo') \subseteq listened
    <3>1. CASE todo # <<>> /\ todo' = Tail(todo)
      <4>1. \A i \in DOMAIN todo' : i + 1 \in DOMAIN todo /\ todo'[i] = todo[i + 1]
        BY <1>0, <3>1
      <4>2. QED
        BY <4>1 DEF Heard, Elements
    <3>2. CASE todo' = <<>>
      BY <3>2 DEF Elements
    <3>3. CASE replies # <<>> /\ todo' = Head(replies).ids
      <4>1. 1 \in DOMAIN replies /\ Head(replies) = replies[1]
        BY <1>0, <3>3
      <4>2. QED
        BY <3>3, <4>1 DEF Heard
    <3>4. QED
      BY <2>3, <3>1, <3>2, <3>3 DEF Heard
  <2>6. QED
    BY <2>1, <2>4, <2>5 DEF Heard, listened, unlistened
<1>5. CASE UNCHANGED vars
  BY <1>1, <1>5 DEF vars, serverVars, pollVars
<1>6. QED
  BY <1>2, <1>3, <1>4, <1>5 DEF Next

\* No message is discarded whose id has a handler: messageHandler goes through
\* the whole response (amq.js:86-89), unless the application throws.  The
\* exceptions are what NothingDropped says: an application that made a call
\* before the session was initialised, or one that removed a listener while
\* logging was off, as it is by default (60-61, 105-112).
THEOREM ResponsesGoneThrough == Spec => []NothingDropped
<1>1. Init => BeforeCalls /\ Heard /\ NothingDropped
  BY DEF Init, BeforeCalls, noneFor, Heard, Elements, listened, NothingDropped, Callbacks
<1>2. TypeOK /\ OnePollChain /\ BeforeCalls /\ [Next]_vars => BeforeCalls'
  BY BeforeCallsNext
<1>3. TypeOK /\ QueueInv /\ Heard /\ [Next]_vars => Heard' /\ (unlistened => unlistened')
  BY HeardNext
<1>4. TypeOK /\ BeforeCalls /\ Heard /\ NothingDropped /\ [Next]_vars
          /\ (unlistened => unlistened') => NothingDropped'
  <2> SUFFICES ASSUME TypeOK, BeforeCalls, Heard, NothingDropped, [Next]_vars,
                      unlistened => unlistened'
               PROVE  NothingDropped'
    OBVIOUS
  <2>1. NothingDropped <=> (dropped # {} => early \/ (~logging /\ unlistened))
    BY DEF NothingDropped, unlistened
  <2>2. NothingDropped' <=> (dropped' # {} => early' \/ (~logging' /\ unlistened'))
    BY DEF NothingDropped, unlistened
  <2>3. logging' = logging /\ (early => early')
    <3>1. CASE Application
      <4>1. ASSUME NEW cmd, sendJmsMessage(cmd)
            PROVE  logging' = logging /\ (early => early')
        BY <4>1 DEF sendJmsMessage, pollVars
      <4>2. CASE startBatch \/ endBatch
        BY <4>2 DEF startBatch, endBatch, pollVars
      <4>3. (\E cmd : sendJmsMessage(cmd)) \/ startBatch \/ endBatch
        BY <3>1 DEF Application, addListener, removeListener, sendMessage
      <4>4. QED
        BY <4>1, <4>2, <4>3
    <3>2. CASE Server
      BY <3>2 DEF Server, servePost, answerPoll, pollVars
    <3>3. CASE Page
      BY <3>3 DEF Page, postSuccess, errorHandler, pollErrorHandler, pollErrorHandlerReturn,
         pollErrorHandlerThrow, connectStatusReturn, noHandlerThrow, pollTimer,
         initHandler, initHandlerReturn, initHandlerThrow, pollHandler, callHandler,
         skipResponse, pollHandlerThrow, pollHandlerReturn, pollHandlerFinally, pollVars
    <3>4. QED
      BY <3>1, <3>2, <3>3 DEF Next, vars, pollVars
  <2>4. CASE initHandler
    <3>1. 1 \in DOMAIN replies /\ replies[1].cb = "init"
      BY <2>4 DEF initHandler, TypeOK
    <3>2. early \/ messageHandlers = {}
      BY <3>1 DEF BeforeCalls, noneFor
    <3>3. early \/ dropped' = dropped
      BY <2>4, <3>2 DEF initHandler, lost
    <3>4. QED
      BY <2>1, <2>2, <2>3, <3>3
  <2>5. CASE noHandlerThrow
    <3>1. todo \in Seq(Ids) /\ todo # <<>> /\ ~logging /\ Head(todo) \notin messageHandlers
      BY <2>5 DEF noHandlerThrow, TypeOK
    <3>2. Head(todo) \in listened
      <4>1. 1 \in DOMAIN todo /\ Head(todo) = todo[1]
        BY <3>1
      <4>2. QED
        BY <4>1 DEF Heard, Elements
    <3>3. unlistened
      BY <3>1, <3>2 DEF Heard
    <3>4. QED
      BY <2>2, <2>3, <3>1, <3>3
  <2>6. CASE ~initHandler /\ ~noHandlerThrow
    <3>1. dropped' = dropped
      BY <2>6
       DEF Next, Application, Server, Page, addListener, removeListener,
           sendMessage, sendJmsMessage, startBatch, endBatch, postSuccess,
           errorHandler, servePost, answerPoll, pollErrorHandler, pollErrorHandlerReturn,
           pollErrorHandlerThrow, connectStatusReturn, pollTimer,
           initHandlerReturn, initHandlerThrow, pollHandler, callHandler,
           skipResponse, pollHandlerThrow, pollHandlerReturn, pollVars, vars
    <3>2. QED
      BY <2>1, <2>2, <2>3, <3>1
  <2>7. QED
    BY <2>4, <2>5, <2>6
<1>5. QED
  BY <1>1, <1>2, <1>3, <1>4, TypeCorrect, QueueInvHolds, PollsFormOneChain, PTL DEF Spec

=============================================================================
