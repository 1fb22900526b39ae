------------------------ MODULE MessageListenerProofs ------------------------
(***************************************************************************)
(* The servlet for any number of threads, destinations, consumers, posts   *)
(* and messages.                                                           *)
(*                                                                         *)
(* The argument is the one of the code: what is done under the monitor of  *)
(* the client is done by one thread at a time.  Known says what the local  *)
(* variables of a request hold at each label, Monitor at which labels it   *)
(* holds the monitor, Registered that only the consumer a listen has just  *)
(* created may lack its listener and its id.                               *)
(*                                                                         *)
(* The second half is about the messages: none is given to the page twice, *)
(* and none is lost as long as no consumer is closed and each can be       *)
(* written.                                                                *)
(***************************************************************************)
EXTENDS MessageListener, SequenceTheorems, FiniteSetTheorems, TLAPS

Req == [pc : PC, body : Bodies \union {NoBody}, post : 0..MaxPosts, next : Nat,
        expired : BOOLEAN, visit : SUBSET Consumers,
        message : Messages \union {None}, consumer : Consumers \union {None},
        resp : Seq(Entry)]

Posting == {"doPost", "commands", "listen", "raw"}

Fits(s) ==
    /\ s.pc = "drain" => Len(s.resp) <= 1
    /\ maximumMessages >= 2 => Len(s.resp) <= maximumMessages

KnownReq ==
    {s \in Req :
        /\ s.pc \in Posting => s.post # 0
        /\ s.pc \in {"commands", "listen"} => s.next # 0
        /\ s.pc \in {"suspended", "parked"} => s.message = None
        /\ s.message # None => s.consumer # None
        /\ s.pc \in {"drain", "sweep"} \/ s.resp = <<>>
        /\ Fits(s)}

Known == rq \in [Requests -> KnownReq]

Inside == {"commands", "listen", "scan", "suspended", "drain", "sweep"}
Monitor == \A r \in Requests : rq[r].pc \in Inside => lock = r

\* The consumers; under Monitor one request at most is at "listen".
Listening == \E r \in Requests : at(r, "listen")
Registered ==
    /\ \A d \in Dests : consumerOf[d] \in 0..created
    /\ \A d, e \in Dests : consumerOf[d] = consumerOf[e] /\ consumerOf[d] # None => d = e
    /\ \A d \in Dests :
          consumerOf[d] \notin {None} \union (listening \intersect idMap)
          => consumerOf[d] = created /\ Listening
    /\ Listening => created # 0

ServletInv == TypeOK /\ Known /\ Monitor /\ Registered

-----------------------------------------------------------------------------
\* A step that stays on the way to a response keeps what is known of a request.
LEMMA StillKnown ==
    ASSUME NEW old \in KnownReq, NEW s \in Req, s.pc \in {"drain", "sweep"},
           s.message = old.message, s.consumer = old.consumer, Fits(s)
    PROVE  s \in KnownReq
  BY DEF KnownReq, Posting

LEMMA NewRequest ==
    ASSUME NEW pc \in PC, NEW b \in Bodies \union {NoBody}, NEW n \in 0..MaxPosts,
           pc \in {"idle", "doMessages"} \/ (pc = "doPost" /\ n # 0)
    PROVE  request(pc, b, n) \in KnownReq /\ request(pc, b, n).pc = pc
<1> DEFINE s == request(pc, b, n)
<1>1. /\ s.pc = pc /\ s.body = b /\ s.post = n /\ s.next = 0 /\ s.expired = FALSE
      /\ s.visit = {} /\ s.message = None /\ s.consumer = None /\ s.resp = <<>>
  BY DEF request
<1>2. s \in Req
  BY DEF request, Req
<1>3. Len(<<>>) = 0
  OBVIOUS
<1> HIDE DEF s
<1>4. s \in KnownReq
  BY <1>1, <1>2, <1>3, SizesAssumption DEF KnownReq, Fits, Posting
<1>5. QED
  BY <1>1, <1>4 DEF s

LEMMA KnownIdle ==
    /\ Idle \in KnownReq /\ Idle.pc = "idle"
    /\ \A s \in KnownReq : s \in Req
<1>1. "idle" \in PC /\ 0 \in 0..MaxPosts
  BY SizesAssumption DEF PC
<1>2. QED
  BY <1>1, NewRequest DEF Idle, KnownReq

LEMMA ServletInitially == Init => ServletInv
<1> SUFFICES ASSUME Init PROVE ServletInv
  OBVIOUS
<1>1. Known
  BY KnownIdle DEF Init, Known
<1>2. TypeOK
  <2>1. rq \in [Requests -> Req]
    BY KnownIdle DEF Init
  <2>2. pending \in [Consumers -> Seq(Messages)]
    BY DEF Init
  <2>3. /\ created \in 0..MaxConsumers /\ published \in 0..MaxMessages /\ posts \in 0..MaxPosts
        /\ consumerOf \in [Dests -> Consumers \union {None}]
    BY SizesAssumption DEF Init
  <2>4. QED
    <3>1. /\ lock \in Requests \union {NoRequest} /\ continuation \in Requests \union {NoRequest}
          /\ listening \subseteq Consumers /\ idMap \subseteq Consumers
          /\ undelivered \in Seq(Undelivered) /\ delivered \in Seq(Entry)
          /\ dispatching \in Consumers \union {None}
          /\ sent = {} /\ resent = {} /\ lost \subseteq Messages
      BY DEF Init
    <3>2. failed \in BOOLEAN
      BY DEF Init
    <3>3. QED
      BY <2>1, <2>2, <2>3, <3>1, <3>2 DEF TypeOK, Req
<1>3. Monitor
  BY KnownIdle DEF Init, Monitor, Inside
<1>4. Registered
  BY KnownIdle, SizesAssumption DEF Init, Registered, Listening, at, None
<1>5. QED
  BY <1>1, <1>2, <1>3, <1>4 DEF ServletInv

\* A step that writes the record of one request.
LEMMA OneRequest ==
    ASSUME Known, NEW r \in Requests, NEW s \in KnownReq, rq' = [rq EXCEPT ![r] = s]
    PROVE  /\ Known' /\ rq' \in [Requests -> Req]
           /\ rq'[r] = s /\ \A q \in Requests : q # r => rq'[q] = rq[q]
BY KnownIdle DEF Known

\* The monitor: taken when free, given up when left.
LEMMA MonitorKept ==
    ASSUME Monitor, NEW r \in Requests,
           \A q \in Requests : q # r => rq'[q].pc = rq[q].pc,
           \/ lock' = lock /\ (rq'[r].pc \in Inside => rq[r].pc \in Inside)
           \/ lock = NoRequest /\ lock' = r
           \/ lock' = NoRequest /\ rq[r].pc \in Inside /\ rq'[r].pc \notin Inside
    PROVE  Monitor'
BY RequestsAssumption DEF Monitor

\* The consumers stay as they are, and so does the label "listen".
LEMMA RegisteredKept ==
    ASSUME Registered, NEW r \in Requests, UNCHANGED clientVars,
           \A q \in Requests : q # r => rq'[q].pc = rq[q].pc,
           rq[r].pc # "listen", rq'[r].pc # "listen"
    PROVE  Registered'
<1>1. Listening' <=> Listening
  BY DEF Listening, at
<1>2. QED
  BY <1>1 DEF Registered, clientVars

-----------------------------------------------------------------------------
\* What a step of a request has to show: its new record and what it does to
\* the monitor.  Steps of listen are apart.
LEMMA StepKeeps ==
    ASSUME ServletInv, NEW r \in Requests, NEW s \in KnownReq,
           rq' = [rq EXCEPT ![r] = s], s.pc # "listen", rq[r].pc # "listen",
           UNCHANGED clientVars,
           \/ lock' = lock /\ (s.pc \in Inside => rq[r].pc \in Inside)
           \/ lock = NoRequest /\ lock' = r
           \/ lock' = NoRequest /\ rq[r].pc \in Inside /\ s.pc \notin Inside
    PROVE  /\ Known' /\ Monitor' /\ Registered'
           /\ rq' \in [Requests -> Req] /\ lock' \in Requests \union {NoRequest}
<1>1. TypeOK /\ Known /\ Monitor /\ Registered
  BY DEF ServletInv
<1>2. /\ Known' /\ rq' \in [Requests -> Req]
      /\ rq'[r] = s /\ \A q \in Requests : q # r => rq'[q] = rq[q]
  BY <1>1, OneRequest
<1>3. Monitor'
  BY <1>1, <1>2, MonitorKept
<1>4. Registered'
  BY <1>1, <1>2, RegisteredKept
<1>5. lock' \in Requests \union {NoRequest}
  BY <1>1 DEF TypeOK
<1>6. QED
  BY <1>2, <1>3, <1>4, <1>5

\* ... and nothing else when that is all it changes.
LEMMA LocalStep ==
    ASSUME ServletInv, NEW r \in Requests, NEW s \in KnownReq,
           rq' = [rq EXCEPT ![r] = s], s.pc # "listen", rq[r].pc # "listen",
           UNCHANGED <<clientVars, listenerVars, sessionVars, sendVars, posts, historyVars>>,
           \/ lock' = lock /\ (s.pc \in Inside => rq[r].pc \in Inside)
           \/ lock = NoRequest /\ lock' = r
           \/ lock' = NoRequest /\ rq[r].pc \in Inside /\ s.pc \notin Inside
    PROVE  ServletInv'
<1>1. /\ Known' /\ Monitor' /\ Registered'
      /\ rq' \in [Requests -> Req] /\ lock' \in Requests \union {NoRequest}
  BY StepKeeps
<1>2. TypeOK'
  BY <1>1 DEF ServletInv, TypeOK, Req, clientVars, listenerVars, sessionVars, sendVars, historyVars
<1>3. QED
  BY <1>1, <1>2 DEF ServletInv

LEMMA RecordOf ==
    ASSUME Known, NEW r \in Requests
    PROVE  rq[r] \in KnownReq /\ rq[r] \in Req
BY DEF Known, KnownReq

\* A request that goes on to another label.
LEMMA GotoKnown ==
    ASSUME NEW x \in KnownReq, NEW label \in PC, label # "drain",
           x.pc \notin {"drain", "sweep"},
           label \in Posting => x.post # 0,
           label \in {"commands", "listen"} => x.next # 0,
           label \in {"suspended", "parked"} => x.message = None
    PROVE  /\ [x EXCEPT !.pc = label] \in KnownReq
           /\ [x EXCEPT !.pc = label].pc = label
<1> DEFINE s == [x EXCEPT !.pc = label]
<1>1. x \in Req
  BY DEF KnownReq
<1>2. /\ s \in Req /\ s.pc = label /\ s.post = x.post /\ s.next = x.next
      /\ s.message = x.message /\ s.consumer = x.consumer /\ s.resp = x.resp
  BY <1>1 DEF Req
<1> HIDE DEF s
<1>3. s \in KnownReq
  BY <1>2 DEF KnownReq, Fits
<1>4. QED
  BY <1>2, <1>3 DEF s

LEMMA CommandsKnown ==
    ASSUME NEW x \in KnownReq, x.post # 0, x.pc \notin {"drain", "sweep"},
           NEW n \in Nat \ {0}
    PROVE  /\ [x EXCEPT !.pc = "commands", !.next = n] \in KnownReq
           /\ [x EXCEPT !.pc = "commands", !.next = n].pc = "commands"
<1> DEFINE s == [x EXCEPT !.pc = "commands", !.next = n]
<1>1. x \in Req
  BY DEF KnownReq
<1>2. /\ s \in Req /\ s.pc = "commands" /\ s.post = x.post /\ s.next = n
      /\ s.message = x.message /\ s.consumer = x.consumer /\ s.resp = x.resp
  BY <1>1 DEF Req, PC
<1> HIDE DEF s
<1>3. s \in KnownReq
  BY <1>2 DEF KnownReq, Fits
<1>4. QED
  BY <1>2, <1>3 DEF s

LEMMA NextCommandKnown ==
    ASSUME Known, NEW r \in Requests, rq[r].pc \in {"commands", "listen"}, nextCommand(r)
    PROVE  \E s \in KnownReq : rq' = [rq EXCEPT ![r] = s] /\ s.pc = "commands"
<1> DEFINE s == [rq[r] EXCEPT !.pc = "commands", !.next = rq[r].next + 1]
<1>1. rq[r] \in KnownReq /\ rq[r] \in Req
  BY RecordOf
<1>2. rq[r].post # 0 /\ rq[r].next + 1 \in Nat \ {0}
  BY <1>1 DEF KnownReq, Req, Posting
<1>3. s \in KnownReq /\ s.pc = "commands"
  BY <1>1, <1>2, CommandsKnown
<1>4. rq' = [rq EXCEPT ![r] = s]
  BY DEF nextCommand
<1>5. QED
  BY <1>3, <1>4

-----------------------------------------------------------------------------
LEMMA StartKeeps ==
    ASSUME ServletInv, NEW r \in Requests,
           startGet(r) \/ \E b \in Bodies : startPost(r, b)
    PROVE  ServletInv'
<1>1. TypeOK
  BY DEF ServletInv
<1>2. CASE startGet(r)
  <2>1. "doMessages" \in PC /\ 0 \in 0..MaxPosts
    BY SizesAssumption DEF PC
  <2>2. request("doMessages", NoBody, 0) \in KnownReq
        /\ request("doMessages", NoBody, 0).pc = "doMessages"
    BY <2>1, NewRequest
  <2>3. QED
    BY <1>2, <2>2, LocalStep DEF startGet, at, Inside
<1>3. ASSUME NEW b \in Bodies, startPost(r, b)
      PROVE  ServletInv'
  <2> DEFINE s == request("doPost", b, posts + 1)
  <2>1. posts + 1 \in 1..MaxPosts /\ posts + 1 \in 0..MaxPosts /\ "doPost" \in PC
    <3>1. posts \in 0..MaxPosts /\ posts < MaxPosts
      BY <1>1, <1>3 DEF startPost, TypeOK
    <3>2. "doPost" \in PC
      BY DEF PC
    <3>3. QED
      BY <3>1, <3>2, SizesAssumption
  <2>2. s \in KnownReq /\ s.pc = "doPost"
    BY <2>1, NewRequest
  <2>3. rq' = [rq EXCEPT ![r] = s] /\ rq[r].pc = "idle"
    BY <1>3 DEF startPost, at
  <2> HIDE DEF s
  <2>4. /\ Known' /\ Monitor' /\ Registered'
        /\ rq' \in [Requests -> Req] /\ lock' \in Requests \union {NoRequest}
    BY <1>3, <2>2, <2>3, StepKeeps DEF startPost, Inside
  <2>5. TypeOK'
    BY <1>1, <1>3, <2>1, <2>4 DEF startPost, TypeOK, Req, clientVars, listenerVars,
                                  sessionVars, sendVars, historyVars
  <2>6. QED
    BY <2>4, <2>5 DEF ServletInv
<1>4. QED
  BY <1>2, <1>3

LEMMA DoPostKeeps ==
    ASSUME ServletInv, NEW r \in Requests, doPost(r)
    PROVE  ServletInv'
<1> DEFINE s == [rq[r] EXCEPT !.pc = "commands", !.next = 1]
<1>1. Known /\ rq[r] \in KnownReq /\ rq[r].pc = "doPost"
  BY RecordOf DEF ServletInv, doPost, at
<1>2. s \in KnownReq /\ s.pc = "commands"
  <2>1. rq[r].post # 0 /\ 1 \in Nat \ {0}
    BY <1>1 DEF KnownReq, Posting
  <2>2. QED
    BY <1>1, <2>1, CommandsKnown
<1>3. rq' = [rq EXCEPT ![r] = s]
  BY DEF doPost
<1> HIDE DEF s
<1>4. QED
  BY <1>1, <1>2, <1>3, LocalStep DEF doPost

LEMMA UnknownTypeKeeps ==
    ASSUME ServletInv, NEW r \in Requests, unknownType(r)
    PROVE  ServletInv'
<1>1. Known /\ rq[r].pc = "commands"
  BY DEF ServletInv, unknownType, command, at
<1>2. PICK s \in KnownReq : rq' = [rq EXCEPT ![r] = s] /\ s.pc = "commands"
  BY <1>1, NextCommandKnown DEF unknownType
<1>3. QED
  BY <1>1, <1>2, LocalStep DEF unknownType

LEMMA CommandsDoneKeeps ==
    ASSUME ServletInv, NEW r \in Requests, commandsDone(r)
    PROVE  ServletInv'
<1>1. Known /\ rq[r] \in KnownReq /\ rq[r].pc = "commands"
  BY RecordOf DEF ServletInv, commandsDone, at
<1>2. \E s \in KnownReq : rq' = [rq EXCEPT ![r] = s] /\ s.pc \in {"idle", "raw", "doMessages"}
  <2>1. "raw" \in PC /\ "doMessages" \in PC /\ rq[r].post # 0
    BY <1>1 DEF PC, KnownReq, Posting
  <2>2. CASE goto(r, "raw")
    <3>1. [rq[r] EXCEPT !.pc = "raw"] \in KnownReq /\ [rq[r] EXCEPT !.pc = "raw"].pc = "raw"
      BY <1>1, <2>1, GotoKnown
    <3>2. QED
      BY <2>2, <3>1 DEF goto
  <2>3. CASE goto(r, "doMessages")
    <3>1. /\ [rq[r] EXCEPT !.pc = "doMessages"] \in KnownReq
          /\ [rq[r] EXCEPT !.pc = "doMessages"].pc = "doMessages"
      BY <1>1, <2>1, GotoKnown DEF Posting
    <3>2. QED
      BY <2>3, <3>1 DEF goto
  <2>4. CASE rq' = [rq EXCEPT ![r] = Idle]
    BY <2>4, KnownIdle
  <2>5. QED
    BY <2>2, <2>3, <2>4 DEF commandsDone
<1>3. PICK s \in KnownReq : rq' = [rq EXCEPT ![r] = s] /\ s.pc \in {"idle", "raw", "doMessages"}
  BY <1>2
<1>4. QED
  BY <1>1, <1>3, LocalStep DEF commandsDone, Inside

LEMMA DoMessagesKeeps ==
    ASSUME ServletInv, NEW r \in Requests, doMessages(r)
    PROVE  ServletInv'
<1> DEFINE v == IF rq[r].message = None THEN openConsumers ELSE {}
           s == [rq[r] EXCEPT !.pc = "scan", !.visit = v]
<1>1. Known /\ TypeOK /\ rq[r] \in KnownReq /\ rq[r] \in Req /\ rq[r].pc = "doMessages"
  BY RecordOf DEF ServletInv, doMessages, at
<1>2. v \in SUBSET Consumers
  BY <1>1 DEF TypeOK, openConsumers
<1>3. rq' = [rq EXCEPT ![r] = s]
  BY DEF doMessages
<1> HIDE DEF v
<1>4. /\ s \in Req /\ s.pc = "scan" /\ s.post = rq[r].post /\ s.next = rq[r].next
      /\ s.message = rq[r].message /\ s.consumer = rq[r].consumer /\ s.resp = rq[r].resp
  BY <1>1, <1>2 DEF Req, PC
<1> HIDE DEF s
<1>5. s \in KnownReq
  BY <1>1, <1>4 DEF KnownReq, Fits, Posting
<1>6. QED
  BY <1>1, <1>3, <1>4, <1>5, LocalStep DEF doMessages

LEMMA AnswerEmptyKeeps ==
    ASSUME ServletInv, NEW r \in Requests, answerEmpty(r)
    PROVE  ServletInv'
<1>1. rq' = [rq EXCEPT ![r] = Idle] /\ rq[r].pc = "scan"
  BY DEF answerEmpty, scanned, at
<1>2. QED
  BY <1>1, KnownIdle, LocalStep DEF answerEmpty, Inside

LEMMA SuspendKeeps ==
    ASSUME ServletInv, NEW r \in Requests, suspend(r)
    PROVE  ServletInv'
<1> DEFINE s == [rq[r] EXCEPT !.pc = "suspended"]
<1>1. /\ Known /\ rq[r] \in KnownReq /\ rq[r].pc = "scan" /\ rq[r].message = None
      /\ rq' = [rq EXCEPT ![r] = s]
  BY RecordOf DEF ServletInv, suspend, scanned, nothingToSend, goto, at
<1>2. s \in KnownReq /\ s.pc = "suspended"
  <2>1. "suspended" \in PC /\ rq[r].pc \notin {"drain", "sweep"}
    BY <1>1 DEF PC
  <2>2. QED
    BY <1>1, <2>1, GotoKnown DEF Posting
<1> HIDE DEF s
<1>3. QED
  BY <1>1, <1>2, LocalStep DEF suspend, Inside

LEMMA ExpireKeeps ==
    ASSUME ServletInv, NEW r \in Requests, expire(r)
    PROVE  ServletInv'
<1> DEFINE s == [rq[r] EXCEPT !.pc = again(r), !.expired = TRUE, !.consumer = None]
<1>1. /\ Known /\ rq[r].pc = "parked" /\ rq[r] \in KnownReq /\ rq[r] \in Req
      /\ rq' = [rq EXCEPT ![r] = s]
  BY RecordOf DEF ServletInv, expire, at
<1>2. /\ again(r) \in {"doMessages", "doPost"} /\ again(r) \in PC
      /\ (again(r) = "doPost" => rq[r].post # 0) /\ rq[r].message = None
  BY <1>1 DEF again, PC, KnownReq
<1>3. /\ s \in Req /\ s.pc = again(r) /\ s.post = rq[r].post /\ s.next = rq[r].next
      /\ s.message = None /\ s.resp = rq[r].resp
  BY <1>1, <1>2 DEF Req
<1> HIDE DEF s
<1>4. s \in KnownReq
  BY <1>1, <1>2, <1>3 DEF KnownReq, Fits, Posting
<1>5. QED
  BY <1>1, <1>2, <1>3, <1>4, LocalStep DEF expire, Inside

LEMMA SendKeeps ==
    ASSUME ServletInv, NEW r \in Requests, send(r) \/ sendBody(r)
    PROVE  ServletInv'
<1>1. /\ Known /\ TypeOK /\ rq[r] \in KnownReq /\ rq[r] \in Req /\ rq[r].pc \in {"commands", "raw"}
      /\ rq[r].post # 0 /\ rq[r].post \in 0..MaxPosts /\ rq[r].next \in Nat
  BY RecordOf DEF ServletInv, send, sendBody, command, at, KnownReq, Req, Posting
<1>2. PICK s \in KnownReq : /\ rq' = [rq EXCEPT ![r] = s]
                            /\ s.pc = "idle" \/ (s.pc = "commands" /\ rq[r].pc = "commands")
  BY <1>1, NextCommandKnown, KnownIdle DEF send, sendBody, command, at
<1>3. rq[r].body.poll \in BOOLEAN
  <2>1. rq[r].body \in Bodies \/ rq[r].body = NoBody
    BY <1>1 DEF Req
  <2>2. NoBody.poll \in BOOLEAN
    BY DEF NoBody
  <2>3. \A b \in Bodies : b.poll \in BOOLEAN
    BY BodiesAssumption
  <2>4. QED
    BY <2>1, <2>2, <2>3
<1>4. sent' \subseteq [post : 1..MaxPosts, cmd : Nat, polls : BOOLEAN] /\ resent' \subseteq sent'
  <2> DEFINE x(n) == [post |-> rq[r].post, cmd |-> n, polls |-> rq[r].body.poll]
  <2>1. rq[r].post \in 1..MaxPosts
    BY <1>1, SizesAssumption
  <2>2. \A n \in Nat : x(n) \in [post : 1..MaxPosts, cmd : Nat, polls : BOOLEAN]
    BY <1>3, <2>1
  <2>3. PICK n \in Nat : sent' = sent \union {x(n)} /\ resent' = resent \union ({x(n)} \intersect sent)
    BY <1>1 DEF send, sendBody, jmsSend
  <2> HIDE DEF x
  <2>4. QED
    BY <1>1, <2>2, <2>3 DEF TypeOK
<1>5. /\ Known' /\ Monitor' /\ Registered'
      /\ rq' \in [Requests -> Req] /\ lock' \in Requests \union {NoRequest}
  BY <1>1, <1>2, StepKeeps DEF send, sendBody, Inside
<1>6. UNCHANGED <<clientVars, listenerVars, sessionVars, posts, historyVars>>
  BY DEF send, sendBody
<1>7. TypeOK'
  BY <1>1, <1>4, <1>5, <1>6 DEF TypeOK, Req, clientVars, listenerVars, sessionVars, historyVars
<1>8. QED
  BY <1>5, <1>7 DEF ServletInv

LEMMA SetContinuationKeeps ==
    ASSUME ServletInv, NEW r \in Requests, setContinuation(r)
    PROVE  ServletInv'
<1> DEFINE s == [rq[r] EXCEPT !.pc = "parked"]
<1>1. /\ Known /\ TypeOK /\ rq[r] \in KnownReq /\ rq[r].pc = "suspended"
      /\ rq' = [rq EXCEPT ![r] = s]
  BY RecordOf DEF ServletInv, setContinuation, goto, at
<1>2. s \in KnownReq /\ s.pc = "parked"
  BY <1>1, GotoKnown DEF PC, Posting, KnownReq
<1> HIDE DEF s
<1>3. /\ Known' /\ Monitor' /\ Registered'
      /\ rq' \in [Requests -> Req] /\ lock' \in Requests \union {NoRequest}
  BY <1>1, <1>2, StepKeeps DEF setContinuation, Inside
<1>4. TypeOK'
  BY <1>1, <1>3 DEF setContinuation, TypeOK, Req, clientVars, sessionVars, sendVars, historyVars
<1>5. QED
  BY <1>3, <1>4 DEF ServletInv

\* A consumer hands over the first message it holds.
LEMMA Receive ==
    ASSUME TypeOK, NEW c \in Consumers, pending[c] # <<>>
    PROVE  /\ Head(pending[c]) \in Messages
           /\ [pending EXCEPT ![c] = Tail(@)] \in [Consumers -> Seq(Messages)]
<1>1. pending \in [Consumers -> Seq(Messages)]
  BY DEF TypeOK
<1>2. Head(pending[c]) \in Messages /\ Tail(pending[c]) \in Seq(Messages)
  BY <1>1
<1>3. QED
  BY <1>1, <1>2

LEMMA ScanKeeps ==
    ASSUME ServletInv, NEW r \in Requests, scan(r)
    PROVE  ServletInv'
<1>1. /\ Known /\ TypeOK /\ rq[r] \in KnownReq /\ rq[r] \in Req
      /\ rq[r].pc = "scan" /\ rq[r].message = None
  BY RecordOf DEF ServletInv, scan, at
<1>2. PICK c \in rq[r].visit :
          \/ /\ c \in listening /\ pending[c] # <<>>
             /\ rq' = [rq EXCEPT ![r].consumer = c, ![r].message = Head(pending[c])]
             /\ pending' = [pending EXCEPT ![c] = Tail(@)]
          \/ /\ rq' = [rq EXCEPT ![r].consumer = c, ![r].visit = @ \ {c}]
             /\ UNCHANGED pending
  BY DEF scan
<1>3. c \in Consumers
  BY <1>1 DEF Req
<1>4. pending' \in [Consumers -> Seq(Messages)] /\ \E s \in KnownReq : rq' = [rq EXCEPT ![r] = s] /\ s.pc = "scan"
  <2>1. CASE /\ pending[c] # <<>>
             /\ rq' = [rq EXCEPT ![r].consumer = c, ![r].message = Head(pending[c])]
             /\ pending' = [pending EXCEPT ![c] = Tail(@)]
    <3> DEFINE m == Head(pending[c])
               s == [rq[r] EXCEPT !.consumer = c, !.message = m]
    <3>1. m \in Messages /\ pending' \in [Consumers -> Seq(Messages)]
      BY <1>1, <1>3, <2>1, Receive
    <3>2. rq' = [rq EXCEPT ![r] = s]
      BY <2>1
    <3> HIDE DEF m
    <3>3. /\ s \in Req /\ s.pc = rq[r].pc /\ s.post = rq[r].post /\ s.next = rq[r].next
          /\ s.message = m /\ s.consumer = c /\ s.resp = rq[r].resp
      BY <1>1, <1>3, <3>1 DEF Req
    <3> HIDE DEF s
    <3>4. s \in KnownReq
      BY <1>1, <1>3, <3>3 DEF KnownReq, Fits, Posting, Consumers, None
    <3>5. QED
      BY <1>1, <3>1, <3>2, <3>3, <3>4
  <2>2. CASE /\ rq' = [rq EXCEPT ![r].consumer = c, ![r].visit = @ \ {c}]
             /\ UNCHANGED pending
    <3> DEFINE v == rq[r].visit \ {c}
               s == [rq[r] EXCEPT !.consumer = c, !.visit = v]
    <3>1. v \in SUBSET Consumers
      BY <1>1 DEF Req
    <3>2. rq' = [rq EXCEPT ![r] = s]
      BY <2>2
    <3> HIDE DEF v
    <3>3. /\ s \in Req /\ s.pc = rq[r].pc /\ s.post = rq[r].post /\ s.next = rq[r].next
          /\ s.message = rq[r].message /\ s.resp = rq[r].resp
      BY <1>1, <1>3, <3>1 DEF Req
    <3> HIDE DEF s
    <3>4. s \in KnownReq
      BY <1>1, <3>3 DEF KnownReq, Fits, Posting
    <3>5. QED
      BY <1>1, <2>2, <3>2, <3>3, <3>4 DEF TypeOK
  <2>3. QED
    BY <1>2, <2>1, <2>2
<1>5. PICK s \in KnownReq : rq' = [rq EXCEPT ![r] = s] /\ s.pc = "scan"
  BY <1>4
<1>6. /\ Known' /\ Monitor' /\ Registered'
      /\ rq' \in [Requests -> Req] /\ lock' \in Requests \union {NoRequest}
  BY <1>1, <1>5, StepKeeps DEF scan, Inside
<1>7. TypeOK'
  BY <1>1, <1>4, <1>6 DEF scan, TypeOK, Req, clientVars, listenerVars, sendVars, historyVars
<1>8. QED
  BY <1>6, <1>7 DEF ServletInv

-----------------------------------------------------------------------------
\* The answers.  An exception gives up the monitor and the request.
LEMMA MessagesOf ==
    ASSUME NEW s \in Seq(Entry)
    PROVE  messagesIn(s) \subseteq Messages
<1>1. \A i \in DOMAIN s : s[i] \in Entry
  OBVIOUS
<1>2. \A e \in Entry : e.msg \in Messages
  BY DEF Entry
<1>3. QED
  BY <1>1, <1>2 DEF messagesIn

LEMMA FailKeeps ==
    ASSUME ServletInv, NEW r \in Requests, rq[r].pc \in Inside, rq[r].pc # "listen",
           NEW w \in SUBSET Messages, fail(r, w),
           undelivered' \in Seq(Undelivered), pending' \in [Consumers -> Seq(Messages)]
    PROVE  ServletInv'
<1>1. TypeOK /\ Known /\ rq[r] \in Req
  BY RecordOf DEF ServletInv
<1>2. rq' = [rq EXCEPT ![r] = Idle] /\ lock' = NoRequest
  BY DEF fail
<1>3. /\ Known' /\ Monitor' /\ Registered'
      /\ rq' \in [Requests -> Req] /\ lock' \in Requests \union {NoRequest}
  BY <1>2, KnownIdle, StepKeeps DEF fail, Inside
<1>4. lost' \subseteq Messages
  <2>1. messagesIn(rq[r].resp) \subseteq Messages
    BY <1>1, MessagesOf DEF Req
  <2>2. QED
    BY <1>1, <2>1 DEF fail, TypeOK
<1>5. failed' \in BOOLEAN
  BY DEF fail
<1>6. TypeOK'
  BY <1>1, <1>3, <1>4, <1>5 DEF fail, TypeOK, Req, clientVars, sendVars
<1>7. QED
  BY <1>3, <1>6 DEF ServletInv

LEMMA EntryType ==
    ASSUME NEW m \in Messages, NEW c \in Consumers
    PROVE  entry(m, c) \in Entry
<1>1. (c \in idMap) \in BOOLEAN
  OBVIOUS
<1>2. QED
  BY <1>1 DEF entry, Entry

LEMMA WriteMessageKeeps ==
    ASSUME ServletInv, NEW r \in Requests, writeMessage(r)
    PROVE  ServletInv'
<1>1. /\ Known /\ TypeOK /\ rq[r] \in KnownReq /\ rq[r] \in Req /\ rq[r].pc = "scan"
  BY RecordOf DEF ServletInv, writeMessage, scanned, at
<1>2. rq[r].message \in Messages \union {None} /\ rq[r].consumer \in Consumers \union {None}
      /\ (rq[r].message # None => rq[r].consumer # None)
  BY <1>1 DEF Req, KnownReq
<1>3. undelivered' = undelivered /\ pending' = pending
  BY DEF writeMessage
<1>4. CASE rq[r].message \in Poison /\ fail(r, {rq[r].message})
  <2>1. rq[r].message \in Messages
    BY <1>2, <1>4, PoisonAssumption DEF None
  <2>2. undelivered' \in Seq(Undelivered) /\ pending' \in [Consumers -> Seq(Messages)]
    BY <1>1, <1>3 DEF TypeOK
  <2>3. QED
    BY <1>1, <1>4, <2>1, <2>2, FailKeeps DEF Inside
<1>5. CASE /\ UNCHANGED <<lock, clientVars, continuation, dispatching, published, sendVars, posts, historyVars>>
           /\ rq' = [rq EXCEPT ![r].pc = "drain", ![r].resp =
                       IF rq[r].message = None THEN <<>>
                       ELSE <<entry(rq[r].message, rq[r].consumer)>>]
  <2> DEFINE w == IF rq[r].message = None THEN <<>> ELSE <<entry(rq[r].message, rq[r].consumer)>>
             s == [rq[r] EXCEPT !.pc = "drain", !.resp = w]
  <2>1. w \in Seq(Entry) /\ Len(w) <= 1 /\ Len(w) \in Nat
    <3>1. CASE rq[r].message = None
      BY <3>1
    <3>2. CASE rq[r].message # None
      <4>1. entry(rq[r].message, rq[r].consumer) \in Entry
        BY <1>2, <3>2, EntryType
      <4>2. QED
        BY <3>2, <4>1
    <3>3. QED
      BY <3>1, <3>2
  <2>2. rq' = [rq EXCEPT ![r] = s]
    BY <1>5
  <2> HIDE DEF w
  <2>3. /\ s \in Req /\ s.pc = "drain" /\ s.post = rq[r].post /\ s.next = rq[r].next
        /\ s.message = rq[r].message /\ s.consumer = rq[r].consumer /\ s.resp = w
    BY <1>1, <2>1 DEF Req, PC
  <2> HIDE DEF s
  <2>4. s \in KnownReq
    <3>1. maximumMessages >= 2 => Len(s.resp) <= maximumMessages
      BY <2>1, <2>3, SizesAssumption
    <3>2. Fits(s)
      BY <2>1, <2>3, <3>1 DEF Fits
    <3>3. QED
      BY <1>1, <2>3, <3>2, StillKnown
  <2>5. /\ Known' /\ Monitor' /\ Registered'
        /\ rq' \in [Requests -> Req] /\ lock' \in Requests \union {NoRequest}
    BY <1>1, <1>5, <2>2, <2>3, <2>4, StepKeeps DEF Inside
  <2>6. TypeOK'
    BY <1>1, <1>3, <1>5, <2>5 DEF TypeOK, Req, clientVars, sendVars, historyVars
  <2>7. QED
    BY <2>5, <2>6 DEF ServletInv
<1>6. QED
  BY <1>4, <1>5 DEF writeMessage

\* How much of the buffer a response takes.
LEMMA WrittenBounds ==
    ASSUME TypeOK, NEW r \in Requests
    PROVE  /\ written(r) \in Nat /\ written(r) <= Len(undelivered) /\ Len(undelivered) \in Nat
           /\ maximumMessages >= 2 /\ Len(rq[r].resp) <= 1
              => written(r) + Len(rq[r].resp) <= maximumMessages
<1> DEFINE have == Len(undelivered)
           left == maximumMessages - Len(rq[r].resp)
<1>1. undelivered \in Seq(Undelivered) /\ rq[r].resp \in Seq(Entry)
  BY DEF TypeOK
<1>2. have \in Nat /\ Len(rq[r].resp) \in Nat /\ maximumMessages \in Nat /\ left \in Int
  <2>1. have \in Nat /\ Len(rq[r].resp) \in Nat
    BY <1>1
  <2>2. maximumMessages \in Nat
    BY SizesAssumption
  <2>3. QED
    BY <2>1, <2>2
<1>3. room(r) = IF left < 1 THEN 1 ELSE left
  BY DEF room
<1>4. written(r) = IF have < room(r) THEN have ELSE room(r)
  BY DEF written
<1> HIDE DEF left
<1>5. room(r) \in Nat \ {0} /\ (left >= 1 => room(r) = left)
  <2>1. CASE left < 1
    BY <1>2, <1>3, <2>1
  <2>2. CASE left >= 1
    BY <1>2, <1>3, <2>2
  <2>3. QED
    BY <1>2, <2>1, <2>2
<1>6. written(r) \in Nat /\ written(r) <= have /\ written(r) <= room(r)
  BY <1>2, <1>4, <1>5
<1>7. QED
  BY <1>2, <1>5, <1>6 DEF left

LEMMA RemainingType ==
    ASSUME TypeOK, NEW n \in Nat, n <= Len(undelivered)
    PROVE  remaining(n) \in Seq(Undelivered)
<1>1. undelivered \in Seq(Undelivered) /\ Len(undelivered) \in Nat
  BY DEF TypeOK
<1>2. \A j \in (n + 1)..Len(undelivered) : undelivered[j] \in Undelivered
  BY <1>1
<1>3. QED
  BY <1>1, <1>2, SubSeqProperties DEF remaining

LEMMA DrainKeeps ==
    ASSUME ServletInv, NEW r \in Requests, drain(r)
    PROVE  ServletInv'
<1> DEFINE n == written(r)
           w == [i \in 1..n |-> entry(undelivered[i].msg, undelivered[i].consumer)]
           new == rq[r].resp \o w
           s == [rq[r] EXCEPT !.pc = "sweep", !.visit = openConsumers, !.resp = new]
<1>1. /\ Known /\ TypeOK /\ rq[r] \in KnownReq /\ rq[r] \in Req /\ rq[r].pc = "drain"
  BY RecordOf DEF ServletInv, drain, at
<1>2. n \in Nat /\ n <= Len(undelivered) /\ Len(undelivered) \in Nat
      /\ (maximumMessages >= 2 /\ Len(rq[r].resp) <= 1 => n + Len(rq[r].resp) <= maximumMessages)
  BY <1>1, WrittenBounds
<1> HIDE DEF n
<1>3. w \in Seq(Entry) /\ Len(w) = n
  <2>1. ASSUME NEW i \in 1..n
        PROVE  entry(undelivered[i].msg, undelivered[i].consumer) \in Entry
    <3>1. undelivered[i] \in Undelivered
      BY <1>1, <1>2 DEF TypeOK
    <3>2. undelivered[i].msg \in Messages /\ undelivered[i].consumer \in Consumers
      BY <3>1 DEF Undelivered
    <3>3. QED
      BY <3>2, EntryType
  <2>2. w \in [1..n -> Entry]
    BY <2>1
  <2>3. QED
    BY <1>2, <2>2
<1>4. rq' = [rq EXCEPT ![r] = s]
  BY DEF drain, n
<1> HIDE DEF w
<1>5. new \in Seq(Entry) /\ Len(new) = Len(rq[r].resp) + n /\ Len(rq[r].resp) \in Nat
  <2>1. rq[r].resp \in Seq(Entry)
    BY <1>1 DEF Req
  <2>2. new \in Seq(Entry) /\ Len(new) = Len(rq[r].resp) + Len(w)
    BY <1>3, <2>1, ConcatProperties
  <2>3. QED
    BY <1>3, <2>1, <2>2
<1>6. openConsumers \in SUBSET Consumers
  BY <1>1 DEF TypeOK, openConsumers
<1> HIDE DEF new
<1>7. /\ s \in Req /\ s.pc = "sweep" /\ s.post = rq[r].post /\ s.next = rq[r].next
      /\ s.message = rq[r].message /\ s.consumer = rq[r].consumer /\ s.resp = new
  BY <1>1, <1>5, <1>6 DEF Req, PC
<1> HIDE DEF s
<1>8. s \in KnownReq
  <2>1. Len(rq[r].resp) <= 1
    BY <1>1 DEF KnownReq, Fits
  <2>2. maximumMessages >= 2 => Len(s.resp) <= maximumMessages
    BY <1>2, <1>5, <1>7, <2>1, SizesAssumption
  <2>3. Fits(s)
    BY <1>7, <2>2 DEF Fits
  <2>4. QED
    BY <1>1, <1>7, <2>3, StillKnown
<1>9. /\ Known' /\ Monitor' /\ Registered'
      /\ rq' \in [Requests -> Req] /\ lock' \in Requests \union {NoRequest}
  BY <1>1, <1>4, <1>7, <1>8, StepKeeps DEF drain, Inside
<1>10. undelivered' \in Seq(Undelivered)
  BY <1>1, <1>2, RemainingType DEF drain, n
<1>11. TypeOK'
  BY <1>1, <1>9, <1>10 DEF drain, TypeOK, Req, clientVars, sessionVars, sendVars, historyVars
<1>12. QED
  BY <1>9, <1>11 DEF ServletInv

LEMMA DrainFailsKeeps ==
    ASSUME ServletInv, NEW r \in Requests, drainPoison(r) \/ drainNullPointer(r)
    PROVE  ServletInv'
<1>1. /\ TypeOK /\ rq[r].pc = "drain" /\ rq[r].pc \in Inside
      /\ undelivered \in Seq(Undelivered) /\ pending \in [Consumers -> Seq(Messages)]
  BY DEF ServletInv, drainPoison, drainNullPointer, at, TypeOK, Inside
<1>2. CASE drainNullPointer(r)
  BY <1>1, <1>2, FailKeeps DEF drainNullPointer
<1>3. CASE drainPoison(r)
  <2>1. PICK i \in poisonAt(r) : /\ fail(r, {undelivered[j].msg : j \in 1..(i - 1)})
                                 /\ undelivered' = remaining(i - 1)
    BY <1>3 DEF drainPoison
  <2>2. i \in 1..Len(undelivered) /\ Len(undelivered) \in Nat
    BY <1>1, WrittenBounds DEF poisonAt
  <2>3. \A j \in 1..(i - 1) : undelivered[j].msg \in Messages
    <3>1. ASSUME NEW j \in 1..(i - 1) PROVE undelivered[j].msg \in Messages
      <4>1. j \in 1..Len(undelivered)
        BY <2>2
      <4>2. undelivered[j] \in Undelivered
        BY <1>1, <4>1
      <4>3. QED
        BY <4>2 DEF Undelivered
    <3>2. QED
      BY <3>1
  <2>4. undelivered' \in Seq(Undelivered)
    BY <1>1, <2>1, <2>2, RemainingType
  <2>5. {undelivered[j].msg : j \in 1..(i - 1)} \in SUBSET Messages
    BY <2>3
  <2>6. QED
    BY <1>1, <1>3, <2>1, <2>4, <2>5, FailKeeps DEF drainPoison
<1>4. QED
  BY <1>2, <1>3

LEMMA SweepKeeps ==
    ASSUME ServletInv, NEW r \in Requests, sweep(r)
    PROVE  ServletInv'
<1>1. /\ Known /\ TypeOK /\ rq[r] \in KnownReq /\ rq[r] \in Req
      /\ rq[r].pc = "sweep" /\ rq[r].pc \in Inside /\ Len(rq[r].resp) < maximumMessages
      /\ rq[r].resp \in Seq(Entry) /\ Len(rq[r].resp) \in Nat /\ undelivered \in Seq(Undelivered)
  <2>1. Known /\ TypeOK /\ rq[r] \in KnownReq /\ rq[r] \in Req
    BY RecordOf DEF ServletInv
  <2>2. rq[r].pc = "sweep" /\ Len(rq[r].resp) < maximumMessages
    BY DEF sweep, at
  <2>3. rq[r].resp \in Seq(Entry) /\ undelivered \in Seq(Undelivered)
    BY <2>1 DEF Req, TypeOK
  <2>4. QED
    BY <2>1, <2>2, <2>3 DEF Inside
<1>2. PICK c \in rq[r].visit :
          \/ /\ rq' = [rq EXCEPT ![r].visit = @ \ {c}]
             /\ UNCHANGED <<lock, clientVars, continuation, sessionVars, sendVars, posts, historyVars>>
          \/ /\ pending[c] # <<>>
             /\ rq' = [rq EXCEPT ![r].resp = Append(@, entry(Head(pending[c]), c))]
             /\ pending' = [pending EXCEPT ![c] = Tail(@)]
             /\ UNCHANGED <<lock, clientVars, continuation, dispatching, published, sendVars,
                            posts, historyVars>>
          \/ /\ pending[c] # <<>>
             /\ pending' = [pending EXCEPT ![c] = Tail(@)]
             /\ fail(r, {Head(pending[c])})
  BY DEF sweep
<1>3. c \in Consumers /\ undelivered' = undelivered
  BY <1>1 DEF Req, sweep
<1>4. CASE /\ rq' = [rq EXCEPT ![r].visit = @ \ {c}]
           /\ UNCHANGED <<lock, clientVars, continuation, sessionVars, sendVars, posts, historyVars>>
  <2> DEFINE v == rq[r].visit \ {c}
             s == [rq[r] EXCEPT !.visit = v]
  <2>1. v \in SUBSET Consumers
    BY <1>1 DEF Req
  <2>2. rq' = [rq EXCEPT ![r] = s]
    BY <1>4
  <2> HIDE DEF v
  <2>3. /\ s \in Req /\ s.pc = "sweep" /\ s.post = rq[r].post /\ s.next = rq[r].next
        /\ s.message = rq[r].message /\ s.consumer = rq[r].consumer /\ s.resp = rq[r].resp
    BY <1>1, <2>1 DEF Req
  <2> HIDE DEF s
  <2>4. s \in KnownReq
    BY <1>1, <2>3 DEF KnownReq, Fits, Posting
  <2>5. QED
    BY <1>1, <1>3, <1>4, <2>2, <2>3, <2>4, LocalStep DEF listenerVars
<1>5. CASE /\ pending[c] # <<>>
           /\ rq' = [rq EXCEPT ![r].resp = Append(@, entry(Head(pending[c]), c))]
           /\ pending' = [pending EXCEPT ![c] = Tail(@)]
           /\ UNCHANGED <<lock, clientVars, continuation, dispatching, published, sendVars,
                          posts, historyVars>>
  <2> DEFINE e == entry(Head(pending[c]), c)
             new == Append(rq[r].resp, e)
             s == [rq[r] EXCEPT !.resp = new]
  <2>1. Head(pending[c]) \in Messages /\ pending' \in [Consumers -> Seq(Messages)]
    BY <1>1, <1>3, <1>5, Receive
  <2>2. rq' = [rq EXCEPT ![r] = s]
    BY <1>5
  <2>3. e \in Entry
    BY <1>3, <2>1, EntryType
  <2> HIDE DEF e
  <2>4. new \in Seq(Entry) /\ Len(new) <= maximumMessages
    BY <1>1, <2>3, SizesAssumption
  <2> HIDE DEF new
  <2>5. /\ s \in Req /\ s.pc = "sweep" /\ s.post = rq[r].post /\ s.next = rq[r].next
        /\ s.message = rq[r].message /\ s.consumer = rq[r].consumer /\ s.resp = new
    BY <1>1, <2>4 DEF Req
  <2> HIDE DEF s
  <2>6. s \in KnownReq
    BY <1>1, <2>4, <2>5 DEF KnownReq, Fits, Posting
  <2>7. /\ Known' /\ Monitor' /\ Registered'
        /\ rq' \in [Requests -> Req] /\ lock' \in Requests \union {NoRequest}
    BY <1>1, <1>5, <2>2, <2>5, <2>6, StepKeeps
  <2>8. TypeOK'
    BY <1>1, <1>3, <1>5, <2>1, <2>7 DEF TypeOK, Req, clientVars, sendVars, historyVars
  <2>9. QED
    BY <2>7, <2>8 DEF ServletInv
<1>6. CASE /\ pending[c] # <<>>
           /\ pending' = [pending EXCEPT ![c] = Tail(@)]
           /\ fail(r, {Head(pending[c])})
  <2>1. Head(pending[c]) \in Messages /\ pending' \in [Consumers -> Seq(Messages)]
    BY <1>1, <1>3, <1>6, Receive
  <2>2. QED
    BY <1>1, <1>3, <1>6, <2>1, FailKeeps
<1>7. QED
  BY <1>2, <1>4, <1>5, <1>6

LEMMA AnswerKeeps ==
    ASSUME ServletInv, NEW r \in Requests, answer(r)
    PROVE  ServletInv'
<1>1. /\ TypeOK /\ rq[r].pc = "sweep" /\ rq' = [rq EXCEPT ![r] = Idle]
      /\ delivered \in Seq(Entry) /\ rq[r].resp \in Seq(Entry)
  BY RecordOf DEF ServletInv, answer, at, TypeOK, Req
<1>2. /\ Known' /\ Monitor' /\ Registered'
      /\ rq' \in [Requests -> Req] /\ lock' \in Requests \union {NoRequest}
  BY <1>1, KnownIdle, StepKeeps DEF answer, Inside
<1>3. delivered' \in Seq(Entry)
  BY <1>1 DEF answer
<1>4. TypeOK'
  BY <1>1, <1>2, <1>3 DEF answer, TypeOK, Req, clientVars, listenerVars, sessionVars, sendVars
<1>5. QED
  BY <1>2, <1>4 DEF ServletInv

-----------------------------------------------------------------------------
\* The consumers.  The request that works on them holds the monitor, so that
\* no other request is at "listen".
LEMMA CommandFacts ==
    ASSUME ServletInv, NEW r \in Requests, NEW type, command(r, type)
    PROVE  /\ rq[r].pc = "commands" /\ lock = r
           /\ \A q \in Requests : q # r => rq[q].pc \notin Inside
           /\ rq[r].body.cmds[rq[r].next].dest \in Dests
           /\ ~Listening
<1>1. /\ Known /\ Monitor /\ rq[r] \in KnownReq /\ rq[r] \in Req
      /\ rq[r].pc = "commands" /\ rq[r].next <= Len(rq[r].body.cmds)
  BY RecordOf DEF ServletInv, command, at
<1>2. lock = r /\ \A q \in Requests : q # r => rq[q].pc \notin Inside
  BY <1>1 DEF Monitor, Inside
<1>3. ~Listening
  BY <1>1, <1>2 DEF Listening, at, Inside
<1>4. rq[r].body.cmds \in Seq(Commands)
  <2>1. rq[r].body \in Bodies \/ rq[r].body = NoBody
    BY <1>1 DEF Req
  <2>2. NoBody.cmds = <<>>
    BY DEF NoBody
  <2>3. \A b \in Bodies : b.cmds \in Seq(Commands)
    BY BodiesAssumption
  <2>4. <<>> \in Seq(Commands)
    OBVIOUS
  <2>5. QED
    BY <2>1, <2>2, <2>3, <2>4
<1>5. rq[r].next \in 1..Len(rq[r].body.cmds)
  <2>1. rq[r].next \in Nat /\ rq[r].next # 0
    BY <1>1 DEF KnownReq, Req
  <2>2. QED
    BY <1>1, <1>4, <2>1
<1>6. rq[r].body.cmds[rq[r].next] \in Commands
  BY <1>4, <1>5
<1>7. QED
  BY <1>1, <1>2, <1>3, <1>6 DEF Commands

LEMMA ClosedType ==
    ASSUME TypeOK, NEW d \in Dests
    PROVE  closed(d) \in [Consumers -> Seq(Messages)]
<1>1. pending \in [Consumers -> Seq(Messages)] /\ <<>> \in Seq(Messages)
  BY DEF TypeOK
<1>2. QED
  BY <1>1 DEF closed

LEMMA ListenKeeps ==
    ASSUME ServletInv, NEW r \in Requests, listen(r)
    PROVE  ServletInv'
<1> DEFINE d == rq[r].body.cmds[rq[r].next].dest
           s == [rq[r] EXCEPT !.pc = "listen"]
<1>1. /\ TypeOK /\ Known /\ Monitor /\ Registered /\ rq[r] \in KnownReq
      /\ rq[r].pc = "commands" /\ lock = r /\ d \in Dests /\ ~Listening
  BY CommandFacts, RecordOf DEF ServletInv, listen
<1>2. rq' = [rq EXCEPT ![r] = s]
  BY DEF listen, goto
<1>3. s \in KnownReq /\ s.pc = "listen"
  <2>1. rq[r].post # 0 /\ rq[r].next # 0 /\ "listen" \in PC
    BY <1>1 DEF KnownReq, Posting, PC
  <2>2. QED
    BY <1>1, <2>1, GotoKnown
<1> HIDE DEF s
<1>4. /\ Known' /\ rq' \in [Requests -> Req]
      /\ rq'[r] = s /\ \A q \in Requests : q # r => rq'[q] = rq[q]
  BY <1>1, <1>2, <1>3, OneRequest
<1>5. Monitor'
  BY <1>1, <1>3, <1>4, MonitorKept DEF listen, Inside
<1>6. /\ created' = created + 1 /\ created' \in 1..MaxConsumers /\ created \in Nat
      /\ consumerOf' = [consumerOf EXCEPT ![d] = created + 1] /\ listening' = listening /\ idMap' = idMap
      /\ pending' \in [Consumers -> Seq(Messages)]
      /\ consumerOf \in [Dests -> Consumers \union {None}]
  <2>1. created \in 0..MaxConsumers /\ created < MaxConsumers /\ created' = created + 1
    BY <1>1 DEF listen, TypeOK
  <2>2. created' \in 1..MaxConsumers /\ created \in Nat
    BY <2>1, SizesAssumption
  <2>3. /\ consumerOf' = [consumerOf EXCEPT ![d] = created + 1]
        /\ listening' = listening /\ idMap' = idMap /\ pending' = closed(d)
    BY DEF listen
  <2>4. consumerOf \in [Dests -> Consumers \union {None}]
    BY <1>1 DEF TypeOK
  <2>5. QED
    BY <1>1, <2>1, <2>2, <2>3, <2>4, ClosedType
<1> HIDE DEF d
<1>7. Registered'
  <2>1. Listening'
    BY <1>3, <1>4 DEF Listening, at
  <2>2. ASSUME NEW e \in Dests PROVE consumerOf'[e] \in 0..created'
    BY <1>1, <1>6 DEF Registered
  <2>3. ASSUME NEW e \in Dests, NEW f \in Dests,
               consumerOf'[e] = consumerOf'[f], consumerOf'[e] # None
        PROVE  e = f
    <3>1. consumerOf[e] \in 0..created /\ consumerOf[f] \in 0..created
      BY <1>1 DEF Registered
    <3>2. QED
      BY <1>1, <1>6, <2>3, <3>1 DEF Registered
  <2>4. ASSUME NEW e \in Dests, consumerOf'[e] \notin {None} \union (listening' \intersect idMap')
        PROVE  consumerOf'[e] = created'
    <3>1. CASE e = d
      BY <1>1, <1>6, <3>1
    <3>2. CASE e # d
      BY <1>1, <1>6, <2>4, <3>2 DEF Registered
    <3>3. QED
      BY <3>1, <3>2
  <2>5. QED
    BY <1>6, <2>1, <2>2, <2>3, <2>4 DEF Registered
<1>8. consumerOf' \in [Dests -> Consumers \union {None}] /\ created' \in 0..MaxConsumers
  BY <1>1, <1>6 DEF Consumers
<1>9. TypeOK'
  BY <1>1, <1>4, <1>6, <1>8 DEF listen, TypeOK, Req, listenerVars, sendVars, historyVars
<1>10. QED
  BY <1>4, <1>5, <1>7, <1>9 DEF ServletInv

LEMMA SetListenerKeeps ==
    ASSUME ServletInv, NEW r \in Requests, setAvailableListener(r)
    PROVE  ServletInv'
<1>1. TypeOK /\ Known /\ Monitor /\ Registered /\ rq[r].pc = "listen"
  BY DEF ServletInv, setAvailableListener, at
<1>2. PICK s \in KnownReq : rq' = [rq EXCEPT ![r] = s] /\ s.pc = "commands"
  BY <1>1, NextCommandKnown DEF setAvailableListener
<1>3. /\ Known' /\ rq' \in [Requests -> Req]
      /\ rq'[r] = s /\ \A q \in Requests : q # r => rq'[q] = rq[q]
  BY <1>1, <1>2, OneRequest
<1>4. Monitor'
  BY <1>1, <1>2, <1>3, MonitorKept DEF setAvailableListener, Inside
<1>5. Listening /\ ~Listening'
  BY <1>1, <1>2, <1>3 DEF Listening, at, Monitor, Inside
<1>6. created \in Consumers
  BY <1>1, <1>5 DEF Registered, TypeOK, Consumers
<1>7. Registered'
  BY <1>1, <1>5 DEF Registered, setAvailableListener
<1>8. TypeOK'
  BY <1>1, <1>3, <1>6 DEF setAvailableListener, TypeOK, Req, listenerVars, sessionVars,
                          sendVars, historyVars
<1>9. QED
  BY <1>3, <1>4, <1>7, <1>8 DEF ServletInv

LEMMA CloseKeeps ==
    ASSUME ServletInv, NEW r \in Requests, listenFails(r) \/ unlisten(r)
    PROVE  ServletInv'
<1> DEFINE d == rq[r].body.cmds[rq[r].next].dest
<1>1. /\ TypeOK /\ Known /\ Monitor /\ Registered
      /\ rq[r].pc = "commands" /\ d \in Dests /\ ~Listening
  BY CommandFacts DEF ServletInv, listenFails, unlisten
<1>2. PICK s \in KnownReq : rq' = [rq EXCEPT ![r] = s] /\ s.pc = "commands"
  BY <1>1, NextCommandKnown DEF listenFails, unlisten
<1>3. /\ Known' /\ rq' \in [Requests -> Req]
      /\ rq'[r] = s /\ \A q \in Requests : q # r => rq'[q] = rq[q]
  BY <1>1, <1>2, OneRequest
<1>4. Monitor'
  BY <1>1, <1>2, <1>3, MonitorKept DEF listenFails, unlisten
<1>5. ~Listening'
  BY <1>1, <1>2, <1>3 DEF Listening, at
<1>6. /\ created' = created /\ consumerOf' = [consumerOf EXCEPT ![d] = None]
      /\ listening \ {consumerOf[d]} \subseteq listening' /\ listening' \subseteq listening
      /\ idMap \ {consumerOf[d]} \subseteq idMap' /\ idMap' \subseteq idMap
      /\ pending' \in [Consumers -> Seq(Messages)]
      /\ consumerOf \in [Dests -> Consumers \union {None}]
  <2>1. closed(d) \in [Consumers -> Seq(Messages)]
    BY <1>1, ClosedType
  <2>2. consumerOf \in [Dests -> Consumers \union {None}]
    BY <1>1 DEF TypeOK
  <2>3. CASE listenFails(r)
    BY <2>1, <2>2, <2>3 DEF listenFails
  <2>4. CASE unlisten(r)
    BY <2>1, <2>2, <2>4 DEF unlisten
  <2>5. QED
    BY <2>3, <2>4
<1> HIDE DEF d
<1>7. consumerOf' \in [Dests -> Consumers \union {None}]
  BY <1>1, <1>6
<1>8. Registered'
  <2>1. ASSUME NEW e \in Dests
        PROVE  /\ consumerOf'[e] \in 0..created'
               /\ consumerOf'[e] \in {None} \union (listening' \intersect idMap')
    <3>1. CASE e = d
      BY <1>1, <1>6, <3>1 DEF Registered, None, TypeOK
    <3>2. CASE e # d
      BY <1>1, <1>6, <3>2 DEF Registered
    <3>3. QED
      BY <3>1, <3>2
  <2>2. ASSUME NEW e \in Dests, NEW f \in Dests,
               consumerOf'[e] = consumerOf'[f], consumerOf'[e] # None
        PROVE  e = f
    BY <1>1, <1>6, <2>2 DEF Registered
  <2>3. QED
    BY <1>5, <2>1, <2>2 DEF Registered
<1>9. TypeOK'
  BY <1>1, <1>3, <1>6, <1>7 DEF listenFails, unlisten, TypeOK, Req, listenerVars, sendVars, historyVars
<1>10. QED
  BY <1>3, <1>4, <1>8, <1>9 DEF ServletInv

-----------------------------------------------------------------------------
LEMMA DispatchKeeps ==
    ASSUME ServletInv, NEW d \in Dests, dispatch(d)
    PROVE  ServletInv'
<1>1. TypeOK /\ Known /\ Monitor /\ Registered
  BY DEF ServletInv
<1>2. consumerOf[d] \in Consumers /\ published + 1 \in Messages /\ published' \in 0..MaxMessages
  BY <1>1, SizesAssumption DEF dispatch, TypeOK, Messages
<1>3. pending' \in [Consumers -> Seq(Messages)]
  <2>1. pending[consumerOf[d]] \in Seq(Messages) /\ pending \in [Consumers -> Seq(Messages)]
    BY <1>1, <1>2 DEF TypeOK
  <2>2. Append(pending[consumerOf[d]], published + 1) \in Seq(Messages)
    BY <1>2, <2>1
  <2>3. QED
    BY <2>1, <2>2 DEF dispatch
<1>4. dispatching' \in Consumers \union {None}
  BY <1>2 DEF dispatch
<1>5. TypeOK'
  BY <1>1, <1>2, <1>3, <1>4 DEF dispatch, TypeOK, clientVars, listenerVars, sendVars, historyVars
<1>6. Known' /\ Monitor' /\ Registered'
  BY <1>1 DEF dispatch, Known, Monitor, Registered, Listening, at, clientVars
<1>7. QED
  BY <1>5, <1>6 DEF ServletInv

LEMMA OnMessageKeeps ==
    ASSUME ServletInv, onMessageAvailable
    PROVE  ServletInv'
<1> DEFINE c == dispatching
<1>1. TypeOK /\ Known /\ Monitor /\ Registered /\ c \in Consumers /\ undelivered \in Seq(Undelivered)
  BY DEF ServletInv, onMessageAvailable, TypeOK
<1>2. /\ dispatching' = None
      /\ UNCHANGED <<lock, clientVars, continuation, published, sendVars, posts, historyVars>>
  BY DEF onMessageAvailable
<1>3. CASE UNCHANGED <<pending, undelivered, rq>>
  <2>1. TypeOK'
    BY <1>1, <1>2, <1>3 DEF TypeOK, clientVars, sendVars, historyVars
  <2>2. Known' /\ Monitor' /\ Registered'
    BY <1>1, <1>2, <1>3 DEF Known, Monitor, Registered, Listening, at, clientVars
  <2>3. QED
    BY <2>1, <2>2 DEF ServletInv
<1>4. CASE /\ pending[c] # <<>> /\ ~waits
           /\ pending' = [pending EXCEPT ![c] = Tail(@)]
           /\ undelivered' = Append(undelivered, [msg |-> Head(pending[c]), consumer |-> c])
           /\ UNCHANGED rq
  <2>1. Head(pending[c]) \in Messages /\ pending' \in [Consumers -> Seq(Messages)]
    BY <1>1, <1>4, Receive
  <2>2. [msg |-> Head(pending[c]), consumer |-> c] \in Undelivered
    BY <1>1, <2>1 DEF Undelivered
  <2>3. undelivered' \in Seq(Undelivered)
    BY <1>1, <1>4, <2>2
  <2>4. TypeOK'
    BY <1>1, <1>2, <1>4, <2>1, <2>3 DEF TypeOK, clientVars, sendVars, historyVars
  <2>5. Known' /\ Monitor' /\ Registered'
    BY <1>1, <1>2, <1>4 DEF Known, Monitor, Registered, Listening, at, clientVars
  <2>6. QED
    BY <2>4, <2>5 DEF ServletInv
<1>5. CASE /\ pending[c] # <<>> /\ waits
           /\ pending' = [pending EXCEPT ![c] = Tail(@)]
           /\ rq' = [rq EXCEPT ![continuation].pc = again(continuation),
                               ![continuation].message = Head(pending[c]),
                               ![continuation].consumer = c]
           /\ UNCHANGED undelivered
  <2> DEFINE r == continuation
             m == Head(pending[c])
             s == [rq[r] EXCEPT !.pc = again(r), !.message = m, !.consumer = c]
  <2>1. r \in Requests /\ rq[r].pc = "parked"
    BY <1>1, <1>5 DEF waits, at, TypeOK
  <2>2. m \in Messages /\ pending' \in [Consumers -> Seq(Messages)]
    BY <1>1, <1>5, Receive
  <2>3. rq[r] \in KnownReq /\ rq[r] \in Req
    BY <1>1, <2>1, RecordOf
  <2>4. rq' = [rq EXCEPT ![r] = s]
    BY <1>5
  <2>5. /\ again(r) \in {"doMessages", "doPost"} /\ again(r) \in PC
        /\ (again(r) = "doPost" => rq[r].post # 0)
    BY DEF again, PC
  <2> HIDE DEF m
  <2>6. /\ s \in Req /\ s.pc = again(r) /\ s.post = rq[r].post /\ s.next = rq[r].next
        /\ s.message = m /\ s.consumer = c /\ s.resp = rq[r].resp
    BY <1>1, <2>2, <2>3, <2>5 DEF Req
  <2> HIDE DEF s, r
  <2>7. s \in KnownReq
    BY <1>1, <2>1, <2>3, <2>5, <2>6 DEF KnownReq, Fits, Posting, Consumers, None
  <2>8. /\ Known' /\ Monitor' /\ Registered'
        /\ rq' \in [Requests -> Req] /\ lock' \in Requests \union {NoRequest}
    BY <1>1, <1>2, <2>1, <2>4, <2>5, <2>6, <2>7, StepKeeps DEF Inside
  <2>9. TypeOK'
    BY <1>1, <1>2, <1>5, <2>2, <2>8 DEF TypeOK, Req, clientVars, sendVars, historyVars
  <2>10. QED
    BY <2>8, <2>9 DEF ServletInv
<1>6. QED
  BY <1>3, <1>4, <1>5 DEF onMessageAvailable

-----------------------------------------------------------------------------
LEMMA ServletStep ==
    ASSUME ServletInv, [Next]_vars
    PROVE  ServletInv'
<1>1. ASSUME NEW r \in Requests, Enter(r) \/ Step(r) \/ expire(r)
      PROVE  ServletInv'
  BY <1>1, DoPostKeeps, DoMessagesKeeps, ListenKeeps, SetListenerKeeps, CloseKeeps, SendKeeps,
     UnknownTypeKeeps, CommandsDoneKeeps, ScanKeeps, AnswerEmptyKeeps, SuspendKeeps,
     SetContinuationKeeps, WriteMessageKeeps, DrainKeeps, DrainFailsKeeps, SweepKeeps,
     AnswerKeeps, ExpireKeeps DEF Enter, Step
<1>2. CASE UNCHANGED vars
  <2>1. /\ UNCHANGED <<lock, consumerOf, created, listening, idMap, undelivered, continuation>>
        /\ UNCHANGED <<pending, dispatching, published, sent, resent, posts, rq, delivered, lost, failed>>
    BY <1>2 DEF vars, clientVars, listenerVars, sessionVars, sendVars, historyVars
  <2>2. TypeOK'
    BY <2>1 DEF ServletInv, TypeOK
  <2>3. Known' /\ Monitor' /\ Registered'
    BY <2>1 DEF ServletInv, Known, Monitor, Registered, Listening, at
  <2>4. QED
    BY <2>2, <2>3 DEF ServletInv
<1>3. QED
  BY <1>1, <1>2, StartKeeps, DispatchKeeps, OnMessageKeeps DEF Next

LEMMA ServletInvariant == Spec => []ServletInv
<1>1. Init => ServletInv
  BY ServletInitially
<1>2. ServletInv /\ [Next]_vars => ServletInv'
  BY ServletStep
<1>3. QED
  BY <1>1, <1>2, PTL DEF Spec

\* The types of the servlet's state and of its requests' local variables
\* (MessageListenerServlet.java:119-428).
THEOREM ServletTypeOK == Spec => []TypeOK
BY ServletInvariant, PTL DEF ServletInv

\* What is done under the monitor of the client (lines 128 and 272) is done by
\* one request at a time.
THEOREM MonitorExcludes ==
    Spec => [](\A q, r \in Requests : rq[q].pc \in Inside /\ rq[r].pc \in Inside => q = r)
<1>1. ServletInv => \A q, r \in Requests : rq[q].pc \in Inside /\ rq[r].pc \in Inside => q = r
  BY DEF ServletInv, Monitor
<1>2. QED
  BY <1>1, ServletInvariant, PTL

\* Whenever the monitor is free, every open consumer has its listener and its
\* id, for any posts of any number of threads (lines 161-186).
THEOREM ConsumersRegistered == Spec => []ConsumersComplete
<1>1. ServletInv => ConsumersComplete
  <2> SUFFICES ASSUME ServletInv, lock = NoRequest
               PROVE  openConsumers \subseteq listening \intersect idMap
    BY DEF ConsumersComplete
  <2>1. ~Listening
    BY RequestsAssumption DEF ServletInv, Monitor, Listening, at, Inside
  <2>2. QED
    BY <2>1 DEF ServletInv, Registered, openConsumers
<1>2. QED
  BY <1>1, ServletInvariant, PTL

\* With a maximumMessages of two or more no response holds more (lines 362-420).
\* With one it may hold two: the loop over the buffer writes a message before
\* it looks at the count.
THEOREM ResponsesBounded ==
    ASSUME maximumMessages >= 2
    PROVE  Spec => []ResponseBound
<1>1. ServletInv => ResponseBound
  BY RecordOf DEF ServletInv, ResponseBound, KnownReq, Fits
<1>2. QED
  BY <1>1, ServletInvariant, PTL

-----------------------------------------------------------------------------
(***************************************************************************)
(* What becomes of the messages.                                           *)
(*                                                                         *)
(* A message is held by the responses given, by the buffer of the          *)
(* listener, by a consumer, or by one request.  HeldInv says that no two   *)
(* of these hold the same message and that none holds one twice; a step    *)
(* moves messages from one to another, drops them, or dispatches a new one.*)
(***************************************************************************)
elements(s) == {s[i] : i \in DOMAIN s}
single(s) == \A i, j \in DOMAIN s : s[i] = s[j] => i = j
once(s) == \A i, j \in DOMAIN s : s[i].msg = s[j].msg => i = j

inConsumer(c) == elements(pending[c])
writes(r) == rq[r].pc \in {"drain", "sweep"}
inRequest(r) == IF writes(r) THEN messagesIn(rq[r].resp) ELSE {rq[r].message} \ {None}
inBuffer == messagesIn(undelivered)
inPage == messagesIn(delivered)

Once ==
    /\ once(delivered) /\ once(undelivered)
    /\ \A c \in Consumers : single(pending[c])
    /\ \A r \in Requests : writes(r) => once(rq[r].resp)

Apart ==
    /\ inPage \intersect inBuffer = {}
    /\ \A c \in Consumers : inConsumer(c) \intersect (inPage \union inBuffer) = {}
    /\ \A r \in Requests : inRequest(r) \intersect (inPage \union inBuffer) = {}
    /\ \A c \in Consumers, r \in Requests : inConsumer(c) \intersect inRequest(r) = {}
    /\ \A c, d \in Consumers : c # d => inConsumer(c) \intersect inConsumer(d) = {}
    /\ \A q, r \in Requests : q # r => inRequest(q) \intersect inRequest(r) = {}

Dispatched ==
    /\ inPage \union inBuffer \union lost \subseteq 1..published
    /\ \A c \in Consumers : inConsumer(c) \subseteq 1..published
    /\ \A r \in Requests : inRequest(r) \subseteq 1..published

HeldInv == Once /\ Apart /\ Dispatched

\* A step that loses no message: what is somewhere is somewhere afterwards.
somewhere(m) ==
    \/ m \in inPage \/ m \in inBuffer \/ m \in lost
    \/ \E r \in Requests : m \in inRequest(r)
    \/ \E c \in Consumers : m \in inConsumer(c)

Passed == \A m : somewhere(m) => somewhere(m)'

-----------------------------------------------------------------------------
(***************************************************************************)
(* Sequences of messages, and of records that hold one.                    *)
(***************************************************************************)
LEMMA TakeHead ==
    ASSUME NEW S, NEW s \in Seq(S), s # <<>>, single(s)
    PROVE  /\ Head(s) \in elements(s) /\ single(Tail(s))
           /\ elements(Tail(s)) = elements(s) \ {Head(s)}
<1> DEFINE n == Len(s)
           t == Tail(s)
<1>1. n \in Nat /\ n >= 1 /\ DOMAIN s = 1..n /\ Head(s) = s[1]
  OBVIOUS
<1>2. DOMAIN t = 1..(n - 1) /\ \A i \in 1..(n - 1) : t[i] = s[i + 1]
  OBVIOUS
<1> HIDE DEF n, t
<1>3. \A i \in 1..(n - 1) : i + 1 \in 1..n /\ i + 1 # 1
  BY <1>1
<1>4. \A i \in 1..n : i # 1 => i - 1 \in 1..(n - 1) /\ (i - 1) + 1 = i
  BY <1>1
<1>5. 1 \in 1..n
  BY <1>1
<1>6. single(t)
  <2>1. SUFFICES ASSUME NEW i \in 1..(n - 1), NEW j \in 1..(n - 1), t[i] = t[j] PROVE i = j
    BY <1>2 DEF single
  <2>2. i + 1 \in DOMAIN s /\ j + 1 \in DOMAIN s /\ s[i + 1] = s[j + 1]
    BY <1>1, <1>2, <1>3, <2>1
  <2>3. i + 1 = j + 1
    BY <2>2 DEF single
  <2>4. QED
    BY <2>3
<1>7. elements(t) = elements(s) \ {Head(s)}
  <2>1. ASSUME NEW x \in elements(t) PROVE x \in elements(s) \ {Head(s)}
    <3>1. PICK i \in 1..(n - 1) : x = s[i + 1]
      BY <1>2 DEF elements
    <3>2. QED
      BY <1>1, <1>3, <1>5, <3>1 DEF elements, single
  <2>2. ASSUME NEW x \in elements(s) \ {Head(s)} PROVE x \in elements(t)
    <3>1. PICK i \in 1..n : x = s[i] /\ i # 1
      BY <1>1, <2>2 DEF elements
    <3>2. i - 1 \in 1..(n - 1) /\ t[i - 1] = s[(i - 1) + 1] /\ (i - 1) + 1 = i
      BY <1>2, <1>4, <3>1
    <3>3. t[i - 1] = x
      BY <3>1, <3>2
    <3>4. QED
      BY <1>2, <3>2, <3>3 DEF elements
  <2>3. QED
    BY <2>1, <2>2
<1>8. QED
  BY <1>1, <1>5, <1>6, <1>7 DEF elements, t

LEMMA PutLast ==
    ASSUME NEW S, NEW s \in Seq(S), NEW x \in S, x \notin elements(s), single(s)
    PROVE  single(Append(s, x)) /\ elements(Append(s, x)) = elements(s) \union {x}
<1> DEFINE n == Len(s)
           t == Append(s, x)
<1>1. n \in Nat /\ DOMAIN s = 1..n /\ DOMAIN t = 1..(n + 1)
      /\ t[n + 1] = x /\ \A i \in 1..n : t[i] = s[i]
  OBVIOUS
<1>2. 1..(n + 1) = 1..n \union {n + 1} /\ n + 1 \notin 1..n
  BY <1>1
<1> HIDE DEF n, t
<1>3. QED
  BY <1>1, <1>2 DEF single, elements, t

LEMMA ConcatOnce ==
    ASSUME NEW S, NEW s \in Seq(S), NEW t \in Seq(S), once(s), once(t),
           messagesIn(s) \intersect messagesIn(t) = {}
    PROVE  once(s \o t) /\ messagesIn(s \o t) = messagesIn(s) \union messagesIn(t)
<1> DEFINE m == Len(s)
           n == Len(t)
           u == s \o t
<1>1. m \in Nat /\ n \in Nat /\ DOMAIN s = 1..m /\ DOMAIN t = 1..n
  OBVIOUS
<1>2. Len(u) = m + n /\ u \in Seq(S)
      /\ \A i \in 1..(m + n) : u[i] = IF i <= m THEN s[i] ELSE t[i - m]
  BY ConcatProperties
<1>3. DOMAIN u = 1..(m + n)
  BY <1>2
<1> HIDE DEF m, n, u
<1>4. \A i \in 1..(m + n) :
         \/ i \in 1..m /\ u[i] = s[i]
         \/ i - m \in 1..n /\ i = (i - m) + m /\ u[i] = t[i - m]
  BY <1>1, <1>2
<1>5. \A i \in 1..m : i \in 1..(m + n) /\ u[i] = s[i]
  BY <1>1, <1>2
<1>6. \A j \in 1..n : j + m \in 1..(m + n) /\ u[j + m] = t[j]
  <2>1. SUFFICES ASSUME NEW j \in 1..n PROVE j + m \in 1..(m + n) /\ u[j + m] = t[j]
    OBVIOUS
  <2>2. j + m \in 1..(m + n) /\ ~(j + m <= m) /\ (j + m) - m = j
    BY <1>1
  <2>3. QED
    BY <1>2, <2>2
<1>7. messagesIn(u) = messagesIn(s) \union messagesIn(t)
  <2>1. messagesIn(u) \subseteq messagesIn(s) \union messagesIn(t)
    BY <1>1, <1>3, <1>4 DEF messagesIn
  <2>2. messagesIn(s) \union messagesIn(t) \subseteq messagesIn(u)
    <3>1. \A i \in DOMAIN s : i \in DOMAIN u /\ u[i].msg = s[i].msg
      BY <1>1, <1>3, <1>5
    <3>2. \A j \in DOMAIN t : j + m \in DOMAIN u /\ u[j + m].msg = t[j].msg
      BY <1>1, <1>3, <1>6
    <3>3. QED
      BY <3>1, <3>2 DEF messagesIn
  <2>3. QED
    BY <2>1, <2>2
<1>8. once(u)
  <2>1. SUFFICES ASSUME NEW i \in 1..(m + n), NEW j \in 1..(m + n), u[i].msg = u[j].msg
                 PROVE  i = j
    BY <1>3 DEF once
  <2>2. CASE i \in 1..m /\ u[i] = s[i]
    <3>1. CASE j \in 1..m /\ u[j] = s[j]
      BY <1>1, <2>1, <2>2, <3>1 DEF once
    <3>2. CASE j - m \in 1..n /\ u[j] = t[j - m]
      BY <1>1, <2>1, <2>2, <3>2 DEF messagesIn
    <3>3. QED
      BY <1>4, <3>1, <3>2
  <2>3. CASE i - m \in 1..n /\ i = (i - m) + m /\ u[i] = t[i - m]
    <3>1. CASE j \in 1..m /\ u[j] = s[j]
      BY <1>1, <2>1, <2>3, <3>1 DEF messagesIn
    <3>2. CASE j - m \in 1..n /\ j = (j - m) + m /\ u[j] = t[j - m]
      <4>1. i - m = j - m
        BY <1>1, <2>1, <2>3, <3>2 DEF once
      <4>2. QED
        BY <2>3, <3>2, <4>1
    <3>3. QED
      BY <1>4, <3>1, <3>2
  <2>4. QED
    BY <1>4, <2>2, <2>3
<1>9. QED
  BY <1>7, <1>8 DEF u

LEMMA OneMessage ==
    ASSUME NEW e
    PROVE  once(<<e>>) /\ messagesIn(<<e>>) = {e.msg} /\ once(<<>>) /\ messagesIn(<<>>) = {}
<1>1. DOMAIN <<e>> = {1} /\ <<e>>[1] = e /\ DOMAIN <<>> = {}
  OBVIOUS
<1>2. QED
  BY <1>1 DEF once, messagesIn

LEMMA AppendOnce ==
    ASSUME NEW S, NEW s \in Seq(S), NEW e \in S, once(s), e.msg \notin messagesIn(s)
    PROVE  once(Append(s, e)) /\ messagesIn(Append(s, e)) = messagesIn(s) \union {e.msg}
<1> DEFINE t == <<e>>
<1>1. t \in Seq(S) /\ Append(s, e) = s \o t
  OBVIOUS
<1>2. once(t) /\ messagesIn(t) = {e.msg}
  BY OneMessage
<1> HIDE DEF t
<1>3. messagesIn(s) \intersect messagesIn(t) = {}
  BY <1>2
<1>4. once(s \o t) /\ messagesIn(s \o t) = messagesIn(s) \union messagesIn(t)
  BY <1>1, <1>2, <1>3, ConcatOnce
<1>5. QED
  BY <1>1, <1>2, <1>4

\* The first messages of the buffer, as a response takes them, and the rest.
LEMMA BufferSplit ==
    ASSUME TypeOK, once(undelivered), NEW n \in Nat, n <= Len(undelivered)
    PROVE  LET first == {undelivered[i].msg : i \in 1..n} IN
           /\ once(remaining(n))
           /\ inBuffer = first \union messagesIn(remaining(n))
           /\ first \intersect messagesIn(remaining(n)) = {}
           /\ \A i \in 1..n : i \in DOMAIN undelivered
<1> DEFINE u == undelivered
           m == Len(u)
           t == remaining(n)
           first == {u[i].msg : i \in 1..n}
<1>1. u \in Seq(Undelivered) /\ m \in Nat /\ DOMAIN u = 1..m /\ n <= m
  BY DEF TypeOK
<1>2. \A j \in (n + 1)..m : u[j] \in Undelivered
  BY <1>1
<1>3. /\ t \in Seq(Undelivered) /\ Len(t) = m - n
      /\ \A i \in 1..(m - n) : t[i] = u[n + i]
  <2>1. /\ t = SubSeq(u, n + 1, m) /\ n + 1 \in Int /\ n + 1 <= m + 1 /\ n + 1 \in 1..(m + 1)
    BY <1>1 DEF remaining
  <2>2. /\ t \in Seq(Undelivered) /\ Len(t) = IF n + 1 <= m THEN m - (n + 1) + 1 ELSE 0
        /\ \A i \in 1..(m - (n + 1) + 1) : t[i] = u[(n + 1) + i - 1]
    BY <1>1, <1>2, <2>1, SubSeqProperties
  <2>3. m - (n + 1) + 1 = m - n /\ (n + 1 <= m \/ m - n = 0)
    <3>1. \A k, l \in Nat : k <= l => l - (k + 1) + 1 = l - k /\ (k + 1 <= l \/ l - k = 0)
      OBVIOUS
    <3>2. QED
      BY <1>1, <3>1
  <2>4. \A i \in 1..(m - n) : (n + 1) + i - 1 = n + i
    BY <1>1
  <2>5. QED
    BY <2>2, <2>3, <2>4
<1>4. DOMAIN t = 1..(m - n)
  BY <1>1, <1>3
<1> HIDE DEF u, m, t
<1>5. \A i \in 1..(m - n) : n + i \in 1..m /\ n + i \notin 1..n
  BY <1>1
<1>6. \A i \in 1..m : i \in 1..n \/ (i - n \in 1..(m - n) /\ n + (i - n) = i)
  BY <1>1
<1>7. \A i \in 1..n : i \in 1..m
  BY <1>1
<1>8. once(u)
  BY DEF u
<1>9. once(t)
  <2>1. SUFFICES ASSUME NEW i \in 1..(m - n), NEW j \in 1..(m - n), t[i].msg = t[j].msg
                 PROVE  i = j
    BY <1>4 DEF once
  <2>2. n + i \in DOMAIN u /\ n + j \in DOMAIN u /\ u[n + i].msg = u[n + j].msg
    BY <1>1, <1>3, <1>5, <2>1
  <2>3. n + i = n + j
    BY <1>8, <2>2 DEF once
  <2>4. QED
    BY <2>3
<1>10. messagesIn(u) = first \union messagesIn(t)
  <2>1. ASSUME NEW x \in messagesIn(u) PROVE x \in first \union messagesIn(t)
    <3>1. PICK i \in 1..m : x = u[i].msg
      BY <1>1, <2>1 DEF messagesIn
    <3>2. CASE i \in 1..n
      BY <3>1, <3>2 DEF u
    <3>3. CASE i - n \in 1..(m - n) /\ n + (i - n) = i
      <4>1. t[i - n] = u[i] /\ i - n \in DOMAIN t
        BY <1>3, <1>4, <3>3
      <4>2. QED
        BY <3>1, <4>1 DEF messagesIn
    <3>4. QED
      BY <1>6, <3>2, <3>3
  <2>2. ASSUME NEW x \in messagesIn(t) PROVE x \in messagesIn(u)
    <3>1. PICK i \in 1..(m - n) : x = t[i].msg
      BY <1>4, <2>2 DEF messagesIn
    <3>2. n + i \in DOMAIN u /\ u[n + i].msg = x
      BY <1>1, <1>3, <1>5, <3>1
    <3>3. QED
      BY <3>2 DEF messagesIn
  <2>3. first \subseteq messagesIn(u)
    BY <1>1, <1>7 DEF messagesIn, u
  <2>4. QED
    BY <2>1, <2>2, <2>3
<1>11. first \intersect messagesIn(t) = {}
  <2>1. SUFFICES ASSUME NEW i \in 1..n, NEW j \in 1..(m - n), u[i].msg = t[j].msg PROVE FALSE
    BY <1>4 DEF messagesIn, u
  <2>2. i \in DOMAIN u /\ n + j \in DOMAIN u /\ u[i].msg = u[n + j].msg
    BY <1>1, <1>3, <1>5, <1>7, <2>1
  <2>3. i = n + j
    BY <1>8, <2>2 DEF once
  <2>4. QED
    BY <1>5, <2>3
<1>12. QED
  BY <1>1, <1>7, <1>9, <1>10, <1>11 DEF inBuffer, u, t

-----------------------------------------------------------------------------
(***************************************************************************)
(* A step moves the messages of a set X, if any, to one holder.            *)
(***************************************************************************)
LEMMA ToRequest ==
    ASSUME Apart, NEW X, NEW r \in Requests,
           inPage' \subseteq inPage \ X, inBuffer' \subseteq inBuffer \ X,
           \A c \in Consumers : inConsumer(c)' \subseteq inConsumer(c) \ X,
           \A q \in Requests : q # r => inRequest(q)' \subseteq inRequest(q) \ X,
           inRequest(r)' \subseteq inRequest(r) \union X
    PROVE  Apart'
<1>1. inPage' \intersect inBuffer' = {}
  BY DEF Apart
<1>2. \A c \in Consumers : inConsumer(c)' \intersect (inPage' \union inBuffer') = {}
  BY DEF Apart
<1>3. \A q \in Requests : inRequest(q)' \intersect (inPage' \union inBuffer') = {}
  BY DEF Apart
<1>4. \A c \in Consumers, q \in Requests : inConsumer(c)' \intersect inRequest(q)' = {}
  BY DEF Apart
<1>5. \A c, d \in Consumers : c # d => inConsumer(c)' \intersect inConsumer(d)' = {}
  BY DEF Apart
<1>6. \A q, p \in Requests : q # p => inRequest(q)' \intersect inRequest(p)' = {}
  BY DEF Apart
<1>7. QED
  BY <1>1, <1>2, <1>3, <1>4, <1>5, <1>6 DEF Apart

LEMMA ToBuffer ==
    ASSUME Apart, NEW X,
           inPage' \subseteq inPage \ X, inBuffer' \subseteq inBuffer \union X,
           \A c \in Consumers : inConsumer(c)' \subseteq inConsumer(c) \ X,
           \A q \in Requests : inRequest(q)' \subseteq inRequest(q) \ X
    PROVE  Apart'
<1>1. inPage' \intersect inBuffer' = {}
  BY DEF Apart
<1>2. \A c \in Consumers : inConsumer(c)' \intersect (inPage' \union inBuffer') = {}
  BY DEF Apart
<1>3. \A q \in Requests : inRequest(q)' \intersect (inPage' \union inBuffer') = {}
  BY DEF Apart
<1>4. \A c \in Consumers, q \in Requests : inConsumer(c)' \intersect inRequest(q)' = {}
  BY DEF Apart
<1>5. \A c, d \in Consumers : c # d => inConsumer(c)' \intersect inConsumer(d)' = {}
  BY DEF Apart
<1>6. \A q, p \in Requests : q # p => inRequest(q)' \intersect inRequest(p)' = {}
  BY DEF Apart
<1>7. QED
  BY <1>1, <1>2, <1>3, <1>4, <1>5, <1>6 DEF Apart

LEMMA ToPage ==
    ASSUME Apart, NEW X,
           inPage' \subseteq inPage \union X, inBuffer' \subseteq inBuffer \ X,
           \A c \in Consumers : inConsumer(c)' \subseteq inConsumer(c) \ X,
           \A q \in Requests : inRequest(q)' \subseteq inRequest(q) \ X
    PROVE  Apart'
<1>1. inPage' \intersect inBuffer' = {}
  BY DEF Apart
<1>2. \A c \in Consumers : inConsumer(c)' \intersect (inPage' \union inBuffer') = {}
  BY DEF Apart
<1>3. \A q \in Requests : inRequest(q)' \intersect (inPage' \union inBuffer') = {}
  BY DEF Apart
<1>4. \A c \in Consumers, q \in Requests : inConsumer(c)' \intersect inRequest(q)' = {}
  BY DEF Apart
<1>5. \A c, d \in Consumers : c # d => inConsumer(c)' \intersect inConsumer(d)' = {}
  BY DEF Apart
<1>6. \A q, p \in Requests : q # p => inRequest(q)' \intersect inRequest(p)' = {}
  BY DEF Apart
<1>7. QED
  BY <1>1, <1>2, <1>3, <1>4, <1>5, <1>6 DEF Apart

LEMMA ToConsumer ==
    ASSUME Apart, NEW X, NEW a \in Consumers,
           inPage' \subseteq inPage \ X, inBuffer' \subseteq inBuffer \ X,
           \A c \in Consumers : c # a => inConsumer(c)' \subseteq inConsumer(c) \ X,
           inConsumer(a)' \subseteq inConsumer(a) \union X,
           \A q \in Requests : inRequest(q)' \subseteq inRequest(q) \ X
    PROVE  Apart'
<1>1. inPage' \intersect inBuffer' = {}
  BY DEF Apart
<1>2. \A c \in Consumers : inConsumer(c)' \intersect (inPage' \union inBuffer') = {}
  BY DEF Apart
<1>3. \A q \in Requests : inRequest(q)' \intersect (inPage' \union inBuffer') = {}
  BY DEF Apart
<1>4. \A c \in Consumers, q \in Requests : inConsumer(c)' \intersect inRequest(q)' = {}
  BY DEF Apart
<1>5. \A c, d \in Consumers : c # d => inConsumer(c)' \intersect inConsumer(d)' = {}
  BY DEF Apart
<1>6. \A q, p \in Requests : q # p => inRequest(q)' \intersect inRequest(p)' = {}
  BY DEF Apart
<1>7. QED
  BY <1>1, <1>2, <1>3, <1>4, <1>5, <1>6 DEF Apart

-----------------------------------------------------------------------------
(***************************************************************************)
(* Steps that move no message, but may drop some.                          *)
(***************************************************************************)
LEMMA RequestStep ==
    ASSUME Known, NEW r \in Requests, NEW s, rq' = [rq EXCEPT ![r] = s]
    PROVE  /\ rq'[r] = s /\ (writes(r)' <=> s.pc \in {"drain", "sweep"})
           /\ inRequest(r)' = IF s.pc \in {"drain", "sweep"} THEN messagesIn(s.resp)
                              ELSE {s.message} \ {None}
           /\ \A q \in Requests : q # r =>
                 /\ rq'[q] = rq[q] /\ (writes(q)' <=> writes(q))
                 /\ inRequest(q)' = inRequest(q)
<1>1. rq'[r] = s /\ \A q \in Requests : q # r => rq'[q] = rq[q]
  BY DEF Known
<1>2. QED
  BY <1>1 DEF writes, inRequest

\* A step of one request that takes a set X of messages, if any, from the buffer
\* or from a consumer.
LEMMA RequestPasses ==
    ASSUME Known, NEW r \in Requests, NEW s, rq' = [rq EXCEPT ![r] = s], NEW X,
           inPage \subseteq inPage', lost \subseteq lost', inBuffer \subseteq inBuffer' \union X,
           \A c \in Consumers : inConsumer(c) \subseteq inConsumer(c)' \union X,
           inRequest(r) \union X \subseteq inRequest(r)' \union lost' \union inPage'
    PROVE  Passed
<1>1. \A q \in Requests : q # r => inRequest(q)' = inRequest(q)
  BY RequestStep
<1>2. SUFFICES ASSUME NEW m, somewhere(m) PROVE somewhere(m)'
  BY DEF Passed
<1>3. CASE m \in inRequest(r) \union X
  BY <1>3 DEF somewhere
<1>4. CASE m \notin inRequest(r) \union X
  BY <1>1, <1>2, <1>4 DEF somewhere
<1>5. QED
  BY <1>3, <1>4

LEMMA ConsumerStays ==
    ASSUME Once, NEW c \in Consumers, pending'[c] = pending[c] \/ pending'[c] = <<>>
    PROVE  single(pending[c])' /\ inConsumer(c)' \subseteq inConsumer(c)
<1>1. DOMAIN <<>> = {}
  OBVIOUS
<1>2. QED
  BY <1>1 DEF Once, single, inConsumer, elements

LEMMA SameHeld ==
    ASSUME HeldInv, UNCHANGED <<delivered, undelivered>>
    PROVE  /\ inPage' = inPage /\ inBuffer' = inBuffer
           /\ once(delivered)' /\ once(undelivered)'
BY DEF HeldInv, Once, inPage, inBuffer, once

\* What a request carries on with: nothing, its message, or its response.
carries(r, s) ==
    \/ s.pc \notin {"drain", "sweep"} /\ s.message = None
    \/ s.pc \notin {"drain", "sweep"} /\ ~writes(r) /\ s.message = rq[r].message
    \/ s.pc \in {"drain", "sweep"} /\ writes(r) /\ s.resp = rq[r].resp

LEMMA Carried ==
    ASSUME Known, Once, NEW r \in Requests, NEW s, rq' = [rq EXCEPT ![r] = s],
           carries(r, s)
    PROVE  /\ \A q \in Requests : inRequest(q)' \subseteq inRequest(q)
           /\ \A q \in Requests : writes(q)' => once(rq[q].resp)'
<1>1. /\ rq'[r] = s /\ (writes(r)' <=> s.pc \in {"drain", "sweep"})
      /\ inRequest(r)' = IF s.pc \in {"drain", "sweep"} THEN messagesIn(s.resp)
                         ELSE {s.message} \ {None}
      /\ \A q \in Requests : q # r =>
            /\ rq'[q] = rq[q] /\ (writes(q)' <=> writes(q))
            /\ inRequest(q)' = inRequest(q)
  BY RequestStep
<1>2. inRequest(r)' \subseteq inRequest(r)
  BY <1>1 DEF carries, inRequest
<1>3. \A q \in Requests : writes(q)' => once(rq'[q].resp)
  BY <1>1 DEF carries, Once
<1>4. QED
  BY <1>1, <1>2, <1>3 DEF once

LEMMA Drops ==
    ASSUME HeldInv, Known, NEW r \in Requests, NEW s, rq' = [rq EXCEPT ![r] = s],
           carries(r, s), UNCHANGED <<delivered, published>>,
           once(undelivered)', inBuffer' \subseteq inBuffer,
           \A c \in Consumers : single(pending[c])' /\ inConsumer(c)' \subseteq inConsumer(c),
           lost' \subseteq 1..published
    PROVE  HeldInv'
<1>1. Once /\ Apart /\ Dispatched
  BY DEF HeldInv
<1>2. inPage' = inPage /\ once(delivered)'
  BY <1>1 DEF Once, inPage, once
<1>3. /\ \A q \in Requests : inRequest(q)' \subseteq inRequest(q)
      /\ \A q \in Requests : writes(q)' => once(rq[q].resp)'
  BY <1>1, Carried
<1>4. Once'
  BY <1>2, <1>3 DEF Once
<1>5. Apart'
  <2>1. /\ inPage' \subseteq inPage \union {} /\ inBuffer' \subseteq inBuffer \ {}
        /\ \A c \in Consumers : inConsumer(c)' \subseteq inConsumer(c) \ {}
        /\ \A q \in Requests : inRequest(q)' \subseteq inRequest(q) \ {}
    BY <1>2, <1>3
  <2>2. QED
    BY <1>1, <2>1, ToPage
<1>6. Dispatched'
  BY <1>1, <1>2, <1>3 DEF Dispatched
<1>7. QED
  BY <1>4, <1>5, <1>6 DEF HeldInv

LEMMA Stays ==
    ASSUME HeldInv, Known, NEW r \in Requests, NEW s, rq' = [rq EXCEPT ![r] = s],
           carries(r, s), UNCHANGED <<delivered, undelivered, published>>,
           \A c \in Consumers : pending'[c] = pending[c] \/ pending'[c] = <<>>,
           lost' \subseteq 1..published
    PROVE  HeldInv'
<1>1. \A c \in Consumers : single(pending[c])' /\ inConsumer(c)' \subseteq inConsumer(c)
  BY ConsumerStays DEF HeldInv
<1>2. QED
  BY <1>1, SameHeld, Drops

LEMMA StaysPasses ==
    ASSUME Known, NEW r \in Requests, NEW s, rq' = [rq EXCEPT ![r] = s],
           UNCHANGED <<delivered, undelivered, pending, lost>>,
           \/ s.pc \notin {"drain", "sweep"} /\ ~writes(r) /\ s.message = rq[r].message
           \/ s.pc \in {"drain", "sweep"} /\ writes(r) /\ s.resp = rq[r].resp
    PROVE  Passed
<1>1. inRequest(r)' = IF s.pc \in {"drain", "sweep"} THEN messagesIn(s.resp)
                      ELSE {s.message} \ {None}
  BY RequestStep
<1>2. inRequest(r)' = inRequest(r)
  BY <1>1 DEF inRequest
<1>3. /\ inPage' = inPage /\ inBuffer' = inBuffer
      /\ \A c \in Consumers : inConsumer(c)' = inConsumer(c)
  BY DEF inPage, inBuffer, inConsumer
<1>4. /\ inPage \subseteq inPage' /\ lost \subseteq lost' /\ inBuffer \subseteq inBuffer' \union {}
      /\ \A c \in Consumers : inConsumer(c) \subseteq inConsumer(c)' \union {}
      /\ inRequest(r) \union {} \subseteq inRequest(r)' \union lost' \union inPage'
  BY <1>2, <1>3
<1>5. QED
  BY <1>4, RequestPasses

LEMMA LostStays ==
    ASSUME HeldInv, UNCHANGED <<lost, published>>
    PROVE  lost' \subseteq 1..published
BY DEF HeldInv, Dispatched

\* A request that has just come in, or goes back to waiting, carries nothing.
LEMMA NewCarries ==
    ASSUME NEW r, NEW pc \in PC \ {"drain", "sweep"}, NEW b, NEW n
    PROVE  carries(r, request(pc, b, n))
BY DEF carries, request

LEMMA IdleCarries ==
    ASSUME NEW r
    PROVE  carries(r, Idle)
BY NewCarries DEF Idle, PC

LEMMA StepsHold ==
    ASSUME ServletInv, HeldInv, NEW r \in Requests,
           \/ startGet(r) \/ \E b \in Bodies : startPost(r, b)
           \/ doPost(r) \/ setAvailableListener(r) \/ send(r) \/ unknownType(r)
           \/ commandsDone(r) \/ sendBody(r) \/ doMessages(r) \/ answerEmpty(r)
           \/ suspend(r) \/ setContinuation(r) \/ expire(r)
    PROVE  HeldInv'
<1>1. Known /\ rq[r] \in Req
  BY RecordOf DEF ServletInv
<1>2. UNCHANGED <<delivered, undelivered, published, pending, lost>>
  BY DEF startGet, startPost, doPost, setAvailableListener, send, unknownType, commandsDone,
         sendBody, doMessages, answerEmpty, suspend, setContinuation, expire,
         listenerVars, sessionVars, historyVars
<1>3. \E s : rq' = [rq EXCEPT ![r] = s] /\ carries(r, s)
  <2>1. CASE startGet(r)
    BY <2>1, NewCarries DEF startGet, PC
  <2>2. ASSUME NEW b \in Bodies, startPost(r, b)
        PROVE  \E s : rq' = [rq EXCEPT ![r] = s] /\ carries(r, s)
    BY <2>2, NewCarries DEF startPost, PC
  <2>3. CASE doPost(r)
    <3>1. rq' = [rq EXCEPT ![r] = [rq[r] EXCEPT !.pc = "commands", !.next = 1]]
          /\ rq[r].pc = "doPost"
      BY <2>3 DEF doPost, at
    <3>2. carries(r, [rq[r] EXCEPT !.pc = "commands", !.next = 1])
      BY <1>1, <3>1 DEF carries, writes, Req
    <3>3. QED
      BY <3>1, <3>2
  <2>4. CASE setAvailableListener(r) \/ send(r) \/ unknownType(r)
    <3>1. rq' = [rq EXCEPT ![r] = [rq[r] EXCEPT !.pc = "commands", !.next = rq[r].next + 1]]
          /\ rq[r].pc \in {"commands", "listen"}
      BY <2>4 DEF setAvailableListener, send, unknownType, nextCommand, command, at
    <3>2. carries(r, [rq[r] EXCEPT !.pc = "commands", !.next = rq[r].next + 1])
      BY <1>1, <3>1 DEF carries, writes, Req
    <3>3. QED
      BY <3>1, <3>2
  <2>5. ASSUME NEW label \in PC \ {"drain", "sweep"}, goto(r, label), ~writes(r)
        PROVE  \E s : rq' = [rq EXCEPT ![r] = s] /\ carries(r, s)
    <3>1. carries(r, [rq[r] EXCEPT !.pc = label])
      BY <1>1, <2>5 DEF carries, writes, Req
    <3>2. QED
      BY <2>5, <3>1 DEF goto
  <2>6. CASE commandsDone(r)
    BY <2>5, <2>6, IdleCarries DEF commandsDone, at, writes, PC
  <2>7. CASE sendBody(r) \/ answerEmpty(r)
    BY <2>7, IdleCarries DEF sendBody, answerEmpty
  <2>8. CASE suspend(r) \/ setContinuation(r)
    BY <2>5, <2>8 DEF suspend, setContinuation, scanned, at, writes, PC
  <2>9. CASE doMessages(r)
    <3> DEFINE v == IF rq[r].message = None THEN openConsumers ELSE {}
    <3>1. rq' = [rq EXCEPT ![r] = [rq[r] EXCEPT !.pc = "scan", !.visit = v]]
          /\ rq[r].pc = "doMessages"
      BY <2>9 DEF doMessages, at
    <3> HIDE DEF v
    <3>2. carries(r, [rq[r] EXCEPT !.pc = "scan", !.visit = v])
      BY <1>1, <3>1 DEF carries, writes, Req
    <3>3. QED
      BY <3>1, <3>2
  <2>10. CASE expire(r)
    <3> DEFINE a == again(r)
               s == [rq[r] EXCEPT !.pc = a, !.expired = TRUE, !.consumer = None]
    <3>1. rq' = [rq EXCEPT ![r] = s] /\ rq[r].pc = "parked" /\ a \in {"doMessages", "doPost"}
      BY <2>10 DEF expire, at, again
    <3> HIDE DEF a
    <3>2. carries(r, s)
      BY <1>1, <3>1 DEF carries, writes, Req
    <3>3. QED
      BY <3>1, <3>2
  <2>11. QED
    BY <2>1, <2>2, <2>3, <2>4, <2>6, <2>7, <2>8, <2>9, <2>10
<1>4. QED
  BY <1>1, <1>2, <1>3, Stays, LostStays


\* A listen or an unlisten: what the old consumer held is gone.
LEMMA CommandsHold ==
    ASSUME ServletInv, HeldInv, NEW r \in Requests,
           listen(r) \/ listenFails(r) \/ unlisten(r)
    PROVE  HeldInv'
<1> DEFINE d == rq[r].body.cmds[rq[r].next].dest
<1>1. Known /\ TypeOK /\ rq[r] \in Req /\ rq[r].pc = "commands"
  BY RecordOf DEF ServletInv, listen, listenFails, unlisten, command, at
<1>2. UNCHANGED <<delivered, undelivered, published, lost>> /\ pending' = closed(d)
  BY DEF listen, listenFails, unlisten, listenerVars, historyVars
<1>3. \A c \in Consumers : pending'[c] = pending[c] \/ pending'[c] = <<>>
  BY <1>1, <1>2 DEF closed, TypeOK
<1>4. \E s : rq' = [rq EXCEPT ![r] = s] /\ carries(r, s)
  <2>1. CASE listen(r)
    <3>1. rq' = [rq EXCEPT ![r] = [rq[r] EXCEPT !.pc = "listen"]]
      BY <2>1 DEF listen, goto
    <3>2. carries(r, [rq[r] EXCEPT !.pc = "listen"])
      BY <1>1 DEF carries, writes, Req
    <3>3. QED
      BY <3>1, <3>2
  <2>2. CASE listenFails(r) \/ unlisten(r)
    <3>1. rq' = [rq EXCEPT ![r] = [rq[r] EXCEPT !.pc = "commands", !.next = rq[r].next + 1]]
      BY <2>2 DEF listenFails, unlisten, nextCommand
    <3>2. carries(r, [rq[r] EXCEPT !.pc = "commands", !.next = rq[r].next + 1])
      BY <1>1 DEF carries, writes, Req
    <3>3. QED
      BY <3>1, <3>2
  <2>3. QED
    BY <2>1, <2>2
<1>5. QED
  BY <1>1, <1>2, <1>3, <1>4, Stays, LostStays

LEMMA RespEmpty ==
    ASSUME Known, NEW r \in Requests
    PROVE  writes(r) \/ rq[r].resp = <<>>
BY RecordOf DEF KnownReq, writes

\* An exception: what the request held is counted as lost.
LEMMA FailHolds ==
    ASSUME ServletInv, HeldInv, NEW r \in Requests,
           NEW w \in SUBSET (1..published), fail(r, w),
           once(undelivered)', inBuffer' \subseteq inBuffer,
           \A c \in Consumers : single(pending[c])' /\ inConsumer(c)' \subseteq inConsumer(c)
    PROVE  HeldInv'
<1>1. Known /\ rq' = [rq EXCEPT ![r] = Idle] /\ carries(r, Idle)
      /\ UNCHANGED <<delivered, published>>
  BY IdleCarries DEF ServletInv, fail
<1>2. messagesIn(rq[r].resp) \subseteq 1..published
  <2>1. CASE writes(r)
    BY <2>1 DEF HeldInv, Dispatched, inRequest
  <2>2. CASE rq[r].resp = <<>>
    BY <2>2, OneMessage
  <2>3. QED
    BY <1>1, <2>1, <2>2, RespEmpty
<1>3. lost' \subseteq 1..published
  BY <1>2 DEF fail, HeldInv, Dispatched
<1>4. QED
  BY <1>1, <1>3, Drops

\* What it held and what it had taken is counted.
LEMMA FailPasses ==
    ASSUME ServletInv, NEW r \in Requests, NEW w, fail(r, w),
           writes(r) \/ inRequest(r) \subseteq w, inBuffer \subseteq inBuffer' \union w,
           \A c \in Consumers : inConsumer(c) \subseteq inConsumer(c)' \union w
    PROVE  Passed
<1>1. Known /\ rq' = [rq EXCEPT ![r] = Idle] /\ UNCHANGED delivered
      /\ lost' = lost \union messagesIn(rq[r].resp) \union w
  BY DEF ServletInv, fail
<1>2. inPage \subseteq inPage' /\ lost \subseteq lost'
  BY <1>1 DEF inPage
<1>3. inRequest(r) \union w \subseteq inRequest(r)' \union lost' \union inPage'
  BY <1>1 DEF inRequest
<1>4. QED
  BY <1>1, <1>2, <1>3, RequestPasses

\* An exception that takes nothing from the buffer or from a consumer.
LEMMA FailOnlyHolds ==
    ASSUME ServletInv, HeldInv, NEW r \in Requests,
           NEW w \in SUBSET (1..published), fail(r, w), UNCHANGED <<undelivered, pending>>,
           writes(r) \/ inRequest(r) \subseteq w
    PROVE  HeldInv' /\ Passed
<1>1. once(undelivered)' /\ inBuffer' = inBuffer
  BY DEF HeldInv, Once, inBuffer, once
<1>2. \A c \in Consumers : single(pending[c])' /\ inConsumer(c)' \subseteq inConsumer(c)
  BY ConsumerStays DEF HeldInv
<1>3. \A c \in Consumers : inConsumer(c)' = inConsumer(c)
  BY DEF inConsumer
<1>4. HeldInv'
  BY <1>1, <1>2, FailHolds
<1>5. Passed
  BY <1>1, <1>3, FailPasses
<1>6. QED
  BY <1>4, <1>5

-----------------------------------------------------------------------------
(***************************************************************************)
(* Steps that move a message.                                              *)
(***************************************************************************)
\* What a consumer hands over, it holds no more.
LEMMA Received ==
    ASSUME TypeOK, HeldInv, NEW a \in Consumers, pending[a] # <<>>,
           pending' = [pending EXCEPT ![a] = Tail(@)]
    PROVE  LET m == Head(pending[a]) IN
           /\ m \in inConsumer(a) /\ m \in 1..published /\ m \in Messages
           /\ inConsumer(a)' = inConsumer(a) \ {m}
           /\ \A c \in Consumers : c # a => inConsumer(c)' = inConsumer(c)
           /\ \A c \in Consumers : single(pending[c])' /\ inConsumer(c)' \subseteq inConsumer(c) \ {m}
           /\ m \notin inPage /\ m \notin inBuffer
           /\ \A q \in Requests : m \notin inRequest(q)
<1> DEFINE m == Head(pending[a])
<1>1. pending \in [Consumers -> Seq(Messages)] /\ pending[a] \in Seq(Messages)
      /\ single(pending[a]) /\ m \in Messages
  BY Receive DEF TypeOK, HeldInv, Once
<1>2. /\ m \in elements(pending[a]) /\ single(Tail(pending[a]))
      /\ elements(Tail(pending[a])) = elements(pending[a]) \ {m}
  BY <1>1, TakeHead
<1>3. pending'[a] = Tail(pending[a]) /\ \A c \in Consumers : c # a => pending'[c] = pending[c]
  BY <1>1
<1> HIDE DEF m
<1>4. m \in inConsumer(a) /\ inConsumer(a)' = inConsumer(a) \ {m}
  BY <1>2, <1>3 DEF inConsumer
<1>5. \A c \in Consumers : c # a => inConsumer(c)' = inConsumer(c)
  BY <1>3 DEF inConsumer
<1>6. \A c \in Consumers : single(pending[c])'
  BY <1>2, <1>3 DEF single, HeldInv, Once
<1>7. m \in 1..published
  BY <1>4 DEF HeldInv, Dispatched
<1>8. /\ \A c \in Consumers : c # a => m \notin inConsumer(c)
      /\ m \notin inPage /\ m \notin inBuffer
      /\ \A q \in Requests : m \notin inRequest(q)
  BY <1>4 DEF HeldInv, Apart
<1>9. \A c \in Consumers : inConsumer(c)' \subseteq inConsumer(c) \ {m}
  BY <1>4, <1>5, <1>8
<1>10. QED
  BY <1>1, <1>4, <1>5, <1>6, <1>7, <1>8, <1>9 DEF m

\* To a request: what it carries then is what it carried, and the message.
takes(r, s, m) ==
    \/ /\ s.pc \notin {"drain", "sweep"} /\ s.message = m
       /\ ~writes(r) /\ rq[r].message = None
    \/ /\ s.pc \in {"drain", "sweep"} /\ writes(r) /\ once(s.resp)
       /\ messagesIn(s.resp) = messagesIn(rq[r].resp) \union {m}

LEMMA ReceivedByRequest ==
    ASSUME TypeOK, Known, HeldInv, NEW a \in Consumers, pending[a] # <<>>,
           pending' = [pending EXCEPT ![a] = Tail(@)],
           NEW r \in Requests, NEW s, rq' = [rq EXCEPT ![r] = s],
           UNCHANGED <<delivered, undelivered, published, lost>>,
           takes(r, s, Head(pending[a]))
    PROVE  HeldInv' /\ Passed
<1>1. Once /\ Apart /\ Dispatched
  BY DEF HeldInv
<1> PICK m : m = Head(pending[a])
  OBVIOUS
<1>2. /\ m \in inConsumer(a) /\ m \in 1..published
      /\ \A c \in Consumers : single(pending[c])' /\ inConsumer(c)' \subseteq inConsumer(c) \ {m}
      /\ m \notin inPage /\ m \notin inBuffer
      /\ \A q \in Requests : m \notin inRequest(q)
  BY Received
<1>3. /\ inPage' = inPage /\ inBuffer' = inBuffer
      /\ once(delivered)' /\ once(undelivered)'
  BY SameHeld
<1>4. /\ rq'[r] = s /\ (writes(r)' <=> s.pc \in {"drain", "sweep"})
      /\ inRequest(r)' = IF s.pc \in {"drain", "sweep"} THEN messagesIn(s.resp)
                         ELSE {s.message} \ {None}
      /\ \A q \in Requests : q # r =>
            /\ rq'[q] = rq[q] /\ (writes(q)' <=> writes(q))
            /\ inRequest(q)' = inRequest(q)
  BY RequestStep
<1>5. inRequest(r)' \subseteq inRequest(r) \union {m}
  BY <1>4 DEF inRequest, takes
<1>6. \A q \in Requests : writes(q)' => once(rq'[q].resp)
  BY <1>1, <1>4 DEF Once, takes
<1>7. Once'
  BY <1>2, <1>3, <1>6 DEF Once, once
<1>8. Apart'
  <2>1. inPage' \subseteq inPage \ {m} /\ inBuffer' \subseteq inBuffer \ {m}
    BY <1>2, <1>3
  <2>2. \A q \in Requests : q # r => inRequest(q)' \subseteq inRequest(q) \ {m}
    BY <1>2, <1>4
  <2>3. QED
    BY <1>1, <1>2, <1>5, <2>1, <2>2, ToRequest
<1>9. Dispatched'
  BY <1>1, <1>2, <1>3, <1>4, <1>5 DEF Dispatched
<1>10. Passed
  <2>1. m # None
    BY <1>2 DEF None
  <2>2. inRequest(r) \union {m} \subseteq inRequest(r)'
    BY <1>4, <2>1 DEF inRequest, takes
  <2>3. \A c \in Consumers : inConsumer(c) \subseteq inConsumer(c)' \union {m}
    BY Received
  <2>4. QED
    BY <1>3, <2>2, <2>3, RequestPasses
<1>11. QED
  BY <1>7, <1>8, <1>9, <1>10 DEF HeldInv

LEMMA ScanHolds ==
    ASSUME ServletInv, HeldInv, NEW r \in Requests, scan(r)
    PROVE  HeldInv' /\ Passed
<1>1. Known /\ TypeOK /\ rq[r] \in Req /\ rq[r].pc = "scan" /\ rq[r].message = None
      /\ ~writes(r) /\ UNCHANGED <<delivered, undelivered, published, lost>>
  BY RecordOf DEF ServletInv, scan, at, writes, listenerVars, historyVars
<1>2. PICK c \in rq[r].visit :
          \/ /\ pending[c] # <<>>
             /\ rq' = [rq EXCEPT ![r].consumer = c, ![r].message = Head(pending[c])]
             /\ pending' = [pending EXCEPT ![c] = Tail(@)]
          \/ /\ rq' = [rq EXCEPT ![r].consumer = c, ![r].visit = @ \ {c}]
             /\ UNCHANGED pending
  BY DEF scan
<1>3. c \in Consumers
  BY <1>1 DEF Req
<1>4. CASE /\ pending[c] # <<>>
           /\ rq' = [rq EXCEPT ![r].consumer = c, ![r].message = Head(pending[c])]
           /\ pending' = [pending EXCEPT ![c] = Tail(@)]
  <2> DEFINE m == Head(pending[c])
             s == [rq[r] EXCEPT !.consumer = c, !.message = m]
  <2>1. rq' = [rq EXCEPT ![r] = s]
    BY <1>4
  <2>2. s.pc = "scan" /\ s.message = Head(pending[c])
    BY <1>1 DEF Req
  <2> HIDE DEF s
  <2>3. takes(r, s, Head(pending[c]))
    BY <1>1, <2>2 DEF takes
  <2>4. UNCHANGED <<delivered, undelivered, published, lost>>
    BY <1>1
  <2>5. QED
    BY <1>1, <1>3, <1>4, <2>1, <2>3, <2>4, ReceivedByRequest
<1>5. CASE /\ rq' = [rq EXCEPT ![r].consumer = c, ![r].visit = @ \ {c}]
           /\ UNCHANGED pending
  <2> DEFINE v == rq[r].visit \ {c}
             s == [rq[r] EXCEPT !.consumer = c, !.visit = v]
  <2>1. rq' = [rq EXCEPT ![r] = s]
    BY <1>5
  <2>2. carries(r, s) /\ s.pc = "scan" /\ s.message = rq[r].message
    BY <1>1 DEF Req, carries, writes
  <2> HIDE DEF s
  <2>3. HeldInv'
    BY <1>1, <1>5, <2>1, <2>2, Stays, LostStays
  <2>4. Passed
    BY <1>1, <1>5, <2>1, <2>2, StaysPasses
  <2>5. QED
    BY <2>3, <2>4
<1>6. QED
  BY <1>2, <1>4, <1>5

LEMMA DispatchHolds ==
    ASSUME ServletInv, HeldInv, NEW d \in Dests, dispatch(d)
    PROVE  HeldInv' /\ Passed /\ \A m \in 1..published' : m \in 1..published \/ somewhere(m)'
<1>1. Once /\ Apart /\ Dispatched /\ TypeOK
  BY DEF HeldInv, ServletInv
<1> PICK a \in Consumers : a = consumerOf[d]
  BY <1>1 DEF dispatch, TypeOK
<1> PICK m \in Messages : m = published + 1
  BY <1>1, SizesAssumption DEF dispatch, TypeOK, Messages
<1>2. published \in Nat /\ published' = m
  BY <1>1 DEF dispatch, TypeOK
<1>3. pending[a] \in Seq(Messages) /\ pending \in [Consumers -> Seq(Messages)]
      /\ pending' = [pending EXCEPT ![a] = Append(@, m)]
  BY <1>1, <1>2 DEF TypeOK, dispatch
<1>4. m \notin 1..published /\ 1..published' = 1..published \union {m}
  BY <1>2
<1>5. m \notin inConsumer(a)
  BY <1>1, <1>2, <1>4 DEF Dispatched
<1>6. single(Append(pending[a], m)) /\ elements(Append(pending[a], m)) = elements(pending[a]) \union {m}
  BY <1>1, <1>2, <1>3, <1>5, PutLast DEF Once, inConsumer
<1>7. pending'[a] = Append(pending[a], m) /\ \A c \in Consumers : c # a => pending'[c] = pending[c]
  BY <1>2, <1>3
<1>8. inConsumer(a)' = inConsumer(a) \union {m}
      /\ \A c \in Consumers : c # a => inConsumer(c)' = inConsumer(c)
  BY <1>6, <1>7 DEF inConsumer
<1>9. \A c \in Consumers : single(pending[c])'
  <2>1. \A c \in Consumers : single(pending'[c])
    BY <1>1, <1>6, <1>7 DEF Once
  <2>2. QED
    BY <2>1 DEF single
<1>10. UNCHANGED <<delivered, undelivered, lost, rq>>
  BY DEF dispatch, listenerVars, historyVars
<1>11. /\ inPage' = inPage /\ inBuffer' = inBuffer
       /\ \A q \in Requests : inRequest(q)' = inRequest(q)
  BY <1>10 DEF inPage, inBuffer, inRequest, writes
<1>12. Once'
  BY <1>1, <1>9, <1>10 DEF Once, once, writes
<1>13. Apart'
  <2>1. m \notin inPage /\ m \notin inBuffer
        /\ (\A c \in Consumers : m \notin inConsumer(c))
        /\ \A q \in Requests : m \notin inRequest(q)
    BY <1>1, <1>4 DEF Dispatched
  <2>2. QED
    <3>1. inPage' \subseteq inPage \ {m} /\ inBuffer' \subseteq inBuffer \ {m}
      BY <1>11, <2>1
    <3>2. /\ \A c \in Consumers : c # a => inConsumer(c)' \subseteq inConsumer(c) \ {m}
          /\ inConsumer(a)' \subseteq inConsumer(a) \union {m}
      BY <1>8, <2>1
    <3>3. \A q \in Requests : inRequest(q)' \subseteq inRequest(q) \ {m}
      BY <1>11, <2>1
    <3>4. QED
      BY <1>1, <3>1, <3>2, <3>3, ToConsumer
<1>14. Dispatched'
  BY <1>1, <1>4, <1>8, <1>10, <1>11 DEF Dispatched
<1>15. Passed /\ somewhere(m)'
  BY <1>8, <1>10, <1>11 DEF Passed, somewhere, inPage, inBuffer
<1>16. QED
  BY <1>4, <1>12, <1>13, <1>14, <1>15 DEF HeldInv


LEMMA OnMessageHolds ==
    ASSUME ServletInv, HeldInv, onMessageAvailable
    PROVE  HeldInv' /\ Passed
<1>1. Known /\ TypeOK /\ Once /\ Apart /\ Dispatched /\ undelivered \in Seq(Undelivered)
      /\ UNCHANGED <<delivered, published, lost>>
  BY DEF ServletInv, HeldInv, onMessageAvailable, historyVars, TypeOK
<1> PICK c \in Consumers : c = dispatching
  BY <1>1 DEF onMessageAvailable, TypeOK
<1>2. CASE UNCHANGED <<pending, undelivered, rq>>
  <2>1. HeldInv'
    BY <1>1, <1>2 DEF HeldInv, Once, Apart, Dispatched, inConsumer, inRequest, inBuffer, inPage,
                      writes, once, single
  <2>2. Passed
    BY <1>1, <1>2 DEF Passed, somewhere, inConsumer, inRequest, inBuffer, inPage, writes
  <2>3. QED
    BY <2>1, <2>2
<1>3. CASE /\ pending[c] # <<>> /\ waits
           /\ pending' = [pending EXCEPT ![c] = Tail(@)]
           /\ rq' = [rq EXCEPT ![continuation].pc = again(continuation),
                               ![continuation].message = Head(pending[c]),
                               ![continuation].consumer = c]
           /\ UNCHANGED undelivered
  <2> PICK r \in Requests : r = continuation
    BY <1>1, <1>3 DEF waits, TypeOK
  <2> DEFINE m == Head(pending[c])
             a == again(r)
             s == [rq[r] EXCEPT !.pc = a, !.message = m, !.consumer = c]
  <2>1. rq[r] \in Req /\ a \in {"doMessages", "doPost"} /\ rq' = [rq EXCEPT ![r] = s]
        /\ ~writes(r) /\ rq[r].message = None
    BY <1>1, <1>3, RecordOf DEF again, waits, at, writes, KnownReq
  <2> HIDE DEF a
  <2>2. s.pc \notin {"drain", "sweep"} /\ s.message = Head(pending[c])
    BY <2>1 DEF Req
  <2> HIDE DEF s
  <2>3. takes(r, s, Head(pending[c]))
    BY <2>1, <2>2 DEF takes
  <2>4. UNCHANGED <<delivered, undelivered, published, lost>>
    BY <1>1, <1>3
  <2>5. QED
    BY <1>1, <1>3, <2>1, <2>3, <2>4, ReceivedByRequest
<1>4. CASE /\ pending[c] # <<>>
           /\ pending' = [pending EXCEPT ![c] = Tail(@)]
           /\ undelivered' = Append(undelivered, [msg |-> Head(pending[c]), consumer |-> c])
           /\ UNCHANGED rq
  <2> PICK m : m = Head(pending[c])
    OBVIOUS
  <2>1. /\ m \in 1..published /\ m \in Messages
        /\ \A k \in Consumers : single(pending[k])' /\ inConsumer(k)' \subseteq inConsumer(k) \ {m}
        /\ m \notin inPage /\ m \notin inBuffer
        /\ \A q \in Requests : m \notin inRequest(q)
    BY <1>1, <1>4, Received
  <2>2. PICK e \in Undelivered : undelivered' = Append(undelivered, e) /\ e.msg = m
    <3>1. [msg |-> m, consumer |-> c] \in Undelivered
      BY <2>1 DEF Undelivered
    <3>2. QED
      BY <1>4, <3>1
  <2>3. once(Append(undelivered, e))
        /\ messagesIn(Append(undelivered, e)) = messagesIn(undelivered) \union {m}
    BY <1>1, <2>1, <2>2, AppendOnce DEF inBuffer, Once
  <2>4. inBuffer' = inBuffer \union {m} /\ once(undelivered)'
    BY <2>2, <2>3 DEF inBuffer, once
  <2>5. inPage' = inPage /\ \A q \in Requests : inRequest(q)' = inRequest(q)
    BY <1>1, <1>4 DEF inPage, inRequest, writes
  <2>6. Once'
    BY <1>1, <1>4, <2>1, <2>4 DEF Once, once, writes
  <2>7. Apart'
    <3>1. inPage' \subseteq inPage \ {m} /\ inBuffer' \subseteq inBuffer \union {m}
          /\ \A q \in Requests : inRequest(q)' \subseteq inRequest(q) \ {m}
      BY <2>1, <2>4, <2>5
    <3>2. QED
      BY <1>1, <2>1, <3>1, ToBuffer
  <2>8. Dispatched'
    BY <1>1, <2>1, <2>4, <2>5 DEF Dispatched
  <2>9. Passed
    <3>1. \A k \in Consumers : inConsumer(k) \subseteq inConsumer(k)' \union {m}
      BY <1>1, <1>4, Received
    <3>2. QED
      BY <1>1, <2>4, <2>5, <3>1 DEF Passed, somewhere
  <2>10. QED
    BY <2>6, <2>7, <2>8, <2>9 DEF HeldInv
<1>5. QED
  BY <1>2, <1>3, <1>4 DEF onMessageAvailable

\* The response begins with the message the poll already has.
LEMMA WriteHolds ==
    ASSUME ServletInv, HeldInv, NEW r \in Requests, writeMessage(r)
    PROVE  HeldInv' /\ Passed
<1>1. Known /\ TypeOK /\ Once /\ Apart /\ Dispatched /\ rq[r] \in Req /\ rq[r].pc = "scan"
      /\ UNCHANGED <<undelivered, pending>>
  BY RecordOf DEF ServletInv, HeldInv, writeMessage, scanned, at
<1>2. inRequest(r) = {rq[r].message} \ {None}
  BY <1>1 DEF inRequest, writes
<1>3. CASE rq[r].message \in Poison /\ fail(r, {rq[r].message})
  <2>1. rq[r].message # None
    BY <1>3, PoisonAssumption DEF None
  <2>2. {rq[r].message} \in SUBSET (1..published)
    BY <1>1, <1>2, <2>1 DEF Dispatched
  <2>3. QED
    BY <1>1, <1>2, <1>3, <2>2, FailOnlyHolds
<1>4. CASE /\ UNCHANGED <<lock, clientVars, continuation, dispatching, published, sendVars, posts, historyVars>>
           /\ rq' = [rq EXCEPT ![r].pc = "drain", ![r].resp =
                       IF rq[r].message = None THEN <<>>
                       ELSE <<entry(rq[r].message, rq[r].consumer)>>]
  <2> DEFINE w == IF rq[r].message = None THEN <<>> ELSE <<entry(rq[r].message, rq[r].consumer)>>
             s == [rq[r] EXCEPT !.pc = "drain", !.resp = w]
  <2>1. once(w) /\ messagesIn(w) = inRequest(r)
    <3>1. entry(rq[r].message, rq[r].consumer).msg = rq[r].message
      BY DEF entry
    <3>2. QED
      BY <1>2, <3>1, OneMessage
  <2>2. rq' = [rq EXCEPT ![r] = s]
    BY <1>4
  <2> HIDE DEF w
  <2>3. s.pc = "drain" /\ s.resp = w
    BY <1>1 DEF Req
  <2> HIDE DEF s
  <2>4. /\ rq'[r] = s /\ (writes(r)' <=> s.pc \in {"drain", "sweep"})
        /\ inRequest(r)' = IF s.pc \in {"drain", "sweep"} THEN messagesIn(s.resp)
                           ELSE {s.message} \ {None}
        /\ \A q \in Requests : q # r =>
              /\ rq'[q] = rq[q] /\ (writes(q)' <=> writes(q))
              /\ inRequest(q)' = inRequest(q)
    BY <1>1, <2>2, RequestStep
  <2>5. \A q \in Requests : inRequest(q)' = inRequest(q)
    BY <2>1, <2>3, <2>4
  <2>6. UNCHANGED <<delivered, undelivered, pending, published, lost>>
    BY <1>1, <1>4 DEF historyVars
  <2>7. /\ inPage' = inPage /\ inBuffer' = inBuffer
        /\ \A c \in Consumers : inConsumer(c)' = inConsumer(c)
    BY <2>6 DEF inPage, inBuffer, inConsumer
  <2>8. Once'
    <3>1. \A q \in Requests : writes(q)' => once(rq'[q].resp)
      BY <1>1, <2>1, <2>3, <2>4 DEF Once
    <3>2. QED
      BY <1>1, <2>6, <3>1 DEF Once, once, single
  <2>9. Apart'
    BY <1>1, <2>5, <2>7 DEF Apart
  <2>10. Dispatched'
    BY <1>1, <2>5, <2>6, <2>7 DEF Dispatched
  <2>11. Passed
    BY <2>5, <2>6, <2>7 DEF Passed, somewhere
  <2>12. QED
    BY <2>8, <2>9, <2>10, <2>11 DEF HeldInv
<1>5. QED
  BY <1>3, <1>4 DEF writeMessage

\* The buffered messages a response takes leave the buffer.
LEMMA DrainHolds ==
    ASSUME ServletInv, HeldInv, NEW r \in Requests, drain(r)
    PROVE  HeldInv' /\ Passed
<1>1. Known /\ TypeOK /\ Once /\ Apart /\ Dispatched /\ rq[r] \in Req /\ rq[r].pc = "drain"
      /\ UNCHANGED <<delivered, pending, published, lost>>
  BY RecordOf DEF ServletInv, HeldInv, drain, at, sessionVars, historyVars
<1> PICK n \in Nat : n = written(r)
  BY <1>1, WrittenBounds
<1>2. n <= Len(undelivered)
  BY <1>1, WrittenBounds
<1> PICK X : X = {undelivered[i].msg : i \in 1..n}
  OBVIOUS
<1>3. /\ once(remaining(n)) /\ inBuffer = X \union messagesIn(remaining(n))
      /\ X \intersect messagesIn(remaining(n)) = {}
      /\ \A i \in 1..n : i \in DOMAIN undelivered
  BY <1>1, <1>2, BufferSplit DEF Once
<1>4. undelivered' = remaining(n)
  BY DEF drain
<1>5. once(undelivered)' /\ inBuffer' \subseteq inBuffer \ X
  BY <1>3, <1>4 DEF once, inBuffer
<1> PICK w : w = [i \in 1..n |-> entry(undelivered[i].msg, undelivered[i].consumer)]
  OBVIOUS
<1>6. w \in Seq(Entry) /\ once(w) /\ messagesIn(w) = X
  <2>1. ASSUME NEW i \in 1..n
        PROVE  w[i].msg = undelivered[i].msg /\ w[i] \in Entry
    <3>1. undelivered[i] \in Undelivered
      BY <1>1, <1>3 DEF TypeOK
    <3>2. undelivered[i].msg \in Messages /\ undelivered[i].consumer \in Consumers
      BY <3>1 DEF Undelivered
    <3>3. w[i] = entry(undelivered[i].msg, undelivered[i].consumer)
      OBVIOUS
    <3>4. QED
      BY <3>2, <3>3, EntryType DEF entry
  <2>2. DOMAIN w = 1..n
    OBVIOUS
  <2>3. w \in Seq(Entry)
    <3>1. w \in [1..n -> Entry]
      BY <2>1
    <3>2. QED
      BY <3>1
  <2>4. once(w)
    <3>1. SUFFICES ASSUME NEW i \in 1..n, NEW j \in 1..n, w[i].msg = w[j].msg PROVE i = j
      BY <2>2 DEF once
    <3>2. undelivered[i].msg = undelivered[j].msg
      BY <2>1, <3>1
    <3>3. QED
      BY <1>1, <1>3, <3>2 DEF Once, once
  <2>5. messagesIn(w) = X
    BY <2>1, <2>2 DEF messagesIn
  <2>6. QED
    BY <2>3, <2>4, <2>5
<1>7. PICK x \in Seq(Entry) : x = rq[r].resp
  BY <1>1 DEF Req
<1>8. once(x) /\ inRequest(r) = messagesIn(x)
  BY <1>1, <1>7 DEF Once, writes, inRequest
<1>9. messagesIn(x) \intersect messagesIn(w) = {}
  BY <1>1, <1>3, <1>6, <1>8 DEF Apart
<1>10. once(x \o w) /\ messagesIn(x \o w) = inRequest(r) \union X
  <2>1. once(x \o w) /\ messagesIn(x \o w) = messagesIn(x) \union messagesIn(w)
    BY <1>6, <1>7, <1>8, <1>9, ConcatOnce
  <2>2. QED
    BY <1>6, <1>8, <2>1
<1> DEFINE v == openConsumers
           y == x \o w
           s == [rq[r] EXCEPT !.pc = "sweep", !.visit = v, !.resp = y]
<1>11. rq' = [rq EXCEPT ![r] = s]
  BY <1>7 DEF drain
<1> HIDE DEF v, y
<1>12. s.pc = "sweep" /\ s.resp = y
  BY <1>1 DEF Req
<1> HIDE DEF s
<1>13. /\ rq'[r] = s /\ (writes(r)' <=> s.pc \in {"drain", "sweep"})
       /\ inRequest(r)' = IF s.pc \in {"drain", "sweep"} THEN messagesIn(s.resp)
                          ELSE {s.message} \ {None}
       /\ \A q \in Requests : q # r =>
             /\ rq'[q] = rq[q] /\ (writes(q)' <=> writes(q))
             /\ inRequest(q)' = inRequest(q)
  BY <1>1, <1>11, RequestStep
<1>14. inRequest(r)' = inRequest(r) \union X
  BY <1>10, <1>12, <1>13 DEF y
<1>15. inPage' = inPage /\ \A c \in Consumers : inConsumer(c)' = inConsumer(c)
  BY <1>1 DEF inPage, inConsumer
<1>16. Once'
  <2>1. once(rq'[r].resp)
    BY <1>10, <1>12, <1>13 DEF y
  <2>2. \A q \in Requests : writes(q)' => once(rq'[q].resp)
    BY <1>1, <1>13, <2>1 DEF Once
  <2>3. QED
    BY <1>1, <1>5, <2>2 DEF Once, once, single
<1>17. Apart'
  <2>1. inPage' \subseteq inPage \ X
    BY <1>1, <1>3, <1>15 DEF Apart
  <2>2. \A c \in Consumers : inConsumer(c)' \subseteq inConsumer(c) \ X
    BY <1>1, <1>3, <1>15 DEF Apart
  <2>3. \A q \in Requests : q # r => inRequest(q)' \subseteq inRequest(q) \ X
    BY <1>1, <1>3, <1>13 DEF Apart
  <2>4. QED
    BY <1>1, <1>5, <1>14, <2>1, <2>2, <2>3, ToRequest
<1>18. Dispatched'
  <2>1. X \subseteq 1..published
    BY <1>1, <1>3 DEF Dispatched
  <2>2. QED
    BY <1>1, <1>5, <1>13, <1>14, <1>15, <2>1 DEF Dispatched
<1>19. Passed
  <2>1. inBuffer \subseteq inBuffer' \union X
    BY <1>3, <1>4 DEF inBuffer
  <2>2. inPage \subseteq inPage' /\ lost \subseteq lost'
        /\ (\A c \in Consumers : inConsumer(c) \subseteq inConsumer(c)' \union X)
        /\ inRequest(r) \union X \subseteq inRequest(r)' \union lost' \union inPage'
    BY <1>1, <1>14, <1>15
  <2>3. QED
    BY <1>1, <1>11, <2>1, <2>2, RequestPasses
<1>20. QED
  BY <1>16, <1>17, <1>18, <1>19 DEF HeldInv

\* An exception among the buffered messages: those before it are gone, the one
\* that cannot be written stays in the buffer.
LEMMA DrainFailsHolds ==
    ASSUME ServletInv, HeldInv, NEW r \in Requests, drainPoison(r) \/ drainNullPointer(r)
    PROVE  HeldInv' /\ Passed
<1>1. TypeOK /\ once(undelivered) /\ Dispatched /\ writes(r)
  BY DEF ServletInv, HeldInv, Once, drainPoison, drainNullPointer, at, writes
<1>2. CASE drainNullPointer(r)
  BY <1>1, <1>2, FailOnlyHolds DEF drainNullPointer
<1>3. CASE drainPoison(r)
  <2>1. PICK i \in poisonAt(r) :
           /\ fail(r, {undelivered[j].msg : j \in 1..(i - 1)})
           /\ undelivered' = remaining(i - 1)
    BY <1>3 DEF drainPoison
  <2>2. i \in 1..written(r) /\ written(r) \in Nat /\ written(r) <= Len(undelivered)
        /\ Len(undelivered) \in Nat
    BY <1>1, WrittenBounds DEF poisonAt
  <2>3. PICK n \in Nat : n = i - 1 /\ n <= Len(undelivered)
    BY <2>2
  <2>4. PICK X : X = {undelivered[j].msg : j \in 1..n}
    OBVIOUS
  <2>5. /\ once(remaining(n)) /\ inBuffer = X \union messagesIn(remaining(n))
    BY <1>1, <2>3, <2>4, BufferSplit
  <2>6. fail(r, X) /\ undelivered' = remaining(n)
    BY <2>1, <2>3, <2>4
  <2>7. X \in SUBSET (1..published)
    BY <1>1, <2>5 DEF Dispatched
  <2>8. once(undelivered)' /\ inBuffer' \subseteq inBuffer
    BY <2>5, <2>6 DEF once, inBuffer
  <2>9. \A c \in Consumers : single(pending[c])' /\ inConsumer(c)' \subseteq inConsumer(c)
    BY <1>3, ConsumerStays DEF HeldInv, drainPoison
  <2>10. HeldInv'
    BY <2>6, <2>7, <2>8, <2>9, FailHolds
  <2>11. inBuffer \subseteq inBuffer' \union X
         /\ \A c \in Consumers : inConsumer(c) \subseteq inConsumer(c)' \union X
    BY <1>3, <2>5, <2>6 DEF inBuffer, inConsumer, drainPoison
  <2>12. QED
    BY <1>1, <2>6, <2>10, <2>11, FailPasses
<1>4. QED
  BY <1>2, <1>3

LEMMA SweepHolds ==
    ASSUME ServletInv, HeldInv, NEW r \in Requests, sweep(r)
    PROVE  HeldInv' /\ Passed
<1>1. Known /\ TypeOK /\ Once /\ Apart /\ Dispatched /\ rq[r] \in Req /\ rq[r].pc = "sweep"
      /\ UNCHANGED undelivered
  BY RecordOf DEF ServletInv, HeldInv, sweep, at
<1>2. PICK c \in rq[r].visit :
          \/ /\ rq' = [rq EXCEPT ![r].visit = @ \ {c}]
             /\ UNCHANGED <<lock, clientVars, continuation, sessionVars,
                            sendVars, posts, historyVars>>
          \/ /\ pending[c] # <<>>
             /\ rq' = [rq EXCEPT ![r].resp = Append(@, entry(Head(pending[c]), c))]
             /\ pending' = [pending EXCEPT ![c] = Tail(@)]
             /\ UNCHANGED <<lock, clientVars, continuation, dispatching,
                            published, sendVars, posts, historyVars>>
          \/ /\ pending[c] # <<>>
             /\ pending' = [pending EXCEPT ![c] = Tail(@)]
             /\ fail(r, {Head(pending[c])})
  BY DEF sweep
<1>3. c \in Consumers
  BY <1>1, <1>2 DEF Req
<1>4. CASE /\ rq' = [rq EXCEPT ![r].visit = @ \ {c}]
           /\ UNCHANGED <<lock, clientVars, continuation, sessionVars,
                          sendVars, posts, historyVars>>
  <2> DEFINE v == rq[r].visit \ {c}
             s == [rq[r] EXCEPT !.visit = v]
  <2>1. rq' = [rq EXCEPT ![r] = s]
    BY <1>4
  <2>2. carries(r, s) /\ s.pc = "sweep" /\ s.resp = rq[r].resp /\ writes(r)
    BY <1>1 DEF Req, carries, writes
  <2> HIDE DEF s
  <2>3. HeldInv'
    BY <1>1, <1>4, <2>1, <2>2, Stays, LostStays DEF sessionVars, historyVars
  <2>4. Passed
    BY <1>1, <1>4, <2>1, <2>2, StaysPasses DEF sessionVars, historyVars
  <2>5. QED
    BY <2>3, <2>4
<1>5. CASE /\ pending[c] # <<>>
           /\ rq' = [rq EXCEPT ![r].resp = Append(@, entry(Head(pending[c]), c))]
           /\ pending' = [pending EXCEPT ![c] = Tail(@)]
           /\ UNCHANGED <<lock, clientVars, continuation, dispatching,
                          published, sendVars, posts, historyVars>>
  <2>1. PICK m \in Messages : m = Head(pending[c])
    BY <1>1, <1>3, <1>5, Receive
  <2>2. PICK e \in Entry : e = entry(m, c) /\ e.msg = m
    BY <1>3, EntryType DEF entry
  <2>3. PICK x \in Seq(Entry) : x = rq[r].resp
    BY <1>1 DEF Req
  <2>4. once(x) /\ inRequest(r) = messagesIn(x) /\ writes(r)
    BY <1>1, <2>3 DEF Once, writes, inRequest
  <2>5. m \notin inRequest(r)
    BY <1>1, <1>3, <1>5, <2>1, Received
  <2>6. once(Append(x, e)) /\ messagesIn(Append(x, e)) = messagesIn(x) \union {m}
    BY <2>2, <2>3, <2>4, <2>5, AppendOnce
  <2> DEFINE y == Append(x, e)
             s == [rq[r] EXCEPT !.resp = y]
  <2>7. rq' = [rq EXCEPT ![r] = s]
    BY <1>5, <2>1, <2>2, <2>3
  <2> HIDE DEF y
  <2>8. s.pc = "sweep" /\ s.resp = y
    BY <1>1 DEF Req
  <2> HIDE DEF s
  <2>9. once(s.resp) /\ messagesIn(s.resp) = messagesIn(rq[r].resp) \union {Head(pending[c])}
    BY <2>1, <2>3, <2>6, <2>8 DEF y
  <2>10. takes(r, s, Head(pending[c]))
    BY <2>4, <2>8, <2>9 DEF takes
  <2>11. QED
    BY <1>1, <1>3, <1>5, <2>7, <2>10, ReceivedByRequest DEF historyVars
<1>6. CASE /\ pending[c] # <<>>
           /\ pending' = [pending EXCEPT ![c] = Tail(@)]
           /\ fail(r, {Head(pending[c])})
  <2>1. PICK m : m = Head(pending[c])
    OBVIOUS
  <2>2. /\ m \in 1..published
        /\ \A k \in Consumers : single(pending[k])' /\ inConsumer(k)' \subseteq inConsumer(k) \ {m}
    BY <1>1, <1>3, <1>6, <2>1, Received
  <2>3. once(undelivered)' /\ inBuffer' = inBuffer
    BY <1>1 DEF Once, inBuffer, once
  <2>4. fail(r, {m}) /\ {m} \in SUBSET (1..published)
    BY <1>6, <2>1, <2>2
  <2>5. \A k \in Consumers : single(pending[k])' /\ inConsumer(k)' \subseteq inConsumer(k)
    BY <2>2
  <2>6. HeldInv'
    BY <2>3, <2>4, <2>5, FailHolds
  <2>7. writes(r) /\ inBuffer \subseteq inBuffer' \union {m}
    BY <1>1, <2>3 DEF writes
  <2>8. \A k \in Consumers : inConsumer(k) \subseteq inConsumer(k)' \union {m}
    BY <1>1, <1>3, <1>6, <2>1, Received
  <2>9. QED
    BY <2>4, <2>6, <2>7, <2>8, FailPasses
<1>7. QED
  BY <1>2, <1>4, <1>5, <1>6

\* The response is given.
LEMMA AnswerHolds ==
    ASSUME ServletInv, HeldInv, NEW r \in Requests, answer(r)
    PROVE  HeldInv' /\ Passed
<1>1. Known /\ TypeOK /\ Once /\ Apart /\ Dispatched /\ rq[r] \in Req /\ rq[r].pc = "sweep"
      /\ UNCHANGED <<undelivered, pending, published, lost>>
      /\ delivered' = delivered \o rq[r].resp /\ rq' = [rq EXCEPT ![r] = Idle]
  BY RecordOf DEF ServletInv, HeldInv, answer, at, listenerVars, sessionVars
<1>2. PICK x \in Seq(Entry) : x = rq[r].resp
  BY <1>1 DEF Req
<1>3. PICK y \in Seq(Entry) : y = delivered
  BY <1>1 DEF TypeOK
<1>4. once(x) /\ inRequest(r) = messagesIn(x) /\ once(y) /\ inPage = messagesIn(y)
  BY <1>1, <1>2, <1>3 DEF Once, writes, inRequest, inPage
<1>5. messagesIn(y) \intersect messagesIn(x) = {}
  BY <1>1, <1>4 DEF Apart
<1>6. once(y \o x) /\ messagesIn(y \o x) = messagesIn(y) \union messagesIn(x)
  BY <1>2, <1>3, <1>4, <1>5, ConcatOnce
<1>7. delivered' = y \o x
  BY <1>1, <1>2, <1>3
<1>8. PICK X : X = inRequest(r)
  OBVIOUS
<1>9. once(delivered)' /\ inPage' = inPage \union X
  <2>1. once(delivered')
    BY <1>6, <1>7
  <2>2. messagesIn(delivered') = inPage \union X
    BY <1>4, <1>6, <1>7, <1>8
  <2>3. QED
    BY <2>1, <2>2 DEF once, inPage
<1>10. /\ rq'[r] = Idle /\ inRequest(r)' = {} /\ ~writes(r)'
       /\ \A q \in Requests : q # r =>
             /\ rq'[q] = rq[q] /\ (writes(q)' <=> writes(q))
             /\ inRequest(q)' = inRequest(q)
  <2>1. Idle.pc \notin {"drain", "sweep"} /\ Idle.message = None
    BY DEF Idle, request
  <2>2. QED
    BY <1>1, <2>1, RequestStep
<1>11. inBuffer' = inBuffer /\ \A c \in Consumers : inConsumer(c)' = inConsumer(c)
  BY <1>1 DEF inBuffer, inConsumer
<1>12. Once'
  <2>1. \A q \in Requests : writes(q)' => once(rq'[q].resp)
    BY <1>1, <1>10 DEF Once
  <2>2. QED
    BY <1>1, <1>9, <2>1 DEF Once, once, single
<1>13. Apart'
  <2>1. inPage' \subseteq inPage \union X /\ inBuffer' \subseteq inBuffer \ X
    BY <1>1, <1>8, <1>9, <1>11 DEF Apart
  <2>2. \A c \in Consumers : inConsumer(c)' \subseteq inConsumer(c) \ X
    BY <1>1, <1>8, <1>11 DEF Apart
  <2>3. \A q \in Requests : inRequest(q)' \subseteq inRequest(q) \ X
    BY <1>1, <1>8, <1>10 DEF Apart
  <2>4. QED
    BY <1>1, <2>1, <2>2, <2>3, ToPage
<1>14. Dispatched'
  BY <1>1, <1>8, <1>9, <1>10, <1>11 DEF Dispatched
<1>15. Passed
  <2>1. inPage \subseteq inPage' /\ lost \subseteq lost' /\ inBuffer \subseteq inBuffer' \union {}
        /\ (\A c \in Consumers : inConsumer(c) \subseteq inConsumer(c)' \union {})
        /\ inRequest(r) \union {} \subseteq inRequest(r)' \union lost' \union inPage'
    BY <1>1, <1>8, <1>9, <1>11
  <2>2. QED
    BY <1>1, <2>1, RequestPasses
<1>16. QED
  BY <1>12, <1>13, <1>14, <1>15 DEF HeldInv

LEMMA HeldInitially == Init => HeldInv
<1> SUFFICES ASSUME Init PROVE HeldInv
  OBVIOUS
<1>1. /\ delivered = <<>> /\ undelivered = <<>> /\ lost = {}
      /\ \A c \in Consumers : pending[c] = <<>>
      /\ \A r \in Requests : rq[r] = Idle
  BY DEF Init
<1>2. Idle.pc = "idle" /\ Idle.message = None
  BY DEF Idle, request
<1>3. DOMAIN <<>> = {}
  OBVIOUS
<1>4. /\ inPage = {} /\ inBuffer = {}
      /\ \A c \in Consumers : inConsumer(c) = {}
      /\ \A r \in Requests : inRequest(r) = {} /\ ~writes(r)
  BY <1>1, <1>2, <1>3 DEF inPage, inBuffer, inConsumer, inRequest, writes, messagesIn, elements
<1>5. Once
  BY <1>1, <1>3, <1>4 DEF Once, once, single
<1>6. QED
  BY <1>1, <1>4, <1>5 DEF HeldInv, Apart, Dispatched

LEMMA HeldStep ==
    ASSUME ServletInv, HeldInv, [Next]_vars
    PROVE  HeldInv'
<1>1. CASE UNCHANGED vars
  <2>1. UNCHANGED <<delivered, undelivered, pending, published, lost, rq>>
    BY <1>1 DEF vars, listenerVars, sessionVars, historyVars
  <2>2. QED
    BY <2>1 DEF HeldInv, Once, Apart, Dispatched, inConsumer, inRequest, inBuffer, inPage,
                writes, once, single
<1>2. ASSUME NEW r \in Requests,
             startGet(r) \/ (\E b \in Bodies : startPost(r, b)) \/ Enter(r) \/ Step(r) \/ expire(r)
      PROVE  HeldInv'
  BY <1>2, StepsHold, CommandsHold, ScanHolds, WriteHolds, DrainHolds, DrainFailsHolds,
     SweepHolds, AnswerHolds DEF Enter, Step
<1>3. QED
  BY <1>1, <1>2, DispatchHolds, OnMessageHolds DEF Next

-----------------------------------------------------------------------------
(***************************************************************************)
(* The sends.  A POST that does not poll is carried out once: what it has  *)
(* sent lies behind the command it is at.                                  *)
(***************************************************************************)
Sends ==
    /\ \A q, r \in Requests : rq[q].post = rq[r].post /\ rq[q].post # 0 => q = r
    /\ \A r \in Requests : rq[r].post <= posts
    /\ \A s \in sent : s.post <= posts
    /\ \A s \in resent : s.polls
    /\ \A r \in Requests : rq[r].post # 0 =>
          /\ rq[r].body.poll \/ rq[r].pc \in Posting
          /\ \A s \in sent : s.post = rq[r].post =>
                /\ s.polls = rq[r].body.poll
                /\ \/ s.polls
                   \/ rq[r].pc \in {"commands", "listen"} /\ 0 < s.cmd /\ s.cmd < rq[r].next
                   \/ rq[r].pc = "raw" /\ 0 < s.cmd

\* The request is over, or goes on with the same POST.
goesOn(r, s) ==
    \/ s.post = 0
    \/ /\ s.post = rq[r].post /\ s.body = rq[r].body
       /\ \/ rq[r].pc \notin Posting
          \/ rq[r].body.poll
          \/ rq[r].pc = "doPost" /\ s.pc \in Posting
          \/ /\ rq[r].pc \in {"commands", "listen"} /\ s.pc \in {"commands", "listen"}
             /\ s.next >= rq[r].next
          \/ rq[r].pc = "commands" /\ s.pc = "raw"

LEMMA SendTypes ==
    ASSUME TypeOK
    PROVE  /\ posts \in Nat /\ MaxPosts \in Nat
           /\ \A s \in sent : s.post \in Nat /\ s.cmd \in Nat /\ s.polls \in BOOLEAN
<1>1. MaxPosts \in Nat
  BY SizesAssumption
<1>2. posts \in 0..MaxPosts /\ sent \subseteq [post : 1..MaxPosts, cmd : Nat, polls : BOOLEAN]
  BY DEF TypeOK
<1>3. \A x \in [post : 1..MaxPosts, cmd : Nat, polls : BOOLEAN] :
         x.post \in Nat /\ x.cmd \in Nat /\ x.polls \in BOOLEAN
  BY <1>1
<1>4. QED
  BY <1>1, <1>2, <1>3

LEMMA SendsKept ==
    ASSUME TypeOK, Known, Sends, NEW r \in Requests, NEW s \in Req, rq' = [rq EXCEPT ![r] = s],
           goesOn(r, s), UNCHANGED <<posts, sent, resent>>
    PROVE  Sends'
<1>1. rq'[r] = s /\ \A q \in Requests : q # r => rq'[q] = rq[q]
  BY DEF TypeOK
<1>2. /\ rq[r] \in Req /\ posts \in Nat
      /\ \A x \in sent : x.cmd \in Nat /\ x.polls \in BOOLEAN
  BY SendTypes, RecordOf
<1>3. s.post = 0 \/ s.post = rq[r].post
  BY DEF goesOn
<1>4. \A p, q \in Requests : rq'[p].post = rq'[q].post /\ rq'[p].post # 0 => p = q
  BY <1>1, <1>3 DEF Sends
<1>5. \A q \in Requests : rq'[q].post <= posts'
  BY <1>1, <1>2, <1>3 DEF Sends
<1>6. (\A x \in sent' : x.post <= posts') /\ \A x \in resent' : x.polls
  BY DEF Sends
<1>7. ASSUME s.post # 0
      PROVE  /\ s.body.poll \/ s.pc \in Posting
             /\ \A x \in sent : x.post = s.post =>
                   /\ x.polls = s.body.poll
                   /\ \/ x.polls
                      \/ s.pc \in {"commands", "listen"} /\ 0 < x.cmd /\ x.cmd < s.next
                      \/ s.pc = "raw" /\ 0 < x.cmd
  <2>1. /\ s.post = rq[r].post /\ s.body = rq[r].body
        /\ rq[r].body.poll \/ rq[r].pc \in Posting
        /\ \A x \in sent : x.post = rq[r].post =>
                /\ x.polls = rq[r].body.poll
                /\ \/ x.polls
                   \/ rq[r].pc \in {"commands", "listen"} /\ 0 < x.cmd /\ x.cmd < rq[r].next
                   \/ rq[r].pc = "raw" /\ 0 < x.cmd
    BY <1>7 DEF goesOn, Sends
  <2>2. s.next \in Nat /\ rq[r].next \in Nat
    BY <1>2 DEF Req
  <2>3. CASE rq[r].body.poll
    BY <2>1, <2>3
  <2>4. CASE rq[r].pc = "doPost" /\ s.pc \in Posting
    BY <2>1, <2>4
  <2>5. CASE /\ rq[r].pc \in {"commands", "listen"} /\ s.pc \in {"commands", "listen"}
             /\ s.next >= rq[r].next
    BY <1>2, <2>1, <2>2, <2>5 DEF Posting
  <2>6. CASE rq[r].pc = "commands" /\ s.pc = "raw"
    BY <2>1, <2>6 DEF Posting
  <2>7. QED
    BY <1>7, <2>1, <2>3, <2>4, <2>5, <2>6 DEF goesOn
<1>8. ASSUME NEW q \in Requests, rq'[q].post # 0
      PROVE  /\ rq'[q].body.poll \/ rq'[q].pc \in Posting
             /\ \A x \in sent' : x.post = rq'[q].post =>
                   /\ x.polls = rq'[q].body.poll
                   /\ \/ x.polls
                      \/ rq'[q].pc \in {"commands", "listen"} /\ 0 < x.cmd /\ x.cmd < rq'[q].next
                      \/ rq'[q].pc = "raw" /\ 0 < x.cmd
  <2>1. CASE q = r
    BY <1>1, <1>7, <1>8, <2>1
  <2>2. CASE q # r
    BY <1>1, <1>8, <2>2 DEF Sends
  <2>3. QED
    BY <2>1, <2>2
<1>9. QED
  BY <1>4, <1>5, <1>6, <1>8 DEF Sends

LEMMA StartPostSends ==
    ASSUME ServletInv, Sends, NEW r \in Requests, NEW b \in Bodies, startPost(r, b)
    PROVE  Sends'
<1> DEFINE s == request("doPost", b, posts + 1)
<1>1. TypeOK /\ posts \in Nat /\ MaxPosts \in Nat
  BY SendTypes DEF ServletInv
<1>2. /\ rq' = [rq EXCEPT ![r] = s] /\ UNCHANGED sendVars /\ posts' = posts + 1
      /\ s.pc = "doPost" /\ s.post = posts + 1
  BY DEF startPost, request
<1> HIDE DEF s
<1>3. rq'[r] = s /\ \A q \in Requests : q # r => rq'[q] = rq[q]
  BY <1>1, <1>2 DEF TypeOK
<1>4. \A q \in Requests : rq[q].post \in Nat
  BY <1>1 DEF TypeOK
<1>5. \A x \in sent : x.post \in Nat
  BY <1>1, SendTypes
<1>6. /\ \A q \in Requests : rq[q].post <= posts /\ rq[q].post # posts + 1
      /\ \A x \in sent : x.post <= posts /\ x.post # posts + 1
  BY <1>1, <1>4, <1>5 DEF Sends
<1>7. \A p, q \in Requests : rq'[p].post = rq'[q].post /\ rq'[p].post # 0 => p = q
  BY <1>2, <1>3, <1>6 DEF Sends
<1>8. /\ \A q \in Requests : rq'[q].post <= posts'
      /\ \A x \in sent' : x.post <= posts'
      /\ \A x \in resent' : x.polls
  BY <1>1, <1>2, <1>3, <1>4, <1>5, <1>6 DEF Sends, sendVars
<1>9. ASSUME NEW q \in Requests, rq'[q].post # 0
      PROVE  /\ rq'[q].body.poll \/ rq'[q].pc \in Posting
             /\ \A x \in sent' : x.post = rq'[q].post =>
                   /\ x.polls = rq'[q].body.poll
                   /\ \/ x.polls
                      \/ rq'[q].pc \in {"commands", "listen"} /\ 0 < x.cmd /\ x.cmd < rq'[q].next
                      \/ rq'[q].pc = "raw" /\ 0 < x.cmd
  <2>1. CASE q = r
    BY <1>2, <1>3, <1>6, <2>1 DEF Posting, sendVars
  <2>2. CASE q # r
    BY <1>2, <1>3, <1>9, <2>2 DEF Sends, sendVars
  <2>3. QED
    BY <2>1, <2>2
<1>10. QED
  BY <1>7, <1>8, <1>9 DEF Sends

\* A send is the one of the command the POST is at, or of its body.
LEMMA SendSends ==
    ASSUME ServletInv, Sends, NEW r \in Requests, send(r) \/ sendBody(r)
    PROVE  Sends'
<1>1. TypeOK /\ Known /\ rq[r] \in Req /\ rq[r] \in KnownReq
  BY RecordOf DEF ServletInv
<1>2. PICK n \in Nat :
         /\ sent' = sent \union {[post |-> rq[r].post, cmd |-> n, polls |-> rq[r].body.poll]}
         /\ resent' = resent \union
               ({[post |-> rq[r].post, cmd |-> n, polls |-> rq[r].body.poll]} \intersect sent)
         /\ posts' = posts
         /\ \/ /\ rq[r].pc = "commands" /\ n = rq[r].next /\ 0 < n
               /\ rq' = [rq EXCEPT ![r] = [rq[r] EXCEPT !.pc = "commands", !.next = rq[r].next + 1]]
            \/ /\ rq[r].pc = "raw" /\ n = 0
               /\ rq' = [rq EXCEPT ![r] = Idle]
  <2>1. rq[r].next \in Nat /\ (rq[r].pc = "commands" => 0 < rq[r].next)
    BY <1>1 DEF Req, KnownReq
  <2>2. CASE send(r)
    BY <2>1, <2>2 DEF send, jmsSend, command, at, nextCommand
  <2>3. CASE sendBody(r)
    BY <2>3 DEF sendBody, jmsSend, at
  <2>4. QED
    BY <2>2, <2>3
<1> PICK x : x = [post |-> rq[r].post, cmd |-> n, polls |-> rq[r].body.poll]
  OBVIOUS
<1>3. x.post = rq[r].post /\ x.cmd = n /\ x.polls = rq[r].body.poll
  OBVIOUS
<1>4. sent' = sent \union {x} /\ resent' = resent \union ({x} \intersect sent)
  BY <1>2
<1>5. rq[r].post # 0 /\ rq[r].post <= posts /\ rq[r].post \in Nat /\ rq[r].next \in Nat
  BY <1>1, <1>2, SendTypes DEF Sends, KnownReq, Req, Posting
<1>6. x \in sent => x.polls
  BY <1>2, <1>3, <1>5 DEF Sends
<1>7. /\ \A q \in Requests : q # r => rq'[q] = rq[q] /\ rq[q].post # x.post
      /\ \/ rq'[r].post = 0
         \/ /\ rq[r].pc = "commands" /\ rq'[r].pc = "commands"
            /\ rq'[r].post = rq[r].post /\ rq'[r].body = rq[r].body
            /\ rq'[r].next = rq[r].next + 1 /\ n = rq[r].next /\ 0 < n
  <2>1. \A q \in Requests : q # r => rq'[q] = rq[q] /\ rq[q].post # x.post
    BY <1>1, <1>2, <1>3, <1>5 DEF Known, Sends
  <2>2. Idle.post = 0
    BY DEF Idle, request
  <2>3. CASE rq' = [rq EXCEPT ![r] = Idle]
    BY <1>1, <2>1, <2>2, <2>3 DEF Known
  <2>4. CASE /\ rq[r].pc = "commands" /\ n = rq[r].next /\ 0 < n
             /\ rq' = [rq EXCEPT ![r] = [rq[r] EXCEPT !.pc = "commands", !.next = rq[r].next + 1]]
    <3>1. rq'[r] = [rq[r] EXCEPT !.pc = "commands", !.next = rq[r].next + 1]
      BY <1>1, <2>4 DEF Known
    <3>2. rq'[r].pc = "commands" /\ rq'[r].post = rq[r].post /\ rq'[r].body = rq[r].body
          /\ rq'[r].next = rq[r].next + 1
      BY <1>1, <3>1 DEF Req
    <3>3. QED
      BY <2>1, <2>4, <3>2
  <2>5. QED
    BY <1>2, <2>3, <2>4
<1>8. /\ \A p, q \in Requests : rq'[p].post = rq'[q].post /\ rq'[p].post # 0 => p = q
      /\ \A q \in Requests : rq'[q].post <= posts'
  <2>1. \A q \in Requests : rq'[q].post = 0 \/ rq'[q].post = rq[q].post
    BY <1>7
  <2>2. posts \in Nat /\ posts' = posts
    BY <1>1, <1>2, SendTypes
  <2>3. QED
    BY <2>1, <2>2 DEF Sends
<1>9. (\A y \in sent' : y.post <= posts') /\ \A y \in resent' : y.polls
  BY <1>2, <1>3, <1>4, <1>5, <1>6 DEF Sends
<1>10. ASSUME NEW q \in Requests, rq'[q].post # 0
       PROVE  /\ rq'[q].body.poll \/ rq'[q].pc \in Posting
              /\ \A y \in sent' : y.post = rq'[q].post =>
                    /\ y.polls = rq'[q].body.poll
                    /\ \/ y.polls
                       \/ rq'[q].pc \in {"commands", "listen"} /\ 0 < y.cmd /\ y.cmd < rq'[q].next
                       \/ rq'[q].pc = "raw" /\ 0 < y.cmd
  <2>1. CASE q # r
    BY <1>3, <1>4, <1>7, <1>10, <2>1 DEF Sends
  <2>2. CASE q = r
    <3>1. /\ rq'[r].pc = "commands" /\ rq'[r].post = rq[r].post /\ rq'[r].body = rq[r].body
          /\ rq'[r].next = rq[r].next + 1 /\ n = rq[r].next /\ 0 < n /\ rq[r].pc = "commands"
      BY <1>7, <1>10, <2>2
    <3>2. \A y \in sent : y.cmd \in Nat
      BY <1>1, SendTypes
    <3>3. \A y \in sent : y.post = rq[r].post =>
             /\ y.polls = rq[r].body.poll
             /\ y.polls \/ (0 < y.cmd /\ y.cmd < rq[r].next + 1)
      BY <1>5, <3>1, <3>2 DEF Sends
    <3>4. x.cmd < rq[r].next + 1 /\ 0 < x.cmd
      BY <1>3, <1>5, <3>1
    <3>5. \A y \in sent' : y.post = rq[r].post =>
             /\ y.polls = rq[r].body.poll
             /\ y.polls \/ (0 < y.cmd /\ y.cmd < rq[r].next + 1)
      BY <1>3, <1>4, <3>3, <3>4
    <3>6. QED
      BY <2>2, <3>1, <3>5 DEF Posting
  <2>3. QED
    BY <2>1, <2>2
<1>11. QED
  BY <1>8, <1>9, <1>10 DEF Sends

\* Every other step of a request ends it, or goes on with the same POST.
LEMMA GoesOn ==
    ASSUME ServletInv, NEW r \in Requests,
           \/ startGet(r) \/ Enter(r) \/ expire(r)
           \/ Step(r) /\ ~send(r) /\ ~sendBody(r)
    PROVE  UNCHANGED <<posts, sent, resent>> /\ \E s : rq' = [rq EXCEPT ![r] = s] /\ goesOn(r, s)
<1>1. rq[r] \in Req
  BY RecordOf DEF ServletInv
<1>2. Idle.post = 0 /\ request("doMessages", NoBody, 0).post = 0
  BY DEF Idle, request
<1>3. CASE startGet(r) \/ answerEmpty(r) \/ answer(r) \/ drainPoison(r) \/ drainNullPointer(r)
  BY <1>2, <1>3 DEF startGet, answerEmpty, answer, drainPoison, drainNullPointer, fail, goesOn, sendVars
<1>4. CASE doPost(r)
  <2>1. goesOn(r, [rq[r] EXCEPT !.pc = "commands", !.next = 1])
    BY <1>1, <1>4 DEF doPost, at, goesOn, Req, Posting
  <2>2. QED
    BY <1>4, <2>1 DEF doPost, sendVars
<1>5. CASE setAvailableListener(r) \/ unknownType(r) \/ listenFails(r) \/ unlisten(r)
  <2>1. rq[r].pc \in {"commands", "listen"} /\ rq[r].next + 1 >= rq[r].next
        /\ rq' = [rq EXCEPT ![r] = [rq[r] EXCEPT !.pc = "commands", !.next = rq[r].next + 1]]
    <3>1. rq[r].pc \in {"commands", "listen"} /\ nextCommand(r)
      BY <1>5 DEF setAvailableListener, unknownType, listenFails, unlisten, command, at
    <3>2. rq[r].next \in Nat
      BY <1>1 DEF Req
    <3>3. rq[r].next + 1 >= rq[r].next
      BY <3>2
    <3>4. QED
      BY <3>1, <3>3 DEF nextCommand
  <2>2. goesOn(r, [rq[r] EXCEPT !.pc = "commands", !.next = rq[r].next + 1])
    BY <1>1, <2>1 DEF goesOn, Req
  <2>3. QED
    BY <1>5, <2>1, <2>2 DEF setAvailableListener, unknownType, listenFails, unlisten, sendVars
<1>6. CASE listen(r)
  <2>1. rq[r].next >= rq[r].next
    BY <1>1 DEF Req
  <2>2. goesOn(r, [rq[r] EXCEPT !.pc = "listen"])
    BY <1>1, <1>6, <2>1 DEF listen, command, at, goesOn, Req
  <2>3. QED
    BY <1>6, <2>2 DEF listen, goto, sendVars
<1>7. CASE commandsDone(r)
  <2>1. CASE rq[r].body.poll /\ goto(r, "doMessages")
    <3>1. goesOn(r, [rq[r] EXCEPT !.pc = "doMessages"])
      BY <1>1, <2>1 DEF goesOn, Req
    <3>2. QED
      BY <1>7, <2>1, <3>1 DEF commandsDone, goto, sendVars
  <2>2. CASE goto(r, "raw")
    <3>1. goesOn(r, [rq[r] EXCEPT !.pc = "raw"])
      BY <1>1, <1>7 DEF commandsDone, at, goesOn, Req
    <3>2. QED
      BY <1>7, <2>2, <3>1 DEF commandsDone, goto, sendVars
  <2>3. CASE rq' = [rq EXCEPT ![r] = Idle]
    BY <1>2, <1>7, <2>3 DEF commandsDone, goesOn, sendVars
  <2>4. QED
    BY <1>7, <2>1, <2>2, <2>3 DEF commandsDone
<1>8. CASE doMessages(r)
  <2> DEFINE v == IF rq[r].message = None THEN openConsumers ELSE {}
  <2>1. rq' = [rq EXCEPT ![r] = [rq[r] EXCEPT !.pc = "scan", !.visit = v]]
    BY <1>8 DEF doMessages
  <2> HIDE DEF v
  <2>2. goesOn(r, [rq[r] EXCEPT !.pc = "scan", !.visit = v])
    BY <1>1, <1>8 DEF doMessages, at, goesOn, Req, Posting
  <2>3. QED
    BY <1>8, <2>1, <2>2 DEF doMessages, sendVars
<1>9. CASE scan(r)
  <2>1. PICK c, m, v : rq' = [rq EXCEPT ![r] = [rq[r] EXCEPT !.consumer = c, !.message = m]]
                    \/ rq' = [rq EXCEPT ![r] = [rq[r] EXCEPT !.consumer = c, !.visit = v]]
    <3>1. PICK c \in rq[r].visit :
             \/ rq' = [rq EXCEPT ![r].consumer = c, ![r].message = Head(pending[c])]
             \/ rq' = [rq EXCEPT ![r].consumer = c, ![r].visit = @ \ {c}]
      BY <1>9 DEF scan
    <3>2. PICK m, v : m = Head(pending[c]) /\ v = rq[r].visit \ {c}
      OBVIOUS
    <3>3. \/ rq' = [rq EXCEPT ![r] = [rq[r] EXCEPT !.consumer = c, !.message = m]]
          \/ rq' = [rq EXCEPT ![r] = [rq[r] EXCEPT !.consumer = c, !.visit = v]]
      BY <3>1, <3>2
    <3>4. QED
      BY <3>3
  <2>2. /\ goesOn(r, [rq[r] EXCEPT !.consumer = c, !.message = m])
        /\ goesOn(r, [rq[r] EXCEPT !.consumer = c, !.visit = v])
    BY <1>1, <1>9 DEF scan, at, goesOn, Req, Posting
  <2>3. QED
    BY <1>9, <2>1, <2>2 DEF scan, sendVars
<1>10. CASE suspend(r) \/ setContinuation(r)
  <2>1. \A label : goesOn(r, [rq[r] EXCEPT !.pc = label])
    BY <1>1, <1>10 DEF suspend, setContinuation, scanned, at, goesOn, Req, Posting
  <2>2. QED
    BY <1>10, <2>1 DEF suspend, setContinuation, goto, sendVars
<1>11. CASE expire(r)
  <2> DEFINE a == again(r)
             s == [rq[r] EXCEPT !.pc = a, !.expired = TRUE, !.consumer = None]
  <2>1. rq' = [rq EXCEPT ![r] = s]
    BY <1>11 DEF expire
  <2> HIDE DEF a
  <2>2. goesOn(r, s)
    BY <1>1, <1>11 DEF expire, at, goesOn, Req, Posting
  <2>3. QED
    BY <1>11, <2>1, <2>2 DEF expire, sendVars
<1>12. CASE writeMessage(r)
  <2>1. CASE fail(r, {rq[r].message})
    BY <1>2, <2>1 DEF fail, goesOn, sendVars
  <2>2. CASE /\ UNCHANGED <<sendVars, posts>>
             /\ rq' = [rq EXCEPT ![r].pc = "drain", ![r].resp =
                       IF rq[r].message = None THEN <<>>
                       ELSE <<entry(rq[r].message, rq[r].consumer)>>]
    <3> DEFINE w == IF rq[r].message = None THEN <<>> ELSE <<entry(rq[r].message, rq[r].consumer)>>
    <3>1. rq' = [rq EXCEPT ![r] = [rq[r] EXCEPT !.pc = "drain", !.resp = w]]
      BY <2>2
    <3> HIDE DEF w
    <3>2. goesOn(r, [rq[r] EXCEPT !.pc = "drain", !.resp = w])
      BY <1>1, <1>12 DEF writeMessage, scanned, at, goesOn, Req, Posting
    <3>3. QED
      BY <2>2, <3>1, <3>2 DEF sendVars
  <2>3. QED
    BY <1>12, <2>1, <2>2 DEF writeMessage
<1>13. CASE drain(r)
  <2> DEFINE y == rq[r].resp \o [i \in 1..written(r) |->
                                   entry(undelivered[i].msg, undelivered[i].consumer)]
             v == openConsumers
  <2>1. rq' = [rq EXCEPT ![r] = [rq[r] EXCEPT !.pc = "sweep", !.visit = v, !.resp = y]]
    BY <1>13 DEF drain
  <2> HIDE DEF v, y
  <2>2. goesOn(r, [rq[r] EXCEPT !.pc = "sweep", !.visit = v, !.resp = y])
    BY <1>1, <1>13 DEF drain, at, goesOn, Req, Posting
  <2>3. QED
    BY <1>13, <2>1, <2>2 DEF drain, sendVars
<1>14. CASE sweep(r)
  <2>1. PICK v, y : \/ rq' = [rq EXCEPT ![r] = [rq[r] EXCEPT !.visit = v]] /\ UNCHANGED <<sendVars, posts>>
                    \/ rq' = [rq EXCEPT ![r] = [rq[r] EXCEPT !.resp = y]] /\ UNCHANGED <<sendVars, posts>>
                    \/ rq' = [rq EXCEPT ![r] = Idle] /\ UNCHANGED <<sendVars, posts>>
    BY <1>14 DEF sweep, fail
  <2>2. /\ goesOn(r, [rq[r] EXCEPT !.visit = v])
        /\ goesOn(r, [rq[r] EXCEPT !.resp = y])
        /\ goesOn(r, Idle)
    BY <1>1, <1>2, <1>14 DEF sweep, at, goesOn, Req, Posting
  <2>3. QED
    BY <2>1, <2>2 DEF sendVars
<1>15. QED
  BY <1>3, <1>4, <1>5, <1>6, <1>7, <1>8, <1>9, <1>10, <1>11, <1>12, <1>13, <1>14 DEF Enter, Step

LEMMA SendsInitially == Init => Sends
<1> SUFFICES ASSUME Init PROVE Sends
  OBVIOUS
<1>1. posts = 0 /\ sent = {} /\ resent = {} /\ \A r \in Requests : rq[r].post = 0
  BY DEF Init, Idle, request
<1>2. QED
  BY <1>1 DEF Sends

LEMMA SendsStep ==
    ASSUME ServletInv, Sends, [Next]_vars
    PROVE  Sends'
<1>1. TypeOK /\ Known /\ rq' \in [Requests -> Req]
  BY ServletStep DEF ServletInv, TypeOK, Req
<1>2. ASSUME NEW r \in Requests, NEW s, rq' = [rq EXCEPT ![r] = s], goesOn(r, s),
             UNCHANGED <<posts, sent, resent>>
      PROVE  Sends'
  <2>1. rq'[r] = s
    BY <1>1, <1>2 DEF Known
  <2>2. s \in Req
    BY <1>1, <2>1
  <2>3. QED
    BY <1>1, <1>2, <2>2, SendsKept
<1>3. ASSUME NEW r \in Requests, startGet(r) \/ Enter(r) \/ Step(r) \/ expire(r)
      PROVE  Sends'
  <2>1. CASE send(r) \/ sendBody(r)
    BY <2>1, SendSends
  <2>2. CASE ~send(r) /\ ~sendBody(r)
    BY <1>2, <1>3, <2>2, GoesOn
  <2>3. QED
    BY <2>1, <2>2
<1>4. ASSUME UNCHANGED <<rq, posts, sent, resent>>
      PROVE  Sends'
  BY <1>4 DEF Sends
<1>5. ASSUME onMessageAvailable
      PROVE  Sends'
  <2>1. UNCHANGED <<posts, sent, resent>>
    BY <1>5 DEF onMessageAvailable, sendVars
  <2>2. CASE UNCHANGED rq
    BY <1>4, <2>1, <2>2
  <2>3. CASE waits /\ \E a, m, c :
                rq' = [rq EXCEPT ![continuation] =
                          [rq[continuation] EXCEPT !.pc = a, !.message = m, !.consumer = c]]
    <3>1. PICK r \in Requests : r = continuation /\ rq[r].pc = "parked"
      BY <1>1, <2>3 DEF waits, at, TypeOK
    <3>2. PICK a, m, c :
             rq' = [rq EXCEPT ![continuation] =
                       [rq[continuation] EXCEPT !.pc = a, !.message = m, !.consumer = c]]
      BY <2>3
    <3> DEFINE s == [rq[r] EXCEPT !.pc = a, !.message = m, !.consumer = c]
    <3>3. goesOn(r, s)
      BY <1>1, <3>1, RecordOf DEF goesOn, Req, Posting
    <3>4. rq' = [rq EXCEPT ![r] = s]
      BY <3>1, <3>2
    <3>5. QED
      BY <1>2, <2>1, <3>3, <3>4
  <2>4. QED
    <3>1. \/ UNCHANGED rq
          \/ waits /\ rq' = [rq EXCEPT ![continuation].pc = again(continuation),
                                       ![continuation].message = Head(pending[dispatching]),
                                       ![continuation].consumer = dispatching]
      BY <1>5 DEF onMessageAvailable
    <3>2. PICK a, m, c : a = again(continuation) /\ m = Head(pending[dispatching]) /\ c = dispatching
      OBVIOUS
    <3>3. \/ UNCHANGED rq
          \/ waits /\ rq' = [rq EXCEPT ![continuation] =
                          [rq[continuation] EXCEPT !.pc = a, !.message = m, !.consumer = c]]
      BY <3>1, <3>2
    <3>4. QED
      BY <2>2, <2>3, <3>3
<1>6. CASE UNCHANGED vars
  BY <1>4, <1>6 DEF vars, sendVars
<1>7. ASSUME NEW d \in Dests, dispatch(d)
      PROVE  Sends'
  BY <1>4, <1>7 DEF dispatch, sendVars
<1>8. QED
  BY <1>3, <1>5, <1>6, <1>7, StartPostSends DEF Next

LEMMA HeldInvariant == Spec => []HeldInv
<1>1. Init => HeldInv
  BY HeldInitially
<1>2. ServletInv /\ HeldInv /\ [Next]_vars => HeldInv'
  BY HeldStep
<1>3. QED
  BY <1>1, <1>2, ServletInvariant, PTL DEF Spec

\* No message is given to the page twice, whichever of the three ways it takes
\* (MessageListenerServlet.java:371-378 the one the poll has, 382-399 those in
\* the buffer, 402-420 those the consumers hold), and no send is carried out
\* twice but by a POST that polls (lines 206 and 349): for any
\* number of request threads, destinations, posts and messages, with each look
\* at the consumers and at the buffer a step between which the dispatch thread
\* may run.
THEOREM GivenOnce == Spec => []AtMostOnce
<1>1. Init => Sends
  BY SendsInitially
<1>2. ServletInv /\ Sends /\ [Next]_vars => Sends'
  BY SendsStep
<1>3. HeldInv /\ Sends => AtMostOnce
  BY DEF HeldInv, Once, once, Sends, AtMostOnce
<1>4. QED
  BY <1>1, <1>2, <1>3, HeldInvariant, ServletInvariant, PTL DEF Spec

-----------------------------------------------------------------------------
(***************************************************************************)
(* What is dispatched stays somewhere.  Intact is the hypothesis of        *)
(* NoneVanishes: no consumer has been closed.  Under it consumers, their   *)
(* listeners and what they hold are only added to.                         *)
(***************************************************************************)
Intact == openConsumers = 1..created

LEMMA OpenBounds ==
    ASSUME ServletInv
    PROVE  /\ created \in Nat /\ openConsumers \subseteq 1..created
           /\ created = Cardinality(openConsumers) <=> Intact
<1>1. created \in Nat
  <2>1. created \in 0..MaxConsumers /\ MaxConsumers \in Nat
    BY SizesAssumption DEF ServletInv, TypeOK
  <2>2. QED
    BY <2>1
<1>2. openConsumers \subseteq 1..created
  BY <1>1 DEF ServletInv, Registered, openConsumers, None
<1>3. IsFiniteSet(1..created) /\ Cardinality(1..created) = created
  BY <1>1, FS_Interval
<1>4. created = Cardinality(openConsumers) => openConsumers = 1..created
  BY <1>2, <1>3, FS_Subset
<1>5. QED
  BY <1>1, <1>2, <1>3, <1>4 DEF Intact

\* A command that finds a consumer open closes it.
LEMMA CommandsClose ==
    ASSUME ServletInv, NEW r \in Requests, listen(r) \/ listenFails(r) \/ unlisten(r), Intact'
    PROVE  /\ Intact /\ listening \ {None} \subseteq listening'
           /\ pending' = pending /\ openConsumers \subseteq openConsumers'
           /\ ~listen(r) => openConsumers' = openConsumers
<1> PICK d : d = rq[r].body.cmds[rq[r].next].dest
  OBVIOUS
<1>1. TypeOK /\ Registered /\ d \in Dests
  BY CommandFacts DEF ServletInv, listen, listenFails, unlisten
<1>2. created \in Nat /\ openConsumers \subseteq 1..created
  BY OpenBounds
<1>3. /\ consumerOf \in [Dests -> Consumers \union {None}]
      /\ \A e \in Dests : consumerOf[e] \in 0..created
      /\ \A e \in Dests : consumerOf[e] = consumerOf[d] /\ consumerOf[e] # None => e = d
  BY <1>1 DEF TypeOK, Registered
<1>4. PICK n \in Nat : /\ consumerOf' = [consumerOf EXCEPT ![d] = n]
                       /\ \/ listen(r) /\ n = created + 1 /\ created' = created + 1
                          \/ ~listen(r) /\ n = None /\ created' = created
  <2>1. CASE listen(r)
    <3>1. PICK n \in Nat : n = created + 1
      BY <1>2
    <3>2. consumerOf' = [consumerOf EXCEPT ![d] = n] /\ created' = created + 1
      BY <2>1, <3>1 DEF listen
    <3>3. QED
      BY <2>1, <3>1, <3>2
  <2>2. CASE listenFails(r) \/ unlisten(r)
    <3>1. ~listen(r)
      BY <2>2 DEF listen, listenFails, unlisten, command
    <3>2. PICK n \in Nat : n = None
      BY DEF None
    <3>3. consumerOf' = [consumerOf EXCEPT ![d] = n] /\ created' = created
      BY <2>2, <3>2 DEF listenFails, unlisten
    <3>4. QED
      BY <3>1, <3>2, <3>3
  <2>3. QED
    BY <2>1, <2>2
<1>5. consumerOf'[d] = n /\ \A e \in Dests : e # d => consumerOf'[e] = consumerOf[e]
  BY <1>1, <1>3, <1>4
<1>6. consumerOf[d] = None
  <2>1. SUFFICES ASSUME consumerOf[d] # None PROVE FALSE
    OBVIOUS
  <2>2. consumerOf[d] \in 1..created /\ consumerOf[d] # n /\ consumerOf[d] \in 1..created'
    <3>1. consumerOf[d] \in 1..created
      BY <1>1, <1>2, <1>3, <2>1 DEF None
    <3>2. (n = created + 1 /\ created' = created + 1) \/ (n = None /\ created' = created)
      BY <1>4
    <3>3. QED
      BY <1>2, <2>1, <3>1, <3>2
  <2>3. consumerOf[d] \in openConsumers'
    BY <2>2 DEF Intact
  <2>4. PICK e \in Dests : consumerOf'[e] = consumerOf[d]
    BY <2>3 DEF openConsumers
  <2>5. e # d
    BY <1>5, <2>2, <2>4
  <2>6. QED
    BY <1>3, <1>5, <2>1, <2>4, <2>5
<1>7. closed(d) = pending
  BY <1>6 DEF closed
<1>8. pending' = pending
  BY <1>7 DEF listen, listenFails, unlisten
<1>9. listening \ {None} \subseteq listening'
  BY <1>6 DEF listen, listenFails, unlisten
<1>10. openConsumers \subseteq openConsumers'
  BY <1>5, <1>6 DEF openConsumers
<1>11. openConsumers' \subseteq openConsumers \union {n}
  BY <1>5 DEF openConsumers
<1>12. CASE listen(r)
  <2>1. n = created + 1 /\ created' = created + 1
    BY <1>4, <1>12
  <2>2. \A k \in 1..created : k \in 1..created' /\ k # n
    BY <1>2, <2>1
  <2>3. 1..created \subseteq openConsumers
    BY <1>11, <2>2 DEF Intact
  <2>4. Intact
    BY <1>2, <2>3 DEF Intact
  <2>5. QED
    BY <1>8, <1>9, <1>10, <1>12, <2>4
<1>13. CASE ~listen(r)
  <2>1. consumerOf' = consumerOf /\ created' = created
    BY <1>1, <1>3, <1>4, <1>5, <1>6, <1>13
  <2>2. openConsumers' = openConsumers
    BY <2>1 DEF openConsumers
  <2>3. Intact
    BY <2>1, <2>2 DEF Intact
  <2>4. QED
    BY <1>8, <1>9, <2>2, <2>3
<1>14. QED
  BY <1>12, <1>13

\* The other steps of the requests leave the consumers alone, but for the
\* listener that a listen sets.
LEMMA OthersClose ==
    ASSUME NEW r \in Requests,
           \/ startGet(r) \/ (\E b \in Bodies : startPost(r, b)) \/ Enter(r) \/ expire(r)
           \/ Step(r) /\ ~listen(r) /\ ~listenFails(r) /\ ~unlisten(r)
    PROVE  UNCHANGED <<consumerOf, created>> /\ listening \subseteq listening'
<1>1. CASE startGet(r) \/ (\E b \in Bodies : startPost(r, b)) \/ Enter(r) \/ expire(r)
  BY <1>1 DEF startGet, startPost, Enter, doPost, doMessages, expire, clientVars
<1>2. CASE setAvailableListener(r)
  BY <1>2 DEF setAvailableListener
<1>3. CASE \/ send(r) \/ unknownType(r) \/ commandsDone(r) \/ sendBody(r)
           \/ scan(r) \/ answerEmpty(r) \/ suspend(r) \/ setContinuation(r)
  BY <1>3 DEF send, unknownType, commandsDone, sendBody, scan, answerEmpty, suspend,
              setContinuation, clientVars
<1>4. CASE writeMessage(r) \/ drain(r) \/ drainPoison(r) \/ drainNullPointer(r) \/ answer(r)
  BY <1>4 DEF writeMessage, drain, drainPoison, drainNullPointer, answer, fail, clientVars
<1>5. CASE sweep(r)
  BY <1>5 DEF sweep, fail, clientVars
<1>6. QED
  BY <1>1, <1>2, <1>3, <1>4, <1>5 DEF Step

\* The ways a step of a request changes its local variables.
same(r, s) ==
    /\ s.post = rq[r].post /\ s.body = rq[r].body
    /\ s.message = rq[r].message /\ s.consumer = rq[r].consumer

move(r, s) ==
    \/ s.pc \in {"idle", "doMessages", "doPost"} /\ s.message = None /\ s.consumer = None
    \/ /\ same(r, s) /\ ~writes(r)
       /\ s.pc \in {"commands", "listen", "doMessages", "suspended", "parked"}
    \/ same(r, s) /\ ~writes(r) /\ s.pc = "raw" /\ ~rq[r].body.poll
    \/ /\ same(r, s) /\ rq[r].pc = "doMessages" /\ s.pc = "scan"
       /\ s.visit = IF rq[r].message = None THEN openConsumers ELSE {}
    \/ /\ rq[r].pc = "scan" /\ s.pc = "scan" /\ s.post = rq[r].post /\ s.body = rq[r].body
       /\ \E c \in rq[r].visit :
             /\ s.consumer = c /\ s.visit \subseteq rq[r].visit
             /\ \/ s.message = rq[r].message
                \/ pending[c] # <<>> /\ s.message = Head(pending[c])
    \/ same(r, s) /\ scanned(r) /\ ~nothingToSend(r) /\ s.pc = "drain"
    \/ same(r, s) /\ rq[r].pc \in {"drain", "sweep"} /\ s.pc = "sweep"

LEMMA PlainMoves ==
    ASSUME ServletInv, NEW r \in Requests,
           \/ doPost(r) \/ setAvailableListener(r) \/ send(r) \/ unknownType(r)
           \/ listen(r) \/ listenFails(r) \/ unlisten(r) \/ suspend(r) \/ setContinuation(r)
           \/ commandsDone(r)
    PROVE  \E s : rq' = [rq EXCEPT ![r] = s] /\ move(r, s)
<1>1. rq[r] \in Req
  BY RecordOf DEF ServletInv
<1>2. ASSUME ~writes(r), NEW label \in {"commands", "listen", "doMessages", "suspended", "parked"},
             goto(r, label)
      PROVE  \E s : rq' = [rq EXCEPT ![r] = s] /\ move(r, s)
  <2>1. move(r, [rq[r] EXCEPT !.pc = label])
    BY <1>1, <1>2 DEF move, same, Req
  <2>2. QED
    BY <1>2, <2>1 DEF goto
<1>3. ASSUME ~writes(r), NEW n \in Nat,
             rq' = [rq EXCEPT ![r] = [rq[r] EXCEPT !.pc = "commands", !.next = n]]
      PROVE  \E s : rq' = [rq EXCEPT ![r] = s] /\ move(r, s)
  <2>1. move(r, [rq[r] EXCEPT !.pc = "commands", !.next = n])
    BY <1>1, <1>3 DEF move, same, Req
  <2>2. QED
    BY <1>3, <2>1
<1>4. CASE doPost(r)
  <2>1. ~writes(r) /\ 1 \in Nat
        /\ rq' = [rq EXCEPT ![r] = [rq[r] EXCEPT !.pc = "commands", !.next = 1]]
    BY <1>4 DEF doPost, at, writes
  <2>2. QED
    BY <1>3, <2>1
<1>5. CASE \/ setAvailableListener(r) \/ send(r) \/ unknownType(r)
           \/ listenFails(r) \/ unlisten(r)
  <2>1. ~writes(r) /\ nextCommand(r)
    BY <1>5 DEF setAvailableListener, send, unknownType, listenFails, unlisten, command, at, writes
  <2>2. PICK n \in Nat : n = rq[r].next + 1
    BY <1>1 DEF Req
  <2>3. rq' = [rq EXCEPT ![r] = [rq[r] EXCEPT !.pc = "commands", !.next = n]]
    BY <2>1, <2>2 DEF nextCommand
  <2>4. QED
    BY <1>3, <2>1, <2>3
<1>6. CASE listen(r)
  BY <1>2, <1>6 DEF listen, command, at, writes
<1>7. CASE suspend(r) \/ setContinuation(r)
  BY <1>2, <1>7 DEF suspend, setContinuation, scanned, at, writes
<1>8. CASE commandsDone(r)
  <2>1. ~writes(r)
    BY <1>8 DEF commandsDone, at, writes
  <2>2. CASE goto(r, "doMessages")
    BY <1>2, <2>1, <2>2
  <2>3. CASE ~rq[r].body.poll /\ goto(r, "raw")
    <3>1. move(r, [rq[r] EXCEPT !.pc = "raw"])
      BY <1>1, <2>1, <2>3 DEF move, same, Req
    <3>2. QED
      BY <2>3, <3>1 DEF goto
  <2>4. CASE rq' = [rq EXCEPT ![r] = Idle]
    <3>1. move(r, Idle)
      BY DEF move, Idle, request
    <3>2. QED
      BY <2>4, <3>1
  <2>5. QED
    BY <1>8, <2>2, <2>3, <2>4 DEF commandsDone
<1>9. QED
  BY <1>4, <1>5, <1>6, <1>7, <1>8

LEMMA PollMoves ==
    ASSUME ServletInv, NEW r \in Requests,
           \/ doMessages(r) \/ scan(r) \/ writeMessage(r) \/ drain(r) \/ sweep(r) \/ expire(r)
    PROVE  \E s : rq' = [rq EXCEPT ![r] = s] /\ move(r, s)
<1>1. rq[r] \in Req /\ rq[r] \in KnownReq
  BY RecordOf DEF ServletInv
<1>2. move(r, Idle)
  BY DEF move, Idle, request
<1>3. CASE doMessages(r)
  <2> DEFINE v == IF rq[r].message = None THEN openConsumers ELSE {}
             s == [rq[r] EXCEPT !.pc = "scan", !.visit = v]
  <2>1. rq' = [rq EXCEPT ![r] = s] /\ rq[r].pc = "doMessages"
    BY <1>3 DEF doMessages, at
  <2>2. s.visit = v /\ s.pc = "scan" /\ same(r, s)
    <3> HIDE DEF v
    <3>1. QED
      BY <1>1 DEF Req, same
  <2> HIDE DEF s
  <2>3. move(r, s)
    BY <2>1, <2>2 DEF move
  <2>4. QED
    BY <2>1, <2>3
<1>4. CASE scan(r)
  <2>1. rq[r].pc = "scan"
    BY <1>4 DEF scan, at
  <2>2. PICK c \in rq[r].visit :
           \/ /\ pending[c] # <<>>
              /\ rq' = [rq EXCEPT ![r].consumer = c, ![r].message = Head(pending[c])]
           \/ rq' = [rq EXCEPT ![r].consumer = c, ![r].visit = @ \ {c}]
    BY <1>4 DEF scan
  <2>3. PICK m : m = Head(pending[c])
    OBVIOUS
  <2>4. PICK v : v = rq[r].visit \ {c}
    OBVIOUS
  <2>5. CASE /\ pending[c] # <<>>
             /\ rq' = [rq EXCEPT ![r].consumer = c, ![r].message = Head(pending[c])]
    <3> DEFINE s == [rq[r] EXCEPT !.consumer = c, !.message = m]
    <3>1. rq' = [rq EXCEPT ![r] = s]
      BY <2>3, <2>5
    <3>2. s.pc = "scan" /\ s.post = rq[r].post /\ s.body = rq[r].body /\ s.consumer = c
          /\ s.visit = rq[r].visit /\ s.message = m
      BY <1>1, <2>1 DEF Req
    <3> HIDE DEF s
    <3>3. move(r, s)
      BY <2>1, <2>3, <2>5, <3>2 DEF move
    <3>4. QED
      BY <3>1, <3>3
  <2>6. CASE rq' = [rq EXCEPT ![r].consumer = c, ![r].visit = @ \ {c}]
    <3> DEFINE s == [rq[r] EXCEPT !.consumer = c, !.visit = v]
    <3>1. rq' = [rq EXCEPT ![r] = s]
      BY <2>4, <2>6
    <3>2. s.pc = "scan" /\ s.post = rq[r].post /\ s.body = rq[r].body /\ s.consumer = c
          /\ s.visit = v /\ s.message = rq[r].message
      BY <1>1, <2>1 DEF Req
    <3>3. v \subseteq rq[r].visit
      BY <2>4
    <3> HIDE DEF s
    <3>4. move(r, s)
      BY <2>1, <3>2, <3>3 DEF move
    <3>5. QED
      BY <3>1, <3>4
  <2>7. QED
    BY <2>2, <2>5, <2>6
<1>5. CASE writeMessage(r)
  <2>1. CASE fail(r, {rq[r].message})
    BY <1>2, <2>1 DEF fail
  <2>2. CASE rq' = [rq EXCEPT ![r].pc = "drain", ![r].resp =
                       IF rq[r].message = None THEN <<>>
                       ELSE <<entry(rq[r].message, rq[r].consumer)>>]
    <3> DEFINE w == IF rq[r].message = None THEN <<>> ELSE <<entry(rq[r].message, rq[r].consumer)>>
               s == [rq[r] EXCEPT !.pc = "drain", !.resp = w]
    <3>1. rq' = [rq EXCEPT ![r] = s]
      BY <2>2
    <3> HIDE DEF w
    <3>2. same(r, s) /\ s.pc = "drain"
      BY <1>1 DEF same, Req
    <3> HIDE DEF s
    <3>3. move(r, s)
      BY <1>5, <3>2 DEF move, writeMessage
    <3>4. QED
      BY <3>1, <3>3
  <2>3. QED
    BY <1>5, <2>1, <2>2 DEF writeMessage
<1>6. CASE drain(r)
  <2> DEFINE y == rq[r].resp \o [i \in 1..written(r) |->
                                   entry(undelivered[i].msg, undelivered[i].consumer)]
             v == openConsumers
             s == [rq[r] EXCEPT !.pc = "sweep", !.visit = v, !.resp = y]
  <2>1. rq' = [rq EXCEPT ![r] = s]
    BY <1>6 DEF drain
  <2> HIDE DEF v, y
  <2>2. same(r, s) /\ s.pc = "sweep" /\ rq[r].pc = "drain"
    BY <1>1, <1>6 DEF drain, at, same, Req
  <2> HIDE DEF s
  <2>3. QED
    BY <2>1, <2>2 DEF move
<1>7. CASE sweep(r)
  <2>1. PICK v, y : \/ rq' = [rq EXCEPT ![r] = [rq[r] EXCEPT !.visit = v]]
                    \/ rq' = [rq EXCEPT ![r] = [rq[r] EXCEPT !.resp = y]]
                    \/ rq' = [rq EXCEPT ![r] = Idle]
    BY <1>7 DEF sweep, fail
  <2>2. /\ move(r, [rq[r] EXCEPT !.visit = v])
        /\ move(r, [rq[r] EXCEPT !.resp = y])
    BY <1>1, <1>7 DEF sweep, at, move, same, Req
  <2>3. QED
    BY <1>2, <2>1, <2>2
<1>8. CASE expire(r)
  <2> DEFINE a == again(r)
             s == [rq[r] EXCEPT !.pc = a, !.expired = TRUE, !.consumer = None]
  <2>1. rq' = [rq EXCEPT ![r] = s] /\ a \in {"doPost", "doMessages"} /\ rq[r].message = None
    BY <1>1, <1>8 DEF expire, again, at, KnownReq
  <2> HIDE DEF a
  <2>2. s.pc = a /\ s.message = rq[r].message /\ s.consumer = None
    BY <1>1 DEF Req
  <2> HIDE DEF s
  <2>3. QED
    BY <2>1, <2>2 DEF move
<1>9. QED
  BY <1>3, <1>4, <1>5, <1>6, <1>7, <1>8

LEMMA Moves ==
    ASSUME ServletInv, NEW r \in Requests,
           startGet(r) \/ (\E b \in Bodies : startPost(r, b)) \/ Enter(r) \/ Step(r) \/ expire(r)
    PROVE  move(r, rq'[r]) /\ \A q \in Requests : q # r => rq'[q] = rq[q]
<1>1. CASE \/ startGet(r) \/ (\E b \in Bodies : startPost(r, b)) \/ sendBody(r) \/ answerEmpty(r)
           \/ drainPoison(r) \/ drainNullPointer(r) \/ answer(r)
  <2>1. \A pc \in {"idle", "doMessages", "doPost"} : \A b, n : move(r, request(pc, b, n))
    BY DEF move, request
  <2>2. \E s : rq' = [rq EXCEPT ![r] = s] /\ move(r, s)
    BY <1>1, <2>1 DEF startGet, startPost, sendBody, answerEmpty, drainPoison, drainNullPointer,
                      answer, fail, Idle
  <2>3. QED
    BY <2>2 DEF ServletInv, Known
<1>2. CASE \E s : rq' = [rq EXCEPT ![r] = s] /\ move(r, s)
  BY <1>2 DEF ServletInv, Known
<1>3. QED
  BY <1>1, <1>2, PlainMoves, PollMoves DEF Enter, Step

\* The dispatch thread hands a message to the poll that waits.
LEMMA HandOver ==
    ASSUME ServletInv, onMessageAvailable
    PROVE  \/ UNCHANGED <<pending, undelivered, rq>>
           \/ \E r \in Requests, c \in Consumers :
                 /\ c = dispatching /\ pending[c] # <<>>
                 /\ pending' = [pending EXCEPT ![c] = Tail(@)]
                 /\ undelivered' = undelivered
                 /\ rq[r].pc = "parked" /\ rq[r].message = None
                 /\ rq'[r].pc \in {"doMessages", "doPost"}
                 /\ rq'[r].post = rq[r].post /\ rq'[r].body = rq[r].body
                 /\ rq'[r].message = Head(pending[c]) /\ rq'[r].consumer = c
                 /\ \A q \in Requests : q # r => rq'[q] = rq[q]
           \/ \E c \in Consumers :
                 /\ c = dispatching /\ pending[c] # <<>>
                 /\ pending' = [pending EXCEPT ![c] = Tail(@)]
                 /\ undelivered' = Append(undelivered, [msg |-> Head(pending[c]), consumer |-> c])
                 /\ rq' = rq
<1>1. TypeOK /\ Known
  BY DEF ServletInv
<1> PICK c \in Consumers : c = dispatching
  BY <1>1 DEF onMessageAvailable, TypeOK
<1>2. CASE /\ pending[c] # <<>> /\ waits
           /\ pending' = [pending EXCEPT ![c] = Tail(@)]
           /\ rq' = [rq EXCEPT ![continuation].pc = again(continuation),
                               ![continuation].message = Head(pending[c]),
                               ![continuation].consumer = c]
           /\ UNCHANGED undelivered
  <2> PICK r \in Requests : r = continuation
    BY <1>1, <1>2 DEF waits, TypeOK
  <2> DEFINE m == Head(pending[c])
             a == again(r)
             s == [rq[r] EXCEPT !.pc = a, !.message = m, !.consumer = c]
  <2>1. rq[r] \in Req /\ rq[r] \in KnownReq /\ a \in {"doMessages", "doPost"}
        /\ rq' = [rq EXCEPT ![r] = s]
    BY <1>1, <1>2, RecordOf DEF again
  <2>2. rq[r].pc = "parked" /\ rq[r].message = None
    BY <1>2, <2>1 DEF waits, at, KnownReq
  <2> HIDE DEF a
  <2>3. s.pc = a /\ s.message = m /\ s.consumer = c /\ s.post = rq[r].post /\ s.body = rq[r].body
    <3> HIDE DEF m
    <3>1. QED
      BY <2>1 DEF Req
  <2> HIDE DEF s
  <2>4. rq'[r] = s /\ \A q \in Requests : q # r => rq'[q] = rq[q]
    BY <1>1, <2>1 DEF Known
  <2>5. QED
    BY <1>2, <2>1, <2>2, <2>3, <2>4
<1>3. QED
  BY <1>2 DEF onMessageAvailable

-----------------------------------------------------------------------------
\* What a poll takes with it: a message that has been dispatched.  Only a POST
\* that polls is ever resumed, so that none comes to an end with a message.
Quiet ==
    /\ created = 0 => published = 0
    /\ \A r \in Requests :
          /\ rq[r].message # None => rq[r].message \in 1..published
          /\ rq[r].pc = "idle" => rq[r].message = None
          /\ rq[r].pc = "raw" => ~rq[r].body.poll
          /\ rq[r].post # 0 /\ ~rq[r].body.poll => rq[r].message = None

LEMMA QuietStep ==
    ASSUME ServletInv, HeldInv, Sends, Quiet, [Next]_vars
    PROVE  Quiet'
<1>1. TypeOK /\ Registered /\ published \in Nat /\ created \in Nat
  <2>1. TypeOK /\ Registered /\ published \in 0..MaxMessages /\ MaxMessages \in Nat
    BY SizesAssumption DEF ServletInv, TypeOK
  <2>2. QED
    BY <2>1, OpenBounds
<1>2. \A r \in Requests : rq[r].post # 0 => rq[r].body.poll \/ rq[r].pc \in Posting
  BY DEF Sends
<1>3. ASSUME NEW r \in Requests, published' = published, created' = created \/ created' = created + 1,
             \A q \in Requests : q # r => rq'[q] = rq[q],
             rq'[r].message # None => rq'[r].message \in 1..published,
             rq'[r].pc = "idle" => rq'[r].message = None,
             rq'[r].pc = "raw" => ~rq'[r].body.poll,
             rq'[r].post # 0 /\ ~rq'[r].body.poll => rq'[r].message = None
      PROVE  Quiet'
  <2>1. created' = 0 => published' = 0
    BY <1>1, <1>3 DEF Quiet
  <2>2. ASSUME NEW q \in Requests
        PROVE  /\ rq'[q].message # None => rq'[q].message \in 1..published'
               /\ rq'[q].pc = "idle" => rq'[q].message = None
               /\ rq'[q].pc = "raw" => ~rq'[q].body.poll
               /\ rq'[q].post # 0 /\ ~rq'[q].body.poll => rq'[q].message = None
    <3>1. CASE q = r
      BY <1>3, <3>1
    <3>2. CASE q # r
      BY <1>3, <3>2 DEF Quiet
    <3>3. QED
      BY <3>1, <3>2
  <2>3. QED
    BY <2>1, <2>2 DEF Quiet
<1>4. ASSUME NEW c \in Consumers, pending[c] # <<>>
      PROVE  Head(pending[c]) \in 1..published
  <2>1. pending[c] \in Seq(Messages) /\ single(pending[c])
    BY <1>1 DEF TypeOK, HeldInv, Once
  <2>2. Head(pending[c]) \in inConsumer(c)
    BY <1>4, <2>1, TakeHead DEF inConsumer
  <2>3. QED
    BY <2>2 DEF HeldInv, Dispatched
<1>5. ASSUME NEW r \in Requests,
             startGet(r) \/ (\E b \in Bodies : startPost(r, b)) \/ Enter(r) \/ Step(r) \/ expire(r)
      PROVE  Quiet'
  <2>1. move(r, rq'[r]) /\ \A q \in Requests : q # r => rq'[q] = rq[q]
    BY <1>5, Moves
  <2>2. published' = published /\ (created' = created \/ created' = created + 1)
    <3>1. CASE listen(r)
      BY <3>1 DEF listen
    <3>2. CASE listenFails(r) \/ unlisten(r)
      BY <3>2 DEF listenFails, unlisten
    <3>3. CASE UNCHANGED <<consumerOf, created>>
      BY <1>5, <3>3 DEF startGet, startPost, Enter, Step, expire, doPost, doMessages, listen,
             setAvailableListener, listenFails, unlisten, send, unknownType, commandsDone,
             sendBody, scan, answerEmpty, suspend, setContinuation, writeMessage, drain,
             drainPoison, drainNullPointer, sweep, answer, fail, sessionVars
    <3>4. QED
      BY <1>5, <3>1, <3>2, <3>3, OthersClose
  <2>3. /\ rq[r].message # None => rq[r].message \in 1..published
        /\ rq[r].post # 0 /\ ~rq[r].body.poll => rq[r].message = None
        /\ rq[r].visit \subseteq Consumers
    BY RecordOf DEF Quiet, ServletInv, Req
  <2>4. CASE rq'[r].pc \in {"idle", "doMessages", "doPost"} /\ rq'[r].message = None
    BY <1>3, <2>1, <2>2, <2>4
  <2>5. CASE /\ rq'[r].post = rq[r].post /\ rq'[r].body = rq[r].body
             /\ rq'[r].message = rq[r].message
             /\ rq'[r].pc # "idle" /\ (rq'[r].pc = "raw" => ~rq[r].body.poll)
    BY <1>3, <2>1, <2>2, <2>3, <2>5
  <2>6. CASE /\ rq[r].pc = "scan" /\ rq'[r].pc = "scan"
             /\ rq'[r].post = rq[r].post /\ rq'[r].body = rq[r].body
             /\ \E c \in rq[r].visit : pending[c] # <<>> /\ rq'[r].message = Head(pending[c])
    <3>1. rq'[r].message \in 1..published
      BY <1>4, <2>3, <2>6
    <3>2. rq'[r].post # 0 => rq'[r].body.poll
      BY <1>2, <2>6 DEF Posting
    <3>3. QED
      BY <1>3, <2>1, <2>2, <2>6, <3>1, <3>2
  <2>7. QED
    BY <2>1, <2>4, <2>5, <2>6 DEF move, same
<1>6. CASE UNCHANGED <<rq, published, created>>
  BY <1>6 DEF Quiet
<1>7. ASSUME onMessageAvailable
      PROVE  Quiet'
  <2>1. UNCHANGED <<published, created>>
    BY <1>7 DEF onMessageAvailable, clientVars
  <2>2. CASE rq' = rq
    BY <1>6, <2>1, <2>2
  <2>3. ASSUME NEW r \in Requests, NEW c \in Consumers, pending[c] # <<>>,
               rq[r].pc = "parked", rq'[r].pc \in {"doMessages", "doPost"},
               rq'[r].post = rq[r].post, rq'[r].body = rq[r].body,
               rq'[r].message = Head(pending[c]),
               \A q \in Requests : q # r => rq'[q] = rq[q]
        PROVE  Quiet'
    <3>1. rq'[r].message \in 1..published
      BY <1>4, <2>3
    <3>2. rq'[r].post # 0 => rq'[r].body.poll
      BY <1>2, <2>3 DEF Posting
    <3>3. QED
      BY <1>3, <2>1, <2>3, <3>1, <3>2
  <2>4. QED
    BY <1>7, <2>2, <2>3, HandOver
<1>8. ASSUME NEW d \in Dests, dispatch(d)
      PROVE  Quiet'
  <2>1. rq' = rq /\ created' = created /\ published' = published + 1
        /\ consumerOf[d] \in 0..created /\ consumerOf[d] # None
    BY <1>1, <1>8 DEF dispatch, clientVars, Registered
  <2>2. created' # 0 /\ 1..published \subseteq 1..published'
    BY <1>1, <2>1 DEF None
  <2>3. QED
    BY <2>1, <2>2 DEF Quiet
<1>9. CASE UNCHANGED vars
  BY <1>6, <1>9 DEF vars, sessionVars, clientVars
<1>10. QED
  BY <1>5, <1>7, <1>8, <1>9 DEF Next

\* What a poll has seen of the consumers: those it looks through are open, and
\* the one its local variable names has its listener, so that a poll with
\* something to send has a listener to ask for the buffer.
Scans(r) ==
    /\ rq[r].pc = "scan" => rq[r].visit \subseteq openConsumers
    /\ rq[r].pc = "scan" /\ rq[r].message = None /\ rq[r].consumer = None
          => rq[r].visit = openConsumers
    /\ rq[r].pc = "drain" => rq[r].consumer # None
    /\ rq[r].consumer # None => rq[r].consumer \in listening

Scanning ==
    /\ dispatching # None => dispatching \in listening
    /\ \A r \in Requests : Scans(r)

LEMMA OpenListen ==
    ASSUME ServletInv, NEW r \in Requests, rq[r].pc = "scan", NEW c \in openConsumers
    PROVE  c \in listening
<1>1. Monitor /\ Registered /\ c # None
  BY DEF ServletInv, openConsumers
<1>2. ~Listening
  BY <1>1 DEF Monitor, Listening, at, Inside
<1>3. QED
  BY <1>1, <1>2 DEF Registered, openConsumers

\* A poll that has something to send, and no message of its own, has looked at
\* a consumer: a message in the buffer came from one.
LEMMA LookedAt ==
    ASSUME ServletInv, HeldInv, Quiet, Intact, NEW r \in Requests, Scans(r),
           scanned(r), ~nothingToSend(r)
    PROVE  rq[r].consumer # None
<1>1. CASE rq[r].message # None
  BY <1>1, RecordOf DEF ServletInv, KnownReq
<1>2. CASE rq[r].message = None
  <2>1. SUFFICES ASSUME rq[r].consumer = None PROVE FALSE
    OBVIOUS
  <2>2. openConsumers = {} /\ undelivered # <<>>
    BY <1>2, <2>1 DEF Scans, scanned, nothingToSend, at
  <2>3. created = 0
    <3>1. created \in Nat /\ 1..created = {}
      BY <2>2, OpenBounds DEF Intact
    <3>2. 1 <= created => 1 \in 1..created
      BY <3>1
    <3>3. QED
      BY <3>1, <3>2
  <2>4. published = 0
    BY <2>3 DEF Quiet
  <2>5. 1 \in DOMAIN undelivered
    BY <2>2 DEF ServletInv, TypeOK
  <2>6. undelivered[1].msg \in 1..published
    BY <2>5 DEF HeldInv, Dispatched, inBuffer, messagesIn
  <2>7. QED
    BY <2>4, <2>6
<1>3. QED
  BY <1>1, <1>2

LEMMA ScanningStep ==
    ASSUME ServletInv, HeldInv, Quiet, Intact, Scanning, [Next]_vars, Intact'
    PROVE  Scanning'
<1>1. None \notin Consumers /\ TypeOK /\ Monitor
  BY DEF None, Consumers, ServletInv
<1>2. ASSUME NEW q \in Requests, rq'[q] = rq[q],
             listening \ {None} \subseteq listening',
             openConsumers' = openConsumers \/ rq[q].pc # "scan"
      PROVE  Scans(q)'
  BY <1>2 DEF Scanning, Scans
<1>3. ASSUME NEW r \in Requests, UNCHANGED dispatching,
             \A q \in Requests : q # r => rq'[q] = rq[q],
             listening \ {None} \subseteq listening',
             openConsumers' = openConsumers
                \/ \A q \in Requests : q # r => rq[q].pc # "scan",
             Scans(r)'
      PROVE  Scanning'
  <2>1. \A q \in Requests : Scans(q)'
    BY <1>2, <1>3
  <2>2. QED
    BY <1>3, <2>1 DEF Scanning
<1>4. ASSUME NEW r \in Requests, move(r, rq'[r]), listening \ {None} \subseteq listening',
             openConsumers' = openConsumers \/ rq'[r].pc # "scan"
      PROVE  Scans(r)'
  <2>1. Scans(r)
    BY DEF Scanning
  <2>2. CASE rq'[r].pc \notin {"scan", "drain"}
             /\ (rq'[r].consumer = None \/ rq'[r].consumer = rq[r].consumer)
    BY <1>4, <2>1, <2>2 DEF Scans
  <2>3. CASE /\ same(r, rq'[r]) /\ rq[r].pc = "doMessages" /\ rq'[r].pc = "scan"
             /\ rq'[r].visit = IF rq[r].message = None THEN openConsumers ELSE {}
    BY <1>4, <2>1, <2>3 DEF Scans, same
  <2>4. CASE /\ rq[r].pc = "scan" /\ rq'[r].pc = "scan"
             /\ \E c \in rq[r].visit :
                   rq'[r].consumer = c /\ rq'[r].visit \subseteq rq[r].visit
    <3>1. PICK c \in rq[r].visit : rq'[r].consumer = c /\ rq'[r].visit \subseteq rq[r].visit
      BY <2>4
    <3>2. c \in openConsumers /\ c # None /\ c \in listening
      BY <2>1, <2>4, OpenListen DEF Scans, openConsumers
    <3>3. openConsumers' = openConsumers
      BY <1>4, <2>4
    <3>4. QED
      BY <1>4, <2>1, <2>4, <3>1, <3>2, <3>3 DEF Scans
  <2>5. CASE same(r, rq'[r]) /\ scanned(r) /\ ~nothingToSend(r) /\ rq'[r].pc = "drain"
    <3>1. rq[r].consumer # None
      BY <2>1, <2>5, LookedAt
    <3>2. QED
      BY <1>4, <2>1, <2>5, <3>1 DEF Scans, same
  <2>6. QED
    BY <1>4, <2>2, <2>3, <2>4, <2>5 DEF move, same
<1>5. ASSUME NEW r \in Requests,
             startGet(r) \/ (\E b \in Bodies : startPost(r, b)) \/ Enter(r) \/ Step(r) \/ expire(r)
      PROVE  Scanning'
  <2>1. move(r, rq'[r]) /\ \A q \in Requests : q # r => rq'[q] = rq[q]
    BY <1>5, Moves
  <2>2. UNCHANGED dispatching
    BY <1>5 DEF startGet, startPost, Enter, Step, expire, doPost, doMessages, listen,
       setAvailableListener, listenFails, unlisten, send, unknownType, commandsDone,
       sendBody, scan, answerEmpty, suspend, setContinuation, writeMessage, drain,
       drainPoison, drainNullPointer, sweep, answer, fail, sessionVars
  <2>3. CASE listen(r)
    <3>1. \A q \in Requests : q # r => rq[q].pc # "scan"
      BY <2>3, CommandFacts DEF listen, Inside
    <3>2. rq'[r].pc # "scan"
      <4>1. rq[r].pc = "commands" /\ rq' = [rq EXCEPT ![r] = [rq[r] EXCEPT !.pc = "listen"]]
            /\ rq[r] \in Req
        BY <2>3, RecordOf DEF listen, command, at, goto, ServletInv
      <4>2. rq'[r].pc = "listen"
        BY <4>1 DEF ServletInv, Known, Req
      <4>3. QED
        BY <4>2
    <3>3. listening \ {None} \subseteq listening'
      BY <2>3 DEF listen
    <3>4. Scans(r)'
      BY <1>4, <2>1, <3>2, <3>3
    <3>5. QED
      BY <1>3, <2>1, <2>2, <3>1, <3>3, <3>4
  <2>4. CASE ~listen(r)
    <3>1. openConsumers' = openConsumers /\ listening \ {None} \subseteq listening'
      <4>1. CASE listenFails(r) \/ unlisten(r)
        BY <2>4, <4>1, CommandsClose
      <4>2. CASE ~listenFails(r) /\ ~unlisten(r)
        BY <1>5, <2>4, <4>2, OthersClose DEF openConsumers
      <4>3. QED
        BY <4>1, <4>2
    <3>2. Scans(r)'
      BY <1>4, <2>1, <3>1
    <3>3. QED
      BY <1>3, <2>1, <2>2, <3>1, <3>2
  <2>5. QED
    BY <2>3, <2>4
<1>6. ASSUME onMessageAvailable
      PROVE  Scanning'
  <2>1. dispatching' = None /\ listening' = listening /\ openConsumers' = openConsumers
        /\ dispatching # None
    BY <1>6 DEF onMessageAvailable, clientVars, openConsumers
  <2>2. CASE rq' = rq
    BY <1>2, <2>1, <2>2 DEF Scanning
  <2>3. ASSUME NEW r \in Requests, rq'[r].pc \in {"doMessages", "doPost"},
               rq'[r].consumer = dispatching,
               \A q \in Requests : q # r => rq'[q] = rq[q]
        PROVE  Scanning'
    <3>1. Scans(r)'
      BY <2>1, <2>3 DEF Scanning, Scans
    <3>2. \A q \in Requests : Scans(q)'
      BY <1>2, <2>1, <2>3, <3>1
    <3>3. QED
      BY <2>1, <3>2 DEF Scanning
  <2>4. QED
    BY <1>6, <2>2, <2>3, HandOver
<1>7. ASSUME NEW d \in Dests, dispatch(d)
      PROVE  Scanning'
  <2>1. rq' = rq /\ listening' = listening /\ openConsumers' = openConsumers
        /\ (dispatching' # None => dispatching' \in listening)
    BY <1>7 DEF dispatch, clientVars, openConsumers
  <2>2. QED
    BY <1>2, <2>1 DEF Scanning
<1>8. CASE UNCHANGED vars
  <2>1. rq' = rq /\ listening' = listening /\ openConsumers' = openConsumers
        /\ dispatching' = dispatching
    BY <1>8 DEF vars, clientVars, sessionVars, openConsumers
  <2>2. QED
    BY <1>2, <2>1 DEF Scanning
<1>9. QED
  BY <1>5, <1>6, <1>7, <1>8 DEF Next

-----------------------------------------------------------------------------
(***************************************************************************)
(* Nothing vanishes.                                                       *)
(***************************************************************************)
LEMMA EmptyPasses ==
    ASSUME NEW r \in Requests, ~writes(r), rq[r].message = None,
           \A q \in Requests : q # r => rq'[q] = rq[q],
           UNCHANGED <<delivered, undelivered, pending, lost>>
    PROVE  Passed
<1>1. inRequest(r) = {}
  BY DEF inRequest
<1>2. \A q \in Requests : q # r => inRequest(q)' = inRequest(q)
  BY DEF inRequest, writes
<1>3. /\ inPage' = inPage /\ inBuffer' = inBuffer
      /\ \A c \in Consumers : inConsumer(c)' = inConsumer(c)
  BY DEF inPage, inBuffer, inConsumer
<1>4. QED
  BY <1>1, <1>2, <1>3 DEF Passed, somewhere

\* A request that does not write keeps its message, or has none.
LEMMA PlainPasses ==
    ASSUME ServletInv, Quiet, NEW r \in Requests, pending' = pending,
           \/ startGet(r) \/ \E b \in Bodies : startPost(r, b)
           \/ doPost(r) \/ setAvailableListener(r) \/ send(r) \/ unknownType(r)
           \/ listen(r) \/ listenFails(r) \/ unlisten(r)
           \/ commandsDone(r) \/ sendBody(r) \/ doMessages(r) \/ answerEmpty(r)
           \/ suspend(r) \/ setContinuation(r) \/ expire(r)
    PROVE  Passed
<1>1. Known /\ rq[r] \in Req /\ rq[r] \in KnownReq
  BY RecordOf DEF ServletInv
<1>2. UNCHANGED <<delivered, undelivered, pending, lost>>
  BY DEF startGet, startPost, doPost, setAvailableListener, send, unknownType, commandsDone,
         sendBody, doMessages, answerEmpty, suspend, setContinuation, expire, listen,
         listenFails, unlisten, listenerVars, sessionVars, historyVars
<1>3. ~writes(r)
  BY DEF startGet, startPost, doPost, setAvailableListener, send, unknownType, commandsDone,
         sendBody, doMessages, answerEmpty, suspend, setContinuation, expire, listen,
         listenFails, unlisten, command, scanned, at, writes
<1>4. \A q \in Requests : q # r => rq'[q] = rq[q]
  BY Moves DEF Enter, Step
<1>5. CASE rq[r].message = None
  BY <1>2, <1>3, <1>4, <1>5, EmptyPasses
<1>6. CASE startGet(r) \/ (\E b \in Bodies : startPost(r, b)) \/ sendBody(r)
           \/ answerEmpty(r) \/ suspend(r) \/ setContinuation(r) \/ expire(r)
  <2>1. CASE startGet(r) \/ (\E b \in Bodies : startPost(r, b))
    BY <1>5, <2>1 DEF startGet, startPost, at, Quiet
  <2>2. CASE sendBody(r)
    BY <1>1, <1>5, <2>2 DEF sendBody, at, Quiet, KnownReq, Posting
  <2>3. CASE answerEmpty(r) \/ suspend(r)
    BY <1>5, <2>3 DEF answerEmpty, suspend, nothingToSend
  <2>4. CASE setContinuation(r) \/ expire(r)
    BY <1>1, <1>5, <2>4 DEF setContinuation, expire, at, KnownReq
  <2>5. QED
    BY <1>6, <2>1, <2>2, <2>3, <2>4
<1>7. ASSUME NEW n, rq' = [rq EXCEPT ![r] = [rq[r] EXCEPT !.pc = "commands", !.next = n]]
      PROVE  Passed
  <2> DEFINE s == [rq[r] EXCEPT !.pc = "commands", !.next = n]
  <2>1. s.pc \notin {"drain", "sweep"} /\ s.message = rq[r].message
    BY <1>1 DEF Req
  <2> HIDE DEF s
  <2>2. QED
    BY <1>1, <1>2, <1>3, <1>7, <2>1, StaysPasses DEF s
<1>8. ASSUME NEW label \in PC \ {"drain", "sweep"}, goto(r, label)
      PROVE  Passed
  <2> DEFINE s == [rq[r] EXCEPT !.pc = label]
  <2>1. s.pc \notin {"drain", "sweep"} /\ s.message = rq[r].message
    BY <1>1, <1>8 DEF Req
  <2>2. rq' = [rq EXCEPT ![r] = s]
    BY <1>8 DEF goto
  <2> HIDE DEF s
  <2>3. QED
    BY <1>1, <1>2, <1>3, <2>1, <2>2, StaysPasses
<1>9. CASE doPost(r)
  <2>1. rq' = [rq EXCEPT ![r] = [rq[r] EXCEPT !.pc = "commands", !.next = 1]]
    BY <1>9 DEF doPost
  <2>2. QED
    BY <1>7, <2>1
<1>10. CASE \/ setAvailableListener(r) \/ send(r) \/ unknownType(r)
            \/ listenFails(r) \/ unlisten(r)
  <2>1. nextCommand(r)
    BY <1>10 DEF setAvailableListener, send, unknownType, listenFails, unlisten
  <2>2. PICK n : n = rq[r].next + 1
    OBVIOUS
  <2>3. rq' = [rq EXCEPT ![r] = [rq[r] EXCEPT !.pc = "commands", !.next = n]]
    BY <2>1, <2>2 DEF nextCommand
  <2>4. QED
    BY <1>7, <2>3
<1>11. CASE listen(r)
  BY <1>8, <1>11 DEF listen, PC
<1>12. CASE commandsDone(r)
  <2>1. CASE goto(r, "doMessages") \/ goto(r, "raw")
    BY <1>8, <2>1 DEF PC
  <2>2. CASE ~rq[r].body.poll
    BY <1>1, <1>5, <1>12, <2>2 DEF commandsDone, at, Quiet, KnownReq, Posting
  <2>3. QED
    BY <1>12, <2>1, <2>2 DEF commandsDone
<1>13. CASE doMessages(r)
  <2> DEFINE v == IF rq[r].message = None THEN openConsumers ELSE {}
             s == [rq[r] EXCEPT !.pc = "scan", !.visit = v]
  <2>1. rq' = [rq EXCEPT ![r] = s]
    BY <1>13 DEF doMessages
  <2> HIDE DEF v
  <2>2. s.pc \notin {"drain", "sweep"} /\ s.message = rq[r].message
    BY <1>1 DEF Req
  <2> HIDE DEF s
  <2>3. QED
    BY <1>1, <1>2, <1>3, <2>1, <2>2, StaysPasses
<1>14. QED
  BY <1>6, <1>9, <1>10, <1>11, <1>12, <1>13

Traced == \A m \in 1..published : somewhere(m)

LEMMA TracedStep ==
    ASSUME ServletInv, HeldInv, Quiet, Traced, [Next]_vars, Intact'
    PROVE  Traced'
<1>1. ASSUME Passed, published' = published
      PROVE  Traced'
  BY <1>1 DEF Passed, Traced
<1>2. CASE UNCHANGED vars
  <2>1. UNCHANGED <<delivered, undelivered, pending, published, lost, rq>>
    BY <1>2 DEF vars, listenerVars, sessionVars, historyVars
  <2>2. Passed
    BY <2>1 DEF Passed, somewhere, inConsumer, inRequest, inBuffer, inPage, writes
  <2>3. QED
    BY <1>1, <2>1, <2>2
<1>3. ASSUME NEW r \in Requests,
             startGet(r) \/ (\E b \in Bodies : startPost(r, b)) \/ Enter(r) \/ Step(r) \/ expire(r)
      PROVE  Traced'
  <2>1. published' = published
    BY <1>3 DEF startGet, startPost, Enter, Step, expire, doPost, doMessages, listen,
       setAvailableListener, listenFails, unlisten, send, unknownType, commandsDone,
       sendBody, scan, answerEmpty, suspend, setContinuation, writeMessage, drain,
       drainPoison, drainNullPointer, sweep, answer, fail, sessionVars
  <2>2. CASE \/ scan(r) \/ writeMessage(r) \/ drain(r) \/ drainPoison(r) \/ drainNullPointer(r)
             \/ sweep(r) \/ answer(r)
    BY <1>1, <2>1, <2>2, ScanHolds, WriteHolds, DrainHolds, DrainFailsHolds, SweepHolds, AnswerHolds
  <2>3. CASE listen(r) \/ listenFails(r) \/ unlisten(r)
    BY <1>1, <2>1, <2>3, CommandsClose, PlainPasses
  <2>4. CASE \/ startGet(r) \/ (\E b \in Bodies : startPost(r, b))
             \/ doPost(r) \/ setAvailableListener(r) \/ send(r) \/ unknownType(r)
             \/ commandsDone(r) \/ sendBody(r) \/ doMessages(r) \/ answerEmpty(r)
             \/ suspend(r) \/ setContinuation(r) \/ expire(r)
    <3>1. pending' = pending
      BY <2>4 DEF startGet, startPost, doPost, setAvailableListener, send, unknownType,
         commandsDone, sendBody, doMessages, answerEmpty, suspend, setContinuation, expire,
         sessionVars
    <3>2. QED
      BY <1>1, <2>1, <2>4, <3>1, PlainPasses
  <2>5. QED
    BY <1>3, <2>2, <2>3, <2>4 DEF Enter, Step
<1>4. ASSUME NEW d \in Dests, dispatch(d)
      PROVE  Traced'
  <2>1. Passed /\ \A m \in 1..published' : m \in 1..published \/ somewhere(m)'
    BY <1>4, DispatchHolds
  <2>2. QED
    BY <2>1 DEF Passed, Traced
<1>5. ASSUME onMessageAvailable
      PROVE  Traced'
  BY <1>1, <1>5, OnMessageHolds DEF onMessageAvailable
<1>6. QED
  BY <1>2, <1>3, <1>4, <1>5 DEF Next

NoFailure == Poison \intersect (1..published) = {} => lost = {} /\ ~failed

\* An exception needs a message that cannot be written: a poll that writes has a
\* listener to ask for the buffer.
LEMMA NoFailureStep ==
    ASSUME ServletInv, HeldInv, Scanning, NoFailure, [Next]_vars
    PROVE  NoFailure'
<1>1. TypeOK /\ Dispatched /\ Once
  BY DEF ServletInv, HeldInv
<1>2. ASSUME NEW r \in Requests, NEW m \in Poison, m \in inRequest(r) \/ m \in inBuffer,
             published' = published
      PROVE  NoFailure'
  BY <1>1, <1>2 DEF Dispatched, NoFailure
<1>3. ASSUME UNCHANGED <<lost, failed>>, 1..published \subseteq 1..published'
      PROVE  NoFailure'
  BY <1>3 DEF NoFailure
<1>4. ASSUME NEW r \in Requests, writeMessage(r)
      PROVE  NoFailure'
  <2>1. CASE rq[r].message \in Poison /\ fail(r, {rq[r].message})
    <3>1. rq[r].message # None /\ ~writes(r)
      BY <1>4, <2>1, PoisonAssumption DEF writeMessage, scanned, at, writes, None
    <3>2. rq[r].message \in inRequest(r)
      BY <3>1 DEF inRequest
    <3>3. QED
      BY <1>2, <2>1, <3>2 DEF fail
  <2>2. CASE UNCHANGED <<published, historyVars>>
    BY <1>3, <2>2 DEF historyVars
  <2>3. QED
    BY <1>4, <2>1, <2>2 DEF writeMessage
<1>5. ASSUME NEW r \in Requests, drainPoison(r)
      PROVE  NoFailure'
  <2>1. PICK i \in poisonAt(r) : TRUE
    BY <1>5 DEF drainPoison
  <2>2. i \in 1..written(r) /\ written(r) \in Nat /\ written(r) <= Len(undelivered)
        /\ Len(undelivered) \in Nat /\ undelivered[i].msg \in Poison
    BY <1>1, <2>1, WrittenBounds DEF poisonAt
  <2>3. i \in DOMAIN undelivered
    BY <1>1, <2>2 DEF TypeOK
  <2>4. undelivered[i].msg \in inBuffer
    BY <2>3 DEF inBuffer, messagesIn
  <2>5. published' = published
    BY <1>5 DEF drainPoison, fail
  <2>6. QED
    BY <1>2, <2>2, <2>4, <2>5
<1>6. ASSUME NEW r \in Requests, drainNullPointer(r)
      PROVE  FALSE
  BY <1>6 DEF drainNullPointer, at, Scanning, Scans
<1>7. ASSUME NEW r \in Requests, sweep(r)
      PROVE  NoFailure'
  <2>1. PICK c \in rq[r].visit :
          \/ UNCHANGED <<sessionVars, historyVars>>
          \/ UNCHANGED <<published, historyVars>>
          \/ /\ pending[c] # <<>> /\ Head(pending[c]) \in Poison /\ UNCHANGED published
    BY <1>7 DEF sweep, fail
  <2>2. CASE UNCHANGED <<published, historyVars>>
    BY <1>3, <2>2 DEF historyVars
  <2>3. CASE pending[c] # <<>> /\ Head(pending[c]) \in Poison /\ UNCHANGED published
    <3>1. c \in Consumers
      BY <2>1, RecordOf DEF ServletInv, Req
    <3>2. pending[c] \in Seq(Messages) /\ single(pending[c])
      BY <1>1, <3>1 DEF TypeOK, Once
    <3>3. Head(pending[c]) \in inConsumer(c)
      BY <2>3, <3>2, TakeHead DEF inConsumer
    <3>4. QED
      BY <1>1, <2>3, <3>1, <3>3 DEF Dispatched, NoFailure
  <2>4. QED
    BY <2>1, <2>2, <2>3 DEF sessionVars
<1>8. ASSUME NEW r \in Requests,
             startGet(r) \/ (\E b \in Bodies : startPost(r, b)) \/ Enter(r) \/ Step(r) \/ expire(r),
             ~writeMessage(r), ~drainPoison(r), ~drainNullPointer(r), ~sweep(r)
      PROVE  NoFailure'
  <2>1. UNCHANGED <<lost, failed, published>>
    BY <1>8 DEF startGet, startPost, Enter, Step, expire, doPost, doMessages, listen,
       setAvailableListener, listenFails, unlisten, send, unknownType, commandsDone,
       sendBody, scan, answerEmpty, suspend, setContinuation, drain, answer, sessionVars, historyVars
  <2>2. QED
    BY <1>3, <2>1
<1>9. ASSUME onMessageAvailable
      PROVE  NoFailure'
  BY <1>3, <1>9 DEF onMessageAvailable, historyVars
<1>10. ASSUME NEW d \in Dests, dispatch(d)
       PROVE  NoFailure'
  <2>1. published \in Nat /\ published' = published + 1 /\ UNCHANGED <<lost, failed>>
    BY <1>1, <1>10 DEF dispatch, TypeOK, historyVars
  <2>2. QED
    BY <1>3, <2>1
<1>11. CASE UNCHANGED vars
  BY <1>3, <1>11 DEF vars, sessionVars, historyVars
<1>12. QED
  BY <1>4, <1>5, <1>6, <1>7, <1>8, <1>9, <1>10, <1>11 DEF Next, Step

-----------------------------------------------------------------------------
\* A consumer that is closed stays so.
LEMMA IntactBefore ==
    ASSUME ServletInv, [Next]_vars, Intact'
    PROVE  Intact
<1>1. ASSUME UNCHANGED <<consumerOf, created>>
      PROVE  Intact
  BY <1>1 DEF Intact, openConsumers
<1>2. CASE UNCHANGED vars \/ onMessageAvailable \/ \E d \in Dests : dispatch(d)
  BY <1>1, <1>2 DEF vars, clientVars, onMessageAvailable, dispatch
<1>3. ASSUME NEW r \in Requests,
             startGet(r) \/ (\E b \in Bodies : startPost(r, b)) \/ Enter(r) \/ Step(r) \/ expire(r)
      PROVE  Intact
  BY <1>1, <1>3, CommandsClose, OthersClose
<1>4. QED
  BY <1>2, <1>3 DEF Next

\* What NoneVanishes rests on besides the invariants above.
Way == Quiet /\ (Intact => Scanning /\ Traced /\ NoFailure)

LEMMA WayInitially == Init => Way
<1> SUFFICES ASSUME Init PROVE Way
  OBVIOUS
<1>1. /\ published = 0 /\ dispatching = None /\ lost = {} /\ failed = FALSE
      /\ \A r \in Requests : rq[r] = Idle
  BY DEF Init
<1>2. Idle.pc = "idle" /\ Idle.post = 0 /\ Idle.message = None /\ Idle.consumer = None
  BY DEF Idle, request
<1>3. Quiet
  BY <1>1, <1>2 DEF Quiet
<1>4. Scanning
  BY <1>1, <1>2 DEF Scanning, Scans
<1>5. Traced
  BY <1>1 DEF Traced
<1>6. NoFailure
  BY <1>1 DEF NoFailure
<1>7. QED
  BY <1>3, <1>4, <1>5, <1>6 DEF Way

LEMMA WayStep ==
    ASSUME ServletInv, HeldInv, Sends, Way, [Next]_vars
    PROVE  Way'
<1>1. Quiet /\ Quiet'
  BY QuietStep DEF Way
<1>2. ASSUME Intact'
      PROVE  Scanning' /\ Traced' /\ NoFailure'
  <2>1. Intact /\ Scanning /\ Traced /\ NoFailure
    BY <1>2, IntactBefore DEF Way
  <2>2. QED
    BY <1>1, <1>2, <2>1, ScanningStep, TracedStep, NoFailureStep
<1>3. QED
  BY <1>1, <1>2 DEF Way

\* The places of onTheWay are those of the invariant.
LEMMA OnTheWay ==
    ASSUME ServletInv, HeldInv, Quiet, Traced
    PROVE  onTheWay \union lost = 1..published
<1> DEFINE H == UNION {heldBy(r) : r \in Requests}
           P == UNION {{pending[c][i] : i \in DOMAIN pending[c]} : c \in Consumers}
<1>0. onTheWay = messagesIn(undelivered) \union messagesIn(delivered) \union H \union P
  BY Zenon DEF onTheWay
<1>1. TypeOK /\ Known /\ Dispatched
  BY DEF ServletInv, HeldInv
<1>2. ASSUME NEW r \in Requests
      PROVE  heldBy(r) \subseteq 1..published /\ inRequest(r) \subseteq heldBy(r)
  <2>1. {rq[r].message} \ {None} \subseteq 1..published
    BY DEF Quiet
  <2>2. messagesIn(rq[r].resp) \subseteq 1..published
    <3>1. CASE writes(r)
      BY <1>1, <3>1 DEF Dispatched, inRequest
    <3>2. CASE rq[r].resp = <<>>
      BY <3>2, OneMessage
    <3>3. QED
      BY <1>1, <3>1, <3>2, RespEmpty
  <2>3. inRequest(r) \subseteq heldBy(r)
    BY DEF inRequest, heldBy
  <2>4. QED
    BY <2>1, <2>2, <2>3 DEF heldBy
<1>3. ASSUME NEW c \in Consumers
      PROVE  {pending[c][i] : i \in DOMAIN pending[c]} = inConsumer(c)
  BY DEF inConsumer, elements
<1>4. ASSUME NEW m
      PROVE  m \in H \union P => m \in 1..published
  <2>1. CASE m \in H
    BY <1>2, <2>1
  <2>2. CASE m \in P
    <3>1. PICK c \in Consumers : m \in {pending[c][i] : i \in DOMAIN pending[c]}
      BY <2>2
    <3>2. QED
      BY <1>1, <1>3, <3>1 DEF Dispatched
  <2>3. QED
    BY <2>1, <2>2
<1>5. ASSUME NEW m
      PROVE  /\ (\E r \in Requests : m \in inRequest(r)) => m \in H
             /\ (\E c \in Consumers : m \in inConsumer(c)) => m \in P
  <2>1. ASSUME NEW r \in Requests, m \in inRequest(r)
        PROVE  m \in H
    BY <1>2, <2>1
  <2>2. ASSUME NEW c \in Consumers, m \in inConsumer(c)
        PROVE  m \in P
    <3>1. m \in {pending[c][i] : i \in DOMAIN pending[c]}
      BY <1>3, <2>2
    <3>2. QED
      BY <3>1, Zenon
  <2>3. QED
    BY <2>1, <2>2
<1> HIDE DEF H, P
<1>6. onTheWay \union lost \subseteq 1..published
  BY <1>0, <1>1, <1>4 DEF Dispatched, inBuffer, inPage
<1>7. 1..published \subseteq onTheWay \union lost
  BY <1>0, <1>5 DEF Traced, somewhere, inBuffer, inPage
<1>8. QED
  BY <1>6, <1>7

\* As long as no consumer is closed no message vanishes: each that has been
\* dispatched is in a response, in the buffer (MessageListenerServlet.java:381
\* and AjaxListener), in a consumer, or with a poll that takes it along
\* (lines 306-330 and 371-420); and nothing throws but the writing of a
\* message, since a poll that has something to send has looked at a consumer
\* whose listener is set (line 382 asks it for the buffer).  "all available
\* messages" (ajax.html:216), for any threads, destinations and posts.
THEOREM NothingVanishes == Spec => []NoneVanishes
<1>1. Spec => []Sends
  <2>1. ServletInv /\ Sends /\ [Next]_vars => Sends'
    BY SendsStep
  <2>2. QED
    BY <2>1, SendsInitially, ServletInvariant, PTL DEF Spec
<1>2. ServletInv /\ HeldInv /\ Sends /\ Way /\ [Next]_vars => Way'
  BY WayStep
<1>3. ServletInv /\ HeldInv /\ Way => NoneVanishes
  <2> SUFFICES ASSUME ServletInv, HeldInv, Way, created = Cardinality(openConsumers)
               PROVE  /\ onTheWay \union lost = 1..published
                      /\ NoFailure
    BY DEF NoneVanishes, NoFailure
  <2>1. Quiet /\ Traced /\ NoFailure
    BY OpenBounds DEF Way
  <2>2. QED
    BY <2>1, OnTheWay
<1>4. QED
  BY <1>1, <1>2, <1>3, WayInitially, HeldInvariant, ServletInvariant, PTL DEF Spec

=============================================================================
