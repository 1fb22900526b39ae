-------------------------- MODULE MessageListener --------------------------
(***************************************************************************)
(* MessageListenerServlet: one AjaxWebClient, the request threads of the   *)
(* servlet container that work for it, and the dispatch thread of its JMS  *)
(* session.                                                                *)
(*                                                                         *)
(* doPost carries out the commands of a page and doMessages answers its    *)
(* polls, both under the monitor of the client (`lock').  The dispatch     *)
(* thread does not take that monitor: it puts messages into the consumers  *)
(* and calls the AjaxListener between any two steps of a request.  A step  *)
(* of a request is what it does between two looks at state it shares with  *)
(* the dispatch thread.                                                    *)
(*                                                                         *)
(* AjaxListener, AjaxWebClient, the JMS consumers and the continuations    *)
(* are not in this repository and are modelled by what the servlet expects *)
(* of them: a listener hands a message to the poll that waits on the       *)
(* registered continuation, and buffers it when there is none waiting.     *)
(***************************************************************************)
EXTENDS Integers, Sequences, FiniteSets

CONSTANTS
    Requests,           \* threads of the container
    NoRequest,
    Pollers,            \* those of them on which the page polls again and again
    Dests,              \* destinations
    Bodies,             \* what a POST may hold: [cmds, poll, raw]
    maximumMessages,    \* servlet init parameter
    Poison,             \* messages that cannot be written (getObject throws)
    MaxConsumers,       \* bound: consumers created
    MaxMessages,        \* bound: messages the broker dispatches
    MaxPosts            \* bound: POSTs

CommandTypes ==
    {"listen", "unlisten", "send",
     "unknown",         \* any other type
     "badSelector",     \* a listen whose consumer the broker refuses
     "unresolved"}      \* any command whose getDestination throws

Commands == [type : CommandTypes, dest : Dests]

ASSUME SizesAssumption ==
    /\ {maximumMessages, MaxConsumers, MaxMessages, MaxPosts} \subseteq Nat
    /\ maximumMessages >= 1
ASSUME RequestsAssumption == Pollers \subseteq Requests /\ NoRequest \notin Requests
ASSUME BodiesAssumption ==
    Bodies \subseteq [cmds : Seq(Commands), poll : BOOLEAN, raw : BOOLEAN]

ASSUME PoisonAssumption == Poison \subseteq Nat \ {0}

None == 0                           \* Java's null, for consumers and messages
NoBody == [cmds |-> <<>>, poll |-> TRUE, raw |-> FALSE]     \* of a GET

Consumers == 1..MaxConsumers
Messages == 1..MaxMessages
\* A message that stands in a response; `id' tells whether the response names
\* the id of the listen, or the text 'null'.
Entry == [msg : Messages, consumer : Consumers, id : BOOLEAN]
Undelivered == [msg : Messages, consumer : Consumers]
PC == {"idle", "doPost", "commands", "listen", "raw", "doMessages", "scan",
       "suspended", "parked", "drain", "sweep"}

VARIABLES
    \* AjaxWebClient
    lock,           \* the request that holds the monitor of the client
    consumerOf,     \* the open consumer of each destination
    created,        \* consumers created so far: they are numbered
    listening,      \* consumers whose available-listener is set
    idMap,          \* consumers that have an entry in the id map
    \* AjaxListener
    undelivered,    \* messages buffered
    continuation,   \* the request whose continuation is registered
    \* the JMS session
    pending,        \* messages each consumer holds for receive
    dispatching,    \* the consumer whose onMessageAvailable is due, or None
    published,      \* messages dispatched so far: they are numbered
    sent,           \* sends carried out: which command of which POST
    resent,         \* those of them carried out again
    \* the requests: local variables of each thread
    posts,
    rq,
    \* history
    delivered,      \* entries of the responses, in the order they were given
    lost,           \* messages received whose response was never given
    failed          \* has a request ended with an exception?

clientVars == <<consumerOf, created, listening, idMap>>
listenerVars == <<undelivered, continuation>>
sessionVars == <<pending, dispatching, published>>
sendVars == <<sent, resent>>
historyVars == <<delivered, lost, failed>>
vars == <<lock, clientVars, listenerVars, sessionVars, sendVars, posts, rq,
          historyVars>>

TypeOK ==
    /\ lock \in Requests \union {NoRequest}
    /\ consumerOf \in [Dests -> Consumers \union {None}]
    /\ created \in 0..MaxConsumers
    /\ listening \subseteq Consumers /\ idMap \subseteq Consumers
    /\ undelivered \in Seq(Undelivered)
    /\ continuation \in Requests \union {NoRequest}
    /\ pending \in [Consumers -> Seq(Messages)]
    /\ dispatching \in Consumers \union {None}
    /\ published \in 0..MaxMessages
    /\ sent \subseteq [post : 1..MaxPosts, cmd : Nat, polls : BOOLEAN]
    /\ resent \subseteq sent
    /\ posts \in 0..MaxPosts
    /\ rq \in [Requests ->
          [pc : PC, body : Bodies \union {NoBody}, post : 0..MaxPosts, next : Nat,
           expired : BOOLEAN, visit : SUBSET Consumers,
           message : Messages \union {None}, consumer : Consumers \union {None},
           resp : Seq(Entry)]]
    /\ delivered \in Seq(Entry)
    /\ lost \subseteq Messages
    /\ failed \in BOOLEAN

\* A request that has just come in; `post' is 0 for a GET.
request(label, body, post) ==
    [pc |-> label, body |-> body, post |-> post, next |-> 0,
     expired |-> FALSE, visit |-> {}, message |-> None, consumer |-> None,
     resp |-> <<>>]
Idle == request("idle", NoBody, 0)

Init ==
    /\ lock = NoRequest
    /\ consumerOf = [d \in Dests |-> None] /\ created = 0
    /\ listening = {} /\ idMap = {}
    /\ undelivered = <<>> /\ continuation = NoRequest
    /\ pending = [c \in Consumers |-> <<>>]
    /\ dispatching = None /\ published = 0
    /\ sent = {} /\ resent = {}
    /\ posts = 0 /\ rq = [r \in Requests |-> Idle]
    /\ delivered = <<>> /\ lost = {} /\ failed = FALSE

-----------------------------------------------------------------------------
(***************************************************************************)
(* doPost.                                                                 *)
(***************************************************************************)
at(r, label) == rq[r].pc = label
goto(r, label) == rq' = [rq EXCEPT ![r].pc = label]

startPost(r, b) ==
    /\ at(r, "idle") /\ posts < MaxPosts
    /\ posts' = posts + 1
    /\ rq' = [rq EXCEPT ![r] = request("doPost", b, posts + 1)]
    /\ UNCHANGED <<lock, clientVars, listenerVars, sessionVars, sendVars,
                   historyVars>>

doPost(r) ==
    /\ at(r, "doPost") /\ lock = NoRequest
    /\ lock' = r
    /\ rq' = [rq EXCEPT ![r].pc = "commands", ![r].next = 1]
    /\ UNCHANGED <<clientVars, listenerVars, sessionVars, sendVars, posts,
                   historyVars>>

command(r, type) ==
    /\ at(r, "commands") /\ rq[r].next <= Len(rq[r].body.cmds)
    /\ rq[r].body.cmds[rq[r].next].type = type

\* The loop counter is incremented once getDestination has returned.  There is
\* no action for an "unresolved" command: the loop then tries it for ever.
nextCommand(r) == rq' = [rq EXCEPT ![r].pc = "commands", ![r].next = @ + 1]

\* closeConsumer: what the consumer still held goes back to the broker.
closed(d) ==
    IF consumerOf[d] = None THEN pending
    ELSE [pending EXCEPT ![consumerOf[d]] = <<>>]

\* Mutant: the monitor is given up between creating and registering.
listenUnlocked(r) ==
    /\ command(r, "listen") /\ created < MaxConsumers
    /\ LET d == rq[r].body.cmds[rq[r].next].dest IN
       /\ pending' = closed(d)
       /\ consumerOf' = [consumerOf EXCEPT ![d] = created + 1]
    /\ created' = created + 1
    /\ lock' = NoRequest
    /\ goto(r, "listen")
    /\ UNCHANGED <<listening, idMap, listenerVars, dispatching, published,
                   sendVars, posts, historyVars>>

\* listen: any existing consumer is closed and a new one created ...
listen(r) ==
    /\ command(r, "listen") /\ created < MaxConsumers
    /\ LET d == rq[r].body.cmds[rq[r].next].dest IN
       /\ pending' = closed(d)
       /\ consumerOf' = [consumerOf EXCEPT ![d] = created + 1]
    /\ created' = created + 1
    /\ goto(r, "listen")
    /\ UNCHANGED <<lock, listening, idMap, listenerVars, dispatching,
                   published, sendVars, posts, historyVars>>

\* ... and only then given its listener and its id.
setAvailableListener(r) ==
    /\ at(r, "listen")
    /\ listening' = listening \union {created}
    /\ idMap' = idMap \union {created}
    /\ nextCommand(r)
    /\ UNCHANGED <<lock, consumerOf, created, listenerVars, sessionVars,
                   sendVars, posts, historyVars>>

\* listen when getConsumer throws: the existing consumer is gone already.
listenFails(r) ==
    /\ command(r, "badSelector")
    /\ LET d == rq[r].body.cmds[rq[r].next].dest IN
       /\ pending' = closed(d)
       /\ consumerOf' = [consumerOf EXCEPT ![d] = None]
    /\ nextCommand(r)
    /\ UNCHANGED <<lock, created, listening, idMap, listenerVars, dispatching,
                   published, sendVars, posts, historyVars>>

\* A consumer created only to be closed again leaves nothing behind.
unlisten(r) ==
    /\ command(r, "unlisten")
    /\ LET d == rq[r].body.cmds[rq[r].next].dest IN
       /\ listening' = listening \ {consumerOf[d]}
       /\ idMap' = idMap \ {consumerOf[d]}
       /\ pending' = closed(d)
       /\ consumerOf' = [consumerOf EXCEPT ![d] = None]
    /\ nextCommand(r)
    /\ UNCHANGED <<lock, created, listenerVars, dispatching, published,
                   sendVars, posts, historyVars>>

jmsSend(r, n) ==
    LET s == [post |-> rq[r].post, cmd |-> n, polls |-> rq[r].body.poll] IN
    /\ sent' = sent \union {s}
    /\ resent' = resent \union ({s} \intersect sent)

send(r) ==
    /\ command(r, "send")
    /\ jmsSend(r, rq[r].next)
    /\ nextCommand(r)
    /\ UNCHANGED <<lock, clientVars, listenerVars, sessionVars, posts,
                   historyVars>>

unknownType(r) ==
    /\ command(r, "unknown")
    /\ nextCommand(r)
    /\ UNCHANGED <<lock, clientVars, listenerVars, sessionVars, sendVars,
                   posts, historyVars>>

commandsDone(r) ==
    /\ at(r, "commands") /\ rq[r].next > Len(rq[r].body.cmds)
    /\ lock' = NoRequest
    /\ \/ rq[r].body.poll /\ goto(r, "doMessages")
       \/ ~rq[r].body.poll /\ rq[r].body.raw /\ goto(r, "raw")
       \/ ~rq[r].body.poll /\ ~rq[r].body.raw /\ rq' = [rq EXCEPT ![r] = Idle]
    /\ UNCHANGED <<clientVars, listenerVars, sessionVars, sendVars, posts,
                   historyVars>>

\* The body of a POST that is not a form: sent outside the monitor.
sendBody(r) ==
    /\ at(r, "raw")
    /\ jmsSend(r, 0)
    /\ rq' = [rq EXCEPT ![r] = Idle]
    /\ UNCHANGED <<lock, clientVars, listenerVars, sessionVars, posts,
                   historyVars>>

-----------------------------------------------------------------------------
(***************************************************************************)
(* doGet and doMessages.                                                   *)
(***************************************************************************)
startGet(r) ==
    /\ at(r, "idle")
    /\ rq' = [rq EXCEPT ![r] = request("doMessages", NoBody, 0)]
    /\ UNCHANGED <<lock, clientVars, listenerVars, sessionVars, sendVars,
                   posts, historyVars>>

openConsumers == {consumerOf[d] : d \in Dests} \ {None}

\* A resumed poll finds its message in the request attribute, kept here in
\* rq[r].message; any other looks through the consumers.
doMessages(r) ==
    /\ at(r, "doMessages") /\ lock = NoRequest
    /\ lock' = r
    /\ rq' = [rq EXCEPT ![r].pc = "scan",
                        ![r].visit = IF rq[r].message = None THEN openConsumers ELSE {}]
    /\ UNCHANGED <<clientVars, listenerVars, sessionVars, sendVars, posts,
                   historyVars>>

\* One turn of the scan.  The local variable consumer is set in any case.
scan(r) ==
    /\ at(r, "scan") /\ rq[r].message = None
    /\ \E c \in rq[r].visit :
          \/ /\ c \in listening /\ pending[c] # <<>>
             /\ rq' = [rq EXCEPT ![r].consumer = c, ![r].message = Head(pending[c])]
             /\ pending' = [pending EXCEPT ![c] = Tail(@)]
          \/ /\ c \notin listening \/ pending[c] = <<>>
             /\ rq' = [rq EXCEPT ![r].consumer = c, ![r].visit = @ \ {c}]
             /\ UNCHANGED pending
    /\ UNCHANGED <<lock, clientVars, listenerVars, dispatching, published,
                   sendVars, posts, historyVars>>

scanned(r) == at(r, "scan") /\ (rq[r].visit = {} \/ rq[r].message # None)
\* Mutant: the buffer is not looked at before the poll is parked.
noMessage(r) == rq[r].message = None

nothingToSend(r) == rq[r].message = None /\ undelivered = <<>>

answerEmpty(r) ==
    /\ scanned(r) /\ nothingToSend(r) /\ rq[r].expired
    /\ lock' = NoRequest
    /\ rq' = [rq EXCEPT ![r] = Idle]
    /\ UNCHANGED <<clientVars, listenerVars, sessionVars, sendVars, posts,
                   historyVars>>

\* Mutant: a poll whose continuation has expired is suspended again.
suspendAgain(r) ==
    /\ scanned(r) /\ nothingToSend(r)
    /\ goto(r, "suspended")
    /\ UNCHANGED <<lock, clientVars, listenerVars, sessionVars, sendVars,
                   posts, historyVars>>

suspend(r) ==
    /\ scanned(r) /\ nothingToSend(r) /\ ~rq[r].expired
    /\ goto(r, "suspended")
    /\ UNCHANGED <<lock, clientVars, listenerVars, sessionVars, sendVars,
                   posts, historyVars>>

setContinuation(r) ==
    /\ at(r, "suspended")
    /\ continuation' = r
    /\ lock' = NoRequest
    /\ goto(r, "parked")
    /\ UNCHANGED <<clientVars, undelivered, sessionVars, sendVars, posts,
                   historyVars>>

\* The container runs the whole request again: a POST from its first command.
again(r) == IF rq[r].post = 0 THEN "doMessages" ELSE "doPost"

expire(r) ==
    /\ at(r, "parked")
    /\ rq' = [rq EXCEPT ![r].pc = again(r), ![r].expired = TRUE,
                        ![r].consumer = None]
    /\ UNCHANGED <<lock, clientVars, listenerVars, sessionVars, sendVars,
                   posts, historyVars>>

entry(m, c) == [msg |-> m, consumer |-> c, id |-> c \in idMap]
messagesIn(s) == {s[i].msg : i \in DOMAIN s}

\* An exception: the request ends, and what it had written is not sent.
fail(r, written) ==
    /\ lock' = NoRequest
    /\ rq' = [rq EXCEPT ![r] = Idle]
    /\ lost' = lost \union messagesIn(rq[r].resp) \union written
    /\ failed' = TRUE
    /\ UNCHANGED <<clientVars, continuation, dispatching, published, sendVars,
                   posts, delivered>>

\* The message the poll already has.
writeMessage(r) ==
    /\ scanned(r) /\ ~nothingToSend(r)
    /\ \/ /\ rq[r].message \in Poison
          /\ fail(r, {rq[r].message})
       \/ /\ rq[r].message \notin Poison
          /\ rq' = [rq EXCEPT ![r].pc = "drain", ![r].resp =
                       IF rq[r].message = None THEN <<>>
                       ELSE <<entry(rq[r].message, rq[r].consumer)>>]
          /\ UNCHANGED <<lock, clientVars, continuation, dispatching,
                         published, sendVars, posts, historyVars>>
    /\ UNCHANGED <<undelivered, pending>>

\* The buffered messages: at least one is written before the count is looked
\* at, and a message leaves the buffer once it is written.
room(r) == LET left == maximumMessages - Len(rq[r].resp) IN
           IF left < 1 THEN 1 ELSE left
written(r) == IF Len(undelivered) < room(r) THEN Len(undelivered) ELSE room(r)
poisonAt(r) == {i \in 1..written(r) : undelivered[i].msg \in Poison}
remaining(n) == SubSeq(undelivered, n + 1, Len(undelivered))

\* Mutant: it.remove() is forgotten.
drainNotRemoved(r) ==
    /\ at(r, "drain")
    /\ rq[r].consumer # None /\ rq[r].consumer \in listening
    /\ poisonAt(r) = {}
    /\ rq' = [rq EXCEPT ![r].pc = "sweep", ![r].visit = openConsumers,
                        ![r].resp = @ \o [i \in 1..written(r) |->
                            entry(undelivered[i].msg, undelivered[i].consumer)]]
    /\ UNCHANGED <<lock, clientVars, listenerVars, sessionVars, sendVars,
                   posts, historyVars>>

\* Mutant: the buffer is cleared although the loop stopped at maximumMessages.
drainCleared(r) ==
    /\ at(r, "drain")
    /\ rq[r].consumer # None /\ rq[r].consumer \in listening
    /\ poisonAt(r) = {}
    /\ rq' = [rq EXCEPT ![r].pc = "sweep", ![r].visit = openConsumers,
                        ![r].resp = @ \o [i \in 1..written(r) |->
                            entry(undelivered[i].msg, undelivered[i].consumer)]]
    /\ undelivered' = <<>>
    /\ UNCHANGED <<lock, clientVars, continuation, sessionVars, sendVars,
                   posts, historyVars>>

drain(r) ==
    /\ at(r, "drain")
    /\ rq[r].consumer # None /\ rq[r].consumer \in listening
    /\ poisonAt(r) = {}
    /\ rq' = [rq EXCEPT ![r].pc = "sweep", ![r].visit = openConsumers,
                        ![r].resp = @ \o [i \in 1..written(r) |->
                            entry(undelivered[i].msg, undelivered[i].consumer)]]
    /\ undelivered' = remaining(written(r))
    /\ UNCHANGED <<lock, clientVars, continuation, sessionVars, sendVars,
                   posts, historyVars>>

drainPoison(r) ==
    /\ at(r, "drain")
    /\ rq[r].consumer # None /\ rq[r].consumer \in listening
    /\ \E i \in poisonAt(r) :
          /\ \A j \in poisonAt(r) : i <= j
          /\ fail(r, {undelivered[j].msg : j \in 1..(i - 1)})
          /\ undelivered' = remaining(i - 1)
    /\ UNCHANGED pending

\* consumer.getAvailableListener() when consumer is the last one the scan saw:
\* there was none, or its listener has been removed.
drainNullPointer(r) ==
    /\ at(r, "drain")
    /\ rq[r].consumer \notin listening
    /\ fail(r, {})
    /\ UNCHANGED <<undelivered, pending>>

\* The rest of the messages, one receiveNoWait at a time.
sweep(r) ==
    /\ at(r, "sweep") /\ Len(rq[r].resp) < maximumMessages
    /\ \E c \in rq[r].visit :
          \/ /\ c \notin listening \/ pending[c] = <<>>
             /\ rq' = [rq EXCEPT ![r].visit = @ \ {c}]
             /\ UNCHANGED <<lock, clientVars, continuation, sessionVars,
                            sendVars, posts, historyVars>>
          \/ /\ c \in listening /\ pending[c] # <<>>
             /\ Head(pending[c]) \notin Poison
             /\ rq' = [rq EXCEPT ![r].resp = Append(@, entry(Head(pending[c]), c))]
             /\ pending' = [pending EXCEPT ![c] = Tail(@)]
             /\ UNCHANGED <<lock, clientVars, continuation, dispatching,
                            published, sendVars, posts, historyVars>>
          \/ /\ c \in listening /\ pending[c] # <<>>
             /\ Head(pending[c]) \in Poison
             /\ pending' = [pending EXCEPT ![c] = Tail(@)]
             /\ fail(r, {Head(pending[c])})
    /\ UNCHANGED undelivered

answer(r) ==
    /\ at(r, "sweep")
    /\ rq[r].visit = {} \/ Len(rq[r].resp) >= maximumMessages
    /\ delivered' = delivered \o rq[r].resp
    /\ lock' = NoRequest
    /\ rq' = [rq EXCEPT ![r] = Idle]
    /\ UNCHANGED <<clientVars, listenerVars, sessionVars, sendVars, posts,
                   lost, failed>>

-----------------------------------------------------------------------------
(***************************************************************************)
(* External: the dispatch thread of the JMS session.                       *)
(***************************************************************************)
dispatch(d) ==
    /\ dispatching = None /\ published < MaxMessages /\ consumerOf[d] # None
    /\ published' = published + 1
    /\ pending' = [pending EXCEPT ![consumerOf[d]] = Append(@, published + 1)]
    /\ dispatching' = IF consumerOf[d] \in listening THEN consumerOf[d] ELSE None
    /\ UNCHANGED <<lock, clientVars, listenerVars, sendVars, posts, rq,
                   historyVars>>

waits == continuation # NoRequest /\ at(continuation, "parked")

onMessageAvailable ==
    /\ dispatching # None
    /\ dispatching' = None
    /\ LET c == dispatching IN
       \/ /\ pending[c] = <<>>
          /\ UNCHANGED <<pending, undelivered, rq>>
       \/ /\ pending[c] # <<>> /\ waits
          /\ pending' = [pending EXCEPT ![c] = Tail(@)]
          /\ rq' = [rq EXCEPT ![continuation].pc = again(continuation),
                              ![continuation].message = Head(pending[c]),
                              ![continuation].consumer = c]
          /\ UNCHANGED undelivered
       \/ /\ pending[c] # <<>> /\ ~waits
          /\ pending' = [pending EXCEPT ![c] = Tail(@)]
          /\ undelivered' = Append(undelivered, [msg |-> Head(pending[c]), consumer |-> c])
          /\ UNCHANGED rq
    /\ UNCHANGED <<lock, clientVars, continuation, published, sendVars, posts,
                   historyVars>>

-----------------------------------------------------------------------------
Step(r) ==      \* what a request does once it holds the monitor, or needs none
    \/ listen(r) \/ setAvailableListener(r) \/ listenFails(r) \/ unlisten(r)
    \/ send(r) \/ unknownType(r) \/ commandsDone(r) \/ sendBody(r)
    \/ scan(r) \/ answerEmpty(r) \/ suspend(r) \/ setContinuation(r)
    \/ writeMessage(r) \/ drain(r) \/ drainPoison(r) \/ drainNullPointer(r)
    \/ sweep(r) \/ answer(r)

Enter(r) == doPost(r) \/ doMessages(r)

Next ==
    \/ \E r \in Requests :
          \/ \E b \in Bodies : startPost(r, b)
          \/ startGet(r) \/ Enter(r) \/ Step(r) \/ expire(r)
    \/ \E d \in Dests : dispatch(d)
    \/ onMessageAvailable

Spec == Init /\ [][Next]_vars

(***************************************************************************)
(* Threads run; a monitor that is released again and again is some time    *)
(* given to each thread that waits for it; a continuation times out; the   *)
(* dispatch thread finishes what it began; and the page polls again as     *)
(* soon as it has its answer (amq.js).                                     *)
(***************************************************************************)
Fairness ==
    /\ \A r \in Requests :
          SF_vars(Enter(r)) /\ WF_vars(Step(r)) /\ WF_vars(expire(r))
    /\ \A r \in Pollers : WF_vars(startGet(r))
    /\ WF_vars(onMessageAvailable)

FairSpec == Spec /\ Fairness

-----------------------------------------------------------------------------
(***************************************************************************)
(* Safety.                                                                 *)
(***************************************************************************)
\* No message stands in two responses, or twice in one, whichever of the three
\* ways it took: request attribute, buffer, or consumer.  And no send is carried
\* out twice, but by a POST that polls: the container runs it again from its
\* first command when the poll is resumed or expires (lines 209 and 350).
AtMostOnce ==
    /\ \A i, j \in DOMAIN delivered : delivered[i].msg = delivered[j].msg => i = j
    /\ \A s \in resent : s.polls

\* Where the messages are that the dispatch thread has dispatched.
heldBy(r) == (({rq[r].message} \ {None}) \union messagesIn(rq[r].resp))
onTheWay ==
    messagesIn(undelivered) \union messagesIn(delivered)
        \union (UNION {heldBy(r) : r \in Requests})
        \union (UNION {{pending[c][i] : i \in DOMAIN pending[c]} : c \in Consumers})

\* As long as no consumer is closed and no message fails to be written, each
\* message dispatched is in a response or on its way to one: no step of a poll,
\* no race with the listener and no exception drops one (ajax.html:216: "all
\* available messages").
NoneVanishes ==
    created = Cardinality(openConsumers) =>
        /\ onTheWay \union lost = 1..published
        /\ Poison \intersect (1..published) = {} => lost = {} /\ ~failed

\* maximumMessages is the most a response holds (MessageListenerServlet.java:62).
ResponseBound ==
    \A r \in Requests : Len(rq[r].resp) <= maximumMessages

\* A consumer the scan of a poll can see has both its listener and its id: the
\* monitor covers the steps of listen and unlisten.
ConsumersComplete ==
    lock = NoRequest => openConsumers \subseteq listening \intersect idMap

(***************************************************************************)
(* Liveness.                                                               *)
(***************************************************************************)
\* Every poll is answered: at once, when a message arrives, or at its timeout.
PollAnswered == \A r \in Requests : at(r, "doMessages") ~> at(r, "idle")

\* Every message dispatched reaches the page, also one that slips into the
\* buffer just before a poll is parked.
EventuallyDelivered ==
    \A m \in Messages : published >= m ~> m \in messagesIn(delivered)
=============================================================================
