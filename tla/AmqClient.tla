----------------------------- MODULE AmqClient -----------------------------
(***************************************************************************)
(* amq.js: the Ajax client of one browser page.                            *)
(*                                                                         *)
(* The page is single threaded: a callback runs to its end before the next *)
(* one starts, so an action is one callback, except that the handlers of   *)
(* the application, which amq.js calls in the middle of its own callbacks, *)
(* may call back into the public API.  `running' says which callback of    *)
(* amq.js is on the stack.                                                 *)
(*                                                                         *)
(* Two flows of requests leave the page: the POSTs that carry commands     *)
(* (batchInProgress and messageQueue serialise them) and the chain of GET  *)
(* polls.  The server carries out the commands of a POST in the order they *)
(* stand in its body; a listen that JMS refuses has closed the consumer    *)
(* there was, and the POST succeeds all the same.  A poll is answered with *)
(* messages of the ids that have a consumer.                               *)
(*                                                                         *)
(* A command is known by its call number, its place in `calls'.  The page  *)
(* appends to messageQueue in call order and only ever removes from it, so *)
(* the array is represented by the set of its call numbers and its order   *)
(* is the order of the numbers; module AmqBatch checks the loop of         *)
(* endBatch over real arrays against the sets used here.                   *)
(***************************************************************************)
EXTENDS AmqQueue, Sequences

CONSTANTS
    Ids,            \* listener ids; an id stands for its destination too
    MaxCalls,       \* bound: API calls the application makes
    MaxResponse,    \* bound: messages in one answer to a poll
    Selectors,      \* does the application pass a selector to addListener?
    EarlyCalls,     \* does it call the API before the session is initialised?
    HandlersThrow,  \* may a message handler throw?
    CallbackThrows, \* may connectStatusHandler and sessionInitializedCallback?
    PostErrors,     \* may a POST fail?
    ListensFail,    \* may JMS refuse a listen that is carried out?
    AppBatches      \* does the application call startBatch and endBatch?

ASSUME BoundsAssumption == MaxCalls \in Nat /\ MaxResponse \in Nat
ASSUME OptionsAssumption ==
    {Selectors, EarlyCalls, HandlersThrow, CallbackThrows, PostErrors,
     ListensFail, AppBatches} \subseteq BOOLEAN

Types == {"send", "listen", "unlisten"}
Commands == [type : Types, id : Ids, headers : BOOLEAN]
Callbacks == {"init", "poll"}   \* initHandler, pollHandler

VARIABLES
    calls,              \* every command the application has issued, in order
    messageHandlers,    \* the ids whose entry of messageHandlers is not null
    batchInProgress,
    messageQueue,       \* call numbers that wait in the array
    posted,             \* the POSTs sent: the call numbers in each body
    inFlight,           \* POSTs whose callback has not run
    unserved,           \* POSTs the server has not processed
    subscribed,         \* ids the server has a consumer for
    refused,            \* history: listens that JMS refused
    logging,            \* options.logging
    sessionInitialized,
    waiting,            \* GETs without an answer, by their success callback
    replies,            \* answers to GETs whose callback has not run
    pollTimers,         \* setTimeout(sendPoll, ...) not yet fired
    running,            \* the callback on the stack, or "none"
    todo,               \* response elements messageHandler has still to visit
    early,              \* history: the API was called before the session was
                        \* initialised
    broken,             \* history: a callback of the application threw where
                        \* no try is around it
    dropped             \* history: ids of messages discarded although the id
                        \* had a handler, unless the application threw

postVars == <<batchInProgress, messageQueue, posted, inFlight>>
serverVars == <<unserved, subscribed, refused>>
pollVars == <<logging, sessionInitialized, waiting, replies, pollTimers, running,
              todo, broken, dropped>>
vars == <<calls, messageHandlers, postVars, serverVars, pollVars, early>>

Elements(s) == {s[i] : i \in DOMAIN s}

TypeOK ==
    /\ calls \in Seq(Commands) /\ Len(calls) <= MaxCalls
    /\ messageHandlers \subseteq Ids
    /\ batchInProgress \in BOOLEAN
    /\ messageQueue \subseteq 1..MaxCalls
    /\ posted \in Seq(SUBSET (1..MaxCalls))
    /\ inFlight \subseteq DOMAIN posted
    /\ unserved \subseteq DOMAIN posted
    /\ subscribed \subseteq Ids
    /\ refused \subseteq 1..MaxCalls
    /\ logging \in BOOLEAN
    /\ sessionInitialized \in BOOLEAN
    /\ waiting \in [Callbacks -> Nat]
    /\ replies \in Seq([cb : Callbacks, ids : Seq(Ids)])
    /\ pollTimers \in Nat
    /\ running \in {"none", "init", "error", "status", "poll"}
    /\ todo \in Seq(Ids)
    /\ early \in BOOLEAN /\ broken \in BOOLEAN
    /\ dropped \subseteq Ids

(***************************************************************************)
(* The state after amq.init() has sent the first poll.                     *)
(***************************************************************************)
Init ==
    /\ calls = <<>> /\ messageHandlers = {}
    /\ batchInProgress = FALSE /\ messageQueue = {}
    /\ posted = <<>> /\ inFlight = {}
    /\ unserved = {} /\ subscribed = {} /\ refused = {}
    /\ logging \in BOOLEAN
    /\ sessionInitialized = FALSE
    /\ waiting = [cb \in Callbacks |-> IF cb = "init" THEN 1 ELSE 0]
    /\ replies = <<>> /\ pollTimers = 0
    /\ running = "none" /\ todo = <<>>
    /\ early = FALSE /\ broken = FALSE /\ dropped = {}

-----------------------------------------------------------------------------
(***************************************************************************)
(* Sending commands.                                                       *)
(***************************************************************************)
Headers(n) == calls[n].headers

Post(S) ==
    /\ posted' = Append(posted, S)
    /\ inFlight' = inFlight \union {Len(posted) + 1}
    /\ unserved' = unserved \union {Len(posted) + 1}

\* Mutant: a POST is sent without raising batchInProgress.
sendWithoutBatch(cmd) ==
    LET n == Len(calls) + 1 IN
    /\ n <= MaxCalls
    /\ sessionInitialized \/ EarlyCalls
    /\ calls' = Append(calls, cmd)
    /\ early' = (early \/ ~sessionInitialized)
    /\ Post({n})
    /\ UNCHANGED <<batchInProgress, messageQueue, subscribed, refused, pollVars>>

\* One API call: straight into a POST of its own, or into the queue.  The page
\* makes it when it likes, in any of its callbacks too.
sendJmsMessage(cmd) ==
    LET n == Len(calls) + 1 IN
    /\ n <= MaxCalls
    /\ sessionInitialized \/ EarlyCalls
    /\ calls' = Append(calls, cmd)
    /\ early' = (early \/ ~sessionInitialized)
    /\ \/ /\ batchInProgress
          /\ messageQueue' = messageQueue \union {n}
          /\ UNCHANGED <<batchInProgress, posted, inFlight, unserved>>
       \/ /\ ~batchInProgress
          /\ batchInProgress' = TRUE
          /\ Post({n})
          /\ UNCHANGED messageQueue
    /\ UNCHANGED <<subscribed, refused, pollVars>>

addListener(id) ==
    /\ \E h \in IF Selectors THEN BOOLEAN ELSE {FALSE} :
          sendJmsMessage([type |-> "listen", id |-> id, headers |-> h])
    /\ messageHandlers' = messageHandlers \union {id}

removeListener(id) ==
    /\ sendJmsMessage([type |-> "unlisten", id |-> id, headers |-> FALSE])
    /\ messageHandlers' = messageHandlers \ {id}

sendMessage(id) ==
    /\ sendJmsMessage([type |-> "send", id |-> id, headers |-> FALSE])
    /\ UNCHANGED messageHandlers

withHeaders == {n \in DOMAIN calls : Headers(n)}

endBatchCall ==
    \/ /\ messageQueue # {}
       /\ messageQueue' = messagesToQueue(messageQueue, withHeaders)
       /\ batchInProgress' = TRUE
       /\ posted' = Append(posted, messagesToSend(messageQueue, withHeaders))
       /\ unserved' = unserved \union {Len(posted) + 1}
    \/ /\ messageQueue = {}
       /\ batchInProgress' = FALSE
       /\ UNCHANGED <<messageQueue, posted, unserved>>

newPosts == DOMAIN posted' \ DOMAIN posted

\* Mutant: success only puts batchInProgress down.
postSuccessNoBatch(p) ==
    /\ running = "none" /\ p \in inFlight \ unserved
    /\ batchInProgress' = FALSE
    /\ inFlight' = inFlight \ {p}
    /\ UNCHANGED <<calls, messageHandlers, messageQueue, posted, serverVars,
                   pollVars, early>>

\* success: endBatch
postSuccess(p) ==
    /\ running = "none" /\ p \in inFlight \ unserved
    /\ endBatchCall
    /\ inFlight' = (inFlight \ {p}) \union newPosts
    /\ UNCHANGED <<calls, messageHandlers, subscribed, refused, pollVars, early>>

\* error: the request may have reached the server, or still reach it.  What
\* connectStatusHandler does is done when the rest of errorHandler is over.
errorHandler(p) ==
    /\ PostErrors /\ running = "none" /\ p \in inFlight
    /\ inFlight' = inFlight \ {p}
    /\ UNCHANGED <<calls, messageHandlers, batchInProgress, messageQueue,
                   posted, serverVars, pollVars, early>>

\* The two halves of the public batch API, called by the application.
startBatch ==
    /\ AppBatches /\ ~batchInProgress
    /\ batchInProgress' = TRUE
    /\ UNCHANGED <<calls, messageHandlers, messageQueue, posted, inFlight,
                   serverVars, pollVars, early>>

endBatch ==
    /\ AppBatches
    /\ endBatchCall
    /\ inFlight' = inFlight \union newPosts
    /\ UNCHANGED <<calls, messageHandlers, subscribed, refused, pollVars, early>>

-----------------------------------------------------------------------------
(***************************************************************************)
(* The server, as far as the page can tell.                                *)
(***************************************************************************)
\* The consumers after the commands S, carried out in call order, when JMS
\* refuses those of R: a listen and an unlisten begin or end by closing the
\* consumer there is, a listen goes on by creating one.
subscriptionsAfter(S, before, R) ==
    {id \in Ids :
        LET T == {n \in S : calls[n].id = id /\ calls[n].type # "send"} IN
        \/ T = {} /\ id \in before
        \/ \E n \in T \ R : calls[n].type = "listen" /\ \A m \in T : m <= n}

listensOf(p) == {n \in posted[p] : calls[n].type = "listen"}

\* The exception of a refused listen is logged, and doPost goes on.
servePost(p) ==
    /\ p \in unserved
    /\ unserved' = unserved \ {p}
    /\ \E R \in IF ListensFail THEN SUBSET listensOf(p) ELSE {{}} :
          /\ refused' = refused \union R
          /\ subscribed' = subscriptionsAfter(posted[p], subscribed, R)
    /\ UNCHANGED <<calls, messageHandlers, postVars, pollVars, early>>

Answers == UNION {[1..k -> subscribed] : k \in 0..MaxResponse}

answerPoll(cb) ==
    /\ waiting[cb] > 0
    /\ waiting' = [waiting EXCEPT ![cb] = @ - 1]
    /\ \E ids \in Answers : replies' = Append(replies, [cb |-> cb, ids |-> ids])
    /\ UNCHANGED <<calls, messageHandlers, postVars, serverVars, logging,
                   sessionInitialized, pollTimers, running, todo, early, broken,
                   dropped>>

-----------------------------------------------------------------------------
(***************************************************************************)
(* The chain of polls.                                                     *)
(***************************************************************************)
sendPollCall ==
    LET cb == IF sessionInitialized THEN "poll" ELSE "init" IN
    waiting' = [waiting EXCEPT ![cb] = @ + 1]

\* Mutant: a poll is sent without a timer having fired.
pollTimerUnguarded ==
    /\ running = "none"
    /\ pollTimers' = pollTimers - 1
    /\ sendPollCall
    /\ UNCHANGED <<calls, messageHandlers, postVars, serverVars, logging,
                   sessionInitialized, replies, running, todo, early, broken,
                   dropped>>

pollTimer ==
    /\ running = "none" /\ pollTimers > 0
    /\ pollTimers' = pollTimers - 1
    /\ sendPollCall
    /\ UNCHANGED <<calls, messageHandlers, postVars, serverVars, logging,
                   sessionInitialized, replies, running, todo, early, broken,
                   dropped>>

\* The GET failed, or its answer did not parse: connectStatusHandler is called.
pollErrorHandler(cb) ==
    /\ running = "none" /\ waiting[cb] > 0
    /\ waiting' = [waiting EXCEPT ![cb] = @ - 1]
    /\ running' = "error"
    /\ UNCHANGED <<calls, messageHandlers, postVars, serverVars, logging,
                   sessionInitialized, replies, pollTimers, todo, early, broken,
                   dropped>>

\* Mutant: no return after the first setTimeout.
pollErrorHandlerTwice ==
    /\ running = "error"
    /\ running' = "none"
    /\ pollTimers' = pollTimers + 2
    /\ UNCHANGED <<calls, messageHandlers, postVars, serverVars, logging,
                   sessionInitialized, waiting, replies, todo, early, broken,
                   dropped>>

pollErrorHandlerReturn ==
    /\ running = "error"
    /\ running' = "none"
    /\ pollTimers' = pollTimers + 1
    /\ UNCHANGED <<calls, messageHandlers, postVars, serverVars, logging,
                   sessionInitialized, waiting, replies, todo, early, broken,
                   dropped>>

\* connectStatusHandler throws before the setTimeout: no poll is sent again.
pollErrorHandlerThrow ==
    /\ CallbackThrows /\ running = "error"
    /\ running' = "none"
    /\ broken' = TRUE
    /\ UNCHANGED <<calls, messageHandlers, postVars, serverVars, logging,
                   sessionInitialized, waiting, replies, pollTimers, todo, early,
                   dropped>>

lost(ids) == Elements(ids) \intersect messageHandlers

\* initHandler does not look at its argument.
initHandler ==
    /\ running = "none" /\ replies # <<>> /\ Head(replies).cb = "init"
    /\ replies' = Tail(replies)
    /\ sessionInitialized' = TRUE
    /\ running' = "init"
    /\ dropped' = dropped \union lost(Head(replies).ids)
    /\ UNCHANGED <<calls, messageHandlers, postVars, serverVars, logging,
                   waiting, pollTimers, todo, early, broken>>

initHandlerReturn ==
    /\ running = "init"
    /\ running' = "none"
    /\ sendPollCall
    /\ UNCHANGED <<calls, messageHandlers, postVars, serverVars, logging,
                   sessionInitialized, replies, pollTimers, todo, early, broken,
                   dropped>>

\* sessionInitializedCallback throws before sendPoll.
initHandlerThrow ==
    /\ CallbackThrows /\ running = "init"
    /\ running' = "none"
    /\ broken' = TRUE
    /\ UNCHANGED <<calls, messageHandlers, postVars, serverVars, logging,
                   sessionInitialized, waiting, replies, pollTimers, todo, early,
                   dropped>>

\* messageHandler is called, and calls connectStatusHandler first.
pollHandler ==
    /\ running = "none" /\ replies # <<>> /\ Head(replies).cb = "poll"
    /\ replies' = Tail(replies)
    /\ running' = "status"
    /\ todo' = Head(replies).ids
    /\ UNCHANGED <<calls, messageHandlers, postVars, serverVars, logging,
                   sessionInitialized, waiting, pollTimers, early, broken,
                   dropped>>

connectStatusReturn ==
    /\ running = "status"
    /\ running' = "poll"
    /\ UNCHANGED <<calls, messageHandlers, postVars, serverVars, logging,
                   sessionInitialized, waiting, replies, pollTimers, todo, early,
                   broken, dropped>>

\* The loop of messageHandler: the handler of the next response element is
\* called; what it calls in turn are the API actions taken while running.
callHandler ==
    /\ running = "poll" /\ todo # <<>> /\ Head(todo) \in messageHandlers
    /\ todo' = Tail(todo)
    /\ UNCHANGED <<calls, messageHandlers, postVars, serverVars, logging,
                   sessionInitialized, waiting, replies, pollTimers, running,
                   early, broken, dropped>>

\* Mutant: return where the loop says continue.
skipRest ==
    /\ running = "poll" /\ todo # <<>>
    /\ logging /\ Head(todo) \notin messageHandlers
    /\ todo' = <<>>
    /\ dropped' = dropped \union lost(Tail(todo))
    /\ UNCHANGED <<calls, messageHandlers, postVars, serverVars, logging,
                   sessionInitialized, waiting, replies, pollTimers, running,
                   early, broken>>

skipResponse ==
    /\ running = "poll" /\ todo # <<>>
    /\ logging /\ Head(todo) \notin messageHandlers
    /\ todo' = Tail(todo)
    /\ UNCHANGED <<calls, messageHandlers, postVars, serverVars, logging,
                   sessionInitialized, waiting, replies, pollTimers, running,
                   early, broken, dropped>>

\* pollHandler's finally: whatever happened, the next poll is scheduled.
pollHandlerFinally ==
    /\ running' = "none"
    /\ todo' = <<>>
    /\ pollTimers' = pollTimers + 1
    /\ UNCHANGED <<calls, messageHandlers, postVars, serverVars, logging,
                   sessionInitialized, waiting, replies, early, broken>>

\* Mutant: the next poll is scheduled after the try, not in a finally.
pollHandlerThrowNoFinally ==
    /\ HandlersThrow /\ running = "poll" /\ todo # <<>> /\ Head(todo) \in messageHandlers
    /\ running' = "none" /\ todo' = <<>>
    /\ UNCHANGED <<calls, messageHandlers, postVars, serverVars, logging,
                   sessionInitialized, waiting, replies, pollTimers, early, broken,
                   dropped>>

\* connectStatusHandler or a handler throws.  The rest of the response is never
\* looked at.
pollHandlerThrow ==
    /\ \/ CallbackThrows /\ running = "status"
       \/ HandlersThrow /\ running = "poll" /\ todo # <<>> /\ Head(todo) \in messageHandlers
    /\ UNCHANGED dropped
    /\ pollHandlerFinally

\* There is no handler to call, and logging is off: a TypeError.  The rest of
\* the response is never looked at.
noHandlerThrow ==
    /\ running = "poll" /\ todo # <<>>
    /\ ~logging /\ Head(todo) \notin messageHandlers
    /\ dropped' = dropped \union lost(Tail(todo))
    /\ pollHandlerFinally

pollHandlerReturn ==
    /\ running = "poll" /\ todo = <<>>
    /\ UNCHANGED dropped
    /\ pollHandlerFinally

-----------------------------------------------------------------------------
Application ==
    \/ \E id \in Ids : addListener(id) \/ removeListener(id) \/ sendMessage(id)
    \/ startBatch
    \/ endBatch

Server ==
    \/ \E p \in DOMAIN posted : servePost(p)
    \/ \E cb \in Callbacks : answerPoll(cb)

Page ==
    \/ \E p \in DOMAIN posted : postSuccess(p) \/ errorHandler(p)
    \/ \E cb \in Callbacks : pollErrorHandler(cb)
    \/ pollErrorHandlerReturn \/ pollErrorHandlerThrow
    \/ pollTimer \/ initHandler \/ initHandlerReturn \/ initHandlerThrow
    \/ pollHandler \/ connectStatusReturn \/ callHandler \/ skipResponse
    \/ pollHandlerThrow \/ noHandlerThrow \/ pollHandlerReturn

Next == Application \/ Server \/ Page

Spec == Init /\ [][Next]_vars

(***************************************************************************)
(* The browser runs what is ready: a callback that has been entered comes  *)
(* to its end, and a timer or an answer waiting in the event queue of the  *)
(* page has its turn, however often other callbacks run before it (SF).    *)
(* The server processes the POSTs it receives and answers every poll, at   *)
(* the latest when its timeout expires.  Nothing obliges the application.  *)
(***************************************************************************)
Fairness ==
    /\ \A p \in 1..MaxCalls : WF_vars(servePost(p)) /\ SF_vars(postSuccess(p))
    /\ \A cb \in Callbacks : WF_vars(answerPoll(cb))
    /\ SF_vars(pollTimer)
    /\ SF_vars(initHandler)
    /\ WF_vars(initHandlerReturn)
    /\ WF_vars(pollErrorHandlerReturn)
    /\ SF_vars(pollHandler)
    /\ WF_vars(\/ connectStatusReturn \/ callHandler \/ skipResponse
               \/ pollHandlerThrow \/ noHandlerThrow \/ pollHandlerReturn)

FairSpec == Spec /\ Fairness

-----------------------------------------------------------------------------
(***************************************************************************)
(* Safety.                                                                 *)
(***************************************************************************)
\* There is never more than one poll under way: one GET, answered or not, or
\* one timer that will send it, or one initHandler that is about to.  amq.js
\* sends polls from four places (init, initHandler, and both timers).
OnePollChain ==
    waiting["init"] + waiting["poll"] + Len(replies) + pollTimers
        + (IF running = "none" THEN 0 ELSE 1) <= 1

\* The page alone (an application that leaves startBatch and endBatch to
\* amq.js) never has two POSTs outstanding, so its commands cannot overtake
\* one another on the way to the server (amq.js:72-79).
OnePostAtATime == \A p, q \in inFlight : p = q

\* A command with a selector header is alone in its POST: the servlet applies
\* the header to every command in the body (amq.js:245-249).
HeadersAlone ==
    \A p \in DOMAIN posted : \A n \in posted[p] : Headers(n) => posted[p] = {n}

\* Every command the application issued is in exactly one place: the queue or
\* one POST.  endBatch neither loses nor repeats one.
EachCommandOnce ==
    /\ messageQueue \union UNION Elements(posted) = DOMAIN calls
    /\ \A p \in DOMAIN posted : posted[p] \intersect messageQueue = {}
    /\ \A p, q \in DOMAIN posted : p # q => posted[p] \intersect posted[q] = {}

\* endBatch never reorders two commands of the same class (with, or without
\* headers): an earlier one is in no later POST, and never stays in the queue
\* when a later one has gone.
ClassOrder ==
    \A p \in DOMAIN posted : \A n \in posted[p] :
        /\ \A m \in messageQueue : Headers(m) = Headers(n) => n < m
        /\ \A q \in DOMAIN posted : \A m \in posted[q] :
               Headers(m) = Headers(n) /\ p < q => n < m

\* Ids whose last listen was refused, and that the page did not touch since.
unheard == {calls[n].id : n \in {k \in refused :
                \A m \in DOMAIN calls : m > k /\ calls[m].id = calls[k].id => calls[m].type = "send"}}

\* When nothing is queued or outstanding, the server has consumers for exactly
\* the ids that have a handler in the page (amq.js:279-297), but for those whose
\* last listen was refused: the page is not told (MessageListenerServlet.java:
\* 166-167, 200-202).
QuiescentSubscriptions ==
    messageQueue = {} /\ inFlight = {} /\ unserved = {}
        => subscribed = messageHandlers \ unheard

\* No message is discarded whose id has a handler: messageHandler goes through
\* the whole response (amq.js:86-89), unless the application throws.  The
\* exceptions are the answer to the first poll, which matters only if the
\* application was early, and what follows a message of a listener that was
\* removed, while logging is off (105-112).
NothingDropped ==
    dropped # {} =>
        \/ early
        \/ ~logging /\ \E n \in DOMAIN calls : calls[n].type = "unlisten"

\* The handler of every message in a response is invoked (amq.js:86-89).
EveryMessageHandled == dropped = {}

\* batchInProgress is TRUE while a POST is outstanding (amq.js:72).
FlagCoversPosts == inFlight # {} => batchInProgress

(***************************************************************************)
(* Action properties.                                                      *)
(***************************************************************************)
\* No command is passed over for ever: each POST sent from the queue takes the
\* oldest command in it, whatever its class.
OldestGoes ==
    [][messageQueue # {} /\ posted' # posted
          => \E n \in posted'[Len(posted')] : isFirst(n, messageQueue)]_vars

(***************************************************************************)
(* Liveness.                                                               *)
(***************************************************************************)
\* A queued command is eventually sent (amq.js:75-77: "delivered as soon as
\* the current call completes").
QueuedIsSent ==
    \A n \in 1..MaxCalls : n \in messageQueue ~> n \notin messageQueue

\* The page goes on polling, whatever fails: a GET, the server's answer, a message
\* handler, or connectStatusHandler when it is told of an answer (amq.js:124-145).
\* It stops for good when connectStatusHandler throws when told of a failed poll
\* (125), or sessionInitializedCallback does (150).
KeepsPolling ==
    /\ []<>(broken \/ waiting["init"] + waiting["poll"] > 0)
    /\ []<>(broken \/ pollTimers > 0 \/ running # "none")
=============================================================================
