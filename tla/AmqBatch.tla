------------------------------ MODULE AmqBatch ------------------------------
(***************************************************************************)
(* One batch of commands on its way from messageQueue in the page to the   *)
(* servlet: the loop of endBatch over the real array, buildParams, the     *)
(* form decoding of the servlet container (external) and the loop of       *)
(* MessageListenerServlet.doPost that reads numbered parameters.           *)
(*                                                                         *)
(* The text of a message is either "plain" or "escaped": one that holds an *)
(* ampersand, as every escaped XML text does.  buildParams joins texts     *)
(* with `&' and `=' as they are, so the container ends an escaped text at  *)
(* its ampersand and takes what follows for another parameter.             *)
(***************************************************************************)
EXTENDS AmqQueue, Sequences

CONSTANTS
    MaxQueue,   \* bound: commands in the queue
    Texts       \* the texts the application sends

ASSUME BatchAssumption ==
    MaxQueue \in Nat /\ Texts \subseteq {"plain", "escaped"}

\* Only addListener can set headers; ids are plain.
Entries ==
    [type : {"listen"}, text : {"plain"}, headers : BOOLEAN]
        \union [type : {"send"}, text : Texts, headers : {FALSE}]

NoHeaders == 0

VARIABLES
    pc,
    queue,              \* messageQueue when endBatch is entered
    i,                  \* loop variable of endBatch
    messagesToSend_,    \* the arrays of endBatch: indices into queue
    messagesToQueue_,
    outgoingHeaders,    \* the entry whose headers go with the POST
    built,              \* loop variable of buildParams
    body,               \* what buildParams makes: fields, in order
    messages,           \* loop counter of doPost
    decoded             \* the commands doPost carries out

vars == <<pc, queue, i, messagesToSend_, messagesToQueue_, outgoingHeaders,
          built, body, messages, decoded>>

Init ==
    /\ pc = "endBatch"
    /\ \E n \in 1..MaxQueue : queue \in [1..n -> Entries]
    /\ i = 1
    /\ messagesToSend_ = <<>> /\ messagesToQueue_ = <<>>
    /\ outgoingHeaders = NoHeaders
    /\ built = 0 /\ body = <<>> /\ messages = 0 /\ decoded = <<>>

-----------------------------------------------------------------------------
\* Mutant: a command with headers joins whatever is to be sent.
scanEntryJoins ==
    /\ pc = "endBatch" /\ i <= Len(queue)
    /\ i' = i + 1
    /\ \/ /\ queue[i].headers \/ outgoingHeaders = NoHeaders
          /\ messagesToSend_' = Append(messagesToSend_, i)
          /\ outgoingHeaders' = IF queue[i].headers THEN i ELSE outgoingHeaders
          /\ UNCHANGED messagesToQueue_
       \/ /\ ~queue[i].headers /\ outgoingHeaders # NoHeaders
          /\ messagesToQueue_' = Append(messagesToQueue_, i)
          /\ UNCHANGED <<messagesToSend_, outgoingHeaders>>
    /\ UNCHANGED <<pc, queue, built, body, messages, decoded>>

\* One turn of the loop in endBatch.
scanEntry ==
    /\ pc = "endBatch" /\ i <= Len(queue)
    /\ i' = i + 1
    /\ \/ /\ queue[i].headers /\ messagesToSend_ = <<>>
          /\ messagesToSend_' = Append(messagesToSend_, i)
          /\ outgoingHeaders' = i
          /\ UNCHANGED messagesToQueue_
       \/ /\ ~queue[i].headers /\ outgoingHeaders = NoHeaders
          /\ messagesToSend_' = Append(messagesToSend_, i)
          /\ UNCHANGED <<messagesToQueue_, outgoingHeaders>>
       \/ /\ queue[i].headers => messagesToSend_ # <<>>
          /\ queue[i].headers \/ outgoingHeaders # NoHeaders
          /\ messagesToQueue_' = Append(messagesToQueue_, i)
          /\ UNCHANGED <<messagesToSend_, outgoingHeaders>>
    /\ UNCHANGED <<pc, queue, built, body, messages, decoded>>

\* A field is [name, nr, value]; nr 0 stands for the long names destination,
\* message and type.  Value n is what command n holds for that name, and -n
\* what is left of it when it is cut at its ampersand.
field(name, nr, value) == <<[name |-> name, nr |-> nr, value |-> value]>>

\* Mutant: the message of the first command keeps the long name's number, the
\* others are numbered from 2.
messageFieldFromTwo(nr, n) == field("m", IF nr = 0 THEN 0 ELSE nr + 1, n)

messageField(nr, n) ==
    IF queue[n].text = "plain"
    THEN field("m", nr, n)
    ELSE field("m", nr, -n) \o field("other", 0, n)

fieldsOf(nr, n) == field("d", nr, n) \o messageField(nr, n) \o field("t", nr, n)

\* One turn of the loop in buildParams.
buildParams ==
    /\ pc = "endBatch" /\ i > Len(queue) /\ built < Len(messagesToSend_)
    /\ built' = built + 1
    /\ body' = body \o fieldsOf(built, messagesToSend_[built + 1])
    /\ UNCHANGED <<pc, queue, i, messagesToSend_, messagesToQueue_,
                   outgoingHeaders, messages, decoded>>

\* The body is complete, and endBatch posts it.
postBody ==
    /\ pc = "endBatch" /\ i > Len(queue) /\ built = Len(messagesToSend_)
    /\ pc' = "doPost"
    /\ UNCHANGED <<queue, i, messagesToSend_, messagesToQueue_,
                   outgoingHeaders, built, body, messages, decoded>>

-----------------------------------------------------------------------------
Null == 0

\* request.getParameter: the first field of that name.
getParameter(name, nr) ==
    LET at == {k \in DOMAIN body : body[k].name = name /\ body[k].nr = nr} IN
    IF at = {} THEN Null
    ELSE body[CHOOSE k \in at : \A l \in at : k <= l].value

incomplete ==
    Null \in {getParameter("d", messages), getParameter("m", messages),
              getParameter("t", messages)}

\* One turn of the loop in doPost.  A listen is given the selector header of
\* the request, whichever command of the body it belongs to.
decodeCommand ==
    /\ pc = "doPost" /\ ~incomplete
    /\ messages' = messages + 1
    /\ decoded' = Append(decoded,
           [destination |-> getParameter("d", messages),
            message |-> getParameter("m", messages),
            type |-> getParameter("t", messages),
            selector |-> IF queue[getParameter("t", messages)].type = "listen"
                         THEN outgoingHeaders ELSE NoHeaders])
    /\ UNCHANGED <<pc, queue, i, messagesToSend_, messagesToQueue_,
                   outgoingHeaders, built, body>>

decodeEnd ==
    /\ pc = "doPost" /\ incomplete
    /\ pc' = "done"
    /\ UNCHANGED <<queue, i, messagesToSend_, messagesToQueue_,
                   outgoingHeaders, built, body, messages, decoded>>

Next == scanEntry \/ buildParams \/ postBody \/ decodeCommand \/ decodeEnd

Spec == Init /\ [][Next]_vars

-----------------------------------------------------------------------------
Indices(s) == {s[k] : k \in DOMAIN s}
Increasing(s) == \A k, l \in DOMAIN s : k < l => s[k] < s[l]

\* The loop over the arrays computes the sets AmqClient works with, and keeps
\* the order of the queue in both parts.
LoopComputesSplit ==
    pc # "endBatch" =>
        LET all == DOMAIN queue
            headers == {n \in all : queue[n].headers}
        IN  /\ Indices(messagesToSend_) = messagesToSend(all, headers)
            /\ Indices(messagesToQueue_) = messagesToQueue(all, headers)
            /\ Increasing(messagesToSend_) /\ Increasing(messagesToQueue_)

\* The servlet carries out exactly the commands of the batch, in order, each
\* with the destination, the type and the selector the page gave it, and with
\* its text when that holds no ampersand (amq.js:245-249,
\* MessageListenerServlet.java:134-149).
DecodedAsSent ==
    pc = "done" =>
        /\ Len(decoded) = Len(messagesToSend_)
        /\ \A k \in DOMAIN decoded :
              LET n == messagesToSend_[k] IN
              /\ decoded[k].destination = n /\ decoded[k].type = n
              /\ decoded[k].selector = (IF queue[n].headers THEN n ELSE NoHeaders)
              /\ queue[n].text = "plain" => decoded[k].message = n
=============================================================================
