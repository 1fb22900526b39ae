----------------------------- MODULE JQueryAjax -----------------------------
(***************************************************************************)
(* jQuery.ajax as amq_jquery_adapter.js uses it: the requests of one page. *)
(*                                                                         *)
(* Everything runs on the one thread of the page, and much of it inside    *)
(* other calls: ajax calls handlers of the application before the request  *)
(* is sent, a handler calls ajax or abort, an exception unwinds the stack  *)
(* up to the try in ajax.  `stack' is the call stack, a frame per call of  *)
(* ajax, of its inner function done, or of a Deferred that fires.  At the  *)
(* labels in UserCode the function on top is one of the application's.     *)
(*                                                                         *)
(* What a response holds is left out, but for its conversion, which works  *)
(* or does not.                                                            *)
(***************************************************************************)
EXTENDS Integers, FiniteSets, JQueryDeferred

CONSTANTS
    Requests,       \* calls of ajax; each is made at most once
    Throws,         \* may functions of the application throw?
    AbortsInSend,   \* may they abort a request that ajax has not sent?
    Timeouts,       \* is the option timeout set?
    MaxAdded        \* bound: callbacks added to requests later on

ASSUME AjaxAssumption ==
    {Throws, AbortsInSend, Timeouts} \subseteq BOOLEAN /\ MaxAdded \in Nat

Callbacks == {"success", "error", "complete", "late"}
Kinds == {"done", "fail", "complete"}   \* the lists of a jqXHR
UserCode == {"prefilter", "ajaxStart", "beforeSend", "ajaxSend", "callback",
             "outcome", "ajaxComplete", "ajaxStop"}

VARIABLES
    state,      \* of each jqXHR: 0, 1 once it is sent, 2 once it is done;
                \* -1 before there is one
    transport,  \* "none", "made", or "sent" while its callback may be called;
                \* "script" and "loading" for a script of another domain
    timer,      \* timeoutTimer is set
    lists,
    fireGlobals,
    active,     \* jQuery.active
    stack,
    \* history
    called,     \* how often each callback of each request was called
    finished,   \* how often done has run past its first test
    thrown,     \* requests that an exception left in ajax, before they were sent
    cut,        \* requests whose done was left by an exception,
    cutAgain,   \* and, when done ran twice, both times
    shown,      \* ajaxStart has been triggered, and no ajaxStop since
    added

requestVars == <<state, transport, timer, lists, fireGlobals>>
historyVars == <<called, finished, thrown, cut, cutAgain, added>>
vars == <<requestVars, active, shown, stack, historyVars>>

Init ==
    /\ state = [r \in Requests |-> -1]
    /\ transport = [r \in Requests |-> "none"]
    /\ timer = [r \in Requests |-> FALSE]
    /\ lists = [r \in Requests |-> [k \in Kinds |-> List]]
    /\ fireGlobals = [r \in Requests |-> FALSE]
    /\ active = 0 /\ stack = <<>>
    /\ called = [r \in Requests |-> [c \in Callbacks |-> 0]]
    /\ finished = [r \in Requests |-> 0]
    /\ thrown = {} /\ cut = {} /\ cutAgain = {} /\ shown = FALSE /\ added = 0

-----------------------------------------------------------------------------
frame(label, q) == [at |-> label, r |-> q, kind |-> "done", again |-> FALSE]
top == stack[Len(stack)]
below == SubSeq(stack, 1, Len(stack) - 1)
at(label) == stack # <<>> /\ top.at = label
goto(label) == stack' = Append(below, [top EXCEPT !.at = label])
userRuns == stack # <<>> => top.at \in UserCode
new(r) == state[r] = -1
underWay(r) == transport[r] \in {"sent", "loading"}

\* Whether a response counts as a success: one that is fine may still fail to
\* convert to the type asked for ("parsererror"), see JQueryConvert.
verdicts(ok) == IF ok THEN BOOLEAN ELSE {FALSE}

(***************************************************************************)
(* done(): `base' is the stack it returns to.                              *)
(***************************************************************************)
finish(r, ok, base) ==
    \/ /\ state[r] = 2
       /\ stack' = base
       /\ UNCHANGED <<requestVars, active, shown, historyVars>>
    \/ /\ state[r] # 2
       /\ state' = [state EXCEPT ![r] = 2]
       /\ timer' = [timer EXCEPT ![r] = FALSE]
       /\ transport' = [transport EXCEPT ![r] = "none"]
       /\ finished' = [finished EXCEPT ![r] = @ + 1]
       /\ \E isSuccess \in verdicts(ok) :
             stack' = Append(base, [frame("resolve", r) EXCEPT
                          !.kind = IF isSuccess THEN "done" ELSE "fail"])
       /\ UNCHANGED <<lists, fireGlobals, active, shown, called, thrown, cut,
                      cutAgain, added>>

setList(r, k, L) == lists' = [lists EXCEPT ![r][k] = L]

\* Firing the one list of a Deferred first cancels the other.
fireOnly(r, k) ==
    lists' = [lists EXCEPT ![r] = [j \in Kinds |->
                 IF j = k THEN fire(@[j])
                 ELSE IF "complete" \in {j, k} THEN @[j] ELSE cancel(@[j])]]

\* Where done goes on when the list has fired.
afterFiring ==
    IF top.again THEN stack' = below
    ELSE IF top.kind # "complete" THEN goto("outcome")
    ELSE IF fireGlobals[top.r] THEN goto("ajaxComplete") ELSE stack' = below

resolveWith ==
    /\ at("resolve")
    /\ \/ /\ mayFire(lists[top.r][top.kind])
          /\ fireOnly(top.r, top.kind)
          /\ goto("firing")
       \/ /\ ~mayFire(lists[top.r][top.kind])
          /\ afterFiring
          /\ UNCHANGED lists
    /\ UNCHANGED <<state, transport, timer, fireGlobals, active, shown, historyVars>>

callNext ==
    /\ at("firing")
    /\ LET L == lists[top.r][top.kind] IN
       \/ /\ L.callbacks # <<>>
          /\ setList(top.r, top.kind, shift(L))
          /\ called' = [called EXCEPT ![top.r][Head(L.callbacks)] = @ + 1]
          /\ goto("callback")
       \/ /\ L.callbacks = <<>>
          /\ setList(top.r, top.kind, firedNow(L))
          /\ afterFiring
          /\ UNCHANGED called
    /\ UNCHANGED <<state, transport, timer, fireGlobals, active, shown, finished,
                   thrown, cut, cutAgain, added>>

-----------------------------------------------------------------------------
(***************************************************************************)
(* ajax(), up to the sending.  Each step begins as the application's code  *)
(* at a label returns.                                                     *)
(***************************************************************************)
callAjax(r) ==
    /\ userRuns /\ new(r)
    /\ state' = [state EXCEPT ![r] = 0]
    /\ stack' = Append(stack, frame("prefilter", r))
    /\ UNCHANGED <<transport, timer, lists, fireGlobals, active, shown,
                   historyVars>>

\* Only a request that fires global events is counted.
countRequest(counted) ==
    \/ /\ counted
       /\ active' = active + 1
       /\ shown' = (shown \/ active = 0)
       /\ goto(IF active = 0 THEN "ajaxStart" ELSE "beforeSend")
    \/ /\ ~counted
       /\ goto("beforeSend")
       /\ UNCHANGED <<active, shown>>

\* The option global.  The prefilter for scripts clears it when the script is
\* of another domain.
scriptPrefilter(global, crossDomain) == global /\ ~crossDomain

prefiltersReturn ==
    /\ at("prefilter")
    /\ \/ /\ state[top.r] = 2
          /\ stack' = below
          /\ UNCHANGED <<fireGlobals, active, shown>>
       \/ /\ state[top.r] # 2
          /\ \E global, crossDomain \in BOOLEAN :
                fireGlobals' = [fireGlobals EXCEPT
                                   ![top.r] = scriptPrefilter(global, crossDomain)]
          /\ countRequest(fireGlobals'[top.r])
    /\ UNCHANGED <<state, transport, timer, lists, historyVars>>

ajaxStartReturn ==
    /\ at("ajaxStart")
    /\ goto("beforeSend")
    /\ UNCHANGED <<requestVars, active, shown, historyVars>>

\* beforeSend returns false, or has aborted the request.
beforeSendRefuses ==
    /\ at("beforeSend")
    /\ finish(top.r, FALSE, below)

\* What the list of transports may come up with.  That for scripts takes those of
\* another domain only, which fire no global events.
inspectPrefiltersOrTransports(r) ==
    {"none", "made"} \union IF fireGlobals[r] THEN {} ELSE {"script"}

optionCallbacks == [done |-> "success", fail |-> "error", complete |-> "complete"]

\* The callbacks of the options are installed and a transport is looked for.
beforeSendReturn ==
    /\ at("beforeSend") /\ state[top.r] # 2
    /\ lists' = [lists EXCEPT ![top.r] =
                    [k \in Kinds |-> done(@[k], optionCallbacks[k])]]
    /\ \E t \in inspectPrefiltersOrTransports(top.r) :
          /\ transport' = [transport EXCEPT ![top.r] = t]
          /\ IF t = "none" THEN goto("catch")      \* done(-1)
             ELSE goto(IF fireGlobals[top.r] THEN "ajaxSend" ELSE "unannounced")
    /\ UNCHANGED <<state, timer, fireGlobals, active, shown, historyVars>>

\* state is set to 1 whatever it was.
ajaxSendReturn ==
    /\ at("ajaxSend") \/ at("unannounced")
    /\ timer' = [timer EXCEPT ![top.r] = Timeouts]
    /\ state' = [state EXCEPT ![top.r] = 1]
    /\ goto("send")
    /\ UNCHANGED <<transport, lists, fireGlobals, active, shown, historyVars>>

\* The request is under way, and ajax returns.
sendReturn ==
    /\ at("send") /\ transport[top.r] = "made" /\ state[top.r] = 1
    /\ transport' = [transport EXCEPT ![top.r] = "sent"]
    /\ stack' = below
    /\ UNCHANGED <<state, timer, lists, fireGlobals, active, shown, historyVars>>

\* The element of the script is put into the page.
scriptSend ==
    /\ at("send") /\ transport[top.r] = "script" /\ state[top.r] = 1
    /\ transport' = [transport EXCEPT ![top.r] = "loading"]
    /\ stack' = below
    /\ UNCHANGED <<state, timer, lists, fireGlobals, active, shown, historyVars>>

\* The response is in the cache: the transport calls done before it returns.
sendFromCache ==
    /\ at("send") /\ transport[top.r] = "made"
    /\ \E ok \in BOOLEAN : finish(top.r, ok, stack)

\* send throws, or there is no transport any more to send with.
sendThrows ==
    /\ at("send")
    /\ state[top.r] = 1 /\ transport[top.r] # "script"
    /\ goto("catch")
    /\ UNCHANGED <<requestVars, active, shown, historyVars>>

\* ajax returns once the done that send has called is through.
sendDone ==
    /\ at("send") /\ state[top.r] = 2
    /\ stack' = below
    /\ UNCHANGED <<requestVars, active, shown, historyVars>>

\* The catch clause: done(-1), as "status" there is a field of the window and
\* not the state of the request.
catch ==
    /\ at("catch")
    /\ finish(top.r, FALSE, below)

-----------------------------------------------------------------------------
(***************************************************************************)
(* done(), from the callbacks on.                                          *)
(***************************************************************************)
callbackReturn ==
    /\ at("callback")
    /\ goto("firing")
    /\ UNCHANGED <<requestVars, active, shown, historyVars>>

\* The status callbacks, then the handlers of ajaxSuccess or ajaxError.
outcomeReturn ==
    /\ at("outcome")
    /\ stack' = Append(below, [top EXCEPT !.at = "resolve", !.kind = "complete"])
    /\ UNCHANGED <<requestVars, active, shown, historyVars>>

\* Mutant: the counter is not decremented.
ajaxCompleteForgets ==
    /\ at("ajaxComplete")
    /\ stack' = below
    /\ UNCHANGED <<requestVars, active, shown, historyVars>>

ajaxCompleteReturn ==
    /\ at("ajaxComplete")
    /\ active' = active - 1
    /\ shown' = (shown /\ active # 1)
    /\ IF active = 1 THEN goto("ajaxStop") ELSE stack' = below
    /\ UNCHANGED <<requestVars, historyVars>>

ajaxStopReturn ==
    /\ at("ajaxStop")
    /\ stack' = below
    /\ UNCHANGED <<requestVars, active, shown, historyVars>>

-----------------------------------------------------------------------------
(***************************************************************************)
(* What else the application does, at any of its points or in an event of  *)
(* its own.                                                                *)
(***************************************************************************)
\* An abort: the application has the jqXHR from ajax, or from a prefilter or
\* handler it was passed to; the handlers of ajaxStart are passed none.
abort(r) ==
    /\ userRuns /\ ~new(r)
    /\ AbortsInSend \/ underWay(r) \/ state[r] = 2
    /\ ~\E i \in DOMAIN stack : stack[i].r = r /\ stack[i].at = "ajaxStart"
    /\ finish(r, FALSE, stack)

\* A callback added to a request that ajax has returned.
addLate(r, k) ==
    /\ userRuns /\ added < MaxAdded
    /\ underWay(r) \/ finished[r] > 0
    /\ added' = added + 1
    /\ setList(r, k, done(lists[r][k], "late"))
    /\ IF lists[r][k].fired /\ ~lists[r][k].cancelled
       THEN stack' = Append(stack, [at |-> "firing", r |-> r, kind |-> k, again |-> TRUE])
       ELSE UNCHANGED stack
    /\ UNCHANGED <<state, transport, timer, fireGlobals, active, shown, called,
                   finished, thrown, cut, cutAgain>>

\* An exception ends every call up to the one of transport.send, if there is
\* one, and the finally of each list that was firing runs.
inTry == {i \in DOMAIN stack : stack[i].at = "send"}
caughtAt == IF inTry = {} THEN 0
            ELSE CHOOSE i \in inTry : \A j \in inTry : j <= i
unwound == {stack[i] : i \in (caughtAt + 1)..Len(stack)}
beforeSending(f) == f.at \in {"prefilter", "ajaxStart", "beforeSend", "ajaxSend"}
inDone(f) == f.at \in {"outcome", "ajaxComplete", "callback"} /\ ~f.again
cutNow == {f.r : f \in {g \in unwound : inDone(g) /\ fireGlobals[g.r]}}

throw ==
    /\ Throws /\ stack # <<>> /\ top.at \in UserCode
    /\ lists' = [r \in Requests |-> [k \in Kinds |->
           IF \E f \in unwound : f.at = "callback" /\ f.r = r /\ f.kind = k
           THEN firedNow(lists[r][k]) ELSE lists[r][k]]]
    /\ thrown' = thrown \union {f.r : f \in {g \in unwound : beforeSending(g)}}
    /\ cut' = cut \union cutNow
    /\ cutAgain' = cutAgain \union (cut \intersect cutNow)
    /\ stack' = IF caughtAt = 0 THEN <<>>
                ELSE Append(SubSeq(stack, 1, caughtAt - 1),
                            [stack[caughtAt] EXCEPT !.at = "catch"])
    /\ UNCHANGED <<state, transport, timer, fireGlobals, active, shown, called,
                   finished, added>>

-----------------------------------------------------------------------------
(***************************************************************************)
(* Events of the browser.                                                  *)
(***************************************************************************)
\* Mutant: the callback of the transport stays set.
answerStays(r) ==
    /\ stack = <<>> /\ transport[r] = "sent"
    /\ transport' = [transport EXCEPT ![r] = "none"]
    /\ UNCHANGED <<state, timer, lists, fireGlobals, active, shown, stack,
                   historyVars>>

\* onreadystatechange with readyState 4.
answer(r) ==
    /\ stack = <<>> /\ transport[r] = "sent"
    /\ \E ok \in BOOLEAN : finish(r, ok, <<>>)

\* onload of the script.  One that cannot be loaded makes no event.
scriptLoaded(r) ==
    /\ stack = <<>> /\ transport[r] = "loading"
    /\ finish(r, TRUE, <<>>)

timeout(r) ==
    /\ stack = <<>> /\ timer[r]
    /\ finish(r, FALSE, <<>>)

-----------------------------------------------------------------------------
Return ==       \* the application's code returns, or jQuery goes on
    \/ prefiltersReturn \/ ajaxStartReturn \/ beforeSendReturn
    \/ beforeSendRefuses \/ ajaxSendReturn \/ sendReturn \/ scriptSend \/ sendFromCache
    \/ sendThrows \/ sendDone \/ catch \/ resolveWith \/ callNext
    \/ callbackReturn \/ outcomeReturn \/ ajaxCompleteReturn \/ ajaxStopReturn

Next ==
    \/ Return \/ throw
    \/ \E r \in Requests : callAjax(r) \/ abort(r) \/ answer(r) \/ scriptLoaded(r) \/ timeout(r)
    \/ \E r \in Requests, k \in Kinds : addLate(r, k)

Spec == Init /\ [][Next]_vars

(***************************************************************************)
(* Functions of the application return, and a request that is under way is *)
(* answered in the end.                                                    *)
(***************************************************************************)
FairSpec ==
    Spec /\ WF_vars(Return) /\ \A r \in Requests : WF_vars(answer(r))

-----------------------------------------------------------------------------
\* Requests that are counted between events: those under way; those that an
\* exception of the application left before they were sent, or in their done, and
\* that nothing will end; and, less than nothing, those whose done ran twice.
sent == {r \in Requests : fireGlobals[r] /\ underWay(r)}
leftUnsent == {r \in thrown : fireGlobals[r] /\ finished[r] = 0}
endedTwice == {r \in Requests : fireGlobals[r] /\ finished[r] > 1}

\* Between events, jQuery.active is the number of requests under way, but for two
\* leaks.  A request stays counted for ever when a handler of ajaxStart,
\* beforeSend or ajaxSend throws, or a callback or handler that done calls.  And a
\* request aborted in ajaxSend is taken off the count twice.  ajaxStart has been
\* triggered without an ajaxStop exactly when the count is above zero
\* (jquery.js:7256-7259, 7187-7190).
ActiveCount ==
    stack = <<>> =>
        /\ active = Cardinality(sent) + Cardinality(leftUnsent) + Cardinality(cut)
                        + Cardinality(cutAgain) - Cardinality(endedTwice)
        /\ shown = (active > 0)

\* A list fires only while one of its frames is on the stack: an exception
\* leaves no list firing, so callbacks added later are called.
FiringOnStack ==
    \A r \in Requests, k \in Kinds :
        lists[r][k].firing <=>
            \E i \in DOMAIN stack :
                /\ stack[i].r = r /\ stack[i].kind = k
                /\ stack[i].at \in {"firing", "callback"}

\* A request under way ends in its callback: success or error.
SentEnds ==
    \A r \in Requests :
        transport[r] = "sent" ~> called[r]["success"] + called[r]["error"] = 1

(***************************************************************************)
(* jQuery.ajax keeps what the adapter promises of a call.                  *)
(***************************************************************************)
outcomes(r) == called[r]["success"] + called[r]["error"]

outcomeOf ==
    [r \in Requests |->
        IF outcomes(r) > 1 THEN "repeated"
        ELSE IF called[r]["success"] = 1 THEN "success"
        ELSE IF called[r]["error"] = 1 THEN "error"
        ELSE IF new(r) THEN "new" ELSE "open"]

Call == INSTANCE AjaxCall WITH call <- outcomeOf

ImplementsAjaxCall == Call!Spec
=============================================================================
