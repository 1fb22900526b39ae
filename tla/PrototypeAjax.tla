--------------------------- MODULE PrototypeAjax ----------------------------
(***************************************************************************)
(* Ajax.Request of prototype.js, and the responder that counts the         *)
(* requests which are under way, as operators on a record: `state' of each *)
(* request, `active' for Ajax.activeRequestCount, and as a history the     *)
(* requests that are complete and yet counted.                             *)
(*                                                                         *)
(* The events before Complete are left out: the requests made here have no *)
(* handlers for them.                                                      *)
(***************************************************************************)
EXTENDS Integers, FiniteSets

CONSTANT MaxRequests    \* bound: requests made

ASSUME AjaxAssumption == MaxRequests \in Nat

Requests == 1..MaxRequests

noAjax == [state |-> [i \in Requests |-> "new"], active |-> 0, uncounted |-> {}]

\* request: counted in onCreate before anything can go wrong.  What open or
\* send throws goes to the handlers of onException, and no responder has one.
request(a, i, outcome) ==
    [a EXCEPT !.state[i] = outcome, !.active = @ + 1]

\* respondToReadyState(4): the handler of onComplete, then the responders,
\* who do not hear of it if the handler throws.  It is not called again.
respondComplete(a, i, throws) ==
    [state |-> [a.state EXCEPT ![i] = "complete"],
     active |-> IF throws THEN a.active ELSE a.active - 1,
     uncounted |-> IF throws THEN a.uncounted \union {i} ELSE a.uncounted]

withState(a, s) == {i \in Requests : a.state[i] = s}
=============================================================================
