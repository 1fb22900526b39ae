------------------------------ MODULE AjaxCall ------------------------------
(***************************************************************************)
(* What amq_jquery_adapter.js promises of its ajax function: a call has    *)
(* one outcome, of which the page hears by one call of one callback.       *)
(***************************************************************************)
CONSTANT Requests

VARIABLE call       \* of each request: "new", "open", "success" or "error"

Init == call = [r \in Requests |-> "new"]

open(r) == call[r] = "new" /\ call' = [call EXCEPT ![r] = "open"]

\* success: "invoked upon successful completion of the AJAX call"
success(r) == call[r] = "open" /\ call' = [call EXCEPT ![r] = "success"]

\* error: "when some type of error occurs"
error(r) == call[r] = "open" /\ call' = [call EXCEPT ![r] = "error"]

Next == \E r \in Requests : open(r) \/ success(r) \/ error(r)

Spec == Init /\ [][Next]_call
=============================================================================
