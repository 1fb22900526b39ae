--------------------------- MODULE JQueryDeferred ---------------------------
(***************************************************************************)
(* jQuery._Deferred: one list of callbacks.  A Deferred is two such lists, *)
(* of which firing the one cancels the other.  Callbacks are called one    *)
(* after the other and leave the list as they are called; what they do in  *)
(* between is up to the module that runs them.                             *)
(***************************************************************************)
EXTENDS Sequences

List == [callbacks |-> <<>>, fired |-> FALSE, firing |-> FALSE, cancelled |-> FALSE]

mayFire(L) == ~L.cancelled /\ ~L.fired /\ ~L.firing

\* resolveWith: the flag goes up before the first callback is called,
fire(L) == [L EXCEPT !.firing = TRUE]

shift(L) == [L EXCEPT !.callbacks = Tail(@)]

\* Mutant: a callback that throws leaves the list firing for ever.
neverFired(L) == L

\* and the list counts as fired after the last, or after one that throws.
firedNow(L) == [L EXCEPT !.fired = TRUE, !.firing = FALSE]

cancel(L) == [L EXCEPT !.cancelled = TRUE, !.callbacks = <<>>]

\* Mutant: callbacks are not taken off the list as they are called.
doneRepeats(L, f) ==
    IF L.cancelled THEN L
    ELSE [L EXCEPT !.callbacks = IF L.fired THEN Append(@, "success") \o <<f>> ELSE Append(@, f),
                   !.fired = FALSE, !.firing = L.firing \/ L.fired]

\* done(f): on a list that has fired, f is called at once, so that the list
\* fires again, callbacks left over by an exception first.
done(L, f) ==
    IF L.cancelled THEN L
    ELSE [L EXCEPT !.callbacks = Append(@, f),
                   !.fired = FALSE, !.firing = L.firing \/ L.fired]
=============================================================================
