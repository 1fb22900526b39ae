------------------------- MODULE MCMessageListener -------------------------
(* TLC instances of MessageListener: the POSTs a page may send. *)
EXTENDS MessageListener

body(cmds) == [cmds |-> cmds, poll |-> FALSE, raw |-> FALSE]
polling(cmds) == [cmds |-> cmds, poll |-> TRUE, raw |-> FALSE]
rawBody == [cmds |-> <<>>, poll |-> FALSE, raw |-> TRUE]
order(t, d) == [type |-> t, dest |-> d]

\* One listen.
ListenBodies == {body(<<order("listen", d)>>) : d \in Dests}

\* A page that listens on all destinations with one POST.
ListenAllBodies ==
    LET n == Cardinality(Dests) IN
    {body([i \in 1..n |-> order("listen", ds[i])]) :
        ds \in {f \in [1..n -> Dests] : Cardinality({f[i] : i \in 1..n}) = n}}

\* Listens that replace one another, sends, and everything doPost ignores.
ManyBodies ==
    ListenBodies \union {rawBody} \union
    {body(<<order("send", d), order("unknown", d), order("listen", d)>>) : d \in Dests}

\* A page that drops a subscription.
UnlistenBodies ==
    ListenBodies \union {body(<<order("unlisten", d)>>) : d \in Dests}

\* The same, with selectors the broker refuses, and a POST that polls.
AllBodies ==
    ManyBodies \union UnlistenBodies
    \union {body(<<order("badSelector", d)>>) : d \in Dests}
    \union {polling(<<order("send", d)>>) : d \in Dests}
=============================================================================
