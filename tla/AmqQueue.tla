------------------------------ MODULE AmqQueue ------------------------------
(***************************************************************************)
(* How endBatch of amq.js divides the commands that wait in messageQueue   *)
(* between the next POST and the queue that remains.  The array is given   *)
(* by the set of the numbers of its commands, in increasing order, and     *)
(* `withHeaders' holds the numbers of the commands that set a header.      *)
(***************************************************************************)
EXTENDS Integers

isFirst(n, queue) == \A m \in queue : n <= m

\* Mutant: headers are not looked at.
everythingToSend(queue, withHeaders) == queue

\* Mutant: the queue is emptied from its end.
newestToSend(queue, withHeaders) == {n \in queue : \A m \in queue : m <= n}

\* Mutant: commands with headers wait until no others are left.
plainToSend(queue, withHeaders) ==
    LET plain == queue \ withHeaders IN
    IF plain # {} THEN plain ELSE {n \in queue : isFirst(n, queue)}

\* A command with headers goes only when it is the first, and then alone;
\* otherwise every command without headers goes.
messagesToSend(queue, withHeaders) ==
    {n \in queue :
        \/ n \in withHeaders /\ isFirst(n, queue)
        \/ n \notin withHeaders /\ ~\E m \in queue \intersect withHeaders : isFirst(m, queue)}

\* Mutant: messageQueue is emptied after the split.
nothingToQueue(queue, withHeaders) == {}

messagesToQueue(queue, withHeaders) ==
    queue \ messagesToSend(queue, withHeaders)
=============================================================================
