-------------------------------- MODULE Chat --------------------------------
(***************************************************************************)
(* The chat demo: how the pages that have joined a room keep the list of   *)
(* its members.  There is no server for the room.  A page that joins or    *)
(* leaves says so on a topic; whoever hears of it clears its list and      *)
(* announces itself with a ping.                                           *)
(*                                                                         *)
(* amq.js posts the commands of a page in order, and the servlet carries   *)
(* them out in order (modules AmqClient and MessageListener).  Messages    *)
(* need not reach a page in the order of the topic: the one a poll has     *)
(* found, or was resumed with, is written before those that were buffered  *)
(* earlier.  No request of a page fails here.  Lines of chat text change   *)
(* no list and are left out.                                               *)
(***************************************************************************)
EXTENDS Integers, Sequences, FiniteSets

CONSTANTS
    Pages,
    SameNames,      \* do all the users give the same name?
    MaxJoins,       \* bound: how often join is called
    MaxLeaves       \* bound: how often leave is called

ASSUME ChatAssumption ==
    /\ SameNames \in BOOLEAN /\ "same" \notin Pages
    /\ MaxJoins \in Nat /\ MaxLeaves \in Nat

VARIABLES
    user,       \* of each page: has it a user?
    handler,    \* is chatHandler registered with amq?
    members,    \* names the list shows
    outbox,     \* commands on their way to the broker
    subscribed, \* pages with a consumer of the topic
    held,       \* messages for each page in its consumer and its listener
    inbox,      \* messages of the response a page is handling
    \* history
    joins, leaves,
    leaving,    \* pages on which leave was called since they have joined
    doubled,    \* pages on which leave was called twice for one join
    outrun      \* pages whose list was last cleared by a message that a ping
                \* had overtaken

historyVars == <<joins, leaves, leaving, doubled>>
vars == <<user, handler, members, outbox, subscribed, held, inbox, historyVars, outrun>>

Names == Pages \union {"same"}
name(p) == IF SameNames THEN "same" ELSE p

\* `late' is history: a ping was delivered before the message although it was
\* sent after it.
Messages == [type : {"join", "leave", "ping"}, from : Names, late : BOOLEAN]
Commands == Messages \union {[type |-> "listen"], [type |-> "unlisten"]}

TypeOK ==
    /\ user \in [Pages -> BOOLEAN]
    /\ handler \in [Pages -> BOOLEAN]
    /\ members \in [Pages -> SUBSET Names]
    /\ outbox \in [Pages -> Seq(Commands)] /\ subscribed \subseteq Pages
    /\ held \in [Pages -> Seq(Messages)] /\ inbox \in [Pages -> Seq(Messages)]
    /\ joins \in 0..MaxJoins /\ leaves \in 0..MaxLeaves
    /\ leaving \subseteq Pages /\ doubled \subseteq Pages
    /\ outrun \subseteq Pages

Init ==
    /\ user = [p \in Pages |-> FALSE]
    /\ handler = [p \in Pages |-> FALSE]
    /\ members = [p \in Pages |-> {}]
    /\ outbox = [p \in Pages |-> <<>>] /\ subscribed = {}
    /\ held = [p \in Pages |-> <<>>] /\ inbox = [p \in Pages |-> <<>>]
    /\ joins = 0 /\ leaves = 0
    /\ leaving = {} /\ doubled = {}
    /\ outrun = {}

-----------------------------------------------------------------------------
listen == [type |-> "listen"]
unlisten == [type |-> "unlisten"]
message(t, p) == [type |-> t, from |-> name(p), late |-> FALSE]

issue(p, commands) == outbox' = [outbox EXCEPT ![p] = @ \o commands]

\* A page handles the messages of one response without interruption.
idle(p) == inbox[p] = <<>>

\* The form to join is hidden while the page has a user.
join(p) ==
    /\ idle(p) /\ ~user[p] /\ joins < MaxJoins
    /\ user' = [user EXCEPT ![p] = TRUE]
    /\ handler' = [handler EXCEPT ![p] = TRUE]
    /\ issue(p, <<listen, message("join", p)>>)
    /\ joins' = joins + 1
    /\ leaving' = leaving \ {p}
    /\ UNCHANGED <<members, subscribed, held, inbox, leaves, doubled, outrun>>

\* The button stays until the message has come back.
leave(p) ==
    /\ idle(p) /\ user[p] /\ leaves < MaxLeaves
    /\ issue(p, <<message("leave", p)>>)
    /\ leaves' = leaves + 1
    /\ leaving' = leaving \union {p}
    /\ doubled' = IF p \in leaving THEN doubled \union {p} ELSE doubled
    /\ UNCHANGED <<user, handler, members, subscribed, held, inbox, joins, outrun>>

\* doPost carries out a command.  With its consumer a page loses what that
\* still held; what was buffered is written without an id, and no handler gets it.
carryOut(p) ==
    /\ outbox[p] # <<>>
    /\ outbox' = [outbox EXCEPT ![p] = Tail(@)]
    /\ \/ /\ Head(outbox[p]) = listen
          /\ subscribed' = subscribed \union {p}
          /\ UNCHANGED held
       \/ /\ Head(outbox[p]) = unlisten
          /\ subscribed' = subscribed \ {p}
          /\ held' = [held EXCEPT ![p] = <<>>]
       \/ /\ Head(outbox[p]) \in Messages
          /\ held' = [q \in Pages |-> IF q \in subscribed THEN Append(held[q], Head(outbox[p]))
                                      ELSE held[q]]
          /\ UNCHANGED subscribed
    /\ UNCHANGED <<user, handler, members, inbox, historyVars, outrun>>

\* The joins and leaves before the k-th message, which overtakes them.
overtaken(s, k) ==
    [j \in DOMAIN s |->
        IF j < k /\ s[k].type = "ping" /\ s[j].type # "ping"
        THEN [s[j] EXCEPT !.late = TRUE] ELSE s[j]]

\* doMessages answers a poll: first the message that has resumed it, or that the
\* scan has found, then those buffered before, of which there is always room for
\* one.  A response with more messages is like several that follow each other.
doMessages(p) ==
    /\ idle(p)
    /\ \E k \in DOMAIN held[p] :
          LET s == overtaken(held[p], k) IN
          \/ /\ k = 1
             /\ inbox' = [inbox EXCEPT ![p] = <<s[1]>>]
             /\ held' = [held EXCEPT ![p] = Tail(s)]
          \/ /\ k > 1
             /\ inbox' = [inbox EXCEPT ![p] = <<s[k], s[1]>>]
             /\ held' = [held EXCEPT ![p] =
                    [i \in 1..(Len(s) - 2) |-> s[IF i + 1 < k THEN i + 1 ELSE i + 2]]]
    /\ UNCHANGED <<user, handler, members, outbox, subscribed, historyVars, outrun>>

-----------------------------------------------------------------------------
\* Mutant: only a join is answered with a ping.
answersToJoin(p, m) ==
    /\ members' = [members EXCEPT ![p] = {}]
    /\ outrun' = IF m.late THEN outrun \union {p} ELSE outrun \ {p}
    /\ IF m.type = "leave" /\ user[p] /\ m.from = name(p)
       THEN /\ user' = [user EXCEPT ![p] = FALSE]
            /\ handler' = [handler EXCEPT ![p] = FALSE]
            /\ issue(p, <<unlisten>>)
       ELSE /\ UNCHANGED <<user, handler>>
            /\ issue(p, IF user[p] /\ m.type = "join" THEN <<message("ping", p)>> ELSE <<>>)

\* Mutant: any leave that comes while the page is leaving is taken for its own.
leaveOfAnyone(p, m) ==
    /\ members' = [members EXCEPT ![p] = {}]
    /\ outrun' = IF m.late THEN outrun \union {p} ELSE outrun \ {p}
    /\ IF m.type = "leave" /\ user[p]
       THEN /\ user' = [user EXCEPT ![p] = FALSE]
            /\ handler' = [handler EXCEPT ![p] = FALSE]
            /\ issue(p, <<unlisten>>)
       ELSE /\ UNCHANGED <<user, handler>>
            /\ issue(p, IF user[p] THEN <<message("ping", p)>> ELSE <<>>)

\* Someone has joined or left: the list is cleared, and a page that has a user
\* after this announces it.
joinOrLeave(p, m) ==
    /\ members' = [members EXCEPT ![p] = {}]
    /\ outrun' = IF m.late THEN outrun \union {p} ELSE outrun \ {p}
    /\ IF m.type = "leave" /\ user[p] /\ m.from = name(p)
       THEN /\ user' = [user EXCEPT ![p] = FALSE]
            /\ handler' = [handler EXCEPT ![p] = FALSE]
            /\ issue(p, <<unlisten>>)
       ELSE /\ UNCHANGED <<user, handler>>
            /\ issue(p, IF user[p] THEN <<message("ping", p)>> ELSE <<>>)

ping(p, m) ==
    /\ members' = [members EXCEPT ![p] = @ \union {m.from}]
    /\ UNCHANGED <<user, handler, outbox, outrun>>

\* chatHandler; without it amq drops the message.
receive(p) ==
    /\ inbox[p] # <<>>
    /\ inbox' = [inbox EXCEPT ![p] = Tail(@)]
    /\ LET m == Head(inbox[p]) IN
       \/ handler[p] /\ m.type # "ping" /\ joinOrLeave(p, m)
       \/ handler[p] /\ m.type = "ping" /\ ping(p, m)
       \/ ~handler[p] /\ UNCHANGED <<members, user, handler, outbox, outrun>>
    /\ UNCHANGED <<subscribed, held, historyVars>>

Next == \E p \in Pages :
            join(p) \/ leave(p) \/ carryOut(p) \/ doMessages(p) \/ receive(p)

Spec == Init /\ [][Next]_vars

-----------------------------------------------------------------------------
quiet == \A p \in Pages : outbox[p] = <<>> /\ held[p] = <<>> /\ inbox[p] = <<>>
present == {p \in Pages : user[p]}

\* Once every message has arrived, each page that has a user lists everyone
\* who has one, whatever joins, leaves and pings crossed: the last clearing of
\* its list is followed by a ping of each (chat.js:57-86).  Only where a ping
\* overtook the join or leave that cleared the list last is someone missing
\* (MessageListenerServlet.java:362-399).
NobodyMissing ==
    quiet => \A p \in present \ outrun, q \in present : name(q) \in members[p]

\* No page leaves the room unless its user asked since it has joined, as long
\* as names differ and no user asked twice (chat.js:74-82).
StaysUntilLeave ==
    [][\A p \in Pages :
          user[p] /\ ~user'[p] => p \in leaving \/ p \in doubled]_vars
=============================================================================
