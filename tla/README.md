# Verification of the ActiveMQ Ajax code

The repository is the web site of Apache ActiveMQ. Besides 945 HTML pages it
holds the page side of ActiveMQ's Ajax messaging (`amq.js`), its server side
(`MessageListenerServlet.java`), the libraries the page side stands on
(jQuery 1.6 through `amq_jquery_adapter.js`, Prototype and Rico), a chat demo
and a few Java classes. This project models what in them waits, retries,
is called back or shares state.

## Inventory

| Component | State | Operations | What is hard | What makes it correct |
|---|---|---|---|---|
| `amq.js` command side | `messageHandlers`, `batchInProgress`, `messageQueue` | `addListener`, `removeListener`, `sendMessage`, `startBatch`, `endBatch`, `errorHandler` | calls from inside callbacks, failing POSTs, the split of the queue by headers | no command lost, repeated, starved; one POST at a time; selectors travel alone; page and server agree on subscriptions |
| `amq.js` poll side | `sessionInitialized`, timers, the poll in flight | `sendPoll`, `initHandler`, `pollHandler`, `pollErrorHandler`, `messageHandler` | handlers that throw, polls that fail, listeners removed while a poll is parked | one chain of polls that never ends; every message with a handler is handled |
| `MessageListenerServlet` commands | the client's consumers, listeners, id maps | `doPost`: listen, unlisten, send, raw body | dispatch thread between two steps, exceptions in the middle of a command, requests run again | consumers complete when visible, sends carried out once |
| `MessageListenerServlet` polls | buffer, registered continuation, request attribute | `doGet`, `doMessages` | three ways for a message to reach a response, races with the dispatch thread, timeouts | at most once, none lost, bounded responses, every poll answered |
| `MessageListenerServlet` clients | `ajaxWebClients`, access times | `getAjaxWebClient`, `ClientCleaner`, `getReadTimeout` | expiry while a poll is parked | a live page keeps its client |
| `amq_jquery_adapter.js` | none | `ajax`, callbacks | what jQuery calls, and when | one outcome for each call, heard of once |
| jQuery `ajax`, `Deferred` | jqXHR state, transports, timer, callback lists, `active` | `ajax`, `abort`, `done` (the inner function), timeouts, adding callbacks | callbacks that throw, abort, or call again in the middle of each other | the adapter's promise; a count of requests that is true between events |
| jQuery `queue`, `animate` | queues, marks, timers, promises | `queue`, `dequeue`, `delay`, `animate`, `stop`, `tick`, `promise` | user code called in the middle of `tick`, `stop` and `dequeue` | one animation of an element at a time, every timer served, styles restored, queues drained |
| jQuery events | handlers, native listeners, `triggered` | `bind`, `one`, `live`, `unbind`, `trigger`, native dispatch | handlers that bind, unbind, trigger and throw during a dispatch; an event that comes twice | listeners match handlers, no event dropped by mistake, handlers run once |
| Prototype `Ajax.Request` | request state, `activeRequestCount` | `request`, `respondToReadyState` | exceptions | requests counted |
| Rico `AjaxEngine`, `LiveGrid` | buffer, view port, scroller, the request processed and the one that waits | scroll, fetch, answer, timeout, sort, resize | answers that come after their timeout or after a sort; a buffer extended at either end | rows at their places; the view settles at the scroller |
| Rico `LiveGridSort` | sort and image of each column, order of the grid | click on a header cell | two places for one fact | mark and order agree |
| Rico `Accordion` | expanded tab, panels, effects | click, hover, steps of an effect | a second click while an effect runs | one panel open at rest |
| Rico `DragAndDrop` | selection, drag, zones, flight back | press, move, drop, cancel, register | a press while a cancelled drag flies back | list and flags agree; nothing left lit or in mid-drag |
| `chat.js` | user, member list | join, leave, messages | joins, leaves and pings that cross | nobody missing once quiet; nobody thrown out |
| `AjaxServlet` | script cache | `doGet` for scripts | cached times of a second's resolution | a changed script is served |
| `DiscardingDLQBroker` (+ plugin) | drop rules, `dropCount` | `sendToDeadLetterQueue` | a counter without synchronisation | only configured messages are dropped |
| `XBeanBrokerService`, `SpringSslContext` | managers | `afterPropertiesSet` | initialisation run twice | managers loaded once |
| the rest of jQuery, Prototype, Rico; `SslTransportFactory`, `AuthorizationPlugin`, `SimpleProducer`, `main.c`, scripts | – | sequential functions | – | not modelled |

How they interact. An application (`chat.js` is one) calls `amq.js`, which sends
its commands by POST and waits for messages by GET; both go through
`amq_jquery_adapter.js` to `jQuery.ajax` and over HTTP to the servlet, which
talks to JMS. In the servlet the requests of one client share an
`AjaxWebClient` (its monitor serialises them) and an `AjaxListener`, which the
dispatch thread of the JMS session calls. A `LiveGrid` fetches rows through
Rico's `AjaxEngine` and Prototype's `Ajax.Request`. Effects, events and
widgets share the one thread of the page: no two functions run at once, but
each may be called in the middle of another.

`AjaxWebClient`, `AjaxListener`, the Jetty continuations, the JMS client and the
browser are not in the repository; they are modelled as external, by what the
code in `src/` expects of them.

## Modules

| Module | Models | Kind |
|---|---|---|
| `AmqQueue` | the division of the queue in `endBatch`, as sets | operators |
| `AmqClient`, `MCAmqClient` | `amq.js` in one page, with the server as external actor | state machine, its instances |
| `AmqClientProofs` | theorems about `AmqClient` | TLAPS |
| `AmqBatch` | the loop of `endBatch` over arrays, `buildParams`, the decoding loop of `doPost` | state machine |
| `AmqBatchProofs` | theorems about `AmqBatch` | TLAPS |
| `MessageListener`, `MCMessageListener` | `doPost`, `doGet`, `doMessages` for one client | state machine, its instances |
| `MessageListenerProofs` | theorems about `MessageListener` | TLAPS |
| `AjaxCall` | what `amq_jquery_adapter.js` promises `amq.js` | abstract specification |
| `JQueryDeferred` | one callback list of a Deferred | operators |
| `JQueryAjax` | `jQuery.ajax` with the adapter's callbacks; implements `AjaxCall` | state machine |
| `JQueryAjaxProofs` | theorems about `JQueryAjax`, the refinement of `AjaxCall` among them | TLAPS |
| `JQueryFx`, `JQueryFxProofs` | `queue`, `animate`, `stop`, `promise`, the timer loop | state machine, TLAPS |
| `JQueryEvents`, `JQueryEventsProofs` | `jQuery.event` | state machine, TLAPS |
| `PrototypeAjax` | `Ajax.Request` and `activeRequestCount` | operators |
| `LiveGridBuffer` | buffer and view port of a grid | operators |
| `LiveGrid` | a grid on `LiveGridBuffer`, `AjaxEngine` and `PrototypeAjax` | state machine |
| `LiveGridSort` | the header of a grid | state machine |
| `Accordion` | tabs and their effects | state machine |
| `DragAndDrop` | items, drags and zones | state machine |
| `MCRico` | a page with one of accordion, items or header | TLC |
| `RicoProofs` | theorems about grid, header, items and accordion | TLAPS |
| `Chat`, `ChatProofs` | the pages of a chat room | state machine, TLAPS |

Operators whose comment starts with "Mutant:" are deliberately wrong versions of
the definition that follows them. No behaviour of the models uses them; each is
the plausible mistake that one of the properties is there to catch. Variables
under "history" are read by the properties and by nothing else.

### AmqClient

`messageHandlers`, `batchInProgress`, `messageQueue` and `sessionInitialized` are
the variables of `amq.js`. A command is known by its call number: `amq.js` only
appends to `messageQueue` and only removes from it, so the array is a set of call
numbers read in increasing order. `posted` keeps the body of each POST, `inFlight`
the POSTs whose callback is still to run. Each callback is one action because the
page is single threaded; `messageHandler` is the exception, as it calls the
application's handlers, which call back into the API: `running` and `todo` keep
the place of its loop, API calls are possible at each turn, and no other callback
can start. The server's share is `servePost` (the commands of a body take effect
in order, on `subscribed`) and `answerPoll`. An id stands for one destination.

Options of the application are constants, so that each run and each theorem says
under which of them it holds: selectors, logging, calls before the session is
initialised, throwing handlers and callbacks, failing POSTs, and use of the public
`startBatch` and `endBatch`.

### AmqBatch

One batch, from the array to the commands the servlet carries out. `scanEntry` is
one turn of the loop of `endBatch`; `LoopComputesSplit` ties it to the sets of
`AmqQueue` that `AmqClient` uses. `buildParams` is one turn of the loop of that name,
`decodeCommand` one of the loop of `doPost`. `buildParams` joins texts without encoding, so a
text with an ampersand ("escaped") becomes two fields, of which the servlet sees
the first part; the property makes no promise for the text of such a message but
does for everything else in its batch.

### MessageListener

`lock` is `synchronized (client)`. A request thread has its local variables in
`rq[r]`; `pc` is where it stands between two accesses to state the dispatch thread
can change. Consumers are numbered in the order of their creation, messages in
the order of their dispatch. `pending[c]` is what consumer `c` holds for
`receive`; `undelivered` is the buffer of the listener; `rq[r].message`, set while
the request is parked, is the request attribute of a resumed poll. The dispatch
thread puts a message into a consumer (`dispatch`) and then calls the listener
(`onMessageAvailable`): a step in between is enough for a poll to take the message
first. When a continuation is resumed or expires, the container runs the request
from its start (`again`), a POST with its commands.

`closeConsumer` returns what the consumer still held to the broker; the model then
forgets it, which is why `NoneVanishes` speaks of the time before a consumer is
closed. A listener that finds its continuation finished buffers the message.

### AjaxCall and JQueryAjax

`AjaxCall` is the promise in the comments of `amq_jquery_adapter.js`: a call is
open until the page hears of one success or one error. `JQueryAjax` implements it
(`ImplementsAjaxCall`): a request is open once `ajax` has been called for it, and its
outcome is the callback that was called.

Much of `jQuery.ajax` runs inside itself: a callback calls `abort`, `ajax` or
`done`, an exception unwinds to the `try` around `transport.send`. `stack` is the
call stack, with a frame for each call of `ajax`, of its inner function `done`, or of
a list of callbacks that fires; its top says where the code stands. Application
code runs at the labels of `UserCode`, where `Call`-like actions (`callAjax`,
`abort`, `addLate`) and `throw` are possible. Events of the browser (`answer`,
`scriptLoaded`, `timeout`) need an empty stack; answers from the cache come inside
`send`. A list of a Deferred keeps its callbacks and its flags (`JQueryDeferred`).
Whether a response converts to the type asked for is a free choice.

### JQueryFx

`page` holds each element's queue with its "inprogress" sentinel, mark counters and
deferred, the list of timers, the pending timeouts, and the call stack. Complete
callbacks and queued functions are frames in which the application may call the
library again: in the middle of `tick`, which walks over the array of timers, of
`stop`, and of `dequeue`. Of the styles three facts are kept, and how far an
animation has come is not kept at all: any timer may be the next to end.

User code can break what it is responsible for. The history says when it has:
`skipped` (the queue was moved on past an entry that had the turn, by `dequeue` or
a second `next`) and `stoppedInside` (`stop` called by the code that a `tick` or a
`stop` is running, which makes it pass over a timer). `OneAtATime` and
`PromiseMeansIdle` leave out elements of the former kind, and all promises of
`OneAtATime`, `PromiseMeansIdle`, `TimersServed` and `QueuesDrain` end with the latter.

### JQueryEvents

Two elements, of which the document is the parent of the other. A dispatch goes
over a snapshot of the handlers; each handler is a frame that may bind, unbind
(a handler, a type, a namespace), trigger, return false or throw. `trigger` has its
own bubbling and ends with the native method, whose event is discarded by
`jQuery.event.triggered`. `live` keeps its handlers at the document, `focusin` is
made of one capturing listener. `RunsOnce` excepts what the code cannot know:
another trigger while the native method runs (`overlapped`), and a handler of "one"
that a dispatch further out holds in its snapshot (`reentered`).

### LiveGrid

The rows of the buffer carry the position and the version of the table they are of,
so that a row at the wrong place, or of the time before a sort, can be seen. Each
action is a whole handler: `handleScroll`, `ajaxUpdate` of an answer with the fetch
that follows it (`gridAnswer`, `badAnswer`), `handleTimedOut`, `sortHandler`,
`setTotalRows`. A request that fails to be sent, an answer that is no XML or
has no rows, an answer long after the timeout are among them. Two conditions
the code does not control are kept as history: `disturbed` (an answer for
contents that are not wanted any more has come, or may) and `strayed` (the
user came back to buffered rows while others were fetched, which replace them).

### LiveGridSort, Accordion, DragAndDrop

`LiveGridSort`: `header` is what the header keeps and shows, `order` what the grid
asks for; a click on the image in a cell has no column number. `Accordion`: each
effect is an entry of `effects`, whose timers take turns because they have the same
delay; heights are numbers, with the fractions `parseInt` drops. `DragAndDrop`:
`currentDragObjects`, the flags of the items, the element that is dragged, the zones
lit, and the elements that fly back (`flying`), whose end cancels whatever drag
there is by then. `regrabbed` records that the selection changed during a drag.

### Chat

`outbox[p]` are the commands of a page in order, `inbox[p]` the messages of the
topic it has not received, `members[p]` how often its list shows each name. `carryOut`
is the broker's step, on listen, unlisten and messages; `receive` is `chatHandler`
with the messages it sends in turn.

## Runs

| Run | Shows | Bounds |
|---|---|---|
| `client_all` | with every option on: types, one chain of polls, each command in one place, selectors alone, classes in order, oldest command first | 2 ids (symmetric), 3 calls, 1 message per answer |
| `client_page` | a page without selectors that waits for its session: one POST at a time, page and server agree once quiet, nothing with a handler dropped, queued commands are sent, polling never stops | 2 ids, 3 calls, 2 messages per answer |
| `client_post_error` | **violated**: after a failed POST the queue is never sent | 2 ids, 3 calls |
| `batch` | loop, body and decoding agree | every queue of at most 5 commands |
| `servlet` | all kinds of POSTs, failing listens, unwritable messages: at most once, consumers complete, nothing vanishes, bounded responses | 2 threads, 1 destination, 2 consumers, 3 messages (the third unwritable), 2 POSTs, `maximumMessages` 2 |
| `servlet_live` | every poll answered, every message delivered | 2 polling threads, 2 destinations, 2 consumers, 2 messages, `maximumMessages` 1 |
| `jquery_ajax` | the adapter's promise is kept, requests are counted, no list is left firing, each request ends | 2 requests, one late callback, exceptions and timeouts |
| `jquery_fx` | one animation at a time, every timer served, styles restored, promises when idle, queues drained | 2 elements, 2 properties, 3 calls |
| `jquery_events` | listeners match handlers, events are discarded only inside their trigger, handlers run once | 2 elements, 3 types, 2 namespaces, 2 calls, 2 events |
| `grid` | rows in place, requests accounted for, the view settles | page of 1 row, fetches of 1, buffer of 2, tolerance 2, tables of 2 and 4 rows, 3 requests, 1 new version |
| `rico_page` | accordion settles, selection agrees, drags end, mark and order agree | 3 tabs, 4 clicks, effects of 2 steps; 2 items, 2 zones, 3 presses, 2 flights; 3 columns |
| `chat` | nobody missing once quiet, nobody thrown out | 2 pages, 3 joins, 2 leaves |

Why the bounds are enough.

- Client. Three calls are the fewest with which a POST is outstanding and two
  commands wait, so that the split has something to reorder. Two messages per
  answer let one fail to be handled and the next be affected.
- Servlet. Three messages can be at once in the attribute, the buffer and a consumer,
  the three ways to a response, and exceed `maximumMessages` = 2; two threads are
  a poll with a command, or a poll superseded by another.
- jQuery. The second request, call or event is the one made from inside the first;
  a third call to the effects is what a callback needs to `stop` one entry while
  another waits. An element with two properties has two timers, so that one of an
  animation's ends before the other.
- Grid. With a buffer of two rows in a table of four, the buffer grows at both ends,
  is trimmed and replaced, and rows beyond the end of the table are asked for. A fetch
  is as long as a page, the least that `RicoProofs` assumes. Three requests are one
  that has timed out, its successor, and the one that waited.
- Rico. Three tabs let effects share a panel; two items are the fewest for a
  selection that changes in a drag.
- Chat. Two pages, one of which joins twice, are enough for each message to cross
  each; the third join is the one whose stay an old leave may end.

Deadlock is checked where the system may not stop: in `client_page`, `client_post_error`
and the servlet runs. Elsewhere the calls of the application run out (and in
`client_all` a throwing `sessionInitializedCallback` ends the chain of polls), and a
page where nothing happens any more is a page at rest.

## Fairness

`AmqClient`: a callback on the stack comes to its end (weak fairness). A timer
that fires, and an answer that has arrived, stand in the event queue of the page,
which takes each in its turn although other callbacks run before it: strong
fairness, since being inside another callback disables them for the moment. The
server processes POSTs and answers polls (at the latest at the poll timeout).
Nothing is assumed of the application.

`MessageListener`: threads run (weak); a thread that waits for a monitor which is
released again and again gets it some time (strong: Java does not promise it, but
no poll could be promised an answer without it); continuations expire; the
dispatch thread finishes a call it has begun; a page polls again after an answer,
which is `KeepsPolling` of `AmqClient`.

`JQueryAjax`: functions return, and each request that is sent is answered, if only
by the error of the browser. `JQueryFx`: code that runs goes on until it returns
(weak); timeouts come, frames come and durations end, and queued functions call
`next` in the end (strong, as other code may run in between). The other models are
checked for safety alone.

## Proofs

TLC checks the instances above. The following hold for every value of the
constants, from the assumptions on them that each module names, and from those
written as `ASSUME` in the theorem, which are repeated here.

`AmqClientProofs` (every set of ids, number of calls and choice of options):

- `TypeCorrect`: `TypeOK`.
- `CommandsConserved`, `HeadersSentAlone`, `ClassesStayInOrder`:
  `EachCommandOnce`, `HeadersAlone`, `ClassOrder`. The lemmas `SplitPartitions`,
  `SplitHeadersAlone` and `SplitKeepsOrder` say what the split of `endBatch`
  preserves. The three properties are not inductive by themselves: a call
  made with `batchInProgress` down is posted at once, which keeps the order only if
  the queue is empty. `QueueNeedsBatch` says so; with it and `OnlyCalls`, `NoneLost`
  and `NoneTwice` the conjunction `QueueInv` is inductive.
- `OnePost`: `OnePostAtATime`, unless the application makes batches of its own. It
  needs `FlagCoversPosts`, and the other way round: a POST is added only when the
  flag is down, and the flag goes down only in the callback of the one POST.
- `OldestGoesAlong`: `OldestGoes`, from `QueueInv`, as a non-empty set of call
  numbers has a least element, and that is always sent.
- `PollsFormOneChain`: `OnePollChain`, inductive given the types.
- `SubscriptionsSettle`: `QuiescentSubscriptions`, for pages without selectors
  that make no batches of their own. The invariant `Agreed` says what the
  handlers of the page and the subscriptions of the server are on the way: what
  *all* calls, and what the calls of the POSTs *processed so far*, make of no
  subscriptions at all (`after`). It needs `Serial`: POSTs are processed in
  the order they were sent because there is one at a time. With selectors a
  listen is sent apart from the commands around it, and the property fails.
- `ResponsesGoneThrough`: `NothingDropped`, with logging on and calls made only once
  the session is initialised. What `initHandler` ignores is harmless because no call
  was made before (`BeforeCalls`), and the rest because `messageHandler` goes through
  the whole response.

`AmqBatchProofs` (queues of any length, any texts): `LoopSplits` (`LoopComputesSplit`)
and `BatchDecoded` (`DecodedAsSent`). Of a queue in an array the split is decided by
the first entry alone; `SplitSoFar` says so of the entries the loop has seen,
`FieldsSoFar` that each numbered field stands for a command already put in and that
each of these has its three fields, `CommandsSoFar` the same of the commands read. An
escaped text adds a field of another name, which is why it cannot stop `doPost` early.
`LoopSplits` is what joins this module to `AmqClient`, which works with the sets.

`MessageListenerProofs` (any threads, destinations, bodies of POSTs, messages): the
inductive invariant is `ServletInv`, of four parts. `TypeOK` (`ServletTypeOK`);
`Known`, what the label of a request tells of its local variables; `Monitor`, that a
request at a label inside the monitor holds it, from which `MonitorExcludes` follows:
two requests are never inside; and `Registered`, that every consumer of a destination
has its listener and its id, but for the newest while a request is between creating
and registering it. `ConsumersRegistered` (`ConsumersComplete`) and `ResponsesBounded`
(`ResponseBound`) follow. The latter assumes `maximumMessages >= 2`: the loop over
the buffer writes before it compares, so that a poll resumed with a message adds
another from the buffer even if one was the maximum.

- `GivenOnce`: `AtMostOnce`. A message is in a response, in the buffer, in a consumer
  or with a request; `HeldInv` says that these places hold different messages
  (`Apart`), none of them one twice (`Once`), and all of them dispatched ones. Each
  step moves a message from one place to another.
- `NothingVanishes`: `NoneVanishes`, while no consumer is closed: each message dispatched
  is in one of these places, or was in a response that could not be written. Besides
  `Traced`, which says so, it needs that a poll with something to send has a listener
  whose buffer it can empty (`Scanning`).

`JQueryAjaxProofs` (any number of requests, callbacks added late, any options):

- `AjaxTypeOK`, and `ListsFireOnStack` (`FiringOnStack`).
- `AjaxImplementsCall`: `ImplementsAjaxCall`, the refinement of `AjaxCall`. What has to be
  shown is that `success` and `error` of one request are not both called, and neither
  twice. The invariant `AjaxInv` says where each callback may still stand: in its list,
  once, as long as it was not called (`ListsOK`); and when one was, in neither
  (`CalledOnce`), because the other list is cancelled then. `StackOK` says which frames can
  stand under which, so that a list is fired by one frame at a time although its
  callbacks may abort the request or start others; `Begun`, that nothing is known of a
  request before its callbacks are in place. The initial states map to initial states,
  and each action to a step of the one request it ends, or to none.
- `AjaxCounts`: `ActiveCount`, if no handler aborts the request before it is sent
  (`~AbortsInSend`): such a request is counted and ended before it begins.
  `CountInv` ties `jQuery.active` to the requests under way, to those whose `done` is still
  at work on the stack, and to those whose `done` an exception has ended (`cut`).

`JQueryEventsProofs` (any bindings, calls and events): `ListenersFollowHandlers`
(`ListenersMatch`) and `DroppedOnlyWhileCalling` (`DroppedOnlyInside`). Handlers change
through `add` and `remove` only, for which lemmas show that they keep `Matched`. For the
second, `Stack` says that a trigger that has called the native method has the native
dispatch right above it: an exception unwinds to the nearest native dispatch, so it
cannot take the trigger away while `triggered` is set.

`HandlersRunOnce` (`RunsOnce`) has an invariant of its own, `RunsInv`. It says that there is
a place for every handler, the list it was bound in (a witness of the proof: the model does
not keep it), so that what was run for one list cannot be in another. The frames of
the stack are linked (`Chain`): a loop over handlers stands on the event that has reached its
element, the loop of `liveHandler` on that of the document. Of each event under way it says
what cannot have been run for it yet: no handler of an element it has still to reach, no
live handler before it is at the document (`Quiet`), no handler its loop still has to call
(`NotYet`). A snapshot, and what `remove` leaves of a list, are picked out of it by a
recursive function (`Picked`, `Without`); that the entries keep their order and none is
taken twice is `PickedInOrder`, proved by a least counterexample, since there is no
induction. With this, what a step does to the stack is one of a few moves, each shown
once to keep the invariant: frames fall and loops lose handlers (`Falls`), an event gets
further (`Further`), a live handler is fired (`Fires`), a frame is pushed (`On`). A
handler of "one" is taken off its list before it is called, so that only a snapshot
further out can hold
it: that is what `reentered` excepts.

`JQueryFxProofs` (any elements, numbers of properties, kinds of entries and of calls). What
each function of the library changes is written down once as a relation between two
pages, which a lemma shows the model to satisfy; what keeps the invariant is
shown of the relations. `FxInductive` is the whole invariant, `FxInv`, in three parts.

- `Sound` (`FxSound`): entries, timers, queues and frames fit together; a queue holds
  entries that were not started, each once. An animation that met no other on its element
  began with the styles as the page made them, and when none runs the element has
  them again (`Styled`): `StylesComeBack` (`StylesRestored`).
- `Served`: a running animation has one timer for each property that is not done, and a
  timer that was called for the last time is the one that a loop on the stack, a `tick`
  or a `stop` with `gotoEnd`, is about to remove (`Located`). `TimersAreServed`
  (`TimersServed`) follows. Both loops take timers out of the array they walk over,
  and call code in between; that there is one loop at a time is what is
  lost when code called by a loop calls `stop`, and what `stoppedInside` says.
- `Turns`, of the elements whose queue user code did not move on itself: one entry at a
  time holds the turn, an animation that runs, a delay or function whose `next` is to
  come, or one whose complete callback is on the stack (`Turn`), and the mark counts the
  animations outside the queue (`Marked`). `Ordered` adds what calls of `dequeue` may have on top of
  them. `QueueRunsOneAtATime` (`OneAtATime`) and the action property `PromisesComeLast`
  (`PromiseMeansIdle`) follow: a promise is resolved when queue and mark are empty.

`RicoProofs`, the grid (tables, pages, buffers and tolerances of any size, any requests):

- `GridAccounts`: `RequestsAccounted`. The invariant `AccountsInv` says besides that the
  timer of the request that is processed is the only one and the one `timeoutHandler`
  holds, that a request waits only behind one that is processed, and which
  requests Prototype has counted.
- `RowsStayInPlace`: `RowsInPlace`. `PlacedInv`: the rows of the buffer are a run of the
  table without gap, of the version that is wanted; what is asked for is what
  the position of the page asks for (`asked`), or is answered after the grid is
  disturbed; lemmas for appending, prepending and trimming say what a buffer is
  after an answer.
- `ViewShowsWhatIsWanted`: `ViewSettles`. `SettledInv` adds that what is fetched, or waits
  to be, are the rows around the page displayed (`Aims`), and what the page shows of
  the rows in the buffer (`Seen`). Near the start of a buffer the grid may fetch rows that
  push those of the page out of it; the page stays complete because it is not drawn
  again once it was.

  The last two assume `LargeBufferSize >= PageSize`, that a fetch is a page of rows at
  least. The code makes it seven pages unless options say otherwise (rico.js:1794),
  and needs it: with a smaller fetch the rows appended need not reach the end of the page.

`RicoProofs`, the other widgets: `HeaderMarks` (`MarkIsOrder`), inductive once the header is known to
be well formed. `SelectionSpec` (`SelectionAgrees`), with the lemma
that `removeItem` takes an item off a list that has it once; and `DragSpecEnds`
(`DragEnds`), which says what holds at rest. The invariant says what holds on the way
there: `ZonesKnown` (zones that are lit are registered or stray) and `DragKnown` (the
element dragged is that of the first object, and the objects are what is dragged).
`AccordionComesToRest` (`AccordionSettles`) is of that kind too: `TitlesKnown` says
on which tab the flag is while effects run, `PanelsKnown` that every panel displayed
besides the chosen one has an effect that will hide it, and the chosen one its
full height or an effect that will give it that; unless a tab was opened while it
was being closed (`reopened`).

`ChatProofs` (any pages, joins and leaves): `ChatTypeOK`; `ChatStays` (`StaysUntilLeave`, if
names differ). Invariant: every message on its way names its sender
(`Signed`), and of a page that has not called leave twice at most one leave is on
its way, none if it has a user and has not called it (`Tracked`); it needs the order
of a page's own messages, nothing of those of others. `ChatListsEveryone`
(`NobodyMissing`), whether names differ or not: for two pages with a user, the first lists
the second (`Listed`), or something is under way that will make it do so: its own join, a
message that makes the second announce itself (`Pinging`), or that announcement with
no clearing message behind it (`ListInv`).

Every safety property of the runs is stated by a theorem, some under the conditions named
above. All liveness (`QueuedIsSent`,
`KeepsPolling`, `PollAnswered`, `EventuallyDelivered`, `SentEnds`, `QueuesDrain`) is
model-checked only: its fairness needs ENABLED, which is beyond the prover.

## Where the code and its documents disagree

With a run: after a failed POST `errorHandler` (amq.js:118) leaves
`batchInProgress` up, so that the queue is never sent; amq.js:76 says it is sent "as
soon as the current call completes" (`client_post_error`).

Seen while modelling, without a run of their own:

- amq.js:253: an unlisten without a selector overtakes a listen with a selector that is
  queued before it, so that the page stays subscribed. `ClassOrder` promises order
  within a class only.
- `MessageListenerServlet` 312: a poll may be parked while a message is buffered; it is
  answered at the poll timeout, and the next one brings the message
  (`EventuallyDelivered`). 381: a poll without consumers ends in a
  NullPointerException. 209: a POST that polls repeats its sends when it is resumed
  (`AtMostOnce` excepts them). 395 against 62 ("maximum messages to send per
  response"): with a maximum of 1 a response may hold 2.
- jquery.js:8398: a second loop of animation frames starts when an animation begins in the
  callback that ends the last one. 7087 "Called once": `done` is called again by a
  late event, and returns at its first test. 7350: `status < 2` compares
  `window.status`, not the state of the request. 7729: a script that fails to load has
  no event in browsers that report none, so that its request ends by its timeout or
  never. 7255: a request whose `done` is left by an exception stays counted in
  `jQuery.active` (`ActiveCount` says so), as it does in `Ajax.activeRequestCount`
  of Prototype.
- jquery.js:8236: a `stop` of another element, called from the last callback of an animation
  that `tick` runs, takes timers out from below the index of `tick` (8507), which then
  removes another timer than the one that has ended. The one that has ended is called
  again: its animation completes twice and its queue moves on twice, while the animation of
  the other is left without a timer. `stoppedInside` excepts these.
- A request aborted in `beforeSend` or `ajaxSend` by a handler that does not also
  return false is sent all the same. `AbortsInSend` is off in `jquery_ajax`, as the
  adapter sets no such handler.
- rico.js:421: options are processed once, so that an `onComplete` set in options that
  were used before replaces the engine's instead of being kept beside it (422). 1207: the selection may change while a
  cancelled drag flies back, whose end then cancels the new drag.
- chat.js:66-67 says that the pings "update everyone's list": pings that cross leave
  names twice in a list, or a name of one who has left. Only `NobodyMissing` holds.

## Not modelled

- `getAjaxWebClient`, `ClientCleaner`, `getReadTimeout`: several clients of the servlet
  and their expiry; cookies and sessions, which the container keeps; the text of
  responses beyond whether it can be written.
- jQuery: `jsonp`, `load`, serialisation; `mouseenter`, `hover`, `toggle` and repairs for
  old Internet Explorers; the arithmetic of easing; selectors, DOM, CSS and data,
  whose results depend on the browser.
- Prototype: `Ajax.Updater` and `PeriodicalUpdater`, which no page here uses; enumeration,
  forms and DOM helpers. Rico: colours, corners, other effects.
- `AjaxServlet`: a map from paths to scripts behind If-Modified-Since, whose files and
  clock are outside. `DiscardingDLQBroker`: a filter whose only shared state is a
  counter for its log. `XBeanBrokerService`, `SpringSslContext`: initialisation called by
  a container that is not here. `SslTransportFactory`, `AuthorizationPlugin`:
  construction of library objects.
- The example programs, the tests of code that is elsewhere, the build and site
  scripts, the HTML pages.
