# TLA+ models of webthread

webthread runs REST and WebSocket clients on worker threads of its own, on top
of libcurl's multi interface and libevent. Everything that happens is in
`src/src/thread.cpp`; the headers under `src/include/webthread` declare the
handles a user holds and the values that configure them. This directory models
that code in TLA+, checks it with TLC and proves the core of it with TLAPS.

## The system

| part | state | operations | interacts with |
|---|---|---|---|
| `thread::worker` | `m_tasksQueue` under a spin lock, the stop token, the thread | `add_connection`, `enqueue_request`, `remove_connection`; `busy_loop`, `handle_task_queue`; `~worker` | clients push tasks; the thread calls the connections' `register_handle`, `send_message`, `unregister_handle` |
| `spin_lock` | one atomic flag | `lock`, `unlock` | guards `m_tasksQueue` |
| `timer_queue` | nodes in a deque, a priority list and a free list | `push`, `pop`, `remove` | WebSocket sessions push their ticks; the thread pops what is due |
| `event_context`, socket events | libevent base, curl multi handle, pool of socket events | `acquire_socket_event`, `release_socket_event`, `curl_socket_callback`, `event_*_callback`, `process_data` | curl asks for events on its sockets, libevent fires them |
| `websocket`, `websocket_connection` | status, curl handle, socket event, stored message | `write`, `reconnect`, `~websocket`; `register_handle`, `send_message`, `unregister_handle`, `tick`, `on_recv_message`, `handle_read_event`, `handle_write_event` | listener callbacks `on_error`, `on_message_recv`, `on_message_sent`, `on_tick` on the worker thread |
| `rest_client`, `rest_request`, `rest_connection` | status, curl handle, the request being built or under way, pools of header nodes and strings | `*_request`, `with_*`, `perform`, `~rest_client`; `register_handle`, `send_message`, `unregister_handle`, `on_recv_message`, `read_callback`, `header_callback`, `write_callback` | listener callbacks `on_error`, `on_response_header`, `on_response_body`, `on_response_complete` on the worker thread |
| `curl_config` | strings of one connection | `apply` | sets curl options when a handle is registered |
| configuration classes | values | setters | copied when a client is constructed |
| handles (`thread`, clients, requests) | shared references to worker and connection | copy, move, destroy | the last reference to a worker runs `~worker` |

What is hard about it: clients on any thread and callbacks on the worker thread
push tasks for the same vector; a session's state changes on the worker thread
while its client, on another thread, still believes in the last state; libevent,
curl, the task queue and the timer queue each hold on to a connection and let go
of it at different moments; memory of a request is lent to the worker thread and
back without a lock; shutdown has to handle what was pushed before it. The
hazards in `PROJECT.json` name the lines where these bite and the properties that
cover them.

### What makes each part correct

* worker: every task pushed is handled, once and in order; nothing is left or
  registered when the thread ends; shutdown ends.
* timer queue: the earliest entry first, first come first served among equals;
  no node lost or shared; one entry per live session, none for a connection that
  is gone; no tick before its time.
* WebSocket: status, curl handle, socket event and what libevent waits for agree;
  only the message written goes out; it is answered; no callback outside a
  session; a frame begun is reported to its end; everything is released when the
  connection is destroyed.
* REST: a client finds its request memory as new; what curl sends is what was
  asked for, and a server reads back the headers, the path and the query that were
  given; the pools lose nothing and do not grow without need; what is reported
  belongs to the request that waits, which has one answer.
* socket events: every event is in the pool or with one owner, and all are back
  at the end; a session's data socket is the one curl connected.
* handles: a connection that is or will be registered has a client that removes
  it, or a remove that follows; connections are destroyed before the worker, and
  everything that nobody holds is destroyed in the end.
* configuration: a handle has the options the setters called last gave it, as
  they were when the client was constructed.

## Modules

| module | models | states |
|---|---|---|
| `TaskFifo` | what the worker promises: an ordered queue of tasks, closed by stop, destroyed when empty | abstract |
| `Worker` | `worker` and `spin_lock`, every lock step and every access to the vector a step of its own | refines `TaskFifo` |
| `WorkerProofs` | the proofs about `Worker` | |
| `TimerQueue` | what `timer_queue` promises: a sequence ordered by expiration | abstract |
| `TimerQueueProofs` | the proofs about `TimerQueue` | |
| `TimerTaskList` | the linked nodes of `timer_queue` and the sessions that use it | refines `TimerQueue` |
| `WebSocket` | one `websocket` with its connection, the worker thread's round, a client thread and callbacks | |
| `RequestReply` | what a REST client promises: one request at a time, reports that belong to it, one answer | abstract |
| `HttpText` | `trim`, `split_http_header`, `store_header`, the target of a request, the path of a URL, and their laws | operators |
| `RestConnection` | one `rest_client` with its requests and connection, the worker thread, curl's callbacks and options | refines `RequestReply` |
| `SocketEvents` | the event context of a thread: the pool of socket events, the callbacks curl and libevent make, the sockets and the event of a session | |
| `Handles` | thread objects, clients and requests as owners of the worker and of connections: copy, move, assignment, destruction on either thread, `~worker` | |
| `TimerTaskListProofs`, `WebSocketProofs`, `RestConnectionProofs`, `SocketEventsProofs`, `HandlesProofs`, `CurlConfigProofs` | the proofs about these modules | |
| `CurlConfig` | the configuration classes, `curl_config` and what a handle is given of them | |
| `MC*` | the same for TLC | |

`RestConnection` and `CurlConfig` take `HttpText`'s operators. `Worker` is what the
other modules build on: it shows that the critical sections of `m_tasksQueue` may be
taken as atomic, that tasks are handled in the order they were pushed, and that the
last of them are handled before the thread ends.

### How they correspond to the code

`Worker`. A process is a client's thread or the worker thread. `pc` is a thread's
place in `lock` / guarded statement / `unlock`; the guarded statement is a read
(`ReadQueue`) and a write (`emplace_back`, `swap_task_queue`, `InspectQueue`), so
only the lock makes it atomic. `phase` is the worker thread's place in `busy_loop`
and in the last `handle_task_queue` of `thread_handler` (`draining`).
`reconnect()` pushes two tasks in two critical sections. Callbacks (`Callback`)
push while the thread is in `handle_events`, `handle_task_queue` or
`handle_timer_queue`. A client object is used by one thread at a time. The client
that drops the last reference runs `~worker`: `request_stop`, `join`, inspect. A
client stands for a `rest_client`, a `websocket`, or, when it is released fresh, a
`thread` object. The memory model is sequential consistency. The one relaxed
access is the stop token: its store happens after the unlock of every push, as
`~worker` runs after all clients have let go, so a loop that sees it takes the
lock after them and the drain sees their tasks; a loop that does not see it goes
round again. The asserts that `stop_requested()` is false are `NoPushAfterStop`.

`TimerTaskList`. A node is its index in `m_allTasks`, 0 is `nullptr`. `push`,
`pop` and `remove` are the pointer operations; where the search loop stops is said
by `LastBefore`, over the nodes in the order of their links (`Links`, a recursive
function). The environment is what the worker thread does with
the queue: sessions start (`on_recv_message`), fail (`deactivate`, which leaves the
entry), and are unregistered; `handle_timer_queue` pops and `tick` pushes again. The
clock is `system_clock`, which may be set back at any time. Sessions without a
tick timeout never use the queue and are left out.

`WebSocket`. The worker thread goes round events, swap, tasks, timers (`loc`).
Critical sections are atomic, which is what `Worker` shows. libevent runs callbacks
for as long as one of its events is ready, re-armed ones too (`EVLOOP_NONBLOCK`,
thread.cpp:809), so a callback leaves the thread at `events` and only `NoEvent` takes it
on; in the same way ticks go on while an entry is due, until `NoTimer`.
`Listener` is what a user's callback may do: `reconnect()`, `write()`, or both. The client's own thread makes the same calls,
with the store of the message and the push of the task as separate steps. The
contract the model assumes of the user is read from the asserts: a message at a
time, nothing after an error but `reconnect()`. Constants widen it for the runs
that show what happens then: with `LiveReconnect` the client may also call
`reconnect()` in an open session, when no task of it is queued or swapped in. A frame that arrived is what is left of its length, a
part is what fits the buffer, and the read loop goes on only after a part that filled
it. `slow` says whether the socket may be readable while it is not writable; it is
chosen once, so that `WriteAnswered` can be asked of a peer that takes what is sent and
`EveryWriteAnswered` of any.

`RestConnection`. Header nodes are indices in `m_allNodes`, strings are places in
`m_allValues`; `options` are the curl options that outlive a request. Path, query,
headers and target are texts, sequences of characters; a header is given as a line or
as a name and a value. The setters of the other parts come before the headers in the
model: they write to different members, and their order is not told apart. `read_callback`,
`header_callback` and `write_callback` are actions; the two that call the listener
record for which request they do (`reported`). `built` is the history of what the client
asked for, until it is answered.

`HttpText`. `find_first_not_of` and `find_last_not_of` are the first and last position of a
character, 0 for `npos`. `TextReadBack` states what the conversions promise together, for
every text up to a length; the module that checks it (`MCRestConnection`) assumes it.

`SocketEvents`. A socket event is its index in `allSocketEvents`, 0 is `nullptr`; what
libevent knows of it is `owner`, `socket`, `kinds` and `added`. `loc` is the worker
thread's place: in libevent's loop (`events`), in a call of curl (`curl`), reading
curl's messages (`data`), handling tasks (`tasks`). Curl is a nondeterministic caller of
`curl_socket_callback` and `curl_timer_callback`: in a call it waits for, changes or
gives up sockets as often as it likes, finishes transfers, and returns when every
transfer left has a socket or the timer to wake it. Curl keeps a REST connection's
socket open if it wants and lets other transfers use it; a session's sockets are its
own. Of the five states a message in flight gives a session only those that tell the
events apart are kept (`status`). The tick timers and the REST requests are in the
other modules; that a session is added, removed and added again in turn is what
`WebSocket` shows.

`Handles`. A client is its members `m_worker` and `m_connection`, dropped one after the
other in the reverse of their declaration, and the thread that is in its destructor. It
stands for a `rest_client` and for a `websocket`: it may do what either may. Building a
request and performing it are one step each, as the client holds both references
meanwhile. Taking a task's references is not a step of its own either; dropping them,
`taskQueue.clear()`, is. `swap_task_queue` reads the stop token with the swap, which
`Worker` takes apart. `stop` names the thread that is in `~worker`: were it the worker
thread, it would wait for itself, and no step of it would follow. The contract: a handle
is used by one thread at a time; a client is not destroyed, moved or assigned to while
it has a request that is not performed; a client destroyed in a callback is outlived by
a thread object; and, for the passing run, only a client without a connection is
assigned to.

`CurlConfig`. A configuration object of one of the four classes, its setters in any
order, before and after a client was constructed for it; `Construct` takes the texts
(`curl_config`), and registering a handle gives them to curl as options. A text is a
sequence of tokens: a host or a port is one, the separators are others.

### Idioms

Definitions named after a function or method model it. A definition that appears
just before another, marked as its mutant, is the same code with a plausible
mistake in it; `PROJECT.json` pairs each property with one that breaks it.

## Runs

| run | question | bounds |
|---|---|---|
| `worker` | order, loss, exclusion; shutdown ends and is clean; refinement of `TaskFifo` with its fairness | 2 clients, 1 call each besides add and remove |
| `timer_list` | the two lists, the entries of sessions, refinement of `TimerQueue`, no early tick | 3 sessions, timeouts 1, 2, 2, clock 1..3 in both directions, 1 initial node |
| `websocket` | agreement of the connection's state, messages, frames, callbacks, release; every message is answered | 2 messages, 2 reconnects, a buffer of 2, frames of up to 3, 2 that wait |
| `rest` | memory, options, texts, release; refinement of `RequestReply` with its fairness; the laws of `HttpText` for texts of up to 3 characters | 2 requests, 2 headers, 2 bytes of body, one timeout besides the default; curl refuses the configuration, if it does, before the first request is begun |
| `socket_events` | no event lost, shared, given back while in use or forgotten by libevent; the data socket is the connected one; all back at the end | 1 session, 1 address, 2 REST connections, 2 sockets whose descriptors are used again, 1 initial event |
| `handles` | every registered connection has an owner, all are destroyed, and before the worker | 2 clients and 2 thread objects at a time, 2 connections made, 2 tasks waiting when a client calls |
| `config` | options as set last, for each class | 3 calls of setters, 2 hosts, 2 ports |

The bounds let each interesting case happen: two clients are enough for a push to
meet a push, the swap, and the drop of the last reference; three entries for an
insertion and a removal at the head, in the middle and at the end, and one initial
node makes the deque grow and nodes come back; two messages and two reconnects put
an old message, task or timer entry beside a new session, twice; a frame of 3 in a buffer
of 2 has a part that fills it and one that does not, a frame of 2 fills it and ends;
two requests let an option, a node or a string of the first survive in the second, and
the second may be longer or shorter; two clients can be moved and assigned to one
another while a second connection is made; three setters let one be called again after
another that shares a member with it; one initial event makes the pool grow
and events come back, two REST connections share a socket while a session opens,
closes and opens again the other.

Deadlock is checked in every run. `Worker` and `SocketEvents` have an explicit step
for the state in which `~worker` has returned and the thread has ended.

### Runs that show a disagreement

| run | what the code says | what happens |
|---|---|---|
| `websocket_reconnect_loses` | a send task that finds the session ready finds a message (thread.cpp:1735) | `reconnect()` in a ready session with no task queued, then `write()`: remove and add are swapped in between the store of the message and the push of its send; the remove clears the message, and the send finds the new session ready and nothing to send |
| `websocket_write_forgotten` | a message written is reported sent | the socket becomes readable before it is writable, and is re-armed for reading only |
| `socket_addresses` | a socket attached is the first one, or the one after the resolver's | a host with two addresses: resolver's socket, first address, second address |
| `handles_move_assign` | `~rest_connection` and `~websocket_connection` find no handle | the defaulted move assignment of a client drops a live connection without a remove |
| `rest_register_fails` | a send task finds the connection ready | curl refuses an option of the configuration after the client has begun its first request |

Each is an assertion or expectation of the repository, quoted in `PROJECT.json`. Four
asserts have no run of their own, and are not properties of a passing run: a `write()`
between `deactivate()` and `on_error` leaves a message behind (thread.cpp:1748); a message
written in a callback, an error before the next swap and a `reconnect()` in `on_error`
make `add_connection` find a send queued (thread.cpp:558); a `websocket` destroyed right
after `reconnect()` queues a second remove (thread.cpp:608), which the model goes through without
harm; and a `rest_client` destroyed with a request under way has its remove handled
while the connection is busy (thread.cpp:1213), which the contract of
`RestConnection` excludes.

Where `websocket_reconnect_loses` has the three tasks in one batch instead, the send is
deferred and no assert is in its way: `on_recv_message` arms `EV_WRITE` for the empty
message, and `SendsTheWrite` fails as well. Both hold without `LiveReconnect`: that is
proved (`WriteIsSent`, `SendFindsMessage`).

## Fairness

`Worker`: weak fairness of the worker thread and of each client inside a call. The
spin lock gives no more: a thread may lose every race for the flag. Shutdown ends all
the same, as nobody but the worker thread and the client in `~worker` is left.
`WebSocket`: weak fairness of the worker thread and of a call under way; strong
fairness of the end of a connect (`CURLOPT_TIMEOUT_MS` bounds it) and of the socket
becoming writable (the peer reads, or TCP fails the socket); and strong fairness of
`NoEvent` and `NoTimer`, the end of the thread's stay in libevent's loop and at the
timers. The last is an assumption on the peers and the user, which nothing in the code
guarantees: `event_base_loop` with `EVLOOP_NONBLOCK` (thread.cpp:809) goes on while
anything is ready and `handle_timer_queue` (thread.cpp:816) while anything is due, so a
peer that never pauses, or ticks that take longer than their timeouts, would keep the
thread from its tasks. The other modules assume in their fairness of the worker thread
that `handle_events` returns. `RestConnection`: weak
fairness of the worker thread, strong fairness of the end of a transfer, which has a
timeout of its own; `RequestReply` asks for weak fairness of an answer. `Handles`: weak
fairness of the worker thread, of a call under way and of the join. `TimerTaskList`,
`SocketEvents` and `CurlConfig` state safety only: none is assumed.

## Proofs

What a theorem says holds for every value of the constants: any number of clients,
connections, sockets, requests, headers, tasks and any length of a text or a frame. Each
proof has the same shape: an inductive invariant that is checked with TLC on the run's
instance first, one lemma per conjunct or per action that can disturb it, lemmas about
sequences and nodes where several steps need them, and theorems that read the run's
properties off the invariant. The bounds of the modules (`MaxCalls`, `MaxRequests`, ...)
are any natural number.

`WorkerProofs`:

* `Invariance`: `IInv` is an invariant. It is the type invariant; exclusive, flagged
  ownership of the lock; that what a thread has read under the lock is still current
  when it writes; which thread may be in which critical section; that a callback's
  client is alive; that the swapped vector is empty outside the walk; that a client
  which has let go pushes nothing and the token is set only when all have; and that
  `handled \o Remaining \o tasksQueue = submitted`. `MutualExclusion` and
  `HandledInOrder` alone are not inductive: the second needs that the read value is
  current, which needs the first, and the drain needs that nobody pushes after stop.
* `TypeCorrect`, `Exclusion`, `InOrder`, `CleanShutdown`: its consequences.
* `ExitIsClean`: nothing is registered when the thread ends. It needs `RegInv` besides:
  a connection is registered only by a task that was handled with no remove since
  (`Reg`), and a client whose pushed tasks end in an add still lives or has its
  destructor's remove to push. At the end everybody is released and every task that was
  pushed was handled, so no client's tasks end in an add.
* `NoPushOnceStopped`: the action property, from the invariant.
* `RefinesTaskFifo`: every step is a step of `TaskFifo` or leaves it alone.

`TimerQueueProofs` proves that pushes, pops and removes in any order keep the queue
ordered, for any set of connections and any times that are natural numbers (a
hypothesis of the theorem).

`TimerTaskListProofs`: `Inductive` says that the nodes of the deque are the positions
of two chains without a node in common, one from each head, and that the free nodes
are clean (`Lists`); that the one entry of a session is in the first chain unless it is
being ticked (`Sessions`); and that an entry of a ready session expires its timeout after it
began or last ticked (`OnTime`). What the recursive `Links` returns on a chain is
proved by induction over the length walked (`EveryNat`, from the well-foundedness of the
naturals; `LinksWalk`, `LinksOfChain`), and the search loop's result from that
(`LastBeforeIs`). A pointer operation then inserts a node at a position of one chain or takes one
out (`ListInsert`, `ListDelete`). From it follow `TypeCorrect`, `Conserved`, `OneEntry`,
`NotEarly`, and `Implements`: every step is one of `TimerQueue` or leaves it alone. By
the theorem of `TimerQueueProofs` the priority list is ordered (`HeadIsFirst`). All
of this holds for any initial capacity, any sessions and any timeouts.

`WebSocketProofs`: `Inductive` is the conjunction of types, the round of the worker
thread (`RoundInv`), the agreement of status, handle, socket event and armed events
(`SessionInv`), one timer entry (`OneTimer`), what the tasks promise (`AddInv`: an add
that is first finds the last session released; `DestroyInv`: a destroyed client's last
task is a remove). The tasks that matter are those swapped in, those queued and those of
a call under way, in this order (`Tasks`): every step appends a call's pushes to them or
takes the first. `SessionCoherent`, `OneTimer`, `MultipartReported` and
`DestroyedClean` follow for every client, the one that calls `reconnect()` in an open
session included. `TaskExpected`, `MessageToSend`, `SendsTheWrite` and
`CallbacksOnlyInSession` follow with `ContractInv` for a client that does so only after
an error (`~LiveReconnect`); the run `websocket_reconnect_loses` shows what happens to a message without that hypothesis.

`RestConnectionProofs`: `Inductive` joins the phase of the connection (which tasks wait,
whether a request is built, under way or answered) with the data: header nodes and
strings in one list each, clean when free; options and target of the last request; what
`built` says of the request. From it `TransferCoherent`, `RequestReturned`,
`NodesConserved`, `HeadersIntact` and `WireMatches`. A header is read back by the laws of
`trim` and `split_http_header`, which are proved for every text: name and value come back
without the blanks around them, as the code trims what is given as a line and not what
is given as a pair. Under `~RegisterRaces` (curl refuses a configuration only before the
client's first request is begun; the run `rest_register_fails` shows the other case)
`TaskExpected` holds, and `RepliesToRequests`: every step is one of `RequestReply` or
leaves it alone.

`SocketEventsProofs`: `Inductive` says of every event of the pool whether it is free, with
curl for one socket or with one session, and that it is added to libevent exactly when
somebody waits with it; what curl keeps; and what each place of the worker thread leaves
open (`removing`). From it `NoLostWakeup` and `EventsConserved`, for any number of
addresses. `ConnectedInv` follows a session's sockets from the resolver's over the connect to
the close; with one address to a host (`Addresses = 1`, the run `socket_addresses` shows
two) it gives `NoStaleEvent`, `DataSocketIsConnected` and the asserts of
`on_attach_socket` and `on_detach_socket` (`SocketsExpected`).

`HandlesProofs`: `Inductive` is ownership bottom up: who has a connection has a worker
(`OwnInv`, from the order of the members); once `~worker` is entered nobody gets hold of
the worker again, so nobody pushes (`ExitInv`); and `RegisteredIsOwned`, which is an
invariant on tasks that remain: a push appends one, the worker thread takes the first
(`EndsPush`, `EndsHandle`). From these `WorkerOutlives`, and `ConnectionReleased`, the
property that the run `handles_move_assign` violates: the hypothesis `MoveAssign = FALSE`
is the contract that a client with a connection is not assigned to.

`CurlConfigProofs`: `Inductive` follows a setting from the call (`ConfigAsSet`) over the
texts a client makes of it (`TextsAsSet`) to the options of a handle (`OptionsOfTexts`).
It says nothing of how many calls there were: one more call is the last of its setters and
changes nothing for the others (`OneMoreCall`). Fields put together with separators are
taken apart again (`Split`, `Whole`), for URLs, `CURLOPT_CONNECT_TO` and
`CURLOPT_INTERFACE`. From it `OptionsAsSet`.

The assumptions are those of the modules: the worker thread is not a client, `NoX` values
are not values of their sets, bounds are natural numbers, the name of a header holds no colon
(`HeaderAssumption`), a path no question mark (`TargetAssumption`), the characters
of texts include the separators (`CharAssumption`), a host or a port is not a separator
(`TokenAssumption`), and a path is a text (`PathAssumption`).

Only model-checked are liveness (`ShutdownCompletes`, `WriteAnswered`, `AllDestroyed` and
the fairness of the refinements), which the prover does not reach, and the law of `HttpText`
that `trim` takes away all blanks at both ends and nothing else (`TrimsBlanks`, for
bounded texts); the laws of headers and targets are proved for every text
(`HeaderReadBack`, `TargetReadBack`). Every safety property of the passing runs has a
theorem.

## Not modelled

* Thread affinity (`thread_config`, the platform's calls) and the one-time
  initialisation of curl: they run once, before or beside everything above.
* TCP and TLS options that are constants, and the types of WebSocket messages: passed
  on as they are.
* A frame sent in part, or an answer of `CURLE_AGAIN` to a send; frames without a
  payload: what curl does there depends on its buffers and its version.
* Casts of sizes and durations to `long`, the lifetimes of what string views point to,
  how long listeners take: the models have small sizes, values without owners and no
  durations.
* curl and libevent, which are modelled by how the code uses them, and the tests.

## Plan

1. `Worker`, `TaskFifo`, `WorkerProofs`: done.
2. `WebSocket`, with frames and buffers, and `WebSocketProofs`: done.
3. `TimerQueue`, `TimerTaskList`, and their proofs: done.
4. `RestConnection`, `RequestReply`, `HttpText`, `RestConnectionProofs`: done.
5. `SocketEvents`, `SocketEventsProofs`: done.
6. `Handles`, `HandlesProofs`: done.
7. `CurlConfig`, `CurlConfigProofs`: done.
