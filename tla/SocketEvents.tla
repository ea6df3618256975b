---------------------------- MODULE SocketEvents ----------------------------
(***************************************************************************)
(* The event context of a worker thread (src/src/thread.cpp): the pool of  *)
(* socket events, the callbacks through which curl tells libevent what it  *)
(* waits for, and the WebSocket sessions that take a connected socket over *)
(* from curl with an event of their own.                                   *)
(*                                                                         *)
(* Curl and libevent are external.  A call of curl (loc "curl") makes its  *)
(* callbacks one by one and then returns.  A REST connection's socket may  *)
(* be kept when its transfer is done, used again, and shared by transfers; *)
(* a session opens its resolver's socket, if any, and then sockets of its  *)
(* own, Addresses of them at a time at most.                               *)
(***************************************************************************)
EXTENDS Naturals, Sequences, FiniteSets, SequencesExt

CONSTANTS
    Sessions,           \* the WebSocket connections
    Transfers,          \* the REST connections
    Sockets,            \* descriptors, used again when closed
    None,               \* CURL_SOCKET_BAD, nobody
    Curl,               \* the owner of an event that curl waits for
    InitialCapacity,    \* initial_connections_capacity
    Addresses           \* bound: addresses a session tries

Connections == Sessions \cup Transfers

ASSUME ConnectionsAssumption == Sessions \cap Transfers = {}
ASSUME NamesAssumption ==
    None \notin Sockets /\ {None, Curl} \cap Connections = {} /\ None # Curl
ASSUME BoundsAssumption == InitialCapacity \in Nat /\ Addresses \in Nat \ {0}

null == 0
Kinds == {"READ", "WRITE"}

VARIABLES
    loc,                \* where the worker thread is
    removing,           \* the session whose curl_multi_remove_handle it is in
    registered,         \* sessions whose add task was handled, and not yet their remove
    \* The event context.
    events,             \* allSocketEvents
    freeSocketEvents,   \* the list, the head first
    timer,              \* eventTimer is pending
    \* Curl.
    transfer,           \* each handle's state in the multi handle
    users,              \* the transfers and sessions that use a socket
    open,               \* the sockets that are open
    watch,              \* what curl waits for on a socket
    socketp,            \* curl_multi_assign
    messages,           \* the transfers that are done, not yet read
    opened,             \* sockets a session has opened since it was registered
    connected,          \* the socket of a session whose transfer succeeded
    \* The sessions.
    status,             \* m_status, where a message in flight makes no difference
    socketEvent,        \* m_socketEvent
    resolverSocket,     \* m_resolverSocket
    dataSocket          \* m_dataSocket

poolVars    == <<events, freeSocketEvents>>
curlVars    == <<transfer, users, open, watch, socketp, messages, opened, connected>>
sessionVars == <<status, socketEvent, resolverSocket, dataSocket>>
vars == <<loc, removing, registered, poolVars, timer, curlVars, sessionVars>>

Node  == 1 .. Len(events)
Blank == [owner |-> None, socket |-> None, kinds |-> {}, added |-> FALSE]

TypeOK ==
    /\ loc \in {"events", "curl", "data", "tasks", "ended"}
    /\ removing \in Sessions \cup {None}
    /\ registered \subseteq Sessions
    /\ events \in Seq([owner : Connections \cup {Curl, None}, socket : Sockets \cup {None},
                       kinds : SUBSET Kinds, added : BOOLEAN])
    /\ freeSocketEvents \in Seq(Node)
    /\ timer \in BOOLEAN
    /\ transfer \in [Connections -> {"none", "running", "done"}]
    /\ users \in [Sockets -> SUBSET Connections]
    /\ open \subseteq Sockets
    /\ watch \in [Sockets -> SUBSET Kinds]
    /\ socketp \in [Sockets -> null .. Len(events)]
    /\ messages \in Seq([connection : Connections, ok : BOOLEAN])
    /\ opened \in [Sessions -> 0 .. Addresses + 1]
    /\ connected \in [Sessions -> Sockets \cup {None}]
    /\ status \in [Sessions -> {"initializing", "ready", "inactive"}]
    /\ socketEvent \in [Sessions -> null .. Len(events)]
    /\ resolverSocket \in [Sessions -> Sockets \cup {None}]
    /\ dataSocket \in [Sessions -> Sockets \cup {None}]

\* init_event_context
Init ==
    /\ loc = "tasks" /\ removing = None /\ registered = {}
    /\ events = [i \in 1 .. InitialCapacity |-> Blank]
    /\ freeSocketEvents = [i \in 1 .. InitialCapacity |-> InitialCapacity + 1 - i]
    /\ timer = FALSE
    /\ transfer = [c \in Connections |-> "none"]
    /\ users = [s \in Sockets |-> {}] /\ open = {}
    /\ watch = [s \in Sockets |-> {}] /\ socketp = [s \in Sockets |-> null]
    /\ messages = <<>>
    /\ opened = [c \in Sessions |-> 0] /\ connected = [c \in Sessions |-> None]
    /\ status = [c \in Sessions |-> "initializing"]
    /\ socketEvent = [c \in Sessions |-> null]
    /\ resolverSocket = [c \in Sessions |-> None]
    /\ dataSocket = [c \in Sessions |-> None]

-----------------------------------------------------------------------------
(* The pool.                                                               *)

acquired == IF freeSocketEvents = <<>> THEN Len(events) + 1 ELSE Head(freeSocketEvents)

\* Mutant of acquire_socket_event: an empty pool does not grow.
AcquireNothing(e) ==
    /\ events' = IF freeSocketEvents = <<>> THEN events ELSE [events EXCEPT ![acquired] = e]
    /\ freeSocketEvents' = IF freeSocketEvents = <<>> THEN <<>> ELSE Tail(freeSocketEvents)

\* An acquired event e comes off the free list or is new.
acquire_socket_event(e) ==
    /\ events' = IF freeSocketEvents = <<>> THEN Append(events, e)
                 ELSE [events EXCEPT ![acquired] = e]
    /\ freeSocketEvents' = IF freeSocketEvents = <<>> THEN <<>> ELSE Tail(freeSocketEvents)

\* Mutant of release_socket_event: libevent goes on waiting.
ReleaseAdded(n) ==
    /\ freeSocketEvents' = <<n>> \o freeSocketEvents
    /\ UNCHANGED events

release_socket_event(n) ==
    /\ events' = [events EXCEPT ![n] = Blank]
    /\ freeSocketEvents' = <<n>> \o freeSocketEvents

-----------------------------------------------------------------------------
(* Curl's callbacks.                                                       *)

InCurl == loc = "curl"

\* Mutant of on_attach_socket: the first socket is the session's.
KeepFirstSocket(c, s) ==
    IF c \in Sessions /\ resolverSocket[c] = None
    THEN /\ resolverSocket' = [resolverSocket EXCEPT ![c] = s]
         /\ dataSocket' = [dataSocket EXCEPT ![c] = s]
    ELSE UNCHANGED <<resolverSocket, dataSocket>>

on_attach_socket(c, s) ==
    IF c \in Sessions
    THEN /\ resolverSocket' = [resolverSocket EXCEPT ![c] = IF @ = None THEN s ELSE @]
         /\ dataSocket' = [dataSocket EXCEPT ![c] = s]
    ELSE UNCHANGED <<resolverSocket, dataSocket>>

\* Mutant of Polled: an event that is there already is not added again.
PolledOnce(s, kinds) == [owner |-> Curl, socket |-> s, kinds |-> kinds,
                         added |-> socketp[s] = null]

\* Curl's event, EV_PERSIST, is assigned and added.
Polled(s, kinds) == [owner |-> Curl, socket |-> s, kinds |-> kinds, added |-> TRUE]

\* curl_socket_callback, CURL_POLL_IN, OUT and INOUT, for the handle of c.
PollSocket(c, s, kinds) ==
    IF socketp[s] = null
    THEN /\ acquire_socket_event(Polled(s, kinds))
         /\ socketp' = [socketp EXCEPT ![s] = acquired]
         /\ on_attach_socket(c, s)
    ELSE /\ events' = [events EXCEPT ![socketp[s]] = Polled(s, kinds)]
         /\ UNCHANGED <<freeSocketEvents, socketp, resolverSocket, dataSocket>>

\* curl_socket_callback, CURL_POLL_REMOVE.
RemoveSocket(s) ==
    /\ release_socket_event(socketp[s])
    /\ socketp' = [socketp EXCEPT ![s] = null]

curl_timer_callback(set) == timer' = set
-----------------------------------------------------------------------------
(* What curl does in a call.                                               *)

SocketsOf(c) == {s \in open : c \in users[s]}
WatchedOf(c) == {s \in SocketsOf(c) : watch[s] # {}}

\* A new socket, one it waits for, or, for a REST transfer, one that others use
\* or used; a session waits for a socket until it is connected or given up.
MayUse(c, s) ==
    IF c \in Transfers THEN s \in open => users[s] \subseteq Transfers
    ELSE \/ s \in WatchedOf(c)
         \/ /\ s \notin open
            /\ opened[c] <= Addresses
            /\ Cardinality(SocketsOf(c)) < Addresses

CurlPolls(c, s, kinds) ==
    /\ InCurl /\ removing = None /\ transfer[c] = "running"
    /\ MayUse(c, s) /\ kinds \notin {{}, watch[s]}
    /\ PollSocket(c, s, kinds)
    /\ watch' = [watch EXCEPT ![s] = kinds]
    /\ open' = open \cup {s}
    /\ users' = [users EXCEPT ![s] = @ \cup {c}]
    /\ opened' = IF c \in Sessions /\ s \notin open THEN [opened EXCEPT ![c] = @ + 1]
                 ELSE opened
    /\ UNCHANGED <<loc, removing, registered, timer, transfer, messages, connected, status,
                   socketEvent>>

\* A socket that curl waits for no more may be closed or not.
CurlRemoves(s) ==
    /\ InCurl /\ watch[s] # {}
    /\ removing # None => users[s] = {removing}
    /\ RemoveSocket(s)
    /\ watch' = [watch EXCEPT ![s] = {}]
    /\ \/ UNCHANGED <<open, users>>
       \/ open' = open \ {s} /\ users' = [users EXCEPT ![s] = {}]
    /\ UNCHANGED <<loc, removing, registered, timer, transfer, messages, opened, connected,
                   sessionVars>>

CurlTimer ==
    /\ InCurl
    /\ curl_timer_callback(~timer)
    /\ UNCHANGED <<loc, removing, registered, poolVars, curlVars, sessionVars>>

\* c uses no socket any more, but for those in kept; a session's are closed.
Detach(c, kept) ==
    /\ users' = [s \in Sockets |-> IF s \in kept THEN users[s] ELSE users[s] \ {c}]
    /\ open' = IF c \in Sessions THEN open \ (SocketsOf(c) \ kept) ELSE open

\* The transfer of c is over; of a session that succeeded one socket is left.
CurlDone(c, ok) ==
    /\ InCurl /\ removing = None /\ transfer[c] = "running"
    /\ \A s \in WatchedOf(c) : users[s] # {c}
    /\ transfer' = [transfer EXCEPT ![c] = "done"]
    /\ messages' = Append(messages, [connection |-> c, ok |-> ok])
    /\ IF c \in Sessions /\ ok
       THEN \E s \in SocketsOf(c) :
                connected' = [connected EXCEPT ![c] = s] /\ Detach(c, {s})
       ELSE UNCHANGED connected /\ Detach(c, {})
    /\ UNCHANGED <<loc, removing, registered, poolVars, timer, watch, socketp, opened, sessionVars>>

\* Curl has left a way to come back for every transfer.
CurlReturns ==
    /\ InCurl /\ removing = None
    /\ \A c \in Connections : transfer[c] = "running" => timer \/ WatchedOf(c) # {}
    /\ loc' = "data"
    /\ UNCHANGED <<removing, registered, poolVars, timer, curlVars, sessionVars>>

\* Mutant of HandleGone: the resolver's socket is remembered.
KeepResolver(c) ==
    /\ Detach(c, {})
    /\ transfer' = [transfer EXCEPT ![c] = "none"]
    /\ connected' = [connected EXCEPT ![c] = None]
    /\ dataSocket' = [dataSocket EXCEPT ![c] = None]
    /\ status' = [status EXCEPT ![c] = "inactive"]
    /\ UNCHANGED resolverSocket

\* What deactivate leaves of the handle of session c, after
\* curl_multi_remove_handle and curl_easy_cleanup.
HandleGone(c) ==
    /\ Detach(c, {})
    /\ transfer' = [transfer EXCEPT ![c] = "none"]
    /\ connected' = [connected EXCEPT ![c] = None]
    /\ resolverSocket' = [resolverSocket EXCEPT ![c] = None]
    /\ dataSocket' = [dataSocket EXCEPT ![c] = None]
    /\ status' = [status EXCEPT ![c] = "inactive"]

-----------------------------------------------------------------------------
(* The worker thread.                                                      *)

\* event_timer_callback, and Curl's event_socket_callback: its event stays.
TimerFires ==
    /\ loc = "events" /\ timer
    /\ timer' = FALSE
    /\ loc' = "curl"
    /\ UNCHANGED <<removing, registered, poolVars, curlVars, sessionVars>>

SocketFires ==
    /\ loc = "events"
    /\ \E n \in Node : events[n].added /\ events[n].owner = Curl
    /\ loc' = "curl"
    /\ UNCHANGED <<removing, registered, poolVars, timer, curlVars, sessionVars>>

\* process_data reads a message: a REST transfer leaves the multi handle ...
TransferDone(c) ==
    /\ loc = "data" /\ messages # <<>> /\ Head(messages).connection = c
    /\ c \in Transfers
    /\ messages' = Tail(messages)
    /\ transfer' = [transfer EXCEPT ![c] = "none"]
    /\ UNCHANGED <<loc, removing, registered, poolVars, timer, users, open, watch, socketp, opened,
                   connected, sessionVars>>

\* ... a session that succeeded waits for its socket itself ...
SessionEvent(c, kinds) ==
    [owner |-> c, socket |-> dataSocket[c], kinds |-> {"READ"} \cup kinds, added |-> TRUE]

SessionReady(c, kinds) ==
    /\ loc = "data" /\ messages # <<>> /\ Head(messages) = [connection |-> c, ok |-> TRUE]
    /\ c \in Sessions
    /\ messages' = Tail(messages)
    /\ acquire_socket_event(SessionEvent(c, kinds))
    /\ socketEvent' = [socketEvent EXCEPT ![c] = acquired]
    /\ status' = [status EXCEPT ![c] = "ready"]
    /\ UNCHANGED <<loc, removing, registered, timer, transfer, users, open, watch, socketp, opened,
                   connected, resolverSocket, dataSocket>>

\* ... and one that failed, or cannot be given its options, is deactivated.
SessionRefused(c) ==
    /\ loc = "data" /\ messages # <<>> /\ Head(messages).connection = c
    /\ c \in Sessions
    /\ messages' = Tail(messages)
    /\ HandleGone(c)
    /\ UNCHANGED <<loc, removing, registered, poolVars, timer, watch, socketp, opened, socketEvent>>

DataDone ==
    /\ loc = "data" /\ messages = <<>>
    /\ loc' = "events"
    /\ UNCHANGED <<removing, registered, poolVars, timer, curlVars, sessionVars>>

\* websocket_connection::event_socket_callback, or a send_message, waits for
\* more ...
ArmSession(c, kinds) ==
    /\ loc \in {"events", "tasks"} /\ status[c] = "ready" /\ events[socketEvent[c]].added
    /\ events' = [events EXCEPT ![socketEvent[c]] = SessionEvent(c, kinds)]
    /\ UNCHANGED <<loc, removing, registered, freeSocketEvents, timer, curlVars, sessionVars>>

\* ... or deactivates the session, which keeps m_socketEvent.
SessionFails(c) ==
    /\ loc = "events" /\ status[c] = "ready" /\ events[socketEvent[c]].added
    /\ events' = [events EXCEPT ![socketEvent[c]].added = FALSE]
    /\ HandleGone(c)
    /\ UNCHANGED <<loc, removing, registered, freeSocketEvents, timer, watch, socketp, messages,
                   opened, socketEvent>>

\* The handle of c is added to the multi handle, which asks for the timer: a
\* REST send_message, or register_handle of a session ...
AddHandle(c) ==
    /\ loc = "tasks" /\ transfer[c] = "none"
    /\ c \notin registered
    /\ transfer' = [transfer EXCEPT ![c] = "running"]
    /\ curl_timer_callback(TRUE)
    /\ IF c \in Sessions
       THEN /\ registered' = registered \cup {c}
            /\ status' = [status EXCEPT ![c] = "initializing"]
            /\ opened' = [opened EXCEPT ![c] = 0]
       ELSE UNCHANGED <<registered, status, opened>>
    /\ UNCHANGED <<loc, removing, poolVars, users, open, watch, socketp, messages, connected,
                   socketEvent, resolverSocket, dataSocket>>

\* ... unless curl refuses an option of the session or its handle.
RegisterRefused(c) ==
    /\ loc = "tasks" /\ c \notin registered
    /\ registered' = registered \cup {c}
    /\ status' = [status EXCEPT ![c] = "inactive"]
    /\ UNCHANGED <<loc, removing, poolVars, timer, curlVars, socketEvent, resolverSocket,
                   dataSocket>>

\* Mutant of ReleaseSessionEvent: only a session that still has its handle
\* gives the event back.
ReleaseIfActive(c) ==
    IF socketEvent[c] # null /\ transfer[c] # "none"
    THEN /\ release_socket_event(socketEvent[c])
         /\ socketEvent' = [socketEvent EXCEPT ![c] = null]
    ELSE UNCHANGED <<poolVars, socketEvent>>

ReleaseSessionEvent(c) ==
    IF socketEvent[c] # null
    THEN /\ release_socket_event(socketEvent[c])
         /\ socketEvent' = [socketEvent EXCEPT ![c] = null]
    ELSE UNCHANGED <<poolVars, socketEvent>>

\* websocket_connection::unregister_handle releases the event, and removes the
\* handle from curl if there is one.
unregister_handle(c) ==
    /\ loc = "tasks" /\ c \in registered
    /\ registered' = registered \ {c}
    /\ ReleaseSessionEvent(c)
    /\ IF transfer[c] # "none" THEN loc' = "curl" /\ removing' = c
       ELSE UNCHANGED <<loc, removing>>
    /\ UNCHANGED <<timer, curlVars, status, resolverSocket, dataSocket>>

HandleRemoved ==
    /\ InCurl /\ removing # None /\ WatchedOf(removing) = {}
    /\ HandleGone(removing)
    /\ loc' = "tasks" /\ removing' = None
    /\ UNCHANGED <<registered, poolVars, timer, watch, socketp, messages, opened, socketEvent>>

HandleTasks ==
    /\ loc = "events"
    /\ loc' = "tasks"
    /\ UNCHANGED <<removing, registered, poolVars, timer, curlVars, sessionVars>>

HandleEvents ==
    /\ loc = "tasks"
    /\ loc' = "events"
    /\ UNCHANGED <<removing, registered, poolVars, timer, curlVars, sessionVars>>

\* The thread ends when every session was unregistered (module Worker) and no
\* transfer is under way.
free_event_context ==
    /\ loc = "tasks"
    /\ registered = {} /\ \A c \in Connections : transfer[c] = "none"
    /\ loc' = "ended"
    /\ timer' = FALSE
    /\ open' = {}
    /\ UNCHANGED <<removing, registered, poolVars, transfer, users, watch, socketp, messages,
                   opened, connected, sessionVars>>

Terminated == loc = "ended" /\ UNCHANGED vars

Next ==
    \/ \E c \in Connections, s \in Sockets, kinds \in SUBSET Kinds : CurlPolls(c, s, kinds)
    \/ \E s \in Sockets : CurlRemoves(s)
    \/ CurlTimer \/ CurlReturns
    \/ \E c \in Connections, ok \in BOOLEAN : CurlDone(c, ok)
    \/ TimerFires \/ SocketFires \/ DataDone
    \/ \E c \in Transfers : TransferDone(c)
    \/ \E c \in Sessions : SessionRefused(c) \/ SessionFails(c) \/ RegisterRefused(c)
    \/ \E c \in Sessions, kinds \in SUBSET {"WRITE"} :
           SessionReady(c, kinds) \/ ArmSession(c, kinds)
    \/ \E c \in Connections : AddHandle(c)
    \/ \E c \in Sessions : unregister_handle(c)
    \/ HandleRemoved \/ HandleTasks \/ HandleEvents
    \/ free_event_context \/ Terminated

Spec == Init /\ [][Next]_vars

-----------------------------------------------------------------------------
(* Properties.                                                             *)

\* Every socket event is on the free list, with curl for one socket, or with
\* one session: none is lost and none has two owners.  When the thread ends all
\* are back on the free list (assert of free_event_context).
CurlEvents    == {s \in Sockets : socketp[s] # null}
SessionEvents == {c \in Sessions : socketEvent[c] # null}
EventsConserved ==
    /\ Len(freeSocketEvents) + Cardinality(CurlEvents) + Cardinality(SessionEvents) = Len(events)
    /\ Node = ToSet(freeSocketEvents) \cup {socketp[s] : s \in CurlEvents}
                                      \cup {socketEvent[c] : c \in SessionEvents}
    /\ loc = "ended" => Len(freeSocketEvents) = Len(events)

\* Libevent never waits on behalf of an event that was given back or for a
\* socket that is closed.
NoStaleEvent ==
    \A n \in Node :
        events[n].added =>
            /\ events[n].socket \in open
            /\ \/ events[n].owner = Curl /\ socketp[events[n].socket] = n
               \/ events[n].owner \in Sessions /\ socketEvent[events[n].owner] = n

\* Whatever curl waits for on a socket libevent waits for, and for every session
\* that is ready, so that no transfer or session is left asleep.
NoLostWakeup ==
    /\ \A s \in Sockets :
          watch[s] # {} =>
              /\ socketp[s] # null
              /\ events[socketp[s]] = [owner |-> Curl, socket |-> s, kinds |-> watch[s],
                                       added |-> TRUE]
    /\ \A c \in Sessions :
          status[c] = "ready" /\ removing # c =>
              /\ socketEvent[c] # null
              /\ events[socketEvent[c]].owner = c /\ events[socketEvent[c]].added

\* A session reads and writes the socket that curl connected, whatever sockets
\* were opened before it.
DataSocketIsConnected ==
    \A c \in Sessions :
        status[c] = "ready" /\ removing # c =>
            dataSocket[c] = connected[c] /\ events[socketEvent[c]].socket = connected[c]

\* The assert of on_attach_socket: a socket that is attached is the first, or
\* the first after the resolver's.
AttachesExpected ==
    \A c \in Sessions, s \in Sockets :
        socketp[s] = null /\ socketp'[s] # null /\ users'[s] = {c} =>
            s = resolverSocket'[c] \/ resolverSocket'[c] = dataSocket[c]

AttachExpected == [][AttachesExpected]_vars

\* The asserts of on_attach_socket and of on_detach_socket: a socket that is
\* detached is the resolver's or the data socket.
SocketsExpected ==
    [][/\ AttachesExpected
       /\ \A c \in Sessions, s \in Sockets :
             socketp[s] # null /\ socketp'[s] = null /\ users[s] = {c} =>
                 s \in {resolverSocket[c], dataSocket[c]}]_vars
=============================================================================
