------------------------------ MODULE WebSocket ------------------------------
(***************************************************************************)
(* thread::websocket and thread::websocket_connection                      *)
(* (src/src/thread.cpp): one WebSocket client used from a thread of its    *)
(* own and from its listener's callbacks, and the worker thread that owns  *)
(* the connection.                                                         *)
(*                                                                         *)
(* The worker thread goes round events -> swap -> tasks -> timers.  The    *)
(* critical sections of m_tasksQueue are atomic here (module Worker).      *)
(* libevent runs callbacks for as long as it finds something ready, a      *)
(* re-armed event too, and only then does the thread go on to the tasks;   *)
(* ticks run for as long as an entry is due, one that was pushed again too.*)
(*                                                                         *)
(* A frame that arrived is its length.  Whether it is still on the socket  *)
(* or in curl's buffer makes no difference to curl_ws_recv, and frames     *)
(* that arrive while the read handler runs count as arrived before it: the *)
(* peer does not fill the receive buffer for ever.                         *)
(*                                                                         *)
(* How the client may be used: by one thread at a time; write() only when  *)
(* the previous message was answered (on_message_sent or on_error) and the *)
(* last session has not failed; reconnect() only when no message is        *)
(* unanswered, and after an error.  The constants widen that contract.     *)
(***************************************************************************)
EXTENDS Naturals, Sequences

CONSTANTS
    MaxWrites,      \* bound: messages written
    MaxReconnects,  \* bound: calls of reconnect
    TickOn,         \* a tick_timeout is configured
    OwnThread,      \* the client's own thread calls write, not only callbacks
    LiveReconnect,  \* reconnect() may be called in a session with no task waiting
    BufferSize,     \* size of the buffer for inbound messages
    MaxLength,      \* bound: length of a frame
    MaxInbound      \* bound: frames that arrived and are not read

ASSUME BoundsAssumption ==
    MaxWrites \in Nat /\ MaxReconnects \in Nat /\ MaxLength \in Nat /\ MaxInbound \in Nat
ASSUME BufferAssumption == BufferSize \in Nat /\ BufferSize > 1
ASSUME FlagsAssumption  ==
    TickOn \in BOOLEAN /\ OwnThread \in BOOLEAN /\ LiveReconnect \in BOOLEAN

VARIABLES
    \* The worker thread.
    loc,            \* where it is in its round, and in which callback
    queue,          \* this connection's tasks in m_tasksQueue
    batch,          \* and in the vector being handled
    thenWrite,      \* the event that fired is EV_WRITE too
    \* The connection.
    status,         \* m_status
    handle,         \* m_handle and m_multiHandle are set
    curl,           \* the transfer of m_handle in curl's multi handle
    socketEvent,    \* m_socketEvent is set
    armed,          \* what libevent waits for on m_socketEvent
    outbound,       \* m_outboundMessage: the number of a message, 0 when empty
    outReady,       \* m_outboundMessageReady
    timers,         \* entries of the connection in the timer queue
    frame,          \* history: the message last passed to curl_ws_send
    inbound,        \* what is left of the frames that arrived
    begun,          \* a part of the first of them was reported
    slow,           \* the socket may be readable while it is not writable
    \* The client.
    upc,            \* the call its own thread is in
    alive,          \* the websocket object exists
    mine,           \* the message written and not yet answered, 0 if none
    errored,        \* on_error was called since the last (re)connect
    written, reconnects

workVars == <<loc, queue, batch, thenWrite>>
connVars == <<status, handle, curl, socketEvent, armed, outReady, timers, frame,
              inbound, begun, slow>>
inVars   == <<inbound, begun, slow>>
linkVars == <<handle, curl, socketEvent, outReady, timers, frame>>
userVars == <<upc, alive, mine, errored, written, reconnects>>
vars == <<workVars, connVars, outbound, userVars>>

TypeOK ==
    /\ loc \in {"events", "read", "write", "eventError", "swap", "tasks", "taskError", "timers"}
    /\ queue \in Seq({"add", "send", "remove"})
    /\ batch \in Seq({"add", "send", "remove"})
    /\ thenWrite \in BOOLEAN
    /\ status \in {"initializing", "ready", "busy", "inactive"}
    /\ handle \in BOOLEAN
    /\ curl \in {"none", "connecting", "open"}
    /\ socketEvent \in BOOLEAN
    /\ armed \subseteq {"READ", "WRITE"}
    /\ outbound \in 0 .. MaxWrites
    /\ outReady \in BOOLEAN
    /\ timers \in Nat
    /\ frame \in 0 .. MaxWrites
    /\ inbound \in Seq(1 .. MaxLength)
    /\ begun \in BOOLEAN /\ slow \in BOOLEAN
    /\ upc \in {"idle", "write", "reconnect", "destroy"}
    /\ alive \in BOOLEAN
    /\ mine \in 0 .. MaxWrites
    /\ errored \in BOOLEAN
    /\ written \in 0 .. MaxWrites
    /\ reconnects \in 0 .. MaxReconnects

\* The constructor has pushed the first add.
Init ==
    /\ loc = "events" /\ queue = <<"add">> /\ batch = <<>> /\ thenWrite = FALSE
    /\ status = "initializing" /\ handle = FALSE /\ curl = "none"
    /\ socketEvent = FALSE /\ armed = {} /\ outbound = 0 /\ outReady = FALSE
    /\ timers = 0 /\ frame = 0
    /\ inbound = <<>> /\ begun = FALSE /\ slow \in BOOLEAN
    /\ upc = "idle" /\ alive = TRUE /\ mine = 0 /\ errored = FALSE
    /\ written = 0 /\ reconnects = 0

-----------------------------------------------------------------------------
(* The client's own thread.                                                *)

CanCall == upc = "idle" /\ alive
InSession == status \in {"ready", "busy"}
MayReconnect(e) ==
    /\ reconnects < MaxReconnects
    /\ e \/ (LiveReconnect /\ InSession /\ queue = <<>> /\ batch = <<>>)

\* websocket::write stores the message ...
set_outbound_message ==
    /\ CanCall /\ OwnThread
    /\ mine = 0 /\ ~errored /\ written < MaxWrites
    /\ written' = written + 1
    /\ outbound' = written + 1
    /\ mine' = written + 1
    /\ upc' = "write"
    /\ UNCHANGED <<workVars, connVars, alive, errored, reconnects>>

\* ... and then pushes a send task.
enqueue_request ==
    /\ upc = "write"
    /\ queue' = Append(queue, "send")
    /\ upc' = "idle"
    /\ UNCHANGED <<loc, batch, thenWrite, connVars, outbound, alive, mine, errored,
                   written, reconnects>>

\* websocket::reconnect pushes a remove and an add, in two critical sections.
reconnect ==
    /\ CanCall /\ mine = 0 /\ MayReconnect(errored)
    /\ queue' = Append(queue, "remove")
    /\ errored' = FALSE
    /\ reconnects' = reconnects + 1
    /\ upc' = "reconnect"
    /\ UNCHANGED <<loc, batch, thenWrite, connVars, outbound, alive, mine, written>>

add_connection ==
    /\ upc = "reconnect"
    /\ queue' = Append(queue, "add")
    /\ upc' = "idle"
    /\ UNCHANGED <<loc, batch, thenWrite, connVars, outbound, alive, mine, errored,
                   written, reconnects>>

\* ~websocket pushes a remove, then lets go of the connection.
remove_connection ==
    /\ CanCall
    /\ queue' = Append(queue, "remove")
    /\ upc' = "destroy"
    /\ UNCHANGED <<loc, batch, thenWrite, connVars, outbound, alive, mine, errored,
                   written, reconnects>>

LetGo ==
    /\ upc = "destroy"
    /\ alive' = FALSE
    /\ upc' = "idle"
    /\ UNCHANGED <<workVars, connVars, outbound, mine, errored, written, reconnects>>

User == \/ set_outbound_message \/ enqueue_request \/ reconnect \/ add_connection
        \/ remove_connection \/ LetGo

-----------------------------------------------------------------------------
(* Listener callbacks.                                                     *)

\* A callback that finds message o stored, message m unanswered and e saying
\* whether the session has failed may call reconnect(), write(), or the one
\* after the other.
Listener(o, m, e) ==
    \E r, w \in BOOLEAN :
        /\ r \/ w => CanCall /\ m = 0
        /\ r => MayReconnect(e)
        /\ w => (r \/ ~e) /\ written < MaxWrites
        /\ queue' = queue \o (IF r THEN <<"remove", "add">> ELSE <<>>)
                          \o (IF w THEN <<"send">> ELSE <<>>)
        /\ outbound' = IF w THEN written + 1 ELSE o
        /\ mine' = IF w THEN written + 1 ELSE m
        /\ written' = IF w THEN written + 1 ELSE written
        /\ reconnects' = IF r THEN reconnects + 1 ELSE reconnects
        /\ errored' = (e /\ ~r)
        /\ UNCHANGED <<upc, alive>>

-----------------------------------------------------------------------------
(* The connection, on the worker thread.                                   *)

\* Mutant of deactivate: a deferred send survives the session.
DeactivateKeepsReady ==
    /\ armed' = {}
    /\ curl' = "none"
    /\ handle' = FALSE
    /\ outbound' = 0
    /\ status' = "inactive"
    /\ inbound' = <<>> /\ begun' = FALSE
    /\ UNCHANGED <<outReady, slow>>

deactivate ==
    /\ armed' = {}
    /\ curl' = "none"
    /\ handle' = FALSE
    /\ outbound' = 0
    /\ status' = "inactive"
    /\ outReady' = FALSE
    /\ inbound' = <<>> /\ begun' = FALSE
    /\ UNCHANGED slow

\* report_error of a failure: deactivate, and then on_error.
Fail == /\ deactivate
        /\ loc' = IF loc = "tasks" THEN "taskError" ELSE "eventError"
        /\ UNCHANGED <<queue, thenWrite, socketEvent, timers, frame, userVars>>

on_error ==
    /\ loc \in {"eventError", "taskError"}
    /\ loc' = IF loc = "taskError" THEN "tasks" ELSE "events"
    /\ Listener(outbound, 0, TRUE)
    /\ UNCHANGED <<batch, thenWrite, connVars>>

\* Libevent waits for the socket to be readable, and for kinds.
event_assign_callback(kinds) == armed' = {"READ"} \cup kinds

\* What a session waits for first: a send that came while it was connecting.
ForgetDeferred == {}    \* mutant of DeferredSend
DeferredSend == IF outReady THEN {"WRITE"} ELSE {}

\* The transfer is done: the upgrade succeeded or the connect failed.
ConnectSucceeds ==
    /\ loc = "events" /\ curl = "connecting"
    /\ curl' = "open"
    /\ socketEvent' = TRUE
    /\ status' = "ready"
    /\ timers' = IF TickOn THEN timers + 1 ELSE timers
    /\ event_assign_callback(DeferredSend)
    /\ outReady' = FALSE
    /\ UNCHANGED <<workVars, handle, outbound, frame, inVars, userVars>>

ConnectFails ==
    /\ loc = "events" /\ curl = "connecting"
    /\ Fail
    /\ UNCHANGED batch

on_recv_message == ConnectSucceeds \/ ConnectFails

\* The event fires, which takes it off libevent's list.
event_socket_callback(kinds) ==
    /\ loc = "events" /\ curl = "open"
    /\ kinds # {} /\ kinds \subseteq armed
    /\ slow \/ ("WRITE" \in armed => "WRITE" \in kinds)
    /\ armed' = {}
    /\ loc' = IF "READ" \in kinds THEN "read" ELSE "write"
    /\ thenWrite' = ("WRITE" \in kinds)
    /\ UNCHANGED <<queue, batch, status, linkVars, inVars, outbound, userVars>>

\* Mutant of StopReading: a message in flight is forgotten.
StopReadingReadOnly ==
    /\ event_assign_callback({})
    /\ loc' = IF thenWrite THEN "write" ELSE "events"
    /\ UNCHANGED <<batch, thenWrite, status, linkVars, slow>>

\* handle_read_event waits for more; handle_write_event follows if it is due.
StopReading ==
    /\ event_assign_callback(IF status = "busy" THEN {"WRITE"} ELSE {})
    /\ loc' = IF thenWrite THEN "write" ELSE "events"
    /\ UNCHANGED <<batch, thenWrite, status, linkVars, slow>>

\* The peer's next frame arrives.
PeerSends(length) ==
    /\ loc = "events" /\ curl = "open"
    /\ Len(inbound) < MaxInbound
    /\ inbound' = Append(inbound, length)
    /\ UNCHANGED <<workVars, status, linkVars, armed, begun, slow, outbound, userVars>>

\* What one curl_ws_recv returns: of one frame, what fits.
recvBytes == IF Head(inbound) < BufferSize THEN Head(inbound) ELSE BufferSize

FillsAlmost(n) == n > BufferSize        \* mutant of Fills
Fills(n) == n = BufferSize

\* A part of a frame is reported, and unless it filled the buffer it was the
\* last to be received in this callback.
RecvFrame ==
    /\ loc = "read" /\ inbound # <<>>
    /\ LET left == Head(inbound) - recvBytes
       IN  /\ inbound' = (IF left = 0 THEN <<>> ELSE <<left>>) \o Tail(inbound)
           /\ begun' = (left # 0)
    /\ Listener(outbound, mine, errored)
    /\ IF Fills(recvBytes) THEN UNCHANGED <<loc, batch, thenWrite, status, linkVars, armed, slow>>
       ELSE StopReading

RecvNothing ==
    /\ loc = "read" /\ inbound = <<>>
    /\ StopReading
    /\ UNCHANGED <<queue, outbound, inbound, begun, userVars>>

RecvFails ==
    /\ loc = "read"
    /\ Fail
    /\ UNCHANGED batch

handle_read_event == RecvFrame \/ RecvNothing \/ RecvFails

\* handle_write_event sends the message when it is ready ...
SendFrame ==
    /\ loc = "write" /\ status = "ready"
    /\ frame' = outbound
    /\ status' = "busy"
    /\ event_assign_callback({"WRITE"})
    /\ loc' = "events"
    /\ UNCHANGED <<queue, batch, thenWrite, handle, curl, socketEvent, outReady, timers,
                   inVars, outbound, userVars>>

SendFails ==
    /\ loc = "write" /\ status = "ready"
    /\ Fail
    /\ UNCHANGED batch

\* ... and reports it sent when the socket is writable again.
on_message_sent ==
    /\ loc = "write" /\ status = "busy"
    /\ status' = "ready"
    /\ Listener(0, 0, errored)
    /\ event_assign_callback({})
    /\ loc' = "events"
    /\ UNCHANGED <<batch, thenWrite, linkVars, inVars>>

handle_write_event == SendFrame \/ SendFails \/ on_message_sent

\* Nothing (more) is ready: event_base_loop returns.
NoEvent ==
    /\ loc = "events"
    /\ loc' = "swap"
    /\ UNCHANGED <<queue, batch, thenWrite, connVars, outbound, userVars>>

-----------------------------------------------------------------------------
(* The task queue and the timer queue.                                     *)

swap_task_queue ==
    /\ loc = "swap"
    /\ batch' = queue
    /\ queue' = <<>>
    /\ loc' = "tasks"
    /\ UNCHANGED <<thenWrite, connVars, outbound, userVars>>

NextTask(action) == loc = "tasks" /\ batch # <<>> /\ Head(batch) = action

RegisterSucceeds ==
    /\ NextTask("add")
    /\ handle' = TRUE
    /\ status' = "initializing"
    /\ curl' = "connecting"
    /\ batch' = Tail(batch)
    /\ UNCHANGED <<loc, queue, thenWrite, socketEvent, armed, outReady, timers, frame,
                   inVars, outbound, userVars>>

\* An option or curl_multi_add_handle is refused.
RegisterFails ==
    /\ NextTask("add")
    /\ Fail
    /\ batch' = Tail(batch)

register_handle == RegisterSucceeds \/ RegisterFails

\* A message that comes before the session is ready is sent when it is.
DeferAlways == status # "ready"     \* mutant of Defer
Defer == status = "initializing"

send_message ==
    /\ NextTask("send")
    /\ IF status = "ready" THEN event_assign_callback({"WRITE"}) ELSE UNCHANGED armed
    /\ outReady' = (outReady \/ Defer)
    /\ batch' = Tail(batch)
    /\ UNCHANGED <<loc, queue, thenWrite, status, handle, curl, socketEvent, timers, frame,
                   inVars, outbound, userVars>>

KeepSocketEvent == UNCHANGED socketEvent    \* mutant of release_socket_event
release_socket_event == socketEvent' = FALSE

\* timer_queue::remove takes out the connection's first entry, if any.
RemoveBlindly == timers' = timers - 1       \* mutants of timer_queue_remove
RemoveNothing == UNCHANGED timers
timer_queue_remove == timers' = IF timers > 0 THEN timers - 1 ELSE 0

unregister_handle ==
    /\ NextTask("remove")
    /\ release_socket_event
    /\ IF handle THEN deactivate
       ELSE /\ armed' = IF socketEvent THEN {} ELSE armed
            /\ UNCHANGED <<curl, handle, outbound, status, outReady, inVars>>
    /\ timer_queue_remove
    /\ batch' = Tail(batch)
    /\ UNCHANGED <<loc, queue, thenWrite, frame, userVars>>

TasksDone ==
    /\ loc = "tasks" /\ batch = <<>>
    /\ loc' = "timers"
    /\ UNCHANGED <<queue, batch, thenWrite, connVars, outbound, userVars>>

\* The entry is due: the timer queue pops it and tick pushes it again, unless
\* the session is over.
NeverOver == FALSE                  \* mutant of SessionOver
SessionOver == status = "inactive"

on_tick ==
    /\ loc = "timers" /\ timers > 0
    /\ ~SessionOver
    /\ Listener(outbound, mine, errored)
    /\ UNCHANGED <<loc, batch, thenWrite, connVars>>

TickAfterEnd ==
    /\ loc = "timers" /\ timers > 0
    /\ SessionOver
    /\ timers' = timers - 1
    /\ UNCHANGED <<workVars, status, handle, curl, socketEvent, armed,
                   outReady, frame, inVars, outbound, userVars>>

tick == on_tick \/ TickAfterEnd

\* No entry is due (any more).
NoTimer ==
    /\ loc = "timers"
    /\ loc' = "events"
    /\ UNCHANGED <<queue, batch, thenWrite, connVars, outbound, userVars>>

WorkerThread ==
    \/ on_recv_message \/ NoEvent \/ on_error
    \/ \E kinds \in SUBSET {"READ", "WRITE"} : event_socket_callback(kinds)
    \/ handle_read_event \/ handle_write_event
    \/ swap_task_queue \/ register_handle \/ send_message \/ unregister_handle \/ TasksDone
    \/ tick \/ NoTimer

Next == User \/ WorkerThread \/ \E length \in 1 .. MaxLength : PeerSends(length)

Spec == Init /\ [][Next]_vars

\* The worker thread and a call once started run on; peers pause, so libevent is
\* out of events in the end, and a tick is over before the next is due; curl ends a
\* connect, by its timeout at the latest; and a socket is writable in the end.
Fairness ==
    /\ WF_vars(WorkerThread)
    /\ SF_vars(NoEvent) /\ SF_vars(NoTimer)
    /\ WF_vars(enqueue_request \/ add_connection \/ LetGo)
    /\ SF_vars(on_recv_message)
    /\ SF_vars(\E kinds \in SUBSET {"READ", "WRITE"} :
                  "WRITE" \in kinds /\ event_socket_callback(kinds))

FairSpec == Spec /\ Fairness

-----------------------------------------------------------------------------
(* Properties.                                                             *)

\* The status, the curl handle, the socket event and what libevent waits for
\* move together: whenever the worker thread looks for events, a live session
\* waits for input, and one that is sending waits for the socket too.
SessionCoherent ==
    /\ handle <=> curl # "none"
    /\ curl = "connecting" => status = "initializing" /\ ~socketEvent
    /\ curl = "open" <=> InSession
    /\ InSession => socketEvent
    /\ armed # {} => InSession
    /\ loc = "events" /\ InSession => "READ" \in armed
    /\ loc = "events" /\ status = "busy" => "WRITE" \in armed

\* A task finds the connection in a state its handler expects (the asserts of
\* register_handle and send_message).
TaskExpected ==
    /\ NextTask("add")  => ~handle /\ ~InSession /\ ~outReady
    /\ NextTask("send") => status # "busy"

\* At most one timer entry per connection, and the tick of a live session finds
\* its handle and socket event (the asserts of tick).
OneTimer ==
    /\ timers <= 1
    /\ timers = 1 /\ status # "inactive" => handle /\ InSession

\* A send task that finds the session ready finds a message too (an assert of
\* send_message), whoever reconnected when.
MessageToSend == NextTask("send") /\ status = "ready" => outbound # 0

\* Only the unanswered message goes out, never an empty one or an old one, and
\* on_message_sent answers the message that was passed to curl.
SendsTheWrite ==
    [][/\ SendFrame => outbound # 0 /\ outbound = mine
       /\ on_message_sent => mine # 0 /\ frame = mine]_vars

\* Once on_error was called no callback follows before the next reconnect().
CallbacksOnlyInSession ==
    [][on_error \/ on_message_sent \/ RecvFrame \/ on_tick => ~errored]_vars

\* ~websocket_connection finds everything released (its asserts), and no timer
\* entry is left that points to it.
Destroyed == ~alive /\ queue = <<>> /\ batch = <<>> /\ loc \notin {"tasks", "taskError"}
DestroyedClean ==
    Destroyed => ~handle /\ ~socketEvent /\ armed = {} /\ timers = 0 /\ status = "inactive"

\* A frame of which a part was reported is reported to its end before the
\* worker thread waits for events again: the rest would be in curl's buffer,
\* where libevent does not see it.
MultipartReported == loc = "events" => ~begun

\* Every message written is answered, unless the client is destroyed ...
EveryWriteAnswered == \A n \in 1 .. MaxWrites : mine = n ~> (mine # n \/ ~alive)

\* ... if the socket is never readable while it is not writable.
WriteAnswered == \A n \in 1 .. MaxWrites : mine = n /\ ~slow ~> (mine # n \/ ~alive)
=============================================================================
