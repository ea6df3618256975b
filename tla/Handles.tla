------------------------------- MODULE Handles -------------------------------
(***************************************************************************)
(* Who owns what (src/src/thread.cpp, src/include/webthread/): thread      *)
(* objects, clients (rest_client, websocket) and requests hold references  *)
(* to the worker; clients, requests and queued tasks hold references to    *)
(* connections.  A connection is destroyed with its last reference, by     *)
(* whoever drops it; so is the worker, which then stops and joins its      *)
(* thread.                                                                 *)
(*                                                                         *)
(* The critical sections of m_tasksQueue are atomic here (module Worker).  *)
(* A client here may be reconnected as a websocket and build requests as a *)
(* rest_client: it may do more than either.                                *)
(*                                                                         *)
(* How they may be used: a handle by one thread at a time; a request is    *)
(* performed before its client is destroyed, moved or assigned to, and     *)
(* built when the last one was sent; reconnect() with no task waiting; a   *)
(* client destroyed in a callback is outlived by a thread object.          *)
(***************************************************************************)
EXTENDS Naturals, Sequences

CONSTANTS
    MaxClients,     \* bound: client objects at a time
    MaxThreads,     \* bound: thread objects at a time
    MaxConnections, \* bound: connections made
    MaxTasks,       \* bound: tasks when a client calls, its destructor aside
    MoveAssign      \* a client that has a connection may be assigned to

ASSUME BoundsAssumption == MaxThreads \in Nat \ {0} /\ MaxConnections \in Nat
                            /\ MaxClients \in Nat /\ MaxTasks \in Nat
ASSUME FlagAssumption == MoveAssign \in BOOLEAN

Clients == 1 .. MaxClients
Connections == 1 .. MaxConnections
null == 0

VARIABLES
    \* The handles.
    threads,        \* thread objects that hold the worker
    made,           \* connections made so far
    client,         \* the clients: their members, and their thread's place in a call
    request,        \* a rest_request: its members
    \* The worker and its thread.
    queue, batch,   \* m_tasksQueue, and the tasks being handled
    next,           \* the first task of batch not handled yet
    registered,     \* connections whose m_handle is set
    loc,            \* the worker thread's place in its loop
    draining,       \* its last walk over the tasks
    stop,           \* the thread that is in ~worker, which sets the stop token
    freed           \* ~worker is over

handleVars == <<threads, made, client, request>>
workVars   == <<batch, next, registered, loc, draining, freed>>
vars == <<handleVars, queue, workVars, stop>>

Gone  == [step |-> "gone", worker |-> FALSE, connection |-> null, by |-> "user", of |-> {}]
Empty == [Gone EXCEPT !.step = "idle"]

Holders == {client[h] : h \in Clients} \cup {request}

Tasks == queue \o batch
MayCall    == Len(Tasks) < MaxTasks
HasTask(c) == \E i \in 1 .. Len(Tasks) : Tasks[i].connection = c
Held(c)    == \E holder \in Holders : holder.connection = c
Referenced(c) == Held(c) \/ HasTask(c)

Init ==
    /\ threads = 1 /\ made = 0 /\ client = [h \in Clients |-> Gone] /\ request = Gone
    /\ queue = <<>> /\ batch = <<>> /\ next = 1 /\ registered = {}
    /\ loc = "loop" /\ draining = FALSE /\ stop = "none" /\ freed = FALSE

T(action, c) == [action |-> action, connection |-> c]
Push(action, c) == queue' = Append(queue, T(action, c))

\* A thread that drops the last reference to the worker enters ~worker.
Nobody(count, holders) == count = 0 /\ \A holder \in holders : ~holder.worker
StopIfLast(count, holders, by) == stop' = IF Nobody(count, holders) THEN by ELSE "none"

\* A client that is not in a call, nor has a request.
Idle(h) == client[h].step = "idle" /\ h \notin request.of
Live(h) == Idle(h) /\ client[h].connection # null

\* The worker thread waits for its callbacks, and for itself if one of them
\* enters ~worker.
InCallback == \E holder \in Holders : holder.step \notin {"gone", "idle"} /\ holder.by = "worker"

At(place) == loc = place /\ ~InCallback /\ stop # "worker"

-----------------------------------------------------------------------------
(* Thread objects.                                                         *)

\* The copy constructor; a thread that is moved from holds nothing.
CopyThread ==
    /\ threads \in 1 .. MaxThreads - 1
    /\ threads' = threads + 1
    /\ UNCHANGED <<made, client, request, queue, workVars, stop>>

DestroyThread ==
    /\ threads > 1 \/ (threads = 1 /\ ~InCallback)
    /\ threads' = threads - 1
    /\ StopIfLast(threads - 1, Holders, "user")
    /\ UNCHANGED <<made, client, request, queue, workVars>>

-----------------------------------------------------------------------------
(* Clients.                                                                *)

\* A client without a connection.
Default(h) ==
    /\ client[h] = Gone
    /\ client' = [client EXCEPT ![h] = Empty]
    /\ UNCHANGED <<threads, made, request, queue, workVars, stop>>

\* A client for a thread object makes a connection and adds it.
Construct(h) ==
    /\ MayCall /\ client[h] = Gone /\ threads > 0 /\ made < MaxConnections
    /\ made' = made + 1
    /\ client' = [client EXCEPT ![h] = [Empty EXCEPT !.worker = TRUE, !.connection = made']]
    /\ Push("add", made')
    /\ UNCHANGED <<threads, request, workVars, stop>>

\* The move constructor leaves the source without members.
MoveConstruct(from, h) ==
    /\ Idle(from) /\ client[h] = Gone
    /\ client' = [client EXCEPT ![h] = client[from], ![from] = Empty]
    /\ UNCHANGED <<threads, made, request, queue, workVars, stop>>

\* The defaulted move assignment: member by member, and what the client had is
\* dropped without more.  m_worker goes first: where it was the last reference,
\* the assignment enters ~worker.
AssignFrom(from, h) ==
    /\ Idle(from) /\ Idle(h) /\ from # h
    /\ MoveAssign \/ client[h].connection = null
    /\ client' = [client EXCEPT ![h] = client[from], ![from] = Empty]
    /\ IF client[h].worker
       THEN StopIfLast(threads, {client'[g] : g \in Clients} \cup {request}, "user")
       ELSE UNCHANGED stop
    /\ UNCHANGED <<threads, made, request, queue, workVars>>

\* websocket::reconnect, in two critical sections.
reconnect(h) ==
    /\ MayCall /\ Live(h) /\ ~HasTask(client[h].connection)
    /\ Push("remove", client[h].connection)
    /\ client' = [client EXCEPT ![h].step = "reconnect"]
    /\ UNCHANGED <<threads, made, request, workVars, stop>>

add_connection(h) ==
    /\ client[h].step = "reconnect"
    /\ Push("add", client[h].connection)
    /\ client' = [client EXCEPT ![h].step = "idle"]
    /\ UNCHANGED <<threads, made, request, workVars, stop>>

\* Mutant of remove_connection: the destructor leaves the connection to the queue.
RemoveNothing(h, by) ==
    /\ Live(h) /\ (by = "worker" => threads > 0)
    /\ client' = [client EXCEPT ![h].step = "members", ![h].by = by]
    /\ UNCHANGED <<threads, made, request, queue, workVars, stop>>

\* The destructor of a client, on a thread of the user's or in a callback ...
remove_connection(h, by) ==
    /\ Live(h) /\ (by = "worker" => threads > 0)
    /\ Push("remove", client[h].connection)
    /\ client' = [client EXCEPT ![h].step = "members", ![h].by = by]
    /\ UNCHANGED <<threads, made, request, workVars, stop>>

DestroyEmpty(h) ==
    /\ client[h] = Empty
    /\ client' = [client EXCEPT ![h] = Gone]
    /\ UNCHANGED <<threads, made, request, queue, workVars, stop>>

\* Mutant of Without: m_worker goes first.
WithoutWorkerFirst(holder) ==
    IF holder.worker THEN [holder EXCEPT !.worker = FALSE] ELSE Gone

\* What a client is without the next of its members: m_connection
\* is declared last and goes first.
Without(holder) ==
    IF holder.connection # null THEN [holder EXCEPT !.connection = null] ELSE Gone

\* ... and of its members, one after the other.
DropMember(h) ==
    /\ client[h].step = "members"
    /\ client' = [client EXCEPT ![h] = Without(client[h])]
    /\ StopIfLast(threads, {client'[g] : g \in Clients} \cup {request}, client[h].by)
    /\ UNCHANGED <<threads, made, request, queue, workVars>>

-----------------------------------------------------------------------------
(* Requests.                                                               *)

BuildRequest(h) ==
    /\ MayCall /\ request = Gone /\ Live(h)
    /\ \A i \in 1 .. Len(Tasks) : Tasks[i] # T("send", client[h].connection)
    /\ request' = [client[h] EXCEPT !.of = {h}]
    /\ UNCHANGED <<threads, made, client, queue, workVars, stop>>

\* rest_request::perform pushes the send and resets its members, neither of which
\* is the last reference: the client holds both.
perform ==
    /\ request # Gone
    /\ Push("send", request.connection)
    /\ request' = Gone
    /\ UNCHANGED <<threads, made, client, workVars, stop>>

Calling == \E h \in Clients : add_connection(h) \/ DropMember(h)

User ==
    \/ CopyThread \/ DestroyThread \/ Calling \/ perform
    \/ \E h \in Clients : \/ Default(h) \/ DestroyEmpty(h) \/ BuildRequest(h) \/ Construct(h)
                          \/ reconnect(h)
                          \/ \E from \in Clients : MoveConstruct(from, h) \/ AssignFrom(from, h)
    \/ \E by \in {"user", "worker"} :
           /\ by = "worker" => At("loop") \/ At("tasks")
           /\ \E h \in Clients : remove_connection(h, by)

-----------------------------------------------------------------------------
(* The worker thread.                                                      *)

\* One round of busy_loop, or the walk after it: whether the token is set is read
\* with the swap here (module Worker takes the two apart).
swap_task_queue ==
    /\ At("loop")
    /\ draining' = (stop # "none")
    /\ batch' = queue /\ queue' = batch
    /\ loc' = "tasks"
    /\ UNCHANGED <<handleVars, next, registered, stop, freed>>

\* An add registers the connection, unless curl refuses; a send may fail.
handle_task ==
    /\ At("tasks") /\ next <= Len(batch)
    /\ LET c == batch[next].connection
       IN  CASE batch[next].action = "add"    -> registered' \in {registered, registered \cup {c}}
             [] batch[next].action = "send"   -> registered' \in {registered, registered \ {c}}
             [] batch[next].action = "remove" -> registered' = registered \ {c}
    /\ next' = next + 1
    /\ UNCHANGED <<handleVars, queue, batch, loc, draining, stop, freed>>

\* An error takes a connection's m_handle.
deactivate(c) ==
    /\ At("loop") /\ c \in registered
    /\ registered' = registered \ {c}
    /\ UNCHANGED <<handleVars, queue, batch, next, loc, draining, stop, freed>>

\* Mutant of clear_task_queue: the tasks keep their references.
KeepTasks ==
    /\ At("tasks") /\ next > Len(batch)
    /\ next' = 1
    /\ loc' = IF draining THEN "ended" ELSE "loop"
    /\ UNCHANGED <<handleVars, queue, batch, registered, draining, stop, freed>>

\* The tasks' references are dropped, all at once.
clear_task_queue ==
    /\ At("tasks") /\ next > Len(batch)
    /\ batch' = <<>> /\ next' = 1
    /\ loc' = IF draining THEN "ended" ELSE "loop"
    /\ UNCHANGED <<handleVars, queue, registered, draining, stop, freed>>

\* Whoever is in ~worker has joined the thread.
Joined ==
    /\ stop = "user" /\ loc = "ended" /\ ~freed
    /\ freed' = TRUE
    /\ UNCHANGED <<handleVars, queue, batch, next, registered, loc, draining, stop>>

WorkerThread == swap_task_queue \/ handle_task \/ clear_task_queue

Terminated == freed /\ UNCHANGED vars

Next == \/ User \/ WorkerThread \/ Joined \/ Terminated
        \/ \E c \in Connections : deactivate(c)

Spec == Init /\ [][Next]_vars

\* The worker thread goes round, a call that was begun goes on, and whoever waits
\* for the thread sees it end.
FairSpec == Spec /\ WF_vars(WorkerThread) /\ WF_vars(Calling) /\ WF_vars(Joined)

-----------------------------------------------------------------------------
(* Properties.                                                             *)

\* A connection is destroyed when curl has nothing of it any more (asserts of
\* ~rest_connection and ~websocket_connection, of which curl and libevent hold
\* plain pointers).
ConnectionReleased == \A c \in registered : Referenced(c)

\* Whatever was moved, assigned, reconnected or destroyed: a connection that is
\* registered, or will be when its tasks are handled, has a client that will
\* remove it, or a remove that follows.
ToDo == SubSeq(batch, next, Len(batch)) \o queue
EndsRegistered(c) ==
    \E i \in 0 .. Len(ToDo) :
        /\ IF i = 0 THEN c \in registered ELSE ToDo[i] = T("add", c)
        /\ \A j \in i + 1 .. Len(ToDo) : ToDo[j] # T("remove", c)
RegisteredIsOwned ==
    \A c \in Connections :
        EndsRegistered(c) =>
            \E h \in Clients : client[h].connection = c /\ client[h].worker
                               /\ client[h].step # "members"

\* Every connection is destroyed before the worker, whose buffer a WebSocket has a
\* plain pointer to, and whose event context the handles are registered with.
WorkerOutlives ==
    /\ loc = "ended" => registered = {} /\ queue = <<>>
    /\ freed => \A c \in Connections : ~Referenced(c)

\* Clients are made a bounded number of times, and so in the end: no connection
\* lives on in tasks alone, although the worker goes on; and a worker that nobody
\* holds is destroyed, whichever thread let go of it last.
AllDestroyed ==
    []<>(/\ \A c \in Connections : Referenced(c) => Held(c)
         /\ Nobody(threads, Holders) => freed)
=============================================================================
