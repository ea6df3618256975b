------------------------------- MODULE Worker -------------------------------
(***************************************************************************)
(* thread::worker (src/src/thread.cpp): client threads push tasks into a   *)
(* vector under a spin lock, one worker thread swaps the vector out and    *)
(* handles the tasks, and the client that drops the last reference stops   *)
(* and joins that thread.                                                  *)
(*                                                                         *)
(* A read and a write of m_tasksQueue are separate steps, so that only the *)
(* spin lock makes an update atomic.  Listener callbacks run on the worker *)
(* thread and may push tasks of their own through the client object they   *)
(* serve.  A client object is used by one thread at a time, and is         *)
(* destroyed by its own thread.                                            *)
(***************************************************************************)
EXTENDS Naturals, Sequences

CONSTANTS
    Clients,    \* rest_client / websocket objects, and the thread object
    Worker,     \* the worker thread
    MaxCalls    \* bound: calls one client makes between its add and remove

ASSUME WorkerAssumption == Worker \notin Clients
ASSUME MaxCallsAssumption == MaxCalls \in Nat

Procs  == Clients \cup {Worker}
Action == {"add", "send", "remove"}
Task   == [connection : Clients, action : Action]

VARIABLES
    flag,           \* spin_lock::m_atomicFlag
    tasksQueue,     \* worker::m_tasksQueue
    taskQueue,      \* the vector local to thread_handler
    next,           \* the position of the range-for over taskQueue
    stop,           \* the stop token
    draining,       \* the worker thread has left busy_loop
    phase,          \* where the worker thread is in busy_loop
    pc,             \* each thread's place in a critical section or ~worker
    op,             \* what that critical section is for
    todo,           \* the tasks a thread's current call still has to push
    seen,           \* what a thread has read of m_tasksQueue
    life,           \* the life of each client object
    calls,          \* calls made by each client, for MaxCalls
    registered,     \* connections whose last handled task is not a remove
    submitted,      \* history: every task pushed
    handled         \* history: every task handled

lockVars   == <<flag, pc, op, todo, seen>>
loopVars   == <<taskQueue, next, draining, phase, registered, handled>>
clientVars == <<life, calls>>
vars == <<flag, tasksQueue, taskQueue, next, stop, draining, phase, pc, op,
          todo, seen, life, calls, registered, submitted, handled>>

Phases == {"check", "events", "swap", "handle", "timers", "ended"}
Places == {"idle", "acquire", "read", "write", "release", "stop", "join", "gone"}
Lives  == {"fresh", "added", "removed", "released"}

TypeOK ==
    /\ flag \in BOOLEAN
    /\ tasksQueue \in Seq(Task)
    /\ taskQueue \in Seq(Task)
    /\ next \in 1 .. Len(taskQueue) + 1
    /\ stop \in BOOLEAN
    /\ draining \in BOOLEAN
    /\ phase \in Phases
    /\ pc \in [Procs -> Places]
    /\ op \in [Procs -> {"push", "swap", "inspect"}]
    /\ todo \in [Procs -> Seq(Task)]
    /\ seen \in [Procs -> Seq(Task)]
    /\ life \in [Clients -> Lives]
    /\ calls \in [Clients -> Nat]
    /\ registered \subseteq Clients
    /\ submitted \in Seq(Task)
    /\ handled \in Seq(Task)

Init ==
    /\ flag = FALSE
    /\ tasksQueue = <<>>
    /\ taskQueue = <<>>
    /\ next = 1
    /\ stop = FALSE
    /\ draining = FALSE
    /\ phase = "check"
    /\ pc = [p \in Procs |-> "idle"]
    /\ op = [p \in Procs |-> "push"]
    /\ todo = [p \in Procs |-> <<>>]
    /\ seen = [p \in Procs |-> <<>>]
    /\ life = [c \in Clients |-> "fresh"]
    /\ calls = [c \in Clients |-> 0]
    /\ registered = {}
    /\ submitted = <<>>
    /\ handled = <<>>

-----------------------------------------------------------------------------
(* Critical sections: every use of m_tasksQueueLock.                       *)

\* A call on client c is under way on some thread.
InUse(c) == \/ pc[c] # "idle"
            \/ /\ pc[Worker] # "idle"
               /\ op[Worker] = "push"
               /\ todo[Worker][1].connection = c

\* Thread p starts a call that pushes the tasks ts one after the other.
Call(p, ts) ==
    /\ pc[p] = "idle"
    /\ pc' = [pc EXCEPT ![p] = "acquire"]
    /\ op' = [op EXCEPT ![p] = "push"]
    /\ todo' = [todo EXCEPT ![p] = ts]
    /\ UNCHANGED <<flag, seen, tasksQueue, stop, submitted>>

\* Mutant of lock: the result of test_and_set is ignored.
LockIgnored(p) ==
    /\ pc[p] = "acquire"
    /\ flag' = TRUE
    /\ pc' = [pc EXCEPT ![p] = "read"]
    /\ UNCHANGED <<op, todo, seen, tasksQueue, stop, submitted>>
    /\ UNCHANGED <<loopVars, clientVars>>

\* spin_lock::lock: a failed test_and_set spins.
lock(p) ==
    /\ pc[p] = "acquire"
    /\ flag = FALSE
    /\ flag' = TRUE
    /\ pc' = [pc EXCEPT ![p] = "read"]
    /\ UNCHANGED <<op, todo, seen, tasksQueue, stop, submitted>>
    /\ UNCHANGED <<loopVars, clientVars>>

\* The guarded statement reads the vector ...
ReadQueue(p) ==
    /\ pc[p] = "read"
    /\ seen' = [seen EXCEPT ![p] = tasksQueue]
    /\ pc' = [pc EXCEPT ![p] = "write"]
    /\ UNCHANGED <<flag, op, todo, tasksQueue, stop, submitted>>
    /\ UNCHANGED <<loopVars, clientVars>>

\* ... and add_connection, enqueue_request and remove_connection append.
emplace_back(p) ==
    /\ pc[p] = "write"
    /\ op[p] = "push"
    /\ tasksQueue' = Append(seen[p], Head(todo[p]))
    /\ submitted' = Append(submitted, Head(todo[p]))
    /\ pc' = [pc EXCEPT ![p] = "release"]
    /\ UNCHANGED <<flag, op, todo, seen, stop>>
    /\ UNCHANGED <<loopVars, clientVars>>

\* Mutant of swap_task_queue: the last swap throws the queue away.
SwapDropsQueue ==
    /\ pc[Worker] = "write"
    /\ op[Worker] = "swap"
    /\ tasksQueue' = <<>>
    /\ taskQueue' = IF draining THEN <<>> ELSE seen[Worker]
    /\ pc' = [pc EXCEPT ![Worker] = "release"]
    /\ UNCHANGED <<flag, op, todo, seen, stop, submitted>>
    /\ UNCHANGED <<next, draining, phase, registered, handled, clientVars>>

\* swap_task_queue exchanges the two vectors.
swap_task_queue ==
    /\ pc[Worker] = "write"
    /\ op[Worker] = "swap"
    /\ tasksQueue' = taskQueue
    /\ taskQueue' = seen[Worker]
    /\ pc' = [pc EXCEPT ![Worker] = "release"]
    /\ UNCHANGED <<flag, op, todo, seen, stop, submitted>>
    /\ UNCHANGED <<next, draining, phase, registered, handled, clientVars>>

\* ~worker only looks at the vector, to assert that it is empty.
InspectQueue(c) ==
    /\ pc[c] = "write"
    /\ op[c] = "inspect"
    /\ pc' = [pc EXCEPT ![c] = "release"]
    /\ UNCHANGED <<flag, op, todo, seen, tasksQueue, stop, submitted>>
    /\ UNCHANGED <<loopVars, clientVars>>

\* spin_lock::unlock; then the second push of reconnect(), the walk over the
\* swapped vector, or the end of the call.
unlock(p) ==
    /\ pc[p] = "release"
    /\ flag' = FALSE
    /\ pc' = [pc EXCEPT ![p] =
                IF op[p] = "push" /\ Len(todo[p]) > 1 THEN "acquire"
                ELSE IF op[p] = "inspect" THEN "gone" ELSE "idle"]
    /\ todo' = [todo EXCEPT ![p] = IF op[p] = "push" THEN Tail(@) ELSE @]
    /\ seen' = [seen EXCEPT ![p] = <<>>]
    /\ phase' = IF op[p] = "swap" THEN "handle" ELSE phase
    /\ UNCHANGED <<op, tasksQueue, stop, submitted, clientVars>>
    /\ UNCHANGED <<taskQueue, next, draining, registered, handled>>

-----------------------------------------------------------------------------
(* Client calls, made by the client's own thread or by a listener callback *)
(* on the worker thread.                                                   *)

T(c, a) == [connection |-> c, action |-> a]

\* The constructors of rest_client and websocket.
Construct(c) ==
    /\ life[c] = "fresh"
    /\ Call(c, <<T(c, "add")>>)
    /\ life' = [life EXCEPT ![c] = "added"]
    /\ UNCHANGED <<calls, loopVars>>

\* rest_request::perform and websocket::write, or websocket::reconnect.
Request(p, c) ==
    /\ life[c] = "added"
    /\ ~InUse(c)
    /\ calls[c] < MaxCalls
    /\ \E ts \in {<<T(c, "send")>>, <<T(c, "remove"), T(c, "add")>>} : Call(p, ts)
    /\ calls' = [calls EXCEPT ![c] = @ + 1]
    /\ UNCHANGED <<life, loopVars>>

\* The destructors of rest_client and websocket: the body ...
Destruct(c) ==
    /\ life[c] = "added"
    /\ ~InUse(c)
    /\ Call(c, <<T(c, "remove")>>)
    /\ life' = [life EXCEPT ![c] = "removed"]
    /\ UNCHANGED <<calls, loopVars>>

\* Mutant of DropReference: whoever drops a reference runs ~worker.
StopEarly(c) ==
    /\ life' = [life EXCEPT ![c] = "released"]
    /\ pc' = [pc EXCEPT ![c] = "stop"]
    /\ UNCHANGED <<flag, op, todo, seen, tasksQueue, stop, submitted, calls, loopVars>>

\* Dropping a reference to the worker; whoever drops the last runs ~worker.
DropReference(c) ==
    /\ life' = [life EXCEPT ![c] = "released"]
    /\ pc' = [pc EXCEPT ![c] =
                IF \A d \in Clients \ {c} : life[d] = "released" THEN "stop" ELSE "idle"]
    /\ UNCHANGED <<flag, op, todo, seen, tasksQueue, stop, submitted, calls, loopVars>>

\* Mutant of ReleaseHandle: a client may go without removing its connection.
ReleaseUnremoved(c) ==
    /\ life[c] # "released"
    /\ ~InUse(c)
    /\ DropReference(c)

\* ... and then the members: the client's reference to the worker goes.  A
\* thread object, or a default-constructed client, has no connection to remove.
ReleaseHandle(c) ==
    /\ life[c] \in {"fresh", "removed"}
    /\ ~InUse(c)
    /\ DropReference(c)

\* Mutant of request_stop: ~worker takes the lock before it stops and joins.
StopUnderLock(c) ==
    /\ pc[c] = "stop"
    /\ flag = FALSE
    /\ flag' = TRUE
    /\ stop' = TRUE
    /\ pc' = [pc EXCEPT ![c] = "join"]
    /\ UNCHANGED <<op, todo, seen, tasksQueue, submitted, loopVars, clientVars>>

\* ~worker: request_stop, join, then look at the queue under the lock.
request_stop(c) ==
    /\ pc[c] = "stop"
    /\ stop' = TRUE
    /\ pc' = [pc EXCEPT ![c] = "join"]
    /\ UNCHANGED <<flag, op, todo, seen, tasksQueue, submitted, loopVars, clientVars>>

join(c) ==
    /\ pc[c] = "join"
    /\ phase = "ended"
    /\ pc' = [pc EXCEPT ![c] = "acquire"]
    /\ op' = [op EXCEPT ![c] = "inspect"]
    /\ UNCHANGED <<flag, todo, seen, tasksQueue, stop, submitted, loopVars, clientVars>>

-----------------------------------------------------------------------------
(* The worker thread.                                                      *)

WorkerIdle(ph) == phase = ph /\ pc[Worker] = "idle"

\* Mutant of busy_loop: the thread ends without the last handle_task_queue.
StopSkipsDrain ==
    /\ WorkerIdle("check")
    /\ draining' = stop
    /\ phase' = IF stop THEN "ended" ELSE "events"
    /\ UNCHANGED <<taskQueue, next, registered, handled>>
    /\ UNCHANGED <<lockVars, tasksQueue, stop, submitted, clientVars>>

\* busy_loop tests the stop token; once it is set, thread_handler handles the
\* queue a last time.
busy_loop ==
    /\ WorkerIdle("check")
    /\ draining' = stop
    /\ phase' = IF stop THEN "swap" ELSE "events"
    /\ UNCHANGED <<taskQueue, next, registered, handled>>
    /\ UNCHANGED <<lockVars, tasksQueue, stop, submitted, clientVars>>

\* handle_events and handle_timer_queue return.
LeaveEvents ==
    /\ WorkerIdle("events")
    /\ phase' = "swap"
    /\ UNCHANGED <<taskQueue, next, draining, registered, handled>>
    /\ UNCHANGED <<lockVars, tasksQueue, stop, submitted, clientVars>>

LeaveTimers ==
    /\ WorkerIdle("timers")
    /\ phase' = "check"
    /\ UNCHANGED <<taskQueue, next, draining, registered, handled>>
    /\ UNCHANGED <<lockVars, tasksQueue, stop, submitted, clientVars>>

\* handle_task_queue starts with swap_task_queue.
StartSwap ==
    /\ WorkerIdle("swap")
    /\ pc' = [pc EXCEPT ![Worker] = "acquire"]
    /\ op' = [op EXCEPT ![Worker] = "swap"]
    /\ UNCHANGED <<flag, todo, seen, tasksQueue, stop, submitted, loopVars, clientVars>>

\* One turn of its loop: register_handle, send_message or unregister_handle.
HandleTask ==
    /\ WorkerIdle("handle")
    /\ next <= Len(taskQueue)
    /\ LET t == taskQueue[next] IN
        /\ handled' = Append(handled, t)
        /\ registered' = CASE t.action = "add"    -> registered \cup {t.connection}
                           [] t.action = "remove" -> registered \ {t.connection}
                           [] t.action = "send"   -> registered
    /\ next' = next + 1
    /\ UNCHANGED <<taskQueue, draining, phase>>
    /\ UNCHANGED <<lockVars, tasksQueue, stop, submitted, clientVars>>

\* Mutant of ClearTaskQueue: the position is not reset for the next walk.
ClearKeepsPosition ==
    /\ WorkerIdle("handle")
    /\ next > Len(taskQueue)
    /\ taskQueue' = <<>>
    /\ phase' = IF draining THEN "ended" ELSE "timers"
    /\ UNCHANGED <<next, draining, registered, handled>>
    /\ UNCHANGED <<lockVars, tasksQueue, stop, submitted, clientVars>>

\* After the last task the vector is cleared.
ClearTaskQueue ==
    /\ WorkerIdle("handle")
    /\ next > Len(taskQueue)
    /\ taskQueue' = <<>>
    /\ next' = 1
    /\ phase' = IF draining THEN "ended" ELSE "timers"
    /\ UNCHANGED <<draining, registered, handled>>
    /\ UNCHANGED <<lockVars, tasksQueue, stop, submitted, clientVars>>

\* A listener callback uses the client it serves: a registered connection's in
\* handle_events and handle_timer_queue, the task's own in handle_task_queue.
Callback(c) ==
    /\ \/ phase \in {"events", "timers"} /\ c \in registered
       \/ phase = "handle" /\ next > 1 /\ c = taskQueue[next - 1].connection
    /\ Request(Worker, c)

WorkerStep ==
    \/ busy_loop \/ LeaveEvents \/ LeaveTimers
    \/ StartSwap \/ HandleTask \/ ClearTaskQueue \/ swap_task_queue
    \/ lock(Worker) \/ ReadQueue(Worker) \/ emplace_back(Worker) \/ unlock(Worker)

ClientStep(c) ==
    \/ lock(c) \/ ReadQueue(c) \/ emplace_back(c) \/ InspectQueue(c) \/ unlock(c)
    \/ request_stop(c) \/ join(c)

ClientCall(c) ==
    \/ Construct(c) \/ Request(c, c) \/ Destruct(c) \/ ReleaseHandle(c)

\* After ~worker has returned nothing is left to happen.
Finished == \E c \in Clients : pc[c] = "gone"
Terminated == Finished /\ UNCHANGED vars

Next == \/ WorkerStep
        \/ \E c \in Clients : ClientStep(c) \/ ClientCall(c) \/ Callback(c)
        \/ Terminated

Spec == Init /\ [][Next]_vars

\* The scheduler runs every thread; a client need not make a call, but a call
\* once started runs on.  Nothing stronger is assumed of the spin lock.
Fairness == /\ WF_vars(WorkerStep)
            /\ \A c \in Clients : WF_vars(ClientStep(c))

FairSpec == Spec /\ Fairness

-----------------------------------------------------------------------------
(* Properties.                                                             *)

InSection(p) == pc[p] \in {"read", "write", "release"}
Busy(p) == pc[p] = "acquire" \/ InSection(p)

\* Client c has joined the thread in ~worker.
Inspecting(c) == (Busy(c) /\ op[c] = "inspect") \/ pc[c] = "gone"

\* The spin lock admits one thread at a time to m_tasksQueue, so a vector is
\* never resized under another thread's emplace_back or swap.
MutualExclusion ==
    \A p, q \in Procs : p # q => ~(InSection(p) /\ InSection(q))

\* What the worker has still to handle, oldest first.
Remaining == SubSeq(taskQueue, next, Len(taskQueue))

\* No task is lost, duplicated or reordered between the push of a client and
\* the call of its connection's handler, whoever pushes meanwhile.
HandledInOrder == handled \o Remaining \o tasksQueue = submitted

\* When ~worker has joined the thread nothing is queued (assert of ~worker) and
\* nothing was left unhandled.
NothingLeftAfterJoin ==
    (\E c \in Clients : Inspecting(c)) => tasksQueue = <<>> /\ handled = submitted

\* When the thread frees its event context no connection is registered in it
\* any more: each one's removal was handled.
NothingRegisteredAtExit == phase = "ended" => registered = {}

\* No client pushes once the stop token is set (asserts of add_connection,
\* enqueue_request and remove_connection).
NoPushAfterStop == [][stop => UNCHANGED submitted]_vars

\* Dropping the last reference ends: the thread stops, join returns and ~worker
\* completes.
ShutdownCompletes == (\A c \in Clients : life[c] = "released") ~> Finished

-----------------------------------------------------------------------------
(* The inductive invariant behind the safety properties.                   *)

\* Threads hold the lock one at a time, and only while the flag is set.
LockInv ==
    /\ MutualExclusion
    /\ \A p \in Procs : InSection(p) => flag

\* What a thread has read of the queue is still current when it writes.
SeenInv == \A p \in Procs : pc[p] = "write" => seen[p] = tasksQueue

\* What each thread may be doing inside or on its way to a critical section.
OpInv ==
    /\ \A p \in Procs : Busy(p) /\ op[p] = "push" => todo[p] # <<>>
    /\ \A p \in Procs : Busy(p) /\ op[p] = "swap" => p = Worker /\ phase = "swap"
    /\ \A p \in Procs : Busy(p) /\ op[p] = "inspect" => p \in Clients
    /\ pc[Worker] \in {"idle", "acquire", "read", "write", "release"}

\* A callback pushes for one client, which is not destroyed meanwhile.
CallbackInv ==
    pc[Worker] # "idle" /\ op[Worker] = "push" =>
        \E c \in Clients : /\ life[c] = "added"
                          /\ \A i \in 1 .. Len(todo[Worker]) :
                                todo[Worker][i].connection = c

\* The swapped vector holds tasks only from the swap to its clear.
Swapped == phase = "handle" \/ (op[Worker] = "swap" /\ pc[Worker] = "release")
WalkInv == /\ ~Swapped => taskQueue = <<>>
           /\ phase # "handle" => next = 1

\* The stop token is set when no client is left, and then nobody pushes.
Quit == \A c \in Clients : life[c] = "released"
StopInv ==
    /\ \A c \in Clients : life[c] = "released" => ~(Busy(c) /\ op[c] = "push")
    /\ \A c \in Clients : pc[c] \in {"stop", "join"} \/ Inspecting(c) => Quit
    /\ stop => Quit
    /\ draining => stop
    /\ draining /\ Swapped => tasksQueue = <<>>
    /\ phase = "ended" => draining /\ tasksQueue = <<>> /\ pc[Worker] = "idle"
    /\ \A c \in Clients : Inspecting(c) => phase = "ended"

IInv == /\ TypeOK
        /\ LockInv
        /\ SeenInv
        /\ OpInv
        /\ CallbackInv
        /\ WalkInv
        /\ StopInv
        /\ HandledInOrder

\* The worker implements the abstract queue of tasks.
Fifo == INSTANCE TaskFifo WITH
    pending <- Remaining \o tasksQueue,
    mode <- IF Finished THEN "destroyed" ELSE IF stop THEN "stopping" ELSE "open"

ImplementsTaskFifo == Fifo!FairSpec
=============================================================================
