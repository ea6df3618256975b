---------------------------- MODULE TimerTaskList ----------------------------
(***************************************************************************)
(* thread::timer_queue (src/src/thread.cpp) as it is built: nodes in a     *)
(* deque, linked into a priority list and a free list, and the worker      *)
(* thread's use of it for the ticks of the WebSocket sessions.             *)
(*                                                                         *)
(* A node is its position in the deque and 0 is nullptr.  Each operation   *)
(* is atomic: only the worker thread uses the queue.  The clock is         *)
(* system_clock, which may be set back.                                    *)
(***************************************************************************)
EXTENDS Naturals, Sequences

CONSTANTS
    Connections,
    NoConnection,       \* nullptr
    TickTimeout,        \* each connection's tick_timeout
    InitialCapacity,    \* initial_connections_capacity
    MaxTime             \* bound: the clock's last value

ASSUME TickAssumption ==
    /\ NoConnection \notin Connections
    /\ TickTimeout \in [Connections -> Nat \ {0}]
ASSUME BoundsAssumption == InitialCapacity \in Nat /\ MaxTime \in Nat \ {0}

null == 0

VARIABLES
    allTasks,           \* m_allTasks
    priorityTaskList,   \* m_priorityTaskList
    freeTaskList,       \* m_freeTaskList
    now,                \* the clock
    session,            \* each connection's session
    phase,              \* the worker thread is in handle_timer_queue or not
    ticking,            \* the connection popped and not yet ticked
    ticked              \* history: when the session began or last ticked

listVars == <<allTasks, priorityTaskList, freeTaskList>>
vars == <<listVars, now, session, phase, ticking, ticked>>

Node  == 1 .. Len(allTasks)
NoTask == [next |-> null, expirationTime |-> 0, connection |-> NoConnection]

TypeOK ==
    /\ allTasks \in Seq([next : null .. Len(allTasks), expirationTime : Nat,
                         connection : Connections \cup {NoConnection}])
    /\ priorityTaskList \in null .. Len(allTasks)
    /\ freeTaskList \in null .. Len(allTasks)
    /\ now \in 1 .. MaxTime
    /\ session \in [Connections -> {"none", "ready", "inactive"}]
    /\ phase \in {"other", "timers"}
    /\ ticking \in Connections \cup {NoConnection}
    /\ ticked \in [Connections -> 0 .. MaxTime]

\* The constructor links the initial nodes into the free list.
Init ==
    /\ allTasks = [i \in 1 .. InitialCapacity |-> [NoTask EXCEPT !.next = i - 1]]
    /\ priorityTaskList = null
    /\ freeTaskList = InitialCapacity
    /\ now = 1
    /\ session = [c \in Connections |-> "none"]
    /\ phase = "other"
    /\ ticking = NoConnection
    /\ ticked = [c \in Connections |-> 0]

-----------------------------------------------------------------------------
(* The operations of timer_queue.                                          *)

\* The nodes from head on, in the order of their links (of a cycle, one more
\* than there are nodes).
Links(ts, head) ==
    LET from[k \in 0 .. Len(ts) + 1] ==     \* at most k of them
            [n \in null .. Len(ts) |->
                IF k = 0 \/ n = null THEN <<>> ELSE <<n>> \o from[k - 1][ts[n].next]]
    IN  from[Len(ts) + 1][head]

PriorityList == Links(allTasks, priorityTaskList)
FreeList     == Links(allTasks, freeTaskList)

\* The node after n in the priority list; its head after null.
After(n) == IF n = null THEN priorityTaskList ELSE allTasks[n].next

\* lastPriorityTask when the walk stops before the first of the nodes stops.
LastBefore(stops) ==
    LET list   == PriorityList
        passed == CHOOSE k \in 0 .. Len(list) :
                      /\ \A i \in 1 .. k : list[i] \notin stops
                      /\ k < Len(list) => list[k + 1] \in stops
    IN  IF passed = 0 THEN null ELSE list[passed]

NewAlways == Len(allTasks) + 1      \* mutant of new_task

\* new_task takes a node of the free list, or grows the deque.
new_task == IF freeTaskList = null THEN Len(allTasks) + 1 ELSE freeTaskList

\* Mutant of Later: a new entry overtakes those that expire at the same time.
NotSooner(t, n) == t <= allTasks[n].expirationTime

\* The walk of push stops before node n.
Later(t, n) == t < allTasks[n].expirationTime

push(t, c) ==
    LET last == LastBefore({n \in Node : Later(t, n)})
        task == [next |-> After(last), expirationTime |-> t, connection |-> c]
        grown == IF freeTaskList = null THEN Append(allTasks, task)
                 ELSE [allTasks EXCEPT ![new_task] = task]
    IN  /\ freeTaskList' = IF freeTaskList = null THEN null
                           ELSE allTasks[freeTaskList].next
        /\ IF last = null
           THEN priorityTaskList' = new_task /\ allTasks' = grown
           ELSE /\ allTasks' = [grown EXCEPT ![last].next = new_task]
                /\ UNCHANGED priorityTaskList

\* Node n, cleared, goes to the head of the free list of the nodes ts.
Freed(ts, n) == [ts EXCEPT ![n] = [NoTask EXCEPT !.next = freeTaskList]]

\* Mutant of Unlink: a node behind another is freed but stays linked.
UnlinkHeadOnly(last, n) ==
    /\ priorityTaskList' = IF last = null THEN After(n) ELSE priorityTaskList
    /\ allTasks' = Freed(allTasks, n)
    /\ freeTaskList' = n

\* Node n, which follows last, leaves the priority list.
Unlink(last, n) ==
    /\ freeTaskList' = n
    /\ IF last = null
       THEN priorityTaskList' = After(n) /\ allTasks' = Freed(allTasks, n)
       ELSE /\ allTasks' = [Freed(allTasks, n) EXCEPT ![last].next = After(n)]
            /\ UNCHANGED priorityTaskList

Due == priorityTaskList # null /\ now >= allTasks[priorityTaskList].expirationTime

pop == /\ Due
       /\ Unlink(null, priorityTaskList)

RemoveNothing(c) == UNCHANGED listVars      \* mutant of remove

remove(c) ==
    LET last == LastBefore({n \in Node : allTasks[n].connection = c})
    IN  IF After(last) = null THEN UNCHANGED listVars ELSE Unlink(last, After(last))

-----------------------------------------------------------------------------
(* The worker thread.                                                      *)

\* websocket_connection::on_recv_message starts a session ...
on_recv_message(c) ==
    /\ phase = "other" /\ session[c] = "none"
    /\ session' = [session EXCEPT ![c] = "ready"]
    /\ ticked' = [ticked EXCEPT ![c] = now]
    /\ push(now + TickTimeout[c], c)
    /\ UNCHANGED <<now, phase, ticking>>

\* ... deactivate ends it ...
deactivate(c) ==
    /\ phase = "other" /\ session[c] = "ready"
    /\ session' = [session EXCEPT ![c] = "inactive"]
    /\ UNCHANGED <<listVars, now, phase, ticking, ticked>>

\* ... and unregister_handle forgets it.
unregister_handle(c) ==
    /\ phase = "other" /\ session[c] # "none"
    /\ session' = [session EXCEPT ![c] = "none"]
    /\ remove(c)
    /\ UNCHANGED <<now, phase, ticking, ticked>>

\* handle_timer_queue pops what is due until nothing is.
EnterTimers ==
    /\ phase = "other"
    /\ phase' = "timers"
    /\ UNCHANGED <<listVars, now, session, ticking, ticked>>

PopDue ==
    /\ phase = "timers" /\ ticking = NoConnection
    /\ pop
    /\ ticking' = allTasks[priorityTaskList].connection
    /\ UNCHANGED <<now, session, phase, ticked>>

\* websocket_connection::tick
tick ==
    /\ ticking # NoConnection
    /\ IF session[ticking] = "inactive" THEN UNCHANGED <<listVars, ticked>>
       ELSE /\ push(now + TickTimeout[ticking], ticking)
            /\ ticked' = [ticked EXCEPT ![ticking] = now]
    /\ ticking' = NoConnection
    /\ UNCHANGED <<now, session, phase>>

LeaveTimers ==
    /\ phase = "timers" /\ ticking = NoConnection
    /\ ~Due
    /\ phase' = "other"
    /\ UNCHANGED <<listVars, now, session, ticking, ticked>>

\* The clock, read by every push and pop.
system_clock ==
    /\ now' \in 1 .. MaxTime
    /\ UNCHANGED <<listVars, session, phase, ticking, ticked>>

Next ==
    \/ \E c \in Connections : on_recv_message(c) \/ deactivate(c) \/ unregister_handle(c)
    \/ EnterTimers \/ PopDue \/ tick \/ LeaveTimers
    \/ system_clock

Spec == Init /\ [][Next]_vars

-----------------------------------------------------------------------------
(* Properties.                                                             *)

\* No node is leaked, shared or linked twice: the two lists partition the deque
\* (the destructor's count), and a free node is clean (asserts of push).
NodesConserved ==
    LET free == FreeList
        all  == PriorityList \o free
    IN  /\ Len(all) = Len(allTasks)
        /\ \A i, j \in 1 .. Len(all) : i # j => all[i] # all[j]
        /\ \A i \in 1 .. Len(free) :
              allTasks[free[i]] = [NoTask EXCEPT !.next = allTasks[free[i]].next]

\* The entries of the queue, in the order of the priority list.
QueueEntries ==
    LET list == PriorityList
    IN  [i \in 1 .. Len(list) |->
            [expirationTime |-> allTasks[list[i]].expirationTime,
             connection     |-> allTasks[list[i]].connection]]

\* A session has one entry, or is being ticked; a connection that was
\* unregistered has none, so no pointer to it is left when it is destroyed.
OneEntryPerSession ==
    LET queue == QueueEntries
        EntriesOf(c) == {i \in 1 .. Len(queue) : queue[i].connection = c}
    IN  \A c \in Connections :
            /\ \A i, j \in EntriesOf(c) : i = j
            /\ session[c] = "ready" => (EntriesOf(c) = {} <=> ticking = c)
            /\ session[c] = "none" => EntriesOf(c) = {} /\ ticking # c

\* A session is popped for its tick no sooner than its timeout after it began
\* or ticked last: an old session's entry never counts for a new one, and
\* setting the clock back never brings a tick forward.
NoEarlyTick ==
    [][\A c \in Connections :
          PopDue /\ ticking' = c /\ session[c] = "ready"
              => now >= ticked[c] + TickTimeout[c]]_vars

\* The expiration times, and the times at which the queue is asked for them.
Times == (1 .. MaxTime) \cup {t + TickTimeout[c] : t \in 1 .. MaxTime, c \in Connections}

\* Each operation on the linked lists is that operation of the ordered queue.
Queue == INSTANCE TimerQueue WITH entries <- QueueEntries

ImplementsTimerQueue == Queue!Spec
=============================================================================
