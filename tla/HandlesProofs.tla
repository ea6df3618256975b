---------------------------- MODULE HandlesProofs ----------------------------
(***************************************************************************)
(* Proofs of the ownership of worker and connections (Handles) for any     *)
(* number of clients, thread objects, connections and tasks.  The owner of *)
(* a registered connection needs the contract MoveAssign = FALSE: a client *)
(* that has a connection is not assigned to.                               *)
(***************************************************************************)
EXTENDS Handles, SequenceTheorems, TLAPS

USE BoundsAssumption

Holder == [step : {"gone", "idle", "reconnect", "members"}, worker : BOOLEAN,
           connection : {null} \cup Connections, by : {"user", "worker"}, of : SUBSET Clients]
Task == [action : {"add", "send", "remove"}, connection : Connections]

\* The members of clients and requests, and the tasks, have their types.
HoldersType ==
    /\ client \in [Clients -> Holder]
    /\ request \in Holder
    /\ threads \in Nat
    /\ made \in Nat /\ made <= MaxConnections
WorkType ==
    /\ queue \in Seq(Task)
    /\ batch \in Seq(Task)
    /\ next \in 1 .. Len(batch) + 1
    /\ registered \subseteq Connections
PlaceType ==
    /\ loc \in {"loop", "tasks", "ended"}
    /\ stop \in {"none", "user", "worker"}
    /\ draining \in BOOLEAN
    /\ freed \in BOOLEAN
TypeInv == HoldersType /\ WorkType /\ PlaceType

\* Whoever has a connection has a worker as well: m_worker is declared first,
\* and so is destroyed last.
OwnInv ==
    /\ \A h \in Clients :
          /\ client[h].connection # null => client[h].worker
          /\ client[h].step \in {"reconnect", "members"} => client[h].worker
          /\ client[h].step = "reconnect" => client[h].connection # null
    /\ request # Gone => request.worker /\ request.connection # null

\* Nobody holds the worker.
Unheld == threads = 0 /\ ~request.worker /\ \A h \in Clients : ~client[h].worker

\* Once ~worker is entered nobody holds the worker, and the tasks are handled a
\* last time.
ExitInv ==
    /\ stop # "none" => Unheld
    /\ draining => stop # "none"
    /\ loc # "tasks" => batch = <<>> /\ next = 1
    /\ loc = "tasks" /\ draining => queue = <<>>
    /\ loc = "ended" => queue = <<>> /\ stop # "none" /\ registered = {}
    /\ freed => loc = "ended"

\* The inductive invariant: types, ownership of the worker, the order of the exit
\* and the ownership of every connection that will be registered.
IInv == TypeInv /\ OwnInv /\ ExitInv /\ RegisteredIsOwned

-----------------------------------------------------------------------------
(* What a sequence of tasks leaves registered.                             *)

\* After the tasks s, of the connections in r, connection c is registered.
Ends(s, r, c) ==
    \E i \in 0 .. Len(s) :
        /\ IF i = 0 THEN c \in r ELSE s[i] = T("add", c)
        /\ \A j \in i + 1 .. Len(s) : s[j] # T("remove", c)

\* EndsRegistered is Ends of the tasks that remain.
LEMMA EndsOfToDo == \A c : EndsRegistered(c) <=> Ends(ToDo, registered, c)
  BY DEF EndsRegistered, Ends

\* One more task: an add registers its connection, and every task but a remove
\* leaves a connection registered.
LEMMA EndsPush ==
    ASSUME NEW s \in Seq(Task), NEW t \in Task, NEW r, NEW c,
           Ends(Append(s, t), r, c)
    PROVE  t = T("add", c) \/ (t # T("remove", c) /\ Ends(s, r, c))
  <1> DEFINE n == Len(s)
             u == Append(s, t)
  <1>1. /\ n \in Nat /\ Len(u) = n + 1 /\ u[n + 1] = t
        /\ \A i \in 1 .. n : u[i] = s[i]
    BY AppendProperties, LenProperties
  <1>2. Ends(u, r, c)
    OBVIOUS
  <1> HIDE DEF u, n
  <1>3. PICK i \in 0 .. n + 1 : /\ IF i = 0 THEN c \in r ELSE u[i] = T("add", c)
                                /\ \A j \in i + 1 .. n + 1 : u[j] # T("remove", c)
    BY <1>1, <1>2 DEF Ends
  <1>4. CASE i = n + 1
    BY <1>1, <1>3, <1>4
  <1>5. CASE i # n + 1
    <2>1. i \in 0 .. n /\ n + 1 \in i + 1 .. n + 1 /\ (i # 0 => i \in 1 .. n)
      BY <1>1, <1>5
    <2>2. t # T("remove", c) /\ (IF i = 0 THEN c \in r ELSE s[i] = T("add", c))
      BY <1>1, <1>3, <2>1
    <2>3. \A j \in i + 1 .. n : j \in i + 1 .. n + 1 /\ j \in 1 .. n
      BY <1>1, <2>1
    <2>4. \A j \in i + 1 .. n : s[j] # T("remove", c)
      BY <1>1, <1>3, <2>3
    <2>5. Ends(s, r, c)
      BY <2>1, <2>2, <2>4 DEF Ends, n
    <2> QED BY <2>2, <2>5
  <1> QED BY <1>4, <1>5

\* A connection is registered after the tasks s if it was before, or by one of them.
LEMMA EndsShrink ==
    ASSUME NEW s, NEW r, NEW q, q \subseteq r, NEW c, Ends(s, q, c)
    PROVE  Ends(s, r, c)
  BY DEF Ends

\* Handling the first of the tasks does no more than the task stood for.
LEMMA EndsHandle ==
    ASSUME NEW s \in Seq(Task), NEW t \in Task, NEW r, NEW q, NEW c,
           t.action = "add"    => q \subseteq r \cup {t.connection},
           t.action = "send"   => q \subseteq r,
           t.action = "remove" => q \subseteq r \ {t.connection},
           Ends(s, q, c)
    PROVE  Ends(<<t>> \o s, r, c)
  <1> DEFINE n == Len(s)
             u == <<t>> \o s
  <1>1. n \in Nat /\ Len(u) = n + 1 /\ u[1] = t /\ \A i \in 1 .. n : u[i + 1] = s[i]
    <2>1. <<t>> \in Seq(Task) /\ Len(<<t>>) = 1 /\ <<t>>[1] = t /\ n \in Nat
      BY LenProperties
    <2>2. /\ u \in Seq(Task) /\ Len(u) = 1 + n
          /\ \A i \in 1 .. 1 + n : u[i] = IF i <= 1 THEN <<t>>[i] ELSE s[i - 1]
      BY <2>1, ConcatProperties
    <2> HIDE DEF u, n
    <2>3. /\ 1 \in 1 .. 1 + n /\ 1 <= 1
          /\ \A i \in 1 .. n : i + 1 \in 1 .. 1 + n /\ (i + 1) - 1 = i /\ ~(i + 1 <= 1)
      BY <2>1
    <2>4. u[1] = t /\ \A i \in 1 .. n : u[i + 1] = s[i]
      BY <2>1, <2>2, <2>3
    <2>5. Len(u) = n + 1
      BY <2>1, <2>2
    <2> QED BY <2>1, <2>4, <2>5
  <1>2. Ends(s, q, c)
    OBVIOUS
  <1> HIDE DEF u
  <1>3. PICK i \in 0 .. n : /\ IF i = 0 THEN c \in q ELSE s[i] = T("add", c)
                            /\ \A j \in i + 1 .. n : s[j] # T("remove", c)
    BY <1>2 DEF Ends
  <1> HIDE DEF n
  <1>4. \A j \in (i + 1) + 1 .. n + 1 : u[j] # T("remove", c)
    <2>1. \A j \in (i + 1) + 1 .. n + 1 : j - 1 \in i + 1 .. n /\ j - 1 \in 1 .. n /\ (j - 1) + 1 = j
      BY <1>1, <1>3
    <2> QED BY <1>1, <1>3, <2>1
  <1>5. /\ 0 \in 0 .. n + 1 /\ 1 \in 0 .. n + 1 /\ i + 1 \in 0 .. n + 1
        /\ i + 1 # 0 /\ 1 # 0
    BY <1>1, <1>3
  <1>6. CASE i # 0
    <2>1. i \in 1 .. n
      BY <1>1, <1>3, <1>6
    <2>2. u[i + 1] = T("add", c)
      BY <1>1, <1>3, <1>6, <2>1
    <2> QED BY <1>1, <1>4, <1>5, <2>2 DEF Ends, u
  <1>7. CASE i = 0 /\ t = T("add", c)
    <2>1. \A j \in 1 + 1 .. n + 1 : u[j] # T("remove", c)
      BY <1>4, <1>7
    <2> QED BY <1>1, <1>5, <1>7, <2>1 DEF Ends, u
  <1>8. CASE i = 0 /\ t # T("add", c)
    <2>1. t = T(t.action, t.connection) /\ t.action \in {"add", "send", "remove"}
      BY DEF Task, T
    <2>2. c \in r /\ t # T("remove", c)
      <3>1. c \in q
        BY <1>3, <1>8
      <3>2. CASE t.action = "add"
        <4>1. c # t.connection /\ t # T("remove", c)
          BY <1>8, <2>1, <3>2 DEF T
        <4> QED BY <3>1, <3>2, <4>1
      <3>3. CASE t.action = "send"
        BY <3>1, <3>3 DEF T
      <3>4. CASE t.action = "remove"
        <4>1. c \in r /\ c # t.connection
          BY <3>1, <3>4
        <4> QED BY <4>1 DEF T
      <3> QED BY <2>1, <3>2, <3>3, <3>4
    <2>3. \A j \in 0 + 1 .. n + 1 : j = 1 \/ j \in (i + 1) + 1 .. n + 1
      BY <1>1, <1>8
    <2>4. \A j \in 0 + 1 .. n + 1 : u[j] # T("remove", c)
      BY <1>1, <1>4, <2>2, <2>3
    <2> QED BY <1>1, <1>5, <2>2, <2>4 DEF Ends, u
  <1> QED BY <1>6, <1>7, <1>8

\* What is left of the batch is a sequence of tasks.
LEMMA RestType ==
    ASSUME NEW s \in Seq(Task), NEW n \in 1 .. Len(s) + 1
    PROVE  SubSeq(s, n, Len(s)) \in Seq(Task)
  <1>1. Len(s) \in Nat
    BY LenProperties
  <1>2. \A i \in n .. Len(s) : s[i] \in Task
    BY <1>1, ElementOfSeq
  <1> QED BY <1>1, <1>2, SubSeqProperties

\* A task that is pushed comes last.
LEMMA ToDoPush ==
    ASSUME WorkType, NEW a, NEW c, T(a, c) \in Task, Push(a, c), UNCHANGED <<batch, next>>
    PROVE  ToDo' = Append(ToDo, T(a, c)) /\ ToDo \in Seq(Task)
  <1> DEFINE rest == SubSeq(batch, next, Len(batch))
             t == T(a, c)
  <1>1. rest \in Seq(Task) /\ queue \in Seq(Task) /\ t \in Task
    BY RestType DEF WorkType
  <1>2. ToDo' = rest \o Append(queue, t) /\ ToDo = rest \o queue
    BY DEF Push, ToDo
  <1> HIDE DEF rest, t
  <1>3. rest \o queue \in Seq(Task)
    BY <1>1, ConcatProperties
  <1>4. /\ Append(queue, t) = queue \o <<t>>
        /\ Append(rest \o queue, t) = (rest \o queue) \o <<t>>
    BY <1>1, <1>3, AppendIsConcat
  <1>5. <<t>> \in Seq(Task)
    BY <1>1
  <1>6. (rest \o queue) \o <<t>> = rest \o (queue \o <<t>>)
    BY <1>1, <1>5, ConcatAssociative
  <1> QED BY <1>2, <1>3, <1>4, <1>6 DEF t

\* The task that is handled comes first.
LEMMA ToDoHandle ==
    ASSUME WorkType, next <= Len(batch), next' = next + 1, UNCHANGED <<batch, queue>>
    PROVE  /\ batch[next] \in Task /\ ToDo' \in Seq(Task)
           /\ ToDo = <<batch[next]>> \o ToDo'
  <1>1. /\ batch \in Seq(Task) /\ queue \in Seq(Task) /\ Len(batch) \in Nat
        /\ next \in 1 .. Len(batch) /\ next + 1 \in 1 .. Len(batch) + 1
        /\ Len(batch) \in next .. Len(batch)
    BY LenProperties DEF WorkType
  <1>2. batch[next] \in Task
    BY <1>1, ElementOfSeq
  <1>3. SubSeq(batch, next, Len(batch)) = <<batch[next]>> \o SubSeq(batch, next + 1, Len(batch))
    BY <1>1, SubSeqRecursiveFirst, Zenon
  <1>4. SubSeq(batch, next + 1, Len(batch)) \in Seq(Task)
    BY <1>1, RestType
  <1> DEFINE t == batch[next]
             rest == SubSeq(batch, next + 1, Len(batch))
  <1>5. ToDo' = rest \o queue /\ ToDo = (<<t>> \o rest) \o queue
    BY <1>3 DEF ToDo
  <1>6. <<t>> \in Seq(Task) /\ rest \in Seq(Task)
    BY <1>2, <1>4
  <1> HIDE DEF t, rest
  <1>7. (<<t>> \o rest) \o queue = <<t>> \o (rest \o queue)
    BY <1>1, <1>6, ConcatAssociative
  <1>8. rest \o queue \in Seq(Task)
    BY <1>1, <1>6, ConcatProperties
  <1> QED BY <1>2, <1>5, <1>7, <1>8 DEF t

\* With the batch handled, or not swapped in yet, only the queue remains.
LEMMA ToDoQueue ==
    ASSUME WorkType, next > Len(batch) \/ batch = <<>>
    PROVE  ToDo = queue
  <1>1. Len(batch) \in Nat /\ next \in Nat /\ queue \in Seq(Task)
    BY LenProperties DEF WorkType
  <1>2. next > Len(batch)
    BY <1>1 DEF WorkType
  <1>3. SubSeq(batch, next, Len(batch)) = <<>>
    BY <1>1, <1>2, SubSeqEmpty
  <1> QED BY <1>1, <1>3, ConcatEmptySeq DEF ToDo

-----------------------------------------------------------------------------
(* Types.                                                                  *)

\* The initial state satisfies the invariant.
LEMMA InitIInv == Init => IInv
  <1> SUFFICES ASSUME Init PROVE IInv
    OBVIOUS
  <1>1. Gone \in Holder /\ ~Gone.worker /\ Gone.connection = null /\ Gone.step = "gone"
    BY DEF Gone, Holder
  <1>2. <<>> \in Seq(Task) /\ Len(<<>>) = 0
    OBVIOUS
  <1>3. HoldersType
    BY <1>1 DEF Init, HoldersType
  <1>4. WorkType /\ PlaceType
    <2>1. batch = <<>> /\ queue = <<>> /\ registered = {} /\ next = 1
      BY DEF Init
    <2>2. next \in 1 .. Len(batch) + 1
      BY <1>2, <2>1
    <2>3. WorkType
      BY <1>2, <2>1, <2>2, Zenon DEF WorkType
    <2>4. PlaceType
      BY DEF Init, PlaceType
    <2> QED BY <2>3, <2>4
  <1>5. OwnInv
    BY <1>1 DEF Init, OwnInv
  <1>6. ExitInv
    BY DEF Init, ExitInv
  <1>7. RegisteredIsOwned
    <2>1. ToDo = <<>> /\ registered = {}
      BY <1>2, <1>4, ToDoQueue DEF Init
    <2>2. \A c : ~Ends(<<>>, {}, c)
      BY <1>2 DEF Ends
    <2> QED BY <2>1, <2>2, EndsOfToDo DEF RegisteredIsOwned
  <1> QED BY <1>3, <1>4, <1>5, <1>6, <1>7 DEF IInv, TypeInv

\* What the holders of connections may become.
LEMMA HolderShapes ==
    /\ Gone \in Holder /\ Empty \in Holder
    /\ ~Gone.worker /\ Gone.connection = null /\ Gone.step = "gone"
    /\ ~Empty.worker /\ Empty.connection = null /\ Empty.step = "idle"
    /\ \A x \in Holder : Without(x) \in Holder
  BY DEF Gone, Empty, Holder, Without

\* Clients and requests keep their types.
LEMMA NextHoldersType ==
    ASSUME TypeInv, [Next]_vars
    PROVE  HoldersType'
  <1> USE HolderShapes DEF TypeInv, HoldersType
  <1>1. ASSUME CopyThread PROVE HoldersType'
    BY <1>1 DEF CopyThread
  <1>2. ASSUME DestroyThread PROVE HoldersType'
    BY <1>2 DEF DestroyThread
  <1>3. ASSUME NEW h \in Clients, Default(h) \/ DestroyEmpty(h) PROVE HoldersType'
    BY <1>3 DEF Default, DestroyEmpty
  <1>4. ASSUME NEW h \in Clients, Construct(h) PROVE HoldersType'
    <2>1. made' \in Nat /\ made' <= MaxConnections /\ made' \in Connections
      BY <1>4 DEF Construct, Connections
    <2>2. [Empty EXCEPT !.worker = TRUE, !.connection = made'] \in Holder
      BY <2>1 DEF Empty, Gone, Holder
    <2> QED BY <1>4, <2>1, <2>2 DEF Construct
  <1>5. ASSUME NEW h \in Clients, NEW g \in Clients, MoveConstruct(g, h) \/ AssignFrom(g, h)
        PROVE  HoldersType'
    BY <1>5 DEF MoveConstruct, AssignFrom
  <1>6. ASSUME NEW h \in Clients, reconnect(h) PROVE HoldersType'
    <2>1. [client[h] EXCEPT !.step = "reconnect"] \in Holder
      BY DEF Holder
    <2>2. client' = [client EXCEPT ![h] = [client[h] EXCEPT !.step = "reconnect"]]
      BY <1>6 DEF reconnect
    <2> QED BY <1>6, <2>1, <2>2 DEF reconnect
  <1>7. ASSUME NEW h \in Clients, add_connection(h) PROVE HoldersType'
    <2>1. [client[h] EXCEPT !.step = "idle"] \in Holder
      BY DEF Holder
    <2>2. client' = [client EXCEPT ![h] = [client[h] EXCEPT !.step = "idle"]]
      BY <1>7 DEF add_connection
    <2> QED BY <1>7, <2>1, <2>2 DEF add_connection
  <1>8. ASSUME NEW h \in Clients, NEW by \in {"user", "worker"}, remove_connection(h, by)
        PROVE  HoldersType'
    <2>1. [client[h] EXCEPT !.step = "members", !.by = by] \in Holder
      BY DEF Holder
    <2>2. client' = [client EXCEPT ![h] = [client[h] EXCEPT !.step = "members", !.by = by]]
      BY <1>8 DEF remove_connection
    <2> QED BY <1>8, <2>1, <2>2 DEF remove_connection
  <1>9. ASSUME NEW h \in Clients, DropMember(h) PROVE HoldersType'
    BY <1>9 DEF DropMember
  <1>10. ASSUME NEW h \in Clients, BuildRequest(h) PROVE HoldersType'
    <2>1. [client[h] EXCEPT !.of = {h}] \in Holder
      BY DEF Holder
    <2> QED BY <1>10, <2>1 DEF BuildRequest
  <1>11. ASSUME perform PROVE HoldersType'
    BY <1>11 DEF perform
  <1>12. ASSUME UNCHANGED handleVars PROVE HoldersType'
    BY <1>12 DEF handleVars
  <1> HIDE HolderShapes DEF TypeInv, HoldersType
  <1>13. ASSUME WorkerThread \/ Joined \/ Terminated \/ (\E c \in Connections : deactivate(c))
                  \/ UNCHANGED vars
         PROVE  UNCHANGED handleVars
    BY <1>13 DEF WorkerThread, Joined, Terminated, deactivate, swap_task_queue, handle_task,
                 clear_task_queue, vars
  <1> QED BY <1>1, <1>2, <1>3, <1>4, <1>5, <1>6, <1>7, <1>8, <1>9, <1>10, <1>11, <1>12, <1>13
          DEF Next, User, Calling

\* A task that is pushed is one of a connection, and whoever pushes it holds the
\* worker.
LEMMA PushFacts ==
    ASSUME TypeInv, OwnInv, User
    PROVE  /\ UNCHANGED workVars
           /\ \/ queue' = queue
              \/ \E t \in Task : queue' = Append(queue, t) /\ ~Unheld
  <1> USE DEF TypeInv, HoldersType, OwnInv, Unheld
  <1> DEFINE Pushed == \E t \in Task : queue' = Append(queue, t) /\ ~Unheld
             Goal == UNCHANGED workVars /\ (queue' = queue \/ Pushed)
  <1>0. \A a \in {"add", "send", "remove"}, c \in Connections : T(a, c) \in Task
    BY DEF T, Task
  <1>1. ASSUME CopyThread \/ DestroyThread PROVE Goal
    BY <1>1 DEF CopyThread, DestroyThread, workVars
  <1>2. ASSUME NEW h \in Clients, NEW g \in Clients,
               \/ Default(h) \/ DestroyEmpty(h) \/ DropMember(h) \/ BuildRequest(h)
               \/ MoveConstruct(g, h) \/ AssignFrom(g, h)
        PROVE  Goal
    BY <1>2 DEF Default, DestroyEmpty, DropMember, BuildRequest, MoveConstruct, AssignFrom, workVars
  <1>3. ASSUME NEW h \in Clients, Construct(h) PROVE Goal
    <2>1. made' \in Connections /\ threads # 0
      BY <1>3 DEF Construct, Connections
    <2> QED BY <1>0, <1>3, <2>1 DEF Construct, Push
  <1>4. ASSUME NEW h \in Clients, reconnect(h) PROVE Goal
    <2>1. client[h].connection \in Connections /\ client[h].worker
      BY <1>4 DEF reconnect, Live, Holder
    <2> QED BY <1>0, <1>4, <2>1 DEF reconnect, Push
  <1>5. ASSUME NEW h \in Clients, add_connection(h) PROVE Goal
    <2>1. client[h].connection \in Connections /\ client[h].worker
      BY <1>5 DEF add_connection, Holder
    <2> QED BY <1>0, <1>5, <2>1 DEF add_connection, Push
  <1>6. ASSUME NEW h \in Clients, NEW by \in {"user", "worker"}, remove_connection(h, by) PROVE Goal
    <2>1. client[h].connection \in Connections /\ client[h].worker
      BY <1>6 DEF remove_connection, Live, Holder
    <2> QED BY <1>0, <1>6, <2>1 DEF remove_connection, Push
  <1>7. ASSUME perform PROVE Goal
    <2>1. request.connection \in Connections /\ request.worker
      BY <1>7 DEF perform, Holder
    <2> QED BY <1>0, <1>7, <2>1 DEF perform, Push
  <1> HIDE DEF Goal
  <1>8. Goal
    BY <1>1, <1>2, <1>3, <1>4, <1>5, <1>6, <1>7 DEF User, Calling
  <1> QED BY <1>8 DEF Goal

\* The queue, the batch and the worker thread's place keep their types.
LEMMA NextWorkType ==
    ASSUME TypeInv, OwnInv, ExitInv, [Next]_vars
    PROVE  WorkType' /\ PlaceType'
  <1>0. WorkType /\ PlaceType /\ HoldersType /\ Len(batch) \in Nat /\ Len(queue) \in Nat
    <2>1. WorkType /\ PlaceType /\ HoldersType
      BY DEF TypeInv
    <2> QED BY <2>1, LenProperties DEF WorkType
  <1> USE DEF WorkType, PlaceType
  <1>1. ASSUME User PROVE WorkType' /\ PlaceType'
    <2>1. queue' \in Seq(Task)
      BY <1>0, <1>1, PushFacts, AppendProperties
    <2>2. stop' \in {"none", "user", "worker"}
      <3>1. ASSUME NEW h \in Clients, DropMember(h) PROVE stop' \in {"none", "user", "worker"}
        <4>1. client[h].by \in {"user", "worker"}
          BY <1>0 DEF HoldersType, Holder
        <4> QED BY <3>1, <4>1 DEF DropMember, StopIfLast
      <3>2. ASSUME DestroyThread PROVE stop' \in {"none", "user", "worker"}
        BY <3>2 DEF DestroyThread, StopIfLast
      <3>3. ASSUME NEW g \in Clients, NEW h \in Clients, AssignFrom(g, h)
            PROVE  stop' \in {"none", "user", "worker"}
        BY <1>0, <3>3 DEF AssignFrom, StopIfLast
      <3>4. \/ stop' = stop \/ DestroyThread \/ \E h \in Clients : DropMember(h)
            \/ \E g \in Clients, h \in Clients : AssignFrom(g, h)
        BY <1>1 DEF User, Calling, CopyThread, Default, DestroyEmpty, BuildRequest, Construct,
                    reconnect, MoveConstruct, remove_connection, add_connection, perform
      <3> QED BY <1>0, <3>1, <3>2, <3>3, <3>4
    <2>3. UNCHANGED workVars
      BY <1>1, PushFacts
    <2> QED BY <1>0, <2>1, <2>2, <2>3 DEF workVars
  <1>2. ASSUME swap_task_queue PROVE WorkType' /\ PlaceType'
    <2>1. batch = <<>> /\ next = 1
      BY <1>2 DEF swap_task_queue, At, ExitInv
    <2>2. batch' = queue /\ queue' = batch /\ next' = 1
      BY <1>2, <2>1 DEF swap_task_queue
    <2>3. next' \in 1 .. Len(batch') + 1
      BY <1>0, <2>2
    <2> QED BY <1>0, <1>2, <2>2, <2>3 DEF swap_task_queue
  <1>3. ASSUME handle_task PROVE WorkType' /\ PlaceType'
    <2>1. next \in 1 .. Len(batch) /\ next' = next + 1 /\ batch' = batch /\ batch[next] \in Task
      BY <1>0, <1>3, ElementOfSeq DEF handle_task
    <2>2. next' \in 1 .. Len(batch') + 1
      BY <1>0, <2>1
    <2>3. batch[next].connection \in Connections /\ batch[next].action \in {"add", "send", "remove"}
      BY <2>1 DEF Task
    <2>4. registered' \subseteq Connections
      BY <1>0, <1>3, <2>3 DEF handle_task
    <2> QED BY <1>0, <1>3, <2>2, <2>4 DEF handle_task
  <1>4. ASSUME clear_task_queue PROVE WorkType' /\ PlaceType'
    <2>1. batch' = <<>> /\ next' = 1
      BY <1>4 DEF clear_task_queue
    <2>2. next' \in 1 .. Len(batch') + 1 /\ batch' \in Seq(Task)
      BY <2>1
    <2> QED BY <1>0, <1>4, <2>2 DEF clear_task_queue
  <1>5. ASSUME NEW c \in Connections, deactivate(c) PROVE WorkType' /\ PlaceType'
    BY <1>0, <1>5 DEF deactivate
  <1>6. ASSUME Joined \/ Terminated \/ UNCHANGED vars PROVE WorkType' /\ PlaceType'
    BY <1>0, <1>6 DEF Joined, Terminated, vars, workVars
  <1> QED BY <1>1, <1>2, <1>3, <1>4, <1>5, <1>6 DEF Next, WorkerThread

-----------------------------------------------------------------------------
(* Ownership of the worker.                                                *)

\* A member-by-member step keeps who has a worker as long as it has a connection.
LEMMA NextOwnInv ==
    ASSUME TypeInv, OwnInv, [Next]_vars
    PROVE  OwnInv'
  <1> USE DEF OwnInv
  <1>0. client \in [Clients -> Holder] /\ request \in Holder
    BY DEF TypeInv, HoldersType
  <1>1. ASSUME UNCHANGED <<client, request>> PROVE OwnInv'
    BY <1>1
  <1>2. ASSUME NEW h \in Clients, Default(h) \/ DestroyEmpty(h) PROVE OwnInv'
    BY <1>0, <1>2, HolderShapes DEF Default, DestroyEmpty
  <1>3. ASSUME NEW h \in Clients, Construct(h) PROVE OwnInv'
    <2> DEFINE x == [Empty EXCEPT !.worker = TRUE, !.connection = made']
    <2>1. x.worker /\ x.step = "idle"
      BY DEF Empty, Gone
    <2>2. client' = [client EXCEPT ![h] = x] /\ request' = request
      BY <1>3 DEF Construct
    <2> HIDE DEF x
    <2> QED BY <1>0, <2>1, <2>2
  <1>4. ASSUME NEW h \in Clients, NEW g \in Clients, MoveConstruct(g, h) \/ AssignFrom(g, h)
        PROVE  OwnInv'
    BY <1>0, <1>4, HolderShapes DEF MoveConstruct, AssignFrom
  <1>5. ASSUME NEW h \in Clients,
               reconnect(h) \/ add_connection(h) \/ (\E by \in {"user", "worker"} : remove_connection(h, by))
        PROVE  OwnInv'
    <2>1. /\ client'[h].worker = client[h].worker
          /\ client'[h].connection = client[h].connection
          /\ client[h].connection # null
          /\ \A g \in Clients \ {h} : client'[g] = client[g]
          /\ request' = request
      BY <1>0, <1>5 DEF reconnect, add_connection, remove_connection, Live, Holder
    <2> QED BY <2>1
  <1>6. ASSUME NEW h \in Clients, DropMember(h) PROVE OwnInv'
    <2>1. client' = [client EXCEPT ![h] = Without(client[h])] /\ request' = request
      BY <1>6 DEF DropMember
    <2>2. client[h].worker /\ client[h].step = "members" /\ client[h] \in Holder
      BY <1>0, <1>6 DEF DropMember
    <2>3. \/ Without(client[h]) = Gone
          \/ /\ Without(client[h]).worker /\ Without(client[h]).connection = null
             /\ Without(client[h]).step = "members"
      BY <2>2 DEF Without, Holder
    <2> QED BY <1>0, <2>1, <2>3, HolderShapes
  <1>7. ASSUME NEW h \in Clients, BuildRequest(h) PROVE OwnInv'
    <2>1. request'.worker = client[h].worker /\ request'.connection = client[h].connection
      BY <1>0, <1>7 DEF BuildRequest, Holder
    <2> QED BY <1>7, <2>1 DEF BuildRequest, Live
  <1>8. ASSUME perform PROVE OwnInv'
    BY <1>8 DEF perform
  <1> HIDE DEF OwnInv
  <1>9. ASSUME \/ WorkerThread \/ Joined \/ Terminated \/ CopyThread \/ DestroyThread
               \/ (\E c \in Connections : deactivate(c)) \/ UNCHANGED vars
        PROVE  UNCHANGED <<client, request>>
    BY <1>9 DEF WorkerThread, Joined, Terminated, deactivate, swap_task_queue, handle_task,
                clear_task_queue, CopyThread, DestroyThread, vars, handleVars
  <1> QED BY <1>1, <1>2, <1>3, <1>4, <1>5, <1>6, <1>7, <1>8, <1>9 DEF Next, User, Calling

-----------------------------------------------------------------------------
(* The exit: ~worker is entered once, by whoever let go of the worker last. *)

\* Nobody is counted over the thread objects, the clients and the request.
LEMMA NobodyIsUnheld == Nobody(threads, Holders) <=> Unheld
  BY DEF Nobody, Holders, Unheld

\* Once nobody holds the worker nobody gets hold of it again.
LEMMA UnheldStays ==
    ASSUME TypeInv, OwnInv, Unheld, User
    PROVE  Unheld' /\ UNCHANGED stop
  <1> USE DEF Unheld
  <1>0. client \in [Clients -> Holder]
    BY DEF TypeInv, HoldersType
  <1>1. ~CopyThread /\ ~DestroyThread /\ ~perform
    BY DEF CopyThread, DestroyThread, perform, OwnInv
  <1>2. ASSUME NEW h \in Clients
        PROVE  /\ ~Construct(h) /\ ~reconnect(h) /\ ~add_connection(h) /\ ~DropMember(h)
               /\ ~BuildRequest(h) /\ \A by \in {"user", "worker"} : ~remove_connection(h, by)
    BY DEF Construct, reconnect, add_connection, DropMember, BuildRequest, remove_connection,
           Live, OwnInv
  <1>3. ASSUME NEW h \in Clients, Default(h) \/ DestroyEmpty(h) PROVE Unheld' /\ UNCHANGED stop
    BY <1>0, <1>3, HolderShapes DEF Default, DestroyEmpty
  <1>4. ASSUME NEW h \in Clients, NEW g \in Clients, MoveConstruct(g, h) \/ AssignFrom(g, h)
        PROVE  Unheld' /\ UNCHANGED stop
    BY <1>0, <1>4, HolderShapes DEF MoveConstruct, AssignFrom
  <1> HIDE DEF Unheld
  <1> QED BY <1>1, <1>2, <1>3, <1>4 DEF User, Calling

\* The step that enters ~worker is the one that lets go of the worker last.
LEMMA StopIsLast ==
    ASSUME User, stop' # stop, stop' # "none"
    PROVE  Unheld'
  <1>1. \/ DestroyThread \/ \E h \in Clients : DropMember(h)
        \/ \E g \in Clients, h \in Clients : AssignFrom(g, h)
    BY DEF User, Calling, CopyThread, Default, DestroyEmpty, BuildRequest, Construct,
           reconnect, MoveConstruct, remove_connection, add_connection, perform
  <1>2. CASE DestroyThread
    <2>1. Nobody(threads', Holders)
      BY <1>2 DEF DestroyThread, StopIfLast
    <2> QED BY <1>2, <2>1 DEF DestroyThread, Nobody, Holders, Unheld
  <1>3. ASSUME NEW h \in Clients, DropMember(h) PROVE Unheld'
    <2>1. Nobody(threads, {client'[g] : g \in Clients} \cup {request})
      BY <1>3 DEF DropMember, StopIfLast
    <2> QED BY <1>3, <2>1 DEF DropMember, Nobody, Unheld
  <1>4. ASSUME NEW g \in Clients, NEW h \in Clients, AssignFrom(g, h) PROVE Unheld'
    <2>1. Nobody(threads, {client'[f] : f \in Clients} \cup {request})
      BY <1>4 DEF AssignFrom, StopIfLast
    <2> QED BY <1>4, <2>1 DEF AssignFrom, Nobody, Unheld
  <1> QED BY <1>1, <1>2, <1>3, <1>4

\* With no tasks left and no holder of the worker, no connection is registered.
LEMMA NobodyRegistered ==
    ASSUME TypeInv, RegisteredIsOwned, Unheld, ToDo = <<>>
    PROVE  registered = {}
  <1> SUFFICES ASSUME NEW c \in registered PROVE FALSE
    OBVIOUS
  <1>1. c \in Connections
    BY DEF TypeInv, WorkType
  <1>2. Ends(<<>>, registered, c)
    <2>1. Len(<<>>) = 0 /\ 0 \in 0 .. 0 /\ \A j \in 0 + 1 .. 0 : FALSE
      OBVIOUS
    <2> QED BY <2>1 DEF Ends
  <1>3. EndsRegistered(c)
    BY <1>2, EndsOfToDo
  <1> QED BY <1>1, <1>3 DEF RegisteredIsOwned, Unheld

\* Nothing is registered or queued any more once the worker thread ended.
LEMMA NextExitInv ==
    ASSUME IInv, [Next]_vars
    PROVE  ExitInv'
  <1>0. TypeInv /\ OwnInv /\ ExitInv /\ RegisteredIsOwned /\ WorkType /\ PlaceType
    BY DEF IInv, TypeInv
  <1> USE DEF ExitInv
  <1>1. ASSUME User PROVE ExitInv'
    <2>1. UNCHANGED <<batch, next, registered, loc, draining, freed>>
      BY <1>0, <1>1, PushFacts DEF workVars
    <2>2. Unheld => queue' = queue /\ Unheld' /\ stop' = stop
      BY <1>0, <1>1, PushFacts, UnheldStays
    <2>3. stop' # stop /\ stop' # "none" => Unheld'
      BY <1>1, StopIsLast
    <2> QED BY <1>0, <2>1, <2>2, <2>3
  <1>2. ASSUME swap_task_queue PROVE ExitInv'
    <2>1. /\ batch = <<>> /\ queue' = <<>> /\ loc' = "tasks" /\ loc = "loop"
          /\ draining' = (stop # "none") /\ stop' = stop /\ freed' = freed
      BY <1>0, <1>2 DEF swap_task_queue, At
    <2>2. Unheld' = Unheld
      BY <1>2 DEF swap_task_queue, handleVars, Unheld
    <2> QED BY <1>0, <2>1, <2>2
  <1>3. ASSUME handle_task PROVE ExitInv'
    <2>1. loc = "tasks" /\ UNCHANGED <<queue, batch, loc, draining, stop, freed>>
      BY <1>3 DEF handle_task, At
    <2>2. Unheld' = Unheld
      BY <1>3 DEF handle_task, handleVars, Unheld
    <2> QED BY <1>0, <2>1, <2>2
  <1>4. ASSUME clear_task_queue PROVE ExitInv'
    <2>1. /\ loc = "tasks" /\ UNCHANGED <<queue, registered, draining, stop, freed>>
          /\ batch' = <<>> /\ next' = 1 /\ next > Len(batch)
          /\ loc' = IF draining THEN "ended" ELSE "loop"
      BY <1>4 DEF clear_task_queue, At
    <2>2. Unheld' = Unheld
      BY <1>4 DEF clear_task_queue, handleVars, Unheld
    <2>3. ToDo = queue
      BY <1>0, <2>1, ToDoQueue
    <2>4. draining => registered = {}
      BY <1>0, <2>1, <2>3, NobodyRegistered
    <2> HIDE DEF ExitInv
    <2>5. ExitInv
      BY <1>0
    <2> QED BY <2>1, <2>2, <2>4, <2>5 DEF ExitInv
  <1>5. ASSUME NEW c \in Connections, deactivate(c) PROVE ExitInv'
    <2>1. loc = "loop" /\ UNCHANGED <<queue, batch, next, loc, draining, stop, freed>>
      BY <1>5 DEF deactivate, At
    <2>2. Unheld' = Unheld
      BY <1>5 DEF deactivate, handleVars, Unheld
    <2> QED BY <1>0, <2>1, <2>2
  <1>6. ASSUME Joined PROVE ExitInv'
    <2>1. Unheld' = Unheld
      BY <1>6 DEF Joined, handleVars, Unheld
    <2> QED BY <1>0, <1>6, <2>1 DEF Joined
  <1>7. ASSUME Terminated \/ UNCHANGED vars PROVE ExitInv'
    <2>1. Unheld' = Unheld
      BY <1>7 DEF Terminated, vars, handleVars, Unheld
    <2> QED BY <1>0, <1>7, <2>1 DEF Terminated, vars, workVars
  <1> HIDE DEF ExitInv
  <1> QED BY <1>1, <1>2, <1>3, <1>4, <1>5, <1>6, <1>7 DEF Next, WorkerThread

-----------------------------------------------------------------------------
(* Ownership of registered connections.                                    *)

\* A client that will remove connection c.
Owner(h, c) == client[h].connection = c /\ client[h].worker /\ client[h].step # "members"

\* A call that pushes nothing keeps c owned as long as its owner does not let go.
LEMMA OwnedKept ==
    ASSUME RegisteredIsOwned, UNCHANGED <<queue, workVars>>,
           \A c \in Connections : (\E h \in Clients : Owner(h, c)) => \E h \in Clients : Owner(h, c)'
    PROVE  RegisteredIsOwned'
  BY DEF RegisteredIsOwned, EndsRegistered, ToDo, workVars, Owner

\* A push leaves c to be registered only if it was, or if it is added.
LEMMA OwnedPush ==
    ASSUME TypeInv, NEW a \in {"add", "send", "remove"}, NEW d \in Connections, Push(a, d),
           UNCHANGED workVars, NEW c, EndsRegistered(c)'
    PROVE  (a = "add" /\ d = c) \/ (~(a = "remove" /\ d = c) /\ EndsRegistered(c))
  <1>1. WorkType /\ T(a, d) \in Task /\ UNCHANGED <<batch, next, registered>>
    BY DEF TypeInv, T, Task, workVars
  <1>2. ToDo' = Append(ToDo, T(a, d)) /\ ToDo \in Seq(Task)
    BY <1>1, ToDoPush
  <1>3. Ends(Append(ToDo, T(a, d)), registered, c)
    BY <1>1, <1>2 DEF EndsRegistered, Ends
  <1>4. T(a, d) = T("add", c) \/ (T(a, d) # T("remove", c) /\ Ends(ToDo, registered, c))
    BY <1>1, <1>2, <1>3, EndsPush
  <1>5. T(a, d).action = a /\ T(a, d).connection = d
    BY DEF T
  <1>6. T("add", c).action = "add" /\ T("add", c).connection = c
    BY DEF T
  <1>7. a = "remove" /\ d = c => T(a, d) = T("remove", c)
    OBVIOUS
  <1>8. T(a, d) = T("add", c) => a = "add" /\ d = c
    BY <1>5, <1>6, Zenon
  <1> QED BY <1>4, <1>7, <1>8, EndsOfToDo

\* The calls of users and callbacks.
LEMMA OwnedByUser ==
    ASSUME IInv, MoveAssign = FALSE, User
    PROVE  RegisteredIsOwned'
  <1>0. TypeInv /\ OwnInv /\ RegisteredIsOwned
    BY DEF IInv
  <1>a. client \in [Clients -> Holder] /\ request \in Holder
    BY <1>0 DEF TypeInv, HoldersType
  <1>b. ASSUME NEW c \in Connections, EndsRegistered(c) PROVE \E h \in Clients : Owner(h, c)
    BY <1>0, <1>b DEF RegisteredIsOwned, Owner
  <1>c. \A c \in Connections : c # null
    BY DEF Connections, null
  <1>1. ASSUME CopyThread \/ DestroyThread PROVE RegisteredIsOwned'
    BY <1>0, <1>1, OwnedKept DEF CopyThread, DestroyThread, workVars, Owner
  <1>2. ASSUME NEW h \in Clients, Default(h) \/ DestroyEmpty(h) PROVE RegisteredIsOwned'
    <2>1. /\ ~client[h].worker /\ UNCHANGED <<queue, workVars>>
          /\ \A g \in Clients \ {h} : client'[g] = client[g]
      BY <1>a, <1>2, HolderShapes DEF Default, DestroyEmpty
    <2>2. \A c \in Connections, g \in Clients : Owner(g, c) => Owner(g, c)'
      BY <2>1 DEF Owner
    <2> QED BY <1>0, <2>1, <2>2, OwnedKept
  <1>3. ASSUME NEW h \in Clients, NEW g \in Clients, MoveConstruct(g, h) \/ AssignFrom(g, h)
        PROVE  RegisteredIsOwned'
    <2>1. /\ client[h].connection = null /\ client'[h] = client[g] /\ g # h
          /\ UNCHANGED <<queue, workVars>>
          /\ \A f \in Clients \ {g, h} : client'[f] = client[f]
      <3>1. CASE MoveConstruct(g, h)
        BY <1>a, <3>1, HolderShapes DEF MoveConstruct, Idle
      <3>2. CASE AssignFrom(g, h)
        BY <1>a, <3>2 DEF AssignFrom
      <3> QED BY <1>3, <3>1, <3>2
    <2>2. ASSUME NEW c \in Connections, NEW f \in Clients, Owner(f, c)
          PROVE  \E e \in Clients : Owner(e, c)'
      <3>1. f # h
        BY <1>c, <2>1, <2>2 DEF Owner
      <3>2. CASE f = g
        BY <2>1, <2>2, <3>2 DEF Owner
      <3>3. CASE f # g
        BY <2>1, <2>2, <3>1, <3>3 DEF Owner
      <3> QED BY <3>2, <3>3
    <2> QED BY <1>0, <2>1, <2>2, OwnedKept
  <1>4. ASSUME NEW h \in Clients, BuildRequest(h) PROVE RegisteredIsOwned'
    BY <1>0, <1>4, OwnedKept DEF BuildRequest, Owner
  <1>5. ASSUME NEW h \in Clients, DropMember(h) PROVE RegisteredIsOwned'
    <2>1. /\ client[h].step = "members" /\ UNCHANGED <<queue, workVars>>
          /\ \A g \in Clients \ {h} : client'[g] = client[g]
      BY <1>a, <1>5 DEF DropMember
    <2>2. \A c \in Connections, g \in Clients : Owner(g, c) => Owner(g, c)'
      BY <2>1 DEF Owner
    <2> QED BY <1>0, <2>1, <2>2, OwnedKept
  <1>6. ASSUME NEW a \in {"add", "send", "remove"}, NEW d \in Connections, Push(a, d),
               UNCHANGED workVars,
               \A c \in Connections \ {d}, g \in Clients : Owner(g, c) => \E f \in Clients : Owner(f, c)',
               a = "add" => \E f \in Clients : Owner(f, d)',
               a = "send" => \A g \in Clients : Owner(g, d) => \E f \in Clients : Owner(f, d)'
        PROVE  RegisteredIsOwned'
    <2> SUFFICES ASSUME NEW c \in Connections, EndsRegistered(c)'
                 PROVE  \E f \in Clients : Owner(f, c)'
      BY DEF RegisteredIsOwned, Owner
    <2>1. (a = "add" /\ d = c) \/ (~(a = "remove" /\ d = c) /\ EndsRegistered(c))
      BY <1>0, <1>6, OwnedPush
    <2> QED BY <1>b, <1>6, <2>1
  <1>7. ASSUME NEW h \in Clients, Construct(h) PROVE RegisteredIsOwned'
    <2>1. made' \in Connections
      BY <1>0, <1>a, <1>7 DEF Construct, Connections, TypeInv, HoldersType
    <2>2. PICK d \in Connections : d = made'
      BY <2>1
    <2>3. /\ Push("add", d) /\ UNCHANGED workVars /\ client[h] = Gone
          /\ \A g \in Clients \ {h} : client'[g] = client[g]
      BY <1>a, <1>7, <2>2 DEF Construct, Push
    <2>4. client'[h] = [Empty EXCEPT !.worker = TRUE, !.connection = d]
      BY <1>a, <1>7, <2>2 DEF Construct
    <2>5. client'[h].connection = d /\ client'[h].worker /\ client'[h].step = "idle"
      BY <2>4 DEF Empty, Gone
    <2>6. Owner(h, d)'
      BY <2>5 DEF Owner
    <2>7. \A c \in Connections, g \in Clients : Owner(g, c) => Owner(g, c)'
      BY <2>3, HolderShapes DEF Owner
    <2> HIDE DEF Owner
    <2> QED BY <1>6, <2>3, <2>6, <2>7
  <1>8. ASSUME NEW h \in Clients, reconnect(h) \/ (\E by \in {"user", "worker"} : remove_connection(h, by))
        PROVE  RegisteredIsOwned'
    <2>1. /\ client[h].connection \in Connections /\ Push("remove", client[h].connection)
          /\ UNCHANGED workVars /\ \A g \in Clients \ {h} : client'[g] = client[g]
      BY <1>a, <1>8 DEF reconnect, remove_connection, Live, Holder
    <2>2. \A c \in Connections \ {client[h].connection}, g \in Clients : Owner(g, c) => Owner(g, c)'
      BY <2>1 DEF Owner
    <2> QED BY <1>6, <2>1, <2>2
  <1>9. ASSUME NEW h \in Clients, add_connection(h) PROVE RegisteredIsOwned'
    <2>1. /\ client[h].connection \in Connections /\ client[h].worker
          /\ Push("add", client[h].connection) /\ UNCHANGED workVars
          /\ \A g \in Clients \ {h} : client'[g] = client[g]
          /\ client'[h].connection = client[h].connection
          /\ client'[h].worker = client[h].worker /\ client'[h].step = "idle"
      BY <1>0, <1>a, <1>9 DEF add_connection, OwnInv, Holder
    <2>2. Owner(h, client[h].connection)'
      BY <2>1 DEF Owner
    <2>3. \A c \in Connections \ {client[h].connection}, g \in Clients : Owner(g, c) => Owner(g, c)'
      BY <2>1 DEF Owner
    <2> QED BY <1>6, <2>1, <2>2, <2>3
  <1>10. ASSUME perform PROVE RegisteredIsOwned'
    <2>1. /\ request.connection \in Connections /\ Push("send", request.connection)
          /\ UNCHANGED workVars /\ client' = client
      BY <1>0, <1>a, <1>10 DEF perform, OwnInv, Holder
    <2>2. \A c \in Connections, g \in Clients : Owner(g, c) => Owner(g, c)'
      BY <2>1 DEF Owner
    <2> QED BY <1>6, <2>1, <2>2
  <1> QED BY <1>1, <1>2, <1>3, <1>4, <1>5, <1>7, <1>8, <1>9, <1>10 DEF User, Calling

\* The worker thread, and the connections it deactivates.
LEMMA OwnedByWorker ==
    ASSUME IInv, WorkerThread \/ (\E c \in Connections : deactivate(c))
    PROVE  RegisteredIsOwned'
  <1>0. WorkType /\ ExitInv /\ RegisteredIsOwned
    BY DEF IInv, TypeInv
  <1>1. \A c \in Connections : EndsRegistered(c)' => EndsRegistered(c)
    <2>1. CASE swap_task_queue
      <3>1. batch = <<>> /\ batch' = queue /\ queue' = <<>> /\ next' = 1 /\ registered' = registered
        BY <1>0, <2>1 DEF swap_task_queue, At, ExitInv
      <3>2. ToDo = queue
        BY <1>0, <3>1, ToDoQueue
      <3>3. ToDo' = queue
        <4>1. queue \in Seq(Task) /\ Len(queue) \in Nat
          BY <1>0, LenProperties DEF WorkType
        <4>2. SubSeq(queue, 1, Len(queue)) = queue
          BY <4>1, SubSeqFull
        <4>3. queue \o <<>> = queue
          BY <4>1, ConcatEmptySeq
        <4> QED BY <3>1, <4>2, <4>3 DEF ToDo
      <3> QED BY <3>1, <3>2, <3>3 DEF EndsRegistered
    <2>2. CASE handle_task
      <3> SUFFICES ASSUME NEW c \in Connections, EndsRegistered(c)' PROVE EndsRegistered(c)
        OBVIOUS
      <3> DEFINE t == batch[next]
      <3>1. t \in Task /\ ToDo' \in Seq(Task) /\ ToDo = <<t>> \o ToDo'
        BY <1>0, <2>2, ToDoHandle DEF handle_task
      <3>2. /\ t.action = "add"    => registered' \subseteq registered \cup {t.connection}
            /\ t.action = "send"   => registered' \subseteq registered
            /\ t.action = "remove" => registered' \subseteq registered \ {t.connection}
        BY <2>2 DEF handle_task
      <3>3. Ends(ToDo', registered', c)
        BY DEF EndsRegistered, Ends
      <3> HIDE DEF t
      <3>4. Ends(<<t>> \o ToDo', registered, c)
        BY <3>1, <3>2, <3>3, EndsHandle
      <3> QED BY <3>1, <3>4, EndsOfToDo
    <2>3. CASE clear_task_queue
      <3>1. ToDo = queue
        BY <1>0, <2>3, ToDoQueue DEF clear_task_queue
      <3>2. ToDo' = queue
        <4>1. batch' = <<>> /\ next' = 1 /\ queue' = queue /\ queue \in Seq(Task)
          BY <1>0, <2>3 DEF clear_task_queue, WorkType
        <4>2. SubSeq(<<>>, 1, Len(<<>>)) = <<>>
          BY SubSeqEmpty
        <4> QED BY <4>1, <4>2, ConcatEmptySeq DEF ToDo
      <3> QED BY <2>3, <3>1, <3>2 DEF EndsRegistered, clear_task_queue
    <2>4. CASE \E d \in Connections : deactivate(d)
      <3>1. registered' \subseteq registered /\ ToDo' = ToDo
        BY <2>4 DEF deactivate, ToDo
      <3> QED BY <3>1 DEF EndsRegistered
    <2> QED BY <2>1, <2>2, <2>3, <2>4 DEF WorkerThread
  <1>2. client' = client
    BY DEF WorkerThread, deactivate, swap_task_queue, handle_task, clear_task_queue, handleVars
  <1> QED BY <1>0, <1>1, <1>2 DEF RegisteredIsOwned

-----------------------------------------------------------------------------
(* The theorems.                                                           *)

\* Every step keeps the invariant, if no client that has a connection is assigned to.
LEMMA NextIInv == MoveAssign = FALSE /\ IInv /\ [Next]_vars => IInv'
  <1> SUFFICES ASSUME MoveAssign = FALSE, IInv, [Next]_vars PROVE IInv'
    OBVIOUS
  <1>1. TypeInv /\ OwnInv /\ ExitInv /\ RegisteredIsOwned
    BY DEF IInv
  <1>2. HoldersType' /\ WorkType' /\ PlaceType'
    BY <1>1, NextHoldersType, NextWorkType
  <1>3. OwnInv' /\ ExitInv'
    BY <1>1, NextOwnInv, NextExitInv
  <1>4. RegisteredIsOwned'
    <2>1. CASE User
      BY <2>1, OwnedByUser
    <2>2. CASE WorkerThread \/ (\E c \in Connections : deactivate(c))
      BY <2>2, OwnedByWorker
    <2>3. CASE Joined \/ Terminated \/ UNCHANGED vars
      <3>1. UNCHANGED <<client, queue, batch, next, registered>>
        BY <2>3 DEF Joined, Terminated, vars, handleVars, workVars
      <3>2. ToDo' = ToDo
        BY <3>1 DEF ToDo
      <3>3. \A c : EndsRegistered(c)' <=> EndsRegistered(c)
        BY <3>1, <3>2 DEF EndsRegistered
      <3> QED BY <1>1, <3>1, <3>3 DEF RegisteredIsOwned
    <2> QED BY <2>1, <2>2, <2>3 DEF Next
  <1> QED BY <1>2, <1>3, <1>4 DEF IInv, TypeInv

\* The invariant holds in every reachable state.
THEOREM Inductive == MoveAssign = FALSE => (Spec => []IInv)
  <1> SUFFICES ASSUME MoveAssign = FALSE PROVE Spec => []IInv
    OBVIOUS
  <1>1. IInv /\ [Next]_vars => IInv'
    BY NextIInv
  <1> QED BY <1>1, InitIInv, PTL DEF Spec

\* A connection that is registered with curl, or will be once its tasks are
\* handled, has a client that is going to remove it, or a remove that follows.
THEOREM Owned == MoveAssign = FALSE => (Spec => []RegisteredIsOwned)
  <1> SUFFICES ASSUME MoveAssign = FALSE PROVE Spec => []RegisteredIsOwned
    OBVIOUS
  <1>1. IInv => RegisteredIsOwned
    BY DEF IInv
  <1>2. Spec => []IInv
    BY Inductive
  <1> QED BY <1>1, <1>2, PTL

\* The worker outlives every connection: when its thread ends none is registered
\* or queued, and when ~worker is over none is left.
THEOREM OutlivesConnections == MoveAssign = FALSE => (Spec => []WorkerOutlives)
  <1> SUFFICES ASSUME MoveAssign = FALSE PROVE Spec => []WorkerOutlives
    OBVIOUS
  <1>1. ASSUME IInv, freed, NEW c \in Connections PROVE ~Referenced(c)
    <2>1. Unheld /\ queue = <<>> /\ batch = <<>>
      BY <1>1 DEF IInv, ExitInv
    <2>2. Tasks = <<>>
      BY <2>1, ConcatEmptySeq, EmptySeq DEF Tasks
    <2>3. ~HasTask(c)
      <3>1. Len(<<>>) = 0 /\ \A i \in 1 .. 0 : FALSE
        OBVIOUS
      <3> QED BY <2>2, <3>1 DEF HasTask
    <2>4. c # null
      BY DEF Connections, null
    <2>5. request.connection # c
      <3>1. request = Gone
        BY <1>1, <2>1 DEF IInv, OwnInv, Unheld
      <3> QED BY <2>4, <3>1, HolderShapes
    <2>6. \A h \in Clients : client[h].connection # c
      BY <1>1, <2>1, <2>4 DEF IInv, OwnInv, Unheld
    <2> QED BY <2>3, <2>5, <2>6 DEF Referenced, Held, Holders
  <1>2. IInv => WorkerOutlives
    BY <1>1 DEF WorkerOutlives, IInv, ExitInv
  <1>3. Spec => []IInv
    BY Inductive
  <1> QED BY <1>2, <1>3, PTL

\* A connection that is registered with curl is not destroyed: a client, a request
\* or a task still refers to it.
THEOREM RegisteredIsReferenced == MoveAssign = FALSE => (Spec => []ConnectionReleased)
  <1> SUFFICES ASSUME MoveAssign = FALSE PROVE Spec => []ConnectionReleased
    OBVIOUS
  <1>1. ASSUME IInv, NEW c \in registered PROVE Referenced(c)
    <2>1. WorkType /\ RegisteredIsOwned /\ c \in Connections
      BY <1>1 DEF IInv, TypeInv, WorkType
    <2>2. CASE EndsRegistered(c)
      BY <2>1, <2>2 DEF RegisteredIsOwned, Referenced, Held, Holders
    <2>3. CASE ~EndsRegistered(c)
      <3> DEFINE rest == SubSeq(batch, next, Len(batch))
                 m == Len(batch)
                 n == Len(queue)
      <3>1. /\ batch \in Seq(Task) /\ queue \in Seq(Task) /\ rest \in Seq(Task)
            /\ m \in Nat /\ n \in Nat /\ next \in 1 .. m + 1 /\ Len(rest) \in Nat
        BY <2>1, RestType, LenProperties DEF WorkType
      <3>2. Len(rest) = m - next + 1 /\ \A i \in 1 .. m - next + 1 : rest[i] = batch[next + i - 1]
        <4>1. \A i \in next .. m : batch[i] \in Task
          BY <3>1, ElementOfSeq
        <4> QED BY <3>1, <4>1, SubSeqProperties
      <3>3. PICK j \in 1 .. Len(ToDo) : ToDo[j] = T("remove", c)
        <4>1. 0 \in 0 .. Len(ToDo) /\ 0 + 1 = 1
          <5>1. rest \o queue \in Seq(Task)
            BY <3>1, ConcatProperties
          <5>2. Len(ToDo) \in Nat
            BY <5>1, LenProperties DEF ToDo
          <5> QED BY <5>2
        <4> QED BY <1>1, <2>3, <4>1 DEF EndsRegistered
      <3>4. ToDo[j].connection = c
        BY <3>3 DEF T
      <3> HIDE DEF rest
      <3>5. /\ Len(rest \o queue) = Len(rest) + n
            /\ \A i \in 1 .. Len(rest) + n : (rest \o queue)[i] =
                   IF i <= Len(rest) THEN rest[i] ELSE queue[i - Len(rest)]
        BY <3>1, ConcatProperties
      <3>6. /\ Len(queue \o batch) = n + m
            /\ \A i \in 1 .. n + m : (queue \o batch)[i] =
                   IF i <= n THEN queue[i] ELSE batch[i - n]
        BY <3>1, ConcatProperties
      <3>7. ToDo = rest \o queue /\ Tasks = queue \o batch
        BY DEF ToDo, Tasks, rest
      <3> HIDE DEF m, n
      <3>8. j \in 1 .. Len(rest) + n
        BY <3>3, <3>5, <3>7
      <3>9. CASE j <= Len(rest)
        <4>1. /\ j \in 1 .. m - next + 1 /\ n + (next + j - 1) \in 1 .. n + m
              /\ ~(n + (next + j - 1) <= n) /\ (n + (next + j - 1)) - n = next + j - 1
          BY <3>1, <3>2, <3>8, <3>9
        <4>2. ToDo[j] = batch[next + j - 1]
          BY <3>2, <3>5, <3>7, <3>8, <3>9, <4>1
        <4>3. Tasks[n + (next + j - 1)] = batch[next + j - 1]
          BY <3>6, <3>7, <4>1
        <4> QED BY <3>4, <3>6, <3>7, <4>1, <4>2, <4>3 DEF Referenced, HasTask
      <3>10. CASE ~(j <= Len(rest))
        <4>1. /\ j - Len(rest) \in 1 .. n + m /\ j - Len(rest) <= n
          BY <3>1, <3>8, <3>10
        <4>2. ToDo[j] = queue[j - Len(rest)]
          BY <3>5, <3>7, <3>8, <3>10
        <4>3. Tasks[j - Len(rest)] = queue[j - Len(rest)]
          BY <3>6, <3>7, <4>1
        <4> QED BY <3>4, <3>6, <3>7, <4>1, <4>2, <4>3 DEF Referenced, HasTask
      <3> QED BY <3>9, <3>10
    <2> QED BY <2>2, <2>3
  <1>2. IInv => ConnectionReleased
    BY <1>1 DEF ConnectionReleased
  <1>3. Spec => []IInv
    BY Inductive
  <1> QED BY <1>2, <1>3, PTL
==============================================================================
