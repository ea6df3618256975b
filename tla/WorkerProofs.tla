---------------------------- MODULE WorkerProofs ----------------------------
(***************************************************************************)
(* Proofs of the safety of Worker for any set of clients and any bound on  *)
(* their calls.                                                            *)
(***************************************************************************)
EXTENDS Worker, SequenceTheorems, TLAPS

USE WorkerAssumption, MaxCallsAssumption

\* Handling the task at position n takes it off the front of what remains.
LEMMA RemainingStep ==
    ASSUME NEW s \in Seq(Task), NEW n \in 1 .. Len(s)
    PROVE  SubSeq(s, n, Len(s)) = <<s[n]>> \o SubSeq(s, n + 1, Len(s))
  <1>1. Len(s) \in Nat
    BY LenProperties
  <1>2. n \in 1 .. Len(s) /\ Len(s) \in n .. Len(s)
    BY <1>1
  <1> QED BY <1>2, SubSeqRecursiveFirst, Zenon

\* What remains is a sequence of tasks.
LEMMA RemainingType ==
    ASSUME NEW s \in Seq(Task), NEW n \in 1 .. Len(s) + 1
    PROVE  SubSeq(s, n, Len(s)) \in Seq(Task)
  <1>1. Len(s) \in Nat
    BY LenProperties
  <1>2. \A i \in n .. Len(s) : s[i] \in Task
    BY <1>1, ElementOfSeq
  <1> QED BY <1>1, <1>2, SubSeqProperties

\* A second push of reconnect() leaves something to push.
LEMMA TailNonEmpty ==
    ASSUME NEW s \in Seq(Task), Len(s) > 1
    PROVE  Tail(s) # <<>>
  <1>1. s # <<>> /\ Len(s) \in Nat
    BY EmptySeq
  <1>2. PICK t \in Seq(Task) : t = Tail(s) /\ Len(t) = Len(s) - 1
    BY <1>1, HeadTailProperties
  <1>3. Len(t) > 0
    BY <1>1, <1>2
  <1>4. t # <<>>
    BY <1>3
  <1> QED BY <1>2, <1>4, Zenon

\* The initial states satisfy the invariant.
LEMMA InitIInv == Init => IInv
  <1> SUFFICES ASSUME Init PROVE IInv
    OBVIOUS
  <1>1. TypeOK
    <2>1. <<>> \in Seq(Task) /\ Len(<<>>) = 0
      OBVIOUS
    <2>2. next \in 1 .. Len(taskQueue) + 1
      BY <2>1 DEF Init
    <2>3. /\ todo \in [Procs -> Seq(Task)] /\ seen \in [Procs -> Seq(Task)]
          /\ pc \in [Procs -> Places] /\ op \in [Procs -> {"push", "swap", "inspect"}]
          /\ life \in [Clients -> Lives] /\ calls \in [Clients -> Nat]
      BY <2>1 DEF Init, Places, Lives
    <2> QED BY <2>1, <2>2, <2>3 DEF Init, TypeOK, Phases
  <1>2. LockInv /\ SeenInv
    BY DEF Init, LockInv, SeenInv, MutualExclusion, InSection
  <1>3. OpInv /\ CallbackInv /\ WalkInv
    BY DEF Init, OpInv, CallbackInv, WalkInv, Busy, InSection, Swapped, Procs
  <1>4. StopInv
    BY DEF Init, StopInv, Quit, Inspecting, Busy, InSection, Swapped, Procs
  <1>5. HandledInOrder
    <2>1. Remaining = <<>>
      BY SubSeqEmpty DEF Init, Remaining
    <2> QED BY <2>1 DEF Init, HandledInOrder
  <1> QED BY <1>1, <1>2, <1>3, <1>4, <1>5 DEF IInv

-----------------------------------------------------------------------------
(* Type correctness: one step per action.                                  *)
LEMMA NextTypeOK ==
    ASSUME TypeOK, OpInv, WalkInv, [Next]_vars
    PROVE  TypeOK'
  <1> USE DEF TypeOK, Places, Phases
  <1>1. ASSUME NEW p \in Procs, lock(p) PROVE TypeOK'
    BY <1>1 DEF lock, loopVars, clientVars
  <1>2. ASSUME NEW p \in Procs, ReadQueue(p) PROVE TypeOK'
    BY <1>2 DEF ReadQueue, loopVars, clientVars
  <1>3. ASSUME NEW p \in Procs, emplace_back(p) PROVE TypeOK'
    BY <1>3, HeadTailProperties, AppendProperties DEF emplace_back, loopVars, clientVars, OpInv, Busy, InSection
  <1>4. ASSUME swap_task_queue PROVE TypeOK'
    <2>1. phase = "swap" /\ next = 1
      BY <1>4 DEF swap_task_queue, OpInv, WalkInv, Busy, InSection, Procs
    <2>2. seen[Worker] \in Seq(Task) /\ Len(seen[Worker]) \in Nat
      BY LenProperties DEF Procs
    <2>3. next' \in 1 .. Len(taskQueue') + 1
      BY <1>4, <2>1, <2>2 DEF swap_task_queue
    <2> QED BY <1>4, <2>2, <2>3 DEF swap_task_queue, clientVars
  <1>5. ASSUME NEW c \in Clients, InspectQueue(c) PROVE TypeOK'
    BY <1>5 DEF InspectQueue, loopVars, clientVars, Procs
  <1>6. ASSUME NEW p \in Procs, unlock(p) PROVE TypeOK'
    <2>1. op[p] = "push" => Tail(todo[p]) \in Seq(Task)
      BY <1>6, HeadTailProperties DEF unlock, OpInv, Busy, InSection
    <2>2. todo' \in [Procs -> Seq(Task)]
      BY <1>6, <2>1 DEF unlock
    <2>3. seen' \in [Procs -> Seq(Task)] /\ pc' \in [Procs -> Places] /\ phase' \in Phases
      BY <1>6 DEF unlock
    <2> QED BY <1>6, <2>2, <2>3 DEF unlock, clientVars
  <1>7. ASSUME NEW c \in Clients, Construct(c) PROVE TypeOK'
    BY <1>7 DEF Construct, Call, loopVars, Procs, Lives, T, Task, Action
  <1>8. ASSUME NEW p \in Procs, NEW c \in Clients, Request(p, c) PROVE TypeOK'
    <2>1. T(c, "send") \in Task /\ T(c, "remove") \in Task /\ T(c, "add") \in Task
      BY DEF T, Task, Action
    <2>2. PICK ts \in {<<T(c, "send")>>, <<T(c, "remove"), T(c, "add")>>} : Call(p, ts)
      BY <1>8 DEF Request
    <2>3. ts \in Seq(Task)
      <3>1. \A a \in Task : <<a>> \in Seq(Task)
        OBVIOUS
      <3>2. \A a, b \in Task : <<a, b>> \in Seq(Task)
        OBVIOUS
      <3>3. <<T(c, "send")>> \in Seq(Task)
        BY <2>1, <3>1
      <3>4. <<T(c, "remove"), T(c, "add")>> \in Seq(Task)
        BY <2>1, <3>2
      <3> QED BY <3>3, <3>4
    <2>4. todo' \in [Procs -> Seq(Task)]
      BY <2>2, <2>3 DEF Call
    <2>5. calls' \in [Clients -> Nat]
      BY <1>8 DEF Request
    <2> QED BY <1>8, <2>2, <2>4, <2>5 DEF Request, Call, loopVars
  <1>9. ASSUME NEW c \in Clients, Destruct(c) PROVE TypeOK'
    BY <1>9 DEF Destruct, Call, loopVars, Procs, Lives, T, Task, Action
  <1>10. ASSUME NEW c \in Clients, ReleaseHandle(c) PROVE TypeOK'
    BY <1>10 DEF ReleaseHandle, DropReference, loopVars, Procs, Lives
  <1>11. ASSUME NEW c \in Clients, request_stop(c) \/ join(c) PROVE TypeOK'
    BY <1>11 DEF request_stop, join, loopVars, clientVars, Procs
  <1>12. ASSUME busy_loop \/ LeaveEvents \/ LeaveTimers PROVE TypeOK'
    BY <1>12 DEF busy_loop, LeaveEvents, LeaveTimers, lockVars, clientVars
  <1>13. ASSUME StartSwap PROVE TypeOK'
    BY <1>13 DEF StartSwap, loopVars, clientVars, Procs
  <1>14. ASSUME HandleTask PROVE TypeOK'
    <2>1. Len(taskQueue) \in Nat /\ next \in 1 .. Len(taskQueue)
      BY <1>14, LenProperties DEF HandleTask
    <2>2. taskQueue[next] \in Task
      BY <2>1, ElementOfSeq
    <2>3. handled' \in Seq(Task)
      BY <1>14, <2>2, AppendProperties DEF HandleTask
    <2>4. registered' \subseteq Clients
      BY <1>14, <2>2 DEF HandleTask, Task, Action
    <2>5. next' \in 1 .. Len(taskQueue') + 1
      BY <1>14, <2>1 DEF HandleTask
    <2> QED BY <1>14, <2>3, <2>4, <2>5 DEF HandleTask, lockVars, clientVars
  <1>15. ASSUME ClearTaskQueue PROVE TypeOK'
    BY <1>15 DEF ClearTaskQueue, lockVars, clientVars
  <1>16. ASSUME UNCHANGED vars PROVE TypeOK'
    BY <1>16 DEF vars
  <1> QED BY <1>1, <1>2, <1>3, <1>4, <1>5, <1>6, <1>7, <1>8, <1>9, <1>10, <1>11,
             <1>12, <1>13, <1>14, <1>15, <1>16
          DEF Next, WorkerStep, ClientStep, ClientCall, Callback, Terminated, Procs

-----------------------------------------------------------------------------
(* The spin lock: one step per action that moves a thread's pc.            *)
LEMMA NextLockInv ==
    ASSUME TypeOK, LockInv, SeenInv, OpInv, [Next]_vars
    PROVE  LockInv' /\ SeenInv'
  <1> USE DEF TypeOK, LockInv, SeenInv, MutualExclusion, InSection
  <1>1. ASSUME NEW p \in Procs, lock(p) PROVE LockInv' /\ SeenInv'
    BY <1>1 DEF lock
  <1>2. ASSUME NEW p \in Procs, ReadQueue(p) PROVE LockInv' /\ SeenInv'
    BY <1>2 DEF ReadQueue
  <1>3. ASSUME NEW p \in Procs, emplace_back(p) PROVE LockInv' /\ SeenInv'
    BY <1>3 DEF emplace_back
  <1>4. ASSUME swap_task_queue PROVE LockInv' /\ SeenInv'
    BY <1>4 DEF swap_task_queue, Procs
  <1>5. ASSUME NEW c \in Clients, InspectQueue(c) PROVE LockInv' /\ SeenInv'
    BY <1>5 DEF InspectQueue, Procs
  <1>6. ASSUME NEW p \in Procs, unlock(p) PROVE LockInv' /\ SeenInv'
    BY <1>6 DEF unlock
  <1>7. ASSUME NEW p \in Procs, NEW ts, Call(p, ts) PROVE LockInv' /\ SeenInv'
    BY <1>7 DEF Call
  <1>8. ASSUME NEW c \in Clients, ReleaseHandle(c) PROVE LockInv' /\ SeenInv'
    BY <1>8 DEF ReleaseHandle, DropReference, Procs
  <1>9. ASSUME NEW c \in Clients, request_stop(c) \/ join(c) PROVE LockInv' /\ SeenInv'
    <2>1. CASE request_stop(c)
      BY <2>1, SMTT(30) DEF request_stop, Procs
    <2>2. CASE join(c)
      BY <2>2, SMTT(30) DEF join, Procs
    <2> QED BY <1>9, <2>1, <2>2
  <1>10. ASSUME busy_loop \/ LeaveEvents \/ LeaveTimers \/ HandleTask \/ ClearTaskQueue
         PROVE  LockInv' /\ SeenInv'
    BY <1>10 DEF busy_loop, LeaveEvents, LeaveTimers, HandleTask, ClearTaskQueue, lockVars
  <1>11. ASSUME StartSwap PROVE LockInv' /\ SeenInv'
    BY <1>11 DEF StartSwap, WorkerIdle, Procs
  <1>12. ASSUME UNCHANGED vars PROVE LockInv' /\ SeenInv'
    BY <1>12 DEF vars
  <1>13. ASSUME NEW c \in Clients, ClientCall(c) \/ Callback(c) PROVE LockInv' /\ SeenInv'
    BY <1>7, <1>8, <1>13 DEF ClientCall, Callback, Construct, Request, Destruct, Procs
  <1> QED BY <1>1, <1>2, <1>3, <1>4, <1>5, <1>6, <1>9, <1>10, <1>11, <1>12, <1>13
          DEF Next, WorkerStep, ClientStep, Terminated, Procs

\* What a thread is doing with the lock.
LEMMA NextOpInv ==
    ASSUME TypeOK, OpInv, [Next]_vars
    PROVE  OpInv'
  <1> USE DEF TypeOK, OpInv, Busy, InSection
  <1>1. ASSUME NEW p \in Procs, lock(p) PROVE OpInv'
    BY <1>1 DEF lock, loopVars, clientVars
  <1>2. ASSUME NEW p \in Procs, ReadQueue(p) PROVE OpInv'
    BY <1>2 DEF ReadQueue, loopVars, clientVars
  <1>3. ASSUME NEW p \in Procs, emplace_back(p) PROVE OpInv'
    BY <1>3 DEF emplace_back, loopVars, clientVars
  <1>4. ASSUME swap_task_queue PROVE OpInv'
    BY <1>4 DEF swap_task_queue, clientVars, Procs
  <1>5. ASSUME NEW c \in Clients, InspectQueue(c) PROVE OpInv'
    BY <1>5 DEF InspectQueue, loopVars, clientVars, Procs
  <1>6. ASSUME NEW p \in Procs, unlock(p) PROVE OpInv'
    <2>1. Len(todo[p]) > 1 => Tail(todo[p]) # <<>>
      BY TailNonEmpty
    <2>2. CASE op[p] = "push"
      <3>1. /\ op' = op /\ phase' = phase
            /\ pc'[p] = IF Len(todo[p]) > 1 THEN "acquire" ELSE "idle"
            /\ todo'[p] = Tail(todo[p])
            /\ \A q \in Procs \ {p} : pc'[q] = pc[q] /\ todo'[q] = todo[q]
        BY <1>6, <2>2 DEF unlock
      <3>2. pc'[p] = "acquire" => todo'[p] # <<>>
        BY <2>1, <3>1
      <3>3. pc'[p] \in {"idle", "acquire"}
        BY <3>1
      <3>4. pc'[Worker] \in {"idle", "acquire", "read", "write", "release"}
        BY <3>1, <3>3 DEF Procs
      <3>5. \A q \in Procs : Busy(q)' /\ op'[q] = "push" => todo'[q] # <<>>
        BY <3>1, <3>2, <3>3
      <3>6. \A q \in Procs : Busy(q)' /\ op'[q] # "push" => Busy(q) /\ op[q] = op'[q]
        BY <2>2, <3>1
      <3> QED BY <3>1, <3>4, <3>5, <3>6
    <2>3. CASE op[p] = "swap"
      BY <1>6, <2>3 DEF unlock, clientVars, Procs
    <2>4. CASE op[p] = "inspect"
      BY <1>6, <2>4 DEF unlock, clientVars, Procs
    <2> QED BY <2>2, <2>3, <2>4
  <1>7. ASSUME NEW p \in Procs, NEW ts, ts # <<>>, Call(p, ts), UNCHANGED phase PROVE OpInv'
    BY <1>7 DEF Call, Procs
  <1>8. ASSUME NEW c \in Clients, Construct(c) \/ Destruct(c) PROVE OpInv'
    BY <1>7, <1>8 DEF Construct, Destruct, loopVars, Procs
  <1>9. ASSUME NEW p \in Procs, NEW c \in Clients, Request(p, c) PROVE OpInv'
    BY <1>7, <1>9 DEF Request, loopVars
  <1>10. ASSUME NEW c \in Clients, ReleaseHandle(c) PROVE OpInv'
    BY <1>10 DEF ReleaseHandle, DropReference, InUse, loopVars, Procs
  <1>11. ASSUME NEW c \in Clients, request_stop(c) \/ join(c) PROVE OpInv'
    BY <1>11 DEF request_stop, join, loopVars, clientVars, Procs
  <1>12. ASSUME busy_loop \/ LeaveEvents \/ LeaveTimers \/ HandleTask \/ ClearTaskQueue
         PROVE  OpInv'
    BY <1>12 DEF busy_loop, LeaveEvents, LeaveTimers, HandleTask, ClearTaskQueue,
                 WorkerIdle, lockVars, clientVars, Procs
  <1>13. ASSUME StartSwap PROVE OpInv'
    BY <1>13 DEF StartSwap, WorkerIdle, loopVars, clientVars, Procs
  <1>14. ASSUME UNCHANGED vars PROVE OpInv'
    BY <1>14 DEF vars
  <1> QED BY <1>1, <1>2, <1>3, <1>4, <1>5, <1>6, <1>8, <1>9, <1>10, <1>11,
             <1>12, <1>13, <1>14
          DEF Next, WorkerStep, ClientStep, ClientCall, Callback, Terminated, Procs

\* A callback's client stays alive while the callback pushes.
LEMMA NextCallbackInv ==
    ASSUME TypeOK, OpInv, CallbackInv, [Next]_vars
    PROVE  CallbackInv'
  <1> USE DEF TypeOK, CallbackInv
  <1>1. ASSUME UNCHANGED <<op, todo, life>>, pc[Worker] = "idle" => pc'[Worker] = "idle"
        PROVE  CallbackInv'
    BY <1>1
  <1>2. ASSUME NEW p \in Procs,
               lock(p) \/ ReadQueue(p) \/ emplace_back(p) \/ InspectQueue(p) \/ request_stop(p)
        PROVE  CallbackInv'
    BY <1>1, <1>2 DEF lock, ReadQueue, emplace_back, InspectQueue, request_stop, loopVars, clientVars, Procs
  <1>3. ASSUME swap_task_queue PROVE CallbackInv'
    BY <1>3 DEF swap_task_queue, clientVars, Procs
  <1>4. ASSUME NEW p \in Procs, unlock(p) PROVE CallbackInv'
    <2>1. CASE p = Worker /\ op[p] = "push"
      <3>1. todo'[p] = Tail(todo[p]) /\ op' = op /\ life' = life
        BY <1>4, <2>1 DEF unlock, clientVars
      <3>2. todo[p] \in Seq(Task) /\ todo[p] # <<>>
        BY <1>4, <2>1 DEF unlock, OpInv, Busy, InSection
      <3>3. /\ Len(Tail(todo[p])) = Len(todo[p]) - 1
            /\ \A i \in 1 .. Len(Tail(todo[p])) : Tail(todo[p])[i] = todo[p][i + 1]
            /\ Len(todo[p]) \in Nat
        BY <3>2, HeadTailProperties, LenProperties
      <3>4. pc[p] # "idle"
        BY <1>4 DEF unlock
      <3> QED BY <2>1, <3>1, <3>3, <3>4
    <2>2. CASE p = Worker /\ op[p] # "push"
      BY <1>4, <2>2 DEF unlock
    <2>3. CASE p # Worker
      BY <1>4, <2>3 DEF unlock, clientVars, Procs
    <2> QED BY <2>1, <2>2, <2>3
  <1>5. ASSUME NEW c \in Clients, Construct(c) \/ Destruct(c) \/ ReleaseHandle(c)
        PROVE  CallbackInv'
    <2> SUFFICES ASSUME pc'[Worker] # "idle", op'[Worker] = "push"
                 PROVE  \E d \in Clients : /\ life'[d] = "added"
                                          /\ \A i \in 1 .. Len(todo'[Worker]) :
                                                todo'[Worker][i].connection = d
      BY DEF CallbackInv
    <2>1. /\ c # Worker /\ c \in Procs /\ Worker \in Procs
          /\ pc'[Worker] = pc[Worker] /\ op'[Worker] = op[Worker]
          /\ todo'[Worker] = todo[Worker] /\ (life[c] = "added" => ~InUse(c))
          /\ \A d \in Clients \ {c} : life'[d] = life[d]
      BY <1>5 DEF Construct, Destruct, ReleaseHandle, DropReference, Call, InUse, Procs
    <2>2. PICK d \in Clients : /\ life[d] = "added"
                              /\ \A i \in 1 .. Len(todo[Worker]) :
                                    todo[Worker][i].connection = d
      BY <2>1
    <2>3. todo[Worker] # <<>> /\ todo[Worker] \in Seq(Task)
      BY <2>1 DEF OpInv, Busy, InSection
    <2>4. 1 \in 1 .. Len(todo[Worker])
      BY <2>3, LenProperties, EmptySeq
    <2>5. d # c
      BY <2>1, <2>2, <2>4 DEF InUse
    <2> QED BY <2>1, <2>2, <2>5
  <1>6. ASSUME NEW p \in Procs, NEW c \in Clients, Request(p, c) PROVE CallbackInv'
    <2>1. PICK ts \in {<<T(c, "send")>>, <<T(c, "remove"), T(c, "add")>>} : Call(p, ts)
      BY <1>6 DEF Request
    <2>2. \A i \in 1 .. Len(ts) : ts[i].connection = c
      <3>1. CASE ts = <<T(c, "send")>>
        BY <3>1 DEF T
      <3>2. CASE ts = <<T(c, "remove"), T(c, "add")>>
        BY <3>2 DEF T
      <3> QED BY <3>1, <3>2
    <2>3. life' = life /\ life[c] = "added"
      BY <1>6 DEF Request
    <2>4. CASE p = Worker
      BY <2>1, <2>2, <2>3, <2>4 DEF Call
    <2>5. CASE p # Worker
      BY <2>1, <2>3, <2>5 DEF Call, Procs
    <2> QED BY <2>4, <2>5
  <1>7. ASSUME NEW c \in Clients, join(c) PROVE CallbackInv'
    BY <1>7 DEF join, clientVars
  <1>8. ASSUME busy_loop \/ LeaveEvents \/ LeaveTimers \/ HandleTask \/ ClearTaskQueue
         PROVE  CallbackInv'
    BY <1>1, <1>8 DEF busy_loop, LeaveEvents, LeaveTimers, HandleTask, ClearTaskQueue,
                 lockVars, clientVars
  <1>9. ASSUME StartSwap PROVE CallbackInv'
    BY <1>9 DEF StartSwap, Procs
  <1>10. ASSUME UNCHANGED vars PROVE CallbackInv'
    BY <1>10 DEF vars
  <1> QED BY <1>2, <1>3, <1>4, <1>5, <1>6, <1>7, <1>8, <1>9, <1>10
          DEF Next, WorkerStep, ClientStep, ClientCall, Callback, Terminated, Procs

-----------------------------------------------------------------------------
(* The walk over the swapped vector.                                       *)
LEMMA NextWalkInv ==
    ASSUME TypeOK, OpInv, WalkInv, [Next]_vars
    PROVE  WalkInv'
  <1> USE DEF TypeOK, OpInv, WalkInv, Swapped, Busy, InSection
  <1>1. ASSUME NEW p \in Procs,
               lock(p) \/ ReadQueue(p) \/ emplace_back(p) \/ unlock(p)
        PROVE  WalkInv'
    BY <1>1 DEF lock, ReadQueue, emplace_back, unlock, loopVars, Procs
  <1>2. ASSUME swap_task_queue PROVE WalkInv'
    BY <1>2 DEF swap_task_queue, Procs
  <1>3. ASSUME NEW p \in Procs, NEW ts, Call(p, ts), UNCHANGED loopVars PROVE WalkInv'
    BY <1>3 DEF Call, loopVars, Procs
  <1>4. ASSUME NEW c \in Clients, ClientCall(c) \/ Callback(c) PROVE WalkInv'
    BY <1>3, <1>4 DEF ClientCall, Callback, Construct, Request, Destruct, ReleaseHandle,
                      DropReference, loopVars, Procs
  <1>5. ASSUME NEW c \in Clients, InspectQueue(c) \/ request_stop(c) \/ join(c) PROVE WalkInv'
    BY <1>5 DEF InspectQueue, request_stop, join, loopVars, Procs
  <1>6. ASSUME busy_loop \/ LeaveEvents \/ LeaveTimers \/ HandleTask \/ ClearTaskQueue
         PROVE  WalkInv'
    BY <1>6 DEF busy_loop, LeaveEvents, LeaveTimers, HandleTask, ClearTaskQueue,
                 WorkerIdle, lockVars
  <1>7. ASSUME StartSwap PROVE WalkInv'
    BY <1>7 DEF StartSwap, WorkerIdle, loopVars, Procs
  <1>8. ASSUME UNCHANGED vars PROVE WalkInv'
    BY <1>8 DEF vars
  <1> QED BY <1>1, <1>2, <1>4, <1>5, <1>6, <1>7, <1>8
          DEF Next, WorkerStep, ClientStep, Terminated, Procs

-----------------------------------------------------------------------------
(* Shutdown.                                                               *)

\* Nobody pushes once every client is released.
LEMMA QuitMeansNoPush ==
    ASSUME TypeOK, OpInv, CallbackInv, StopInv, Quit,
           NEW p \in Procs, Busy(p)
    PROVE  op[p] # "push"
  <1>1. CASE p = Worker
    BY <1>1 DEF CallbackInv, Quit, Busy, InSection
  <1>2. CASE p \in Clients
    BY <1>2 DEF StopInv, Quit
  <1> QED BY <1>1, <1>2 DEF Procs

\* The stop token is set when no client is left, and the thread ends after a
\* last walk.
LEMMA NextStopInv ==
    ASSUME TypeOK, OpInv, CallbackInv, WalkInv, StopInv, [Next]_vars
    PROVE  StopInv'
  <1> USE DEF TypeOK, StopInv, Swapped, Quit, Inspecting, Busy, InSection
  <1>1. ASSUME NEW p \in Procs, lock(p) \/ ReadQueue(p) PROVE StopInv'
    <2>1. /\ UNCHANGED <<op, tasksQueue, stop, draining, phase, life>>
          /\ pc[p] \in {"acquire", "read"} /\ pc'[p] \in {"read", "write"}
          /\ \A q \in Procs \ {p} : pc'[q] = pc[q]
      BY <1>1 DEF lock, ReadQueue, loopVars, clientVars
    <2>2. \A c \in Clients : Busy(c)' = Busy(c) /\ Inspecting(c)' = Inspecting(c)
      BY <2>1 DEF Procs
    <2>3. Swapped' = Swapped
      BY <2>1 DEF Procs
    <2>4. phase = "ended" => p # Worker
      BY <2>1
    <2>5. \A c \in Clients : pc'[c] \in {"stop", "join"} => pc[c] \in {"stop", "join"}
      BY <2>1 DEF Procs
    <2> HIDE DEF Swapped, Inspecting, Busy
    <2> QED BY <2>1, <2>2, <2>3, <2>4, <2>5 DEF Procs
  <1>2. ASSUME NEW p \in Procs, emplace_back(p) PROVE StopInv'
    <2>1. ~Quit
      BY <1>2, QuitMeansNoPush DEF emplace_back
    <2> QED BY <1>2, <2>1 DEF emplace_back, loopVars, clientVars
  <1>3. ASSUME swap_task_queue PROVE StopInv'
    BY <1>3 DEF swap_task_queue, clientVars, OpInv, WalkInv, Procs
  <1>4. ASSUME NEW c \in Clients, InspectQueue(c) PROVE StopInv'
    BY <1>4 DEF InspectQueue, loopVars, clientVars, Procs
  <1>5. ASSUME NEW p \in Procs, unlock(p) PROVE StopInv'
    BY <1>5 DEF unlock, clientVars, OpInv, Procs
  <1>6. ASSUME NEW c \in Clients, Construct(c) \/ Destruct(c) PROVE StopInv'
    <2>1. ~Quit /\ ~Quit'
      BY <1>6 DEF Construct, Destruct
    <2>2. /\ UNCHANGED <<tasksQueue, stop, draining, phase>>
          /\ pc[c] = "idle" /\ pc'[c] = "acquire" /\ op'[c] = "push"
          /\ life'[c] # "released"
          /\ \A q \in Procs \ {c} : pc'[q] = pc[q] /\ op'[q] = op[q]
          /\ \A d \in Clients \ {c} : life'[d] = life[d]
      BY <1>6 DEF Construct, Destruct, Call, loopVars, Procs
    <2>3. Swapped' = Swapped
      BY <2>2 DEF Procs
    <2>4. \A d \in Clients \ {c} : Busy(d)' = Busy(d) /\ Inspecting(d)' = Inspecting(d)
      BY <2>2 DEF Procs
    <2>5. ~Inspecting(c)'
      BY <2>2
    <2>6. ~stop /\ ~draining /\ phase # "ended"
      BY <2>1
    <2>7. \A d \in Clients : ~Inspecting(d)' /\ pc'[d] \notin {"stop", "join"}
      BY <2>1, <2>2, <2>4, <2>5 DEF Procs
    <2>8. \A d \in Clients : life'[d] = "released" => ~(Busy(d)' /\ op'[d] = "push")
      BY <2>2, <2>4 DEF Procs
    <2> HIDE DEF Swapped, Inspecting, Busy, Quit
    <2> QED BY <2>2, <2>6, <2>7, <2>8
  <1>7. ASSUME NEW p \in Procs, NEW c \in Clients, Request(p, c),
               p = Worker => phase # "ended", p # Worker => p = c
        PROVE  StopInv'
    BY <1>7 DEF Request, Call, loopVars, Lives, Procs
  <1>8. ASSUME NEW c \in Clients, ReleaseHandle(c) PROVE StopInv'
    BY <1>8 DEF ReleaseHandle, DropReference, InUse, loopVars, Procs
  <1>9. ASSUME NEW c \in Clients, request_stop(c) \/ join(c) PROVE StopInv'
    <2>1. Quit /\ Quit'
      BY <1>9 DEF request_stop, join, clientVars
    <2>2. CASE request_stop(c)
      BY <2>1, <2>2 DEF request_stop, loopVars, clientVars, Procs
    <2>3. CASE join(c)
      BY <2>1, <2>3 DEF join, loopVars, clientVars, Procs
    <2> QED BY <1>9, <2>2, <2>3
  <1>10. ASSUME busy_loop \/ LeaveEvents \/ LeaveTimers PROVE StopInv'
    <2>1. CASE busy_loop
      BY <2>1, SMTT(30) DEF busy_loop, WorkerIdle, lockVars, clientVars
    <2>2. CASE LeaveEvents \/ LeaveTimers
      BY <2>2, SMTT(30) DEF LeaveEvents, LeaveTimers, WorkerIdle, lockVars, clientVars
    <2> QED BY <1>10, <2>1, <2>2
  <1>11. ASSUME HandleTask \/ ClearTaskQueue PROVE StopInv'
    <2>1. CASE HandleTask
      BY <2>1, SMTT(30) DEF HandleTask, WorkerIdle, lockVars, clientVars
    <2>2. CASE ClearTaskQueue
      BY <2>2, SMTT(30) DEF ClearTaskQueue, WorkerIdle, lockVars, clientVars
    <2> QED BY <1>11, <2>1, <2>2
  <1>12. ASSUME StartSwap PROVE StopInv'
    BY <1>12 DEF StartSwap, WorkerIdle, loopVars, clientVars, Procs
  <1>13. ASSUME UNCHANGED vars PROVE StopInv'
    BY <1>13 DEF vars
  <1> HIDE DEF TypeOK, StopInv, Swapped, Quit, Inspecting, Busy, InSection
  <1>14. ASSUME NEW c \in Clients, Callback(c) \/ Request(c, c) PROVE StopInv'
    <2>1. CASE Request(c, c)
      BY <1>7, <2>1 DEF Procs
    <2>2. CASE Callback(c)
      <3>1. phase # "ended" /\ Request(Worker, c)
        BY <2>2 DEF Callback
      <3> QED BY <1>7, <3>1 DEF Procs
    <2> QED BY <1>14, <2>1, <2>2
  <1> QED BY <1>1, <1>2, <1>3, <1>4, <1>5, <1>6, <1>7, <1>8, <1>9, <1>10, <1>11,
             <1>12, <1>13, <1>14
          DEF Next, WorkerStep, ClientStep, ClientCall, Terminated, Procs

-----------------------------------------------------------------------------
(* Order and conservation of the tasks.                                    *)
LEMMA NextHandledInOrder ==
    ASSUME TypeOK, OpInv, SeenInv, WalkInv, HandledInOrder, [Next]_vars
    PROVE  HandledInOrder'
  <1> DEFINE same == UNCHANGED <<handled, taskQueue, next, tasksQueue, submitted>>
  <1>0. /\ handled \in Seq(Task) /\ submitted \in Seq(Task)
        /\ tasksQueue \in Seq(Task) /\ Remaining \in Seq(Task)
    BY RemainingType DEF TypeOK, Remaining
  <1>1. ASSUME same PROVE HandledInOrder'
    BY <1>1 DEF HandledInOrder, Remaining
  <1>2. ASSUME NEW p \in Procs, emplace_back(p) PROVE HandledInOrder'
    <2>1. PICK t \in Task : t = Head(todo[p])
      BY <1>2, HeadTailProperties DEF emplace_back, TypeOK, OpInv, Busy, InSection
    <2>2. /\ tasksQueue' = Append(tasksQueue, t)
          /\ submitted' = Append(submitted, t)
          /\ handled' = handled /\ Remaining' = Remaining
      BY <1>2, <2>1 DEF emplace_back, SeenInv, loopVars, Remaining
    <2>3. (handled \o Remaining) \o Append(tasksQueue, t)
            = ((handled \o Remaining) \o tasksQueue) \o <<t>>
      BY <1>0, ConcatProperties, ConcatAssociative, AppendIsConcat, SMTT(30)
    <2>4. submitted' = submitted \o <<t>>
      BY <1>0, <2>2, AppendIsConcat
    <2> QED BY <2>2, <2>3, <2>4 DEF HandledInOrder
  <1>3. ASSUME swap_task_queue PROVE HandledInOrder'
    <2>1. next = 1 /\ taskQueue = <<>> /\ Remaining = <<>>
      BY <1>3, SubSeqEmpty
         DEF swap_task_queue, OpInv, WalkInv, Swapped, Busy, InSection, Procs, Remaining
    <2>2. /\ handled' = handled /\ submitted' = submitted
          /\ tasksQueue' = <<>> /\ taskQueue' = tasksQueue /\ next' = 1
      BY <1>3, <2>1 DEF swap_task_queue, SeenInv, Procs
    <2>3. Remaining' = tasksQueue
      BY <1>0, <2>2, SubSeqFull DEF Remaining
    <2>4. /\ (handled \o <<>>) \o tasksQueue = handled \o tasksQueue
          /\ (handled \o tasksQueue) \o <<>> = handled \o tasksQueue
      BY <1>0, ConcatProperties, ConcatEmptySeq
    <2> QED BY <2>1, <2>2, <2>3, <2>4 DEF HandledInOrder
  <1>4. ASSUME HandleTask PROVE HandledInOrder'
    <2>1. next \in 1 .. Len(taskQueue) /\ taskQueue \in Seq(Task)
      BY <1>4, LenProperties DEF HandleTask, TypeOK
    <2>2. PICK t \in Task : t = taskQueue[next]
      BY <2>1, ElementOfSeq
    <2>3. /\ handled' = Append(handled, t)
          /\ taskQueue' = taskQueue /\ next' = next + 1
          /\ tasksQueue' = tasksQueue /\ submitted' = submitted
      BY <1>4, <2>2 DEF HandleTask
    <2>4. Remaining = <<t>> \o Remaining'
      BY <2>1, <2>2, <2>3, RemainingStep DEF Remaining
    <2>5. Remaining' \in Seq(Task)
      <3>1. next + 1 \in 1 .. Len(taskQueue) + 1
        BY <2>1, LenProperties
      <3> QED BY <2>1, <2>3, <3>1, RemainingType DEF Remaining
    <2>6. handled' \o Remaining' = handled \o (<<t>> \o Remaining')
      BY <1>0, <2>3, <2>5, AppendIsConcat, ConcatAssociative, SMTT(30)
    <2> QED BY <2>3, <2>4, <2>6 DEF HandledInOrder
  <1>5. ASSUME ClearTaskQueue PROVE HandledInOrder'
    <2>1. Remaining = <<>>
      BY <1>5, SubSeqEmpty, LenProperties DEF ClearTaskQueue, Remaining, TypeOK
    <2>2. taskQueue' = <<>> /\ next' = 1
      BY <1>5 DEF ClearTaskQueue
    <2>3. Remaining' = <<>>
      BY <2>2, SubSeqEmpty DEF Remaining
    <2>4. UNCHANGED <<handled, tasksQueue, submitted>>
      BY <1>5 DEF ClearTaskQueue
    <2> QED BY <2>1, <2>3, <2>4 DEF HandledInOrder
  <1>6. ASSUME NEW p \in Procs, lock(p) \/ ReadQueue(p) \/ unlock(p) PROVE same
    BY <1>6 DEF lock, ReadQueue, unlock, loopVars
  <1>7. ASSUME NEW c \in Clients, ClientCall(c) \/ Callback(c) PROVE same
    BY <1>7 DEF ClientCall, Callback, Construct, Request, Destruct, ReleaseHandle,
                DropReference, Call, loopVars
  <1>8. ASSUME NEW c \in Clients, InspectQueue(c) \/ request_stop(c) \/ join(c) PROVE same
    BY <1>8 DEF InspectQueue, request_stop, join, loopVars
  <1>9. ASSUME busy_loop \/ LeaveEvents \/ LeaveTimers \/ StartSwap PROVE same
    BY <1>9 DEF busy_loop, LeaveEvents, LeaveTimers, StartSwap, loopVars
  <1>10. ASSUME UNCHANGED vars PROVE same
    BY <1>10 DEF vars
  <1> HIDE DEF same
  <1> QED BY <1>1, <1>2, <1>3, <1>4, <1>5, <1>6, <1>7, <1>8, <1>9, <1>10
          DEF Next, WorkerStep, ClientStep, Terminated, Procs

-----------------------------------------------------------------------------
(* The theorems.                                                           *)

\* The invariant is inductive: every step of a client, a callback or the worker
\* thread keeps it.
LEMMA NextIInv == IInv /\ [Next]_vars => IInv'
  BY NextTypeOK, NextLockInv, NextOpInv, NextCallbackInv, NextWalkInv, NextStopInv,
     NextHandledInOrder
  DEF IInv

\* The inductive invariant holds in every reachable state of thread::worker.
THEOREM Invariance == Spec => []IInv
  BY InitIInv, NextIInv, PTL DEF Spec

\* Every variable keeps its type.
THEOREM TypeCorrect == Spec => []TypeOK
  <1>1. IInv => TypeOK
    BY DEF IInv
  <1> QED BY <1>1, Invariance, PTL

\* spin_lock admits at most one thread at a time to m_tasksQueue.
THEOREM Exclusion == Spec => []MutualExclusion
  <1>1. IInv => MutualExclusion
    BY DEF IInv, LockInv
  <1> QED BY <1>1, Invariance, PTL

\* Tasks are neither lost nor duplicated nor reordered on their way from
\* add_connection, enqueue_request and remove_connection to handle_task_queue.
THEOREM InOrder == Spec => []HandledInOrder
  <1>1. IInv => HandledInOrder
    BY DEF IInv
  <1> QED BY <1>1, Invariance, PTL

\* Once ~worker has joined the thread, the queue is empty and every task pushed
\* was handled.
THEOREM CleanShutdown == Spec => []NothingLeftAfterJoin
  <1>1. ASSUME IInv, NEW c \in Clients, Inspecting(c)
        PROVE  tasksQueue = <<>> /\ handled = submitted
    <2>1. phase = "ended" /\ tasksQueue = <<>> /\ pc[Worker] = "idle"
      BY <1>1 DEF IInv, StopInv
    <2>2. taskQueue = <<>> /\ next = 1
      BY <1>1, <2>1 DEF IInv, WalkInv, Swapped
    <2>3. Remaining = <<>>
      BY <2>2, SubSeqEmpty DEF Remaining
    <2>4. handled \in Seq(Task)
      BY <1>1 DEF IInv, TypeOK
    <2>5. (handled \o <<>>) \o <<>> = handled
      BY <2>4, ConcatEmptySeq
    <2> QED BY <1>1, <2>1, <2>3, <2>5 DEF IInv, HandledInOrder
  <1>2. IInv => NothingLeftAfterJoin
    BY <1>1 DEF NothingLeftAfterJoin
  <1> QED BY <1>2, Invariance, PTL

\* Only emplace_back adds to the history of pushed tasks.
LEMMA OnlyPushSubmits ==
    ASSUME [Next]_vars, submitted' # submitted
    PROVE  \E p \in Procs : emplace_back(p)
  BY DEF Next, WorkerStep, ClientStep, ClientCall, Callback, Terminated, Procs, vars,
         lock, ReadQueue, unlock, InspectQueue, request_stop, join, swap_task_queue,
         busy_loop, LeaveEvents, LeaveTimers, StartSwap, HandleTask, ClearTaskQueue,
         Construct, Request, Destruct, ReleaseHandle, DropReference, Call

\* No thread pushes a task once the stop token is set.
THEOREM NoPushOnceStopped == Spec => NoPushAfterStop
  <1>1. ASSUME IInv, [Next]_vars, stop PROVE UNCHANGED submitted
    <2>1. SUFFICES ASSUME NEW p \in Procs, emplace_back(p) PROVE FALSE
      BY <1>1, OnlyPushSubmits
    <2>2. Quit
      BY <1>1 DEF IInv, StopInv
    <2>3. Busy(p) /\ op[p] = "push"
      BY <2>1 DEF emplace_back, Busy, InSection
    <2> QED BY <1>1, <2>2, <2>3, QuitMeansNoPush DEF IInv
  <1>2. IInv /\ [Next]_vars => [stop => UNCHANGED submitted]_vars
    BY <1>1
  <1> QED BY <1>2, Invariance, PTL DEF Spec, NoPushAfterStop

-----------------------------------------------------------------------------
(* Worker implements TaskFifo.                                             *)

pend == Remaining \o tasksQueue
mode == IF Finished THEN "destroyed" ELSE IF stop THEN "stopping" ELSE "open"

\* Taking the head off a sequence that starts with t.
LEMMA TailOfCons ==
    ASSUME NEW t \in Task, NEW s \in Seq(Task)
    PROVE  <<t>> \o s # <<>> /\ Tail(<<t>> \o s) = s
  <1>1. PICK u \in Seq(Task) : /\ u = <<t>> \o s
                              /\ Len(u) = 1 + Len(s)
                              /\ \A i \in 1 .. Len(s) : u[i + 1] = s[i]
    <2>1. <<t>> \in Seq(Task) /\ Len(<<t>>) = 1 /\ Len(s) \in Nat
      BY LenProperties
    <2>2. /\ <<t>> \o s \in Seq(Task) /\ Len(<<t>> \o s) = 1 + Len(s)
          /\ \A i \in 1 .. Len(<<t>>) + Len(s) : (<<t>> \o s)[i] =
                     IF i <= Len(<<t>>) THEN <<t>>[i] ELSE s[i - Len(<<t>>)]
      BY <2>1, ConcatProperties
    <2>3. \A i \in 1 .. Len(s) : i + 1 \in 1 .. 1 + Len(s) /\ (i + 1) - 1 = i /\ ~(i + 1 <= 1)
      BY <2>1
    <2>4. \A i \in 1 .. Len(s) : (<<t>> \o s)[i + 1] = s[i]
      BY <2>1, <2>2, <2>3
    <2> QED BY <2>2, <2>4
  <1>2. Len(s) \in Nat /\ u # <<>>
    BY <1>1, LenProperties
  <1>3. PICK v \in Seq(Task) : /\ v = Tail(u)
                              /\ Len(v) = Len(u) - 1
                              /\ \A i \in 1 .. Len(v) : v[i] = u[i + 1]
    <2>1. u \in Seq(Task) /\ u # <<>>
      BY <1>1, <1>2
    <2>2. /\ Tail(u) \in Seq(Task)
          /\ Len(Tail(u)) = Len(u) - 1
          /\ \A i \in 1 .. Len(Tail(u)) : Tail(u)[i] = u[i + 1]
      BY <2>1, HeadTailProperties, Zenon
    <2> QED BY <2>2, Zenon
  <1>4. v = s
    <2>1. Len(v) = Len(s)
      BY <1>1, <1>2, <1>3
    <2>2. \A i \in 1 .. Len(v) : v[i] = s[i]
      BY <1>1, <1>3, <2>1
    <2> QED BY <1>3, <2>1, <2>2, SeqEqual
  <1> QED BY <1>1, <1>2, <1>3, <1>4, Zenon

\* The initial state is that of TaskFifo.
LEMMA InitFifo == Init => Fifo!Init
  <1> SUFFICES ASSUME Init PROVE Fifo!Init
    OBVIOUS
  <1>1. Remaining = <<>> /\ tasksQueue = <<>>
    BY SubSeqEmpty DEF Init, Remaining
  <1>2. ~Finished /\ ~stop
    BY DEF Init, Finished, Procs
  <1> QED BY <1>1, <1>2, ConcatEmptySeq, EmptySeq DEF Fifo!Init

\* After the queue was found empty nothing is pending.
LEMMA InspectingMeansEmpty ==
    ASSUME IInv, NEW c \in Clients, Inspecting(c)
    PROVE  pend = <<>> /\ stop
  <1>1. phase = "ended" /\ tasksQueue = <<>> /\ pc[Worker] = "idle" /\ stop
    BY DEF IInv, StopInv
  <1>2. taskQueue = <<>> /\ next = 1
    BY <1>1 DEF IInv, WalkInv, Swapped
  <1>3. Remaining = <<>>
    BY <1>2, SubSeqEmpty DEF Remaining
  <1> QED BY <1>1, <1>3, EmptySeq, ConcatEmptySeq DEF pend

\* Every step of the worker and its clients is a step of TaskFifo or stutters.
LEMMA StepFifo ==
    ASSUME IInv, [Next]_vars
    PROVE  [Fifo!Next]_(Fifo!vars)
  <1> USE DEF Finished
  <1> DEFINE same == UNCHANGED <<pend, mode>>
  <1>0. /\ tasksQueue \in Seq(Task) /\ Remaining \in Seq(Task)
        /\ pend \in Seq(Task)
    <2>1. tasksQueue \in Seq(Task) /\ Remaining \in Seq(Task)
      BY RemainingType DEF IInv, TypeOK, Remaining
    <2> QED BY <2>1, ConcatProperties DEF pend
  <1>a. ASSUME \A c \in Clients : pc'[c] = "gone" <=> pc[c] = "gone"
        PROVE  Finished' = Finished
    BY <1>a
  <1>1. ASSUME same PROVE UNCHANGED Fifo!vars
    BY <1>1 DEF pend, mode, Fifo!vars
  <1>2. ASSUME NEW p \in Procs, emplace_back(p) PROVE Fifo!Next
    <2>1. PICK t \in Task : t = Head(todo[p])
      BY <1>2, HeadTailProperties DEF emplace_back, IInv, TypeOK, OpInv, Busy, InSection
    <2>2. tasksQueue' = Append(tasksQueue, t) /\ Remaining' = Remaining
      BY <1>2, <2>1 DEF emplace_back, IInv, SeenInv, loopVars, Remaining
    <2>3. pend' = Append(pend, t)
      BY <1>0, <2>2, ConcatProperties, ConcatAssociative, AppendIsConcat DEF pend
    <2>4. ~Quit
      BY <1>2, QuitMeansNoPush DEF emplace_back, Busy, InSection, IInv
    <2>5. ~stop /\ ~Finished
      BY <2>4 DEF IInv, StopInv, Inspecting
    <2>6. mode = "open" /\ mode' = mode
      BY <1>2, <2>5 DEF emplace_back, mode, Procs
    <2>7. Fifo!Submit(t)
      BY <2>3, <2>6 DEF Fifo!Submit, pend, mode
    <2> QED BY <2>7 DEF Fifo!Next
  <1>3. ASSUME HandleTask PROVE Fifo!Next
    <2>1. next \in 1 .. Len(taskQueue) /\ taskQueue \in Seq(Task)
      BY <1>3, LenProperties DEF HandleTask, IInv, TypeOK
    <2>2. PICK t \in Task : t = taskQueue[next]
      BY <2>1, ElementOfSeq
    <2>3. /\ taskQueue' = taskQueue /\ next' = next + 1 /\ tasksQueue' = tasksQueue
          /\ pc' = pc /\ stop' = stop
      BY <1>3 DEF HandleTask, lockVars
    <2>4. Remaining' \in Seq(Task)
      <3>1. next + 1 \in 1 .. Len(taskQueue) + 1
        BY <2>1, LenProperties
      <3> QED BY <2>1, <2>3, <3>1, RemainingType DEF Remaining
    <2>5. Remaining = <<t>> \o Remaining'
      BY <2>1, <2>2, <2>3, RemainingStep DEF Remaining
    <2>6. pend = <<t>> \o pend' /\ pend' \in Seq(Task)
      BY <1>0, <2>3, <2>4, <2>5, ConcatAssociative, ConcatProperties DEF pend
    <2>7. pend # <<>> /\ pend' = Tail(pend)
      BY <2>6, TailOfCons
    <2>8. mode' = mode
      BY <2>3 DEF mode
    <2>9. Fifo!Handle
      BY <2>7, <2>8 DEF Fifo!Handle, pend, mode
    <2> QED BY <2>9 DEF Fifo!Next
  <1>4. ASSUME swap_task_queue PROVE same
    <2>1. next = 1 /\ taskQueue = <<>> /\ Remaining = <<>>
      BY <1>4, SubSeqEmpty
         DEF swap_task_queue, IInv, OpInv, WalkInv, Swapped, Busy, InSection, Procs, Remaining
    <2>2. tasksQueue' = <<>> /\ taskQueue' = tasksQueue /\ next' = 1
      BY <1>4, <2>1 DEF swap_task_queue, IInv, SeenInv, Procs
    <2>3. Remaining' = tasksQueue
      BY <1>0, <2>2, SubSeqFull DEF Remaining
    <2>4. pend' = pend
      BY <1>0, <2>1, <2>2, <2>3, ConcatEmptySeq DEF pend
    <2>5. mode' = mode
      BY <1>4 DEF swap_task_queue, mode, IInv, TypeOK, Procs
    <2> QED BY <2>4, <2>5
  <1>5. ASSUME ClearTaskQueue PROVE same
    <2>1. Remaining = <<>>
      BY <1>5, SubSeqEmpty, LenProperties DEF ClearTaskQueue, Remaining, IInv, TypeOK
    <2>2. taskQueue' = <<>> /\ next' = 1 /\ UNCHANGED <<tasksQueue, pc, stop>>
      BY <1>5 DEF ClearTaskQueue, lockVars
    <2>3. Remaining' = <<>>
      BY <2>2, SubSeqEmpty DEF Remaining
    <2> QED BY <2>1, <2>2, <2>3 DEF pend, mode
  <1>6. ASSUME NEW c \in Clients, request_stop(c) PROVE [Fifo!Next]_(Fifo!vars)
    <2>1. pend' = pend /\ stop' = TRUE /\ Finished' = Finished
      BY <1>6 DEF request_stop, pend, Remaining, loopVars, IInv, TypeOK, Procs
    <2>2. CASE stop
      BY <1>1, <2>1, <2>2 DEF mode
    <2>3. CASE ~stop
      <3>1. ~Finished
        BY <2>3, InspectingMeansEmpty DEF Inspecting
      <3>2. Fifo!Stop
        BY <2>1, <2>3, <3>1 DEF Fifo!Stop, pend
      <3> QED BY <3>2 DEF Fifo!Next
    <2> QED BY <2>2, <2>3 DEF IInv, TypeOK
  <1>7. ASSUME NEW p \in Procs, unlock(p) PROVE [Fifo!Next]_(Fifo!vars)
    <2>1. pend' = pend /\ stop' = stop
      BY <1>7 DEF unlock, pend, Remaining
    <2>2. CASE op[p] # "inspect"
      <3>1. Finished' = Finished
        BY <1>7, <2>2 DEF unlock, IInv, TypeOK, Procs
      <3> QED BY <1>1, <2>1, <3>1 DEF mode
    <2>3. CASE op[p] = "inspect"
      <3>1. p \in Clients /\ Inspecting(p)
        BY <1>7, <2>3 DEF unlock, IInv, OpInv, Inspecting, Busy, InSection
      <3>2. pend = <<>> /\ stop
        BY <3>1, InspectingMeansEmpty
      <3>3. Finished'
        BY <1>7, <2>3, <3>1 DEF unlock, IInv, TypeOK
      <3>4. CASE Finished
        BY <1>1, <2>1, <3>3, <3>4 DEF mode
      <3>5. CASE ~Finished
        <4>1. Fifo!Destroy
          BY <2>1, <3>2, <3>3, <3>5 DEF Fifo!Destroy, pend
        <4> QED BY <4>1 DEF Fifo!Next
      <3> QED BY <3>4, <3>5
    <2> QED BY <2>2, <2>3
  <1>8. ASSUME NEW p \in Procs, lock(p) \/ ReadQueue(p) PROVE same
    <2>1. UNCHANGED <<taskQueue, next, tasksQueue, stop>>
      BY <1>8 DEF lock, ReadQueue, loopVars
    <2>2. \A c \in Clients : pc'[c] = "gone" <=> pc[c] = "gone"
      BY <1>8 DEF lock, ReadQueue, IInv, TypeOK, Procs
    <2> QED BY <1>a, <2>1, <2>2 DEF pend, mode, Remaining
  <1>9. ASSUME NEW c \in Clients, ClientCall(c) \/ Callback(c) PROVE same
    <2>1. UNCHANGED <<taskQueue, next, tasksQueue, stop>>
      BY <1>9 DEF ClientCall, Callback, Construct, Request, Destruct, ReleaseHandle,
                  DropReference, Call, loopVars
    <2>2. PICK p \in Procs, v \in {"acquire", "stop", "idle"} :
             pc[p] = "idle" /\ pc' = [pc EXCEPT ![p] = v]
      BY <1>9 DEF ClientCall, Callback, Construct, Request, Destruct, ReleaseHandle,
                  DropReference, Call, InUse, Procs
    <2>3. \A d \in Clients : pc'[d] = "gone" <=> pc[d] = "gone"
      BY <2>2 DEF IInv, TypeOK, Procs
    <2> QED BY <1>a, <2>1, <2>3 DEF pend, mode, Remaining
  <1>10. ASSUME NEW c \in Clients, InspectQueue(c) \/ join(c) PROVE same
    <2>1. UNCHANGED <<taskQueue, next, tasksQueue, stop>>
      BY <1>10 DEF InspectQueue, join, loopVars
    <2>2. \A d \in Clients : pc'[d] = "gone" <=> pc[d] = "gone"
      BY <1>10 DEF InspectQueue, join, IInv, TypeOK, Procs
    <2> QED BY <1>a, <2>1, <2>2 DEF pend, mode, Remaining
  <1>11. ASSUME busy_loop \/ LeaveEvents \/ LeaveTimers \/ StartSwap PROVE same
    <2>1. UNCHANGED <<taskQueue, next, tasksQueue, stop>>
      BY <1>11 DEF busy_loop, LeaveEvents, LeaveTimers, StartSwap, lockVars, loopVars
    <2>2. \A d \in Clients : pc'[d] = "gone" <=> pc[d] = "gone"
      BY <1>11 DEF busy_loop, LeaveEvents, LeaveTimers, StartSwap, lockVars, IInv, TypeOK, Procs
    <2> QED BY <1>a, <2>1, <2>2 DEF pend, mode, Remaining
  <1>12. ASSUME UNCHANGED vars PROVE same
    BY <1>12 DEF vars, pend, mode, Remaining
  <1> HIDE DEF same, Finished
  <1> QED BY <1>1, <1>2, <1>3, <1>4, <1>5, <1>6, <1>7, <1>8, <1>9, <1>10, <1>11, <1>12
          DEF Next, WorkerStep, ClientStep, Terminated, Procs

\* What the clients see of thread::worker is a first-in first-out queue that
\* accepts nothing after the stop request and is destroyed empty.
THEOREM RefinesTaskFifo == Spec => Fifo!Spec
  BY InitFifo, StepFifo, Invariance, PTL DEF Spec, Fifo!Spec

-----------------------------------------------------------------------------
(* No connection is registered when the worker thread ends.                *)

\* By the tasks of s, client c was added and not removed since.
Reg(s, c) == \E i \in 1 .. Len(s) : /\ s[i] = T(c, "add")
                                    /\ \A j \in i + 1 .. Len(s) : s[j] # T(c, "remove")

\* The destructor of client c has still to push its remove task.
Removing(c) == /\ pc[c] \in {"acquire", "read", "write"}
               /\ op[c] = "push"
               /\ todo[c] = <<T(c, "remove")>>

\* A client's own thread pushes tasks of that client only, and its destructor
\* pushes nothing but the removal.
OwnPush(c) == Busy(c) /\ op[c] = "push" =>
    \/ /\ life[c] = "added"
       /\ \A i \in 1 .. Len(todo[c]) : todo[c][i].connection = c
    \/ /\ life[c] = "removed"
       /\ todo[c] = <<T(c, "remove")>>

\* A connection is registered only by a task that was handled, and a client
\* whose tasks end in an add still lives or is about to push its removal.
RegInv == \A c \in Clients :
    /\ OwnPush(c)
    /\ c \in registered => Reg(handled, c)
    /\ Reg(submitted, c) => life[c] = "added" \/ Removing(c)

\* What one more task does to who is added: an add registers its client, and
\* every task but a remove leaves a registered client so.
LEMMA RegAppend ==
    ASSUME NEW s \in Seq(Task), NEW t \in Task, NEW c \in Clients
    PROVE  Reg(Append(s, t), c) <=>
               t = T(c, "add") \/ (t # T(c, "remove") /\ Reg(s, c))
  <1> DEFINE n == Len(s)
             u == Append(s, t)
  <1>1. /\ n \in Nat /\ Len(u) = n + 1 /\ u[n + 1] = t
        /\ \A i \in 1 .. n : u[i] = s[i]
    BY AppendProperties, LenProperties
  <1>2. T(c, "add") # T(c, "remove")
    BY DEF T
  <1> HIDE DEF u, n
  <1>3. ASSUME Reg(u, c) PROVE t = T(c, "add") \/ (t # T(c, "remove") /\ Reg(s, c))
    <2>1. PICK i \in 1 .. n + 1 : /\ u[i] = T(c, "add")
                                  /\ \A j \in i + 1 .. n + 1 : u[j] # T(c, "remove")
      BY <1>1, <1>3 DEF Reg
    <2>2. CASE i = n + 1
      BY <1>1, <2>1, <2>2
    <2>3. CASE i # n + 1
      <3>1. i \in 1 .. n /\ n + 1 \in i + 1 .. n + 1
        BY <1>1, <2>3
      <3>2. t # T(c, "remove") /\ s[i] = T(c, "add")
        BY <1>1, <2>1, <3>1
      <3>3. \A j \in i + 1 .. n : j \in i + 1 .. n + 1 /\ j \in 1 .. n
        BY <1>1, <3>1
      <3>4. \A j \in i + 1 .. n : s[j] # T(c, "remove")
        BY <1>1, <2>1, <3>3
      <3>5. Reg(s, c)
        BY <3>1, <3>2, <3>4 DEF Reg, n
      <3> QED BY <3>2, <3>5
    <2> QED BY <2>2, <2>3
  <1>4. ASSUME t = T(c, "add") PROVE Reg(u, c)
    <2>1. n + 1 \in 1 .. n + 1 /\ \A j \in (n + 1) + 1 .. n + 1 : FALSE
      BY <1>1
    <2> QED BY <1>1, <1>4, <2>1 DEF Reg
  <1>5. ASSUME t # T(c, "remove"), Reg(s, c) PROVE Reg(u, c)
    <2>1. PICK i \in 1 .. n : /\ s[i] = T(c, "add")
                              /\ \A j \in i + 1 .. n : s[j] # T(c, "remove")
      BY <1>5 DEF Reg, n
    <2>2. i \in 1 .. n + 1
      BY <1>1
    <2>3. \A j \in i + 1 .. n + 1 : j = n + 1 \/ (j \in i + 1 .. n /\ j \in 1 .. n)
      BY <1>1
    <2>4. \A j \in i + 1 .. n + 1 : u[j] # T(c, "remove")
      BY <1>1, <1>5, <2>1, <2>3
    <2>5. u[i] = T(c, "add")
      BY <1>1, <2>1
    <2> QED BY <1>1, <2>2, <2>4, <2>5 DEF Reg
  <1> QED BY <1>3, <1>4, <1>5 DEF u

\* The part of RegInv about one client.
RegOf(c) == /\ OwnPush(c)
            /\ c \in registered => Reg(handled, c)
            /\ Reg(submitted, c) => life[c] = "added" \/ Removing(c)

\* A step that leaves a client's call, its life and the histories alone keeps
\* what RegInv says of it.
LEMMA RegUntouched ==
    ASSUME NEW c \in Clients, RegOf(c),
           UNCHANGED <<registered, handled, submitted>>,
           pc'[c] = pc[c], op'[c] = op[c], todo'[c] = todo[c], life'[c] = life[c]
    PROVE  RegOf(c)'
  BY DEF RegOf, OwnPush, Removing, Busy, InSection, Reg

\* The pushes: appending a task to the history of what was submitted.
LEMMA RegPush ==
    ASSUME IInv, NEW p \in Procs, emplace_back(p), NEW c \in Clients, RegInv
    PROVE  RegOf(c)'
  <1>1. /\ Busy(p) /\ pc[p] = "write" /\ op[p] = "push"
        /\ todo[p] # <<>> /\ todo[p] \in Seq(Task) /\ submitted \in Seq(Task)
    BY DEF emplace_back, IInv, TypeOK, OpInv, Busy, InSection
  <1>2. PICK t \in Task : t = Head(todo[p])
    BY <1>1, HeadTailProperties
  <1>3. /\ submitted' = Append(submitted, t)
        /\ UNCHANGED <<op, todo, life, handled, registered>>
        /\ \A q \in Procs \ {p} : pc'[q] = pc[q]
        /\ pc'[p] = "release"
    BY <1>2 DEF emplace_back, loopVars, clientVars, IInv, TypeOK
  <1>4. t = todo[p][1] /\ 1 \in 1 .. Len(todo[p])
    BY <1>1, <1>2, EmptySeq, LenProperties
  <1>5. RegOf(c)
    BY DEF RegInv, RegOf
  <1>6. OwnPush(c)'
    <2>1. Busy(c)' => Busy(c)
      BY <1>1, <1>3 DEF Busy, InSection, Procs
    <2> QED BY <1>3, <1>5, <2>1 DEF OwnPush, RegOf
  <1>7. (c \in registered => Reg(handled, c))'
    BY <1>3, <1>5 DEF RegOf, Reg
  <1>8. ASSUME Reg(submitted, c)' PROVE life'[c] = "added" \/ Removing(c)'
    <2>1. t = T(c, "add") \/ (t # T(c, "remove") /\ Reg(submitted, c))
      <3>1. Reg(Append(submitted, t), c)
        BY <1>3, <1>8 DEF Reg
      <3> QED BY <1>1, <3>1, RegAppend
    <2>2. CASE p = c
      <3>1. OwnPush(c) /\ life' = life
        BY <1>3, <1>5 DEF RegOf
      <3>2. life[c] = "added" \/ todo[c] = <<T(c, "remove")>>
        BY <1>1, <2>2, <3>1 DEF OwnPush
      <3>3. todo[c] = <<T(c, "remove")>> => t = T(c, "remove")
        BY <1>4, <2>2
      <3>4. T(c, "remove") # T(c, "add")
        BY DEF T
      <3> QED BY <2>1, <3>1, <3>2, <3>3, <3>4
    <2>3. CASE p # c
      <3>1. ASSUME t = T(c, "add") PROVE life[c] = "added"
        <4>1. t.connection = c
          BY <3>1 DEF T
        <4>2. CASE p = Worker
          <5>1. PICK d \in Clients : /\ life[d] = "added"
                                    /\ \A i \in 1 .. Len(todo[p]) : todo[p][i].connection = d
            BY <1>1, <4>2 DEF IInv, CallbackInv
          <5> QED BY <1>4, <4>1, <5>1
        <4>3. CASE p \in Clients
          <5>1. OwnPush(p)
            BY <4>3 DEF RegInv
          <5>2. todo[p][1].connection = p
            <6>1. CASE \A i \in 1 .. Len(todo[p]) : todo[p][i].connection = p
              BY <1>4, <6>1
            <6>2. CASE todo[p] = <<T(p, "remove")>>
              BY <6>2 DEF T
            <6> QED BY <1>1, <5>1, <6>1, <6>2 DEF OwnPush
          <5> QED BY <1>4, <2>3, <4>1, <5>2
        <4> QED BY <4>2, <4>3 DEF Procs
      <3>2. Reg(submitted, c) => life[c] = "added" \/ Removing(c)
        BY <1>5 DEF RegOf
      <3>3. Removing(c)' = Removing(c)
        BY <1>3, <2>3 DEF Removing, Procs
      <3> QED BY <1>3, <2>1, <3>1, <3>2, <3>3
    <2> QED BY <2>2, <2>3
  <1> QED BY <1>6, <1>7, <1>8 DEF RegOf

\* The end of a push: what remains of a call is of the same client.
LEMMA RegUnlock ==
    ASSUME IInv, NEW p \in Procs, unlock(p), NEW c \in Clients, RegOf(c)
    PROVE  RegOf(c)'
  <1>1. /\ UNCHANGED <<op, life, submitted, registered, handled>>
        /\ pc[p] = "release"
        /\ \A q \in Procs \ {p} : pc'[q] = pc[q] /\ todo'[q] = todo[q]
        /\ todo'[p] = IF op[p] = "push" THEN Tail(todo[p]) ELSE todo[p]
        /\ pc'[p] = IF op[p] = "push" /\ Len(todo[p]) > 1 THEN "acquire"
                    ELSE IF op[p] = "inspect" THEN "gone" ELSE "idle"
    BY DEF unlock, clientVars, IInv, TypeOK
  <1>2. CASE p # c
    BY <1>1, <1>2, RegUntouched DEF Procs
  <1>3. CASE p = c
    <2>1. ~Removing(c)
      BY <1>1, <1>3 DEF Removing
    <2>2. Reg(submitted, c)' => life'[c] = "added"
      BY <1>1, <2>1 DEF RegOf, Reg
    <2>3. (c \in registered => Reg(handled, c))'
      BY <1>1 DEF RegOf, Reg
    <2>4. OwnPush(c)'
      <3> SUFFICES ASSUME Busy(c)', op'[c] = "push" PROVE OwnPush(c)'
        BY DEF OwnPush
      <3>1. op[c] = "push" /\ Busy(c)
        BY <1>1, <1>3 DEF Busy, InSection
      <3>2. Len(todo[c]) > 1
        BY <1>1, <1>3, <3>1 DEF Busy, InSection
      <3>3. todo[c] # <<T(c, "remove")>>
        <4>1. \A t : Len(<<t>>) = 1
          OBVIOUS
        <4>2. Len(<<T(c, "remove")>>) = 1
          BY <4>1, Zenon
        <4>3. ~(1 > 1)
          OBVIOUS
        <4> QED BY <3>2, <4>2, <4>3, Zenon
      <3>4. life[c] = "added" /\ \A i \in 1 .. Len(todo[c]) : todo[c][i].connection = c
        BY <3>1, <3>3 DEF RegOf, OwnPush
      <3>5. todo[c] \in Seq(Task) /\ todo[c] # <<>>
        BY <3>1 DEF IInv, TypeOK, OpInv, Procs
      <3>6. /\ Len(Tail(todo[c])) = Len(todo[c]) - 1
            /\ \A i \in 1 .. Len(Tail(todo[c])) : Tail(todo[c])[i] = todo[c][i + 1]
            /\ Len(todo[c]) \in Nat
        BY <3>5, HeadTailProperties, LenProperties
      <3>7. \A i \in 1 .. Len(Tail(todo[c])) : i + 1 \in 1 .. Len(todo[c])
        BY <3>6
      <3>8. todo'[c] = Tail(todo[c]) /\ life'[c] = "added"
        BY <1>1, <1>3, <3>1, <3>4
      <3>9. \A i \in 1 .. Len(todo'[c]) : todo'[c][i].connection = c
        BY <3>4, <3>6, <3>7, <3>8
      <3> QED BY <3>8, <3>9 DEF OwnPush
    <2> QED BY <2>2, <2>3, <2>4 DEF RegOf
  <1> QED BY <1>2, <1>3

\* The calls of a client, by its own thread or by a callback.
LEMMA RegCall ==
    ASSUME IInv, NEW c \in Clients, RegOf(c), NEW d \in Clients,
           ClientCall(d) \/ Callback(d)
    PROVE  RegOf(c)'
  <1> USE DEF IInv, TypeOK
  <1>1. UNCHANGED <<registered, handled, submitted>>
    BY DEF ClientCall, Callback, Construct, Request, Destruct, ReleaseHandle,
           DropReference, Call, loopVars
  <1>2. ASSUME Callback(d) PROVE RegOf(c)'
    <2>1. pc'[c] = pc[c] /\ op'[c] = op[c] /\ todo'[c] = todo[c] /\ life' = life
      BY <1>2 DEF Callback, Request, Call, Procs
    <2> QED BY <1>1, <2>1, RegUntouched
  <1>3. ASSUME ClientCall(d), d # c PROVE RegOf(c)'
    <2>1. pc'[c] = pc[c] /\ op'[c] = op[c] /\ todo'[c] = todo[c] /\ life'[c] = life[c]
      BY <1>3 DEF ClientCall, Construct, Request, Destruct, ReleaseHandle, DropReference,
                  Call, Procs
    <2> QED BY <1>1, <2>1, RegUntouched
  <1>4. (c \in registered => Reg(handled, c))'
    BY <1>1 DEF RegOf, Reg
  <1>5. Reg(submitted, c)' => life[c] = "added" \/ Removing(c)
    BY <1>1 DEF RegOf, Reg
  <1>6. ASSUME Construct(c) PROVE RegOf(c)'
    <2>1. life'[c] = "added" /\ todo'[c] = <<T(c, "add")>>
      BY <1>6 DEF Construct, Call, Procs
    <2>2. \A i \in 1 .. Len(todo'[c]) : todo'[c][i].connection = c
      BY <2>1 DEF T
    <2> QED BY <1>4, <2>1, <2>2 DEF RegOf, OwnPush
  <1>7. ASSUME Request(c, c) PROVE RegOf(c)'
    <2>1. PICK ts \in {<<T(c, "send")>>, <<T(c, "remove"), T(c, "add")>>} : Call(c, ts)
      BY <1>7 DEF Request
    <2>2. \A i \in 1 .. Len(ts) : ts[i].connection = c
      <3>1. CASE ts = <<T(c, "send")>>
        BY <3>1 DEF T
      <3>2. CASE ts = <<T(c, "remove"), T(c, "add")>>
        BY <3>2 DEF T
      <3> QED BY <3>1, <3>2
    <2>3. life'[c] = "added" /\ todo'[c] = ts
      BY <1>7, <2>1 DEF Request, Call, Procs
    <2> QED BY <1>4, <2>2, <2>3 DEF RegOf, OwnPush
  <1>8. ASSUME Destruct(c) PROVE RegOf(c)'
    <2>1. /\ life'[c] = "removed" /\ todo'[c] = <<T(c, "remove")>>
          /\ pc'[c] = "acquire" /\ op'[c] = "push"
      BY <1>8 DEF Destruct, Call, Procs
    <2> QED BY <1>4, <2>1 DEF RegOf, OwnPush, Removing
  <1>9. ASSUME ReleaseHandle(c) PROVE RegOf(c)'
    <2>1. pc[c] = "idle" /\ life[c] # "added" /\ pc'[c] \in {"idle", "stop"}
      BY <1>9 DEF ReleaseHandle, DropReference, InUse, Procs
    <2>2. ~Removing(c) /\ ~Busy(c)'
      BY <2>1 DEF Removing, Busy, InSection
    <2> QED BY <1>4, <1>5, <2>1, <2>2 DEF RegOf, OwnPush
  <1> QED BY <1>2, <1>3, <1>6, <1>7, <1>8, <1>9 DEF ClientCall

\* Handling a task registers the connection of an add and forgets that of a
\* remove.
LEMMA RegHandle ==
    ASSUME IInv, HandleTask, NEW c \in Clients, RegOf(c)
    PROVE  RegOf(c)'
  <1>1. next \in 1 .. Len(taskQueue) /\ taskQueue \in Seq(Task) /\ handled \in Seq(Task)
    BY LenProperties DEF HandleTask, IInv, TypeOK
  <1>2. PICK t \in Task : t = taskQueue[next]
    BY <1>1, ElementOfSeq
  <1>3. /\ handled' = Append(handled, t)
        /\ registered' = CASE t.action = "add"    -> registered \cup {t.connection}
                           [] t.action = "remove" -> registered \ {t.connection}
                           [] t.action = "send"   -> registered
        /\ UNCHANGED <<pc, op, todo, life, submitted>>
    BY <1>2 DEF HandleTask, lockVars, clientVars
  <1>4. t.action \in Action /\ t = T(t.connection, t.action)
    BY DEF Task, T
  <1>5. Reg(handled', c) <=> t = T(c, "add") \/ (t # T(c, "remove") /\ Reg(handled, c))
    BY <1>1, <1>3, RegAppend
  <1>6. ASSUME c \in registered' PROVE Reg(handled', c)
    <2>1. CASE t.action = "add"
      <3>1. c \in registered \/ c = t.connection
        BY <1>3, <1>6, <2>1
      <3>2. t # T(c, "remove")
        BY <2>1 DEF T
      <3> QED BY <1>4, <1>5, <2>1, <3>1, <3>2 DEF RegOf
    <2>2. CASE t.action = "remove"
      <3>1. c \in registered /\ c # t.connection
        BY <1>3, <1>6, <2>2
      <3>2. t # T(c, "remove")
        BY <3>1 DEF T
      <3> QED BY <1>5, <3>1, <3>2 DEF RegOf
    <2>3. CASE t.action = "send"
      <3>1. c \in registered
        BY <1>3, <1>6, <2>3
      <3>2. t # T(c, "remove")
        BY <2>3 DEF T
      <3> QED BY <1>5, <3>1, <3>2 DEF RegOf
    <2> QED BY <1>4, <2>1, <2>2, <2>3 DEF Action
  <1>7. OwnPush(c)' /\ (Reg(submitted, c)' => life'[c] = "added" \/ Removing(c)')
    BY <1>3 DEF RegOf, OwnPush, Removing, Busy, InSection, Reg
  <1> QED BY <1>6, <1>7 DEF RegOf, Reg

\* Every step keeps who is registered and who may still be.
LEMMA NextRegInv ==
    ASSUME IInv, RegInv, [Next]_vars
    PROVE  RegInv'
  <1> SUFFICES ASSUME NEW c \in Clients PROVE RegOf(c)'
    BY DEF RegInv, RegOf
  <1>0. RegOf(c)
    BY DEF RegInv, RegOf
  <1> USE DEF IInv, TypeOK
  <1>1. ASSUME NEW p \in Procs, lock(p) \/ ReadQueue(p) PROVE RegOf(c)'
    <2>1. /\ UNCHANGED <<op, todo, life, registered, handled, submitted>>
          /\ pc[p] \in {"acquire", "read"} /\ pc'[p] \in {"read", "write"}
          /\ \A q \in Procs \ {p} : pc'[q] = pc[q]
      BY <1>1 DEF lock, ReadQueue, loopVars, clientVars
    <2>2. Busy(c)' = Busy(c) /\ Removing(c)' = Removing(c)
      BY <2>1 DEF Busy, InSection, Removing, Procs
    <2> QED BY <1>0, <2>1, <2>2 DEF RegOf, OwnPush, Reg
  <1>2. ASSUME swap_task_queue \/ busy_loop \/ LeaveEvents \/ LeaveTimers \/ StartSwap \/ ClearTaskQueue
        PROVE  RegOf(c)'
    <2>1. /\ UNCHANGED <<registered, handled, submitted, todo, life>>
          /\ pc'[c] = pc[c] /\ op'[c] = op[c]
      BY <1>2 DEF swap_task_queue, busy_loop, LeaveEvents, LeaveTimers, StartSwap,
                  ClearTaskQueue, lockVars, clientVars, loopVars, Procs
    <2> QED BY <1>0, <2>1, RegUntouched
  <1>3. ASSUME NEW d \in Clients, InspectQueue(d) \/ request_stop(d) \/ join(d)
        PROVE  RegOf(c)'
    <2>1. UNCHANGED <<registered, handled, submitted, todo, life>>
      BY <1>3 DEF InspectQueue, request_stop, join, loopVars, clientVars
    <2>2. CASE d # c
      <3>1. pc'[c] = pc[c] /\ op'[c] = op[c]
        BY <1>3, <2>2 DEF InspectQueue, request_stop, join, Procs
      <3> QED BY <1>0, <2>1, <3>1, RegUntouched
    <2>3. CASE d = c
      <3>1. ~Removing(c)
        BY <1>3, <2>3 DEF InspectQueue, request_stop, join, Removing
      <3>2. ~(Busy(c)' /\ op'[c] = "push")
        BY <1>3, <2>3 DEF InspectQueue, request_stop, join, Busy, InSection, Procs
      <3> QED BY <1>0, <2>1, <3>1, <3>2 DEF RegOf, OwnPush, Reg
    <2> QED BY <2>2, <2>3
  <1>4. ASSUME UNCHANGED vars PROVE RegOf(c)'
    BY <1>0, <1>4, RegUntouched DEF vars
  <1>5. ASSUME NEW p \in Procs, emplace_back(p) PROVE RegOf(c)'
    BY <1>5, RegPush
  <1>6. ASSUME NEW p \in Procs, unlock(p) PROVE RegOf(c)'
    BY <1>0, <1>6, RegUnlock
  <1>7. ASSUME NEW d \in Clients, ClientCall(d) \/ Callback(d) PROVE RegOf(c)'
    BY <1>0, <1>7, RegCall
  <1>8. ASSUME HandleTask PROVE RegOf(c)'
    BY <1>0, <1>8, RegHandle
  <1> HIDE DEF IInv, TypeOK
  <1> QED BY <1>1, <1>2, <1>3, <1>4, <1>5, <1>6, <1>7, <1>8
          DEF Next, WorkerStep, ClientStep, Terminated, Procs

\* When the worker thread ends no connection is registered any more: every
\* client was destroyed, its destructor's remove task was handled after all its
\* others, and nothing was added since.
THEOREM ExitIsClean == Spec => []NothingRegisteredAtExit
  <1>1. Init => RegInv
    <2> SUFFICES ASSUME Init, NEW c \in Clients PROVE RegOf(c)
      BY DEF RegInv, RegOf
    <2>1. ~Busy(c) /\ c \notin registered
      BY DEF Init, Busy, InSection, Procs
    <2>2. ~Reg(submitted, c)
      <3>1. submitted = <<>> /\ Len(<<>>) = 0
        BY DEF Init
      <3> QED BY <3>1 DEF Reg
    <2> QED BY <2>1, <2>2 DEF RegOf, OwnPush
  <1>2. ASSUME IInv, RegInv, phase = "ended", NEW c \in registered PROVE FALSE
    <2>1. draining /\ stop /\ Quit /\ tasksQueue = <<>> /\ pc[Worker] = "idle"
      BY <1>2 DEF IInv, StopInv
    <2>2. taskQueue = <<>> /\ next = 1
      BY <1>2, <2>1 DEF IInv, WalkInv, Swapped
    <2>3. Remaining = <<>>
      BY <2>2, SubSeqEmpty DEF Remaining
    <2>4. handled \in Seq(Task) /\ c \in Clients
      BY <1>2 DEF IInv, TypeOK
    <2>5. (handled \o <<>>) \o <<>> = handled
      BY <2>4, ConcatEmptySeq
    <2>6. handled = submitted
      BY <1>2, <2>1, <2>3, <2>5 DEF IInv, HandledInOrder
    <2>7. life[c] = "added" \/ Removing(c)
      BY <1>2, <2>4, <2>6 DEF RegInv
    <2>8. life[c] = "released" /\ ~(Busy(c) /\ op[c] = "push")
      BY <1>2, <2>1, <2>4 DEF Quit, IInv, StopInv
    <2> QED BY <2>7, <2>8 DEF Removing, Busy, InSection
  <1>3. IInv /\ RegInv => NothingRegisteredAtExit
    BY <1>2 DEF NothingRegisteredAtExit, IInv, TypeOK
  <1>4. IInv /\ RegInv /\ [Next]_vars => RegInv'
    BY NextRegInv
  <1> QED BY <1>1, <1>3, <1>4, Invariance, PTL DEF Spec
==============================================================================
