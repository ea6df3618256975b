--------------------------- MODULE WebSocketProofs ---------------------------
(***************************************************************************)
(* Proofs of the safety of WebSocket for any bounds on messages, calls and *)
(* frames, any buffer, and any way the client is configured.  The part     *)
(* that depends on how the client is used (ContractInv) is proved for a    *)
(* client that reconnects only after an error (~LiveReconnect).            *)
(***************************************************************************)
EXTENDS WebSocket, SequenceTheorems, TLAPS

USE BoundsAssumption, BufferAssumption, FlagsAssumption

-----------------------------------------------------------------------------
(* The inductive invariant.                                                *)

Action == {"add", "send", "remove"}

\* The tasks to be handled, the one a call under way has yet to push included.
Pending == IF upc = "write" THEN <<"send">> ELSE IF upc = "reconnect" THEN <<"add">> ELSE <<>>
Tasks   == (batch \o queue) \o Pending

StartsWithAdd(s) == s # <<>> /\ Head(s) = "add"
EndsInRemove(s)  == s # <<>> /\ s[Len(s)] = "remove"
AddsFollow(s)    == \A i \in 2 .. Len(s) : s[i] = "add" => s[i - 1] = "remove"

\* A handler of an event runs in a session, on_error after one; only the reading
\* of a frame is interrupted by nothing.
RoundInv ==
    /\ loc \in {"read", "write"} => curl = "open"
    /\ loc \in {"eventError", "taskError"} => status = "inactive"
    /\ loc \notin {"tasks", "taskError"} => batch = <<>>
    /\ begun => loc = "read" /\ inbound # <<>>

\* What libevent waits for is known wherever the thread is not in a callback of
\* the event; a connection without a handle is new or inactive.
SessionInv ==
    /\ SessionCoherent
    /\ InSession /\ loc \notin {"read", "write"} => "READ" \in armed
    /\ status = "busy" /\ loc \notin {"read", "write"} => "WRITE" \in armed
    /\ status = "initializing" /\ ~handle => StartsWithAdd(Tasks)
    /\ ~handle => ~outReady

\* Every add but the first follows its remove, and finds all released.
Released == ~handle /\ ~InSession /\ ~outReady /\ ~socketEvent /\ timers = 0
AddInv ==
    /\ AddsFollow(Tasks)
    /\ StartsWithAdd(Tasks) => Released

\* The last task of a client that is destroyed is a remove.
Clean == ~handle /\ ~socketEvent /\ armed = {} /\ timers = 0 /\ status = "inactive"
DestroyInv ==
    /\ ~alive => upc = "idle"
    /\ upc = "destroy" \/ ~alive => EndsInRemove(Tasks) \/ (Tasks = <<>> /\ Clean)

IInv == TypeOK /\ RoundInv /\ SessionInv /\ OneTimer /\ AddInv /\ DestroyInv

-----------------------------------------------------------------------------
(* Sequences of tasks.                                                     *)

\* What is appended by a call or a callback.
Pushes == {<<>>, <<"send">>, <<"remove">>, <<"remove", "add">>, <<"remove", "add", "send">>}

\* What a call pushes is a sequence of actions.
LEMMA PushesType == Pushes \subseteq Seq(Action)
  <1>1. <<"send">> \in Seq(Action) /\ <<"remove">> \in Seq(Action) /\ <<>> \in Seq(Action)
    BY DEF Action
  <1>2. <<"remove", "add">> \in Seq(Action)
    BY DEF Action
  <1>3. <<"remove", "add", "send">> \in Seq(Action)
    BY DEF Action
  <1> QED BY <1>1, <1>2, <1>3 DEF Pushes

\* A push leaves what was there before it.
LEMMA PushFacts ==
    ASSUME NEW s \in Seq(Action), NEW t \in Pushes
    PROVE  /\ s \o t \in Seq(Action)
           /\ AddsFollow(s) => AddsFollow(s \o t)
           /\ StartsWithAdd(s \o t) <=> StartsWithAdd(s)
  <1>1. t \in Seq(Action) /\ Len(t) \in Nat /\ Len(s) \in Nat
    BY PushesType, LenProperties
  <1> DEFINE u == s \o t
  <1>2. /\ u \in Seq(Action) /\ Len(u) = Len(s) + Len(t)
        /\ \A i \in 1 .. Len(s) + Len(t) : u[i] = IF i <= Len(s) THEN s[i] ELSE t[i - Len(s)]
    BY <1>1, ConcatProperties
  <1>3. \A i \in 1 .. Len(t) : t[i] = "add" => i > 1 /\ t[i - 1] = "remove"
    <2>1. CASE t \in {<<>>, <<"send">>, <<"remove">>}
      BY <2>1
    <2>2. CASE t = <<"remove", "add">>
      BY <2>2
    <2>3. CASE t = <<"remove", "add", "send">>
      BY <2>3
    <2> QED BY <2>1, <2>2, <2>3 DEF Pushes
  <1> HIDE DEF u
  <1>4. AddsFollow(s) => AddsFollow(u)
    <2> SUFFICES ASSUME AddsFollow(s), NEW i \in 2 .. Len(u), u[i] = "add"
                 PROVE  u[i - 1] = "remove"
      BY DEF AddsFollow
    <2>1. CASE i <= Len(s)
      BY <1>1, <1>2, <2>1 DEF AddsFollow
    <2>2. CASE i > Len(s)
      <3> DEFINE k == i - Len(s)
      <3>1. k \in 1 .. Len(t) /\ t[k] = "add"
        BY <1>1, <1>2, <2>2
      <3>2. k > 1 /\ t[k - 1] = "remove"
        BY <1>3, <3>1
      <3>3. u[i - 1] = t[k - 1]
        BY <1>1, <1>2, <2>2, <3>1, <3>2
      <3> QED BY <3>2, <3>3
    <2> QED BY <1>1, <1>2, <2>1, <2>2
  <1>5. StartsWithAdd(u) <=> StartsWithAdd(s)
    <2>1. CASE s = <<>>
      <3>1. u = t
        BY <1>1, <2>1, ConcatEmptySeq DEF u
      <3>2. ~StartsWithAdd(t)
        BY DEF Pushes, StartsWithAdd
      <3> QED BY <2>1, <3>1, <3>2 DEF StartsWithAdd
    <2>2. CASE s # <<>>
      <3>1. Len(s) > 0 /\ u # <<>>
        BY <1>1, <1>2, <2>2, EmptySeq
      <3>2. Head(u) = Head(s)
        BY <1>1, <1>2, <2>2, <3>1
      <3> QED BY <2>2, <3>1, <3>2 DEF StartsWithAdd
    <2> QED BY <2>1, <2>2
  <1> QED BY <1>2, <1>4, <1>5 DEF u

\* The remove of a destructor comes last.
LEMMA PushRemoveEnds ==
    ASSUME NEW s \in Seq(Action)
    PROVE  EndsInRemove(s \o <<"remove">>)
  BY PushesType DEF EndsInRemove, Pushes

\* A task is handled.
LEMMA TailFacts ==
    ASSUME NEW s \in Seq(Action), s # <<>>
    PROVE  /\ Tail(s) \in Seq(Action)
           /\ AddsFollow(s) => AddsFollow(Tail(s))
           /\ AddsFollow(s) /\ StartsWithAdd(Tail(s)) => Head(s) = "remove"
           /\ EndsInRemove(s) => EndsInRemove(Tail(s)) \/ (Tail(s) = <<>> /\ Head(s) = "remove")
  <1>1. /\ Tail(s) \in Seq(Action) /\ Len(Tail(s)) = Len(s) - 1 /\ Len(s) \in Nat \ {0}
        /\ \A i \in 1 .. Len(Tail(s)) : Tail(s)[i] = s[i + 1]
    BY HeadTailProperties, EmptySeq
  <1> DEFINE u == Tail(s)
  <1> HIDE DEF u
  <1>2. AddsFollow(s) => AddsFollow(u)
    BY <1>1 DEF AddsFollow, u
  <1>3. u # <<>> => Len(u) \in Nat \ {0} /\ Head(u) = s[2] /\ s[Len(s)] = u[Len(u)]
    BY <1>1, EmptySeq DEF u
  <1>4. AddsFollow(s) /\ StartsWithAdd(u) => Head(s) = "remove"
    BY <1>1, <1>3 DEF AddsFollow, StartsWithAdd, u
  <1>5. EndsInRemove(s) => EndsInRemove(u) \/ (u = <<>> /\ Head(s) = "remove")
    <2>1. CASE u = <<>>
      <3>1. Len(u) = 0 /\ Len(s) = 1
        BY <1>1, <2>1 DEF u
      <3> QED BY <2>1, <3>1 DEF EndsInRemove
    <2>2. CASE u # <<>>
      BY <1>3, <2>2 DEF EndsInRemove
    <2> QED BY <2>1, <2>2
  <1> QED BY <1>1, <1>2, <1>4, <1>5 DEF u
\* The first of two sequences that are joined is the one that is handled.
LEMMA TailOfConcat ==
    ASSUME NEW s \in Seq(Action), NEW t \in Seq(Action), s # <<>>
    PROVE  /\ s \o t # <<>>
           /\ Head(s \o t) = Head(s)
           /\ Tail(s \o t) = Tail(s) \o t
  <1>1. /\ Tail(s) \in Seq(Action) /\ Len(Tail(s)) = Len(s) - 1
        /\ Len(s) \in Nat \ {0} /\ Len(t) \in Nat
        /\ \A i \in 1 .. Len(Tail(s)) : Tail(s)[i] = s[i + 1]
    BY HeadTailProperties, EmptySeq, LenProperties
  <1> DEFINE u == s \o t
             v == Tail(s) \o t
  <1>2. /\ u \in Seq(Action) /\ Len(u) = Len(s) + Len(t)
        /\ \A i \in 1 .. Len(s) + Len(t) : u[i] = IF i <= Len(s) THEN s[i] ELSE t[i - Len(s)]
    BY <1>1, ConcatProperties
  <1>3. /\ v \in Seq(Action) /\ Len(v) = Len(s) - 1 + Len(t)
        /\ \A i \in 1 .. Len(s) - 1 + Len(t) :
              v[i] = IF i <= Len(s) - 1 THEN s[i + 1] ELSE t[i - (Len(s) - 1)]
    BY <1>1, ConcatProperties
  <1> HIDE DEF u, v
  <1>4. u # <<>> /\ Head(u) = Head(s)
    BY <1>1, <1>2
  <1>5. /\ Tail(u) \in Seq(Action) /\ Len(Tail(u)) = Len(u) - 1
        /\ \A i \in 1 .. Len(Tail(u)) : Tail(u)[i] = u[i + 1]
    BY <1>2, <1>4, HeadTailProperties
  <1>6. \A i \in 1 .. Len(v) : Tail(u)[i] = v[i]
    BY <1>1, <1>2, <1>3, <1>5
  <1>7. Tail(u) = v
    BY <1>1, <1>2, <1>3, <1>5, <1>6, SeqEqual
  <1> QED BY <1>4, <1>7 DEF u, v

-----------------------------------------------------------------------------
(* What a step does to the tasks.                                          *)

\* The tasks, waiting, swapped in or about to be pushed, are sequences of
\* actions.
LEMMA TasksType ==
    ASSUME TypeOK
    PROVE  /\ batch \in Seq(Action) /\ queue \in Seq(Action) /\ Pending \in Seq(Action)
           /\ Tasks \in Seq(Action)
  <1>1. batch \in Seq(Action) /\ queue \in Seq(Action)
    BY DEF TypeOK, Action
  <1>2. <<>> \in Seq(Action) /\ <<"send">> \in Seq(Action) /\ <<"add">> \in Seq(Action)
    BY DEF Action
  <1>3. Pending \in Seq(Action)
    BY <1>2, Zenon DEF Pending
  <1> QED BY <1>1, <1>3, ConcatProperties DEF Tasks

\* Concatenation of tasks is associative.
LEMMA Associative ==
    \A s, t, u \in Seq(Action) : (s \o t) \o u = s \o (t \o u)
  BY ConcatAssociative

\* A call with nothing pending pushes t, at once or in two steps.
LEMMA TasksPushed ==
    ASSUME TypeOK, NEW t \in Pushes, Pending = <<>>,
           batch' = batch, queue' \o Pending' = queue \o t,
           queue' \in Seq(Action), Pending' \in Seq(Action)
    PROVE  Tasks' = Tasks \o t
  <1>1. batch \in Seq(Action) /\ queue \in Seq(Action) /\ t \in Seq(Action)
    BY TasksType, PushesType
  <1>2. Tasks = batch \o queue
    BY <1>1, ConcatProperties, ConcatEmptySeq DEF Tasks
  <1>3. Tasks' = (batch \o queue') \o Pending'
    BY DEF Tasks
  <1>4. (batch \o queue') \o Pending' = batch \o (queue' \o Pending')
    BY <1>1, Associative, Zenon
  <1>5. (batch \o queue) \o t = batch \o (queue \o t)
    BY <1>1, Associative, Zenon
  <1> QED BY <1>2, <1>3, <1>4, <1>5, Zenon

\* The second step of a call pushes what was pending.
LEMMA TasksKept ==
    ASSUME TypeOK, batch' = batch, queue' = queue \o Pending, Pending' = <<>>
    PROVE  Tasks' = Tasks
  <1>1. batch \in Seq(Action) /\ queue \in Seq(Action) /\ Pending \in Seq(Action)
    BY TasksType
  <1>2. Tasks' = batch \o (queue \o Pending)
    BY <1>1, ConcatProperties, ConcatEmptySeq DEF Tasks
  <1> QED BY <1>1, <1>2, Associative DEF Tasks

\* The swap of an empty vector changes nothing.
LEMMA TasksSwapped ==
    ASSUME TypeOK, batch = <<>>, batch' = queue, queue' = <<>>, Pending' = Pending
    PROVE  Tasks' = Tasks
  BY TasksType, ConcatEmptySeq DEF Tasks

\* A task is handled.
LEMMA TasksHandled ==
    ASSUME TypeOK, batch # <<>>, batch' = Tail(batch), queue' = queue, Pending' = Pending
    PROVE  Tasks # <<>> /\ Head(Tasks) = Head(batch) /\ Tasks' = Tail(Tasks)
  <1>1. batch \in Seq(Action) /\ queue \in Seq(Action) /\ Pending \in Seq(Action)
    BY TasksType
  <1> DEFINE rest == queue \o Pending
  <1>2. rest \in Seq(Action)
    BY <1>1, ConcatProperties
  <1>3. Tasks = batch \o rest
    BY <1>1, Associative DEF Tasks
  <1>4. Tail(batch) \in Seq(Action)
    BY <1>1, HeadTailProperties
  <1>5. Tasks' = Tail(batch) \o rest
    BY <1>1, <1>4, Associative DEF Tasks
  <1> QED BY <1>1, <1>2, <1>3, <1>5, TailOfConcat

\* The steps that push nothing and handle nothing.
QuietStep ==
    \/ on_recv_message \/ NoEvent \/ NoTimer \/ TickAfterEnd \/ TasksDone
    \/ RecvNothing \/ RecvFails \/ SendFrame \/ SendFails
    \/ \E kinds \in SUBSET {"READ", "WRITE"} : event_socket_callback(kinds)
    \/ \E length \in 1 .. MaxLength : PeerSends(length)
    \/ UNCHANGED vars

\* Steps that neither push nor handle leave the tasks alone.
LEMMA QuietSteps ==
    ASSUME QuietStep \/ LetGo
    PROVE  Tasks' = Tasks
  <1>1. ASSUME UNCHANGED <<batch, queue, upc>> PROVE Tasks' = Tasks
    BY <1>1 DEF Tasks, Pending
  <1>2. CASE QuietStep
    <2> USE DEF workVars, connVars, inVars, linkVars, userVars
    <2>1. CASE on_recv_message \/ RecvFails \/ SendFails
      BY <1>1, <2>1 DEF on_recv_message, ConnectSucceeds, ConnectFails, RecvFails, SendFails, Fail
    <2>2. CASE NoEvent \/ NoTimer \/ TickAfterEnd \/ TasksDone \/ SendFrame \/ UNCHANGED vars
      BY <1>1, <2>2 DEF NoEvent, NoTimer, TickAfterEnd, TasksDone, SendFrame, vars
    <2>3. CASE RecvNothing
      BY <1>1, <2>3 DEF RecvNothing, StopReading
    <2>4. ASSUME NEW kinds, event_socket_callback(kinds) PROVE Tasks' = Tasks
      BY <1>1, <2>4 DEF event_socket_callback
    <2>5. ASSUME NEW length, PeerSends(length) PROVE Tasks' = Tasks
      BY <1>1, <2>5 DEF PeerSends
    <2> QED BY <1>2, <2>1, <2>2, <2>3, <2>4, <2>5 DEF QuietStep
  <1>3. CASE LetGo
    BY <1>3 DEF LetGo, workVars, Tasks, Pending
  <1> QED BY <1>2, <1>3

\* The second steps of calls, and the swap.
LEMMA MoveSteps ==
    ASSUME TypeOK, RoundInv, enqueue_request \/ add_connection \/ swap_task_queue
    PROVE  Tasks' = Tasks
  <1>1. CASE enqueue_request \/ add_connection
    <2>1. batch' = batch /\ queue' = queue \o Pending /\ Pending' = <<>>
      BY <1>1, TasksType, AppendIsConcat DEF enqueue_request, add_connection, Pending, Action
    <2> QED BY <2>1, TasksKept
  <1>2. CASE swap_task_queue
    <2>1. batch = <<>> /\ batch' = queue /\ queue' = <<>> /\ Pending' = Pending
      BY <1>2 DEF swap_task_queue, RoundInv, Pending, userVars
    <2> QED BY <2>1, TasksSwapped
  <1> QED BY <1>1, <1>2

\* What is pushed one after the other.
LEMMA Pair ==
    /\ <<"remove">> \o <<"add">> = <<"remove", "add">>
    /\ <<"remove", "add">> \o <<"send">> = <<"remove", "add", "send">>
  <1>1. <<"remove">> \in Seq(Action) /\ <<"add">> \in Seq(Action) /\ <<"send">> \in Seq(Action)
    BY DEF Action
  <1>2. <<"remove", "add">> \in Seq(Action) /\ <<"remove", "add", "send">> \in Seq(Action)
    BY PushesType DEF Pushes
  <1>3. <<"remove">> \o <<"add">> = <<"remove", "add">>
    <2> DEFINE u == <<"remove">> \o <<"add">>
    <2>1. u \in Seq(Action) /\ Len(u) = 2 /\ u[1] = "remove" /\ u[2] = "add"
      BY <1>1, ConcatProperties
    <2> HIDE DEF u
    <2>2. u = <<"remove", "add">>
      BY <1>2, <2>1, SeqEqual
    <2> QED BY <2>2 DEF u
  <1>4. <<"remove", "add">> \o <<"send">> = <<"remove", "add", "send">>
    <2> DEFINE u == <<"remove", "add">> \o <<"send">>
    <2>1. u \in Seq(Action) /\ Len(u) = 3 /\ u[1] = "remove" /\ u[2] = "add" /\ u[3] = "send"
      BY <1>1, <1>2, ConcatProperties
    <2> HIDE DEF u
    <2>2. u = <<"remove", "add", "send">>
      BY <1>2, <2>1, SeqEqual
    <2> QED BY <2>2 DEF u
  <1> QED BY <1>3, <1>4

\* The first steps of the client's calls.
LEMMA CallSteps ==
    ASSUME TypeOK
    PROVE  /\ set_outbound_message => Tasks' = Tasks \o <<"send">>
           /\ reconnect => Tasks' = Tasks \o <<"remove", "add">>
           /\ remove_connection => Tasks' = Tasks \o <<"remove">>
  <1>1. ASSUME set_outbound_message PROVE Tasks' = Tasks \o <<"send">>
    <2>1. Pending = <<>> /\ batch' = batch /\ queue' = queue /\ Pending' = <<"send">>
      BY <1>1 DEF set_outbound_message, CanCall, Pending, workVars
    <2> QED BY <2>1, TasksPushed, TasksType, PushesType DEF Pushes
  <1>2. ASSUME reconnect PROVE Tasks' = Tasks \o <<"remove", "add">>
    <2>1. Pending = <<>> /\ batch' = batch /\ queue' = Append(queue, "remove") /\ Pending' = <<"add">>
      BY <1>2 DEF reconnect, CanCall, Pending
    <2>2. queue' \o Pending' = queue \o <<"remove", "add">>
      <3>1. queue' = queue \o <<"remove">>
        BY <2>1, TasksType, AppendIsConcat DEF Action
      <3>2. <<"remove">> \o <<"add">> = <<"remove", "add">>
        BY Pair
      <3> QED BY <2>1, <3>1, <3>2, TasksType, PushesType, Associative DEF Pushes
    <2>3. <<"remove", "add">> \in Pushes /\ queue' \in Seq(Action) /\ Pending' \in Seq(Action)
      <3>1. "remove" \in Action /\ "add" \in Action
        BY DEF Action
      <3> QED BY <2>1, <3>1, TasksType, AppendProperties DEF Pushes
    <2> QED BY <2>1, <2>2, <2>3, TasksPushed
  <1>3. ASSUME remove_connection PROVE Tasks' = Tasks \o <<"remove">>
    <2>1. Pending = <<>> /\ batch' = batch /\ queue' = Append(queue, "remove") /\ Pending' = <<>>
      BY <1>3 DEF remove_connection, CanCall, Pending
    <2> QED BY <2>1, TasksPushed, TasksType, PushesType, AppendIsConcat DEF Pushes
  <1> QED BY <1>1, <1>2, <1>3

\* What a callback pushes that calls reconnect (r), write (w), both or neither.
Pushed(r, w) == IF r THEN (IF w THEN <<"remove", "add", "send">> ELSE <<"remove", "add">>)
                ELSE (IF w THEN <<"send">> ELSE <<>>)

\* What a listener pushes is a call's pushes.
LEMMA PushedType == \A r, w \in BOOLEAN : Pushed(r, w) \in Pushes
  BY DEF Pushed, Pushes

\* A listener that is called pushes a reconnect, a send, both or nothing, at
\* the end of the tasks.
LEMMA ListenerSteps ==
    ASSUME TypeOK, batch' = batch, NEW o, NEW m \in Nat, NEW e, Listener(o, m, e)
    PROVE  \E r, w \in BOOLEAN :
              /\ Tasks' = Tasks \o Pushed(r, w)
              /\ r \/ w => CanCall /\ m = 0
              /\ r => e \/ LiveReconnect
              /\ w => (r \/ ~e)
              /\ outbound' = IF w THEN written + 1 ELSE o
              /\ mine' = IF w THEN written + 1 ELSE m
              /\ errored' = (e /\ ~r)
              /\ UNCHANGED <<upc, alive>>
  <1>1. PICK r, w \in BOOLEAN :
            /\ queue' = queue \o (IF r THEN <<"remove", "add">> ELSE <<>>)
                              \o (IF w THEN <<"send">> ELSE <<>>)
            /\ r \/ w => CanCall /\ m = 0
            /\ r => e \/ LiveReconnect
            /\ w => (r \/ ~e)
            /\ outbound' = IF w THEN written + 1 ELSE o
            /\ mine' = IF w THEN written + 1 ELSE m
            /\ errored' = (e /\ ~r)
            /\ UNCHANGED <<upc, alive>>
    BY DEF Listener, MayReconnect
  <1>2. queue \in Seq(Action) /\ batch \in Seq(Action)
    BY TasksType
  <1>3. /\ <<"remove", "add">> \in Seq(Action) /\ <<"send">> \in Seq(Action)
        /\ <<>> \in Seq(Action) /\ <<"remove", "add", "send">> \in Seq(Action)
    BY PushesType DEF Pushes
  <1>4. queue' = queue \o Pushed(r, w)
    <2>1. CASE r /\ w
      <3>1. queue' = (queue \o <<"remove", "add">>) \o <<"send">>
        BY <1>1, <2>1
      <3>2. queue' = queue \o (<<"remove", "add">> \o <<"send">>)
        BY <1>2, <1>3, <3>1, Associative, Zenon
      <3> QED BY <2>1, <3>2, Pair DEF Pushed
    <2>2. CASE r /\ ~w
      <3>1. queue' = (queue \o <<"remove", "add">>) \o <<>>
        BY <1>1, <2>2
      <3>2. queue \o <<"remove", "add">> \in Seq(Action)
        BY <1>2, <1>3, ConcatProperties
      <3> QED BY <2>2, <3>1, <3>2, ConcatEmptySeq DEF Pushed
    <2>3. CASE ~r
      <3>1. queue' = (queue \o <<>>) \o (IF w THEN <<"send">> ELSE <<>>)
        BY <1>1, <2>3
      <3>2. queue \o <<>> = queue
        BY <1>2, ConcatEmptySeq
      <3> QED BY <2>3, <3>1, <3>2 DEF Pushed
    <2> QED BY <2>1, <2>2, <2>3
  <1>5. Pushed(r, w) \in Pushes /\ Pushed(r, w) \in Seq(Action)
    BY PushedType, PushesType
  <1>6. queue' \in Seq(Action)
    BY <1>2, <1>4, <1>5, ConcatProperties
  <1>7. Tasks' = Tasks \o Pushed(r, w)
    <2>1. CASE r \/ w
      <3>1. Pending = <<>> /\ Pending' = <<>>
        BY <1>1, <2>1 DEF CanCall, Pending
      <3>2. queue' \o Pending' = queue \o Pushed(r, w)
        BY <1>4, <1>6, <3>1, ConcatEmptySeq
      <3> QED BY <1>3, <1>5, <1>6, <3>1, <3>2, TasksPushed
    <2>2. CASE ~(r \/ w)
      <3>1. Pushed(r, w) = <<>> /\ queue' = queue /\ Pending' = Pending
        BY <1>1, <1>2, <1>4, <2>2, ConcatEmptySeq DEF Pushed, Pending
      <3>2. Tasks' = Tasks
        BY <3>1 DEF Tasks
      <3> QED BY <3>1, <3>2, TasksType, ConcatEmptySeq
    <2> QED BY <2>1, <2>2
  <1> QED BY <1>1, <1>7

\* The steps that handle a task.
LEMMA HandleSteps ==
    ASSUME TypeOK, NEW action \in Action, NextTask(action),
           batch' = Tail(batch), UNCHANGED <<queue, upc>>
    PROVE  Tasks # <<>> /\ Head(Tasks) = action /\ Tasks' = Tail(Tasks)
  BY TasksHandled DEF NextTask, Pending

-----------------------------------------------------------------------------
(* Type correctness, in three parts.                                       *)

QueueType == queue \in Seq(Action) /\ batch \in Seq(Action)
InType    == inbound \in Seq(1 .. MaxLength)
FlatType  ==
    /\ loc \in {"events", "read", "write", "eventError", "swap", "tasks", "taskError", "timers"}
    /\ thenWrite \in BOOLEAN
    /\ status \in {"initializing", "ready", "busy", "inactive"}
    /\ handle \in BOOLEAN
    /\ curl \in {"none", "connecting", "open"}
    /\ socketEvent \in BOOLEAN
    /\ armed \subseteq {"READ", "WRITE"}
    /\ outReady \in BOOLEAN
    /\ timers \in Nat
    /\ frame \in 0 .. MaxWrites
    /\ begun \in BOOLEAN /\ slow \in BOOLEAN
UserType ==
    /\ outbound \in 0 .. MaxWrites
    /\ upc \in {"idle", "write", "reconnect", "destroy"}
    /\ alive \in BOOLEAN
    /\ mine \in 0 .. MaxWrites
    /\ errored \in BOOLEAN
    /\ written \in 0 .. MaxWrites
    /\ reconnects \in 0 .. MaxReconnects

\* The parts are the whole.
LEMMA TypeParts == TypeOK <=> QueueType /\ InType /\ FlatType /\ UserType
  BY DEF TypeOK, QueueType, InType, FlatType, UserType, Action

\* The tasks, while the connection is new.
LEMMA InitTasks == Init => Tasks = <<"add">>
  <1>1. <<"add">> \in Seq(Action)
    BY DEF Action
  <1>2. <<>> \o <<"add">> = <<"add">> /\ <<"add">> \o <<>> = <<"add">>
    BY <1>1, ConcatEmptySeq
  <1> QED BY <1>2 DEF Init, Tasks, Pending

\* The initial states satisfy the invariant.
LEMMA InitIInv == Init => IInv
  <1> SUFFICES ASSUME Init PROVE IInv
    OBVIOUS
  <1>1. Tasks = <<"add">> /\ Tasks # <<>> /\ Head(Tasks) = "add" /\ Len(Tasks) = 1
    BY InitTasks
  <1>2. TypeOK
    <2>1. <<>> \in Seq(Action) /\ <<>> \in Seq(1 .. MaxLength) /\ <<"add">> \in Seq(Action)
      BY DEF Action
    <2>2. QueueType /\ InType
      BY <2>1 DEF Init, QueueType, InType
    <2>3. 0 \in 0 .. MaxWrites /\ 0 \in 0 .. MaxReconnects /\ 0 \in Nat
      OBVIOUS
    <2>4. FlatType
      BY <2>3, Zenon DEF Init, FlatType
    <2>5. UserType
      BY <2>3, Zenon DEF Init, UserType
    <2> QED BY <2>2, <2>4, <2>5, TypeParts
  <1>3. RoundInv /\ OneTimer
    BY DEF Init, RoundInv, OneTimer
  <1>4. SessionInv
    BY <1>1 DEF Init, SessionInv, SessionCoherent, InSession, StartsWithAdd
  <1>5. AddInv
    BY <1>1 DEF Init, AddInv, AddsFollow, Released, InSession
  <1>6. DestroyInv
    BY DEF Init, DestroyInv
  <1> QED BY <1>2, <1>3, <1>4, <1>5, <1>6 DEF IInv

\* What a callback of the listener changes has its type.
LEMMA ListenerType ==
    ASSUME QueueType, UserType, NEW o \in 0 .. MaxWrites, NEW m \in 0 .. MaxWrites,
           NEW e \in BOOLEAN, Listener(o, m, e)
    PROVE  queue' \in Seq(Action) /\ UserType'
  <1>1. PICK r, w \in BOOLEAN :
            /\ r => MayReconnect(e)
            /\ w => written < MaxWrites
            /\ queue' = queue \o (IF r THEN <<"remove", "add">> ELSE <<>>)
                              \o (IF w THEN <<"send">> ELSE <<>>)
            /\ outbound' = IF w THEN written + 1 ELSE o
            /\ mine' = IF w THEN written + 1 ELSE m
            /\ written' = IF w THEN written + 1 ELSE written
            /\ reconnects' = IF r THEN reconnects + 1 ELSE reconnects
            /\ errored' = (e /\ ~r)
            /\ UNCHANGED <<upc, alive>>
    BY DEF Listener
  <1>2. queue' \in Seq(Action)
    <2>1. /\ <<"remove", "add">> \in Seq(Action)
          /\ <<"send">> \in Seq(Action)
          /\ <<>> \in Seq(Action)
      BY PushesType DEF Pushes
    <2>2. /\ (IF r THEN <<"remove", "add">> ELSE <<>>) \in Seq(Action)
          /\ (IF w THEN <<"send">> ELSE <<>>) \in Seq(Action)
      BY <2>1, Zenon
    <2> QED BY <1>1, <2>2, ConcatProperties DEF QueueType
  <1>3. UserType'
    <2>1. w => written + 1 \in 0 .. MaxWrites
      BY <1>1 DEF UserType
    <2>2. r => reconnects + 1 \in 0 .. MaxReconnects
      BY <1>1 DEF UserType, MayReconnect
    <2> QED BY <1>1, <2>1, <2>2 DEF UserType
  <1> QED BY <1>2, <1>3

\* What a failure changes.
LEMMA FailFacts ==
    ASSUME Fail
    PROVE  /\ outbound' = 0 /\ inbound' = <<>> /\ begun' = FALSE /\ status' = "inactive"
           /\ handle' = FALSE /\ curl' = "none" /\ outReady' = FALSE /\ armed' = {}
           /\ loc' = IF loc = "tasks" THEN "taskError" ELSE "eventError"
           /\ queue' = queue /\ thenWrite' = thenWrite /\ socketEvent' = socketEvent
           /\ timers' = timers /\ frame' = frame /\ slow' = slow
           /\ upc' = upc /\ alive' = alive /\ mine' = mine /\ errored' = errored
           /\ written' = written /\ reconnects' = reconnects
  BY DEF Fail, deactivate, userVars

\* Every step leaves the worker's variables in their types.
LEMMA NextFlatType ==
    ASSUME FlatType, UserType, [Next]_vars
    PROVE  FlatType'
  <1> USE DEF workVars, connVars, inVars, linkVars, userVars
  <1>2. ASSUME NEW kinds, event_assign_callback(kinds), kinds \subseteq {"READ", "WRITE"}
        PROVE  armed' \subseteq {"READ", "WRITE"}
    BY <1>2 DEF event_assign_callback
  <1>3. ASSUME StopReading PROVE /\ armed' \subseteq {"READ", "WRITE"} /\ loc' \in {"write", "events"}
                                 /\ UNCHANGED <<batch, thenWrite, status, linkVars, slow>>
    BY <1>3 DEF StopReading, event_assign_callback
  <1>4. CASE User
    <2>1. UNCHANGED <<loc, thenWrite, connVars>>
      BY <1>4, Zenon DEF User, set_outbound_message, enqueue_request, reconnect, add_connection,
                         remove_connection, LetGo
    <2> QED BY <2>1 DEF FlatType
  <1>5. CASE ConnectSucceeds
    <2>1. armed' \subseteq {"READ", "WRITE"} /\ timers' \in Nat
      BY <1>5 DEF ConnectSucceeds, event_assign_callback, DeferredSend, FlatType
    <2> QED BY <1>5, <2>1, Zenon DEF ConnectSucceeds, FlatType
  <1>6. CASE Fail /\ loc \in {"events", "read", "write", "tasks"}
    BY <1>6, FailFacts DEF FlatType
  <1>7. CASE NoEvent \/ NoTimer \/ TasksDone \/ swap_task_queue
    <2>1. UNCHANGED <<thenWrite, connVars>> /\ loc' \in {"swap", "events", "timers", "tasks"}
      BY <1>7, Zenon DEF NoEvent, NoTimer, TasksDone, swap_task_queue
    <2> QED BY <2>1 DEF FlatType
  <1>8. CASE on_error \/ on_tick
    BY <1>8 DEF on_error, on_tick, FlatType
  <1>9. ASSUME NEW kinds \in SUBSET {"READ", "WRITE"}, event_socket_callback(kinds)
        PROVE  FlatType'
    BY <1>9 DEF event_socket_callback, FlatType
  <1>10. CASE RecvFrame
    <2>1. begun' \in BOOLEAN
      BY <1>10 DEF RecvFrame
    <2>2. CASE Fills(recvBytes)
      BY <1>10, <2>1, <2>2 DEF RecvFrame, FlatType
    <2>3. CASE ~Fills(recvBytes)
      <3>1. StopReading
        BY <1>10, <2>3 DEF RecvFrame
      <3> QED BY <1>3, <2>1, <3>1 DEF FlatType
    <2> QED BY <2>2, <2>3
  <1>11. CASE RecvNothing
    <2>1. StopReading
      BY <1>11 DEF RecvNothing
    <2> QED BY <1>3, <1>11, <2>1 DEF RecvNothing, FlatType
  <1>12. CASE SendFrame
    <2>1. armed' \subseteq {"READ", "WRITE"}
      BY <1>2, <1>12 DEF SendFrame
    <2> QED BY <1>12, <2>1, Zenon DEF SendFrame, FlatType, UserType
  <1>13. CASE on_message_sent
    <2>1. armed' \subseteq {"READ", "WRITE"}
      BY <1>2, <1>13 DEF on_message_sent
    <2> QED BY <1>13, <2>1, Zenon DEF on_message_sent, FlatType
  <1>14. CASE RegisterSucceeds
    BY <1>14, Zenon DEF RegisterSucceeds, FlatType
  <1>15. CASE send_message
    <2>1. armed' \subseteq {"READ", "WRITE"}
      BY <1>15 DEF send_message, event_assign_callback, FlatType
    <2>2. outReady' \in BOOLEAN
      BY <1>15 DEF send_message
    <2> QED BY <1>15, <2>1, <2>2, Zenon DEF send_message, FlatType
  <1>16. CASE unregister_handle
    <2>1. armed' \subseteq {"READ", "WRITE"}
      BY <1>16 DEF unregister_handle, deactivate, FlatType
    <2>2. timers' \in Nat
      BY <1>16 DEF unregister_handle, timer_queue_remove, FlatType
    <2>3. /\ status' \in {"initializing", "ready", "busy", "inactive"} /\ handle' \in BOOLEAN
          /\ curl' \in {"none", "connecting", "open"} /\ outReady' \in BOOLEAN
          /\ begun' \in BOOLEAN /\ slow' \in BOOLEAN
      BY <1>16, Zenon DEF unregister_handle, deactivate, FlatType
    <2> QED BY <1>16, <2>1, <2>2, <2>3, Zenon DEF unregister_handle, release_socket_event, FlatType
  <1>17. CASE TickAfterEnd
    <2>1. timers' \in Nat
      BY <1>17 DEF TickAfterEnd, FlatType
    <2> QED BY <1>17, <2>1, Zenon DEF TickAfterEnd, FlatType
  <1>18. ASSUME NEW length, PeerSends(length)
         PROVE  FlatType'
    BY <1>18 DEF PeerSends, FlatType
  <1>19. CASE UNCHANGED vars
    BY <1>19 DEF vars, FlatType
  <1>20. CASE ConnectFails \/ RecvFails \/ SendFails \/ RegisterFails
    BY <1>6, <1>20 DEF ConnectFails, RecvFails, SendFails, RegisterFails, NextTask
  <1> QED BY <1>4, <1>5, <1>7, <1>8, <1>9, <1>10, <1>11, <1>12, <1>13, <1>14, <1>15, <1>16,
             <1>17, <1>18, <1>19, <1>20
          DEF Next, WorkerThread, on_recv_message, handle_read_event, handle_write_event,
              register_handle, tick

\* Every step leaves the client's variables in their types.
LEMMA NextUserType ==
    ASSUME QueueType, UserType, [Next]_vars
    PROVE  UserType'
  <1> USE DEF workVars, connVars, inVars, linkVars, userVars
  <1>1. 0 \in 0 .. MaxWrites
    OBVIOUS
  <1>2. CASE set_outbound_message
    <2>1. written + 1 \in 0 .. MaxWrites
      BY <1>2 DEF set_outbound_message, UserType
    <2> QED BY <1>2, <2>1, Zenon DEF set_outbound_message, UserType
  <1>3. CASE reconnect
    <2>1. reconnects + 1 \in 0 .. MaxReconnects
      BY <1>3 DEF reconnect, MayReconnect, UserType
    <2> QED BY <1>3, <2>1, Zenon DEF reconnect, UserType
  <1>4. CASE enqueue_request \/ add_connection \/ remove_connection \/ LetGo
    BY <1>4, Zenon DEF enqueue_request, add_connection, remove_connection, LetGo, UserType
  <1>5. CASE on_error \/ RecvFrame \/ on_message_sent \/ on_tick
    <2>1. PICK o \in 0 .. MaxWrites, m \in 0 .. MaxWrites, e \in BOOLEAN : Listener(o, m, e)
      BY <1>1, <1>5, Zenon DEF on_error, RecvFrame, on_message_sent, on_tick, UserType
    <2> QED BY <2>1, ListenerType
  <1>6. ASSUME outbound' \in {0, outbound}, UNCHANGED userVars
        PROVE  UserType'
    BY <1>1, <1>6, Zenon DEF UserType
  <1>7. CASE ConnectFails \/ RecvFails \/ SendFails \/ RegisterFails
    BY <1>6, <1>7, FailFacts DEF ConnectFails, RecvFails, SendFails, RegisterFails
  <1>8. CASE ConnectSucceeds \/ NoEvent \/ NoTimer \/ TasksDone \/ swap_task_queue
    BY <1>6, <1>8 DEF ConnectSucceeds, NoEvent, NoTimer, TasksDone, swap_task_queue
  <1>9. CASE RecvNothing \/ SendFrame \/ RegisterSucceeds \/ send_message \/ TickAfterEnd
    BY <1>6, <1>9 DEF RecvNothing, SendFrame, RegisterSucceeds, send_message, TickAfterEnd
  <1>10. CASE unregister_handle
    BY <1>6, <1>10 DEF unregister_handle, deactivate
  <1>11. ASSUME NEW kinds, event_socket_callback(kinds) PROVE UserType'
    BY <1>6, <1>11 DEF event_socket_callback
  <1>12. ASSUME NEW length, PeerSends(length) PROVE UserType'
    BY <1>6, <1>12 DEF PeerSends
  <1>13. CASE UNCHANGED vars
    BY <1>6, <1>13 DEF vars
  <1> QED BY <1>2, <1>3, <1>4, <1>5, <1>7, <1>8, <1>9, <1>10, <1>11, <1>12, <1>13
          DEF Next, User, WorkerThread, on_recv_message, handle_read_event, handle_write_event,
              register_handle, tick

\* Every step leaves the tasks and the frames in their types.
LEMMA NextQueueType ==
    ASSUME QueueType, UserType, [Next]_vars
    PROVE  QueueType'
  <1> USE DEF workVars, connVars, inVars, linkVars, userVars
  <1>1. <<>> \in Seq(Action) /\ \A a \in Action : a \in {"add", "send", "remove"}
    BY DEF Action
  <1>2. 0 \in 0 .. MaxWrites
    OBVIOUS
  <1>3. ASSUME NEW a \in Action, queue' = Append(queue, a), batch' = batch
        PROVE  QueueType'
    BY <1>3, AppendProperties DEF QueueType
  <1>4. CASE enqueue_request \/ reconnect \/ add_connection \/ remove_connection
    BY <1>3, <1>4 DEF enqueue_request, reconnect, add_connection, remove_connection, Action
  <1>5. CASE on_error \/ RecvFrame \/ on_message_sent \/ on_tick
    <2>1. batch' = batch
      BY <1>5 DEF on_error, RecvFrame, StopReading, on_message_sent, on_tick
    <2>2. PICK o \in 0 .. MaxWrites, m \in 0 .. MaxWrites, e \in BOOLEAN : Listener(o, m, e)
      BY <1>2, <1>5, Zenon DEF on_error, RecvFrame, on_message_sent, on_tick, UserType
    <2> QED BY <2>1, <2>2, ListenerType DEF QueueType
  <1>6. CASE swap_task_queue
    BY <1>1, <1>6 DEF swap_task_queue, QueueType
  <1>7. ASSUME NEW a, NextTask(a), batch' = Tail(batch), queue' = queue PROVE QueueType'
    BY <1>7, HeadTailProperties DEF NextTask, QueueType
  <1>8. CASE register_handle \/ send_message \/ unregister_handle
    BY <1>7, <1>8, FailFacts
       DEF register_handle, RegisterSucceeds, RegisterFails, send_message, unregister_handle
  <1>9. ASSUME UNCHANGED <<queue, batch>> PROVE QueueType'
    BY <1>9 DEF QueueType
  <1>10. CASE set_outbound_message \/ LetGo \/ UNCHANGED vars
    BY <1>9, <1>10 DEF set_outbound_message, LetGo, vars
  <1>11. CASE ConnectSucceeds \/ NoEvent \/ NoTimer \/ TasksDone \/ TickAfterEnd \/ SendFrame
    BY <1>9, <1>11 DEF ConnectSucceeds, NoEvent, NoTimer, TasksDone, TickAfterEnd, SendFrame
  <1>12. CASE ConnectFails \/ RecvFails \/ SendFails
    BY <1>9, <1>12, FailFacts DEF ConnectFails, RecvFails, SendFails
  <1>13. CASE RecvNothing
    BY <1>9, <1>13 DEF RecvNothing, StopReading
  <1>14. ASSUME NEW kinds, event_socket_callback(kinds) PROVE QueueType'
    BY <1>9, <1>14 DEF event_socket_callback
  <1>15. ASSUME NEW length, PeerSends(length) PROVE QueueType'
    BY <1>9, <1>15 DEF PeerSends
  <1> QED BY <1>4, <1>5, <1>6, <1>8, <1>10, <1>11, <1>12, <1>13, <1>14, <1>15
          DEF Next, User, WorkerThread, on_recv_message, handle_read_event, handle_write_event, tick

\* What is left of a frame of which a part was received comes first.
LEMMA FrameReceived ==
    ASSUME InType, RecvFrame
    PROVE  InType' /\ (begun' => inbound' # <<>>)
  <1> DEFINE left == Head(inbound) - recvBytes
             rest == IF left = 0 THEN <<>> ELSE <<left>>
  <1>1. Head(inbound) \in 1 .. MaxLength /\ Tail(inbound) \in Seq(1 .. MaxLength)
    BY HeadTailProperties DEF RecvFrame, InType
  <1>2. left # 0 => left \in 1 .. MaxLength
    BY <1>1 DEF recvBytes
  <1>3. inbound' = rest \o Tail(inbound) /\ begun' = (left # 0)
    BY DEF RecvFrame
  <1> HIDE DEF left
  <1>4. <<>> \in Seq(1 .. MaxLength) /\ \A n \in 1 .. MaxLength : <<n>> \in Seq(1 .. MaxLength)
    OBVIOUS
  <1>5. rest \in Seq(1 .. MaxLength)
    BY <1>2, <1>4, Zenon
  <1>6. left # 0 => Len(rest) = 1
    OBVIOUS
  <1> HIDE DEF rest
  <1>7. inbound' \in Seq(1 .. MaxLength) /\ Len(inbound') = Len(rest) + Len(Tail(inbound))
    BY <1>1, <1>3, <1>5, ConcatProperties
  <1>8. left # 0 => inbound' # <<>>
    BY <1>1, <1>6, <1>7, LenProperties, EmptySeq
  <1> QED BY <1>3, <1>7, <1>8 DEF InType

\* Every step keeps the type of what is being received.
LEMMA NextInType ==
    ASSUME InType, [Next]_vars
    PROVE  InType'
  <1> USE DEF workVars, connVars, inVars, linkVars, userVars
  <1>1. <<>> \in Seq(1 .. MaxLength)
    OBVIOUS
  <1>2. ASSUME inbound' \in {<<>>, inbound} PROVE InType'
    BY <1>1, <1>2 DEF InType
  <1>3. CASE User
    BY <1>2, <1>3, Zenon DEF User, set_outbound_message, enqueue_request, reconnect,
                             add_connection, remove_connection, LetGo
  <1>4. CASE ConnectSucceeds \/ NoEvent \/ NoTimer \/ TasksDone \/ TickAfterEnd \/ SendFrame
    BY <1>2, <1>4 DEF ConnectSucceeds, NoEvent, NoTimer, TasksDone, TickAfterEnd, SendFrame
  <1>5. CASE on_error \/ on_message_sent \/ on_tick
    BY <1>2, <1>5 DEF on_error, on_message_sent, on_tick
  <1>6. CASE ConnectFails \/ RecvFails \/ SendFails \/ RegisterFails
    BY <1>2, <1>6, FailFacts DEF ConnectFails, RecvFails, SendFails, RegisterFails
  <1>7. CASE RecvFrame
    BY <1>7, FrameReceived
  <1>8. CASE RecvNothing
    BY <1>2, <1>8 DEF RecvNothing
  <1>9. CASE swap_task_queue \/ RegisterSucceeds \/ send_message
    BY <1>2, <1>9 DEF swap_task_queue, RegisterSucceeds, send_message
  <1>10. CASE unregister_handle
    BY <1>2, <1>10 DEF unregister_handle, deactivate
  <1>11. ASSUME NEW kinds, event_socket_callback(kinds) PROVE InType'
    BY <1>2, <1>11 DEF event_socket_callback
  <1>12. ASSUME NEW length \in 1 .. MaxLength, PeerSends(length) PROVE InType'
    BY <1>12, AppendProperties DEF PeerSends, InType
  <1>13. CASE UNCHANGED vars
    BY <1>2, <1>13 DEF vars
  <1> QED BY <1>3, <1>4, <1>5, <1>6, <1>7, <1>8, <1>9, <1>10, <1>11, <1>12, <1>13
          DEF Next, WorkerThread, on_recv_message, handle_read_event, handle_write_event,
              register_handle, tick

\* The types are kept.
LEMMA NextTypeOK ==
    ASSUME TypeOK, [Next]_vars
    PROVE  TypeOK'
  <1>1. QueueType /\ InType /\ FlatType /\ UserType
    BY TypeParts
  <1>2. QueueType' /\ InType' /\ FlatType' /\ UserType'
    BY <1>1, NextQueueType, NextInType, NextFlatType, NextUserType
  <1> QED BY <1>2, TypeParts, PTL

-----------------------------------------------------------------------------
(* The tasks, step by step.                                                *)

\* The handlers take the first task.
LEMMA Handling ==
    ASSUME TypeOK
    PROVE  /\ register_handle   => Tasks # <<>> /\ Head(Tasks) = "add" /\ Tasks' = Tail(Tasks)
           /\ send_message      => Tasks # <<>> /\ Head(Tasks) = "send" /\ Tasks' = Tail(Tasks)
           /\ unregister_handle => Tasks # <<>> /\ Head(Tasks) = "remove" /\ Tasks' = Tail(Tasks)
  <1> USE DEF userVars
  <1>1. CASE register_handle
    <2>1. NextTask("add") /\ batch' = Tail(batch) /\ UNCHANGED <<queue, upc>>
      BY <1>1, FailFacts DEF register_handle, RegisterSucceeds, RegisterFails
    <2>2. "add" \in Action
      BY DEF Action
    <2>3. ~send_message /\ ~unregister_handle
      BY <2>1 DEF NextTask, send_message, unregister_handle
    <2> QED BY <2>1, <2>2, <2>3, HandleSteps
  <1>2. CASE send_message
    <2>1. NextTask("send") /\ batch' = Tail(batch) /\ UNCHANGED <<queue, upc>>
      BY <1>2 DEF send_message
    <2>2. "send" \in Action
      BY DEF Action
    <2>3. ~register_handle /\ ~unregister_handle
      BY <2>1 DEF NextTask, register_handle, RegisterSucceeds, RegisterFails, unregister_handle
    <2> QED BY <2>1, <2>2, <2>3, HandleSteps
  <1>3. CASE unregister_handle
    <2>1. NextTask("remove") /\ batch' = Tail(batch) /\ UNCHANGED <<queue, upc>>
      BY <1>3 DEF unregister_handle
    <2>2. "remove" \in Action
      BY DEF Action
    <2>3. ~register_handle /\ ~send_message
      BY <2>1 DEF NextTask, register_handle, RegisterSucceeds, RegisterFails, send_message
    <2> QED BY <2>1, <2>2, <2>3, HandleSteps
  <1> QED BY <1>1, <1>2, <1>3

\* Every other step leaves the tasks or pushes some, and a client that is being
\* destroyed pushes none.
Handled == register_handle \/ send_message \/ unregister_handle

\* A step that handles no task appends the pushes of one call at most.
LEMMA PushSteps ==
    ASSUME TypeOK, RoundInv, [Next]_vars, ~Handled
    PROVE  \E t \in Pushes :
              /\ Tasks' = Tasks \o t
              /\ t # <<>> => upc = "idle" /\ alive
              /\ upc' = "destroy" \/ ~alive' =>
                    remove_connection \/ (t = <<>> /\ (upc = "destroy" \/ ~alive))
              /\ ~alive' => ~alive \/ LetGo
              /\ ~alive => upc' \in {upc, "idle"}
  <1> USE DEF userVars
  <1>1. Tasks \o <<>> = Tasks
    BY TasksType, ConcatEmptySeq
  <1>2. /\ <<>> \in Pushes /\ <<"send">> \in Pushes /\ <<"remove">> \in Pushes
        /\ <<"remove", "add">> \in Pushes
    BY DEF Pushes
  <1>3. ASSUME Tasks' = Tasks, upc' \in {upc, "idle"}, alive' = alive \/ LetGo
        PROVE  \E t \in Pushes :
              /\ Tasks' = Tasks \o t
              /\ t # <<>> => upc = "idle" /\ alive
              /\ upc' = "destroy" \/ ~alive' =>
                    remove_connection \/ (t = <<>> /\ (upc = "destroy" \/ ~alive))
              /\ ~alive' => ~alive \/ LetGo
              /\ ~alive => upc' \in {upc, "idle"}
    <2>1. upc' = "destroy" => upc = "destroy"
      BY <1>3
    <2>2. ~alive' => ~alive \/ LetGo
      BY <1>3
    <2>3. LetGo => upc = "destroy"
      BY DEF LetGo
    <2> USE <1>2
    <2> WITNESS <<>> \in Pushes
    <2> QED BY <1>1, <1>3, <2>1, <2>2, <2>3, Zenon
  <1>4. CASE QuietStep
    <2>1. upc' = upc /\ alive' = alive
      <3> USE DEF workVars, connVars, inVars, linkVars
      <3>1. CASE on_recv_message \/ RecvFails \/ SendFails
        BY <3>1, FailFacts DEF on_recv_message, ConnectSucceeds, ConnectFails, RecvFails, SendFails
      <3>2. CASE NoEvent \/ NoTimer \/ TickAfterEnd \/ TasksDone \/ SendFrame \/ UNCHANGED vars
        BY <3>2 DEF NoEvent, NoTimer, TickAfterEnd, TasksDone, SendFrame, vars
      <3>3. CASE RecvNothing
        BY <3>3 DEF RecvNothing
      <3>4. ASSUME NEW kinds, event_socket_callback(kinds) PROVE upc' = upc /\ alive' = alive
        BY <3>4 DEF event_socket_callback
      <3>5. ASSUME NEW length, PeerSends(length) PROVE upc' = upc /\ alive' = alive
        BY <3>5 DEF PeerSends
      <3> QED BY <1>4, <3>1, <3>2, <3>3, <3>4, <3>5 DEF QuietStep
    <2> QED BY <1>3, <1>4, <2>1, QuietSteps
  <1>5. CASE LetGo \/ enqueue_request \/ add_connection \/ swap_task_queue
    <2>1. Tasks' = Tasks
      BY <1>5, QuietSteps, MoveSteps
    <2>2. upc' \in {upc, "idle"} /\ (alive' = alive \/ LetGo)
      BY <1>5 DEF LetGo, enqueue_request, add_connection, swap_task_queue
    <2> QED BY <1>3, <2>1, <2>2
  <1>6. CASE set_outbound_message
    <2>1. upc = "idle" /\ alive /\ upc' = "write" /\ alive' = alive
      BY <1>6 DEF set_outbound_message, CanCall
    <2> QED BY <1>2, <1>6, <2>1, CallSteps
  <1>7. CASE reconnect
    <2>1. upc = "idle" /\ alive /\ upc' = "reconnect" /\ alive' = alive
      BY <1>7 DEF reconnect, CanCall
    <2> QED BY <1>2, <1>7, <2>1, CallSteps
  <1>8. CASE remove_connection
    <2>1. upc = "idle" /\ alive /\ alive' = alive
      BY <1>8 DEF remove_connection, CanCall
    <2> QED BY <1>2, <1>8, <2>1, CallSteps
  <1>9. CASE on_error \/ RecvFrame \/ on_message_sent \/ on_tick
    <2>1. batch' = batch /\ \E o, e : \E m \in Nat : Listener(o, m, e)
      <3>1. 0 \in Nat /\ mine \in Nat
        BY DEF TypeOK
      <3> QED BY <1>9, <3>1 DEF on_error, RecvFrame, StopReading, on_message_sent, on_tick
    <2>2. PICK r, w \in BOOLEAN :
              /\ Tasks' = Tasks \o Pushed(r, w)
              /\ r \/ w => CanCall
              /\ UNCHANGED <<upc, alive>>
      BY <2>1, ListenerSteps
    <2>3. Pushed(r, w) \in Pushes /\ (Pushed(r, w) # <<>> => r \/ w)
      BY PushedType DEF Pushed
    <2> QED BY <2>2, <2>3 DEF CanCall
  <1> QED BY <1>4, <1>5, <1>6, <1>7, <1>8, <1>9
          DEF QuietStep, Handled, Next, User, WorkerThread, handle_read_event, handle_write_event,
              tick

\* A task that is handled is the first of the batch.
LEMMA HandledFacts ==
    ASSUME TypeOK, Handled
    PROVE  loc = "tasks" /\ batch # <<>> /\ batch' = Tail(batch) /\ batch' # batch
  <1>1. loc = "tasks" /\ batch # <<>> /\ batch' = Tail(batch)
    BY DEF Handled, register_handle, RegisterSucceeds, RegisterFails, send_message,
           unregister_handle, NextTask
  <1>2. Len(Tail(batch)) = Len(batch) - 1 /\ Len(batch) \in Nat
    BY <1>1, HeadTailProperties, LenProperties DEF TypeOK
  <1>3. Len(Tail(batch)) # Len(batch)
    BY <1>2
  <1> QED BY <1>1, <1>3, Zenon

\* Whether the connection's add is due next changes only when a task is handled.
LEMMA PushKeeps ==
    ASSUME TypeOK, RoundInv, [Next]_vars, ~Handled
    PROVE  /\ StartsWithAdd(Tasks') <=> StartsWithAdd(Tasks)
           /\ AddsFollow(Tasks) => AddsFollow(Tasks')
  <1>1. PICK t \in Pushes : Tasks' = Tasks \o t
    BY PushSteps
  <1> QED BY <1>1, TasksType, PushFacts

-----------------------------------------------------------------------------
(* The round of the worker thread.                                         *)

\* Every step keeps the place of the worker thread in its round.
LEMMA NextRoundInv ==
    ASSUME TypeOK, RoundInv, SessionInv, [Next]_vars
    PROVE  RoundInv'
  <1> USE DEF workVars, connVars, inVars, linkVars, userVars
  <1>1. CASE User \/ UNCHANGED vars
    <2>1. UNCHANGED <<loc, batch, connVars>>
      BY <1>1, Zenon DEF User, set_outbound_message, enqueue_request, reconnect, add_connection,
                         remove_connection, LetGo, vars
    <2> QED BY <2>1 DEF RoundInv
  <1>2. CASE ConnectSucceeds \/ NoEvent \/ NoTimer \/ TickAfterEnd \/ SendFrame
    BY <1>2 DEF ConnectSucceeds, NoEvent, NoTimer, TickAfterEnd, SendFrame, RoundInv
  <1>3. CASE ConnectFails \/ RecvFails \/ SendFails \/ RegisterFails
    BY <1>3, FailFacts
       DEF ConnectFails, RecvFails, SendFails, RegisterFails, NextTask, RoundInv
  <1>4. CASE on_error \/ on_message_sent \/ on_tick
    <2>1. CASE on_error
      <3>1. /\ loc' \in {"tasks", "events"} /\ (loc' = "events" => loc = "eventError")
            /\ UNCHANGED <<batch, begun, inbound, curl, status>>
        BY <2>1 DEF on_error
      <3>2. loc \in {"eventError", "taskError"}
        BY <2>1 DEF on_error
      <3> QED BY <3>1, <3>2 DEF RoundInv
    <2>2. CASE on_message_sent
      BY <2>2 DEF on_message_sent, RoundInv
    <2>3. CASE on_tick
      BY <2>3 DEF on_tick, RoundInv
    <2> QED BY <1>4, <2>1, <2>2, <2>3
  <1>5. ASSUME NEW kinds, event_socket_callback(kinds) PROVE RoundInv'
    BY <1>5 DEF event_socket_callback, RoundInv
  <1>6. CASE RecvFrame
    <2>1. begun' => inbound' # <<>>
      BY <1>6, FrameReceived, TypeParts
    <2>2. CASE Fills(recvBytes)
      BY <1>6, <2>1, <2>2 DEF RecvFrame, RoundInv
    <2>3. CASE ~Fills(recvBytes)
      <3>1. Head(inbound) \in Nat
        BY <1>6, HeadTailProperties DEF RecvFrame, TypeOK
      <3>2. recvBytes = Head(inbound)
        BY <2>3, <3>1 DEF Fills, recvBytes
      <3>3. Head(inbound) - recvBytes = 0
        BY <3>1, <3>2
      <3>4. ~begun'
        BY <1>6, <3>3, Zenon DEF RecvFrame
      <3>5. StopReading
        BY <1>6, <2>3 DEF RecvFrame
      <3> QED BY <1>6, <3>4, <3>5 DEF RecvFrame, StopReading, RoundInv
    <2> QED BY <2>2, <2>3
  <1>7. CASE RecvNothing
    BY <1>7 DEF RecvNothing, StopReading, RoundInv
  <1>8. CASE swap_task_queue \/ TasksDone \/ RegisterSucceeds \/ send_message
    BY <1>8 DEF swap_task_queue, TasksDone, RegisterSucceeds, send_message, NextTask, RoundInv
  <1>9. CASE unregister_handle
    BY <1>9 DEF unregister_handle, deactivate, NextTask, RoundInv
  <1>10. ASSUME NEW length, PeerSends(length) PROVE RoundInv'
    BY <1>10 DEF PeerSends, RoundInv
  <1> QED BY <1>1, <1>2, <1>3, <1>4, <1>5, <1>6, <1>7, <1>8, <1>9, <1>10
          DEF Next, WorkerThread, on_recv_message, handle_read_event, handle_write_event,
              register_handle, tick

-----------------------------------------------------------------------------
(* The session.                                                            *)

\* A failure ends the session.
LEMMA FailEnds ==
    ASSUME Fail, SessionInv PROVE SessionInv'
  BY FailFacts DEF SessionInv, SessionCoherent, InSession

\* A step that changes none of the session's variables, and stays out of the
\* handlers and of the events.
SessionVars == <<status, handle, curl, socketEvent, armed, outReady>>

\* A step that leaves the session alone keeps its invariant.
LEMMA SessionKept ==
    ASSUME SessionInv, UNCHANGED SessionVars,
           loc' \in {"read", "write"} => loc = loc',
           loc \in {"read", "write"} => loc = loc',
           StartsWithAdd(Tasks) => StartsWithAdd(Tasks')
    PROVE  SessionInv'
  BY DEF SessionInv, SessionCoherent, InSession, SessionVars

\* Every step keeps the session, its handle and its status together.
LEMMA NextSessionInv ==
    ASSUME TypeOK, RoundInv, SessionInv, AddInv, [Next]_vars
    PROVE  SessionInv'
  <1> USE DEF workVars, connVars, inVars, linkVars, userVars
  <1>1. ASSUME loc # "tasks" \/ batch' = batch PROVE StartsWithAdd(Tasks) => StartsWithAdd(Tasks')
    BY <1>1, HandledFacts, PushKeeps
  <1>2. CASE User \/ UNCHANGED vars
    <2>1. UNCHANGED <<loc, batch, SessionVars>>
      BY <1>2, Zenon DEF User, set_outbound_message, enqueue_request, reconnect, add_connection,
                         remove_connection, LetGo, vars, SessionVars
    <2> QED BY <1>1, <2>1, SessionKept DEF SessionVars
  <1>3. CASE NoEvent \/ NoTimer \/ TasksDone \/ swap_task_queue \/ TickAfterEnd \/ on_tick \/ on_error
    <2>1. /\ UNCHANGED SessionVars /\ (loc # "tasks" \/ batch' = batch)
          /\ loc \notin {"read", "write"} /\ loc' \notin {"read", "write"}
      BY <1>3 DEF NoEvent, NoTimer, TasksDone, swap_task_queue, TickAfterEnd, on_tick, on_error,
                  SessionVars
    <2> QED BY <1>1, <2>1, SessionKept
  <1>4. CASE ConnectFails \/ RecvFails \/ SendFails \/ RegisterFails
    BY <1>4, FailEnds DEF ConnectFails, RecvFails, SendFails, RegisterFails
  <1>5. CASE ConnectSucceeds
    BY <1>5 DEF ConnectSucceeds, event_assign_callback, SessionInv, SessionCoherent, InSession
  <1>6. ASSUME NEW kinds, event_socket_callback(kinds) PROVE SessionInv'
    BY <1>6 DEF event_socket_callback, SessionInv, SessionCoherent, InSession
  <1>7. ASSUME StopReading, loc = "read", handle' = handle, outReady' = outReady PROVE SessionInv'
    BY <1>7 DEF StopReading, event_assign_callback, SessionInv, SessionCoherent, InSession, RoundInv
  <1>8. CASE RecvFrame
    <2>1. CASE Fills(recvBytes)
      BY <1>1, <1>8, <2>1, SessionKept DEF RecvFrame, SessionVars
    <2>2. CASE ~Fills(recvBytes)
      BY <1>7, <1>8, <2>2 DEF RecvFrame, StopReading
    <2> QED BY <2>1, <2>2
  <1>9. CASE RecvNothing
    BY <1>7, <1>9 DEF RecvNothing, StopReading
  <1>10. CASE SendFrame
    BY <1>10 DEF SendFrame, event_assign_callback, SessionInv, SessionCoherent, InSession
  <1>11. CASE on_message_sent
    BY <1>11 DEF on_message_sent, event_assign_callback, SessionInv, SessionCoherent, InSession
  <1>12. CASE RegisterSucceeds
    <2>1. StartsWithAdd(Tasks)
      BY <1>12, Handling DEF register_handle, StartsWithAdd
    <2>2. Released
      BY <2>1 DEF AddInv
    <2> QED BY <1>12, <2>2 DEF RegisterSucceeds, Released, SessionInv, SessionCoherent, InSession, NextTask
  <1>13. CASE send_message
    <2>1. ~StartsWithAdd(Tasks)
      BY <1>13, Handling DEF StartsWithAdd
    <2>2. status = "initializing" => handle
      BY <2>1 DEF SessionInv
    <2>3. loc = "tasks" /\ loc' = "tasks" /\ UNCHANGED <<status, handle, curl, socketEvent>>
      BY <1>13 DEF send_message, NextTask
    <2>4. ~handle => ~outReady'
      BY <1>13, <2>2 DEF send_message, Defer, SessionInv
    <2>5. /\ InSession => "READ" \in armed' /\ (status = "busy" => "WRITE" \in armed')
          /\ armed' # {} => InSession
      BY <1>13, <2>3 DEF send_message, event_assign_callback, SessionInv, SessionCoherent, InSession
    <2> QED BY <2>2, <2>3, <2>4, <2>5 DEF SessionInv, SessionCoherent, InSession
  <1>14. CASE unregister_handle
    <2>1. ~StartsWithAdd(Tasks)
      BY <1>14, Handling DEF StartsWithAdd
    <2>2. ~handle => status = "inactive"
      BY <2>1 DEF SessionInv, SessionCoherent, InSession, TypeOK
    <2>3. loc' = "tasks"
      BY <1>14 DEF unregister_handle, NextTask
    <2>4. status' = "inactive" /\ ~handle' /\ curl' = "none" /\ armed' = {} /\ ~outReady'
      BY <1>14, <2>2 DEF unregister_handle, deactivate, SessionInv, SessionCoherent, InSession, TypeOK
    <2> QED BY <2>3, <2>4 DEF SessionInv, SessionCoherent, InSession
  <1>15. ASSUME NEW length, PeerSends(length) PROVE SessionInv'
    <2>1. UNCHANGED <<loc, SessionVars>> /\ loc # "tasks"
      BY <1>15 DEF PeerSends, SessionVars
    <2> QED BY <1>1, <2>1, SessionKept
  <1> QED BY <1>2, <1>3, <1>4, <1>5, <1>6, <1>8, <1>9, <1>10, <1>11, <1>12, <1>13, <1>14, <1>15
          DEF Next, WorkerThread, on_recv_message, handle_read_event, handle_write_event,
              register_handle, tick

-----------------------------------------------------------------------------
(* The timer entry, the tasks and the end of the client.                   *)

\* Every step keeps one timer entry to a session at most.
LEMMA NextOneTimer ==
    ASSUME TypeOK, RoundInv, SessionInv, OneTimer, AddInv, [Next]_vars
    PROVE  OneTimer'
  <1> USE DEF workVars, connVars, inVars, linkVars, userVars
  <1>1. ASSUME UNCHANGED <<timers, status, handle>> PROVE OneTimer'
    BY <1>1 DEF OneTimer, InSession
  <1>2. CASE User \/ UNCHANGED vars
    BY <1>1, <1>2, Zenon DEF User, set_outbound_message, enqueue_request, reconnect,
                             add_connection, remove_connection, LetGo, vars
  <1>3. CASE NoEvent \/ NoTimer \/ TasksDone \/ swap_task_queue \/ on_tick \/ on_error \/ send_message
    BY <1>1, <1>3 DEF NoEvent, NoTimer, TasksDone, swap_task_queue, on_tick, on_error, send_message
  <1>4. CASE ConnectFails \/ RecvFails \/ SendFails \/ RegisterFails
    BY <1>4, FailFacts DEF ConnectFails, RecvFails, SendFails, RegisterFails, OneTimer
  <1>5. CASE ConnectSucceeds
    <2>1. handle /\ status = "initializing"
      BY <1>5 DEF ConnectSucceeds, SessionInv, SessionCoherent
    <2>2. timers = 0
      BY <2>1 DEF OneTimer, InSession, TypeOK
    <2> QED BY <1>5, <2>1, <2>2 DEF ConnectSucceeds, OneTimer, InSession
  <1>6. CASE SendFrame \/ on_message_sent
    BY <1>6 DEF SendFrame, on_message_sent, OneTimer, InSession
  <1>7. ASSUME NEW kinds, event_socket_callback(kinds) PROVE OneTimer'
    BY <1>1, <1>7 DEF event_socket_callback
  <1>8. CASE RecvFrame \/ RecvNothing
    BY <1>1, <1>8 DEF RecvFrame, RecvNothing, StopReading
  <1>9. CASE RegisterSucceeds
    <2>1. timers = 0
      BY <1>9, Handling DEF register_handle, StartsWithAdd, AddInv, Released
    <2> QED BY <1>9, <2>1 DEF RegisterSucceeds, OneTimer
  <1>10. CASE unregister_handle
    BY <1>10 DEF unregister_handle, timer_queue_remove, OneTimer, TypeOK
  <1>11. CASE TickAfterEnd
    BY <1>11 DEF TickAfterEnd, OneTimer, TypeOK
  <1>12. ASSUME NEW length, PeerSends(length) PROVE OneTimer'
    BY <1>1, <1>12 DEF PeerSends
  <1> QED BY <1>2, <1>3, <1>4, <1>5, <1>6, <1>7, <1>8, <1>9, <1>10, <1>11, <1>12
          DEF Next, WorkerThread, on_recv_message, handle_read_event, handle_write_event,
              register_handle, tick

\* An unregister_handle leaves everything released.
LEMMA UnregisterCleans ==
    ASSUME TypeOK, SessionInv, OneTimer, unregister_handle
    PROVE  Clean' /\ Released'
  <1>1. ~StartsWithAdd(Tasks)
    BY Handling DEF StartsWithAdd
  <1>2. ~handle => status = "inactive"
    BY <1>1 DEF SessionInv, SessionCoherent, InSession, TypeOK
  <1>3. status' = "inactive" /\ ~handle' /\ armed' = {} /\ ~outReady'
    BY <1>2 DEF unregister_handle, deactivate, SessionInv, SessionCoherent, InSession, TypeOK
  <1>4. ~socketEvent' /\ timers' = 0
    BY DEF unregister_handle, release_socket_event, timer_queue_remove, OneTimer, TypeOK
  <1> QED BY <1>3, <1>4 DEF Clean, Released, InSession

\* Nothing is acquired between a remove and its add, nor after the last remove.
LEMMA ReleasedStays ==
    ASSUME TypeOK, RoundInv, SessionInv, [Next]_vars, ~Handled
    PROVE  /\ Released => Released'
           /\ Clean => Clean'
  <1> USE DEF workVars, connVars, inVars, linkVars, userVars
  <1>1. ASSUME ~handle, ~InSession PROVE loc \notin {"read", "write"} /\ curl = "none"
    BY <1>1 DEF SessionInv, SessionCoherent, RoundInv, TypeOK
  <1>2. CASE User \/ UNCHANGED vars
    <2>1. UNCHANGED <<SessionVars, timers>>
      BY <1>2, Zenon DEF User, set_outbound_message, enqueue_request, reconnect, add_connection,
                         remove_connection, LetGo, vars, SessionVars
    <2> QED BY <2>1 DEF SessionVars, Released, Clean, InSession
  <1>3. CASE NoEvent \/ NoTimer \/ TasksDone \/ swap_task_queue \/ on_tick \/ on_error
    <2>1. UNCHANGED <<SessionVars, timers>>
      BY <1>3 DEF NoEvent, NoTimer, TasksDone, swap_task_queue, on_tick, on_error, SessionVars
    <2> QED BY <2>1 DEF SessionVars, Released, Clean, InSession
  <1>4. CASE TickAfterEnd
    BY <1>4 DEF TickAfterEnd, Released, Clean
  <1>5. ASSUME \/ on_recv_message \/ handle_read_event \/ handle_write_event
               \/ \E kinds \in SUBSET {"READ", "WRITE"} : event_socket_callback(kinds)
               \/ \E length \in 1 .. MaxLength : PeerSends(length)
        PROVE  ~Released /\ ~Clean
    <2>1. loc \in {"read", "write"} \/ curl # "none"
      BY <1>5 DEF on_recv_message, ConnectSucceeds, ConnectFails, handle_read_event, RecvFrame,
                  RecvNothing, RecvFails, handle_write_event, SendFrame, SendFails,
                  on_message_sent, event_socket_callback, PeerSends
    <2> QED BY <1>1, <2>1 DEF Released, Clean, InSession
  <1> QED BY <1>2, <1>3, <1>4, <1>5 DEF Next, WorkerThread, tick, Handled

\* Every add that waits finds the session before it released.
LEMMA NextAddInv ==
    ASSUME TypeOK, RoundInv, SessionInv, OneTimer, AddInv, [Next]_vars
    PROVE  AddInv'
  <1>1. CASE ~Handled
    BY <1>1, PushKeeps, ReleasedStays DEF AddInv
  <1>2. CASE Handled
    <2>1. Tasks # <<>> /\ Tasks' = Tail(Tasks) /\ (Head(Tasks) = "remove" => unregister_handle)
      BY <1>2, Handling DEF Handled
    <2>2. AddsFollow(Tasks')
      BY <2>1, TasksType, TailFacts DEF AddInv
    <2>3. ASSUME StartsWithAdd(Tasks') PROVE Released'
      <3>1. Head(Tasks) = "remove"
        BY <2>1, <2>3, TasksType, TailFacts DEF AddInv
      <3> QED BY <2>1, <3>1, UnregisterCleans
    <2> QED BY <2>2, <2>3 DEF AddInv
  <1> QED BY <1>1, <1>2

\* Every step keeps the remove of a destroyed client the last task.
LEMMA NextDestroyInv ==
    ASSUME TypeOK, RoundInv, SessionInv, OneTimer, AddInv, DestroyInv, [Next]_vars
    PROVE  DestroyInv'
  <1>1. CASE ~Handled
    <2>1. PICK t \in Pushes :
              /\ Tasks' = Tasks \o t
              /\ t # <<>> => upc = "idle" /\ alive
              /\ upc' = "destroy" \/ ~alive' =>
                    remove_connection \/ (t = <<>> /\ (upc = "destroy" \/ ~alive))
              /\ ~alive' => ~alive \/ LetGo
              /\ ~alive => upc' \in {upc, "idle"}
      BY <1>1, PushSteps
    <2>2. ~alive' => upc' = "idle"
      <3>1. CASE LetGo
        BY <3>1 DEF LetGo
      <3>2. CASE ~LetGo
        BY <2>1, <3>2 DEF DestroyInv
      <3> QED BY <3>1, <3>2
    <2>3. ASSUME remove_connection PROVE EndsInRemove(Tasks')
      BY <2>3, CallSteps, TasksType, PushRemoveEnds
    <2>4. ASSUME t = <<>> PROVE Tasks' = Tasks
      BY <2>1, <2>4, TasksType, ConcatEmptySeq
    <2> QED BY <1>1, <2>1, <2>2, <2>3, <2>4, ReleasedStays DEF DestroyInv
  <1>2. CASE Handled
    <2>1. Tasks # <<>> /\ Tasks' = Tail(Tasks) /\ (Head(Tasks) = "remove" => unregister_handle)
      BY <1>2, Handling DEF Handled
    <2>2. upc' = upc /\ alive' = alive
      BY <1>2, FailFacts DEF Handled, register_handle, RegisterSucceeds, RegisterFails,
                             send_message, unregister_handle, userVars
    <2>3. ASSUME EndsInRemove(Tasks) PROVE EndsInRemove(Tasks') \/ (Tasks' = <<>> /\ Clean')
      BY <2>1, <2>3, TasksType, TailFacts, UnregisterCleans
    <2> QED BY <2>1, <2>2, <2>3 DEF DestroyInv
  <1> QED BY <1>1, <1>2

-----------------------------------------------------------------------------
(* Theorems that hold however the client is used.                          *)

\* The invariant is inductive.
THEOREM Inductive == Spec => []IInv
  <1>1. IInv /\ [Next]_vars => IInv'
    BY NextTypeOK, NextRoundInv, NextSessionInv, NextOneTimer, NextAddInv, NextDestroyInv DEF IInv
  <1> QED BY <1>1, InitIInv, PTL DEF Spec

\* Every variable keeps its type: at most one message is stored, no more calls
\* are counted than are made, and what is armed is what libevent knows.
THEOREM TypeCorrect == Spec => []TypeOK
  <1>1. IInv => TypeOK
    BY DEF IInv
  <1> QED BY <1>1, Inductive, PTL

\* Status, curl handle, socket event and what libevent waits for move together.
THEOREM SessionsCohere == Spec => []SessionCoherent
  <1>1. IInv => SessionCoherent
    BY DEF IInv, SessionInv
  <1> QED BY <1>1, Inductive, PTL

\* At most one timer entry points to the connection, and a session's tick finds
\* its handle and its socket event.
THEOREM TimerOnce == Spec => []OneTimer
  <1>1. IInv => OneTimer
    BY DEF IInv
  <1> QED BY <1>1, Inductive, PTL

\* A frame that was reported in part is reported to its end in one callback.
THEOREM MultipartWhole == Spec => []MultipartReported
  <1>1. IInv => MultipartReported
    BY DEF IInv, RoundInv, MultipartReported
  <1> QED BY <1>1, Inductive, PTL

\* When the client is gone and its tasks are done, ~websocket_connection finds
\* everything released.
THEOREM DestroyedReleases == Spec => []DestroyedClean
  <1>1. ASSUME IInv, Destroyed PROVE Clean
    <2>1. upc = "idle" /\ batch = <<>> /\ queue = <<>>
      BY <1>1 DEF IInv, DestroyInv, Destroyed
    <2>2. Tasks = <<>>
      BY <2>1, TasksType, ConcatEmptySeq DEF Tasks, Pending
    <2> QED BY <1>1, <2>2 DEF IInv, DestroyInv, Destroyed, EndsInRemove
  <1>2. IInv => DestroyedClean
    BY <1>1 DEF DestroyedClean, Clean
  <1> QED BY <1>2, Inductive, PTL

-----------------------------------------------------------------------------
(* How a client that reconnects only after an error keeps to its contract. *)

HasAdd(s) == \E i \in 1 .. Len(s) : s[i] = "add"
OneAdd(s) == \A i, j \in 1 .. Len(s) : s[i] = "add" /\ s[j] = "add" => i = j

\* A send that no add follows belongs to the session that is, or is next.
Live(s, i) == s[i] = "send" /\ \A j \in i + 1 .. Len(s) : s[j] # "add"
HasLive(s) == \E i \in 1 .. Len(s) : Live(s, i)
OneLive(s) == \A i, j \in 1 .. Len(s) : Live(s, i) /\ Live(s, j) => i = j

\* A message waits for the socket to be writable.
Waits == status = "ready" /\ ("WRITE" \in armed \/ (loc = "read" /\ thenWrite) \/ loc = "write")

\* on_error is about to be called.
Failing == loc \in {"eventError", "taskError"}

\* The unanswered message is in exactly one place: in a send task, deferred, waiting
\* for the socket, or with curl; and a session that failed stays over until the
\* client's reconnect.
MessageHere == mine # 0 /\ outbound = mine
ContractInv ==
    /\ OneAdd(Tasks)
    /\ handle \/ errored \/ Failing => ~HasAdd(Tasks)
    /\ errored => ~handle /\ mine = 0 /\ ~Failing /\ status = "inactive"
    /\ handle \/ HasAdd(Tasks) => OneLive(Tasks)
    /\ (handle \/ HasAdd(Tasks)) /\ HasLive(Tasks) =>
          MessageHere /\ status # "busy" /\ ~outReady /\ ~Waits
    /\ outReady \/ Waits => MessageHere
    /\ outReady => status = "initializing"
    /\ status = "busy" => mine # 0 /\ frame = mine

-----------------------------------------------------------------------------
(* The adds and the live sends of a sequence of tasks.                     *)

\* A task is pushed.
LEMMA PushOne ==
    ASSUME NEW s \in Seq(Action), NEW a \in Action, NEW u, u = s \o <<a>>
    PROVE  /\ HasAdd(u) <=> HasAdd(s) \/ a = "add"
           /\ OneAdd(s) /\ (a = "add" => ~HasAdd(s)) => OneAdd(u)
           /\ HasLive(u) <=> a = "send" \/ (a = "remove" /\ HasLive(s))
           /\ a = "add" \/ (OneLive(s) /\ (a = "send" => ~HasLive(s))) => OneLive(u)
  <1>1. Len(s) \in Nat /\ <<a>> \in Seq(Action) /\ Len(<<a>>) = 1
    BY LenProperties
  <1>2. /\ Len(u) = Len(s) + 1 /\ u[Len(s) + 1] = a
        /\ \A i \in 1 .. Len(s) : u[i] = s[i]
    BY <1>1, ConcatProperties
  <1>3. HasAdd(u) <=> HasAdd(s) \/ a = "add"
    BY <1>1, <1>2 DEF HasAdd
  <1>4. OneAdd(s) /\ (a = "add" => ~HasAdd(s)) => OneAdd(u)
    BY <1>1, <1>2 DEF OneAdd, HasAdd
  <1>5. Live(u, Len(u)) <=> a = "send"
    BY <1>1, <1>2 DEF Live
  <1>6. \A i \in 1 .. Len(s) : Live(u, i) <=> a # "add" /\ Live(s, i)
    BY <1>1, <1>2 DEF Live
  <1>7. HasLive(u) <=> a = "send" \/ (a = "remove" /\ HasLive(s))
    BY <1>1, <1>2, <1>5, <1>6 DEF HasLive, Action
  <1>8. a = "add" \/ (OneLive(s) /\ (a = "send" => ~HasLive(s))) => OneLive(u)
    BY <1>1, <1>2, <1>5, <1>6 DEF OneLive, HasLive
  <1> QED BY <1>3, <1>4, <1>7, <1>8

\* A reconnect is pushed, and maybe a write.
LEMMA PushReconnect ==
    ASSUME NEW s \in Seq(Action), ~HasAdd(s), NEW u, u = s \o <<"remove", "add">>
    PROVE  u \in Seq(Action) /\ HasAdd(u) /\ OneAdd(u) /\ ~HasLive(u) /\ OneLive(u)
  <1>1. "add" \in Action /\ "send" \in Action /\ "remove" \in Action
    BY DEF Action
  <1>2. <<"remove">> \in Seq(Action) /\ <<"add">> \in Seq(Action) /\ <<"remove", "add">> \in Seq(Action)
    BY <1>1
  <1> DEFINE q == s \o <<"remove">>
  <1>3. q \in Seq(Action) /\ u \in Seq(Action)
    BY <1>2, ConcatProperties
  <1>4. u = q \o <<"add">>
    <2>1. (s \o <<"remove">>) \o <<"add">> = s \o (<<"remove">> \o <<"add">>)
      BY <1>2, Associative
    <2> QED BY <2>1, Pair, Zenon
  <1>5. OneAdd(s)
    BY DEF HasAdd, OneAdd
  <1>6. ~HasAdd(q) /\ OneAdd(q)
    BY <1>1, <1>5, PushOne
  <1> HIDE DEF q
  <1> QED BY <1>1, <1>3, <1>4, <1>6, PushOne

\* reconnect and write in one callback leave one add and one send that counts.
LEMMA PushReconnectSend ==
    ASSUME NEW s \in Seq(Action), ~HasAdd(s), NEW u, u = s \o <<"remove", "add", "send">>
    PROVE  HasAdd(u) /\ OneAdd(u) /\ OneLive(u)
  <1>1. "send" \in Action /\ <<"send">> \in Seq(Action) /\ <<"remove", "add">> \in Seq(Action)
    BY DEF Action
  <1> DEFINE r == s \o <<"remove", "add">>
  <1>2. r \in Seq(Action) /\ HasAdd(r) /\ OneAdd(r) /\ ~HasLive(r) /\ OneLive(r)
    BY PushReconnect
  <1>3. u = r \o <<"send">>
    <2>1. (s \o <<"remove", "add">>) \o <<"send">> = s \o (<<"remove", "add">> \o <<"send">>)
      BY <1>1, Associative
    <2> QED BY <2>1, Pair, Zenon
  <1> HIDE DEF r
  <1> QED BY <1>1, <1>2, <1>3, PushOne

\* A task is handled.
LEMMA TailContract ==
    ASSUME NEW s \in Seq(Action), s # <<>>, NEW u, u = Tail(s)
    PROVE  /\ HasAdd(u) => HasAdd(s)
           /\ OneAdd(s) => OneAdd(u)
           /\ OneAdd(s) /\ Head(s) = "add" => HasAdd(s) /\ ~HasAdd(u)
           /\ HasLive(u) => HasLive(s)
           /\ OneLive(s) => OneLive(u)
           /\ Head(s) = "send" /\ ~HasAdd(s) => HasLive(s)
           /\ Head(s) = "send" /\ ~HasAdd(s) /\ OneLive(s) => ~HasLive(u)
  <1>1. /\ Len(s) \in Nat \ {0} /\ Len(u) = Len(s) - 1 /\ Head(s) = s[1]
        /\ \A i \in 1 .. Len(u) : u[i] = s[i + 1]
    BY HeadTailProperties, EmptySeq
  <1>2. \A i \in 1 .. Len(u) : i + 1 \in 2 .. Len(s) /\ u[i] = s[i + 1]
    BY <1>1
  <1>3. HasAdd(u) => HasAdd(s)
    BY <1>1, <1>2 DEF HasAdd
  <1>4. OneAdd(s) => OneAdd(u)
    <2> SUFFICES ASSUME OneAdd(s), NEW i \in 1 .. Len(u), NEW j \in 1 .. Len(u),
                        u[i] = "add", u[j] = "add"
                 PROVE  i = j
      BY DEF OneAdd
    <2>1. i + 1 = j + 1
      BY <1>1, <1>2 DEF OneAdd
    <2> QED BY <2>1
  <1>5. OneAdd(s) /\ Head(s) = "add" => HasAdd(s) /\ ~HasAdd(u)
    BY <1>1, <1>2 DEF OneAdd, HasAdd
  <1>6. \A i \in 1 .. Len(u) : Live(u, i) => Live(s, i + 1)
    <2> SUFFICES ASSUME NEW i \in 1 .. Len(u), Live(u, i), NEW j \in i + 2 .. Len(s)
                 PROVE  s[i + 1] = "send" /\ s[j] # "add"
      BY <1>1, <1>2 DEF Live
    <2>1. j - 1 \in i + 1 .. Len(u) /\ u[j - 1] = s[j]
      BY <1>1
    <2> QED BY <1>1, <2>1 DEF Live
  <1>7. HasLive(u) => HasLive(s)
    BY <1>1, <1>2, <1>6 DEF HasLive
  <1>8. OneLive(s) => OneLive(u)
    <2> SUFFICES ASSUME OneLive(s), NEW i \in 1 .. Len(u), NEW j \in 1 .. Len(u),
                        Live(u, i), Live(u, j)
                 PROVE  i = j
      BY DEF OneLive
    <2>1. i + 1 = j + 1
      BY <1>1, <1>2, <1>6 DEF OneLive
    <2> QED BY <2>1
  <1>9. Head(s) = "send" /\ ~HasAdd(s) => Live(s, 1)
    BY <1>1 DEF Live, HasAdd
  <1>10. Head(s) = "send" /\ ~HasAdd(s) => HasLive(s)
    BY <1>1, <1>9 DEF HasLive
  <1>11. Head(s) = "send" /\ ~HasAdd(s) /\ OneLive(s) => ~HasLive(u)
    BY <1>1, <1>2, <1>6, <1>9 DEF HasLive, OneLive
  <1> QED BY <1>3, <1>4, <1>5, <1>7, <1>8, <1>10, <1>11

-----------------------------------------------------------------------------
(* Every step keeps the contract.                                          *)

\* What a step leaves alone that moves no message.
ContractVars == <<status, handle, outReady, frame, outbound, mine, errored>>

\* A step that leaves the tasks and the messages alone keeps the contract.
LEMMA ContractKept ==
    ASSUME ContractInv, Tasks' = Tasks, UNCHANGED ContractVars,
           Waits' => Waits, Failing' => Failing
    PROVE  ContractInv'
  BY DEF ContractInv, ContractVars, MessageHere

\* A failure discards the message, and nothing is left of the session.
LEMMA ContractFail ==
    ASSUME ContractInv, Fail, ~errored, ~HasAdd(Tasks'), OneAdd(Tasks')
    PROVE  ContractInv'
  BY FailFacts DEF ContractInv, MessageHere, Waits

\* A write is pushed after the tasks of a session that has no live send.
LEMMA SendPushed ==
    ASSUME TypeOK, Tasks' = Tasks \o <<"send">>, OneAdd(Tasks)
    PROVE  /\ OneAdd(Tasks')
           /\ HasAdd(Tasks') <=> HasAdd(Tasks)
           /\ ~HasLive(Tasks) => OneLive(Tasks')
  <1>1. "send" \in Action /\ ~("send" = "add") /\ ("send" # "remove")
    BY DEF Action
  <1>2. ~HasLive(Tasks) => OneLive(Tasks)
    BY DEF HasLive, OneLive
  <1> QED BY <1>1, <1>2, TasksType, PushOne

\* With a handle, a callback of the listener cannot reconnect: it writes (w) or not.
LEMMA SessionListener ==
    ASSUME TypeOK, ContractInv, ~LiveReconnect, batch' = batch, handle,
           NEW o, NEW m \in Nat, Listener(o, m, errored)
    PROVE  \E w \in BOOLEAN :
              /\ ~errored /\ ~errored' /\ errored' = errored
              /\ ~w => Tasks' = Tasks /\ outbound' = o /\ mine' = m
              /\ w  => Tasks' = Tasks \o <<"send">> /\ m = 0 /\ mine' # 0 /\ outbound' = mine'
  <1>1. errored = FALSE
    BY DEF ContractInv, TypeOK
  <1>2. Listener(o, m, FALSE)
    BY <1>1, Zenon
  <1>3. PICK r, w \in BOOLEAN :
            /\ Tasks' = Tasks \o Pushed(r, w)
            /\ r \/ w => CanCall /\ m = 0
            /\ r => FALSE \/ LiveReconnect
            /\ w => (r \/ ~FALSE)
            /\ outbound' = IF w THEN written + 1 ELSE o
            /\ mine' = IF w THEN written + 1 ELSE m
            /\ errored' = (FALSE /\ ~r)
            /\ UNCHANGED <<upc, alive>>
    BY <1>2, ListenerSteps, Zenon
  <1>4. ASSUME ~w PROVE Tasks' = Tasks /\ outbound' = o /\ mine' = m
    BY <1>3, <1>4, TasksType, ConcatEmptySeq DEF Pushed
  <1>5. ASSUME w PROVE Tasks' = Tasks \o <<"send">> /\ m = 0 /\ mine' # 0 /\ outbound' = mine'
    BY <1>3, <1>5 DEF Pushed, TypeOK
  <1> QED BY <1>1, <1>3, <1>4, <1>5

\* A callback that is not the answer to a message.
LEMMA ContractListener ==
    ASSUME TypeOK, ContractInv, ~LiveReconnect, batch' = batch, handle,
           Listener(outbound, mine, errored), UNCHANGED <<status, handle, outReady, frame>>,
           Waits' => Waits, ~Failing'
    PROVE  ContractInv'
  <1>1. PICK w \in BOOLEAN :
            /\ ~errored /\ ~errored' /\ errored' = errored
            /\ ~w => Tasks' = Tasks /\ outbound' = outbound /\ mine' = mine
            /\ w  => Tasks' = Tasks \o <<"send">> /\ mine = 0 /\ mine' # 0 /\ outbound' = mine'
    <2>1. mine \in Nat
      BY DEF TypeOK
    <2> QED BY <2>1, SessionListener, Zenon
  <1>2. CASE ~w
    <2>1. UNCHANGED ContractVars /\ Tasks' = Tasks
      BY <1>1, <1>2 DEF ContractVars
    <2> QED BY <2>1, ContractKept
  <1>3. CASE w
    <2>1. ~HasAdd(Tasks) /\ OneAdd(Tasks) /\ ~HasLive(Tasks) /\ ~outReady /\ ~Waits /\ status # "busy"
      BY <1>1, <1>3 DEF ContractInv, MessageHere
    <2>2. OneAdd(Tasks') /\ ~HasAdd(Tasks') /\ OneLive(Tasks')
      BY <1>1, <1>3, <2>1, SendPushed
    <2> QED BY <1>1, <1>3, <2>1, <2>2 DEF ContractInv, MessageHere
  <1> QED BY <1>2, <1>3

\* The client's calls.
LEMMA ContractUser ==
    ASSUME TypeOK, RoundInv, ContractInv, ~LiveReconnect, User
    PROVE  ContractInv'
  <1> USE DEF workVars, connVars, userVars
  <1>1. CASE enqueue_request \/ add_connection \/ LetGo
    <2>1. UNCHANGED <<ContractVars, armed, loc, thenWrite>>
      BY <1>1 DEF enqueue_request, add_connection, LetGo, ContractVars
    <2>2. Tasks' = Tasks
      BY <1>1, QuietSteps, MoveSteps
    <2> QED BY <2>1, <2>2, ContractKept DEF ContractVars, Waits, Failing
  <1>2. CASE set_outbound_message
    <2>1. Tasks' = Tasks \o <<"send">>
      BY <1>2, CallSteps
    <2>2. /\ UNCHANGED <<status, handle, outReady, frame, errored, armed, loc, thenWrite>>
          /\ mine = 0 /\ ~errored /\ mine' # 0 /\ outbound' = mine'
      BY <1>2 DEF set_outbound_message, TypeOK
    <2>3. (Waits' <=> Waits) /\ (Failing' <=> Failing)
      BY <2>2 DEF Waits, Failing
    <2>4. ~outReady /\ ~Waits /\ status # "busy" /\ OneAdd(Tasks)
          /\ (handle \/ HasAdd(Tasks) => ~HasLive(Tasks))
      BY <2>2 DEF ContractInv, MessageHere
    <2>5. /\ OneAdd(Tasks') /\ (HasAdd(Tasks') <=> HasAdd(Tasks))
          /\ ~HasLive(Tasks) => OneLive(Tasks')
      BY <2>1, <2>4, SendPushed
    <2> QED BY <2>2, <2>3, <2>4, <2>5 DEF ContractInv, MessageHere
  <1>3. CASE reconnect
    <2>1. Tasks' = Tasks \o <<"remove", "add">>
      BY <1>3, CallSteps
    <2>2. /\ UNCHANGED <<status, handle, outReady, frame, outbound, mine, armed, loc, thenWrite>>
          /\ errored /\ ~errored'
      BY <1>3 DEF reconnect, MayReconnect
    <2>3. (Waits' <=> Waits) /\ (Failing' <=> Failing)
      BY <2>2 DEF Waits, Failing
    <2>4. ~handle /\ status = "inactive" /\ ~Failing /\ ~HasAdd(Tasks)
      BY <2>2 DEF ContractInv
    <2>5. OneAdd(Tasks') /\ HasAdd(Tasks') /\ ~HasLive(Tasks') /\ OneLive(Tasks')
      BY <2>1, <2>4, TasksType, PushReconnect
    <2> QED BY <2>2, <2>3, <2>4, <2>5 DEF ContractInv, MessageHere
  <1>4. CASE remove_connection
    <2>1. Tasks' = Tasks \o <<"remove">>
      BY <1>4, CallSteps
    <2>2. UNCHANGED <<ContractVars, armed, loc, thenWrite>>
      BY <1>4 DEF remove_connection, ContractVars
    <2>3. (Waits' <=> Waits) /\ (Failing' <=> Failing)
      BY <2>2 DEF Waits, Failing, ContractVars
    <2>4. /\ HasAdd(Tasks') <=> HasAdd(Tasks)
          /\ OneAdd(Tasks) => OneAdd(Tasks')
          /\ HasLive(Tasks') <=> HasLive(Tasks)
          /\ OneLive(Tasks) => OneLive(Tasks')
      BY <2>1, TasksType, PushOne DEF Action
    <2> QED BY <2>2, <2>3, <2>4 DEF ContractInv, ContractVars, MessageHere
  <1> QED BY <1>1, <1>2, <1>3, <1>4 DEF User

\* on_error: the client may reconnect and write, or leave it.
LEMMA ContractError ==
    ASSUME TypeOK, SessionInv, RoundInv, ContractInv, on_error
    PROVE  ContractInv'
  <1>1. Failing /\ ~Failing' /\ Listener(outbound, 0, TRUE) /\ batch' = batch
    BY DEF on_error, Failing
  <1>2. UNCHANGED <<status, handle, outReady, frame>>
    BY DEF on_error, connVars
  <1>3. status = "inactive" /\ ~HasAdd(Tasks) /\ OneAdd(Tasks)
    BY <1>1 DEF RoundInv, Failing, ContractInv
  <1>4. ~handle /\ ~outReady /\ ~Waits'
    BY <1>2, <1>3 DEF SessionInv, SessionCoherent, InSession, ContractInv, Waits, TypeOK
  <1>5. PICK r, w \in BOOLEAN :
            /\ Tasks' = Tasks \o Pushed(r, w)
            /\ w => (r \/ ~TRUE)
            /\ outbound' = IF w THEN written + 1 ELSE outbound
            /\ mine' = IF w THEN written + 1 ELSE 0
            /\ errored' = (TRUE /\ ~r)
    BY <1>1, ListenerSteps
  <1>6. CASE ~r
    <2>1. ~w /\ Tasks' = Tasks /\ mine' = 0
      BY <1>5, <1>6, TasksType, ConcatEmptySeq DEF Pushed
    <2> QED BY <1>1, <1>2, <1>3, <1>4, <2>1 DEF ContractInv, MessageHere
  <1>7. CASE r /\ ~w
    <2>1. Tasks' = Tasks \o <<"remove", "add">>
      BY <1>5, <1>7 DEF Pushed
    <2>2. OneAdd(Tasks') /\ HasAdd(Tasks') /\ ~HasLive(Tasks') /\ OneLive(Tasks')
      BY <1>3, <2>1, TasksType, PushReconnect
    <2> QED BY <1>1, <1>2, <1>3, <1>4, <1>5, <1>7, <2>2 DEF ContractInv, MessageHere
  <1>8. CASE r /\ w
    <2>1. Tasks' = Tasks \o <<"remove", "add", "send">>
      BY <1>5, <1>8 DEF Pushed
    <2>2. OneAdd(Tasks') /\ HasAdd(Tasks') /\ OneLive(Tasks')
      BY <1>3, <2>1, TasksType, PushReconnectSend
    <2>3. mine' # 0 /\ outbound' = mine' /\ ~errored'
      <3>1. mine' = written + 1 /\ outbound' = written + 1 /\ ~errored'
        BY <1>5, <1>8, Zenon
      <3>2. written + 1 # 0
        BY DEF TypeOK
      <3> QED BY <3>1, <3>2, Zenon
    <2> QED BY <1>1, <1>2, <1>3, <1>4, <2>2, <2>3 DEF ContractInv, MessageHere
  <1> QED BY <1>6, <1>7, <1>8

\* The answer to a message: the session is ready, and has no live send.
LEMMA ContractAnswer ==
    ASSUME TypeOK, SessionInv, RoundInv, ContractInv, ~LiveReconnect, on_message_sent
    PROVE  ContractInv'
  <1>1. handle /\ Listener(0, 0, errored) /\ batch' = batch
    BY DEF on_message_sent, RoundInv, SessionInv, SessionCoherent
  <1>2. /\ status = "busy" /\ status' = "ready" /\ UNCHANGED <<handle, outReady, frame>>
        /\ ~Waits' /\ ~Failing'
    BY DEF on_message_sent, linkVars, event_assign_callback, Waits, Failing
  <1>3. ~HasAdd(Tasks) /\ OneAdd(Tasks) /\ ~HasLive(Tasks) /\ ~outReady /\ OneLive(Tasks)
    BY <1>1, <1>2 DEF ContractInv
  <1>4. PICK w \in BOOLEAN :
            /\ ~errored /\ ~errored'
            /\ ~w => Tasks' = Tasks
            /\ w  => Tasks' = Tasks \o <<"send">> /\ mine' # 0 /\ outbound' = mine'
    BY <1>1, SessionListener
  <1>5. OneAdd(Tasks') /\ ~HasAdd(Tasks') /\ OneLive(Tasks') /\ (~w => ~HasLive(Tasks'))
    <2>1. CASE w
      BY <1>3, <1>4, <2>1, SendPushed
    <2>2. CASE ~w
      BY <1>3, <1>4, <2>2
    <2> QED BY <2>1, <2>2
  <1> QED BY <1>1, <1>2, <1>3, <1>4, <1>5 DEF ContractInv, MessageHere

\* The handlers of tasks.
LEMMA ContractHandled ==
    ASSUME TypeOK, SessionInv, RoundInv, AddInv, ContractInv, Handled
    PROVE  ContractInv'
  <1> USE DEF inVars, linkVars, userVars
  <1>1. /\ Tasks # <<>> /\ Tasks' = Tail(Tasks)
        /\ register_handle => Head(Tasks) = "add"
        /\ send_message => Head(Tasks) = "send"
        /\ unregister_handle => Head(Tasks) = "remove"
    BY Handling DEF Handled
  <1>2. /\ HasAdd(Tasks') => HasAdd(Tasks)
        /\ OneAdd(Tasks) => OneAdd(Tasks')
        /\ OneAdd(Tasks) /\ Head(Tasks) = "add" => HasAdd(Tasks) /\ ~HasAdd(Tasks')
        /\ HasLive(Tasks') => HasLive(Tasks)
        /\ OneLive(Tasks) => OneLive(Tasks')
        /\ Head(Tasks) = "send" /\ ~HasAdd(Tasks) => HasLive(Tasks)
        /\ Head(Tasks) = "send" /\ ~HasAdd(Tasks) /\ OneLive(Tasks) => ~HasLive(Tasks')
    BY <1>1, TasksType, TailContract
  <1>3. loc = "tasks"
    BY HandledFacts
  <1>4. CASE RegisterSucceeds
    <2>1. Released /\ ~handle
      BY <1>1, <1>4 DEF AddInv, StartsWithAdd, register_handle, Released
    <2>2. /\ handle' /\ status' = "initializing" /\ loc' = "tasks"
          /\ UNCHANGED <<outReady, frame, outbound, mine, errored>>
      BY <1>3, <1>4 DEF RegisterSucceeds
    <2>3. HasAdd(Tasks) /\ ~HasAdd(Tasks') /\ OneAdd(Tasks')
      BY <1>1, <1>2, <1>4 DEF ContractInv, register_handle
    <2>4. ~Waits' /\ ~Failing' /\ ~outReady /\ ~errored
      BY <2>1, <2>2, <2>3 DEF Waits, Failing, Released, ContractInv
    <2> QED BY <1>2, <2>2, <2>3, <2>4 DEF ContractInv, MessageHere
  <1>5. CASE RegisterFails
    <2>1. HasAdd(Tasks) /\ ~HasAdd(Tasks') /\ OneAdd(Tasks') /\ ~errored
      BY <1>1, <1>2, <1>5 DEF ContractInv, register_handle
    <2> QED BY <1>5, <2>1, ContractFail DEF RegisterFails
  <1>6. CASE send_message
    <2>1. /\ UNCHANGED <<status, handle, frame, outbound, mine, errored, loc, thenWrite>>
          /\ outReady' = (outReady \/ status = "initializing")
          /\ status # "ready" => armed' = armed
      BY <1>6 DEF send_message, Defer
    <2>2. status = "initializing" => handle
      BY <1>1, <1>6 DEF SessionInv, StartsWithAdd
    <2>3. InSession => handle
      BY DEF SessionInv, SessionCoherent
    <2>4. ~Failing /\ ~Failing'
      BY <1>3, <2>1 DEF Failing
    <2>5. CASE handle
      <3>1. ~HasAdd(Tasks) /\ HasLive(Tasks) /\ ~HasLive(Tasks') /\ MessageHere /\ status # "busy"
        BY <1>1, <1>2, <1>6, <2>5 DEF ContractInv
      <3> QED BY <1>2, <2>1, <2>4, <2>5, <3>1 DEF ContractInv, MessageHere
    <2>6. CASE ~handle
      <3>1. status = "inactive" /\ outReady' = outReady /\ ~Waits /\ ~Waits'
        BY <2>1, <2>2, <2>3, <2>6 DEF InSession, TypeOK, Waits
      <3> QED BY <1>2, <2>1, <2>4, <2>6, <3>1 DEF ContractInv, MessageHere
    <2> QED BY <2>5, <2>6
  <1>7. CASE unregister_handle
    <2>1. /\ UNCHANGED <<frame, mine, errored, loc>>
          /\ ~handle => outbound' = outbound
      BY <1>7 DEF unregister_handle
    <2>2. ~handle => status = "inactive"
      BY <1>1, <1>7 DEF SessionInv, SessionCoherent, InSession, StartsWithAdd, TypeOK
    <2>3. status' = "inactive" /\ ~handle' /\ ~outReady'
      BY <1>7, <2>2 DEF unregister_handle, deactivate, SessionInv
    <2>4. ~Waits' /\ ~Failing /\ ~Failing'
      BY <1>3, <2>1, <2>3 DEF Waits, Failing
    <2>5. HasAdd(Tasks) => ~handle
      BY DEF ContractInv
    <2> QED BY <1>2, <2>1, <2>3, <2>4, <2>5 DEF ContractInv, MessageHere
  <1> QED BY <1>4, <1>5, <1>6, <1>7 DEF Handled, register_handle

\* The other steps of the worker thread that call back the listener.
LEMMA ContractCallback ==
    ASSUME TypeOK, SessionInv, RoundInv, OneTimer, ContractInv, ~LiveReconnect, RecvFrame \/ on_tick
    PROVE  ContractInv'
  <1> USE DEF connVars, linkVars
  <1>1. CASE RecvFrame
    <2>1. handle /\ batch' = batch /\ Listener(outbound, mine, errored) /\ loc = "read"
      BY <1>1 DEF RecvFrame, StopReading, RoundInv, SessionInv, SessionCoherent
    <2>2. UNCHANGED <<status, handle, outReady, frame>>
      BY <1>1 DEF RecvFrame, StopReading
    <2>3. (Waits' => Waits) /\ ~Failing'
      <3>1. CASE Fills(recvBytes)
        BY <1>1, <3>1 DEF RecvFrame, Waits, Failing
      <3>2. CASE ~Fills(recvBytes)
        BY <1>1, <3>2 DEF RecvFrame, StopReading, event_assign_callback, Waits, Failing
      <3> QED BY <3>1, <3>2
    <2> QED BY <2>1, <2>2, <2>3, ContractListener
  <1>2. CASE on_tick
    <2>1. handle /\ batch' = batch /\ Listener(outbound, mine, errored)
      BY <1>2 DEF on_tick, OneTimer, SessionOver, TypeOK
    <2>2. UNCHANGED <<status, handle, outReady, frame>> /\ (Waits' => Waits) /\ ~Failing'
      BY <1>2 DEF on_tick, Waits, Failing
    <2> QED BY <2>1, <2>2, ContractListener
  <1> QED BY <1>1, <1>2

\* The steps that neither push nor handle a task.
LEMMA ContractQuiet ==
    ASSUME TypeOK, SessionInv, RoundInv, ContractInv, QuietStep
    PROVE  ContractInv'
  <1> USE DEF workVars, connVars, inVars, linkVars, userVars
  <1>1. Tasks' = Tasks
    BY QuietSteps
  <1>2. CASE NoEvent \/ NoTimer \/ TasksDone \/ TickAfterEnd \/ UNCHANGED vars
    <2>1. UNCHANGED ContractVars /\ (Waits' => Waits) /\ (Failing' => Failing)
      BY <1>2 DEF NoEvent, NoTimer, TasksDone, TickAfterEnd, vars, ContractVars, Waits, Failing
    <2> QED BY <1>1, <2>1, ContractKept
  <1>3. CASE ConnectFails \/ RecvFails \/ SendFails
    <2>1. Fail /\ handle
      BY <1>3 DEF ConnectFails, RecvFails, SendFails, RoundInv, SessionInv, SessionCoherent, InSession
    <2> QED BY <1>1, <2>1, ContractFail DEF ContractInv
  <1>4. CASE ConnectSucceeds
    <2>1. handle /\ status = "initializing"
      BY <1>4 DEF ConnectSucceeds, SessionInv, SessionCoherent
    <2>2. /\ status' = "ready" /\ ~outReady' /\ ~Failing'
          /\ UNCHANGED <<handle, frame, outbound, mine, errored>>
      BY <1>4 DEF ConnectSucceeds, Failing
    <2>3. Waits' => outReady
      BY <1>4 DEF ConnectSucceeds, event_assign_callback, DeferredSend, Waits
    <2> QED BY <1>1, <2>1, <2>2, <2>3 DEF ContractInv, MessageHere
  <1>5. ASSUME NEW kinds, event_socket_callback(kinds) PROVE ContractInv'
    <2>1. UNCHANGED ContractVars /\ ~Failing'
      BY <1>5 DEF event_socket_callback, ContractVars, Failing
    <2>2. kinds \in SUBSET {"READ", "WRITE"}
      BY <1>5 DEF event_socket_callback, TypeOK
    <2>3. Waits' => Waits
      <3>1. Waits' => "WRITE" \in kinds /\ status = "ready"
        BY <1>5, <2>2 DEF event_socket_callback, Waits
      <3> QED BY <1>5, <3>1 DEF event_socket_callback, Waits
    <2> QED BY <1>1, <2>1, <2>3, ContractKept
  <1>6. CASE RecvNothing
    <2>1. UNCHANGED ContractVars /\ (Waits' => Waits) /\ ~Failing'
      BY <1>6 DEF RecvNothing, StopReading, event_assign_callback, ContractVars, Waits, Failing
    <2> QED BY <1>1, <2>1, ContractKept
  <1>7. CASE SendFrame
    <2>1. handle /\ Waits
      BY <1>7 DEF SendFrame, RoundInv, SessionInv, SessionCoherent, Waits
    <2>2. MessageHere /\ ~HasLive(Tasks) /\ ~outReady
      BY <1>7, <2>1 DEF ContractInv, SendFrame
    <2>3. /\ status' = "busy" /\ frame' = outbound /\ ~Waits' /\ ~Failing'
          /\ UNCHANGED <<handle, outReady, outbound, mine, errored>>
      BY <1>7 DEF SendFrame, Waits, Failing
    <2> QED BY <1>1, <2>1, <2>2, <2>3 DEF ContractInv, MessageHere
  <1>8. ASSUME NEW length, PeerSends(length) PROVE ContractInv'
    <2>1. UNCHANGED ContractVars /\ (Waits' => Waits) /\ (Failing' => Failing)
      BY <1>8 DEF PeerSends, ContractVars, Waits, Failing
    <2> QED BY <1>1, <2>1, ContractKept
  <1> QED BY <1>2, <1>3, <1>4, <1>5, <1>6, <1>7, <1>8 DEF QuietStep, on_recv_message

\* Every step of a client that keeps to its contract keeps the invariant.
LEMMA NextContract ==
    ASSUME ~LiveReconnect, IInv, ContractInv, [Next]_vars
    PROVE  ContractInv'
  <1> USE DEF IInv
  <1>1. CASE User
    BY <1>1, ContractUser
  <1>2. CASE on_error
    BY <1>2, ContractError
  <1>3. CASE on_message_sent
    BY <1>3, ContractAnswer
  <1>4. CASE RecvFrame \/ on_tick
    BY <1>4, ContractCallback
  <1>5. CASE Handled
    BY <1>5, ContractHandled
  <1>6. CASE swap_task_queue
    <2>1. UNCHANGED ContractVars /\ (Waits' => Waits) /\ ~Failing'
      BY <1>6 DEF swap_task_queue, connVars, userVars, ContractVars, Waits, Failing
    <2> QED BY <1>6, <2>1, MoveSteps, ContractKept
  <1>7. CASE QuietStep
    BY <1>7, ContractQuiet
  <1> QED BY <1>1, <1>2, <1>3, <1>4, <1>5, <1>6, <1>7
          DEF QuietStep, Handled, Next, WorkerThread, handle_read_event, handle_write_event, tick

\* The first add is the only task.
LEMMA InitContract == Init => ContractInv
  <1> SUFFICES ASSUME Init PROVE ContractInv
    OBVIOUS
  <1>1. Tasks = <<"add">>
    BY InitTasks
  <1>2. OneAdd(Tasks) /\ ~HasLive(Tasks) /\ OneLive(Tasks)
    BY <1>1 DEF OneAdd, HasLive, OneLive, Live
  <1>3. ~handle /\ ~errored /\ ~Failing /\ ~outReady /\ ~Waits /\ status = "initializing"
    BY DEF Init, Failing, Waits
  <1> QED BY <1>2, <1>3 DEF ContractInv

-----------------------------------------------------------------------------
(* Theorems about a client that reconnects only after an error.            *)

\* The unanswered message is in one place, a session that failed stays over until
\* the client's reconnect, and no send task is left of an earlier session.
THEOREM ContractKeeps ==
    ASSUME ~LiveReconnect
    PROVE  Spec => []ContractInv
  <1>1. Init => ContractInv
    BY InitContract
  <1>2. IInv /\ ContractInv /\ [Next]_vars => ContractInv'
    BY NextContract
  <1> QED BY <1>1, <1>2, Inductive, PTL DEF Spec

\* The task whose turn it is comes first.
LEMMA FirstTask ==
    ASSUME TypeOK, NEW action, NextTask(action)
    PROVE  Tasks # <<>> /\ Head(Tasks) = action
  <1>1. batch \in Seq(Action) /\ queue \in Seq(Action) /\ Pending \in Seq(Action) /\ batch # <<>>
    BY TasksType DEF NextTask
  <1>2. queue \o Pending \in Seq(Action)
    BY <1>1, ConcatProperties
  <1>3. Tasks = batch \o (queue \o Pending)
    BY <1>1, Associative DEF Tasks
  <1> QED BY <1>1, <1>2, <1>3, TailOfConcat DEF NextTask

\* A task finds the connection in a state its handler expects: an add finds nothing
\* registered and nothing deferred, a send does not find a message that is being sent.
THEOREM TasksExpected ==
    ASSUME ~LiveReconnect
    PROVE  Spec => []TaskExpected
  <1>1. ASSUME IInv, NextTask("add") PROVE ~handle /\ ~InSession /\ ~outReady
    <2>1. StartsWithAdd(Tasks)
      BY <1>1, FirstTask DEF IInv, StartsWithAdd
    <2> QED BY <1>1, <2>1 DEF IInv, AddInv, Released
  <1>2. ASSUME IInv, ContractInv, NextTask("send") PROVE status # "busy"
    <2>1. Tasks # <<>> /\ Head(Tasks) = "send" /\ Tasks \in Seq(Action)
      BY <1>2, FirstTask, TasksType DEF IInv
    <2>2. ~HasAdd(Tasks) => HasLive(Tasks)
      BY <2>1, TailContract
    <2>3. status = "busy" => handle
      BY <1>2 DEF IInv, SessionInv, SessionCoherent, InSession
    <2> QED BY <1>2, <2>2, <2>3 DEF ContractInv
  <1>3. IInv /\ ContractInv => TaskExpected
    BY <1>1, <1>2 DEF TaskExpected
  <1> QED BY <1>3, Inductive, ContractKeeps, PTL

\* A send task that finds the session ready finds the message it was pushed for.
THEOREM SendFindsMessage ==
    ASSUME ~LiveReconnect
    PROVE  Spec => []MessageToSend
  <1>1. ASSUME IInv, ContractInv, NextTask("send"), status = "ready" PROVE outbound # 0
    <2>1. Tasks # <<>> /\ Head(Tasks) = "send" /\ Tasks \in Seq(Action)
      BY <1>1, FirstTask, TasksType DEF IInv
    <2>2. ~HasAdd(Tasks) => HasLive(Tasks)
      BY <2>1, TailContract
    <2>3. handle
      BY <1>1 DEF IInv, SessionInv, SessionCoherent, InSession
    <2> QED BY <1>1, <2>2, <2>3 DEF ContractInv, MessageHere
  <1>2. IInv /\ ContractInv => MessageToSend
    BY <1>1 DEF MessageToSend
  <1> QED BY <1>2, Inductive, ContractKeeps, PTL

\* Only the unanswered message goes out, and on_message_sent answers the message
\* that was passed to curl.
THEOREM WriteIsSent ==
    ASSUME ~LiveReconnect
    PROVE  Spec => SendsTheWrite
  <1>1. ASSUME IInv, ContractInv, SendFrame PROVE outbound # 0 /\ outbound = mine
    <2>1. Waits
      BY <1>1 DEF SendFrame, Waits
    <2> QED BY <1>1, <2>1 DEF ContractInv, MessageHere
  <1>2. ASSUME IInv, ContractInv, on_message_sent PROVE mine # 0 /\ frame = mine
    BY <1>2 DEF on_message_sent, ContractInv
  <1>3. IInv /\ ContractInv /\ [Next]_vars =>
          [/\ SendFrame => outbound # 0 /\ outbound = mine
           /\ on_message_sent => mine # 0 /\ frame = mine]_vars
    BY <1>1, <1>2
  <1> QED BY <1>3, Inductive, ContractKeeps, PTL DEF Spec, SendsTheWrite

\* Once on_error was called no callback follows before the next reconnect().
THEOREM NoCallbackAfterError ==
    ASSUME ~LiveReconnect
    PROVE  Spec => CallbacksOnlyInSession
  <1>1. ASSUME IInv, ContractInv, on_error \/ on_message_sent \/ RecvFrame \/ on_tick
        PROVE  ~errored
    <2>1. CASE on_error
      BY <1>1, <2>1 DEF on_error, ContractInv, Failing
    <2>2. CASE on_message_sent \/ RecvFrame
      <3>1. handle
        BY <1>1, <2>2 DEF on_message_sent, RecvFrame, IInv, RoundInv, SessionInv, SessionCoherent
      <3> QED BY <1>1, <3>1 DEF ContractInv
    <2>3. CASE on_tick
      <3>1. handle
        BY <1>1, <2>3 DEF on_tick, IInv, OneTimer, SessionOver, TypeOK
      <3> QED BY <1>1, <3>1 DEF ContractInv
    <2> QED BY <1>1, <2>1, <2>2, <2>3
  <1>2. IInv /\ ContractInv /\ [Next]_vars =>
          [on_error \/ on_message_sent \/ RecvFrame \/ on_tick => ~errored]_vars
    BY <1>1
  <1> QED BY <1>2, Inductive, ContractKeeps, PTL DEF Spec, CallbacksOnlyInSession
==============================================================================
