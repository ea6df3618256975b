------------------------- MODULE SocketEventsProofs -------------------------
(***************************************************************************)
(* Proofs of the safety of SocketEvents, for any connections, any sockets, *)
(* finitely many or not, and any initial capacity of the pool.  What needs *)
(* curl to try one address of a session at a time (Addresses = 1) says so. *)
(***************************************************************************)
EXTENDS SocketEvents, FiniteSetTheorems, FunctionTheorems, SequenceTheorems, TLAPS

-----------------------------------------------------------------------------
(* The inductive invariant.                                                *)

Event == [owner : Connections \cup {Curl, None}, socket : Sockets \cup {None},
          kinds : SUBSET Kinds, added : BOOLEAN]
Message == [connection : Connections, ok : BOOLEAN]

\* The state TypeOK speaks of, by what changes together.
PoolType == events \in Seq(Event) /\ freeSocketEvents \in Seq(Node)
PointerType ==
    /\ socketp \in [Sockets -> 0 .. Len(events)]
    /\ socketEvent \in [Sessions -> 0 .. Len(events)]
CurlType ==
    /\ timer \in BOOLEAN
    /\ transfer \in [Connections -> {"none", "running", "done"}]
    /\ users \in [Sockets -> SUBSET Connections]
    /\ open \subseteq Sockets
    /\ watch \in [Sockets -> SUBSET Kinds]
    /\ messages \in Seq(Message)
SessionType ==
    /\ opened \in [Sessions -> 0 .. Addresses + 1]
    /\ connected \in [Sessions -> Sockets \cup {None}]
    /\ status \in [Sessions -> {"initializing", "ready", "inactive"}]
    /\ resolverSocket \in [Sessions -> Sockets \cup {None}]
    /\ dataSocket \in [Sessions -> Sockets \cup {None}]
LoopType ==
    /\ loc \in {"events", "curl", "data", "tasks", "ended"}
    /\ removing \in Sessions \cup {None}
    /\ registered \subseteq Sessions

\* A free event is blank and on the list once, and every other has an owner ...
InFree(n) == \E i \in 1 .. Len(freeSocketEvents) : freeSocketEvents[i] = n
FreeOnce ==
    \A i, j \in 1 .. Len(freeSocketEvents) :
        i # j => freeSocketEvents[i] # freeSocketEvents[j]
FreeBlank == \A n \in Node : InFree(n) => events[n] = Blank
Owned(n) == \/ InFree(n)
            \/ \E s \in Sockets : socketp[s] = n
            \/ \E c \in Sessions : socketEvent[c] = n
PoolInv == FreeOnce /\ FreeBlank /\ \A n \in Node : Owned(n)

\* ... curl, for a socket it waits for ...
PollInv ==
    \A s \in Sockets :
        /\ socketp[s] # null <=> watch[s] # {}
        /\ socketp[s] # null => events[socketp[s]] = Polled(s, watch[s])

\* ... or a session, for which libevent waits when it is ready.
SlotInv ==
    \A c \in Sessions :
        socketEvent[c] # null =>
            /\ events[socketEvent[c]].owner = c
            /\ events[socketEvent[c]].added <=> status[c] = "ready"

EventInv == PoolType /\ PointerType /\ PoolInv /\ PollInv /\ SlotInv

\* A session has an event only between its connecting and its remove task.
SessionInv ==
    \A c \in Sessions :
        /\ socketEvent[c] # null => c \in registered /\ transfer[c] # "running"
        /\ status[c] = "ready" => transfer[c] = "done" /\ (socketEvent[c] # null \/ removing = c)
        /\ transfer[c] # "none" => c \in registered \/ removing = c

\* Curl waits only for sockets that running transfers use, and a session's sockets
\* are its own.
SocketInv(s) ==
    /\ users[s] # {} => s \in open
    /\ watch[s] # {} => users[s] # {} /\ \A c \in users[s] : transfer[c] = "running"
    /\ \A c \in users[s] : /\ transfer[c] # "none"
                           /\ c \in Transfers => transfer[c] = "running"
                           /\ c \in Sessions => users[s] = {c}
UserInv == IsFiniteSet(open) /\ \A s \in Sockets : SocketInv(s)

\* A message is about a transfer that is done, once.
MessageInv ==
    /\ \A i \in 1 .. Len(messages) :
          LET c == messages[i].connection
          IN  /\ transfer[c] = "done"
              /\ c \in Sessions => status[c] # "ready" /\ socketEvent[c] = null
    /\ \A i, j \in 1 .. Len(messages) : i # j => messages[i].connection # messages[j].connection

\* Where the worker thread is.
RoundInv ==
    /\ messages # <<>> => loc \in {"curl", "data"} /\ removing = None
    /\ removing # None =>
          /\ loc = "curl" /\ removing \notin registered
          /\ transfer[removing] # "none" /\ socketEvent[removing] = null
    /\ loc = "ended" => registered = {} /\ \A c \in Connections : transfer[c] = "none"

IInv == /\ EventInv /\ CurlType /\ SessionType /\ LoopType
        /\ SessionInv /\ UserInv /\ MessageInv /\ RoundInv

\* With one address at a time, the socket attached last is the one socket a session
\* has, and the one it connects.
Succeeded(c) == \/ status[c] = "ready"
                \/ \E i \in 1 .. Len(messages) : messages[i] = [connection |-> c, ok |-> TRUE]
DataInv(c) ==
    /\ transfer[c] = "running" => SocketsOf(c) \subseteq {dataSocket[c]}
    /\ transfer[c] = "none" => resolverSocket[c] = None /\ dataSocket[c] = None
    /\ opened[c] = 0 => resolverSocket[c] = None
    /\ opened[c] = 1 => resolverSocket[c] = dataSocket[c]
    /\ Succeeded(c) => connected[c] = dataSocket[c] /\ connected[c] \in SocketsOf(c)
SlotSocket(c) ==
    socketEvent[c] # null /\ status[c] = "ready" => events[socketEvent[c]].socket = connected[c]
ConnectedInv == \A c \in Sessions : DataInv(c) /\ SlotSocket(c)

\* TypeOK by its parts.
LEMMA TypeParts ==
    TypeOK <=> PoolType /\ PointerType /\ CurlType /\ SessionType /\ LoopType
  BY DEF TypeOK, PoolType, PointerType, CurlType, SessionType, LoopType, Event, Message, null

-----------------------------------------------------------------------------
(* The pool.                                                               *)

\* A sequence of one.
LEMMA Unit ==
    ASSUME NEW S, NEW x \in S
    PROVE  <<x>> \in Seq(S) /\ Len(<<x>>) = 1 /\ <<x>>[1] = x
  OBVIOUS

\* An acquired event has no owner before, and leaves the list.
LEMMA AcquireFacts ==
    ASSUME PoolType, FreeOnce, FreeBlank, NEW e \in Event, acquire_socket_event(e)
    PROVE  /\ events' \in Seq(Event) /\ freeSocketEvents' \in Seq(1 .. Len(events'))
           /\ Len(events) \in Nat /\ Len(events') \in Nat /\ Len(events) <= Len(events')
           /\ acquired \in 1 .. Len(events')
           /\ \A n \in 1 .. Len(events') : n = acquired \/ n \in 1 .. Len(events)
           /\ events'[acquired] = e
           /\ \A n \in 1 .. Len(events) : n # acquired => events'[n] = events[n]
           /\ acquired \in 1 .. Len(events) => events[acquired] = Blank
           /\ FreeOnce' /\ \A n : InFree(n)' <=> InFree(n) /\ n # acquired
  <1> DEFINE N == Len(events)
             M == Len(freeSocketEvents)
  <1>1. events \in Seq(Event) /\ freeSocketEvents \in Seq(1 .. N) /\ N \in Nat /\ M \in Nat
    BY LenProperties DEF PoolType, Node
  <1>2. CASE freeSocketEvents = <<>>
    <2>1. events' = Append(events, e) /\ freeSocketEvents' = <<>> /\ acquired = N + 1
      BY <1>2 DEF acquire_socket_event, acquired
    <2>2. /\ events' \in Seq(Event) /\ Len(events') = N + 1
          /\ \A i \in 1 .. N : events'[i] = events[i]
          /\ events'[N + 1] = e
      BY <1>1, <2>1, AppendProperties
    <2>3. FreeOnce' /\ \A n : ~InFree(n)' /\ ~InFree(n)
      BY <1>2, <2>1 DEF FreeOnce, InFree
    <2>4. freeSocketEvents' \in Seq(1 .. Len(events'))
      BY <2>1
    <2> HIDE DEF N
    <2>5. N + 1 \in 1 .. N + 1 /\ N + 1 \notin 1 .. N /\ N <= N + 1 /\ N + 1 \in Nat
          /\ \A n \in 1 .. N + 1 : n = N + 1 \/ n \in 1 .. N
      BY <1>1
    <2> USE DEF N
    <2> QED BY <1>1, <2>1, <2>2, <2>3, <2>4, <2>5, Zenon
  <1>3. CASE freeSocketEvents # <<>>
    <2>1. /\ events' = [events EXCEPT ![acquired] = e]
          /\ freeSocketEvents' = Tail(freeSocketEvents) /\ acquired = Head(freeSocketEvents)
      BY <1>3 DEF acquire_socket_event, acquired
    <2>2. /\ freeSocketEvents' \in Seq(1 .. N) /\ Len(freeSocketEvents') = M - 1 /\ M \in Nat \ {0}
          /\ acquired = freeSocketEvents[1] /\ acquired \in 1 .. N
          /\ \A i \in 1 .. M - 1 : freeSocketEvents'[i] = freeSocketEvents[i + 1]
      BY <1>1, <1>3, <2>1, HeadTailProperties, EmptySeq
    <2>3. /\ events' \in Seq(Event) /\ Len(events') = N /\ events'[acquired] = e
          /\ \A n \in 1 .. N : n # acquired => events'[n] = events[n]
      BY <1>1, <2>1, <2>2, ExceptSeq
    <2>4. \A i, j \in 1 .. M : i # j => freeSocketEvents[i] # freeSocketEvents[j]
      BY DEF FreeOnce
    <2> HIDE DEF M, N
    <2>5. FreeOnce'
      <3>1. \A i \in 1 .. M - 1 : i + 1 \in 1 .. M
        BY <2>2
      <3>2. \A i, j \in 1 .. M - 1 : i # j => i + 1 # j + 1
        BY <2>2
      <3> QED BY <2>2, <2>4, <3>1, <3>2 DEF FreeOnce
    <2>6. ASSUME NEW n PROVE InFree(n)' <=> InFree(n) /\ n # acquired
      <3>1. ASSUME NEW i \in 1 .. M - 1, freeSocketEvents'[i] = n PROVE InFree(n) /\ n # acquired
        <4>1. i + 1 \in 1 .. M /\ 1 \in 1 .. M /\ i + 1 # 1
          BY <2>2
        <4>2. freeSocketEvents[i + 1] = n /\ freeSocketEvents[i + 1] # freeSocketEvents[1]
          BY <2>2, <2>4, <3>1, <4>1
        <4> QED BY <2>2, <4>1, <4>2 DEF InFree, M
      <3>2. ASSUME NEW i \in 1 .. M, freeSocketEvents[i] = n, n # acquired PROVE InFree(n)'
        <4>1. i # 1
          BY <2>2, <3>2
        <4>2. i - 1 \in 1 .. M - 1 /\ (i - 1) + 1 = i
          BY <2>2, <4>1
        <4>3. freeSocketEvents'[i - 1] = n
          BY <2>2, <3>2, <4>2
        <4> QED BY <2>2, <4>2, <4>3 DEF InFree
      <3> QED BY <2>2, <3>1, <3>2 DEF InFree, M
    <2>7. events[acquired] = Blank
      <3>1. InFree(acquired)
        <4>1. 1 \in 1 .. M
          BY <2>2
        <4> QED BY <2>2, <4>1 DEF InFree, M
      <3> QED BY <2>2, <3>1 DEF FreeBlank, Node, N
    <2>8. N <= N
      BY <1>1
    <2> QED BY <1>1, <2>2, <2>3, <2>5, <2>6, <2>7, <2>8, Zenon DEF N
  <1> QED BY <1>2, <1>3

\* A released event is blank and comes first.
LEMMA ReleaseFacts ==
    ASSUME PoolType, FreeOnce, NEW n \in 1 .. Len(events), ~InFree(n), release_socket_event(n)
    PROVE  /\ events' \in Seq(Event) /\ Len(events') = Len(events) /\ PoolType'
           /\ events'[n] = Blank
           /\ \A m \in 1 .. Len(events) : m # n => events'[m] = events[m]
           /\ FreeOnce' /\ \A m : InFree(m)' <=> InFree(m) \/ m = n
  <1> DEFINE N == Len(events)
             M == Len(freeSocketEvents)
  <1>1. events \in Seq(Event) /\ freeSocketEvents \in Seq(1 .. N) /\ N \in Nat /\ M \in Nat
    BY LenProperties DEF PoolType, Node
  <1>2. events' = [events EXCEPT ![n] = Blank] /\ freeSocketEvents' = <<n>> \o freeSocketEvents
    BY DEF release_socket_event
  <1>3. Blank \in Event
    BY DEF Blank, Event
  <1>4. /\ events' \in Seq(Event) /\ Len(events') = N /\ events'[n] = Blank
        /\ \A m \in 1 .. N : m # n => events'[m] = events[m]
    BY <1>1, <1>2, <1>3, ExceptSeq
  <1>5. <<n>> \in Seq(1 .. N) /\ Len(<<n>>) = 1 /\ <<n>>[1] = n
    BY Unit
  <1>6. /\ freeSocketEvents' \in Seq(1 .. N) /\ Len(freeSocketEvents') = 1 + M
        /\ \A i \in 1 .. 1 + M :
              freeSocketEvents'[i] = IF i <= 1 THEN <<n>>[i] ELSE freeSocketEvents[i - 1]
    <2>1. /\ freeSocketEvents' \in Seq(1 .. N) /\ Len(freeSocketEvents') = Len(<<n>>) + M
          /\ \A i \in 1 .. Len(<<n>>) + M : freeSocketEvents'[i] =
                IF i <= Len(<<n>>) THEN <<n>>[i] ELSE freeSocketEvents[i - Len(<<n>>)]
      BY <1>1, <1>2, <1>5, ConcatProperties
    <2> QED BY <1>5, <2>1, Zenon
  <1> HIDE DEF M, N
  <1>7. /\ freeSocketEvents'[1] = n
        /\ \A i \in 1 .. M : i + 1 \in 1 .. 1 + M /\ freeSocketEvents'[i + 1] = freeSocketEvents[i]
        /\ \A i \in 1 .. 1 + M : i # 1 => i - 1 \in 1 .. M /\ freeSocketEvents'[i] = freeSocketEvents[i - 1]
        /\ 1 \in 1 .. 1 + M
    <2>1. 1 \in 1 .. 1 + M /\ 1 <= 1
      BY <1>1
    <2>2. \A i \in 1 .. M : i + 1 \in 1 .. 1 + M /\ ~(i + 1 <= 1) /\ (i + 1) - 1 = i
      BY <1>1
    <2>3. \A i \in 1 .. 1 + M : i # 1 => i - 1 \in 1 .. M /\ ~(i <= 1)
      BY <1>1
    <2>4. freeSocketEvents'[1] = n
      BY <1>5, <1>6, <2>1, Zenon
    <2>5. \A i \in 1 .. M : freeSocketEvents'[i + 1] = freeSocketEvents[(i + 1) - 1]
      BY <1>6, <2>2, Zenon
    <2>6. \A i \in 1 .. M : freeSocketEvents'[i + 1] = freeSocketEvents[i]
      BY <2>2, <2>5
    <2>7. \A i \in 1 .. 1 + M : i # 1 => freeSocketEvents'[i] = freeSocketEvents[i - 1]
      BY <1>6, <2>3, Zenon
    <2> QED BY <2>1, <2>2, <2>3, <2>4, <2>6, <2>7
  <1>8. /\ \A i, j \in 1 .. M : i # j => freeSocketEvents[i] # freeSocketEvents[j]
        /\ \A i \in 1 .. M : freeSocketEvents[i] # n
    BY DEF FreeOnce, InFree, M
  <1>9. ASSUME NEW i \in 1 .. 1 + M, NEW j \in 1 .. 1 + M, i # j
        PROVE  freeSocketEvents'[i] # freeSocketEvents'[j]
    <2>1. CASE i = 1
      BY <1>7, <1>8, <1>9, <2>1
    <2>2. CASE j = 1
      BY <1>7, <1>8, <1>9, <2>2
    <2>3. CASE i # 1 /\ j # 1
      <3>1. i - 1 # j - 1
        BY <1>1, <1>9
      <3> QED BY <1>7, <1>8, <2>3, <3>1
    <2> QED BY <2>1, <2>2, <2>3
  <1>10. FreeOnce'
    BY <1>6, <1>9 DEF FreeOnce
  <1>11. ASSUME NEW m PROVE InFree(m)' <=> InFree(m) \/ m = n
    <2>1. ASSUME NEW i \in 1 .. 1 + M, freeSocketEvents'[i] = m PROVE InFree(m) \/ m = n
      BY <1>7, <2>1 DEF InFree, M
    <2>2. ASSUME NEW i \in 1 .. M, freeSocketEvents[i] = m PROVE InFree(m)'
      <3>1. i + 1 \in 1 .. 1 + M /\ freeSocketEvents'[i + 1] = m
        BY <1>7, <2>2
      <3> QED BY <1>6, <3>1 DEF InFree
    <2>3. InFree(n)'
      BY <1>6, <1>7 DEF InFree
    <2> QED BY <1>6, <2>1, <2>2, <2>3 DEF InFree, M
  <1> QED BY <1>4, <1>6, <1>10, <1>11, Zenon DEF N, PoolType, Node

-----------------------------------------------------------------------------
(* Who owns an event.                                                      *)

\* The owners the events name.
LEMMA Owners ==
    ASSUME EventInv
    PROVE  /\ \A s \in Sockets : socketp[s] # 0 =>
                  events[socketp[s]].owner = Curl /\ events[socketp[s]].socket = s
           /\ \A c \in Sessions : socketEvent[c] # 0 => events[socketEvent[c]].owner = c
  <1>1. \A s \in Sockets : socketp[s] # 0 => events[socketp[s]] = Polled(s, watch[s])
    BY Zenon DEF EventInv, PollInv, null
  <1>2. \A s, kinds : Polled(s, kinds).owner = Curl /\ Polled(s, kinds).socket = s
    BY DEF Polled
  <1>3. \A s \in Sockets : socketp[s] # 0 =>
            events[socketp[s]].owner = Curl /\ events[socketp[s]].socket = s
    BY <1>1, <1>2
  <1>4. \A c \in Sessions : socketEvent[c] # 0 => events[socketEvent[c]].owner = c
    BY Zenon DEF EventInv, SlotInv, null
  <1> QED BY <1>3, <1>4

\* An event in use has one owner.
LEMMA Apart ==
    ASSUME EventInv
    PROVE  /\ \A s \in Sockets : socketp[s] # 0 => socketp[s] \in 1 .. Len(events)
           /\ \A c \in Sessions : socketEvent[c] # 0 => socketEvent[c] \in 1 .. Len(events)
           /\ \A s \in Sockets : socketp[s] # 0 => ~InFree(socketp[s])
           /\ \A c \in Sessions : socketEvent[c] # 0 => ~InFree(socketEvent[c])
           /\ \A s, t \in Sockets : socketp[s] # 0 /\ socketp[s] = socketp[t] => s = t
           /\ \A c, d \in Sessions :
                  socketEvent[c] # 0 /\ socketEvent[c] = socketEvent[d] => c = d
           /\ \A s \in Sockets, c \in Sessions :
                  socketp[s] # 0 => socketp[s] # socketEvent[c]
  <1>1. Len(events) \in Nat /\ \A i \in 0 .. Len(events) : i # 0 => i \in 1 .. Len(events)
    BY LenProperties DEF EventInv, PoolType
  <1>2. /\ \A s \in Sockets : socketp[s] # 0 => socketp[s] \in 1 .. Len(events)
        /\ \A c \in Sessions : socketEvent[c] # 0 => socketEvent[c] \in 1 .. Len(events)
    BY <1>1 DEF EventInv, PointerType
  <1>3. /\ \A s \in Sockets : socketp[s] # 0 =>
               events[socketp[s]].owner = Curl /\ events[socketp[s]].socket = s
        /\ \A c \in Sessions : socketEvent[c] # 0 => events[socketEvent[c]].owner = c
    BY Owners
  <1>4. \A n \in 1 .. Len(events) : InFree(n) => events[n].owner = None
    BY DEF EventInv, PoolInv, FreeBlank, Blank, Node
  <1>5. Curl # None /\ \A c \in Sessions : c # None /\ c # Curl
    BY NamesAssumption DEF Connections
  <1>6. \A s \in Sockets : socketp[s] # 0 => ~InFree(socketp[s])
    BY <1>2, <1>3, <1>4, <1>5
  <1>7. \A c \in Sessions : socketEvent[c] # 0 => ~InFree(socketEvent[c])
    BY <1>2, <1>3, <1>4, <1>5
  <1>8. /\ \A s, t \in Sockets : socketp[s] # 0 /\ socketp[s] = socketp[t] => s = t
        /\ \A c, d \in Sessions : socketEvent[c] # 0 /\ socketEvent[c] = socketEvent[d] => c = d
    BY <1>3
  <1>9. \A s \in Sockets, c \in Sessions : socketp[s] # 0 => socketp[s] # socketEvent[c]
    BY <1>3, <1>5
  <1> QED BY <1>2, <1>6, <1>7, <1>8, <1>9

\* Steps that leave the events alone.
EventVars == <<poolVars, socketp, socketEvent, watch>>
\* A step that leaves the socket events alone keeps what holds of them.
LEMMA EventKept ==
    ASSUME EventInv, UNCHANGED EventVars,
           \A c \in Sessions : socketEvent[c] # 0 => (status'[c] = "ready" <=> status[c] = "ready")
    PROVE  EventInv'
  <1>1. /\ events' = events /\ freeSocketEvents' = freeSocketEvents /\ socketp' = socketp
        /\ socketEvent' = socketEvent /\ watch' = watch
    BY DEF EventVars, poolVars
  <1>2. PoolType' /\ PointerType'
    BY <1>1 DEF EventInv, PoolType, PointerType, Node
  <1>3. PoolInv'
    BY <1>1 DEF EventInv, PoolInv, FreeOnce, FreeBlank, Owned, InFree, Node
  <1>4. PollInv'
    BY <1>1 DEF EventInv, PollInv, Polled
  <1>5. SlotInv'
    BY <1>1 DEF EventInv, SlotInv, null
  <1> QED BY <1>2, <1>3, <1>4, <1>5 DEF EventInv

\* An event is acquired for a socket ...
LEMMA AcquirePoll ==
    ASSUME EventInv, CurlType, NEW s \in Sockets, NEW kinds \in SUBSET Kinds, kinds # {},
           socketp[s] = 0, acquire_socket_event(Polled(s, kinds)),
           socketp' = [socketp EXCEPT ![s] = acquired],
           watch' = [watch EXCEPT ![s] = kinds],
           UNCHANGED <<socketEvent, status>>
    PROVE  EventInv'
  <1> DEFINE e == Polled(s, kinds)
             n == acquired
             N == Len(events)
             M == Len(events')
  <1>1. e \in Event
    BY DEF Polled, Event
  <1>2. /\ PoolType /\ PointerType /\ FreeOnce /\ FreeBlank /\ \A m \in 1 .. N : Owned(m)
        /\ watch \in [Sockets -> SUBSET Kinds]
    BY DEF EventInv, PoolInv, CurlType, Node
  <1>3. /\ events' \in Seq(Event) /\ freeSocketEvents' \in Seq(1 .. M)
        /\ N \in Nat /\ M \in Nat /\ N <= M /\ n \in 1 .. M
        /\ \A m \in 1 .. M : m = n \/ m \in 1 .. N
        /\ events'[n] = e
        /\ \A m \in 1 .. N : m # n => events'[m] = events[m]
        /\ n \in 1 .. N => events[n] = Blank
        /\ FreeOnce' /\ \A m : InFree(m)' <=> InFree(m) /\ m # n
    <2> HIDE DEF e
    <2> QED BY <1>1, <1>2, AcquireFacts DEF e
  <1> HIDE DEF n, N, M
  <1>4. /\ socketp' \in [Sockets -> 0 .. M] /\ socketp'[s] = n
        /\ \A t \in Sockets : t # s => socketp'[t] = socketp[t]
        /\ watch'[s] = kinds /\ \A t \in Sockets : t # s => watch'[t] = watch[t]
        /\ n # 0
    <2>1. 0 .. N \subseteq 0 .. M /\ n \in 0 .. M /\ n # 0
      BY <1>3
    <2>2. socketp \in [Sockets -> 0 .. N]
      BY <1>2 DEF PointerType, N
    <2> QED BY <1>2, <2>1, <2>2 DEF n
  <1>5. PointerType'
    <2>1. 0 .. N \subseteq 0 .. M
      BY <1>3
    <2>2. socketEvent' \in [Sessions -> 0 .. M]
      BY <1>2, <2>1 DEF PointerType, N
    <2> QED BY <1>4, <2>2 DEF PointerType, M
  <1>6. /\ \A t \in Sockets : socketp[t] # 0 => socketp[t] \in 1 .. N /\ socketp[t] # n
        /\ \A c \in Sessions : socketEvent[c] # 0 => socketEvent[c] \in 1 .. N /\ socketEvent[c] # n
    <2>1. /\ \A t \in Sockets : socketp[t] # 0 =>
                 socketp[t] \in 1 .. N /\ events[socketp[t]].owner = Curl
          /\ \A c \in Sessions : socketEvent[c] # 0 =>
                 socketEvent[c] \in 1 .. N /\ events[socketEvent[c]].owner = c
      BY Apart, Owners DEF N
    <2>2. n \in 1 .. N => events[n].owner = None
      BY <1>3 DEF Blank
    <2>3. Curl # None /\ \A c \in Sessions : c # None
      BY NamesAssumption DEF Connections
    <2> QED BY <2>1, <2>2, <2>3
  <1>7. PoolType'
    BY <1>3 DEF PoolType, Node, M
  <1>8. PoolInv'
    <2>1. FreeBlank'
      BY <1>2, <1>3 DEF FreeBlank, Node, M, N
    <2>2. ASSUME NEW m \in 1 .. M PROVE Owned(m)'
      <3>1. CASE m = n
        BY <1>4, <3>1 DEF Owned
      <3>2. CASE m # n /\ \E t \in Sockets : socketp[t] = m
        <4>1. PICK t \in Sockets : socketp[t] = m
          BY <3>2
        <4>2. m # 0
          BY <1>3
        <4>3. t # s
          BY <4>1, <4>2
        <4> QED BY <1>4, <4>1, <4>3 DEF Owned
      <3>3. CASE m # n /\ InFree(m)
        BY <1>3, <3>3 DEF Owned
      <3>4. CASE m # n /\ \E c \in Sessions : socketEvent[c] = m
        BY <3>4 DEF Owned
      <3> QED BY <1>2, <1>3, <3>1, <3>2, <3>3, <3>4 DEF Owned
    <2> QED BY <1>3, <2>1, <2>2 DEF PoolInv, Node, M
  <1>9. PollInv'
    <2> SUFFICES ASSUME NEW t \in Sockets
                 PROVE  /\ socketp'[t] # 0 <=> watch'[t] # {}
                        /\ socketp'[t] # 0 => events'[socketp'[t]] = Polled(t, watch'[t])
      BY DEF PollInv, null, Polled
    <2>1. CASE t = s
      BY <1>3, <1>4, <2>1
    <2>2. CASE t # s
      <3>1. /\ socketp[t] # 0 <=> watch[t] # {}
            /\ socketp[t] # 0 => events[socketp[t]] = Polled(t, watch[t])
        BY DEF EventInv, PollInv, null
      <3> QED BY <1>3, <1>4, <1>6, <2>2, <3>1
    <2> QED BY <2>1, <2>2
  <1>10. SlotInv'
    BY <1>3, <1>6 DEF EventInv, SlotInv, null
  <1> QED BY <1>5, <1>7, <1>8, <1>9, <1>10 DEF EventInv

\* ... or for a session.
LEMMA AcquireSession ==
    ASSUME EventInv, NEW c \in Sessions, NEW e \in Event, e.owner = c, e.added = TRUE,
           socketEvent[c] = 0, acquire_socket_event(e),
           socketEvent' = [socketEvent EXCEPT ![c] = acquired],
           status'[c] = "ready", \A d \in Sessions : d # c => status'[d] = status[d],
           UNCHANGED <<socketp, watch>>
    PROVE  EventInv'
  <1> DEFINE n == acquired
             N == Len(events)
             M == Len(events')
  <1>2. /\ PoolType /\ PointerType /\ FreeOnce /\ FreeBlank /\ \A m \in 1 .. N : Owned(m)
    BY DEF EventInv, PoolInv, CurlType, Node
  <1>3. /\ events' \in Seq(Event) /\ freeSocketEvents' \in Seq(1 .. M)
        /\ N \in Nat /\ M \in Nat /\ N <= M /\ n \in 1 .. M
        /\ \A m \in 1 .. M : m = n \/ m \in 1 .. N
        /\ events'[n] = e
        /\ \A m \in 1 .. N : m # n => events'[m] = events[m]
        /\ n \in 1 .. N => events[n] = Blank
        /\ FreeOnce' /\ \A m : InFree(m)' <=> InFree(m) /\ m # n
    BY <1>2, AcquireFacts
  <1> HIDE DEF n, N, M
  <1>4. /\ socketEvent' \in [Sessions -> 0 .. M] /\ socketEvent'[c] = n
        /\ \A d \in Sessions : d # c => socketEvent'[d] = socketEvent[d]
        /\ n # 0
    <2>1. 0 .. N \subseteq 0 .. M /\ n \in 0 .. M /\ n # 0
      BY <1>3
    <2>2. socketEvent \in [Sessions -> 0 .. N]
      BY <1>2 DEF PointerType, N
    <2> QED BY <1>2, <2>1, <2>2 DEF n
  <1>5. PointerType'
    <2>1. 0 .. N \subseteq 0 .. M
      BY <1>3
    <2>2. socketp' \in [Sockets -> 0 .. M]
      BY <1>2, <2>1 DEF PointerType, N
    <2> QED BY <1>4, <2>2 DEF PointerType, M
  <1>6. /\ \A t \in Sockets : socketp[t] # 0 => socketp[t] \in 1 .. N /\ socketp[t] # n
        /\ \A d \in Sessions : socketEvent[d] # 0 => socketEvent[d] \in 1 .. N /\ socketEvent[d] # n
    <2>1. /\ \A t \in Sockets : socketp[t] # 0 =>
                 socketp[t] \in 1 .. N /\ events[socketp[t]].owner = Curl
          /\ \A d \in Sessions : socketEvent[d] # 0 =>
                 socketEvent[d] \in 1 .. N /\ events[socketEvent[d]].owner = d
      BY Apart, Owners DEF N
    <2>2. n \in 1 .. N => events[n].owner = None
      BY <1>3 DEF Blank
    <2>3. Curl # None /\ \A d \in Sessions : d # None
      BY NamesAssumption DEF Connections
    <2> QED BY <2>1, <2>2, <2>3
  <1>7. PoolType'
    BY <1>3 DEF PoolType, Node, M
  <1>8. PoolInv'
    <2>1. FreeBlank'
      BY <1>2, <1>3 DEF FreeBlank, Node, M, N
    <2>2. ASSUME NEW m \in 1 .. M PROVE Owned(m)'
      <3>1. CASE m = n
        BY <1>4, <3>1 DEF Owned
      <3>2. CASE m # n /\ \E d \in Sessions : socketEvent[d] = m
        <4>1. PICK d \in Sessions : socketEvent[d] = m
          BY <3>2
        <4>2. m # 0
          BY <1>3
        <4>3. d # c
          BY <4>1, <4>2
        <4> QED BY <1>4, <4>1, <4>3 DEF Owned
      <3>3. CASE m # n /\ InFree(m)
        BY <1>3, <3>3 DEF Owned
      <3>4. CASE m # n /\ \E s \in Sockets : socketp[s] = m
        BY <3>4 DEF Owned
      <3> QED BY <1>2, <1>3, <3>1, <3>2, <3>3, <3>4 DEF Owned
    <2> QED BY <1>3, <2>1, <2>2 DEF PoolInv, Node, M
  <1>9. PollInv'
    <2> SUFFICES ASSUME NEW t \in Sockets
                 PROVE  /\ socketp[t] # 0 <=> watch[t] # {}
                        /\ socketp[t] # 0 => events'[socketp[t]] = Polled(t, watch[t])
      BY DEF PollInv, null, Polled
    <2>1. /\ socketp[t] # 0 <=> watch[t] # {}
          /\ socketp[t] # 0 => events[socketp[t]] = Polled(t, watch[t])
      BY DEF EventInv, PollInv, null
    <2> QED BY <1>3, <1>6, <2>1
  <1>10. SlotInv'
    <2> SUFFICES ASSUME NEW d \in Sessions, socketEvent'[d] # 0
                 PROVE  /\ events'[socketEvent'[d]].owner = d
                        /\ events'[socketEvent'[d]].added <=> status'[d] = "ready"
      BY DEF SlotInv, null
    <2>1. CASE d = c
      BY <1>3, <1>4, <2>1
    <2>2. CASE d # c
      <3>1. socketEvent'[d] = socketEvent[d] /\ status'[d] = status[d] /\ socketEvent[d] # 0
        BY <1>4, <2>2
      <3>2. events'[socketEvent[d]] = events[socketEvent[d]]
        BY <1>3, <1>6, <3>1
      <3> QED BY <3>1, <3>2 DEF EventInv, SlotInv, null
    <2> QED BY <2>1, <2>2
  <1> QED BY <1>5, <1>7, <1>8, <1>9, <1>10 DEF EventInv

\* An event in use is assigned anew.
LEMMA AssignFacts ==
    ASSUME EventInv, NEW n \in 1 .. Len(events), NEW e \in Event, ~InFree(n),
           events' = [events EXCEPT ![n] = e],
           UNCHANGED <<freeSocketEvents, socketp, socketEvent>>
    PROVE  /\ PoolType' /\ PointerType' /\ PoolInv'
           /\ events'[n] = e
           /\ \A m \in 1 .. Len(events) : m # n => events'[m] = events[m]
  <1>1. events \in Seq(Event)
    BY DEF EventInv, PoolType
  <1>2. /\ events' \in Seq(Event) /\ Len(events') = Len(events) /\ events'[n] = e
        /\ \A m \in 1 .. Len(events) : m # n => events'[m] = events[m]
    BY <1>1, ExceptSeq
  <1>3. PoolType' /\ PointerType'
    BY <1>2 DEF EventInv, PoolType, PointerType, Node
  <1>4. FreeOnce' /\ \A m : InFree(m)' <=> InFree(m)
    BY DEF EventInv, PoolInv, FreeOnce, InFree
  <1>5. FreeBlank'
    BY <1>2, <1>4 DEF EventInv, PoolInv, FreeBlank, Node
  <1>6. \A m \in Node' : Owned(m)'
    <2>1. \A m \in 1 .. Len(events) : Owned(m)
      BY DEF EventInv, PoolInv, Node
    <2> QED BY <1>2, <1>4, <2>1 DEF Owned, Node
  <1> QED BY <1>2, <1>3, <1>4, <1>5, <1>6 DEF PoolInv

\* Curl waits for something else on a socket it waits for.
LEMMA AssignPoll ==
    ASSUME EventInv, CurlType, NEW s \in Sockets, NEW kinds \in SUBSET Kinds, kinds # {},
           socketp[s] # 0, events' = [events EXCEPT ![socketp[s]] = Polled(s, kinds)],
           watch' = [watch EXCEPT ![s] = kinds],
           UNCHANGED <<freeSocketEvents, socketp, socketEvent, status>>
    PROVE  EventInv'
  <1> DEFINE n == socketp[s]
             e == Polled(s, kinds)
  <1>1. e \in Event
    BY DEF Polled, Event
  <1>2. n \in 1 .. Len(events) /\ ~InFree(n)
    BY Apart
  <1>3. /\ \A t \in Sockets : socketp[t] # 0 /\ t # s => socketp[t] \in 1 .. Len(events) /\ socketp[t] # n
        /\ \A c \in Sessions : socketEvent[c] # 0 => socketEvent[c] \in 1 .. Len(events) /\ socketEvent[c] # n
    BY Apart
  <1> HIDE DEF n, e
  <1>4. /\ PoolType' /\ PointerType' /\ PoolInv'
        /\ events'[n] = e
        /\ \A m \in 1 .. Len(events) : m # n => events'[m] = events[m]
    BY <1>1, <1>2, AssignFacts DEF n, e
  <1>5. watch'[s] = kinds /\ \A t \in Sockets : t # s => watch'[t] = watch[t]
    BY DEF CurlType
  <1>6. PollInv'
    <2> SUFFICES ASSUME NEW t \in Sockets
                 PROVE  /\ socketp[t] # 0 <=> watch'[t] # {}
                        /\ socketp[t] # 0 => events'[socketp[t]] = Polled(t, watch'[t])
      BY DEF PollInv, null, Polled
    <2>1. CASE t = s
      BY <1>4, <1>5, <2>1 DEF n, e
    <2>2. CASE t # s
      <3>1. /\ socketp[t] # 0 <=> watch[t] # {}
            /\ socketp[t] # 0 => events[socketp[t]] = Polled(t, watch[t])
        BY DEF EventInv, PollInv, null
      <3> QED BY <1>3, <1>4, <1>5, <2>2, <3>1
    <2> QED BY <2>1, <2>2
  <1>7. SlotInv'
    BY <1>3, <1>4 DEF EventInv, SlotInv, null
  <1> QED BY <1>4, <1>6, <1>7 DEF EventInv

\* Libevent waits for something else for a session, or no longer.
LEMMA AssignSession ==
    ASSUME EventInv, NEW c \in Sessions, NEW e \in Event, e.owner = c,
           socketEvent[c] # 0, events' = [events EXCEPT ![socketEvent[c]] = e],
           e.added <=> status'[c] = "ready",
           \A d \in Sessions : d # c => status'[d] = status[d],
           UNCHANGED <<freeSocketEvents, socketp, socketEvent, watch>>
    PROVE  EventInv'
  <1> DEFINE n == socketEvent[c]
  <1>1. n \in 1 .. Len(events) /\ ~InFree(n)
    BY Apart
  <1>2. /\ \A s \in Sockets : socketp[s] # 0 => socketp[s] \in 1 .. Len(events) /\ socketp[s] # n
        /\ \A d \in Sessions : socketEvent[d] # 0 /\ d # c => socketEvent[d] \in 1 .. Len(events) /\ socketEvent[d] # n
    BY Apart
  <1> HIDE DEF n
  <1>3. /\ PoolType' /\ PointerType' /\ PoolInv'
        /\ events'[n] = e
        /\ \A m \in 1 .. Len(events) : m # n => events'[m] = events[m]
    BY <1>1, AssignFacts DEF n
  <1>4. PollInv'
    <2> SUFFICES ASSUME NEW t \in Sockets
                 PROVE  /\ socketp[t] # 0 <=> watch[t] # {}
                        /\ socketp[t] # 0 => events'[socketp[t]] = Polled(t, watch[t])
      BY DEF PollInv, null, Polled
    <2>1. /\ socketp[t] # 0 <=> watch[t] # {}
          /\ socketp[t] # 0 => events[socketp[t]] = Polled(t, watch[t])
      BY DEF EventInv, PollInv, null
    <2> QED BY <1>2, <1>3, <2>1
  <1>5. SlotInv'
    <2> SUFFICES ASSUME NEW d \in Sessions, socketEvent[d] # 0
                 PROVE  /\ events'[socketEvent[d]].owner = d
                        /\ events'[socketEvent[d]].added <=> status'[d] = "ready"
      BY DEF SlotInv, null
    <2>1. CASE d = c
      BY <1>3, <2>1 DEF n
    <2>2. CASE d # c
      <3>1. status'[d] = status[d] /\ events'[socketEvent[d]] = events[socketEvent[d]]
        BY <1>2, <1>3, <2>2
      <3> QED BY <3>1, Zenon DEF EventInv, SlotInv, null
    <2> QED BY <2>1, <2>2
  <1> QED BY <1>3, <1>4, <1>5 DEF EventInv

\* An event is given back by the one who has it.
LEMMA Released ==
    ASSUME EventInv, NEW n \in 1 .. Len(events), ~InFree(n), release_socket_event(n),
           PointerType',
           \A s \in Sockets : socketp[s] # n => socketp'[s] = socketp[s],
           \A c \in Sessions : socketEvent[c] # n => socketEvent'[c] = socketEvent[c]
    PROVE  PoolType' /\ PoolInv' /\ \A m \in 1 .. Len(events) : m # n => events'[m] = events[m]
  <1>1. PoolType /\ FreeOnce /\ FreeBlank /\ \A m \in 1 .. Len(events) : Owned(m)
    BY DEF EventInv, PoolInv, Node
  <1>2. /\ Len(events') = Len(events) /\ PoolType' /\ events'[n] = Blank
        /\ \A m \in 1 .. Len(events) : m # n => events'[m] = events[m]
        /\ FreeOnce' /\ \A m : InFree(m)' <=> InFree(m) \/ m = n
    BY <1>1, ReleaseFacts
  <1>3. FreeBlank'
    BY <1>1, <1>2 DEF FreeBlank, Node
  <1>4. ASSUME NEW m \in 1 .. Len(events) PROVE Owned(m)'
    <2>1. CASE m = n
      BY <1>2, <2>1 DEF Owned
    <2>2. CASE m # n
      BY <1>1, <1>2, <2>2 DEF Owned
    <2> QED BY <2>1, <2>2
  <1> QED BY <1>2, <1>3, <1>4 DEF PoolInv, Node

\* remove_socket gives back the event of a socket that curl polled.
LEMMA ReleasePoll ==
    ASSUME EventInv, CurlType, NEW s \in Sockets, watch[s] # {}, RemoveSocket(s),
           watch' = [watch EXCEPT ![s] = {}],
           UNCHANGED <<socketEvent, status>>
    PROVE  EventInv'
  <1> DEFINE n == socketp[s]
  <1>1. n # 0
    BY Zenon DEF EventInv, PollInv, null
  <1>2. n \in 1 .. Len(events) /\ ~InFree(n)
    BY <1>1, Apart
  <1>3. /\ \A t \in Sockets : socketp[t] # 0 /\ t # s => socketp[t] \in 1 .. Len(events) /\ socketp[t] # n
        /\ \A c \in Sessions : socketEvent[c] # 0 => socketEvent[c] \in 1 .. Len(events) /\ socketEvent[c] # n
    BY <1>1, Apart
  <1>4. /\ socketp \in [Sockets -> 0 .. Len(events)] /\ Len(events) \in Nat
        /\ socketEvent \in [Sessions -> 0 .. Len(events)] /\ events \in Seq(Event)
    BY LenProperties DEF EventInv, PointerType, PoolType
  <1>5. /\ release_socket_event(n) /\ socketp' = [socketp EXCEPT ![s] = 0]
    BY DEF RemoveSocket, null
  <1>6. /\ socketp' \in [Sockets -> 0 .. Len(events)] /\ socketp'[s] = 0
        /\ \A t \in Sockets : t # s => socketp'[t] = socketp[t]
    BY <1>4, <1>5
  <1> HIDE DEF n
  <1>7. PointerType'
    <2>1. Len(events') = Len(events)
      BY <1>2, <1>5, ReleaseFacts DEF EventInv, PoolInv
    <2> QED BY <1>4, <1>6, <2>1 DEF PointerType
  <1>8. PoolType' /\ PoolInv' /\ \A m \in 1 .. Len(events) : m # n => events'[m] = events[m]
    <2>1. \A t \in Sockets : socketp[t] # n => socketp'[t] = socketp[t]
      BY <1>6 DEF n
    <2> QED BY <1>2, <1>5, <1>7, <2>1, Released
  <1>9. watch'[s] = {} /\ \A t \in Sockets : t # s => watch'[t] = watch[t]
    BY DEF CurlType
  <1>10. PollInv'
    <2> SUFFICES ASSUME NEW t \in Sockets
                 PROVE  /\ socketp'[t] # 0 <=> watch'[t] # {}
                        /\ socketp'[t] # 0 => events'[socketp'[t]] = Polled(t, watch'[t])
      BY DEF PollInv, null, Polled
    <2>1. CASE t = s
      BY <1>6, <1>9, <2>1
    <2>2. CASE t # s
      <3>1. /\ socketp[t] # 0 <=> watch[t] # {}
            /\ socketp[t] # 0 => events[socketp[t]] = Polled(t, watch[t])
        BY DEF EventInv, PollInv, null
      <3> QED BY <1>3, <1>6, <1>8, <1>9, <2>2, <3>1
    <2> QED BY <2>1, <2>2
  <1>11. SlotInv'
    BY <1>3, <1>8 DEF EventInv, SlotInv, null
  <1> QED BY <1>7, <1>8, <1>10, <1>11 DEF EventInv

\* A session that ends gives back its event, and no other session loses one.
LEMMA ReleaseSession ==
    ASSUME EventInv, NEW c \in Sessions, ReleaseSessionEvent(c),
           UNCHANGED <<socketp, watch, status>>
    PROVE  EventInv' /\ socketEvent'[c] = 0
           /\ \A d \in Sessions : d # c => socketEvent'[d] = socketEvent[d]
  <1>1. CASE socketEvent[c] = 0
    <2>1. UNCHANGED EventVars /\ socketEvent' = socketEvent
      BY <1>1 DEF ReleaseSessionEvent, EventVars, null
    <2> QED BY <1>1, <2>1, EventKept
  <1>2. CASE socketEvent[c] # 0
    <2> DEFINE n == socketEvent[c]
    <2>1. n \in 1 .. Len(events) /\ ~InFree(n)
      BY <1>2, Apart
    <2>2. /\ \A s \in Sockets : socketp[s] # 0 => socketp[s] \in 1 .. Len(events) /\ socketp[s] # n
          /\ \A d \in Sessions : socketEvent[d] # 0 /\ d # c =>
                 socketEvent[d] \in 1 .. Len(events) /\ socketEvent[d] # n
      BY <1>2, Apart
    <2>3. /\ socketp \in [Sockets -> 0 .. Len(events)] /\ Len(events) \in Nat
          /\ socketEvent \in [Sessions -> 0 .. Len(events)] /\ events \in Seq(Event)
      BY LenProperties DEF EventInv, PointerType, PoolType
    <2>4. /\ release_socket_event(n) /\ socketEvent' = [socketEvent EXCEPT ![c] = 0]
      BY <1>2 DEF ReleaseSessionEvent, null
    <2>5. /\ socketEvent' \in [Sessions -> 0 .. Len(events)] /\ socketEvent'[c] = 0
          /\ \A d \in Sessions : d # c => socketEvent'[d] = socketEvent[d]
      BY <2>3, <2>4
    <2> HIDE DEF n
    <2>6. PointerType'
      <3>1. Len(events') = Len(events)
        BY <2>1, <2>4, ReleaseFacts DEF EventInv, PoolInv
      <3> QED BY <2>3, <2>5, <3>1 DEF PointerType
    <2>7. PoolType' /\ PoolInv' /\ \A m \in 1 .. Len(events) : m # n => events'[m] = events[m]
      <3>1. \A d \in Sessions : socketEvent[d] # n => socketEvent'[d] = socketEvent[d]
        BY <2>5 DEF n
      <3> QED BY <2>1, <2>4, <2>6, <3>1, Released
    <2>8. PollInv'
      <3> SUFFICES ASSUME NEW t \in Sockets
                   PROVE  /\ socketp[t] # 0 <=> watch[t] # {}
                          /\ socketp[t] # 0 => events'[socketp[t]] = Polled(t, watch[t])
        BY DEF PollInv, null, Polled
      <3>1. /\ socketp[t] # 0 <=> watch[t] # {}
            /\ socketp[t] # 0 => events[socketp[t]] = Polled(t, watch[t])
        BY DEF EventInv, PollInv, null
      <3> QED BY <2>2, <2>7, <3>1
    <2>9. SlotInv'
      <3> SUFFICES ASSUME NEW d \in Sessions, socketEvent'[d] # 0
                   PROVE  /\ events'[socketEvent'[d]].owner = d
                          /\ events'[socketEvent'[d]].added <=> status'[d] = "ready"
        BY DEF SlotInv, null
      <3>1. d # c /\ socketEvent'[d] = socketEvent[d] /\ socketEvent[d] # 0
        BY <2>5
      <3>2. events'[socketEvent[d]] = events[socketEvent[d]] /\ status' = status
        BY <2>2, <2>7, <3>1
      <3> QED BY <3>1, <3>2, Zenon DEF EventInv, SlotInv, null
    <2> QED BY <2>5, <2>6, <2>7, <2>8, <2>9 DEF EventInv
  <1> QED BY <1>1, <1>2

-----------------------------------------------------------------------------
(* The events in every step.                                               *)

\* The message read next is about a transfer that is done, and a session without event.
LEMMA FirstMessage ==
    ASSUME IInv, messages # <<>>
    PROVE  /\ Head(messages) = messages[1] /\ 1 \in 1 .. Len(messages)
           /\ Head(messages) \in Message
           /\ transfer[Head(messages).connection] = "done"
           /\ Head(messages).connection \in Sessions =>
                  /\ status[Head(messages).connection] # "ready"
                  /\ socketEvent[Head(messages).connection] = 0
           /\ removing = None
  <1>1. messages \in Seq(Message)
    BY DEF IInv, CurlType
  <1>2. Head(messages) = messages[1] /\ 1 \in 1 .. Len(messages) /\ Head(messages) \in Message
    <2>1. Len(messages) \in Nat \ {0}
      BY <1>1, EmptySeq
    <2>2. 1 \in 1 .. Len(messages)
      BY <2>1
    <2> QED BY <1>1, <2>2, HeadTailProperties
  <1>3. removing = None
    BY Zenon DEF IInv, RoundInv
  <1> QED BY <1>2, <1>3, Zenon DEF IInv, MessageInv, null

\* Outside curl no session is being removed.
LEMMA NoneRemoved ==
    ASSUME IInv, loc # "curl"
    PROVE  removing = None /\ \A c \in Sessions : removing # c
  <1>1. removing = None
    BY Zenon DEF IInv, RoundInv
  <1> QED BY <1>1, NamesAssumption DEF Connections

\* What HandleGone and its like leave of a session's status.
LEMMA StatusSet ==
    ASSUME SessionType, NEW c \in Sessions, NEW value, status' = [status EXCEPT ![c] = value]
    PROVE  status'[c] = value /\ \A d \in Sessions : d # c => status'[d] = status[d]
  BY DEF SessionType

\* Every step keeps each socket event in the free list or with one owner.
LEMMA NextEvents ==
    ASSUME IInv, Next
    PROVE  EventInv'
  <1>1. EventInv /\ CurlType /\ SessionType /\ SessionInv
    BY DEF IInv
  <1>2. ASSUME NEW c \in Connections, NEW s \in Sockets, NEW kinds \in SUBSET Kinds,
               CurlPolls(c, s, kinds)
        PROVE  EventInv'
    <2>1. /\ kinds # {} /\ PollSocket(c, s, kinds) /\ watch' = [watch EXCEPT ![s] = kinds]
          /\ status' = status /\ socketEvent' = socketEvent
      BY <1>2 DEF CurlPolls
    <2>2. CASE socketp[s] = 0
      <3>1. /\ acquire_socket_event(Polled(s, kinds))
            /\ socketp' = [socketp EXCEPT ![s] = acquired]
        BY <2>1, <2>2 DEF PollSocket, null
      <3> QED BY <1>1, <2>1, <2>2, <3>1, AcquirePoll
    <2>3. CASE socketp[s] # 0
      <3>1. /\ events' = [events EXCEPT ![socketp[s]] = Polled(s, kinds)]
            /\ UNCHANGED <<freeSocketEvents, socketp>>
        BY <2>1, <2>3 DEF PollSocket, null
      <3> QED BY <1>1, <2>1, <2>3, <3>1, AssignPoll
    <2> QED BY <2>2, <2>3
  <1>3. ASSUME NEW s \in Sockets, CurlRemoves(s)
        PROVE  EventInv'
    <2>1. /\ watch[s] # {} /\ RemoveSocket(s) /\ watch' = [watch EXCEPT ![s] = {}]
          /\ status' = status /\ socketEvent' = socketEvent
      BY <1>3 DEF CurlRemoves, sessionVars
    <2> QED BY <1>1, <2>1, ReleasePoll
  <1>4. ASSUME NEW c \in Sessions, NEW kinds \in SUBSET {"WRITE"}
        PROVE  /\ SessionEvent(c, kinds) \in Event
               /\ SessionEvent(c, kinds).owner = c /\ SessionEvent(c, kinds).added = TRUE
    <2>1. dataSocket[c] \in Sockets \cup {None} /\ {"READ"} \cup kinds \in SUBSET Kinds
      BY <1>1 DEF SessionType, Kinds
    <2> QED BY <2>1 DEF SessionEvent, Event, Connections
  <1>5. ASSUME NEW c \in Sessions, NEW kinds \in SUBSET {"WRITE"}, SessionReady(c, kinds)
        PROVE  EventInv'
    <2>1. /\ messages # <<>> /\ Head(messages).connection = c
          /\ acquire_socket_event(SessionEvent(c, kinds))
          /\ socketEvent' = [socketEvent EXCEPT ![c] = acquired]
          /\ status' = [status EXCEPT ![c] = "ready"]
          /\ UNCHANGED <<socketp, watch>>
      BY <1>5 DEF SessionReady
    <2>2. socketEvent[c] = 0
      BY <2>1, FirstMessage
    <2>3. status'[c] = "ready" /\ \A d \in Sessions : d # c => status'[d] = status[d]
      BY <1>1, <2>1, StatusSet
    <2> QED BY <1>1, <1>4, <2>1, <2>2, <2>3, AcquireSession
  <1>6. ASSUME NEW c \in Sessions, status[c] = "ready", loc # "curl"
        PROVE  socketEvent[c] # 0
    BY <1>1, <1>6, NoneRemoved DEF SessionInv, null
  <1>7. ASSUME NEW c \in Sessions, NEW kinds \in SUBSET {"WRITE"}, ArmSession(c, kinds)
        PROVE  EventInv'
    <2>1. /\ loc # "curl" /\ status[c] = "ready" /\ status' = status
          /\ events' = [events EXCEPT ![socketEvent[c]] = SessionEvent(c, kinds)]
          /\ UNCHANGED <<freeSocketEvents, socketp, socketEvent, watch>>
      BY <1>7 DEF ArmSession, curlVars, sessionVars
    <2> QED BY <1>1, <1>4, <1>6, <2>1, AssignSession
  <1>8. ASSUME NEW c \in Sessions, SessionFails(c)
        PROVE  EventInv'
    <2> DEFINE e == [events[socketEvent[c]] EXCEPT !.added = FALSE]
    <2>1. /\ loc # "curl" /\ status[c] = "ready"
          /\ status' = [status EXCEPT ![c] = "inactive"]
          /\ events' = [events EXCEPT ![socketEvent[c]] = e]
          /\ UNCHANGED <<freeSocketEvents, socketp, socketEvent, watch>>
      BY <1>8 DEF SessionFails, HandleGone
    <2>2. socketEvent[c] # 0
      BY <1>6, <2>1
    <2>3. status'[c] = "inactive" /\ \A d \in Sessions : d # c => status'[d] = status[d]
      BY <1>1, <2>1, StatusSet
    <2>4. events[socketEvent[c]] \in Event /\ events[socketEvent[c]].owner = c
      <3>1. socketEvent[c] \in 1 .. Len(events) /\ events \in Seq(Event)
        BY <1>1, <2>2, Apart DEF EventInv, PoolType
      <3> QED BY <1>1, <2>2, <3>1, Owners, ElementOfSeq
    <2>5. e \in Event /\ e.owner = c /\ e.added = FALSE
      BY <2>4 DEF Event
    <2> HIDE DEF e
    <2> QED BY <1>1, <2>1, <2>2, <2>3, <2>5, AssignSession
  <1>9. ASSUME NEW c \in Sessions, unregister_handle(c)
        PROVE  EventInv'
    <2>1. ReleaseSessionEvent(c) /\ UNCHANGED <<socketp, watch, status>>
      BY <1>9 DEF unregister_handle, curlVars
    <2> QED BY <1>1, <2>1, ReleaseSession
  <1>10. ASSUME NEW c \in Sessions, SessionRefused(c) \/ RegisterRefused(c) \/ AddHandle(c)
         PROVE  EventInv'
    <2>1. UNCHANGED EventVars
      BY <1>10 DEF SessionRefused, RegisterRefused, AddHandle, EventVars, poolVars, curlVars
    <2>2. socketEvent[c] = 0
      <3>1. CASE SessionRefused(c)
        BY <3>1, FirstMessage DEF SessionRefused
      <3>2. CASE RegisterRefused(c) \/ AddHandle(c)
        BY <1>1, <3>2 DEF RegisterRefused, AddHandle, SessionInv, null
      <3> QED BY <1>10, <3>1, <3>2
    <2>3. \E value : status' = [status EXCEPT ![c] = value]
      BY <1>10 DEF SessionRefused, HandleGone, RegisterRefused, AddHandle
    <2>4. \A d \in Sessions : d # c => status'[d] = status[d]
      BY <1>1, <2>3, StatusSet
    <2> QED BY <1>1, <2>1, <2>2, <2>4, EventKept
  <1>11. CASE HandleRemoved
    <2>1. /\ UNCHANGED EventVars /\ removing # None
          /\ status' = [status EXCEPT ![removing] = "inactive"]
      BY <1>11 DEF HandleRemoved, HandleGone, EventVars, poolVars
    <2>2. removing \in Sessions /\ socketEvent[removing] = 0
      BY <2>1 DEF IInv, LoopType, RoundInv, null
    <2>3. \A d \in Sessions : d # removing => status'[d] = status[d]
      BY <1>1, <2>1, <2>2, StatusSet
    <2> QED BY <1>1, <2>1, <2>2, <2>3, EventKept
  <1>12. ASSUME \/ CurlTimer \/ CurlReturns
                \/ \E c \in Connections, ok \in BOOLEAN : CurlDone(c, ok)
                \/ TimerFires \/ SocketFires \/ DataDone
                \/ \E c \in Transfers : TransferDone(c) \/ AddHandle(c)
                \/ HandleTasks \/ HandleEvents \/ free_event_context \/ Terminated
         PROVE  EventInv'
    <2>1. UNCHANGED EventVars /\ status' = status
      <3>1. CASE CurlTimer \/ CurlReturns \/ TimerFires \/ SocketFires \/ DataDone
                 \/ HandleTasks \/ HandleEvents \/ free_event_context
        BY <3>1 DEF CurlTimer, CurlReturns, TimerFires, SocketFires, DataDone, HandleTasks,
                    HandleEvents, free_event_context, EventVars, curlVars, sessionVars
      <3>2. CASE \E c \in Connections, ok \in BOOLEAN : CurlDone(c, ok)
        BY <3>2 DEF CurlDone, EventVars, sessionVars
      <3>3. CASE \E c \in Transfers : TransferDone(c)
        BY <3>3 DEF TransferDone, EventVars, sessionVars
      <3>4. CASE \E c \in Transfers : AddHandle(c)
        <4>1. \A c \in Transfers : c \notin Sessions
          BY ConnectionsAssumption
        <4> QED BY <3>4, <4>1 DEF AddHandle, EventVars
      <3>5. CASE Terminated
        BY <3>5 DEF Terminated, vars, EventVars, curlVars, sessionVars
      <3> QED BY <1>12, <3>1, <3>2, <3>3, <3>4, <3>5, Zenon
    <2> QED BY <1>1, <2>1, EventKept
  <1> QED BY <1>2, <1>3, <1>5, <1>7, <1>8, <1>9, <1>10, <1>11, <1>12, Zenon DEF Next, Connections

-----------------------------------------------------------------------------
(* What the steps change of curl, of the sessions and of the loop.         *)

\* A connection uses no socket any more.
LEMMA DetachFacts ==
    ASSUME CurlType, NEW c \in Connections, NEW kept \in SUBSET Sockets, Detach(c, kept)
    PROVE  /\ users' \in [Sockets -> SUBSET Connections]
           /\ \A s \in Sockets : users'[s] = IF s \in kept THEN users[s] ELSE users[s] \ {c}
           /\ open' \subseteq open
           /\ \A s \in open : s \notin open' <=> c \in Sessions /\ c \in users[s] /\ s \notin kept
  <1>1. users' = [s \in Sockets |-> IF s \in kept THEN users[s] ELSE users[s] \ {c}]
    BY DEF Detach
  <1>2. \A s \in Sockets : users[s] \in SUBSET Connections
    BY DEF CurlType
  <1>3. users' \in [Sockets -> SUBSET Connections]
    BY <1>1, <1>2
  <1>4. \A s \in Sockets : users'[s] = IF s \in kept THEN users[s] ELSE users[s] \ {c}
    BY <1>1
  <1>5. /\ open' \subseteq open
        /\ \A s \in open : s \notin open' <=> c \in Sessions /\ c \in users[s] /\ s \notin kept
    BY DEF Detach, SocketsOf
  <1> QED BY <1>3, <1>4, <1>5

\* The handle of a session is gone.
LEMMA GoneFacts ==
    ASSUME CurlType, SessionType, NEW c \in Sessions, HandleGone(c)
    PROVE  /\ users' \in [Sockets -> SUBSET Connections] /\ open' \subseteq open
           /\ \A s \in Sockets : users'[s] = users[s] \ {c}
           /\ \A s \in open : s \notin open' <=> c \in users[s]
           /\ transfer' \in [Connections -> {"none", "running", "done"}]
           /\ transfer'[c] = "none" /\ \A d \in Connections : d # c => transfer'[d] = transfer[d]
           /\ status' \in [Sessions -> {"initializing", "ready", "inactive"}]
           /\ status'[c] = "inactive" /\ \A d \in Sessions : d # c => status'[d] = status[d]
           /\ connected' \in [Sessions -> Sockets \cup {None}]
           /\ \A d \in Sessions : d # c => connected'[d] = connected[d]
           /\ resolverSocket' \in [Sessions -> Sockets \cup {None}] /\ resolverSocket'[c] = None
           /\ \A d \in Sessions : d # c => resolverSocket'[d] = resolverSocket[d]
           /\ dataSocket' \in [Sessions -> Sockets \cup {None}] /\ dataSocket'[c] = None
           /\ \A d \in Sessions : d # c => dataSocket'[d] = dataSocket[d]
  <1>1. c \in Connections
    BY DEF Connections
  <1>2. /\ users' \in [Sockets -> SUBSET Connections] /\ open' \subseteq open
        /\ \A s \in Sockets : users'[s] = users[s] \ {c}
        /\ \A s \in open : s \notin open' <=> c \in users[s]
    <2>1. Detach(c, {}) /\ {} \in SUBSET Sockets /\ \A s \in Sockets : s \notin {}
      BY DEF HandleGone
    <2>2. /\ users' \in [Sockets -> SUBSET Connections]
          /\ \A s \in Sockets : users'[s] = IF s \in {} THEN users[s] ELSE users[s] \ {c}
          /\ open' \subseteq open
          /\ \A s \in open : s \notin open' <=> c \in Sessions /\ c \in users[s] /\ s \notin {}
      BY <1>1, <2>1, DetachFacts, Zenon
    <2> QED BY <2>2
  <1>3. /\ transfer' \in [Connections -> {"none", "running", "done"}]
        /\ transfer'[c] = "none" /\ \A d \in Connections : d # c => transfer'[d] = transfer[d]
    BY <1>1 DEF HandleGone, CurlType
  <1>4. /\ status' \in [Sessions -> {"initializing", "ready", "inactive"}]
        /\ status'[c] = "inactive" /\ \A d \in Sessions : d # c => status'[d] = status[d]
    BY DEF HandleGone, SessionType
  <1>5. /\ connected' \in [Sessions -> Sockets \cup {None}]
        /\ \A d \in Sessions : d # c => connected'[d] = connected[d]
    BY DEF HandleGone, SessionType
  <1>6. /\ resolverSocket' \in [Sessions -> Sockets \cup {None}] /\ resolverSocket'[c] = None
        /\ \A d \in Sessions : d # c => resolverSocket'[d] = resolverSocket[d]
    BY DEF HandleGone, SessionType
  <1>7. /\ dataSocket' \in [Sessions -> Sockets \cup {None}] /\ dataSocket'[c] = None
        /\ \A d \in Sessions : d # c => dataSocket'[d] = dataSocket[d]
    BY DEF HandleGone, SessionType
  <1> QED BY <1>2, <1>3, <1>4, <1>5, <1>6, <1>7

\* A message is read.
LEMMA TailMessages ==
    ASSUME IInv, messages # <<>>, messages' = Tail(messages)
    PROVE  /\ messages' \in Seq(Message)
           /\ Len(messages') = Len(messages) - 1 /\ Len(messages) \in Nat
           /\ \A i \in 1 .. Len(messages') :
                  i + 1 \in 1 .. Len(messages) /\ messages'[i] = messages[i + 1] /\ i + 1 # 1
  <1>1. /\ messages' \in Seq(Message) /\ Len(messages') = Len(messages) - 1
        /\ \A i \in 1 .. Len(messages') : messages'[i] = messages[i + 1]
        /\ Len(messages) \in Nat
    BY HeadTailProperties, LenProperties DEF IInv, CurlType
  <1> QED BY <1>1

\* The steps that take the handle of a session from curl, and what else they do.
SessionGone(c) ==
    \/ SessionRefused(c) \/ SessionFails(c)
    \/ HandleRemoved /\ removing = c
\* What the end of a session changes, and what it leaves alone.
LEMMA SessionGoneFacts ==
    ASSUME IInv, NEW c \in Sessions, SessionGone(c)
    PROVE  /\ HandleGone(c)
           /\ timer' = timer /\ watch' = watch /\ opened' = opened /\ socketEvent' = socketEvent
           /\ registered' = registered
           /\ messages # <<>> => messages' = Tail(messages) /\ Head(messages).connection = c
           /\ messages = <<>> => messages' = <<>>
  <1>1. CASE SessionRefused(c)
    BY <1>1 DEF SessionRefused
  <1>2. CASE SessionFails(c)
    <2>1. loc = "events"
      BY <1>2 DEF SessionFails
    <2>2. messages = <<>>
      BY <2>1, Zenon DEF IInv, RoundInv
    <2> QED BY <1>2, <2>2 DEF SessionFails
  <1>3. CASE HandleRemoved /\ removing = c
    <2>1. messages = <<>>
      BY <1>3, Zenon DEF HandleRemoved, IInv, RoundInv
    <2> QED BY <1>3, <2>1 DEF HandleRemoved
  <1> QED BY <1>1, <1>2, <1>3 DEF SessionGone

\* Which session HandleRemoved is about.
LEMMA RemovedSession ==
    ASSUME IInv, HandleRemoved
    PROVE  removing \in Sessions /\ SessionGone(removing)
  BY DEF HandleRemoved, IInv, LoopType, SessionGone

\* Every step keeps the type of what curl keeps.
LEMMA NextCurlType ==
    ASSUME IInv, Next
    PROVE  CurlType'
  <1>1. /\ CurlType /\ timer \in BOOLEAN /\ open \subseteq Sockets /\ messages \in Seq(Message)
        /\ transfer \in [Connections -> {"none", "running", "done"}]
        /\ users \in [Sockets -> SUBSET Connections]
        /\ watch \in [Sockets -> SUBSET Kinds]
    BY DEF IInv, CurlType
  <1>2. ASSUME NEW c \in Connections, NEW s \in Sockets, NEW kinds \in SUBSET Kinds,
               CurlPolls(c, s, kinds)
        PROVE  CurlType'
    <2>1. /\ watch' = [watch EXCEPT ![s] = kinds] /\ open' = open \cup {s}
          /\ users' = [users EXCEPT ![s] = @ \cup {c}]
          /\ timer' = timer /\ transfer' = transfer /\ messages' = messages
      BY <1>2 DEF CurlPolls
    <2>2. users' \in [Sockets -> SUBSET Connections] /\ watch' \in [Sockets -> SUBSET Kinds]
      BY <1>1, <2>1
    <2> QED BY <1>1, <2>1, <2>2 DEF CurlType
  <1>3. ASSUME NEW s \in Sockets, CurlRemoves(s)
        PROVE  CurlType'
    <2>1. /\ watch' = [watch EXCEPT ![s] = {}] /\ open' \subseteq open
          /\ users' = users \/ users' = [users EXCEPT ![s] = {}]
          /\ timer' = timer /\ transfer' = transfer /\ messages' = messages
      BY <1>3 DEF CurlRemoves
    <2>2. users' \in [Sockets -> SUBSET Connections] /\ watch' \in [Sockets -> SUBSET Kinds]
      BY <1>1, <2>1
    <2> QED BY <1>1, <2>1, <2>2 DEF CurlType
  <1>4. ASSUME NEW c \in Connections, NEW ok \in BOOLEAN, CurlDone(c, ok)
        PROVE  CurlType'
    <2>1. /\ transfer' = [transfer EXCEPT ![c] = "done"]
          /\ messages' = Append(messages, [connection |-> c, ok |-> ok])
          /\ timer' = timer /\ watch' = watch
      BY <1>4 DEF CurlDone
    <2>2. PICK kept \in SUBSET Sockets : Detach(c, kept)
      BY <1>1, <1>4 DEF CurlDone, SocketsOf
    <2>3. users' \in [Sockets -> SUBSET Connections] /\ open' \subseteq Sockets
      BY <1>1, <2>2, DetachFacts
    <2>4. messages' \in Seq(Message)
      <3>1. [connection |-> c, ok |-> ok] \in Message
        BY DEF Message
      <3> QED BY <1>1, <2>1, <3>1, AppendProperties
    <2> QED BY <1>1, <2>1, <2>3, <2>4 DEF CurlType
  <1>5. ASSUME NEW c \in Sessions, SessionGone(c)
        PROVE  CurlType'
    <2>1. messages' \in Seq(Message)
      <3>1. CASE messages # <<>>
        BY <1>5, <3>1, SessionGoneFacts, TailMessages
      <3>2. CASE messages = <<>>
        <4>1. messages' = messages
          BY <1>5, <3>2, SessionGoneFacts
        <4> QED BY <1>1, <4>1
      <3> QED BY <3>1, <3>2
    <2> QED BY <1>1, <1>5, <2>1, SessionGoneFacts, GoneFacts DEF CurlType, IInv
  <1>6. ASSUME NEW c \in Connections, TransferDone(c) \/ AddHandle(c)
        PROVE  CurlType'
    <2>1. /\ users' = users /\ open' = open /\ watch' = watch
          /\ transfer' = [transfer EXCEPT ![c] = "none"] \/ transfer' = [transfer EXCEPT ![c] = "running"]
          /\ timer' = timer \/ timer' = TRUE
          /\ messages' = messages \/ (messages # <<>> /\ messages' = Tail(messages))
      BY <1>6 DEF TransferDone, AddHandle, curl_timer_callback
    <2>2. messages' \in Seq(Message)
      BY <1>1, <2>1, TailMessages
    <2>3. transfer' \in [Connections -> {"none", "running", "done"}]
      BY <1>1, <2>1
    <2> QED BY <1>1, <2>1, <2>2, <2>3 DEF CurlType
  <1>7. ASSUME NEW c \in Sessions, NEW kinds, SessionReady(c, kinds)
        PROVE  CurlType'
    <2>1. /\ UNCHANGED <<timer, transfer, users, open, watch>>
          /\ messages # <<>> /\ messages' = Tail(messages)
      BY <1>7 DEF SessionReady
    <2>2. messages' \in Seq(Message)
      BY <2>1, TailMessages
    <2> QED BY <1>1, <2>1, <2>2 DEF CurlType
  <1>8. CASE CurlTimer \/ TimerFires \/ free_event_context
    <2>1. /\ UNCHANGED <<transfer, users, watch, messages>> /\ open' \subseteq open
          /\ timer' \in {~timer, FALSE}
      BY <1>8 DEF CurlTimer, curl_timer_callback, TimerFires, free_event_context, curlVars
    <2> QED BY <1>1, <2>1 DEF CurlType
  <1>9. CASE \/ CurlReturns \/ SocketFires \/ DataDone \/ HandleTasks \/ HandleEvents \/ Terminated
             \/ \E c \in Sessions : RegisterRefused(c) \/ unregister_handle(c)
             \/ \E c \in Sessions, kinds \in SUBSET {"WRITE"} : ArmSession(c, kinds)
    <2>1. UNCHANGED <<timer, curlVars>>
      <3>1. CASE CurlReturns \/ SocketFires \/ DataDone \/ HandleTasks \/ HandleEvents
        BY <3>1 DEF CurlReturns, SocketFires, DataDone, HandleTasks, HandleEvents
      <3>2. CASE \E c \in Sessions : RegisterRefused(c) \/ unregister_handle(c)
        BY <3>2 DEF RegisterRefused, unregister_handle
      <3>3. CASE \E c \in Sessions, kinds \in SUBSET {"WRITE"} : ArmSession(c, kinds)
        BY <3>3 DEF ArmSession
      <3>4. CASE Terminated
        BY <3>4 DEF Terminated, vars
      <3> QED BY <1>9, <3>1, <3>2, <3>3, <3>4, Zenon
    <2> QED BY <1>1, <2>1 DEF curlVars, CurlType
  <1>10. ASSUME NEW c \in Sessions, SessionRefused(c) \/ SessionFails(c)
         PROVE  CurlType'
    BY <1>5, <1>10 DEF SessionGone
  <1>11. CASE HandleRemoved
    BY <1>5, <1>11, RemovedSession
  <1>12. \A c \in Transfers : c \in Connections
    BY DEF Connections
  <1> QED BY <1>2, <1>3, <1>4, <1>6, <1>7, <1>8, <1>9, <1>10, <1>11, <1>12, Zenon DEF Next

\* The variables of the sessions keep their types.
LEMMA NextSessionType ==
    ASSUME IInv, Next
    PROVE  SessionType'
  <1>1. /\ opened \in [Sessions -> 0 .. Addresses + 1]
        /\ connected \in [Sessions -> Sockets \cup {None}]
        /\ status \in [Sessions -> {"initializing", "ready", "inactive"}]
        /\ resolverSocket \in [Sessions -> Sockets \cup {None}]
        /\ dataSocket \in [Sessions -> Sockets \cup {None}]
    BY DEF IInv, SessionType
  <1>2. ASSUME NEW c \in Connections, NEW s \in Sockets, NEW kinds \in SUBSET Kinds,
               CurlPolls(c, s, kinds)
        PROVE  SessionType'
    <2>1. /\ resolverSocket' \in [Sessions -> Sockets \cup {None}]
          /\ dataSocket' \in [Sessions -> Sockets \cup {None}]
      <3>1. \/ UNCHANGED <<resolverSocket, dataSocket>>
            \/ /\ c \in Sessions /\ dataSocket' = [dataSocket EXCEPT ![c] = s]
               /\ \/ resolverSocket' = [resolverSocket EXCEPT ![c] = s]
                  \/ resolverSocket' = [resolverSocket EXCEPT ![c] = @]
        BY <1>2, Zenon DEF CurlPolls, PollSocket, on_attach_socket
      <3> QED BY <1>1, <3>1
    <2>2. opened' \in [Sessions -> 0 .. Addresses + 1]
      <3>1. CASE c \in Sessions /\ s \notin open
        <4>1. opened' = [opened EXCEPT ![c] = @ + 1] /\ MayUse(c, s)
          BY <1>2, <3>1 DEF CurlPolls
        <4>2. opened[c] <= Addresses /\ opened[c] \in 0 .. Addresses + 1
          BY <1>1, <3>1, <4>1, ConnectionsAssumption DEF MayUse, WatchedOf, SocketsOf
        <4>3. opened[c] + 1 \in 0 .. Addresses + 1
          BY <4>2, BoundsAssumption
        <4> QED BY <1>1, <4>1, <4>3
      <3>2. CASE ~(c \in Sessions /\ s \notin open)
        BY <1>1, <1>2, <3>2, Zenon DEF CurlPolls
      <3> QED BY <3>1, <3>2
    <2>3. UNCHANGED <<connected, status>>
      BY <1>2 DEF CurlPolls
    <2> QED BY <1>1, <2>1, <2>2, <2>3 DEF SessionType
  <1>3. ASSUME NEW c \in Connections, NEW ok \in BOOLEAN, CurlDone(c, ok)
        PROVE  SessionType'
    <2>1. UNCHANGED <<opened, status, resolverSocket, dataSocket>>
      BY <1>3 DEF CurlDone, sessionVars
    <2>2. connected' = connected \/ \E s \in open : connected' = [connected EXCEPT ![c] = s]
      BY <1>3 DEF CurlDone, SocketsOf
    <2>3. connected' \in [Sessions -> Sockets \cup {None}]
      BY <1>1, <2>2 DEF IInv, CurlType
    <2> QED BY <1>1, <2>1, <2>3 DEF SessionType
  <1>4. ASSUME NEW c \in Sessions, SessionGone(c)
        PROVE  SessionType'
    <2>1. SessionType /\ CurlType
      BY DEF IInv
    <2>2. HandleGone(c) /\ opened' = opened
      BY <1>4, SessionGoneFacts
    <2> QED BY <1>1, <2>1, <2>2, GoneFacts DEF SessionType
  <1>5. ASSUME NEW c \in Sessions,
               RegisterRefused(c) \/ \E kinds : SessionReady(c, kinds)
        PROVE  SessionType'
    <2>1. /\ UNCHANGED <<opened, connected, resolverSocket, dataSocket>>
          /\ \E value \in {"ready", "inactive"} : status' = [status EXCEPT ![c] = value]
      BY <1>5 DEF RegisterRefused, SessionReady, curlVars
    <2> QED BY <1>1, <2>1 DEF SessionType
  <1>6. ASSUME NEW c \in Connections, AddHandle(c)
        PROVE  SessionType'
    <2>1. /\ UNCHANGED <<connected, resolverSocket, dataSocket>>
          /\ status' = status \/ status' = [status EXCEPT ![c] = "initializing"]
          /\ opened' = opened \/ opened' = [opened EXCEPT ![c] = 0]
      BY <1>6 DEF AddHandle
    <2>2. 0 \in 0 .. Addresses + 1
      BY BoundsAssumption
    <2> QED BY <1>1, <2>1, <2>2 DEF SessionType
  <1>7. ASSUME \/ \E s \in Sockets : CurlRemoves(s)
               \/ CurlTimer \/ CurlReturns \/ TimerFires \/ SocketFires \/ DataDone
               \/ \E c \in Transfers : TransferDone(c)
               \/ \E c \in Sessions, kinds \in SUBSET {"WRITE"} : ArmSession(c, kinds)
               \/ \E c \in Sessions : unregister_handle(c)
               \/ HandleTasks \/ HandleEvents \/ free_event_context \/ Terminated
        PROVE  SessionType'
    <2>1. UNCHANGED <<opened, connected, status, resolverSocket, dataSocket>>
      <3>1. CASE CurlTimer \/ CurlReturns \/ TimerFires \/ SocketFires \/ DataDone
                 \/ HandleTasks \/ HandleEvents \/ free_event_context
        BY <3>1 DEF CurlTimer, CurlReturns, TimerFires, SocketFires, DataDone, HandleTasks,
                    HandleEvents, free_event_context, curlVars, sessionVars
      <3>2. CASE \E s \in Sockets : CurlRemoves(s)
        BY <3>2 DEF CurlRemoves, sessionVars
      <3>3. CASE \E c \in Transfers : TransferDone(c)
        BY <3>3 DEF TransferDone, sessionVars
      <3>4. CASE \E c \in Sessions, kinds \in SUBSET {"WRITE"} : ArmSession(c, kinds)
        BY <3>4 DEF ArmSession, curlVars, sessionVars
      <3>5. CASE \E c \in Sessions : unregister_handle(c)
        BY <3>5 DEF unregister_handle, curlVars
      <3>6. CASE Terminated
        BY <3>6 DEF Terminated, vars, curlVars, sessionVars
      <3> QED BY <1>7, <3>1, <3>2, <3>3, <3>4, <3>5, <3>6, Zenon
    <2> QED BY <1>1, <2>1 DEF SessionType
  <1>8. ASSUME NEW c \in Sessions, SessionRefused(c) \/ SessionFails(c)
        PROVE  SessionType'
    BY <1>4, <1>8 DEF SessionGone
  <1>9. CASE HandleRemoved
    BY <1>4, <1>9, RemovedSession
  <1> QED BY <1>2, <1>3, <1>5, <1>6, <1>7, <1>8, <1>9, Zenon DEF Next

\* Where the worker thread goes: no other step moves it.
Moves ==
    \/ CurlReturns \/ TimerFires \/ SocketFires \/ DataDone \/ HandleRemoved
    \/ HandleTasks \/ HandleEvents \/ free_event_context
    \/ \E c \in Sessions : unregister_handle(c)
\* Only the steps of Moves change the place of the worker thread.
LEMMA LocKept ==
    ASSUME Next, ~Moves
    PROVE  UNCHANGED <<loc, removing>>
  <1>1. CASE CurlTimer \/ \E s \in Sockets : CurlRemoves(s)
    BY <1>1 DEF CurlTimer, CurlRemoves
  <1>2. CASE \E c \in Connections, s \in Sockets, kinds \in SUBSET Kinds : CurlPolls(c, s, kinds)
    BY <1>2 DEF CurlPolls
  <1>3. CASE \E c \in Connections, ok \in BOOLEAN : CurlDone(c, ok)
    BY <1>3 DEF CurlDone
  <1>4. CASE \E c \in Transfers : TransferDone(c)
    BY <1>4 DEF TransferDone
  <1>5. CASE \E c \in Sessions : SessionRefused(c) \/ SessionFails(c) \/ RegisterRefused(c)
    BY <1>5 DEF SessionRefused, SessionFails, RegisterRefused
  <1>6. CASE \E c \in Sessions, kinds \in SUBSET {"WRITE"} :
                 SessionReady(c, kinds) \/ ArmSession(c, kinds)
    BY <1>6 DEF SessionReady, ArmSession
  <1>7. CASE \E c \in Connections : AddHandle(c)
    BY <1>7 DEF AddHandle
  <1>8. CASE Terminated
    BY <1>8 DEF Terminated, vars
  <1> QED BY <1>1, <1>2, <1>3, <1>4, <1>5, <1>6, <1>7, <1>8, Zenon DEF Next, Moves

\* What is registered, step by step.
LEMMA RegisteredFacts ==
    ASSUME Next
    PROVE  \/ registered' = registered
           \/ \E c \in Sessions :
                  \/ /\ registered' = registered \cup {c}
                     /\ AddHandle(c) \/ RegisterRefused(c)
                  \/ registered' = registered \ {c} /\ unregister_handle(c)
  <1>1. CASE Moves
    <2>1. CASE \/ CurlReturns \/ TimerFires \/ SocketFires \/ DataDone \/ HandleRemoved
               \/ HandleTasks \/ HandleEvents \/ free_event_context
      BY <2>1 DEF CurlReturns, TimerFires, SocketFires, DataDone, HandleRemoved, HandleTasks,
                  HandleEvents, free_event_context
    <2>2. CASE \E c \in Sessions : unregister_handle(c)
      BY <2>2 DEF unregister_handle
    <2> QED BY <1>1, <2>1, <2>2, Zenon DEF Moves
  <1>2. CASE CurlTimer \/ \E s \in Sockets : CurlRemoves(s)
    BY <1>2 DEF CurlTimer, CurlRemoves
  <1>3. CASE \E c \in Connections, s \in Sockets, kinds \in SUBSET Kinds : CurlPolls(c, s, kinds)
    BY <1>3 DEF CurlPolls
  <1>4. CASE \E c \in Connections, ok \in BOOLEAN : CurlDone(c, ok)
    BY <1>4 DEF CurlDone
  <1>5. CASE \E c \in Transfers : TransferDone(c)
    BY <1>5 DEF TransferDone
  <1>6. CASE \E c \in Sessions : SessionRefused(c) \/ SessionFails(c)
    BY <1>6 DEF SessionRefused, SessionFails
  <1>7. CASE \E c \in Sessions : RegisterRefused(c)
    BY <1>7 DEF RegisterRefused
  <1>8. CASE \E c \in Sessions, kinds \in SUBSET {"WRITE"} :
                 SessionReady(c, kinds) \/ ArmSession(c, kinds)
    BY <1>8 DEF SessionReady, ArmSession
  <1>9. CASE \E c \in Connections : AddHandle(c)
    BY <1>9 DEF AddHandle
  <1>10. CASE Terminated
    BY <1>10 DEF Terminated, vars
  <1> QED BY <1>1, <1>2, <1>3, <1>4, <1>5, <1>6, <1>7, <1>8, <1>9, <1>10, Zenon DEF Next, Moves

\* The worker thread's variables keep their types.
LEMMA NextLoopType ==
    ASSUME IInv, Next
    PROVE  LoopType'
  <1>1. /\ loc \in {"events", "curl", "data", "tasks", "ended"}
        /\ removing \in Sessions \cup {None} /\ registered \subseteq Sessions
    BY DEF IInv, LoopType
  <1>2. registered' \subseteq Sessions
    BY <1>1, RegisteredFacts
  <1>3. loc' \in {"events", "curl", "data", "tasks", "ended"} /\ removing' \in Sessions \cup {None}
    <2>1. CASE \/ CurlReturns \/ TimerFires \/ SocketFires \/ DataDone \/ HandleRemoved
               \/ HandleTasks \/ HandleEvents \/ free_event_context
      BY <1>1, <2>1 DEF CurlReturns, TimerFires, SocketFires, DataDone, HandleRemoved,
                        HandleTasks, HandleEvents, free_event_context
    <2>2. CASE \E c \in Sessions : unregister_handle(c)
      BY <1>1, <2>2 DEF unregister_handle
    <2>3. CASE ~Moves
      BY <1>1, <2>3, LocKept
    <2> QED BY <2>1, <2>2, <2>3, Zenon DEF Moves
  <1> QED BY <1>2, <1>3 DEF LoopType

-----------------------------------------------------------------------------
(* The sessions in every step.                                             *)

\* Steps that change neither a handle's state nor a session's.
Idle ==
    \/ \E c \in Connections, s \in Sockets, kinds \in SUBSET Kinds : CurlPolls(c, s, kinds)
    \/ \E s \in Sockets : CurlRemoves(s)
    \/ CurlTimer \/ CurlReturns \/ TimerFires \/ SocketFires \/ DataDone
    \/ \E c \in Sessions, kinds \in SUBSET {"WRITE"} : ArmSession(c, kinds)
    \/ HandleTasks \/ HandleEvents \/ free_event_context \/ Terminated
\* curl and the network, while the worker thread waits, change neither events
\* nor sessions.
LEMMA IdleKeeps ==
    ASSUME Idle
    PROVE  UNCHANGED <<socketEvent, registered, transfer, status, removing, messages>>
  <1>1. CASE \E c \in Connections, s \in Sockets, kinds \in SUBSET Kinds : CurlPolls(c, s, kinds)
    BY <1>1 DEF CurlPolls
  <1>2. CASE \E s \in Sockets : CurlRemoves(s)
    BY <1>2 DEF CurlRemoves, sessionVars
  <1>3. CASE CurlTimer \/ CurlReturns \/ TimerFires \/ SocketFires \/ DataDone
             \/ HandleTasks \/ HandleEvents \/ free_event_context
    BY <1>3 DEF CurlTimer, CurlReturns, TimerFires, SocketFires, DataDone, HandleTasks,
                HandleEvents, free_event_context, curlVars, sessionVars
  <1>4. CASE \E c \in Sessions, kinds \in SUBSET {"WRITE"} : ArmSession(c, kinds)
    BY <1>4 DEF ArmSession, curlVars, sessionVars
  <1>5. CASE Terminated
    BY <1>5 DEF Terminated, vars, curlVars, sessionVars
  <1> QED BY <1>1, <1>2, <1>3, <1>4, <1>5, Zenon DEF Idle

\* Every step is one of these.
LEMMA StepCases ==
    ASSUME Next
    PROVE  \/ Idle
           \/ \E c \in Connections, ok \in BOOLEAN : CurlDone(c, ok)
           \/ \E c \in Transfers : TransferDone(c)
           \/ \E c \in Sessions :
                  \/ SessionGone(c) \/ RegisterRefused(c) \/ unregister_handle(c)
                  \/ \E kinds \in SUBSET {"WRITE"} : SessionReady(c, kinds)
           \/ \E c \in Connections : AddHandle(c)
           \/ HandleRemoved
  BY Zenon DEF Next, Idle, SessionGone

\* A handle that is added.
LEMMA AddFacts ==
    ASSUME CurlType, SessionType, LoopType, NEW c \in Connections, AddHandle(c)
    PROVE  /\ loc = "tasks" /\ transfer[c] = "none" /\ transfer'[c] = "running"
           /\ \A d \in Connections : d # c => transfer'[d] = transfer[d]
           /\ c \in Sessions => c \notin registered /\ c \in registered' /\ status'[c] = "initializing"
           /\ \A d \in Sessions : d # c => status'[d] = status[d] /\ (d \in registered' <=> d \in registered)
           /\ UNCHANGED <<loc, removing, users, open, watch, messages, socketEvent, connected,
                          resolverSocket, dataSocket, socketp, poolVars>>
  <1>1. CASE c \in Sessions
    BY <1>1 DEF AddHandle, CurlType, SessionType
  <1>2. CASE c \notin Sessions
    BY <1>2 DEF AddHandle, CurlType, SessionType
  <1> QED BY <1>1, <1>2

\* A transfer that is done.
LEMMA DoneFacts ==
    ASSUME CurlType, NEW c \in Connections, NEW ok \in BOOLEAN, CurlDone(c, ok)
    PROVE  /\ loc = "curl" /\ removing = None /\ transfer[c] = "running" /\ transfer'[c] = "done"
           /\ \A d \in Connections : d # c => transfer'[d] = transfer[d]
           /\ messages' = Append(messages, [connection |-> c, ok |-> ok])
           /\ UNCHANGED <<loc, removing, registered, poolVars, watch, socketp, opened, status,
                          socketEvent, resolverSocket, dataSocket>>
  BY DEF CurlDone, InCurl, CurlType, sessionVars

\* A session that takes its connected socket over.
LEMMA ReadyFacts ==
    ASSUME IInv, NEW c \in Sessions, NEW kinds \in SUBSET {"WRITE"}, SessionReady(c, kinds)
    PROVE  /\ loc = "data" /\ removing = None
           /\ messages # <<>> /\ Head(messages) = [connection |-> c, ok |-> TRUE]
           /\ messages' = Tail(messages) /\ transfer[c] = "done"
           /\ status'[c] = "ready" /\ \A d \in Sessions : d # c => status'[d] = status[d]
           /\ socketEvent'[c] # 0 /\ \A d \in Sessions : d # c => socketEvent'[d] = socketEvent[d]
           /\ UNCHANGED <<loc, removing, registered, transfer, users, open, watch, socketp, opened,
                          connected, resolverSocket, dataSocket>>
  <1>1. /\ loc = "data" /\ messages # <<>> /\ Head(messages) = [connection |-> c, ok |-> TRUE]
        /\ messages' = Tail(messages)
        /\ acquire_socket_event(SessionEvent(c, kinds))
        /\ socketEvent' = [socketEvent EXCEPT ![c] = acquired]
        /\ status' = [status EXCEPT ![c] = "ready"]
        /\ UNCHANGED <<loc, removing, registered, transfer, users, open, watch, socketp, opened,
                       connected, resolverSocket, dataSocket>>
    BY DEF SessionReady
  <1>2. Head(messages).connection = c
    BY <1>1
  <1>3. transfer[c] = "done" /\ removing = None
    BY <1>1, <1>2, FirstMessage
  <1>4. status'[c] = "ready" /\ \A d \in Sessions : d # c => status'[d] = status[d]
    BY <1>1 DEF IInv, SessionType
  <1>5. SessionEvent(c, kinds) \in Event
    <2>1. dataSocket[c] \in Sockets \cup {None} /\ {"READ"} \cup kinds \in SUBSET Kinds
      BY DEF IInv, SessionType, Kinds
    <2> QED BY <2>1 DEF SessionEvent, Event, Connections
  <1>6. acquired \in 1 .. Len(events') /\ Len(events') \in Nat
    BY <1>1, <1>5, AcquireFacts DEF IInv, EventInv, PoolInv
  <1>7. acquired # 0
    BY <1>6
  <1>8. socketEvent'[c] # 0 /\ \A d \in Sessions : d # c => socketEvent'[d] = socketEvent[d]
    BY <1>1, <1>7 DEF IInv, EventInv, PointerType
  <1> QED BY <1>1, <1>3, <1>4, <1>8

\* A session that is unregistered.
LEMMA UnregisterFacts ==
    ASSUME IInv, NEW c \in Sessions, unregister_handle(c)
    PROVE  /\ loc = "tasks" /\ removing = None /\ messages = <<>>
           /\ registered' = registered \ {c}
           /\ socketEvent'[c] = 0 /\ \A d \in Sessions : d # c => socketEvent'[d] = socketEvent[d]
           /\ transfer[c] # "none" => loc' = "curl" /\ removing' = c
           /\ transfer[c] = "none" => loc' = loc /\ removing' = removing
           /\ UNCHANGED <<transfer, users, open, watch, messages, opened, connected, status,
                          socketp, resolverSocket, dataSocket>>
  <1>1. /\ loc = "tasks" /\ registered' = registered \ {c} /\ ReleaseSessionEvent(c)
        /\ transfer[c] # "none" => loc' = "curl" /\ removing' = c
        /\ transfer[c] = "none" => loc' = loc /\ removing' = removing
        /\ UNCHANGED <<transfer, users, open, watch, messages, opened, connected, status,
                       socketp, resolverSocket, dataSocket>>
    BY DEF unregister_handle, curlVars
  <1>2. removing = None /\ messages = <<>>
    BY <1>1, NoneRemoved, Zenon DEF IInv, RoundInv
  <1>3. socketEvent'[c] = 0 /\ \A d \in Sessions : d # c => socketEvent'[d] = socketEvent[d]
    BY <1>1, ReleaseSession DEF IInv
  <1> QED BY <1>1, <1>2, <1>3

\* A session whose options are refused.
LEMMA RefusedFacts ==
    ASSUME IInv, NEW c \in Sessions, RegisterRefused(c)
    PROVE  /\ loc = "tasks" /\ removing = None /\ messages = <<>>
           /\ c \notin registered /\ registered' = registered \cup {c}
           /\ status'[c] = "inactive" /\ \A d \in Sessions : d # c => status'[d] = status[d]
           /\ UNCHANGED <<loc, removing, transfer, users, open, watch, messages, opened, connected,
                          socketp, socketEvent, resolverSocket, dataSocket>>
  <1>1. /\ loc = "tasks" /\ c \notin registered /\ registered' = registered \cup {c}
        /\ status' = [status EXCEPT ![c] = "inactive"]
        /\ UNCHANGED <<loc, removing, transfer, users, open, watch, messages, opened, connected,
                       socketp, socketEvent, resolverSocket, dataSocket>>
    BY DEF RegisterRefused, curlVars
  <1>2. removing = None /\ messages = <<>>
    BY <1>1, NoneRemoved, Zenon DEF IInv, RoundInv
  <1>3. status'[c] = "inactive" /\ \A d \in Sessions : d # c => status'[d] = status[d]
    BY <1>1, StatusSet DEF IInv
  <1> QED BY <1>1, <1>2, <1>3

\* Sessions and REST connections are told apart.
LEMMA ApartNames ==
    /\ Sessions \subseteq Connections /\ Transfers \subseteq Connections
    /\ \A c \in Sessions : c \notin Transfers /\ c # None
    /\ \A c \in Transfers : c \notin Sessions
  BY ConnectionsAssumption, NamesAssumption DEF Connections

\* A session that is gone was not being connected, or is the one being removed.
LEMMA GonePlace ==
    ASSUME IInv, NEW c \in Sessions, SessionGone(c)
    PROVE  /\ removing = c \/ transfer[c] = "done"
           /\ removing' = removing \/ (removing = c /\ removing' = None)
           /\ loc' = loc \/ loc' = "tasks"
           /\ loc' # "ended"
           /\ messages' # <<>> => loc' = "data" /\ removing' = None
           /\ removing # c => loc \in {"events", "data"} /\ removing = None /\ removing' = None
  <1>1. CASE SessionRefused(c)
    <2>1. transfer[c] = "done" /\ removing = None
      BY <1>1, FirstMessage DEF SessionRefused
    <2> QED BY <1>1, <2>1 DEF SessionRefused
  <1>2. CASE SessionFails(c)
    <2>1. loc = "events" /\ status[c] = "ready" /\ UNCHANGED <<loc, removing, messages>>
      BY <1>2 DEF SessionFails
    <2>2. removing = None /\ messages = <<>>
      BY <2>1, NoneRemoved, Zenon DEF IInv, RoundInv
    <2>3. transfer[c] = "done"
      BY <2>1 DEF IInv, SessionInv
    <2> QED BY <2>1, <2>2, <2>3
  <1>3. CASE HandleRemoved /\ removing = c
    <2>1. messages' = <<>>
      BY <1>3, SessionGoneFacts, Zenon DEF HandleRemoved, IInv, RoundInv
    <2> QED BY <1>3, <2>1 DEF HandleRemoved
  <1> QED BY <1>1, <1>2, <1>3 DEF SessionGone

\* Sessions keep their events only while they are registered.
LEMMA NextSessionInv ==
    ASSUME IInv, Next
    PROVE  SessionInv'
  <1>1. \A c \in Sessions :
            /\ socketEvent[c] # 0 => c \in registered /\ transfer[c] # "running"
            /\ status[c] = "ready" => transfer[c] = "done" /\ (socketEvent[c] # 0 \/ removing = c)
            /\ transfer[c] # "none" => c \in registered \/ removing = c
    BY DEF IInv, SessionInv, null
  <1> DEFINE P(d) == /\ socketEvent'[d] # 0 => d \in registered' /\ transfer'[d] # "running"
                     /\ status'[d] = "ready" =>
                           transfer'[d] = "done" /\ (socketEvent'[d] # 0 \/ removing' = d)
                     /\ transfer'[d] # "none" => d \in registered' \/ removing' = d
  <1>2. SUFFICES ASSUME NEW d \in Sessions PROVE P(d)
    BY DEF SessionInv, null
  <1>3. CASE Idle
    BY <1>1, <1>3, IdleKeeps
  <1>4. ASSUME NEW c \in Connections, NEW ok \in BOOLEAN, CurlDone(c, ok)
        PROVE  P(d)
    <2>1. d \in Connections /\ (d = c => transfer[d] = "running" /\ transfer'[d] = "done")
          /\ (d # c => transfer'[d] = transfer[d])
          /\ UNCHANGED <<removing, registered, status, socketEvent>>
      BY <1>4, DoneFacts, ApartNames DEF IInv
    <2> QED BY <1>1, <2>1
  <1>5. ASSUME NEW c \in Transfers, TransferDone(c)
        PROVE  P(d)
    <2>1. transfer'[d] = transfer[d] /\ UNCHANGED <<removing, registered, status, socketEvent>>
      BY <1>5, ApartNames DEF TransferDone, sessionVars, IInv, CurlType
    <2> QED BY <1>1, <2>1
  <1>6. ASSUME NEW c \in Sessions, SessionGone(c)
        PROVE  P(d)
    <2>1. HandleGone(c) /\ socketEvent' = socketEvent /\ registered' = registered
      BY <1>6, SessionGoneFacts
    <2>2. /\ transfer'[c] = "none" /\ status'[c] = "inactive"
          /\ d # c => transfer'[d] = transfer[d] /\ status'[d] = status[d]
      BY <2>1, GoneFacts, ApartNames DEF IInv
    <2>3. removing' = removing \/ removing = c
      BY <1>6, GonePlace
    <2> QED BY <1>1, <2>1, <2>2, <2>3
  <1>7. ASSUME NEW c \in Sessions, RegisterRefused(c)
        PROVE  P(d)
    BY <1>1, <1>7, RefusedFacts
  <1>8. ASSUME NEW c \in Sessions, unregister_handle(c)
        PROVE  P(d)
    <2>1. removing # d
      BY <1>8, UnregisterFacts, ApartNames
    <2> QED BY <1>1, <1>8, <2>1, UnregisterFacts
  <1>9. ASSUME NEW c \in Sessions, NEW kinds \in SUBSET {"WRITE"}, SessionReady(c, kinds)
        PROVE  P(d)
    <2>1. removing # d
      BY <1>9, ReadyFacts, ApartNames
    <2> QED BY <1>1, <1>9, <2>1, ReadyFacts
  <1>10. ASSUME NEW c \in Connections, AddHandle(c)
         PROVE  P(d)
    <2>1. /\ d = c => /\ transfer'[d] = "running" /\ d \notin registered /\ d \in registered'
                      /\ status'[d] = "initializing"
          /\ d # c => /\ transfer'[d] = transfer[d] /\ status'[d] = status[d]
                      /\ d \in registered' <=> d \in registered
          /\ UNCHANGED <<removing, socketEvent>>
      BY <1>10, AddFacts, ApartNames DEF IInv
    <2> QED BY <1>1, <2>1
  <1>11. CASE HandleRemoved
    BY <1>6, <1>11, RemovedSession
  <1> QED BY <1>3, <1>4, <1>5, <1>6, <1>7, <1>8, <1>9, <1>10, <1>11, StepCases, Zenon

\* The users of a socket that curl polls for c are of the kind of c.
LEMMA SharedUsers ==
    ASSUME UserInv, CurlType, NEW c \in Connections, NEW s \in Sockets, MayUse(c, s)
    PROVE  /\ c \in Transfers => users[s] \subseteq Transfers
           /\ c \in Sessions => users[s] \subseteq {c}
  <1>1. SocketInv(s)
    BY DEF UserInv
  <1>2. c \in Transfers => users[s] \subseteq Transfers
    BY <1>1 DEF MayUse, SocketInv
  <1>3. ASSUME c \in Sessions PROVE users[s] \subseteq {c}
    <2>1. s \in WatchedOf(c) \/ s \notin open
      BY <1>3, ApartNames DEF MayUse
    <2>2. CASE s \in WatchedOf(c)
      BY <1>1, <1>3, <2>2 DEF WatchedOf, SocketsOf, SocketInv
    <2>3. CASE s \notin open
      BY <1>1, <2>3 DEF SocketInv
    <2> QED BY <2>1, <2>2, <2>3
  <1> QED BY <1>2, <1>3

\* Sockets are used by handles that are under way, and a session's by no other.
LEMMA NextUserInv ==
    ASSUME IInv, Next
    PROVE  UserInv'
  <1>1. IsFiniteSet(open) /\ (\A s \in Sockets : SocketInv(s)) /\ CurlType /\ SessionType /\ LoopType /\ UserInv
    BY DEF IInv, UserInv
  <1>2. users \in [Sockets -> SUBSET Connections] /\ \A s \in Sockets : users[s] \subseteq Connections
    BY <1>1 DEF CurlType
  <1>3. ASSUME IsFiniteSet(open'), \A s \in Sockets : SocketInv(s)'
        PROVE  UserInv'
    BY <1>3 DEF UserInv
  <1>4. ASSUME NEW c \in Connections, NEW t \in Sockets, NEW kinds \in SUBSET Kinds,
               CurlPolls(c, t, kinds)
        PROVE  UserInv'
    <2>1. /\ transfer[c] = "running" /\ MayUse(c, t) /\ watch' = [watch EXCEPT ![t] = kinds]
          /\ open' = open \cup {t} /\ users' = [users EXCEPT ![t] = @ \cup {c}]
          /\ transfer' = transfer
      BY <1>4 DEF CurlPolls
    <2>2. IsFiniteSet(open')
      BY <1>1, <2>1, FS_AddElement
    <2>3. ASSUME NEW s \in Sockets PROVE SocketInv(s)'
      <3>1. CASE s # t
        <4>1. users'[s] = users[s] /\ watch'[s] = watch[s]
          BY <1>1, <1>2, <2>1, <3>1 DEF CurlType
        <4> QED BY <1>1, <2>1, <4>1 DEF SocketInv
      <3>2. CASE s = t
        <4>1. users'[s] = users[s] \cup {c} /\ s \in open'
          BY <1>2, <2>1, <3>2
        <4>2. CASE c \in Transfers
          <5>1. users'[s] \subseteq Transfers
            BY <1>1, <2>1, <3>2, <4>1, <4>2, SharedUsers
          <5>2. \A d \in users'[s] : transfer[d] = "running"
            BY <1>1, <2>1, <4>1, <5>1 DEF SocketInv
          <5> QED BY <2>1, <4>1, <5>1, <5>2, ApartNames DEF SocketInv
        <4>3. CASE c \in Sessions
          <5>1. users'[s] = {c}
            BY <1>1, <2>1, <3>2, <4>1, <4>3, SharedUsers
          <5> QED BY <2>1, <4>1, <4>3, <5>1, ApartNames DEF SocketInv
        <4> QED BY <4>2, <4>3 DEF Connections
      <3> QED BY <3>1, <3>2
    <2> QED BY <1>3, <2>2, <2>3
  <1>5. ASSUME NEW t \in Sockets, CurlRemoves(t)
        PROVE  UserInv'
    <2>1. /\ watch' = [watch EXCEPT ![t] = {}] /\ transfer' = transfer
          /\ \/ open' = open /\ users' = users
             \/ open' = open \ {t} /\ users' = [users EXCEPT ![t] = {}]
      BY <1>5 DEF CurlRemoves
    <2>2. IsFiniteSet(open')
      BY <1>1, <2>1, FS_Subset
    <2>3. ASSUME NEW s \in Sockets PROVE SocketInv(s)'
      <3>1. CASE s # t
        <4>1. users'[s] = users[s] /\ watch'[s] = watch[s] /\ (s \in open' <=> s \in open)
          BY <1>1, <1>2, <2>1, <3>1 DEF CurlType
        <4> QED BY <1>1, <2>1, <4>1 DEF SocketInv
      <3>2. CASE s = t
        <4>1. watch'[s] = {} /\ (users'[s] = {} \/ (users'[s] = users[s] /\ open' = open))
          BY <1>1, <1>2, <2>1, <3>2 DEF CurlType
        <4> QED BY <1>1, <2>1, <4>1 DEF SocketInv
      <3> QED BY <3>1, <3>2
    <2> QED BY <1>3, <2>2, <2>3
  <1>6. ASSUME NEW c \in Connections, NEW ok \in BOOLEAN, CurlDone(c, ok)
        PROVE  UserInv'
    <2>1. /\ transfer'[c] = "done" /\ watch' = watch /\ transfer[c] = "running"
          /\ \A d \in Connections : d # c => transfer'[d] = transfer[d]
          /\ \A s \in WatchedOf(c) : users[s] # {c}
      BY <1>1, <1>6, DoneFacts DEF CurlDone
    <2>2. PICK kept \in SUBSET Sockets : Detach(c, kept) /\ (c \notin Sessions => kept = {})
      <3>1. CASE c \in Sessions /\ ok
        <4>1. PICK t \in SocketsOf(c) : Detach(c, {t})
          BY <1>6, <3>1 DEF CurlDone
        <4>2. {t} \in SUBSET Sockets
          BY <1>1 DEF SocketsOf, CurlType
        <4> QED BY <3>1, <4>1, <4>2
      <3>2. CASE ~(c \in Sessions /\ ok)
        <4>1. Detach(c, {})
          BY <1>6, <3>2, Zenon DEF CurlDone
        <4> QED BY <4>1
      <3> QED BY <3>1, <3>2
    <2>3. /\ \A s \in Sockets : users'[s] = IF s \in kept THEN users[s] ELSE users[s] \ {c}
          /\ open' \subseteq open
          /\ \A s \in open : s \notin open' <=> c \in Sessions /\ c \in users[s] /\ s \notin kept
      BY <1>1, <2>2, DetachFacts
    <2>4. IsFiniteSet(open')
      BY <1>1, <2>3, FS_Subset
    <2>5. ASSUME NEW s \in Sockets PROVE SocketInv(s)'
      <3>1. CASE c \notin users[s]
        <4>1. users'[s] = users[s] /\ (s \in open' <=> s \in open)
          BY <2>3, <3>1
        <4>2. \A d \in users[s] : transfer'[d] = transfer[d]
          BY <1>2, <2>1, <3>1
        <4> QED BY <1>1, <2>1, <4>1, <4>2 DEF SocketInv
      <3>2. CASE c \in users[s] /\ c \in Sessions
        <4>1. users[s] = {c} /\ s \in open
          BY <1>1, <3>2 DEF SocketInv
        <4>2. watch[s] = {}
          BY <2>1, <3>2, <4>1 DEF WatchedOf, SocketsOf
        <4>3. CASE s \in kept
          <5>1. users'[s] = {c} /\ s \in open'
            BY <2>3, <4>1, <4>3
          <5> QED BY <2>1, <3>2, <4>2, <5>1, ApartNames DEF SocketInv
        <4>4. CASE s \notin kept
          <5>1. users'[s] = {}
            BY <2>3, <4>1, <4>4
          <5> QED BY <2>1, <4>2, <5>1 DEF SocketInv
        <4> QED BY <4>3, <4>4
      <3>3. CASE c \in users[s] /\ c \notin Sessions
        <4>1. /\ users'[s] = users[s] \ {c} /\ s \in open' /\ s \in open
          BY <1>1, <2>2, <2>3, <3>3 DEF SocketInv
        <4>2. \A d \in users'[s] : transfer'[d] = transfer[d] /\ d \in users[s] /\ d # c
          BY <1>2, <2>1, <4>1
        <4>3. watch[s] # {} => users'[s] # {}
          BY <2>1, <3>3, <4>1 DEF WatchedOf, SocketsOf
        <4>4. \A d \in users'[s] : d \notin Sessions
          BY <1>1, <3>3, <4>2 DEF SocketInv
        <4> QED BY <1>1, <2>1, <4>1, <4>2, <4>3, <4>4 DEF SocketInv
      <3> QED BY <3>1, <3>2, <3>3
    <2> QED BY <1>3, <2>4, <2>5
  <1>7. ASSUME NEW c \in Connections, transfer[c] \in {"none", "done"}, c \in Transfers \/ transfer[c] = "none",
               \A d \in Connections : d # c => transfer'[d] = transfer[d],
               UNCHANGED <<users, open, watch>>
        PROVE  UserInv'
    <2>1. ASSUME NEW s \in Sockets PROVE SocketInv(s)'
      <3>1. c \notin users[s]
        BY <1>1, <1>7 DEF SocketInv
      <3>2. \A d \in users[s] : transfer'[d] = transfer[d]
        BY <1>2, <1>7, <3>1
      <3> QED BY <1>1, <1>7, <3>2 DEF SocketInv
    <2>2. IsFiniteSet(open')
      BY <1>1, <1>7
    <2> QED BY <1>3, <2>1, <2>2
  <1>8. ASSUME NEW c \in Transfers, TransferDone(c)
        PROVE  UserInv'
    <2>1. /\ messages # <<>> /\ Head(messages).connection = c
          /\ transfer' = [transfer EXCEPT ![c] = "none"] /\ UNCHANGED <<users, open, watch>>
      BY <1>8 DEF TransferDone
    <2>2. transfer[c] = "done"
      BY <2>1, FirstMessage
    <2>3. \A d \in Connections : d # c => transfer'[d] = transfer[d]
      BY <1>1, <2>1 DEF CurlType
    <2> QED BY <1>7, <2>1, <2>2, <2>3, ApartNames
  <1>9. ASSUME NEW c \in Connections, AddHandle(c)
        PROVE  UserInv'
    <2>1. /\ transfer[c] = "none" /\ UNCHANGED <<users, open, watch>>
          /\ \A d \in Connections : d # c => transfer'[d] = transfer[d]
      BY <1>1, <1>9, AddFacts
    <2> QED BY <1>7, <2>1
  <1>10. ASSUME NEW c \in Sessions, SessionGone(c)
         PROVE  UserInv'
    <2>1. HandleGone(c) /\ watch' = watch
      BY <1>10, SessionGoneFacts
    <2>2. /\ open' \subseteq open /\ \A s \in Sockets : users'[s] = users[s] \ {c}
          /\ \A s \in open : s \notin open' <=> c \in users[s]
          /\ \A d \in Connections : d # c => transfer'[d] = transfer[d]
      BY <1>1, <2>1, GoneFacts
    <2>3. removing # c => transfer[c] = "done"
      BY <1>10, GonePlace
    <2>4. removing = c => WatchedOf(c) = {}
      <3>1. CASE removing = c /\ HandleRemoved
        BY <3>1 DEF HandleRemoved
      <3>2. CASE removing = c /\ (SessionRefused(c) \/ SessionFails(c))
        <4>1. loc # "curl"
          BY <3>2 DEF SessionRefused, SessionFails
        <4> QED BY <3>2, <4>1, NoneRemoved
      <3> QED BY <1>10, <3>1, <3>2 DEF SessionGone
    <2>5. IsFiniteSet(open')
      BY <1>1, <2>2, FS_Subset
    <2>6. ASSUME NEW s \in Sockets PROVE SocketInv(s)'
      <3>1. CASE c \notin users[s]
        <4>1. users'[s] = users[s] /\ (s \in open' <=> s \in open)
          BY <2>2, <3>1
        <4>2. \A d \in users[s] : transfer'[d] = transfer[d]
          BY <1>2, <2>2, <3>1
        <4> QED BY <1>1, <2>1, <4>1, <4>2 DEF SocketInv
      <3>2. CASE c \in users[s]
        <4>1. users[s] = {c} /\ s \in open /\ users'[s] = {}
          BY <1>1, <2>2, <3>2 DEF SocketInv
        <4>2. watch[s] = {}
          BY <1>1, <2>3, <2>4, <3>2, <4>1 DEF SocketInv, WatchedOf, SocketsOf
        <4> QED BY <2>1, <4>1, <4>2 DEF SocketInv
      <3> QED BY <3>1, <3>2
    <2> QED BY <1>3, <2>5, <2>6
  <1>11. CASE HandleRemoved
    BY <1>10, <1>11, RemovedSession
  <1>12. ASSUME UNCHANGED <<transfer, users, open, watch>>
         PROVE  UserInv'
    BY <1>1, <1>12 DEF UserInv, SocketInv
  <1>13. CASE free_event_context
    <2>1. /\ \A c \in Connections : transfer[c] = "none"
          /\ open' = {} /\ UNCHANGED <<transfer, users, watch>>
      BY <1>13 DEF free_event_context
    <2>2. \A s \in Sockets : users[s] = {}
      BY <1>1, <1>2, <2>1 DEF SocketInv
    <2>3. \A s \in Sockets : watch[s] = {}
      BY <1>1, <2>2 DEF SocketInv
    <2>4. \A s \in Sockets : SocketInv(s)'
      BY <2>1, <2>2, <2>3 DEF SocketInv
    <2>5. IsFiniteSet(open')
      BY <2>1, FS_EmptySet
    <2> QED BY <1>3, <2>4, <2>5
  <1>14. ASSUME \/ CurlTimer \/ CurlReturns \/ TimerFires \/ SocketFires \/ DataDone
                \/ HandleTasks \/ HandleEvents \/ Terminated
                \/ \E c \in Sessions, kinds \in SUBSET {"WRITE"} :
                       SessionReady(c, kinds) \/ ArmSession(c, kinds)
                \/ \E c \in Sessions : RegisterRefused(c) \/ unregister_handle(c)
         PROVE  UserInv'
    <2>1. CASE CurlTimer \/ CurlReturns \/ TimerFires \/ SocketFires \/ DataDone
               \/ HandleTasks \/ HandleEvents
      <3>1. UNCHANGED <<transfer, users, open, watch>>
        BY <2>1 DEF CurlTimer, CurlReturns, TimerFires, SocketFires, DataDone, HandleTasks,
                    HandleEvents, curlVars
      <3> QED BY <1>12, <3>1
    <2>2. CASE Terminated
      <3>1. UNCHANGED <<transfer, users, open, watch>>
        BY <2>2 DEF Terminated, vars, curlVars
      <3> QED BY <1>12, <3>1
    <2>3. CASE \E c \in Sessions, kinds \in SUBSET {"WRITE"} :
                   SessionReady(c, kinds) \/ ArmSession(c, kinds)
      <3>1. UNCHANGED <<transfer, users, open, watch>>
        BY <2>3 DEF SessionReady, ArmSession, curlVars
      <3> QED BY <1>12, <3>1
    <2>4. CASE \E c \in Sessions : RegisterRefused(c) \/ unregister_handle(c)
      <3>1. UNCHANGED <<transfer, users, open, watch>>
        BY <2>4 DEF RegisterRefused, unregister_handle, curlVars
      <3> QED BY <1>12, <3>1
    <2> QED BY <1>14, <2>1, <2>2, <2>3, <2>4, Zenon
  <1>15. ASSUME NEW c \in Sessions, SessionRefused(c) \/ SessionFails(c)
         PROVE  UserInv'
    BY <1>10, <1>15 DEF SessionGone
  <1> QED BY <1>4, <1>5, <1>6, <1>8, <1>9, <1>11, <1>13, <1>14, <1>15, Zenon DEF Next

\* A message that is read leaves the others as they were.
LEMMA OthersKept ==
    ASSUME IInv, messages # <<>>, messages' = Tail(messages),
           \A d \in Connections : d # Head(messages).connection => transfer'[d] = transfer[d],
           \A d \in Sessions : d # Head(messages).connection =>
               status'[d] = status[d] /\ socketEvent'[d] = socketEvent[d]
    PROVE  MessageInv'
  <1> DEFINE L == Len(messages')
             head == Head(messages).connection
  <1>1. /\ messages \in Seq(Message) /\ Head(messages) = messages[1] /\ 1 \in 1 .. Len(messages)
        /\ \A i \in 1 .. L : i + 1 \in 1 .. Len(messages) /\ messages'[i] = messages[i + 1] /\ i + 1 # 1
    BY FirstMessage, TailMessages DEF IInv, CurlType
  <1>2. \A i, j \in 1 .. Len(messages) : i # j => messages[i].connection # messages[j].connection
    BY Zenon DEF IInv, MessageInv
  <1>3. /\ \A i \in 1 .. Len(messages) : transfer[messages[i].connection] = "done"
        /\ \A i \in 1 .. Len(messages) :
               messages[i].connection \in Sessions =>
                   status[messages[i].connection] # "ready" /\ socketEvent[messages[i].connection] = 0
    BY Zenon DEF IInv, MessageInv, null
  <1>4. Len(messages) \in Nat /\ \A i \in 1 .. Len(messages) : messages[i].connection \in Connections
    <2>1. \A i \in 1 .. Len(messages) : messages[i] \in Message
      BY <1>1, ElementOfSeq
    <2> QED BY <1>1, <2>1, LenProperties DEF Message
  <1>5. \A i, j \in 1 .. L : i # j => i + 1 # j + 1
    BY <1>4, TailMessages
  <1> HIDE DEF L
  <1>6. ASSUME NEW i \in 1 .. L
        PROVE  /\ transfer'[messages'[i].connection] = "done"
               /\ messages'[i].connection \in Sessions =>
                      /\ status'[messages'[i].connection] # "ready"
                      /\ socketEvent'[messages'[i].connection] = 0
    <2>1. i + 1 \in 1 .. Len(messages) /\ messages'[i] = messages[i + 1] /\ i + 1 # 1
      BY <1>1
    <2> DEFINE d == messages[i + 1].connection
    <2>2. d # head
      BY <1>1, <1>2, <2>1, Zenon
    <2>3. d \in Connections /\ transfer[d] = "done"
          /\ (d \in Sessions => status[d] # "ready" /\ socketEvent[d] = 0)
      BY <1>3, <1>4, <2>1, Zenon
    <2>4. messages'[i].connection = d
      BY <2>1
    <2> HIDE DEF d
    <2> QED BY <2>2, <2>3, <2>4
  <1>7. ASSUME NEW i \in 1 .. L, NEW j \in 1 .. L, i # j
        PROVE  messages'[i].connection # messages'[j].connection
    <2>1. /\ i + 1 \in 1 .. Len(messages) /\ messages'[i] = messages[i + 1]
          /\ j + 1 \in 1 .. Len(messages) /\ messages'[j] = messages[j + 1]
          /\ i + 1 # j + 1
      BY <1>1, <1>5, <1>7, Zenon
    <2>2. messages[i + 1].connection # messages[j + 1].connection
      BY <1>2, <2>1, Zenon
    <2> QED BY <2>1, <2>2, Zenon
  <1> QED BY <1>6, <1>7, Zenon DEF MessageInv, null, L

\* Steps that leave the messages alone.
LEMMA MessagesKept ==
    ASSUME IInv, UNCHANGED <<messages, transfer, status, socketEvent>>
    PROVE  MessageInv'
  BY Zenon DEF IInv, MessageInv

\* No message, nothing to say.
LEMMA NoMessages ==
    ASSUME messages' = <<>>
    PROVE  MessageInv'
  <1>1. 1 .. Len(messages') = {}
    <2>1. Len(messages') = 0
      BY EmptySeq
    <2> QED BY <2>1
  <1> QED BY <1>1, Zenon DEF MessageInv

\* A new message is about a transfer that was running.
LEMMA DoneMessages ==
    ASSUME IInv, NEW c \in Connections, NEW ok \in BOOLEAN, CurlDone(c, ok)
    PROVE  MessageInv'
  <1> DEFINE L == Len(messages)
             m == [connection |-> c, ok |-> ok]
  <1>1. /\ transfer[c] = "running" /\ transfer'[c] = "done"
        /\ \A d \in Connections : d # c => transfer'[d] = transfer[d]
        /\ messages' = Append(messages, m) /\ status' = status /\ socketEvent' = socketEvent
    BY DoneFacts DEF IInv
  <1>2. messages \in Seq(Message) /\ m \in Message /\ m.connection = c
    BY DEF IInv, CurlType, Message
  <1>3. c \in Sessions => status[c] # "ready" /\ socketEvent[c] = 0
    BY <1>1 DEF IInv, SessionInv, null
  <1> HIDE DEF m
  <1>4. /\ Len(messages') = L + 1 /\ L \in Nat
        /\ \A i \in 1 .. L : messages'[i] = messages[i]
        /\ messages'[L + 1] = m
    BY <1>1, <1>2, AppendProperties, LenProperties
  <1>5. \A i, j \in 1 .. L : i # j => messages[i].connection # messages[j].connection
    BY Zenon DEF IInv, MessageInv
  <1>6. /\ \A i \in 1 .. L : transfer[messages[i].connection] = "done"
        /\ \A i \in 1 .. L :
               messages[i].connection \in Sessions =>
                   status[messages[i].connection] # "ready" /\ socketEvent[messages[i].connection] = 0
    BY Zenon DEF IInv, MessageInv, null
  <1>7. \A i \in 1 .. L : messages[i].connection \in Connections
    <2>1. \A i \in 1 .. L : messages[i] \in Message
      BY <1>2, ElementOfSeq
    <2> QED BY <2>1 DEF Message
  <1>8. \A i \in 1 .. L : messages[i].connection # c
    BY <1>1, <1>6
  <1> HIDE DEF L
  <1>9. \A i \in 1 .. L + 1 : i = L + 1 \/ i \in 1 .. L
    BY <1>4
  <1>10. ASSUME NEW i \in 1 .. L + 1
         PROVE  /\ transfer'[messages'[i].connection] = "done"
                /\ messages'[i].connection \in Sessions =>
                       /\ status'[messages'[i].connection] # "ready"
                       /\ socketEvent'[messages'[i].connection] = 0
    <2>1. CASE i = L + 1
      BY <1>1, <1>2, <1>3, <1>4, <2>1
    <2>2. CASE i \in 1 .. L
      <3> DEFINE d == messages[i].connection
      <3>1. messages'[i].connection = d
        BY <1>4, <2>2
      <3>2. d \in Connections /\ d # c /\ transfer[d] = "done"
            /\ (d \in Sessions => status[d] # "ready" /\ socketEvent[d] = 0)
        BY <1>6, <1>7, <1>8, <2>2, Zenon
      <3> HIDE DEF d
      <3> QED BY <1>1, <3>1, <3>2
    <2> QED BY <1>9, <2>1, <2>2
  <1>11. ASSUME NEW i \in 1 .. L + 1, NEW j \in 1 .. L + 1, i # j
         PROVE  messages'[i].connection # messages'[j].connection
    <2>1. CASE i = L + 1
      <3>1. j \in 1 .. L
        BY <1>9, <1>11, <2>1
      <3> QED BY <1>2, <1>4, <1>8, <2>1, <3>1
    <2>2. CASE i \in 1 .. L /\ j = L + 1
      BY <1>2, <1>4, <1>8, <2>2
    <2>3. CASE i \in 1 .. L /\ j \in 1 .. L
      BY <1>4, <1>5, <1>11, <2>3
    <2> QED BY <1>9, <2>1, <2>2, <2>3
  <1> QED BY <1>4, <1>10, <1>11, Zenon DEF MessageInv, null

\* Messages are about transfers that are done, one each.
LEMMA NextMessageInv ==
    ASSUME IInv, Next
    PROVE  MessageInv'
  <1>1. CurlType /\ SessionType /\ LoopType
    BY DEF IInv
  <1>2. CASE Idle
    BY <1>2, IdleKeeps, MessagesKept
  <1>3. ASSUME NEW c \in Connections, NEW ok \in BOOLEAN, CurlDone(c, ok)
        PROVE  MessageInv'
    BY <1>3, DoneMessages
  <1>4. ASSUME NEW c \in Transfers, TransferDone(c)
        PROVE  MessageInv'
    <2>1. /\ messages # <<>> /\ Head(messages).connection = c /\ messages' = Tail(messages)
          /\ status' = status /\ socketEvent' = socketEvent
          /\ transfer' = [transfer EXCEPT ![c] = "none"]
      BY <1>4 DEF TransferDone, sessionVars
    <2>2. \A d \in Connections : d # c => transfer'[d] = transfer[d]
      BY <1>1, <2>1 DEF CurlType
    <2> QED BY <2>1, <2>2, OthersKept
  <1>5. ASSUME NEW c \in Sessions, SessionGone(c)
        PROVE  MessageInv'
    <2>1. /\ HandleGone(c) /\ socketEvent' = socketEvent
          /\ messages # <<>> => messages' = Tail(messages) /\ Head(messages).connection = c
          /\ messages = <<>> => messages' = <<>>
      BY <1>5, SessionGoneFacts
    <2>2. /\ \A d \in Connections : d # c => transfer'[d] = transfer[d]
          /\ \A d \in Sessions : d # c => status'[d] = status[d]
      BY <1>1, <2>1, GoneFacts
    <2>3. CASE messages # <<>>
      BY <2>1, <2>2, <2>3, OthersKept
    <2>4. CASE messages = <<>>
      BY <2>1, <2>4, NoMessages
    <2> QED BY <2>3, <2>4
  <1>6. ASSUME NEW c \in Sessions, RegisterRefused(c) \/ unregister_handle(c)
        PROVE  MessageInv'
    <2>1. messages' = <<>>
      BY <1>6, RefusedFacts, UnregisterFacts
    <2> QED BY <2>1, NoMessages
  <1>7. ASSUME NEW c \in Sessions, NEW kinds \in SUBSET {"WRITE"}, SessionReady(c, kinds)
        PROVE  MessageInv'
    <2>1. /\ messages # <<>> /\ Head(messages) = [connection |-> c, ok |-> TRUE]
          /\ messages' = Tail(messages) /\ transfer' = transfer
          /\ \A d \in Sessions : d # c => status'[d] = status[d] /\ socketEvent'[d] = socketEvent[d]
      BY <1>7, ReadyFacts
    <2>2. Head(messages).connection = c
      BY <2>1
    <2> QED BY <2>1, <2>2, OthersKept
  <1>8. ASSUME NEW c \in Connections, AddHandle(c)
        PROVE  MessageInv'
    <2>1. loc = "tasks" /\ messages' = messages
      BY <1>1, <1>8, AddFacts
    <2>2. messages' = <<>>
      BY <2>1, Zenon DEF IInv, RoundInv
    <2> QED BY <2>2, NoMessages
  <1>9. CASE HandleRemoved
    BY <1>5, <1>9, RemovedSession
  <1> QED BY <1>2, <1>3, <1>4, <1>5, <1>6, <1>7, <1>8, <1>9, StepCases, Zenon

\* Messages are read, and handles removed, before the thread does anything else.
LEMMA NextRoundInv ==
    ASSUME IInv, Next
    PROVE  RoundInv'
  <1>1. CurlType /\ SessionType /\ LoopType
    BY DEF IInv
  <1>2. /\ messages # <<>> => (loc = "curl" \/ loc = "data") /\ removing = None
        /\ removing # None =>
              /\ loc = "curl" /\ removing \notin registered
              /\ transfer[removing] # "none" /\ socketEvent[removing] = 0
        /\ loc = "ended" => registered = {} /\ \A c \in Connections : transfer[c] = "none"
    BY Zenon DEF IInv, RoundInv, null
  <1> DEFINE P == /\ messages' # <<>> => (loc' = "curl" \/ loc' = "data") /\ removing' = None
                  /\ removing' # None =>
                        /\ loc' = "curl" /\ removing' \notin registered'
                        /\ transfer'[removing'] # "none" /\ socketEvent'[removing'] = 0
                  /\ loc' = "ended" =>
                        registered' = {} /\ \A c \in Connections : transfer'[c] = "none"
  <1>3. SUFFICES P
    BY Zenon DEF RoundInv, null
  <1>4. CASE Idle
    <2>1. UNCHANGED <<socketEvent, registered, transfer, status, removing, messages>>
      BY <1>4, IdleKeeps
    <2>2. CASE loc' = loc
      BY <1>2, <2>1, <2>2
    <2>3. CASE CurlReturns \/ TimerFires \/ SocketFires \/ DataDone \/ HandleTasks \/ HandleEvents
      <3>1. /\ removing = None /\ loc' # "ended"
            /\ messages # <<>> => loc' = "curl" \/ loc' = "data"
        BY <1>2, <2>3 DEF CurlReturns, TimerFires, SocketFires, DataDone, HandleTasks, HandleEvents
      <3> QED BY <2>1, <3>1
    <2>4. CASE free_event_context
      <3>1. loc = "tasks" /\ registered = {} /\ \A c \in Connections : transfer[c] = "none"
        BY <2>4 DEF free_event_context
      <3> QED BY <1>2, <2>1, <3>1
    <2>5. CASE \E s \in Sockets : CurlRemoves(s)
      BY <2>2, <2>5 DEF CurlRemoves
    <2>6. CASE \E c \in Connections, s \in Sockets, kinds \in SUBSET Kinds : CurlPolls(c, s, kinds)
      BY <2>2, <2>6 DEF CurlPolls
    <2>7. CASE \E c \in Sessions, kinds \in SUBSET {"WRITE"} : ArmSession(c, kinds)
      BY <2>2, <2>7 DEF ArmSession
    <2>8. CASE CurlTimer \/ Terminated
      BY <2>2, <2>8 DEF CurlTimer, Terminated, vars
    <2> QED BY <1>4, <2>3, <2>4, <2>5, <2>6, <2>7, <2>8, Zenon DEF Idle
  <1>5. ASSUME NEW c \in Connections, NEW ok \in BOOLEAN, CurlDone(c, ok)
        PROVE  P
    <2>1. loc' = "curl" /\ removing' = None
      BY <1>1, <1>5, DoneFacts
    <2> QED BY <2>1
  <1>6. ASSUME NEW c \in Transfers, TransferDone(c)
        PROVE  P
    <2>1. loc = "data" /\ loc' = loc /\ removing' = removing
      BY <1>6 DEF TransferDone
    <2> QED BY <1>2, <2>1
  <1>7. ASSUME NEW c \in Sessions, SessionGone(c)
        PROVE  P
    <2>1. /\ removing' = removing \/ (removing = c /\ removing' = None)
          /\ loc' # "ended"
          /\ messages' # <<>> => loc' = "data" /\ removing' = None
          /\ removing # c => removing' = None
      BY <1>7, GonePlace
    <2>2. removing' = None
      <3>1. CASE removing = c
        <4>1. loc = "curl"
          BY <1>2, <3>1, ApartNames
        <4>2. HandleRemoved
          BY <1>7, <4>1 DEF SessionGone, SessionRefused, SessionFails
        <4> QED BY <4>2 DEF HandleRemoved
      <3> QED BY <2>1, <3>1
    <2> QED BY <2>1, <2>2
  <1>8. ASSUME NEW c \in Sessions, RegisterRefused(c)
        PROVE  P
    <2>1. loc' = "tasks" /\ removing' = None /\ messages' = <<>>
      BY <1>8, RefusedFacts
    <2> QED BY <2>1
  <1>9. ASSUME NEW c \in Sessions, unregister_handle(c)
        PROVE  P
    <2>1. /\ loc = "tasks" /\ removing = None /\ messages' = <<>>
          /\ registered' = registered \ {c} /\ socketEvent'[c] = 0 /\ transfer' = transfer
          /\ transfer[c] # "none" => loc' = "curl" /\ removing' = c
          /\ transfer[c] = "none" => loc' = loc /\ removing' = removing
      BY <1>9, UnregisterFacts
    <2>2. CASE transfer[c] = "none"
      BY <2>1, <2>2
    <2>3. CASE transfer[c] # "none"
      BY <2>1, <2>3
    <2> QED BY <2>2, <2>3
  <1>10. ASSUME NEW c \in Sessions, NEW kinds \in SUBSET {"WRITE"}, SessionReady(c, kinds)
         PROVE  P
    <2>1. loc' = "data" /\ removing' = None
      BY <1>10, ReadyFacts
    <2> QED BY <2>1
  <1>11. ASSUME NEW c \in Connections, AddHandle(c)
         PROVE  P
    <2>1. loc' = "tasks" /\ removing' = removing /\ messages' = messages /\ loc = "tasks"
      BY <1>1, <1>11, AddFacts
    <2> QED BY <1>2, <2>1
  <1>12. CASE HandleRemoved
    BY <1>7, <1>12, RemovedSession
  <1> QED BY <1>4, <1>5, <1>6, <1>7, <1>8, <1>9, <1>10, <1>11, <1>12, StepCases, Zenon

-----------------------------------------------------------------------------
(* The invariant.                                                          *)

\* A pool of the initial capacity is all free.
LEMMA InitInv ==
    ASSUME Init
    PROVE  IInv
  <1>1. /\ loc = "tasks" /\ removing = None /\ registered = {}
        /\ events = [i \in 1 .. InitialCapacity |-> Blank]
        /\ freeSocketEvents = [i \in 1 .. InitialCapacity |-> InitialCapacity + 1 - i]
        /\ timer = FALSE
        /\ transfer = [c \in Connections |-> "none"]
        /\ users = [s \in Sockets |-> {}] /\ open = {}
        /\ watch = [s \in Sockets |-> {}] /\ socketp = [s \in Sockets |-> 0]
        /\ messages = <<>>
        /\ opened = [c \in Sessions |-> 0] /\ connected = [c \in Sessions |-> None]
        /\ status = [c \in Sessions |-> "initializing"]
        /\ socketEvent = [c \in Sessions |-> 0]
        /\ resolverSocket = [c \in Sessions |-> None]
        /\ dataSocket = [c \in Sessions |-> None]
    BY DEF Init, null
  <1> DEFINE N == InitialCapacity
  <1>2. N \in Nat /\ Addresses \in Nat
    BY BoundsAssumption
  <1>3. Blank \in Event
    BY DEF Blank, Event
  <1>4. /\ events \in Seq(Event) /\ Len(events) = N /\ \A i \in 1 .. N : events[i] = Blank
    <2>1. events = [i \in 1 .. N |-> Blank]
      BY <1>1
    <2> HIDE DEF N
    <2> QED BY <1>2, <1>3, <2>1, IsASeq, LenProperties, SeqDef
  <1>5. /\ freeSocketEvents \in Seq(1 .. N) /\ Len(freeSocketEvents) = N
        /\ \A i \in 1 .. N : freeSocketEvents[i] = N + 1 - i
    <2>1. freeSocketEvents = [i \in 1 .. N |-> N + 1 - i]
      BY <1>1
    <2> HIDE DEF N
    <2>2. \A i \in 1 .. N : N + 1 - i \in 1 .. N
      BY <1>2
    <2> QED BY <1>2, <2>1, <2>2, IsASeq, LenProperties, SeqDef
  <1>6. PoolType /\ PointerType
    <2>1. 0 \in 0 .. N
      BY <1>2
    <2> QED BY <1>1, <1>4, <1>5, <2>1 DEF PoolType, PointerType, Node
  <1> HIDE DEF N
  <1>7. PoolInv
    <2>1. FreeOnce
      <3>1. \A i, j \in 1 .. N : i # j => N + 1 - i # N + 1 - j
        BY <1>2
      <3> QED BY <1>5, <3>1 DEF FreeOnce
    <2>2. FreeBlank
      BY <1>4 DEF FreeBlank, Node
    <2>3. ASSUME NEW n \in 1 .. N PROVE Owned(n)
      <3>1. N + 1 - n \in 1 .. N /\ N + 1 - (N + 1 - n) = n
        BY <1>2
      <3>2. freeSocketEvents[N + 1 - n] = n
        BY <1>5, <3>1
      <3> QED BY <1>5, <3>1, <3>2 DEF Owned, InFree
    <2> QED BY <1>4, <2>1, <2>2, <2>3 DEF PoolInv, Node
  <1>8. PollInv
    <2>1. \A s \in Sockets : socketp[s] = 0 /\ watch[s] = {}
      BY <1>1
    <2> QED BY <2>1, Zenon DEF PollInv, null
  <1>9. SlotInv
    <2>1. \A c \in Sessions : socketEvent[c] = 0
      BY <1>1
    <2> QED BY <2>1, Zenon DEF SlotInv, null
  <1>10. CurlType
    <2>1. messages \in Seq(Message)
      BY <1>1, EmptySeq
    <2>2. transfer \in [Connections -> {"none", "running", "done"}]
      BY <1>1
    <2>3. users \in [Sockets -> SUBSET Connections] /\ watch \in [Sockets -> SUBSET Kinds]
      BY <1>1
    <2>4. open \subseteq Sockets /\ timer \in BOOLEAN
      BY <1>1
    <2> QED BY <2>1, <2>2, <2>3, <2>4 DEF CurlType
  <1>11. SessionType
    <2>1. 0 \in 0 .. Addresses + 1
      BY <1>2
    <2> QED BY <1>1, <2>1 DEF SessionType
  <1>12. LoopType
    BY <1>1 DEF LoopType
  <1>13. SessionInv
    BY <1>1, ApartNames DEF SessionInv, null
  <1>14. UserInv
    <2>1. IsFiniteSet(open)
      BY <1>1, FS_EmptySet
    <2> QED BY <1>1, <2>1 DEF UserInv, SocketInv
  <1>15. MessageInv
    <2>1. 1 .. Len(messages) = {}
      BY <1>1, EmptySeq
    <2> QED BY <2>1, Zenon DEF MessageInv
  <1>16. RoundInv
    BY <1>1 DEF RoundInv
  <1> QED BY <1>6, <1>7, <1>8, <1>9, <1>10, <1>11, <1>12, <1>13, <1>14, <1>15, <1>16
          DEF IInv, EventInv

\* A step that changes nothing.
LEMMA StutterInv ==
    ASSUME IInv, UNCHANGED vars
    PROVE  IInv'
  <1>1. /\ UNCHANGED <<loc, removing, registered, events, freeSocketEvents, timer>>
        /\ UNCHANGED <<transfer, users, open, watch, socketp, messages, opened, connected>>
        /\ UNCHANGED <<status, socketEvent, resolverSocket, dataSocket>>
    BY DEF vars, poolVars, curlVars, sessionVars
  <1>2. EventInv'
    <2>1. UNCHANGED EventVars
      BY <1>1 DEF EventVars, poolVars
    <2> QED BY <1>1, <2>1, EventKept DEF IInv
  <1>3. CurlType' /\ SessionType' /\ LoopType'
    BY <1>1 DEF IInv, CurlType, SessionType, LoopType
  <1>4. SessionInv'
    BY <1>1, Zenon DEF IInv, SessionInv, null
  <1>5. UserInv'
    BY <1>1 DEF IInv, UserInv, SocketInv
  <1>6. MessageInv'
    BY <1>1, MessagesKept
  <1>7. RoundInv'
    BY <1>1, Zenon DEF IInv, RoundInv, null
  <1> QED BY <1>2, <1>3, <1>4, <1>5, <1>6, <1>7 DEF IInv

\* The invariant holds in every state: whatever curl does between its callbacks.
THEOREM Inductive == Spec => []IInv
  <1>1. Init => IInv
    BY InitInv
  <1>2. IInv /\ [Next]_vars => IInv'
    <2>1. CASE Next
      BY <2>1, NextEvents, NextCurlType, NextSessionType, NextLoopType, NextSessionInv,
         NextUserInv, NextMessageInv, NextRoundInv DEF IInv
    <2> QED BY <2>1, StutterInv
  <1> QED BY <1>1, <1>2, PTL DEF Spec

\* TypeOK: every variable keeps its type, in particular each pointer to a socket
\* event is null or one of the pool's.
THEOREM TypeCorrect == Spec => []TypeOK
  <1>1. IInv => TypeOK
    BY TypeParts DEF IInv, EventInv
  <1> QED BY <1>1, Inductive, PTL

\* NoLostWakeup: what curl waits for, libevent waits for, and so it does for every
\* session that is ready.
THEOREM WakeupsKept == Spec => []NoLostWakeup
  <1>1. ASSUME IInv PROVE NoLostWakeup
    <2>1. ASSUME NEW s \in Sockets, watch[s] # {}
          PROVE  /\ socketp[s] # null
                 /\ events[socketp[s]] = [owner |-> Curl, socket |-> s, kinds |-> watch[s],
                                          added |-> TRUE]
      <3>1. socketp[s] # 0 /\ events[socketp[s]] = Polled(s, watch[s])
        BY <1>1, <2>1, Zenon DEF IInv, EventInv, PollInv, null
      <3> QED BY <3>1 DEF Polled, null
    <2>2. ASSUME NEW c \in Sessions, status[c] = "ready", removing # c
          PROVE  /\ socketEvent[c] # null
                 /\ events[socketEvent[c]].owner = c /\ events[socketEvent[c]].added
      <3>1. socketEvent[c] # 0
        BY <1>1, <2>2, Zenon DEF IInv, SessionInv, null
      <3> QED BY <1>1, <2>2, <3>1, Zenon DEF IInv, EventInv, SlotInv, null
    <2> QED BY <2>1, <2>2, Zenon DEF NoLostWakeup
  <1> QED BY <1>1, Inductive, PTL

-----------------------------------------------------------------------------
(* The events are counted.                                                 *)

\* The values of a function that gives none twice are as many as its arguments.
LEMMA ImageSize ==
    ASSUME NEW D, NEW T, IsFiniteSet(T), NEW f \in [D -> T],
           \A x, y \in D : f[x] = f[y] => x = y, \A y \in T : \E x \in D : f[x] = y
    PROVE  IsFiniteSet(D) /\ Cardinality(D) = Cardinality(T)
  <1>1. f \in Injection(D, T) /\ f \in Surjection(D, T)
    BY DEF Injection, IsInjective, Surjection
  <1> QED BY <1>1, FS_Injection

\* EventsConserved: every socket event is free, curl's for one socket, or one
\* session's, and all are free when the thread ends.
THEOREM EventsAccounted == Spec => []EventsConserved
  <1>1. ASSUME IInv PROVE EventsConserved
    <2> DEFINE N == Len(events)
               M == Len(freeSocketEvents)
               F == {freeSocketEvents[i] : i \in 1 .. M}
               fp == [s \in CurlEvents |-> socketp[s]]
               fs == [c \in SessionEvents |-> socketEvent[c]]
               P == {fp[s] : s \in CurlEvents}
               S == {fs[c] : c \in SessionEvents}
    <2>1. EventInv
      BY <1>1 DEF IInv
    <2>2. /\ freeSocketEvents \in Seq(1 .. N) /\ N \in Nat /\ M \in Nat
          /\ freeSocketEvents \in [1 .. M -> 1 .. N] /\ DOMAIN freeSocketEvents = 1 .. M
      BY <2>1, LenProperties DEF EventInv, PoolType, Node
    <2>3. /\ CurlEvents = {s \in Sockets : socketp[s] # 0}
          /\ SessionEvents = {c \in Sessions : socketEvent[c] # 0}
      BY DEF CurlEvents, SessionEvents, null
    <2>4. /\ fp \in [CurlEvents -> 1 .. N] /\ \A s, t \in CurlEvents : fp[s] = fp[t] => s = t
          /\ fs \in [SessionEvents -> 1 .. N] /\ \A c, d \in SessionEvents : fs[c] = fs[d] => c = d
      BY <2>1, <2>3, Apart
    <2>5. \A i, j \in 1 .. M : freeSocketEvents[i] = freeSocketEvents[j] => i = j
      BY <2>1 DEF EventInv, PoolInv, FreeOnce
    <2>6. /\ F \cap P = {} /\ F \cap S = {} /\ P \cap S = {}
      <3>1. /\ \A s \in CurlEvents : ~InFree(socketp[s])
            /\ \A c \in SessionEvents : ~InFree(socketEvent[c])
            /\ \A s \in CurlEvents, c \in SessionEvents : socketp[s] # socketEvent[c]
        BY <2>1, <2>3, Apart
      <3>2. \A n \in F : InFree(n)
        BY DEF InFree
      <3> QED BY <3>1, <3>2
    <2>7. 1 .. N = F \cup P \cup S
      <3>1. \A n \in 1 .. N : Owned(n)
        BY <2>1 DEF EventInv, PoolInv, Node
      <3>2. ASSUME NEW n \in 1 .. N PROVE n \in F \cup P \cup S
        <4>1. n # 0
          BY <2>2
        <4>2. CASE InFree(n)
          BY <4>2 DEF InFree
        <4>3. CASE \E s \in Sockets : socketp[s] = n
          <5>1. PICK s \in Sockets : socketp[s] = n
            BY <4>3
          <5>2. s \in CurlEvents /\ fp[s] = n
            BY <2>3, <4>1, <5>1
          <5> QED BY <5>2
        <4>4. CASE \E c \in Sessions : socketEvent[c] = n
          <5>1. PICK c \in Sessions : socketEvent[c] = n
            BY <4>4
          <5>2. c \in SessionEvents /\ fs[c] = n
            BY <2>3, <4>1, <5>1
          <5> QED BY <5>2
        <4> QED BY <3>1, <4>2, <4>3, <4>4 DEF Owned
      <3>3. F \subseteq 1 .. N
        BY <2>2
      <3>4. P \subseteq 1 .. N /\ S \subseteq 1 .. N
        BY <2>4
      <3> QED BY <3>2, <3>3, <3>4
    <2>8. IsFiniteSet(1 .. N) /\ Cardinality(1 .. N) = N
      <3> HIDE DEF N
      <3>1. 1 \in Int /\ N \in Int /\ (1 > N => N = 0)
        BY <2>2
      <3> QED BY <2>2, <3>1, FS_Interval
    <2>9. IsFiniteSet(1 .. M) /\ Cardinality(1 .. M) = M
      <3> HIDE DEF M
      <3>1. 1 \in Int /\ M \in Int /\ (1 > M => M = 0)
        BY <2>2
      <3> QED BY <2>2, <3>1, FS_Interval
    <2>10. IsFiniteSet(F) /\ Cardinality(F) = M
      <3>1. freeSocketEvents \in [1 .. M -> F] /\ \A n \in F : \E i \in 1 .. M : freeSocketEvents[i] = n
        BY <2>2
      <3>2. F \in SUBSET (1 .. N)
        BY <2>2
      <3> HIDE DEF F, N, M
      <3>3. IsFiniteSet(F)
        BY <2>8, <3>2, FS_Subset
      <3> QED BY <2>5, <2>9, <3>1, <3>3, ImageSize
    <2>11. /\ IsFiniteSet(P) /\ Cardinality(P) = Cardinality(CurlEvents)
           /\ IsFiniteSet(S) /\ Cardinality(S) = Cardinality(SessionEvents)
      <3>1. /\ fp \in [CurlEvents -> P] /\ \A n \in P : \E s \in CurlEvents : fp[s] = n
            /\ fs \in [SessionEvents -> S] /\ \A n \in S : \E c \in SessionEvents : fs[c] = n
        OBVIOUS
      <3>2. P \in SUBSET (1 .. N) /\ S \in SUBSET (1 .. N)
        BY <2>4
      <3> HIDE DEF fp, fs, P, S, N
      <3>3. IsFiniteSet(P) /\ IsFiniteSet(S)
        BY <2>8, <3>2, FS_Subset
      <3>4. Cardinality(P) = Cardinality(CurlEvents)
        BY <2>4, <3>1, <3>3, ImageSize
      <3>5. Cardinality(S) = Cardinality(SessionEvents)
        BY <2>4, <3>1, <3>3, ImageSize
      <3> QED BY <3>3, <3>4, <3>5
    <2> HIDE DEF F, P, S, fp, fs
    <2>12. Cardinality(F \cup P \cup S) = Cardinality(F) + Cardinality(P) + Cardinality(S)
      <3>1. /\ IsFiniteSet(F \cup P)
            /\ Cardinality(F \cup P) = Cardinality(F) + Cardinality(P) - Cardinality(F \cap P)
        BY <2>10, <2>11, FS_Union
      <3>2. Cardinality((F \cup P) \cup S)
                = Cardinality(F \cup P) + Cardinality(S) - Cardinality((F \cup P) \cap S)
        BY <2>11, <3>1, FS_Union
      <3>3. F \cap P = {} /\ (F \cup P) \cap S = {}
        BY <2>6
      <3>4. Cardinality(F \cap P) = 0 /\ Cardinality((F \cup P) \cap S) = 0
        BY <3>3, FS_EmptySet
      <3>5. Cardinality(F) \in Nat /\ Cardinality(P) \in Nat /\ Cardinality(S) \in Nat
        BY <2>10, <2>11, FS_CardinalityType
      <3>6. \A m, n \in Nat : m + n - 0 = m + n /\ m + n \in Nat
        OBVIOUS
      <3>7. Cardinality(F \cup P) = Cardinality(F) + Cardinality(P)
        <4>1. Cardinality(F) + Cardinality(P) - 0 = Cardinality(F) + Cardinality(P)
          BY <3>5, <3>6, Zenon
        <4> QED BY <3>1, <3>4, <4>1, Zenon
      <3>8. Cardinality((F \cup P) \cup S) = Cardinality(F \cup P) + Cardinality(S)
        <4>1. Cardinality(F \cup P) \in Nat
          BY <3>5, <3>6, <3>7, Zenon
        <4>2. Cardinality(F \cup P) + Cardinality(S) - 0 = Cardinality(F \cup P) + Cardinality(S)
          BY <3>5, <3>6, <4>1, Zenon
        <4> QED BY <3>2, <3>4, <4>2, Zenon
      <3> QED BY <3>7, <3>8, Zenon
    <2>13. M + Cardinality(CurlEvents) + Cardinality(SessionEvents) = N
      BY <2>7, <2>8, <2>10, <2>11, <2>12
    <2>14. Node = ToSet(freeSocketEvents) \cup {socketp[s] : s \in CurlEvents}
                                          \cup {socketEvent[c] : c \in SessionEvents}
      <3>1. ToSet(freeSocketEvents) = F
        BY <2>2 DEF ToSet, F
      <3>2. {socketp[s] : s \in CurlEvents} = P
        BY DEF P, fp
      <3>3. {socketEvent[c] : c \in SessionEvents} = S
        BY DEF S, fs
      <3> QED BY <2>7, <3>1, <3>2, <3>3 DEF Node
    <2>15. ASSUME loc = "ended" PROVE M = N
      <3>1. registered = {} /\ \A c \in Connections : transfer[c] = "none"
        BY <1>1, <2>15, Zenon DEF IInv, RoundInv
      <3>2. \A s \in Sockets : socketp[s] = 0
        <4>1. \A s \in Sockets : users[s] = {}
          BY <1>1, <3>1 DEF IInv, UserInv, SocketInv, CurlType
        <4>2. \A s \in Sockets : watch[s] = {}
          BY <1>1, <4>1 DEF IInv, UserInv, SocketInv
        <4> QED BY <2>1, <4>2, Zenon DEF EventInv, PollInv, null
      <3>3. \A c \in Sessions : socketEvent[c] = 0
        BY <1>1, <3>1 DEF IInv, SessionInv, null
      <3>4. CurlEvents = {} /\ SessionEvents = {}
        BY <2>3, <3>2, <3>3
      <3>5. Cardinality({}) = 0
        BY FS_EmptySet
      <3> HIDE DEF M, N
      <3> QED BY <2>2, <2>13, <3>4, <3>5
    <2> QED BY <2>13, <2>14, <2>15 DEF EventsConserved
  <1> QED BY <1>1, Inductive, PTL

-----------------------------------------------------------------------------
(* One address at a time: the socket of a session.                         *)

\* Reading a message, or adding one about another, makes no session succeed.
LEMMA SucceededKept ==
    ASSUME IInv, NEW d \in Sessions, status'[d] = "ready" => status[d] = "ready",
           \/ messages' = messages
           \/ messages # <<>> /\ messages' = Tail(messages)
           \/ \E m \in Message : /\ messages' = Append(messages, m)
                                 /\ m # [connection |-> d, ok |-> TRUE]
    PROVE  Succeeded(d)' => Succeeded(d)
  <1> SUFFICES ASSUME NEW i \in 1 .. Len(messages'),
                      messages'[i] = [connection |-> d, ok |-> TRUE]
               PROVE  \E j \in 1 .. Len(messages) : messages[j] = [connection |-> d, ok |-> TRUE]
    BY DEF Succeeded
  <1>1. CASE messages' = messages
    BY <1>1
  <1>2. CASE messages # <<>> /\ messages' = Tail(messages)
    <2>1. i + 1 \in 1 .. Len(messages) /\ messages'[i] = messages[i + 1]
      BY <1>2, TailMessages
    <2> QED BY <2>1
  <1>3. CASE \E m \in Message : /\ messages' = Append(messages, m)
                                /\ m # [connection |-> d, ok |-> TRUE]
    <2>1. PICK m \in Message : /\ messages' = Append(messages, m)
                               /\ m # [connection |-> d, ok |-> TRUE]
      BY <1>3
    <2>2. messages \in Seq(Message)
      BY DEF IInv, CurlType
    <2>3. /\ Len(messages') = Len(messages) + 1 /\ Len(messages) \in Nat
          /\ \A j \in 1 .. Len(messages) : messages'[j] = messages[j]
          /\ messages'[Len(messages) + 1] = m
      BY <2>1, <2>2, AppendProperties, LenProperties
    <2>4. i = Len(messages) + 1 \/ i \in 1 .. Len(messages)
      BY <2>3
    <2> QED BY <2>1, <2>3, <2>4
  <1> QED BY <1>1, <1>2, <1>3

\* A session that is none of a step's concern.
LEMMA OtherData ==
    ASSUME NEW d \in Sessions, DataInv(d),
           transfer'[d] = transfer[d], opened'[d] = opened[d], connected'[d] = connected[d],
           resolverSocket'[d] = resolverSocket[d], dataSocket'[d] = dataSocket[d],
           transfer[d] = "running" => SocketsOf(d)' \subseteq SocketsOf(d),
           Succeeded(d)' => Succeeded(d) /\ SocketsOf(d) \subseteq SocketsOf(d)'
    PROVE  DataInv(d)'
  <1> DEFINE ok == Succeeded(d)
             S == SocketsOf(d)
  <1>1. /\ transfer[d] = "running" => S \subseteq {dataSocket[d]}
        /\ transfer[d] = "none" => resolverSocket[d] = None /\ dataSocket[d] = None
        /\ opened[d] = 0 => resolverSocket[d] = None
        /\ opened[d] = 1 => resolverSocket[d] = dataSocket[d]
        /\ ok => connected[d] = dataSocket[d] /\ connected[d] \in S
    BY DEF DataInv
  <1>2. /\ transfer[d] = "running" => S' \subseteq S
        /\ ok' => ok /\ S \subseteq S'
    OBVIOUS
  <1> HIDE DEF ok, S
  <1>3. /\ transfer'[d] = "running" => S' \subseteq {dataSocket'[d]}
        /\ transfer'[d] = "none" => resolverSocket'[d] = None /\ dataSocket'[d] = None
        /\ opened'[d] = 0 => resolverSocket'[d] = None
        /\ opened'[d] = 1 => resolverSocket'[d] = dataSocket'[d]
        /\ ok' => connected'[d] = dataSocket'[d] /\ connected'[d] \in S'
    BY <1>1, <1>2
  <1> USE DEF ok, S
  <1> QED BY <1>3 DEF DataInv

\* A session that succeeded is done.
LEMMA SucceededDone ==
    ASSUME IInv, NEW c \in Sessions, Succeeded(c)
    PROVE  transfer[c] = "done"
  <1>1. CASE status[c] = "ready"
    BY <1>1 DEF IInv, SessionInv
  <1>2. CASE \E i \in 1 .. Len(messages) : messages[i] = [connection |-> c, ok |-> TRUE]
    <2>1. PICK i \in 1 .. Len(messages) : messages[i] = [connection |-> c, ok |-> TRUE]
      BY <1>2
    <2>2. messages[i].connection = c
      BY <2>1
    <2>3. transfer[messages[i].connection] = "done"
      BY Zenon DEF IInv, MessageInv
    <2> QED BY <2>2, <2>3
  <1> QED BY <1>1, <1>2 DEF Succeeded

\* A session opens a socket when it has none.
LEMMA PollData ==
    ASSUME IInv, ConnectedInv, Addresses = 1,
           NEW c \in Connections, NEW s \in Sockets, NEW kinds \in SUBSET Kinds,
           CurlPolls(c, s, kinds), NEW d \in Sessions
    PROVE  DataInv(d)'
  <1>1. /\ DataInv(d) /\ CurlType /\ SessionType /\ UserInv
        /\ users \in [Sockets -> SUBSET Connections]
        /\ SocketInv(s)
    BY DEF IInv, ConnectedInv, CurlType, UserInv
  <1>2. /\ transfer[c] = "running" /\ MayUse(c, s) /\ PollSocket(c, s, kinds)
        /\ open' = open \cup {s} /\ users' = [users EXCEPT ![s] = @ \cup {c}]
        /\ opened' = IF c \in Sessions /\ s \notin open THEN [opened EXCEPT ![c] = @ + 1] ELSE opened
        /\ UNCHANGED <<transfer, messages, connected, status, socketEvent>>
    BY DEF CurlPolls
  <1>3. users'[s] = users[s] \cup {c} /\ \A t \in Sockets : t # s => users'[t] = users[t]
    BY <1>1, <1>2
  <1>4. Succeeded(d)' <=> Succeeded(d)
    BY <1>2 DEF Succeeded
  <1>5. SocketsOf(d) \subseteq SocketsOf(d)'
    BY <1>1, <1>2, <1>3 DEF SocketsOf, CurlType
  <1>6. CASE d # c
    <2>1. SocketsOf(d)' \subseteq SocketsOf(d)
      <3>1. s \notin open => users[s] = {}
        BY <1>1 DEF SocketInv
      <3> QED BY <1>1, <1>2, <1>3, <1>6, <3>1 DEF SocketsOf, CurlType
    <2>2. opened'[d] = opened[d]
      BY <1>1, <1>2, <1>6 DEF SessionType
    <2>3. dataSocket'[d] = dataSocket[d] /\ resolverSocket'[d] = resolverSocket[d]
      <3>1. \/ UNCHANGED <<resolverSocket, dataSocket>>
            \/ /\ c \in Sessions /\ dataSocket' = [dataSocket EXCEPT ![c] = s]
               /\ \/ resolverSocket' = [resolverSocket EXCEPT ![c] = s]
                  \/ resolverSocket' = [resolverSocket EXCEPT ![c] = @]
        BY <1>2, Zenon DEF PollSocket, on_attach_socket
      <3> QED BY <1>1, <1>6, <3>1 DEF SessionType
    <2>4. /\ transfer[d] = "running" => SocketsOf(d)' \subseteq SocketsOf(d)
          /\ Succeeded(d)' => Succeeded(d) /\ SocketsOf(d) \subseteq SocketsOf(d)'
      BY <1>4, <1>5, <2>1
    <2>5. transfer'[d] = transfer[d] /\ connected'[d] = connected[d]
      BY <1>2
    <2> QED BY <1>1, <2>2, <2>3, <2>4, <2>5, OtherData
  <1>7. CASE d = c /\ s \in WatchedOf(c)
    <2>1. s \in open /\ c \in users[s] /\ watch[s] # {}
      BY <1>7 DEF WatchedOf, SocketsOf
    <2>2. socketp[s] # 0
      BY <2>1, Zenon DEF IInv, EventInv, PollInv, null
    <2>3. UNCHANGED <<resolverSocket, dataSocket, opened>>
      BY <1>2, <2>1, <2>2, Zenon DEF PollSocket, null
    <2>4. SocketsOf(d)' = SocketsOf(d)
      BY <1>1, <1>2, <1>3, <1>7, <2>1 DEF SocketsOf, CurlType
    <2>5. transfer'[d] = transfer[d] /\ connected'[d] = connected[d]
      BY <1>2
    <2> QED BY <1>1, <1>4, <2>3, <2>4, <2>5, OtherData
  <1>8. CASE d = c /\ s \notin WatchedOf(c)
    <2>1. /\ s \notin open /\ opened[c] <= 1 /\ Cardinality(SocketsOf(c)) < 1
          /\ opened' = [opened EXCEPT ![c] = @ + 1]
      BY <1>2, <1>8, ApartNames DEF MayUse
    <2>2. users[s] = {} /\ watch[s] = {}
      BY <1>1, <2>1 DEF SocketInv
    <2>3. socketp[s] = 0
      BY <2>2, Zenon DEF IInv, EventInv, PollInv, null
    <2>4. /\ resolverSocket' = [resolverSocket EXCEPT ![c] = IF @ = None THEN s ELSE @]
          /\ dataSocket' = [dataSocket EXCEPT ![c] = s]
      BY <1>2, <1>8, <2>3, Zenon DEF PollSocket, on_attach_socket, null
    <2>5. dataSocket'[c] = s /\ resolverSocket'[c] = IF resolverSocket[c] = None THEN s ELSE resolverSocket[c]
      BY <1>1, <1>8, <2>4 DEF SessionType
    <2>6. SocketsOf(c) = {}
      <3>1. SocketsOf(c) \in SUBSET open /\ IsFiniteSet(open)
        BY <1>1 DEF SocketsOf, UserInv
      <3>2. IsFiniteSet(SocketsOf(c))
        BY <3>1, FS_Subset
      <3>3. Cardinality(SocketsOf(c)) \in Nat /\ (Cardinality(SocketsOf(c)) = 0 <=> SocketsOf(c) = {})
        BY <3>2, FS_CardinalityType, FS_EmptySet
      <3>4. Cardinality(SocketsOf(c)) = 0
        BY <2>1, <3>3
      <3> QED BY <3>3, <3>4
    <2>7. SocketsOf(c)' \subseteq {s}
      BY <1>1, <1>2, <1>3, <2>6 DEF SocketsOf, CurlType
    <2>8. opened'[c] = opened[c] + 1 /\ opened[c] \in 0 .. Addresses + 1
      BY <1>1, <1>8, <2>1 DEF SessionType
    <2>9. opened'[c] # 0 /\ (opened'[c] = 1 => opened[c] = 0)
      BY <2>8, BoundsAssumption
    <2>10. opened[c] = 0 => resolverSocket[c] = None
      BY <1>1, <1>8 DEF DataInv
    <2>11. opened'[c] = 1 => resolverSocket'[c] = dataSocket'[c]
      BY <2>5, <2>9, <2>10
    <2>12. ~Succeeded(c)' /\ transfer'[c] = "running"
      <3>1. transfer[c] # "done"
        BY <1>2
      <3> QED BY <1>2, <1>4, <1>8, <3>1, SucceededDone
    <2>13. SocketsOf(c)' \subseteq {dataSocket'[c]} /\ transfer'[c] # "none"
      BY <2>5, <2>7, <2>12
    <2> QED BY <1>8, <2>9, <2>11, <2>12, <2>13 DEF DataInv
  <1> QED BY <1>6, <1>7, <1>8

\* A session that succeeds keeps the one socket it has.
LEMMA DoneData ==
    ASSUME IInv, ConnectedInv, NEW c \in Connections, NEW ok \in BOOLEAN, CurlDone(c, ok),
           NEW d \in Sessions
    PROVE  DataInv(d)'
  <1> DEFINE m == [connection |-> c, ok |-> ok]
  <1>1. DataInv(d) /\ CurlType /\ SessionType /\ UserInv
    BY DEF IInv, ConnectedInv
  <1>2. /\ transfer[c] = "running" /\ transfer'[c] = "done"
        /\ \A e \in Connections : e # c => transfer'[e] = transfer[e]
        /\ messages' = Append(messages, m) /\ m \in Message
        /\ UNCHANGED <<opened, status, resolverSocket, dataSocket>>
    BY <1>1, DoneFacts DEF Message
  <1>3. CASE d # c
    <2>1. PICK kept \in SUBSET Sockets : Detach(c, kept)
      BY <1>1 DEF CurlDone, SocketsOf, CurlType
    <2>2. /\ \A s \in Sockets : users'[s] = IF s \in kept THEN users[s] ELSE users[s] \ {c}
          /\ open' \subseteq open
          /\ \A s \in open : s \notin open' <=> c \in Sessions /\ c \in users[s] /\ s \notin kept
      BY <1>1, <2>1, DetachFacts
    <2>3. SocketsOf(d)' = SocketsOf(d)
      <3>1. \A s \in Sockets : d \in users'[s] <=> d \in users[s]
        BY <1>3, <2>2
      <3>2. \A s \in open : d \in users[s] => s \in open'
        <4>1. \A s \in open : c \in Sessions /\ c \in users[s] => users[s] = {c}
          BY <1>1 DEF UserInv, SocketInv, CurlType
        <4> QED BY <1>3, <2>2, <4>1
      <3> QED BY <1>1, <2>2, <3>1, <3>2 DEF SocketsOf, CurlType
    <2>4. m # [connection |-> d, ok |-> TRUE]
      <3>1. m.connection = c /\ [connection |-> d, ok |-> TRUE].connection = d
        OBVIOUS
      <3> QED BY <1>3, <3>1
    <2>5. Succeeded(d)' => Succeeded(d)
      BY <1>2, <2>4, SucceededKept
    <2>6. connected'[d] = connected[d]
      BY <1>1, <1>3 DEF CurlDone, SessionType
    <2>7. transfer'[d] = transfer[d]
      BY <1>2, <1>3, ApartNames
    <2> QED BY <1>1, <1>2, <2>3, <2>5, <2>6, <2>7, OtherData
  <1>4. CASE d = c
    <2>1. ~Succeeded(c)
      BY <1>2, <1>4, SucceededDone
    <2>2. CASE ok = FALSE
      <3>1. m # [connection |-> d, ok |-> TRUE]
        <4>1. m.ok = FALSE /\ [connection |-> d, ok |-> TRUE].ok = TRUE
          BY <2>2
        <4> QED BY <4>1
      <3>2. ~Succeeded(c)'
        BY <1>2, <1>4, <2>1, <3>1, SucceededKept
      <3> QED BY <1>1, <1>2, <1>4, <3>2 DEF DataInv
    <2>3. CASE ok = TRUE
      <3>1. PICK s \in SocketsOf(c) : connected' = [connected EXCEPT ![c] = s] /\ Detach(c, {s})
        BY <1>4, <2>3 DEF CurlDone
      <3>2. s \in open /\ s \in Sockets /\ c \in users[s]
        BY <1>1, <3>1 DEF SocketsOf, CurlType
      <3>3. connected'[c] = s
        BY <1>1, <1>4, <3>1 DEF SessionType
      <3>4. s = dataSocket[c]
        BY <1>1, <1>2, <1>4, <3>1 DEF DataInv
      <3>5. s \in SocketsOf(c)'
        <4>1. {s} \in SUBSET Sockets /\ s \in {s}
          BY <3>2
        <4>2. users'[s] = users[s] /\ s \in open'
          BY <1>1, <3>1, <3>2, <4>1, DetachFacts
        <4> QED BY <3>2, <4>2 DEF SocketsOf
      <3>6. dataSocket'[c] = dataSocket[c]
        BY <1>2
      <3> QED BY <1>1, <1>2, <1>4, <3>3, <3>4, <3>5, <3>6 DEF DataInv
    <2> QED BY <2>2, <2>3
  <1> QED BY <1>3, <1>4

\* A session that is gone has no socket.
LEMMA GoneData ==
    ASSUME IInv, ConnectedInv, NEW c \in Sessions, SessionGone(c), NEW d \in Sessions
    PROVE  DataInv(d)'
  <1>1. DataInv(d) /\ CurlType /\ SessionType /\ UserInv
    BY DEF IInv, ConnectedInv
  <1>2. /\ HandleGone(c) /\ opened' = opened
        /\ messages # <<>> => messages' = Tail(messages) /\ Head(messages).connection = c
        /\ messages = <<>> => messages' = <<>>
    BY SessionGoneFacts
  <1>3. /\ open' \subseteq open /\ \A s \in Sockets : users'[s] = users[s] \ {c}
        /\ \A s \in open : s \notin open' <=> c \in users[s]
        /\ transfer'[c] = "none" /\ \A e \in Connections : e # c => transfer'[e] = transfer[e]
        /\ status'[c] = "inactive" /\ \A e \in Sessions : e # c => status'[e] = status[e]
        /\ \A e \in Sessions : e # c => connected'[e] = connected[e]
        /\ resolverSocket'[c] = None
        /\ \A e \in Sessions : e # c => resolverSocket'[e] = resolverSocket[e]
        /\ dataSocket'[c] = None
        /\ \A e \in Sessions : e # c => dataSocket'[e] = dataSocket[e]
    BY <1>1, <1>2, GoneFacts
  <1>4. \/ messages' = messages
        \/ messages # <<>> /\ messages' = Tail(messages)
    BY <1>2
  <1>5. CASE d # c
    <2>1. SocketsOf(d)' = SocketsOf(d)
      <3>1. \A s \in Sockets : d \in users'[s] <=> d \in users[s]
        BY <1>3, <1>5
      <3>2. \A s \in open : d \in users[s] => s \in open'
        <4>1. \A s \in open : c \in users[s] => users[s] = {c}
          BY <1>1 DEF UserInv, SocketInv, CurlType
        <4> QED BY <1>3, <1>5, <4>1
      <3> QED BY <1>1, <1>3, <3>1, <3>2 DEF SocketsOf, CurlType
    <2>2. status'[d] = "ready" => status[d] = "ready"
      BY <1>3, <1>5
    <2>3. Succeeded(d)' => Succeeded(d)
      BY <1>4, <2>2, SucceededKept
    <2>4. /\ transfer'[d] = transfer[d] /\ connected'[d] = connected[d]
          /\ resolverSocket'[d] = resolverSocket[d] /\ dataSocket'[d] = dataSocket[d]
      BY <1>3, <1>5, ApartNames
    <2> QED BY <1>1, <1>2, <2>1, <2>3, <2>4, OtherData
  <1>6. CASE d = c
    <2>1. ~Succeeded(c)'
      <3>1. SUFFICES \A i \in 1 .. Len(messages') : messages'[i] # [connection |-> c, ok |-> TRUE]
        BY <1>3 DEF Succeeded
      <3>2. MessageInv'
        <4>1. Next
          BY Zenon DEF SessionGone, Next
        <4> QED BY <4>1, NextMessageInv
      <3>3. \A i \in 1 .. Len(messages') : transfer'[messages'[i].connection] = "done"
        BY <3>2, Zenon DEF MessageInv
      <3> QED BY <1>3, <3>3
    <2> QED BY <1>3, <1>6, <2>1 DEF DataInv
  <1> QED BY <1>5, <1>6

\* One address at a time: the socket attached last is the one a session uses.
LEMMA NextData ==
    ASSUME IInv, ConnectedInv, Addresses = 1, Next, NEW d \in Sessions
    PROVE  DataInv(d)'
  <1>1. DataInv(d) /\ CurlType /\ SessionType /\ UserInv /\ LoopType
    BY DEF IInv, ConnectedInv
  <1>2. ASSUME NEW c \in Connections, NEW s \in Sockets, NEW kinds \in SUBSET Kinds,
               CurlPolls(c, s, kinds)
        PROVE  DataInv(d)'
    BY <1>2, PollData
  <1>3. ASSUME NEW c \in Connections, NEW ok \in BOOLEAN, CurlDone(c, ok)
        PROVE  DataInv(d)'
    BY <1>3, DoneData
  <1>4. ASSUME NEW c \in Sessions, SessionGone(c)
        PROVE  DataInv(d)'
    BY <1>4, GoneData
  <1>5. ASSUME NEW t \in Sockets, CurlRemoves(t)
        PROVE  DataInv(d)'
    <2>1. /\ watch[t] # {}
          /\ \/ open' = open /\ users' = users
             \/ open' = open \ {t} /\ users' = [users EXCEPT ![t] = {}]
          /\ UNCHANGED <<transfer, messages, opened, connected, status, resolverSocket, dataSocket>>
      BY <1>5 DEF CurlRemoves, sessionVars
    <2>2. users \in [Sockets -> SUBSET Connections] /\ SocketInv(t)
      BY <1>1 DEF CurlType, UserInv
    <2>3. SocketsOf(d)' \subseteq SocketsOf(d)
      BY <1>1, <2>1, <2>2 DEF SocketsOf, CurlType
    <2>4. Succeeded(d)' => Succeeded(d)
      BY <2>1 DEF Succeeded
    <2>5. ASSUME Succeeded(d) PROVE SocketsOf(d) \subseteq SocketsOf(d)'
      <3>1. transfer[d] = "done"
        BY <2>5, SucceededDone
      <3>2. d \notin users[t]
        BY <2>1, <2>2, <3>1 DEF SocketInv
      <3> QED BY <1>1, <2>1, <2>2, <3>2 DEF SocketsOf, CurlType
    <2> QED BY <1>1, <2>1, <2>3, <2>4, <2>5, OtherData
  <1>6. ASSUME UNCHANGED <<opened, connected, resolverSocket, dataSocket, users, open>>,
               transfer'[d] = transfer[d], Succeeded(d)' => Succeeded(d)
        PROVE  DataInv(d)'
    <2>1. SocketsOf(d)' = SocketsOf(d)
      BY <1>6 DEF SocketsOf
    <2> QED BY <1>1, <1>6, <2>1, OtherData
  <1>7. ASSUME NEW c \in Transfers, TransferDone(c)
        PROVE  DataInv(d)'
    <2>1. /\ UNCHANGED <<opened, connected, resolverSocket, dataSocket, users, open, status>>
          /\ messages # <<>> /\ messages' = Tail(messages)
          /\ transfer' = [transfer EXCEPT ![c] = "none"]
      BY <1>7 DEF TransferDone, sessionVars
    <2>2. transfer'[d] = transfer[d]
      BY <1>1, <2>1, ApartNames DEF CurlType
    <2>3. Succeeded(d)' => Succeeded(d)
      BY <2>1, SucceededKept
    <2> QED BY <1>6, <2>1, <2>2, <2>3
  <1>8. ASSUME NEW c \in Sessions, NEW kinds \in SUBSET {"WRITE"}, SessionReady(c, kinds)
        PROVE  DataInv(d)'
    <2>1. /\ messages # <<>> /\ messages' = Tail(messages)
          /\ Head(messages) = [connection |-> c, ok |-> TRUE]
          /\ status'[c] = "ready" /\ \A e \in Sessions : e # c => status'[e] = status[e]
          /\ UNCHANGED <<opened, connected, resolverSocket, dataSocket, users, open, transfer>>
      BY <1>8, ReadyFacts
    <2>2. CASE d # c
      <3>1. Succeeded(d)' => Succeeded(d)
        BY <2>1, <2>2, SucceededKept
      <3> QED BY <1>6, <2>1, <3>1
    <2>3. CASE d = c
      <3>1. messages[1] = [connection |-> d, ok |-> TRUE] /\ 1 \in 1 .. Len(messages)
        BY <2>1, <2>3, FirstMessage
      <3>2. Succeeded(d)
        BY <3>1 DEF Succeeded
      <3> QED BY <1>6, <2>1, <3>2
    <2> QED BY <2>2, <2>3
  <1>9. ASSUME NEW c \in Sessions, RegisterRefused(c) \/ unregister_handle(c)
        PROVE  DataInv(d)'
    <2>1. /\ messages' = messages
          /\ status'[d] = "ready" => status[d] = "ready"
          /\ UNCHANGED <<opened, connected, resolverSocket, dataSocket, users, open, transfer>>
      <3>1. CASE RegisterRefused(c)
        <4>1. /\ status'[c] = "inactive" /\ \A e \in Sessions : e # c => status'[e] = status[e]
              /\ UNCHANGED <<transfer, users, open, messages, opened, connected, resolverSocket, dataSocket>>
          BY <3>1, RefusedFacts
        <4> QED BY <4>1
      <3>2. CASE unregister_handle(c)
        BY <3>2 DEF unregister_handle, curlVars
      <3> QED BY <1>9, <3>1, <3>2
    <2>2. Succeeded(d)' => Succeeded(d)
      BY <2>1, SucceededKept
    <2> QED BY <1>6, <2>1, <2>2
  <1>10. ASSUME NEW c \in Connections, AddHandle(c)
         PROVE  DataInv(d)'
    <2>1. /\ loc = "tasks" /\ transfer[c] = "none" /\ transfer'[c] = "running"
          /\ \A e \in Connections : e # c => transfer'[e] = transfer[e]
          /\ c \in Sessions => status'[c] = "initializing"
          /\ \A e \in Sessions : e # c => status'[e] = status[e]
          /\ UNCHANGED <<users, open, messages, connected, resolverSocket, dataSocket>>
      BY <1>1, <1>10, AddFacts
    <2>2. status'[d] = "ready" => status[d] = "ready"
      BY <2>1
    <2>3. Succeeded(d)' => Succeeded(d)
      BY <2>1, <2>2, SucceededKept
    <2>4. SocketsOf(d)' = SocketsOf(d)
      BY <2>1 DEF SocketsOf
    <2>5. CASE d # c
      <3>1. transfer'[d] = transfer[d] /\ opened'[d] = opened[d]
        BY <1>1, <1>10, <2>1, <2>5, ApartNames DEF AddHandle, SessionType
      <3> QED BY <1>1, <2>1, <2>3, <2>4, <3>1, OtherData
    <2>6. CASE d = c
      <3>1. ~Succeeded(d)'
        <4>1. transfer[d] # "done"
          BY <2>1, <2>6
        <4> QED BY <2>3, <4>1, SucceededDone
      <3>2. SocketsOf(d)' = {}
        BY <1>1, <2>1, <2>4, <2>6 DEF SocketsOf, UserInv, SocketInv, CurlType
      <3>3. /\ resolverSocket'[d] = None /\ dataSocket'[d] = None /\ transfer'[d] = "running"
        BY <1>1, <2>1, <2>6 DEF DataInv
      <3> QED BY <3>1, <3>2, <3>3 DEF DataInv
    <2> QED BY <2>5, <2>6
  <1>11. CASE free_event_context
    <2>1. /\ \A c \in Connections : transfer[c] = "none"
          /\ UNCHANGED <<transfer, messages, opened, connected, status, resolverSocket, dataSocket>>
      BY <1>11 DEF free_event_context, sessionVars
    <2>2. transfer[d] = "none"
      BY <2>1, ApartNames
    <2>3. Succeeded(d)' => Succeeded(d)
      BY <2>1 DEF Succeeded
    <2>4. ~Succeeded(d)
      BY <2>2, SucceededDone
    <2> QED BY <1>1, <2>1, <2>2, <2>3, <2>4, OtherData
  <1>12. CASE \/ CurlTimer \/ CurlReturns \/ TimerFires \/ SocketFires \/ DataDone
              \/ HandleTasks \/ HandleEvents \/ Terminated
              \/ \E c \in Sessions, kinds \in SUBSET {"WRITE"} : ArmSession(c, kinds)
    <2>1. UNCHANGED <<curlVars, sessionVars>> \/ \E c \in Sessions, kinds \in SUBSET {"WRITE"} : ArmSession(c, kinds)
      BY <1>12 DEF CurlTimer, CurlReturns, TimerFires, SocketFires, DataDone, HandleTasks,
                   HandleEvents, Terminated, vars
    <2>2. UNCHANGED <<opened, connected, resolverSocket, dataSocket, users, open, transfer, messages, status>>
      BY <2>1 DEF ArmSession, curlVars, sessionVars
    <2>3. Succeeded(d)' => Succeeded(d)
      BY <2>2 DEF Succeeded
    <2> QED BY <1>6, <2>2, <2>3
  <1>13. CASE HandleRemoved
    BY <1>4, <1>13, RemovedSession
  <1>14. ASSUME NEW c \in Sessions, SessionRefused(c) \/ SessionFails(c)
         PROVE  DataInv(d)'
    BY <1>4, <1>14 DEF SessionGone
  <1> QED BY <1>2, <1>3, <1>5, <1>7, <1>8, <1>9, <1>10, <1>11, <1>12, <1>13, <1>14, Zenon DEF Next

\* The event of a session is none of those acquired or given back for others.
LEMMA AcquireKeeps ==
    ASSUME EventInv, NEW e \in Event, acquire_socket_event(e), NEW d \in Sessions, socketEvent[d] # 0
    PROVE  events'[socketEvent[d]] = events[socketEvent[d]]
  <1>1. /\ \A n \in 1 .. Len(events) : n # acquired => events'[n] = events[n]
        /\ acquired \in 1 .. Len(events) => events[acquired] = Blank
    BY AcquireFacts DEF EventInv, PoolInv
  <1>2. socketEvent[d] \in 1 .. Len(events) /\ events[socketEvent[d]].owner = d
    BY Apart, Owners
  <1>3. Blank.owner = None /\ d # None
    BY ApartNames DEF Blank
  <1>4. socketEvent[d] # acquired
    BY <1>1, <1>2, <1>3
  <1> QED BY <1>1, <1>2, <1>4
\* Releasing one event leaves another session's event as it was.
LEMMA ReleaseKeeps ==
    ASSUME EventInv, NEW n \in 1 .. Len(events), ~InFree(n), release_socket_event(n),
           NEW d \in Sessions, socketEvent[d] # 0, socketEvent[d] # n
    PROVE  events'[socketEvent[d]] = events[socketEvent[d]]
  <1>1. \A m \in 1 .. Len(events) : m # n => events'[m] = events[m]
    BY ReleaseFacts DEF EventInv, PoolInv
  <1>2. socketEvent[d] \in 1 .. Len(events)
    BY Apart
  <1> QED BY <1>1, <1>2
\* Assigning one event leaves another session's event as it was.
LEMMA AssignKeeps ==
    ASSUME EventInv, NEW n \in 1 .. Len(events), NEW e, events' = [events EXCEPT ![n] = e],
           NEW d \in Sessions, socketEvent[d] # 0, socketEvent[d] # n
    PROVE  events'[socketEvent[d]] = events[socketEvent[d]]
  <1>1. socketEvent[d] \in 1 .. Len(events) /\ events \in Seq(Event)
    BY Apart DEF EventInv, PoolType
  <1>2. DOMAIN events = 1 .. Len(events)
    BY <1>1, LenProperties
  <1> QED BY <1>1, <1>2

\* The event of a session that is ready is for the socket curl connected.
LEMMA NextSlot ==
    ASSUME IInv, ConnectedInv, Next, NEW d \in Sessions
    PROVE  SlotSocket(d)'
  <1>1. EventInv /\ CurlType /\ SessionType /\ LoopType
    BY DEF IInv
  <1>2. /\ socketEvent[d] # 0 /\ status[d] = "ready" => events[socketEvent[d]].socket = connected[d]
        /\ status[d] = "ready" => connected[d] = dataSocket[d] /\ transfer[d] = "done"
    BY SucceededDone DEF ConnectedInv, SlotSocket, DataInv, Succeeded, null
  <1>3. SUFFICES ASSUME socketEvent'[d] # 0, status'[d] = "ready"
                 PROVE  events'[socketEvent'[d]].socket = connected'[d]
    BY DEF SlotSocket, null
  <1> DEFINE Q == events'[socketEvent'[d]].socket = connected'[d]
  <1>4. ASSUME socketEvent'[d] = socketEvent[d], status[d] = "ready", connected'[d] = connected[d],
               socketEvent[d] # 0 => events'[socketEvent[d]] = events[socketEvent[d]]
        PROVE  Q
    BY <1>2, <1>3, <1>4
  <1>5. ASSUME NEW c \in Connections, NEW s \in Sockets, NEW kinds \in SUBSET Kinds,
               CurlPolls(c, s, kinds)
        PROVE  Q
    <2>1. PollSocket(c, s, kinds) /\ UNCHANGED <<socketEvent, status, connected>>
      BY <1>5 DEF CurlPolls
    <2>2. CASE socketp[s] = 0
      <3>1. Polled(s, kinds) \in Event /\ acquire_socket_event(Polled(s, kinds))
        BY <2>1, <2>2 DEF Polled, Event, PollSocket, null
      <3>2. socketEvent[d] # 0 => events'[socketEvent[d]] = events[socketEvent[d]]
        BY <1>1, <3>1, AcquireKeeps
      <3> QED BY <1>3, <1>4, <2>1, <3>2
    <2>3. CASE socketp[s] # 0
      <3>1. events' = [events EXCEPT ![socketp[s]] = Polled(s, kinds)]
        BY <2>1, <2>3 DEF PollSocket, null
      <3>2. socketp[s] \in 1 .. Len(events) /\ socketEvent[d] # socketp[s]
        BY <1>1, <2>3, Apart
      <3>3. socketEvent[d] # 0 => events'[socketEvent[d]] = events[socketEvent[d]]
        BY <1>1, <3>1, <3>2, AssignKeeps
      <3> QED BY <1>3, <1>4, <2>1, <3>3
    <2> QED BY <2>2, <2>3
  <1>6. ASSUME NEW s \in Sockets, CurlRemoves(s)
        PROVE  Q
    <2>1. /\ watch[s] # {} /\ release_socket_event(socketp[s])
          /\ UNCHANGED <<socketEvent, status, connected>>
      BY <1>6 DEF CurlRemoves, RemoveSocket, sessionVars
    <2>2. socketp[s] # 0
      BY <1>1, <2>1, Zenon DEF EventInv, PollInv, null
    <2>3. socketp[s] \in 1 .. Len(events) /\ socketEvent[d] # socketp[s] /\ ~InFree(socketp[s])
      BY <1>1, <2>2, Apart
    <2>4. socketEvent[d] # 0 => events'[socketEvent[d]] = events[socketEvent[d]]
      BY <1>1, <2>1, <2>3, ReleaseKeeps
    <2> QED BY <1>3, <1>4, <2>1, <2>4
  <1>7. ASSUME NEW c \in Connections, NEW ok \in BOOLEAN, CurlDone(c, ok)
        PROVE  Q
    <2>1. /\ transfer[c] = "running" /\ UNCHANGED <<events, socketEvent, status>>
          /\ \A e \in Sessions : e # c => connected'[e] = connected[e]
      BY <1>1, <1>7 DEF CurlDone, sessionVars, poolVars, SessionType
    <2>2. d # c
      BY <1>2, <1>3, <2>1
    <2> QED BY <1>3, <1>4, <2>1, <2>2
  <1>8. ASSUME NEW c \in Sessions, SessionGone(c)
        PROVE  Q
    <2>1. /\ status'[c] = "inactive" /\ \A e \in Sessions : e # c => status'[e] = status[e]
          /\ \A e \in Sessions : e # c => connected'[e] = connected[e]
          /\ socketEvent' = socketEvent
      BY <1>1, <1>8, SessionGoneFacts, GoneFacts
    <2>2. d # c /\ status[d] = "ready" /\ connected'[d] = connected[d]
      BY <1>3, <2>1
    <2>3. socketEvent[d] # 0 => events'[socketEvent[d]] = events[socketEvent[d]]
      <3>1. CASE SessionRefused(c) \/ HandleRemoved
        BY <3>1 DEF SessionRefused, HandleRemoved, poolVars
      <3>2. CASE SessionFails(c)
        <4>1. /\ loc = "events" /\ status[c] = "ready"
              /\ events' = [events EXCEPT ![socketEvent[c]].added = FALSE]
          BY <3>2 DEF SessionFails
        <4>2. socketEvent[c] # 0
          BY <4>1, NoneRemoved DEF IInv, SessionInv, null
        <4>3. /\ socketEvent[c] \in 1 .. Len(events)
              /\ socketEvent[d] # 0 => socketEvent[d] # socketEvent[c]
          BY <1>1, <2>2, <4>2, Apart
        <4> DEFINE e == [events[socketEvent[c]] EXCEPT !.added = FALSE]
        <4>4. events' = [events EXCEPT ![socketEvent[c]] = e]
          BY <4>1
        <4> HIDE DEF e
        <4> QED BY <1>1, <4>3, <4>4, AssignKeeps
      <3> QED BY <1>8, <3>1, <3>2 DEF SessionGone
    <2> QED BY <1>4, <2>1, <2>2, <2>3
  <1>9. ASSUME NEW c \in Sessions, NEW kinds \in SUBSET {"WRITE"}
        PROVE  SessionEvent(c, kinds) \in Event /\ SessionEvent(c, kinds).socket = dataSocket[c]
    <2>1. dataSocket[c] \in Sockets \cup {None} /\ {"READ"} \cup kinds \in SUBSET Kinds
      BY <1>1 DEF SessionType, Kinds
    <2> QED BY <2>1 DEF SessionEvent, Event, Connections
  <1>10. ASSUME NEW c \in Sessions, NEW kinds \in SUBSET {"WRITE"}, SessionReady(c, kinds)
         PROVE  Q
    <2>1. /\ messages # <<>> /\ Head(messages) = [connection |-> c, ok |-> TRUE]
          /\ \A e \in Sessions : e # c => status'[e] = status[e] /\ socketEvent'[e] = socketEvent[e]
          /\ connected' = connected
      BY <1>10, ReadyFacts
    <2>2. /\ acquire_socket_event(SessionEvent(c, kinds))
          /\ socketEvent' = [socketEvent EXCEPT ![c] = acquired]
      BY <1>10 DEF SessionReady
    <2>3. CASE d # c
      <3>1. socketEvent[d] # 0 => events'[socketEvent[d]] = events[socketEvent[d]]
        BY <1>1, <1>9, <2>2, AcquireKeeps
      <3> QED BY <1>3, <1>4, <2>1, <2>3, <3>1
    <2>4. CASE d = c
      <3>1. events'[acquired] = SessionEvent(c, kinds)
        BY <1>1, <1>9, <2>2, AcquireFacts DEF EventInv, PoolInv
      <3>2. socketEvent'[d] = acquired
        BY <1>1, <2>2, <2>4 DEF EventInv, PointerType
      <3>3. messages[1] = [connection |-> d, ok |-> TRUE] /\ 1 \in 1 .. Len(messages)
        BY <2>1, <2>4, FirstMessage
      <3>4. Succeeded(d)
        BY <3>3 DEF Succeeded
      <3>5. connected[d] = dataSocket[d]
        BY <3>4 DEF ConnectedInv, DataInv
      <3> QED BY <1>9, <2>1, <2>4, <3>1, <3>2, <3>5
    <2> QED BY <2>3, <2>4
  <1>11. ASSUME NEW c \in Sessions, NEW kinds \in SUBSET {"WRITE"}, ArmSession(c, kinds)
         PROVE  Q
    <2>1. /\ loc # "curl" /\ status[c] = "ready"
          /\ events' = [events EXCEPT ![socketEvent[c]] = SessionEvent(c, kinds)]
          /\ UNCHANGED <<socketEvent, status, connected>>
      BY <1>11 DEF ArmSession, curlVars, sessionVars
    <2>2. socketEvent[c] # 0
      BY <2>1, NoneRemoved DEF IInv, SessionInv, null
    <2>3. socketEvent[c] \in 1 .. Len(events) /\ events \in Seq(Event)
      BY <1>1, <2>2, Apart DEF EventInv, PoolType
    <2>4. CASE d # c
      <3>1. socketEvent[d] # 0 => socketEvent[d] # socketEvent[c]
        BY <1>1, <2>2, <2>4, Apart
      <3>2. socketEvent[d] # 0 => events'[socketEvent[d]] = events[socketEvent[d]]
        BY <1>1, <2>1, <2>3, <3>1, AssignKeeps
      <3> QED BY <1>3, <1>4, <2>1, <3>2
    <2>5. CASE d = c
      <3>1. DOMAIN events = 1 .. Len(events)
        BY <2>3, LenProperties
      <3>2. events'[socketEvent[d]] = SessionEvent(c, kinds)
        BY <2>1, <2>3, <2>5, <3>1
      <3> QED BY <1>2, <1>3, <1>9, <2>1, <2>5, <3>2
    <2> QED BY <2>4, <2>5
  <1>12. ASSUME NEW c \in Sessions, unregister_handle(c)
         PROVE  Q
    <2>1. /\ socketEvent'[c] = 0 /\ \A e \in Sessions : e # c => socketEvent'[e] = socketEvent[e]
          /\ UNCHANGED <<status, connected>>
      BY <1>12, UnregisterFacts
    <2>2. d # c /\ socketEvent'[d] = socketEvent[d] /\ socketEvent[d] # 0
      BY <1>3, <2>1
    <2>3. events'[socketEvent[d]] = events[socketEvent[d]]
      <3>1. CASE socketEvent[c] = 0
        BY <1>12, <3>1 DEF unregister_handle, ReleaseSessionEvent, null, poolVars
      <3>2. CASE socketEvent[c] # 0
        <4>1. release_socket_event(socketEvent[c])
          BY <1>12, <3>2 DEF unregister_handle, ReleaseSessionEvent, null
        <4>2. /\ socketEvent[c] \in 1 .. Len(events) /\ ~InFree(socketEvent[c])
              /\ socketEvent[d] # socketEvent[c]
          BY <1>1, <2>2, <3>2, Apart
        <4> QED BY <1>1, <2>2, <4>1, <4>2, ReleaseKeeps
      <3> QED BY <3>1, <3>2
    <2> QED BY <1>3, <1>4, <2>1, <2>2, <2>3
  <1>13. ASSUME NEW c \in Sessions, RegisterRefused(c)
         PROVE  Q
    <2>1. /\ events' = events /\ socketEvent' = socketEvent /\ connected' = connected
          /\ status'[c] = "inactive" /\ \A e \in Sessions : e # c => status'[e] = status[e]
      BY <1>13, RefusedFacts DEF RegisterRefused, poolVars
    <2> QED BY <1>3, <1>4, <2>1
  <1>14. ASSUME NEW c \in Connections, AddHandle(c)
         PROVE  Q
    <2>1. /\ events' = events /\ socketEvent' = socketEvent /\ connected' = connected
          /\ c \in Sessions => status'[c] = "initializing"
          /\ \A e \in Sessions : e # c => status'[e] = status[e]
      BY <1>1, <1>14, AddFacts DEF poolVars
    <2> QED BY <1>3, <1>4, <2>1
  <1>15. CASE \/ CurlTimer \/ CurlReturns \/ TimerFires \/ SocketFires \/ DataDone
              \/ HandleTasks \/ HandleEvents \/ free_event_context \/ Terminated
              \/ \E c \in Transfers : TransferDone(c)
    <2>1. UNCHANGED <<events, socketEvent, status, connected>>
      <3>1. CASE CurlTimer \/ CurlReturns \/ TimerFires \/ SocketFires \/ DataDone
                 \/ HandleTasks \/ HandleEvents \/ free_event_context
        BY <3>1 DEF CurlTimer, CurlReturns, TimerFires, SocketFires, DataDone, HandleTasks,
                    HandleEvents, free_event_context, poolVars, curlVars, sessionVars
      <3>2. CASE Terminated
        BY <3>2 DEF Terminated, vars, poolVars, curlVars, sessionVars
      <3>3. CASE \E c \in Transfers : TransferDone(c)
        BY <3>3 DEF TransferDone, poolVars, sessionVars
      <3> QED BY <1>15, <3>1, <3>2, <3>3, Zenon
    <2> QED BY <1>3, <1>4, <2>1
  <1>16. ASSUME NEW c \in Sessions, SessionRefused(c) \/ SessionFails(c)
         PROVE  Q
    BY <1>8, <1>16 DEF SessionGone
  <1>17. CASE HandleRemoved
    BY <1>8, <1>17, RemovedSession
  <1> QED BY <1>5, <1>6, <1>7, <1>10, <1>11, <1>12, <1>13, <1>14, <1>15, <1>16, <1>17, Zenon DEF Next

\* ConnectedInv holds in every state, as long as curl tries one address at a time.
THEOREM ConnectedInductive ==
    ASSUME Addresses = 1
    PROVE  Spec => []ConnectedInv
  <1>1. Init => ConnectedInv
    <2> SUFFICES ASSUME Init, NEW c \in Sessions PROVE DataInv(c) /\ SlotSocket(c)
      BY DEF ConnectedInv
    <2>1. /\ transfer = [d \in Connections |-> "none"] /\ open = {} /\ messages = <<>>
          /\ resolverSocket[c] = None /\ dataSocket[c] = None
          /\ status[c] = "initializing" /\ socketEvent[c] = null
      BY DEF Init
    <2>2. transfer[c] = "none"
      BY <2>1, ApartNames
    <2>3. ~Succeeded(c)
      <3>1. 1 .. Len(messages) = {}
        BY <2>1, EmptySeq
      <3> QED BY <2>1, <3>1 DEF Succeeded
    <2> QED BY <2>1, <2>2, <2>3 DEF DataInv, SlotSocket
  <1>2. IInv /\ ConnectedInv /\ [Next]_vars => ConnectedInv'
    <2> SUFFICES ASSUME IInv, ConnectedInv, [Next]_vars, NEW c \in Sessions
                 PROVE  DataInv(c)' /\ SlotSocket(c)'
      BY DEF ConnectedInv
    <2>1. CASE Next
      BY <2>1, NextData, NextSlot
    <2>2. CASE UNCHANGED vars
      <3>1. DataInv(c) /\ SlotSocket(c)
        BY DEF ConnectedInv
      <3> QED BY <2>2, <3>1, Zenon
          DEF vars, poolVars, curlVars, sessionVars, DataInv, SlotSocket, SocketsOf, Succeeded
    <2> QED BY <2>1, <2>2
  <1> QED BY <1>1, <1>2, Inductive, PTL DEF Spec

\* NoStaleEvent: libevent never waits for a socket that is closed or for an event that
\* was given back.
THEOREM EventsFresh ==
    ASSUME Addresses = 1
    PROVE  Spec => []NoStaleEvent
  <1>1. ASSUME IInv, ConnectedInv PROVE NoStaleEvent
    <2> SUFFICES ASSUME NEW n \in Node, events[n].added
                 PROVE  /\ events[n].socket \in open
                        /\ \/ events[n].owner = Curl /\ socketp[events[n].socket] = n
                           \/ events[n].owner \in Sessions /\ socketEvent[events[n].owner] = n
      BY DEF NoStaleEvent
    <2>1. EventInv
      BY <1>1 DEF IInv
    <2>2. n # 0
      BY LenProperties, <2>1 DEF EventInv, PoolType, Node
    <2>3. CASE InFree(n)
      BY <2>1, <2>3 DEF EventInv, PoolInv, FreeBlank, Blank
    <2>4. CASE \E s \in Sockets : socketp[s] = n
      <3>1. PICK s \in Sockets : socketp[s] = n
        BY <2>4
      <3>2. events[n].owner = Curl /\ events[n].socket = s
        BY <2>1, <2>2, <3>1, Owners
      <3>3. watch[s] # {}
        BY <2>1, <2>2, <3>1, Zenon DEF EventInv, PollInv, null
      <3>4. s \in open
        BY <1>1, <3>3 DEF IInv, UserInv, SocketInv
      <3> QED BY <3>1, <3>2, <3>4
    <2>5. CASE \E c \in Sessions : socketEvent[c] = n
      <3>1. PICK c \in Sessions : socketEvent[c] = n
        BY <2>5
      <3>2. events[n].owner = c /\ status[c] = "ready"
        BY <2>1, <2>2, <3>1, Zenon DEF EventInv, SlotInv, null
      <3>3. events[n].socket = connected[c] /\ connected[c] \in SocketsOf(c)
        BY <1>1, <2>2, <3>1, <3>2 DEF ConnectedInv, DataInv, SlotSocket, Succeeded, null
      <3> QED BY <3>1, <3>2, <3>3 DEF SocketsOf
    <2> QED BY <2>1, <2>3, <2>4, <2>5 DEF EventInv, PoolInv, Owned
  <1> QED BY <1>1, Inductive, ConnectedInductive, PTL

\* DataSocketIsConnected: a session reads and writes the socket that curl connected.
THEOREM DataSocketRight ==
    ASSUME Addresses = 1
    PROVE  Spec => []DataSocketIsConnected
  <1>1. ASSUME IInv, ConnectedInv PROVE DataSocketIsConnected
    <2> SUFFICES ASSUME NEW c \in Sessions, status[c] = "ready", removing # c
                 PROVE  /\ dataSocket[c] = connected[c]
                        /\ events[socketEvent[c]].socket = connected[c]
      BY DEF DataSocketIsConnected
    <2>1. socketEvent[c] # null
      BY <1>1 DEF IInv, SessionInv
    <2> QED BY <1>1, <2>1 DEF ConnectedInv, DataInv, SlotSocket, Succeeded
  <1> QED BY <1>1, Inductive, ConnectedInductive, PTL

\* Only curl_socket_callback gives curl the event of a socket.
LEMMA PointersKept ==
    ASSUME IInv, [Next]_vars, NEW s \in Sockets, socketp[s] = null, socketp'[s] # null
    PROVE  \E d \in Connections, t \in Sockets, kinds \in SUBSET Kinds : CurlPolls(d, t, kinds)
  <1>1. socketp' # socketp
    OBVIOUS
  <1>2. socketp \in [Sockets -> 0 .. Len(events)]
    BY DEF IInv, EventInv, PointerType
  <1>3. Next
    BY <1>1 DEF vars, curlVars
  <1>4. CASE \E t \in Sockets : CurlRemoves(t)
    <2>1. PICK t \in Sockets : socketp' = [socketp EXCEPT ![t] = null]
      BY <1>4 DEF CurlRemoves, RemoveSocket
    <2>2. socketp'[s] = null
      BY <1>2, <2>1
    <2> QED BY <2>2
  <1>5. CASE \E c \in Connections, ok \in BOOLEAN : CurlDone(c, ok)
    BY <1>1, <1>5, DoneFacts DEF IInv
  <1>6. CASE \E c \in Sessions : SessionRefused(c) \/ SessionFails(c) \/ RegisterRefused(c)
    BY <1>1, <1>6 DEF SessionRefused, SessionFails, RegisterRefused, curlVars
  <1>7. CASE \E c \in Sessions, kinds \in SUBSET {"WRITE"} :
                 SessionReady(c, kinds) \/ ArmSession(c, kinds)
    BY <1>1, <1>7 DEF SessionReady, ArmSession, curlVars
  <1>8. CASE \E c \in Connections : AddHandle(c)
    BY <1>1, <1>8 DEF AddHandle
  <1>9. CASE \E c \in Sessions : unregister_handle(c)
    BY <1>1, <1>9 DEF unregister_handle, curlVars
  <1>10. CASE \/ CurlTimer \/ CurlReturns \/ TimerFires \/ SocketFires \/ DataDone
              \/ HandleRemoved \/ HandleTasks \/ HandleEvents \/ free_event_context
    BY <1>1, <1>10 DEF CurlTimer, CurlReturns, TimerFires, SocketFires, DataDone, HandleRemoved,
                       HandleTasks, HandleEvents, free_event_context, curlVars
  <1>11. CASE \E c \in Transfers : TransferDone(c)
    BY <1>1, <1>11 DEF TransferDone
  <1>12. CASE Terminated
    BY <1>1, <1>12 DEF Terminated, vars, curlVars
  <1> QED BY <1>3, <1>4, <1>5, <1>6, <1>7, <1>8, <1>9, <1>10, <1>11, <1>12, Zenon DEF Next

\* SocketsExpected: the asserts of on_attach_socket and on_detach_socket hold.
THEOREM SocketsAsserted ==
    ASSUME Addresses = 1
    PROVE  Spec => SocketsExpected
  <1> DEFINE Detaches ==
        \A c \in Sessions, s \in Sockets :
            socketp[s] # null /\ socketp'[s] = null /\ users[s] = {c} =>
                s \in {resolverSocket[c], dataSocket[c]}
  <1>1. ASSUME IInv, ConnectedInv, [Next]_vars PROVE AttachesExpected
    <2> SUFFICES ASSUME NEW c \in Sessions, NEW s \in Sockets,
                        socketp[s] = null, socketp'[s] # null, users'[s] = {c}
                 PROVE  s = resolverSocket'[c] \/ resolverSocket'[c] = dataSocket[c]
      BY DEF AttachesExpected
    <2>1. PICK d \in Connections, t \in Sockets, kinds \in SUBSET Kinds : CurlPolls(d, t, kinds)
      BY <1>1, PointersKept
    <2>2. /\ MayUse(d, t) /\ PollSocket(d, t, kinds) /\ users' = [users EXCEPT ![t] = @ \cup {d}]
      BY <2>1 DEF CurlPolls
    <2>3. socketp[t] = 0 /\ s = t
      BY <1>1, <2>2, Zenon DEF PollSocket, null, IInv, EventInv, PointerType
    <2>4. d = c
      BY <1>1, <2>2, <2>3 DEF IInv, CurlType
    <2>5. /\ resolverSocket' = [resolverSocket EXCEPT ![c] = IF @ = None THEN s ELSE @]
      BY <2>2, <2>3, <2>4, Zenon DEF PollSocket, on_attach_socket, null
    <2>6. resolverSocket'[c] = IF resolverSocket[c] = None THEN s ELSE resolverSocket[c]
      BY <1>1, <2>5 DEF IInv, SessionType
    <2>7. opened[c] = 0 \/ opened[c] = 1
      <3>1. watch[s] = {}
        BY <1>1, <2>3, Zenon DEF IInv, EventInv, PollInv, null
      <3>2. opened[c] <= 1
        BY <2>2, <2>3, <2>4, <3>1, ApartNames DEF MayUse, WatchedOf
      <3>3. opened[c] \in 0 .. Addresses + 1
        BY <1>1 DEF IInv, SessionType
      <3> QED BY <3>2, <3>3
    <2> QED BY <1>1, <2>6, <2>7 DEF ConnectedInv, DataInv
  <1>2. ASSUME IInv, ConnectedInv, [Next]_vars PROVE Detaches
    <2> SUFFICES ASSUME NEW c \in Sessions, NEW s \in Sockets, socketp[s] # null, users[s] = {c}
                 PROVE  s \in {resolverSocket[c], dataSocket[c]}
      OBVIOUS
    <2>1. watch[s] # {}
      BY <1>2, Zenon DEF IInv, EventInv, PollInv
    <2>2. transfer[c] = "running" /\ s \in open
      BY <1>2, <2>1 DEF IInv, UserInv, SocketInv
    <2>3. s \in SocketsOf(c)
      BY <2>2 DEF SocketsOf
    <2> QED BY <1>2, <2>2, <2>3 DEF ConnectedInv, DataInv
  <1> QED BY <1>1, <1>2, Inductive, ConnectedInductive, PTL DEF Spec, SocketsExpected
==============================================================================
