--------------------------- MODULE RestConnection ---------------------------
(***************************************************************************)
(* thread::rest_client, rest_request and rest_connection                   *)
(* (src/src/thread.cpp): a client builds one request at a time in memory   *)
(* the connection owns, hands it to the worker thread, and has it back     *)
(* when the listener was told the outcome.                                 *)
(*                                                                         *)
(* The critical sections of m_tasksQueue are atomic here (module Worker).  *)
(* Every listener callback is the last thing its handler does, so a client *)
(* that builds a request in a callback is a client that builds it after.   *)
(*                                                                         *)
(* How the client may be used: one thread at a time; a request is built    *)
(* and performed when the last one was answered and none has failed, and   *)
(* the client is destroyed when none is under way.                         *)
(***************************************************************************)
EXTENDS HttpText

CONSTANTS
    Char,               \* what texts are made of
    Header,             \* headers a client gives, [name, value]
    Line,               \* header lines a server sends
    Path, Query,        \* paths and queries a client gives
    Timeout,            \* timeouts a client gives
    MaxHeaders,         \* bound: headers of one request
    MaxBody,            \* bound: bytes of a body
    MaxRequests,        \* bound: requests performed
    RegisterRaces       \* curl may refuse the configuration when the client has
                        \* begun its first request, not only before

ASSUME BoundsAssumption ==
    MaxHeaders \in Nat /\ MaxBody \in Nat /\ MaxRequests \in Nat
ASSUME FlagsAssumption == RegisterRaces \in BOOLEAN

Method == {"custom", "get", "post", "put"}
default_request_timeout == 1000
ASSUME TimeoutAssumption == Timeout \subseteq Nat \ {default_request_timeout}

\* A name ends at the first colon of its line and a path where the query begins:
\* the code leaves it to the client that there is none in them.
Text == Seq(Char)
ASSUME CharAssumption == {":", " ", "/", "?", "Content-Type"} \subseteq Char
ASSUME HeaderAssumption ==
    /\ Header \subseteq [name : Text, value : Text]
    /\ \A h \in Header : ~Contains(h.name, ":")
ASSUME TargetAssumption ==
    /\ Path \subseteq Text /\ Query \subseteq Text
    /\ \A path \in Path : ~Contains(path, "?")

VARIABLES
    \* The worker thread.
    loc,            \* "events" or "tasks"
    queue, batch,   \* the connection's tasks, queued and being handled
    \* The connection.
    status,         \* m_status
    handle,         \* m_handle is set
    request,        \* m_request; its headers are nodes, the head first
    bodyOffset,     \* m_request->bodyOffset
    requestTarget,  \* m_requestTarget
    freeNodes,      \* the list m_freeHead, the head first
    nodeData,       \* m_allNodes: each node's data, a place in allValues or 0
    allValues,      \* m_allValues
    lastValueIndex, \* m_lastValueIndex
    \* Curl.
    transfer,       \* m_handle is in the multi handle
    options,        \* the options of m_handle
    \* The client.
    building,       \* a rest_request exists
    built,          \* history: what the client asks for, until it is answered
    unanswered,     \* the number of the request performed and not answered, or 0
    inFlight,       \* history: the number of the request last passed to curl
    reported,       \* history: the request a response was last reported for
    failed,         \* on_error was called
    alive,          \* the rest_client object exists
    requests        \* requests performed

workVars    == <<loc, queue, batch>>
requestVars == <<request, bodyOffset, freeNodes, nodeData, allValues, lastValueIndex>>
curlVars    == <<transfer, options, inFlight, reported>>
connVars    == <<status, handle, requestTarget, requestVars, curlVars>>
clientVars  == <<building, built, unanswered, failed, alive, requests>>
vars == <<workVars, connVars, clientVars>>

Node  == 1 .. Len(nodeData)
Place == 1 .. Len(allValues)
Ask(H) == [method : Method, path : Text, query : Text, headers : Seq(H),
           body : 0 .. MaxBody, timeout : Nat]

TypeOK ==
    /\ loc \in {"events", "tasks"}
    /\ queue \in Seq({"add", "send", "remove"})
    /\ batch \in Seq({"add", "send", "remove"})
    /\ status \in {"initializing", "ready", "busy", "inactive"}
    /\ handle \in BOOLEAN
    /\ request \in Ask(Node)
    /\ bodyOffset \in 0 .. MaxBody
    /\ requestTarget \in Text
    /\ freeNodes \in Seq(Node)
    /\ nodeData \in Seq({0} \cup Place)
    /\ allValues \in Seq(Text)
    /\ lastValueIndex \in {0} \cup Place
    /\ transfer \in BOOLEAN
    /\ options \in [request : {"get", "post", "put"}, customRequest : BOOLEAN,
                    target : Text, headers : Seq(Node), timeout : Nat,
                    postSize : 0 .. MaxBody, inSize : 0 .. MaxBody]
    /\ building \in BOOLEAN
    /\ built \in Ask([name : Text, value : Text])
    /\ unanswered \in 0 .. MaxRequests
    /\ inFlight \in 0 .. MaxRequests
    /\ reported \in 0 .. MaxRequests
    /\ failed \in BOOLEAN
    /\ alive \in BOOLEAN
    /\ requests \in 0 .. MaxRequests

EmptyRequest == [method |-> "get", path |-> <<>>, query |-> <<>>, headers |-> <<>>,
                 body |-> 0, timeout |-> default_request_timeout]

\* The constructor has pushed the add.
Init ==
    /\ loc = "events" /\ queue = <<"add">> /\ batch = <<>>
    /\ status = "initializing" /\ handle = FALSE
    /\ request = EmptyRequest /\ bodyOffset = 0 /\ requestTarget = <<>>
    /\ freeNodes = <<>> /\ nodeData = <<>> /\ allValues = <<>> /\ lastValueIndex = 0
    /\ transfer = FALSE /\ inFlight = 0 /\ reported = 0
    /\ options = [request |-> "get", customRequest |-> FALSE, target |-> <<>>,
                  headers |-> <<>>, timeout |-> 0, postSize |-> 0, inSize |-> 0]
    /\ building = FALSE /\ unanswered = 0 /\ failed = FALSE /\ alive = TRUE /\ requests = 0
    /\ built = EmptyRequest

-----------------------------------------------------------------------------
(* The client builds a request, on whatever thread it uses.                *)

BuildVars == <<workVars, status, handle, requestTarget, bodyOffset, curlVars, unanswered,
               failed, alive, requests>>
MemoryVars == <<freeNodes, nodeData, allValues, lastValueIndex>>

set_request_method(m) ==
    /\ alive /\ ~building /\ unanswered = 0 /\ ~failed
    /\ requests < MaxRequests
    /\ building' = TRUE
    /\ request' = [request EXCEPT !.method = m]
    /\ built' = [EmptyRequest EXCEPT !.method = m]
    /\ UNCHANGED <<BuildVars, MemoryVars>>

\* Each part of a request is given once, before the headers here: the setters of
\* parts and of headers write to different members, in any order.
SetPart(part, value) ==
    /\ building /\ request.headers = <<>>
    /\ request[part] = EmptyRequest[part]
    /\ request' = [request EXCEPT ![part] = value]
    /\ built' = [built EXCEPT ![part] = value]
    /\ UNCHANGED <<BuildVars, MemoryVars, building>>

set_request_path(path) == SetPart("path", path)
set_request_query(query) == SetPart("query", query)
set_request_timeout(timeout) == SetPart("timeout", timeout)

SameIndex == lastValueIndex                 \* mutant of NextValueIndex
NextValueIndex == lastValueIndex + 1

\* pop_free_node and store_header: the text of header h is stored in the next
\* place and its node goes to the head of the request's headers; the body becomes
\* b.
StoreHeader(text, h, b) ==
    LET node  == IF freeNodes = <<>> THEN Len(nodeData) + 1 ELSE Head(freeNodes)
        place == lastValueIndex + 1
    IN  /\ building /\ Len(built.headers) < MaxHeaders
        /\ freeNodes' = IF freeNodes = <<>> THEN <<>> ELSE Tail(freeNodes)
        /\ nodeData' = IF freeNodes = <<>> THEN Append(nodeData, place)
                       ELSE [nodeData EXCEPT ![node] = place]
        /\ allValues' = IF lastValueIndex = Len(allValues) THEN Append(allValues, text)
                        ELSE [allValues EXCEPT ![place] = text]
        /\ lastValueIndex' = NextValueIndex
        /\ request' = [request EXCEPT !.headers = <<node>> \o @, !.body = b]
        /\ built' = [built EXCEPT !.headers = Append(@, h), !.body = b]
        /\ UNCHANGED <<BuildVars, building>>

\* A header is given as a line, or as a name and a value.
add_request_header(h) ==
    \/ StoreHeader(h.name \o <<":", " ">> \o h.value, h, request.body)
    \/ StoreHeader(store_header(h.name, h.value), h, request.body)

\* A body comes with a Content-Type header.
set_request_body(b, contentType) ==
    /\ request.method # "get" /\ request.body = 0
    /\ LET name == <<"Content-Type">>
       IN  StoreHeader(store_header(name, contentType),
                       [name |-> name, value |-> contentType], b)

perform ==
    /\ building
    /\ queue' = Append(queue, "send")
    /\ building' = FALSE
    /\ requests' = requests + 1
    /\ unanswered' = requests + 1
    /\ UNCHANGED <<loc, batch, connVars, built, failed, alive>>

\* ~rest_client
remove_connection ==
    /\ alive /\ ~building /\ unanswered = 0
    /\ queue' = Append(queue, "remove")
    /\ alive' = FALSE
    /\ UNCHANGED <<loc, batch, connVars, building, built, unanswered, failed, requests>>

Client == \/ \E m \in Method : set_request_method(m)
          \/ \E path \in Path : set_request_path(path)
          \/ \E query \in Query : set_request_query(query)
          \/ \E timeout \in Timeout : set_request_timeout(timeout)
          \/ \E h \in Header : add_request_header(h)
          \/ \E b \in 1 .. MaxBody, h \in Header : set_request_body(b, h.value)
          \/ perform \/ remove_connection

-----------------------------------------------------------------------------
(* The connection, on the worker thread.                                   *)

\* What reset_request leaves of curl's options.
KeepCustom == options                       \* mutant of ClearedOptions
ClearedOptions == [options EXCEPT !.customRequest = @ /\ request.method # "custom",
                                  !.target = <<>>, !.headers = <<>>]

KeepTimeout == [EmptyRequest EXCEPT !.timeout = request.timeout]
FreshRequest == EmptyRequest                \* KeepTimeout is a mutant

KeepTarget == requestTarget                 \* mutant of ClearedTarget
ClearedTarget == <<>>

\* Mutant of push_free_nodes: only the first node is given back.
PushFirstNode == freeNodes' = IF request.headers = <<>> THEN freeNodes
                              ELSE <<Head(request.headers)>> \o freeNodes
push_free_nodes == freeNodes' = Reverse(request.headers) \o freeNodes

reset_request ==
    /\ options' = ClearedOptions
    /\ requestTarget' = ClearedTarget
    /\ push_free_nodes
    /\ nodeData' = [n \in Node |-> IF Contains(request.headers, n) THEN 0 ELSE nodeData[n]]
    /\ request' = FreshRequest
    /\ bodyOffset' = 0
    /\ lastValueIndex' = 0
    /\ UNCHANGED allValues

deactivate ==
    /\ reset_request
    /\ handle' = FALSE
    /\ transfer' = FALSE
    /\ status' = "inactive"

\* Mutant of Fail: the listener is not told.
FailSilently ==
    /\ deactivate
    /\ UNCHANGED <<inFlight, reported, clientVars>>

\* report_error of a failure: deactivate, and then on_error.
Fail == /\ deactivate
        /\ failed' = TRUE
        /\ unanswered' = 0
        /\ built' = EmptyRequest
        /\ UNCHANGED <<inFlight, reported, building, alive, requests>>

swap_task_queue ==
    /\ loc = "events"
    /\ loc' = "tasks"
    /\ batch' = queue
    /\ queue' = <<>>
    /\ UNCHANGED <<connVars, clientVars>>

NextTask(action) == loc = "tasks" /\ batch # <<>> /\ Head(batch) = action
TaskDone == batch' = Tail(batch) /\ UNCHANGED <<loc, queue>>

register_handle ==
    /\ NextTask("add")
    /\ TaskDone
    /\ \/ /\ handle' = TRUE
          /\ status' = "ready"
          /\ UNCHANGED <<requestTarget, requestVars, curlVars, clientVars>>
       \/ /\ RegisterRaces \/ (~building /\ unanswered = 0)
          /\ Fail

\* setup_request and setup_request_method: the options are set for this
\* request; an option that only another method looks at keeps its value.
RequestOptions ==
    LET common == [options EXCEPT !.target = RequestTarget(request.path, request.query),
                                  !.headers = request.headers, !.timeout = request.timeout]
    IN  CASE request.method = "custom" ->
                [common EXCEPT !.customRequest = TRUE, !.request = "post",
                               !.postSize = request.body]
          [] request.method = "get"  -> [common EXCEPT !.request = "get"]
          [] request.method = "post" ->
                [common EXCEPT !.request = "post", !.postSize = request.body]
          [] request.method = "put"  ->
                [common EXCEPT !.request = "put", !.inSize = request.body]

\* The request goes to curl, unless an option or the handle is refused.
send_message ==
    /\ NextTask("send") /\ status = "ready"
    /\ TaskDone
    /\ \/ /\ requestTarget' = RequestTarget(request.path, request.query)
          /\ options' = RequestOptions
          /\ status' = "busy"
          /\ transfer' = TRUE
          /\ inFlight' = unanswered
          /\ UNCHANGED <<handle, requestVars, reported, clientVars>>
       \/ Fail

unregister_handle ==
    /\ NextTask("remove")
    /\ TaskDone
    /\ IF handle THEN deactivate
       ELSE UNCHANGED <<status, handle, requestTarget, requestVars, transfer, options>>
    /\ UNCHANGED <<inFlight, reported, clientVars>>

TasksDone ==
    /\ loc = "tasks" /\ batch = <<>>
    /\ loc' = "events"
    /\ UNCHANGED <<queue, batch, connVars, clientVars>>

\* What curl sends, as its options say.
WireMethod == IF options.customRequest THEN "custom" ELSE options.request
WireSize   == CASE options.request = "post" -> options.postSize
                [] options.request = "put"  -> options.inSize
                [] options.request = "get"  -> 0

\* Mutant of PartSize: the callback fills the buffer whatever is left.
FillBuffer(n) == n
PartSize(n) == LET bytesToSend == request.body - bodyOffset
               IN  IF n < bytesToSend THEN n ELSE bytesToSend

TransferRuns == loc = "events" /\ transfer

\* Curl asks for the next part of the body, with room for n bytes.
read_callback(n) ==
    /\ TransferRuns /\ bodyOffset < WireSize
    /\ bodyOffset' = bodyOffset + PartSize(n)
    /\ UNCHANGED <<workVars, status, handle, requestTarget, request, MemoryVars, curlVars,
                   clientVars>>

\* A line of the response's head: a line without a name is not reported.
header_callback(line) ==
    /\ TransferRuns
    /\ reported' = IF split_http_header(line).name = <<>> THEN reported ELSE inFlight
    /\ UNCHANGED <<workVars, status, handle, requestTarget, requestVars, transfer, options,
                   inFlight, clientVars>>

\* A part of the response's body.
write_callback ==
    /\ TransferRuns
    /\ reported' = inFlight
    /\ UNCHANGED <<workVars, status, handle, requestTarget, requestVars, transfer, options,
                   inFlight, clientVars>>

\* Mutant of on_response_complete: the handle stays in the multi handle.
CompleteKeepsTransfer ==
    /\ TransferRuns
    /\ reset_request
    /\ status' = "ready"
    /\ unanswered' = 0
    /\ built' = EmptyRequest
    /\ UNCHANGED <<workVars, handle, transfer, inFlight, reported, building, failed, alive,
                   requests>>

\* The transfer is over: on_response_complete ...
on_response_complete ==
    /\ TransferRuns
    /\ reset_request
    /\ status' = "ready"
    /\ transfer' = FALSE
    /\ unanswered' = 0
    /\ built' = EmptyRequest
    /\ UNCHANGED <<workVars, handle, inFlight, reported, building, failed, alive, requests>>

\* ... or on_error.  Curl is not taken to refuse the handle's removal, which an
\* assert excludes.
TransferFails ==
    /\ TransferRuns
    /\ Fail
    /\ UNCHANGED workVars

on_recv_message == on_response_complete \/ TransferFails

WorkerThread ==
    \/ swap_task_queue \/ register_handle \/ send_message \/ unregister_handle \/ TasksDone
    \/ \E n \in 1 .. MaxBody : read_callback(n)
    \/ \E line \in Line : header_callback(line)
    \/ write_callback
    \/ on_recv_message

Next == Client \/ WorkerThread

Spec == Init /\ [][Next]_vars

\* The worker thread goes round, and curl ends every transfer, by the
\* request's timeout at the latest.
Fairness == WF_vars(WorkerThread) /\ SF_vars(on_recv_message)

FairSpec == Spec /\ Fairness

-----------------------------------------------------------------------------
(* Properties.                                                             *)

\* The status, the handle and curl's transfer move together, so the callbacks
\* of a transfer find the connection busy (asserts of header_callback,
\* read_callback, write_callback and on_recv_message).
TransferCoherent ==
    /\ transfer <=> status = "busy"
    /\ handle <=> status \in {"ready", "busy"}

\* A send task finds a connection that is ready and a request nothing was sent
\* of (asserts of send_message and setup_request).
SendExpected ==
    NextTask("send") => status = "ready" /\ requestTarget = <<>> /\ bodyOffset = 0

\* The client is not destroyed with a request under way (assert of
\* unregister_handle).
RemoveExpected == NextTask("remove") => status # "busy"

TaskExpected ==
    /\ NextTask("add") => status = "initializing" /\ ~handle
    /\ SendExpected
    /\ RemoveExpected

\* A client that may build a request finds it as new (asserts of
\* set_request_method), whatever the last one was and however it ended, and
\* ~rest_connection finds all released (its asserts).
Destroyed == ~alive /\ queue = <<>> /\ batch = <<>>
RequestReturned ==
    /\ Destroyed \/ (alive /\ ~building /\ unanswered = 0 /\ ~failed) =>
           request = EmptyRequest /\ bodyOffset = 0 /\ lastValueIndex = 0
    /\ Destroyed => ~handle

\* Every node is in the request's headers or on the free list, once, and a free
\* node is clean (the destructor's count and the asserts of add_request_header).
\* Nodes and strings are used again: there are never more than one request had
\* headers.
AllNodes == freeNodes \o request.headers
NodesConserved ==
    /\ Len(AllNodes) = Len(nodeData)
    /\ \A i, j \in 1 .. Len(AllNodes) : i # j => AllNodes[i] # AllNodes[j]
    /\ \A i \in 1 .. Len(freeNodes) : nodeData[freeNodes[i]] = 0
    /\ Len(nodeData) <= MaxHeaders /\ Len(allValues) <= MaxHeaders

\* Curl reads the headers the client gave, the last one first, each with the
\* name and the value the client gave, without the blanks around them, although
\* their nodes and strings held those of earlier requests.
HeaderRead(node) == split_http_header(allValues[nodeData[node]])
Given(h) == [name |-> trim(h.name), value |-> trim(h.value)]
HeadersIntact ==
    transfer =>
        /\ Len(options.headers) = Len(built.headers)
        /\ \A i \in 1 .. Len(options.headers) :
              HeaderRead(options.headers[i]) = Given(Reverse(built.headers)[i])

\* What curl sends is what the client asked for: no option of an earlier request
\* on the same handle shows, the target holds the path and the query that were
\* given, and the transfer has the request's own timeout or the default.
WireMatches ==
    transfer =>
        LET read == TargetRead(options.target)
        IN  /\ WireMethod = built.method
            /\ WireSize = built.body
            /\ options.timeout = built.timeout
            /\ read.path \in {built.path, <<"/">> \o built.path} /\ Head(read.path) = "/"
            /\ read.query \in {built.query, <<"?">> \o built.query}
            /\ built.query = <<>> => read.query = <<>>

\* The connection answers the client's requests as a client may expect: nothing
\* is reported but for the request that waits, each request has one answer, and
\* it has it in the end.
Replies == INSTANCE RequestReply
ImplementsRequestReply == Replies!FairSpec
=============================================================================
