---------------------------- MODULE WorkerStream ----------------------------
(***************************************************************************)
(* The gRPC transport between the controller and a worker: GrpcTransport   *)
(* of the worker (task_worker_grpc.py) keeps one stream to the controller, *)
(* over which heartbeats, notices and answers go up and calls come down;   *)
(* the controller matches answers to calls (worker.go, grpc.go).           *)
(*                                                                         *)
(* A stream that breaks loses what is under way in both directions; each   *)
(* side notices in its own time.                                           *)
(***************************************************************************)
EXTENDS Naturals, Sequences

CONSTANTS
    Calls,          \* calls of the controller, each with its own id
    MaxStreams,     \* bound on the streams the worker opens
    MaxNotices,     \* bound on notices of cancelled sessions
    None

Streams == 1..MaxStreams

ASSUME BoundsAssumption ==
    MaxStreams \in Nat \ {0} /\ MaxNotices \in Nat /\ None \notin Calls \cup Streams

VARIABLES
    call,       \* per call: [pc, result]
    pending,    \* pendingRpc: calls that wait for an answer
    chan,       \* per call, its response channel (capacity 1): [full, closed]
    known,      \* streams whose handler has registered the worker
    handler,    \* streams whose handler runs on the controller
    stream,     \* the stream of the worker's record on the controller, or None
    alive,      \* status of that record
    broken,     \* streams that are broken
    down, up,   \* per stream, messages under way
    current,    \* the worker's stream, or None
    opened,     \* streams so far
    queue,      \* message_queue of the worker: survives its streams
    handling,   \* calls the worker is working on
    notices,    \* notices so far
    lost        \* history: calls of which the request or the answer was lost

vars == <<call, pending, chan, known, handler, stream, alive, broken, down, up,
          current, opened, queue, handling, notices, lost>>
controllerVars == <<call, pending, chan, known, handler, stream, alive>>
network == <<broken, down, up>>
workerVars == <<current, opened, queue, handling, notices>>

\* Messages: [type, call]; only requests and responses belong to a call.
Message(type, r) == [type |-> type, call |-> r]
CallsIn(messages) == {messages[i].call : i \in DOMAIN messages} \ {None}
HasHeartbeat(messages) == \E i \in DOMAIN messages : messages[i].type = "heartbeat"

-----------------------------------------------------------------------------
(* The controller: CallGrpc, one goroutine per call.                       *)

SetCall(r, pc, result) == call' = [call EXCEPT ![r] = [pc |-> pc, result |-> result]]

CallGrpc(r) ==
    /\ call[r].pc = "idle"
    /\ \/ stream = None /\ SetCall(r, "done", "not connected") /\ UNCHANGED pending
       \/ stream # None /\ SetCall(r, "registered", None) /\ pending' = pending \cup {r}
    /\ UNCHANGED <<chan, known, handler, stream, alive, network, workerVars, lost>>

\* The stream may be another one than the one that was tested.
SendRequest(r) ==
    /\ call[r].pc = "registered"
    /\ \/ /\ stream \in handler
          /\ IF stream \in broken
             THEN lost' = lost \cup {r} /\ UNCHANGED down
             ELSE /\ down' = [down EXCEPT ![stream] = Append(@, Message("request", r))]
                  /\ UNCHANGED lost
          /\ SetCall(r, "waiting", None)
       \/ /\ stream \notin handler \/ stream \in broken
          /\ SetCall(r, "cleanup", "send failed")
          /\ UNCHANGED <<down, lost>>
    /\ UNCHANGED <<pending, chan, known, handler, stream, alive, broken, up, workerVars>>

GetResponse(r) ==
    /\ call[r].pc = "waiting" /\ chan[r].full
    /\ chan' = [chan EXCEPT ![r].full = FALSE]
    /\ SetCall(r, "cleanup", "answer")
    /\ UNCHANGED <<pending, known, handler, stream, alive, network, workerVars, lost>>

\* The context of the call ends, or 10 minutes have passed.
GiveUp(r) ==
    /\ call[r].pc = "waiting"
    /\ SetCall(r, "cleanup", "gave up")
    /\ UNCHANGED <<pending, chan, known, handler, stream, alive, network, workerVars, lost>>

\* Mutated form of CleanupOrder: an answer may still find the closed channel.
CleanupSwapped == <<"close", "forget">>

\* The deferred cleanup: the call is forgotten under the lock, then the channel
\* is closed.
CleanupOrder == <<"forget", "close">>
CleanupStep(r, n) ==
    /\ pending' = IF CleanupOrder[n] = "forget" THEN pending \ {r} ELSE pending
    /\ chan' = IF CleanupOrder[n] = "close" THEN [chan EXCEPT ![r].closed = TRUE] ELSE chan
    /\ UNCHANGED <<known, handler, stream, alive, network, workerVars, lost>>

Cleanup(r) ==
    /\ call[r].pc = "cleanup" /\ CleanupStep(r, 1) /\ SetCall(r, "closing", call[r].result)

CloseChannel(r) ==
    /\ call[r].pc = "closing" /\ CleanupStep(r, 2) /\ SetCall(r, "done", call[r].result)

-----------------------------------------------------------------------------
(* The controller: WorkerStream, one goroutine per stream.                 *)

\* FinalizeGrpcCall, under the lock.
FinalizeGrpcCall(r) ==
    /\ pending' = pending \ {r}
    /\ chan' = IF r \in pending THEN [chan EXCEPT ![r].full = TRUE] ELSE chan

\* Mutated form of ReceiveHeartbeat: the record keeps the stream it was made with.
ReceiveHeartbeatKeep(n) ==
    /\ Head(up[n]).type = "heartbeat"
    /\ known' = known \cup {n} /\ alive' = TRUE
    /\ stream' = IF stream = None THEN n ELSE stream
    /\ UNCHANGED <<call, pending, chan, down, lost>>

ReceiveHeartbeat(n) ==
    /\ Head(up[n]).type = "heartbeat"
    /\ known' = known \cup {n} /\ stream' = n /\ alive' = TRUE
    /\ UNCHANGED <<call, pending, chan, down, lost>>

\* An answer on a stream that has brought no heartbeat yet is dropped.
ReceiveResponse(n) ==
    /\ Head(up[n]).type = "response"
    /\ \/ n \in known /\ FinalizeGrpcCall(Head(up[n]).call) /\ UNCHANGED lost
       \/ n \notin known /\ lost' = lost \cup {Head(up[n]).call} /\ UNCHANGED <<pending, chan>>
    /\ UNCHANGED <<call, known, stream, alive, down>>

ReceiveNotice(n) ==
    /\ Head(up[n]).type = "notice"
    /\ down' = [down EXCEPT ![n] = Append(@, Message("ack", None))]
    /\ UNCHANGED <<call, pending, chan, known, stream, alive, lost>>

Receive(n) ==
    /\ n \in handler /\ up[n] # <<>>
    /\ ReceiveHeartbeat(n) \/ ReceiveResponse(n) \/ ReceiveNotice(n)
    /\ up' = [up EXCEPT ![n] = Tail(@)]
    /\ UNCHANGED <<handler, broken, workerVars>>

\* Whatever stream the worker's record has by now, the end of one of its streams
\* puts the worker into coma.
StreamEnds(n) ==
    /\ n \in handler /\ n \in broken /\ up[n] = <<>>
    /\ handler' = handler \ {n}
    /\ alive' = IF n \in known THEN FALSE ELSE alive
    /\ UNCHANGED <<call, pending, chan, known, stream, network, workerVars, lost>>

-----------------------------------------------------------------------------
(* The worker: GrpcTransport.                                              *)

Connect ==
    /\ current = None /\ opened < MaxStreams
    /\ opened' = opened + 1 /\ current' = opened'
    /\ handler' = handler \cup {opened'}
    /\ UNCHANGED <<call, pending, chan, known, stream, alive, network, queue, handling, notices, lost>>

\* Bound: a heartbeat is sent when the former one has arrived.
SendHeartbeat ==
    /\ ~HasHeartbeat(queue) /\ \A n \in Streams : ~HasHeartbeat(up[n])
    /\ queue' = Append(queue, Message("heartbeat", None))
    /\ UNCHANGED <<controllerVars, network, current, opened, handling, notices, lost>>

SendCancelNotice ==
    /\ notices < MaxNotices /\ notices' = notices + 1
    /\ queue' = Append(queue, Message("notice", None))
    /\ UNCHANGED <<controllerVars, network, current, opened, handling, lost>>

\* The send loop: a message that cannot be written is dropped.
SendLoop ==
    /\ current # None /\ queue # <<>>
    /\ queue' = Tail(queue)
    /\ \/ current \notin broken /\ up' = [up EXCEPT ![current] = Append(@, Head(queue))] /\ UNCHANGED lost
       \/ current \in broken /\ lost' = lost \cup CallsIn(<<Head(queue)>>) /\ UNCHANGED up
    /\ UNCHANGED <<controllerVars, broken, down, current, opened, handling, notices>>

\* The receive loop starts a task per request, and ignores answers to notices.
ReceiveLoop ==
    /\ current # None /\ down[current] # <<>>
    /\ down' = [down EXCEPT ![current] = Tail(@)]
    /\ handling' = handling \cup CallsIn(<<Head(down[current])>>)
    /\ UNCHANGED <<controllerVars, broken, up, current, opened, queue, notices, lost>>

\* Mutated form of Routed: an endpoint that raises is not answered.
RouteErrors(r) == handling' = handling \ {r} /\ UNCHANGED queue

\* The task answers whether the endpoint succeeds or raises.
Routed(r) == handling' = handling \ {r} /\ queue' = Append(queue, Message("response", r))
RouteMessage(r) ==
    /\ r \in handling /\ Routed(r)
    /\ UNCHANGED <<controllerVars, network, current, opened, notices, lost>>

Reconnect ==
    /\ current \in broken
    /\ current' = None
    /\ UNCHANGED <<controllerVars, network, opened, queue, handling, notices, lost>>

\* The network.  The last stream holds, so that there is an end to it.
Break(n) ==
    /\ n \in 1..opened /\ n < MaxStreams /\ n \notin broken
    /\ broken' = broken \cup {n}
    /\ lost' = lost \cup CallsIn(up[n]) \cup CallsIn(down[n])
    /\ up' = [up EXCEPT ![n] = <<>>] /\ down' = [down EXCEPT ![n] = <<>>]
    /\ UNCHANGED <<controllerVars, workerVars>>

-----------------------------------------------------------------------------
Init ==
    /\ call = [r \in Calls |-> [pc |-> "idle", result |-> None]]
    /\ pending = {} /\ chan = [r \in Calls |-> [full |-> FALSE, closed |-> FALSE]]
    /\ known = {} /\ handler = {} /\ stream = None /\ alive = FALSE
    /\ broken = {} /\ down = [n \in Streams |-> <<>>] /\ up = [n \in Streams |-> <<>>]
    /\ current = None /\ opened = 0 /\ queue = <<>> /\ handling = {} /\ notices = 0
    /\ lost = {}

CallStep(r) ==
    CallGrpc(r) \/ SendRequest(r) \/ GetResponse(r) \/ Cleanup(r) \/ CloseChannel(r)

WorkerStep == Connect \/ ReceiveLoop \/ Reconnect

Next ==
    \/ \E r \in Calls : CallStep(r) \/ GiveUp(r) \/ RouteMessage(r)
    \/ \E n \in Streams : Receive(n) \/ StreamEnds(n) \/ Break(n)
    \/ WorkerStep \/ SendLoop \/ SendHeartbeat \/ SendCancelNotice

Spec == Init /\ [][Next]_vars

\* Goroutines and coroutines run; the heartbeat is sent over and over; a call
\* whose answer is lost gives up after 10 minutes.
Fairness ==
    /\ \A r \in Calls : WF_vars(CallStep(r)) /\ WF_vars(RouteMessage(r))
    /\ \A r \in Calls : WF_vars(r \in lost /\ GiveUp(r))
    /\ \A n \in Streams : WF_vars(Receive(n)) /\ WF_vars(StreamEnds(n))
    /\ WF_vars(WorkerStep) /\ WF_vars(SendLoop) /\ WF_vars(SendHeartbeat)

FairSpec == Spec /\ Fairness

-----------------------------------------------------------------------------
(* Properties.                                                             *)

\* A call that an answer would find pending has an open and empty channel: the
\* handler of the stream neither panics on a closed channel nor blocks, with the
\* lock of the worker held, on a full one (worker.go:141-147, :182-192).
ChannelReady == \A r \in pending : ~chan[r].closed /\ ~chan[r].full

\* A call that waits is somewhere: its request is under way, its endpoint runs,
\* its answer is queued, under way or in its channel.  Otherwise it was lost with
\* a stream, or by a stream that had brought no heartbeat yet
\* (task_worker_grpc.py:48-122, grpc.go:143-157).
Somewhere(r) ==
    \/ chan[r].full
    \/ r \in handling \cup CallsIn(queue)
    \/ \E n \in Streams : r \in CallsIn(down[n]) \cup CallsIn(up[n])
CallAccounted == \A r \in Calls : call[r].pc = "waiting" /\ r \notin lost => Somewhere(r)

\* When a stream holds, the controller comes to use it for the worker, however
\* late it learns of the end of the former ones, and the coma does not last
\* (grpc.go:95-141, task_worker_grpc.py:124-201).
ConnectionRecovers ==
    /\ <>[](current # None => stream = current)
    /\ []<>(alive \/ current = None)

=============================================================================
