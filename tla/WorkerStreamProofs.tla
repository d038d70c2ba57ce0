------------------------- MODULE WorkerStreamProofs -------------------------
(***************************************************************************)
(* Proofs about WorkerStream, for every number of calls, streams and       *)
(* notices.                                                                *)
(*                                                                         *)
(* ChannelReady speaks of the calls that are pending.  It is kept because  *)
(* a call is pending only from its registration to the first step of its   *)
(* cleanup, its channel is untouched before, closed only after, and filled *)
(* only by the answer that takes it out of pendingRpc.                     *)
(*                                                                         *)
(* CallAccounted needs two more facts: only answers carry a call upwards,  *)
(* so that no heartbeat or notice takes one along, and a call that is not  *)
(* pending any more while it waits has its answer in its channel, so that  *)
(* an answer that finds no pending call is not the one that counts.        *)
(***************************************************************************)
EXTENDS WorkerStream, TLAPS

CallPc == {"idle", "registered", "waiting", "cleanup", "closing", "done"}
Results == {None, "not connected", "send failed", "answer", "gave up"}

CallTypes ==
    /\ call \in [Calls -> [pc : CallPc, result : Results]]
    /\ chan \in [Calls -> [full : BOOLEAN, closed : BOOLEAN]]
    /\ pending \subseteq Calls

\* Where a call can be while an answer would find it pending.
Awaited == {"registered", "waiting", "cleanup"}

Life(r) ==
    /\ r \in pending => call[r].pc \in Awaited
    /\ r \in pending \/ call[r].pc = "idle" => ~chan[r].full
    /\ chan[r].closed => call[r].pc = "done"

Lives == \A r \in Calls : Life(r)

CallInv == CallTypes /\ Lives

-----------------------------------------------------------------------------

\* No call has been made (worker.go:35).
LEMMA InitCalls == Init => CallInv
BY DEF Init, CallInv, CallTypes, Lives, Life, CallPc, Results, Awaited

\* A step that leaves the calls, pendingRpc and the channels alone.
LEMMA OthersKeepCalls ==
    ASSUME CallInv, UNCHANGED <<call, pending, chan>>
    PROVE  CallInv'
BY DEF CallInv, CallTypes, Lives, Life

\* CallGrpc registers a call whose channel is new (worker.go:134-139).
LEMMA RegisterKeepsCalls ==
    ASSUME CallInv, NEW r \in Calls, CallGrpc(r)
    PROVE  CallInv'
<1> USE DEF CallInv, CallTypes
<1>1. call[r].pc = "idle" /\ UNCHANGED chan
  BY DEF CallGrpc
<1>2. CASE SetCall(r, "done", "not connected") /\ UNCHANGED pending
  <2>1. CallTypes'
    BY <1>1, <1>2 DEF SetCall, CallPc, Results
  <2>2. Lives'
    BY <1>1, <1>2 DEF Lives, Life, SetCall, Awaited
  <2> QED
    BY <2>1, <2>2
<1>3. CASE SetCall(r, "registered", None) /\ pending' = pending \cup {r}
  <2>1. CallTypes'
    BY <1>1, <1>3 DEF SetCall, CallPc, Results
  <2>2. Lives'
    BY <1>1, <1>3 DEF Lives, Life, SetCall, Awaited
  <2> QED
    BY <2>1, <2>2
<1> QED
  BY <1>2, <1>3 DEF CallGrpc

\* A call that moves on and leaves pendingRpc alone, its channel no fuller than
\* before.
LEMMA MoveKeepsCalls ==
    ASSUME CallInv, NEW r \in Calls, NEW p \in CallPc, NEW res \in Results,
           call[r].pc \in {"registered", "waiting"}, p \in {"waiting", "cleanup"},
           SetCall(r, p, res), UNCHANGED pending,
           chan' = chan \/ chan' = [chan EXCEPT ![r].full = FALSE]
    PROVE  CallInv'
<1> USE DEF CallInv, CallTypes
<1>1. CallTypes'
  BY DEF SetCall
<1>2. Lives'
  BY DEF Lives, Life, SetCall, Awaited
<1> QED
  BY <1>1, <1>2

\* A call that is sent, answered or given up stays awaited (worker.go:149-179).
LEMMA WaitKeepsCalls ==
    ASSUME CallInv, NEW r \in Calls, SendRequest(r) \/ GetResponse(r) \/ GiveUp(r)
    PROVE  CallInv'
<1>1. CASE SendRequest(r)
  <2>1. CASE SetCall(r, "waiting", None)
    BY <1>1, <2>1, MoveKeepsCalls DEF SendRequest, CallPc, Results
  <2>2. CASE SetCall(r, "cleanup", "send failed")
    BY <1>1, <2>2, MoveKeepsCalls DEF SendRequest, CallPc, Results
  <2> QED
    BY <1>1, <2>1, <2>2 DEF SendRequest
<1>2. CASE GetResponse(r)
  BY <1>2, MoveKeepsCalls DEF GetResponse, CallPc, Results
<1>3. CASE GiveUp(r)
  BY <1>3, MoveKeepsCalls DEF GiveUp, CallPc, Results
<1> QED
  BY <1>1, <1>2, <1>3

\* The cleanup forgets the call before its channel is closed (worker.go:142-147).
LEMMA CleanupKeepsCalls ==
    ASSUME CallInv, NEW r \in Calls, Cleanup(r) \/ CloseChannel(r)
    PROVE  CallInv'
<1>1. CASE Cleanup(r)
  <2>1. pending' = pending \ {r} /\ UNCHANGED chan
    BY <1>1 DEF Cleanup, CleanupStep, CleanupOrder
  <2>2. call[r].pc = "cleanup"
        /\ call' = [call EXCEPT ![r] = [pc |-> "closing", result |-> call[r].result]]
    BY <1>1 DEF Cleanup, SetCall
  <2>3. CallTypes'
    BY <2>1, <2>2 DEF CallInv, CallTypes, CallPc
  <2>4. Lives'
    BY <2>1, <2>2 DEF CallInv, CallTypes, Lives, Life, Awaited
  <2> QED
    BY <2>3, <2>4 DEF CallInv
<1>2. CASE CloseChannel(r)
  <2>1. chan' = [chan EXCEPT ![r].closed = TRUE] /\ UNCHANGED pending
    BY <1>2 DEF CloseChannel, CleanupStep, CleanupOrder
  <2>2. call[r].pc = "closing"
        /\ call' = [call EXCEPT ![r] = [pc |-> "done", result |-> call[r].result]]
    BY <1>2 DEF CloseChannel, SetCall
  <2>3. CallTypes'
    BY <2>1, <2>2 DEF CallInv, CallTypes, CallPc
  <2>4. Lives'
    BY <2>1, <2>2 DEF CallInv, CallTypes, Lives, Life, Awaited
  <2> QED
    BY <2>3, <2>4 DEF CallInv
<1> QED
  BY <1>1, <1>2

\* An answer fills the channel of a call and takes it out of pendingRpc in one
\* step; a second answer to the same call finds nothing (worker.go:182-192).
LEMMA ReceiveKeepsCalls ==
    ASSUME CallInv, NEW n \in Streams, Receive(n)
    PROVE  CallInv'
<1>1. CASE ReceiveHeartbeat(n) \/ ReceiveNotice(n)
  BY <1>1, OthersKeepCalls DEF ReceiveHeartbeat, ReceiveNotice
<1>2. CASE ReceiveResponse(n)
  <2> DEFINE r == Head(up[n]).call
  <2>1. UNCHANGED call
    BY <1>2 DEF ReceiveResponse
  <2>2. CASE UNCHANGED <<pending, chan>>
    BY <2>1, <2>2, OthersKeepCalls
  <2>3. CASE FinalizeGrpcCall(r) /\ r \in pending
    <3>1. pending' = pending \ {r} /\ chan' = [chan EXCEPT ![r].full = TRUE] /\ r \in Calls
      BY <2>3 DEF FinalizeGrpcCall, CallInv, CallTypes
    <3>2. CallTypes'
      BY <2>1, <3>1 DEF CallInv, CallTypes
    <3>3. Lives'
      BY <2>1, <2>3, <3>1 DEF CallInv, CallTypes, Lives, Life, Awaited
    <3> QED
      BY <3>2, <3>3 DEF CallInv
  <2>4. CASE FinalizeGrpcCall(r) /\ r \notin pending
    <3>1. UNCHANGED <<pending, chan>>
      BY <2>4 DEF FinalizeGrpcCall
    <3> QED
      BY <2>1, <3>1, OthersKeepCalls
  <2> QED
    BY <1>2, <2>2, <2>3, <2>4 DEF ReceiveResponse
<1> QED
  BY <1>1, <1>2 DEF Receive

\* Every step of calls, streams, worker and network keeps the invariant.
LEMMA CallStepLemma == CallInv /\ [Next]_vars => CallInv'
<1> SUFFICES ASSUME CallInv, [Next]_vars PROVE CallInv'
  OBVIOUS
<1>1. CASE UNCHANGED vars
  BY <1>1, OthersKeepCalls DEF vars
<1>2. ASSUME NEW r \in Calls, CallStep(r) \/ GiveUp(r) PROVE CallInv'
  BY <1>2, RegisterKeepsCalls, WaitKeepsCalls, CleanupKeepsCalls DEF CallStep
<1>3. ASSUME NEW r \in Calls, RouteMessage(r) PROVE CallInv'
  BY <1>3, OthersKeepCalls DEF RouteMessage, controllerVars
<1>4. ASSUME NEW n \in Streams, Receive(n) PROVE CallInv'
  BY <1>4, ReceiveKeepsCalls
<1>5. ASSUME NEW n \in Streams, StreamEnds(n) \/ Break(n) PROVE CallInv'
  BY <1>5, OthersKeepCalls DEF StreamEnds, Break, controllerVars
<1>6. CASE WorkerStep
  BY <1>6, OthersKeepCalls DEF WorkerStep, Connect, ReceiveLoop, Reconnect, controllerVars
<1>7. CASE SendLoop \/ SendHeartbeat \/ SendCancelNotice
  BY <1>7, OthersKeepCalls DEF SendLoop, SendHeartbeat, SendCancelNotice, controllerVars
<1> QED
  BY <1>1, <1>2, <1>3, <1>4, <1>5, <1>6, <1>7 DEF Next

\* For any number of calls and streams, however late or often a call is answered
\* and whenever it is given up: the handler of a stream never sends an answer into
\* a channel that is closed, and never blocks on one that is full, while it holds
\* the lock of the worker (worker.go:146, :187).
THEOREM AnswersFindRoom == Spec => []ChannelReady
<1>1. CallInv => ChannelReady
  <2> SUFFICES ASSUME CallInv, NEW r \in pending PROVE ~chan[r].closed /\ ~chan[r].full
    BY DEF ChannelReady
  <2>1. r \in Calls
    BY DEF CallInv, CallTypes
  <2> QED
    BY <2>1 DEF CallInv, Lives, Life, Awaited
<1> QED
  BY <1>1, InitCalls, CallStepLemma, PTL DEF Spec

-----------------------------------------------------------------------------
(* Every call is accounted for.                                            *)

UpMessage ==
    {m \in [type : {"heartbeat", "notice", "response"}, call : Calls \cup {None}] :
        m.type # "response" => m.call = None}
DownMessage == [type : {"request", "ack"}, call : Calls \cup {None}]

StreamTypes ==
    /\ queue \in Seq(UpMessage) /\ handling \subseteq Calls
    /\ up \in [Streams -> Seq(UpMessage)] /\ down \in [Streams -> Seq(DownMessage)]
    /\ handler \subseteq Streams
    /\ current \in Streams \cup {None} /\ opened \in 0..MaxStreams

\* A call that is not pending has its answer.
Answered == \A r \in Calls :
    call[r].pc \in {"registered", "waiting"} => r \in pending \/ chan[r].full

StreamInv == CallInv /\ StreamTypes /\ Answered /\ CallAccounted

\* A message at the end of a queue adds its call.
LEMMA CallsInAppend ==
    ASSUME NEW S, NEW s \in Seq(S), NEW m \in S
    PROVE  CallsIn(Append(s, m)) = CallsIn(s) \cup CallsIn(<<m>>)
<1>1. /\ DOMAIN Append(s, m) = DOMAIN s \cup {Len(s) + 1} /\ DOMAIN <<m>> = {1}
      /\ Append(s, m)[Len(s) + 1] = m /\ \A i \in DOMAIN s : Append(s, m)[i] = s[i]
  OBVIOUS
<1>2. <<m>>[1] = m
  OBVIOUS
<1> QED
  BY <1>1, <1>2 DEF CallsIn

\* The first message of a queue takes its call along, and no other.
LEMMA CallsInTail ==
    ASSUME NEW S, NEW s \in Seq(S), s # <<>>
    PROVE  /\ CallsIn(s) = CallsIn(<<Head(s)>>) \cup CallsIn(Tail(s))
           /\ Head(s) \in S /\ Tail(s) \in Seq(S)
<1>1. /\ Head(s) \in S /\ Tail(s) \in Seq(S)
      /\ Head(s) = s[1] /\ 1 \in DOMAIN s
      /\ \A i \in DOMAIN Tail(s) : i + 1 \in DOMAIN s /\ Tail(s)[i] = s[i + 1]
      /\ \A i \in DOMAIN s : i = 1 \/ (i - 1 \in DOMAIN Tail(s) /\ Tail(s)[i - 1] = s[i])
  OBVIOUS
<1>2. CallsIn(<<Head(s)>>) = {Head(s).call} \ {None}
  <2>1. DOMAIN <<Head(s)>> = {1} /\ <<Head(s)>>[1] = Head(s)
    OBVIOUS
  <2> QED
    BY <2>1 DEF CallsIn
<1>3. ASSUME NEW r \in CallsIn(s) PROVE r \in CallsIn(<<Head(s)>>) \cup CallsIn(Tail(s))
  <2>1. PICK i \in DOMAIN s : r = s[i].call /\ r # None
    BY <1>3 DEF CallsIn
  <2>2. CASE i = 1
    BY <1>1, <1>2, <2>1, <2>2
  <2>3. CASE i # 1
    BY <1>1, <2>1, <2>3 DEF CallsIn
  <2> QED
    BY <2>2, <2>3
<1>4. ASSUME NEW r \in CallsIn(<<Head(s)>>) \cup CallsIn(Tail(s)) PROVE r \in CallsIn(s)
  <2>1. CASE r \in CallsIn(<<Head(s)>>)
    BY <1>1, <1>2, <2>1 DEF CallsIn
  <2>2. CASE r \in CallsIn(Tail(s))
    BY <1>1, <2>2 DEF CallsIn
  <2> QED
    BY <1>4, <2>1, <2>2
<1> QED
  BY <1>1, <1>3, <1>4

\* One message, and none.
LEMMA CallsInOne ==
    ASSUME NEW m
    PROVE  CallsIn(<<m>>) = {m.call} \ {None} /\ CallsIn(<<>>) = {}
<1>1. DOMAIN <<m>> = {1} /\ <<m>>[1] = m /\ DOMAIN <<>> = {}
  OBVIOUS
<1> QED
  BY <1>1 DEF CallsIn

\* Nothing has been sent.
LEMMA InitStream == Init => StreamInv
<1> SUFFICES ASSUME Init PROVE StreamInv
  OBVIOUS
<1>1. StreamTypes
  BY BoundsAssumption DEF Init, StreamTypes
<1>2. Answered /\ CallAccounted
  BY DEF Init, Answered, CallAccounted
<1> QED
  BY <1>1, <1>2, InitCalls DEF StreamInv

\* A step that leaves the messages where they are and no call newly waiting.
LEMMA StillSomewhere ==
    ASSUME StreamInv, CallInv', UNCHANGED <<queue, handling, up, down, handler, current, opened, lost>>,
           \A r \in Calls : call'[r].pc \in {"registered", "waiting"} =>
               /\ r \in pending' \/ chan'[r].full
               /\ call'[r].pc = "waiting" => call[r].pc = "waiting"
               /\ chan[r].full => chan'[r].full
    PROVE  StreamInv'
<1>1. StreamTypes'
  BY DEF StreamInv, StreamTypes
<1>2. Answered'
  BY DEF Answered
<1>3. CallAccounted'
  BY DEF StreamInv, CallAccounted, Somewhere
<1> QED
  BY <1>1, <1>2, <1>3 DEF StreamInv

\* The steps of a call but for its request (worker.go:134-179).
LEMMA CallKeepsStream ==
    ASSUME StreamInv, CallInv', NEW r \in Calls,
           CallGrpc(r) \/ GetResponse(r) \/ GiveUp(r) \/ Cleanup(r) \/ CloseChannel(r)
    PROVE  StreamInv'
<1> USE DEF StreamInv, CallInv, CallTypes, network, workerVars
<1>1. UNCHANGED <<queue, handling, up, down, handler, current, opened, lost>>
  BY DEF CallGrpc, GetResponse, GiveUp, Cleanup, CloseChannel, CleanupStep
<1>2. CASE CallGrpc(r)
  <2>1. call[r].pc = "idle" /\ UNCHANGED chan
    BY <1>2 DEF CallGrpc
  <2>2. CASE SetCall(r, "done", "not connected") /\ UNCHANGED pending
    BY <1>1, <2>1, <2>2, StillSomewhere DEF SetCall, Answered
  <2>3. CASE SetCall(r, "registered", None) /\ pending' = pending \cup {r}
    BY <1>1, <2>1, <2>3, StillSomewhere DEF SetCall, Answered
  <2> QED
    BY <1>2, <2>2, <2>3 DEF CallGrpc
<1>3. ASSUME NEW p \in {"cleanup", "closing", "done"}, SetCall(r, p, call'[r].result),
             pending' = pending \/ pending' = pending \ {r},
             \A q \in Calls : q # r => chan'[q] = chan[q]
      PROVE  StreamInv'
  <2>1. \A q \in Calls : call'[q].pc \in {"registered", "waiting"} => q # r /\ call'[q] = call[q]
    BY <1>3 DEF SetCall
  <2> QED
    BY <1>1, <1>3, <2>1, StillSomewhere DEF Answered
<1>4. CASE GetResponse(r)
  <2>1. SetCall(r, "cleanup", "answer") /\ chan' = [chan EXCEPT ![r].full = FALSE] /\ UNCHANGED pending
    BY <1>4 DEF GetResponse
  <2>2. SetCall(r, "cleanup", call'[r].result)
    BY <2>1 DEF SetCall
  <2> QED
    BY <1>3, <2>1, <2>2
<1>5. CASE GiveUp(r)
  <2>1. SetCall(r, "cleanup", "gave up") /\ UNCHANGED <<chan, pending>>
    BY <1>5 DEF GiveUp
  <2>2. SetCall(r, "cleanup", call'[r].result)
    BY <2>1 DEF SetCall
  <2> QED
    BY <1>3, <2>1, <2>2
<1>6. CASE Cleanup(r)
  <2>1. SetCall(r, "closing", call[r].result) /\ UNCHANGED chan /\ pending' = pending \ {r}
    BY <1>6 DEF Cleanup, CleanupStep, CleanupOrder
  <2>2. SetCall(r, "closing", call'[r].result)
    BY <2>1 DEF SetCall
  <2> QED
    BY <1>3, <2>1, <2>2
<1>7. CASE CloseChannel(r)
  <2>1. SetCall(r, "done", call[r].result) /\ chan' = [chan EXCEPT ![r].closed = TRUE] /\ UNCHANGED pending
    BY <1>7 DEF CloseChannel, CleanupStep, CleanupOrder
  <2>2. SetCall(r, "done", call'[r].result)
    BY <2>1 DEF SetCall
  <2> QED
    BY <1>3, <2>1, <2>2
<1> QED
  BY <1>2, <1>4, <1>5, <1>6, <1>7

\* The request of a call is under way, or lost (worker.go:149-163).
LEMMA SendKeepsStream ==
    ASSUME StreamInv, CallInv', NEW r \in Calls, SendRequest(r)
    PROVE  StreamInv'
<1> USE BoundsAssumption DEF StreamInv, CallInv, CallTypes
<1>1. /\ call[r].pc = "registered"
      /\ UNCHANGED <<queue, handling, up, handler, current, opened, pending, chan>>
  BY DEF SendRequest, workerVars
<1>2. CASE SetCall(r, "cleanup", "send failed") /\ UNCHANGED <<down, lost>>
  <2>1. \A q \in Calls : call'[q].pc \in {"registered", "waiting"} => call'[q] = call[q]
    BY <1>2 DEF SetCall
  <2> QED
    BY <1>1, <1>2, <2>1, StillSomewhere DEF Answered
<1>3. CASE stream \in handler /\ SetCall(r, "waiting", None)
           /\ IF stream \in broken
              THEN lost' = lost \cup {r} /\ UNCHANGED down
              ELSE /\ down' = [down EXCEPT ![stream] = Append(@, Message("request", r))]
                   /\ UNCHANGED lost
  <2>1. stream \in Streams
    BY <1>3 DEF StreamTypes
  <2>2. Answered'
    BY <1>1, <1>3 DEF Answered, SetCall
  <2>3. \A q \in Calls : q # r => call'[q] = call[q]
    BY <1>3 DEF SetCall
  <2>4. CASE lost' = lost \cup {r} /\ UNCHANGED down
    <3>1. CallAccounted'
      BY <1>1, <2>3, <2>4 DEF CallAccounted, Somewhere
    <3> QED
      BY <1>1, <2>2, <2>4, <3>1 DEF StreamTypes
  <2>5. CASE down' = [down EXCEPT ![stream] = Append(@, Message("request", r))]
             /\ UNCHANGED lost
    <3>1. Message("request", r) \in DownMessage /\ Message("request", r).call = r /\ r # None
      BY DEF Message, DownMessage
    <3>2. /\ down' \in [Streams -> Seq(DownMessage)]
          /\ down'[stream] = Append(down[stream], Message("request", r))
          /\ \A n \in Streams : n # stream => down'[n] = down[n]
      BY <2>1, <2>5, <3>1 DEF StreamTypes
    <3>3. CallsIn(down'[stream]) = CallsIn(down[stream]) \cup {r}
      <4>1. CallsIn(<<Message("request", r)>>) = {r}
        BY <3>1, CallsInOne
      <4>2. down[stream] \in Seq(DownMessage)
        BY <2>1 DEF StreamTypes
      <4> QED
        BY <3>1, <3>2, <4>1, <4>2, CallsInAppend
    <3>4. CallAccounted'
      <4> SUFFICES ASSUME NEW q \in Calls, call'[q].pc = "waiting", q \notin lost
                   PROVE  Somewhere(q)'
        BY <2>5 DEF CallAccounted
      <4>1. CASE q = r
        BY <2>1, <3>3, <4>1 DEF Somewhere
      <4>2. CASE q # r
        <5>1. Somewhere(q)
          BY <2>3, <4>2 DEF CallAccounted
        <5> QED
          BY <1>1, <3>2, <3>3, <5>1 DEF Somewhere
      <4> QED
        BY <4>1, <4>2
    <3> QED
      BY <1>1, <2>2, <3>2, <3>4 DEF StreamTypes
  <2> QED
    BY <1>3, <2>4, <2>5
<1> QED
  BY <1>2, <1>3 DEF SendRequest

\* A message goes from the worker's queue into its stream, or is lost with it; a
\* request becomes a task, and a task an answer (task_worker_grpc.py:48-122).
LEMMA WorkerKeepsStream ==
    ASSUME StreamInv, CallInv',
           SendLoop \/ SendHeartbeat \/ SendCancelNotice \/ \E r \in Calls : RouteMessage(r)
    PROVE  StreamInv'
<1> USE BoundsAssumption DEF StreamInv, CallInv, CallTypes
<1>1. UNCHANGED <<call, pending, chan, handler, current, opened, down>>
  BY DEF SendLoop, SendHeartbeat, SendCancelNotice, RouteMessage, controllerVars, network
<1>2. Answered'
  BY <1>1 DEF Answered
<1>3. CASE SendHeartbeat \/ SendCancelNotice
  <2>1. PICK t \in {"heartbeat", "notice"} : queue' = Append(queue, Message(t, None))
    BY <1>3 DEF SendHeartbeat, SendCancelNotice
  <2>2. UNCHANGED <<up, handling, lost>>
    BY <1>3 DEF SendHeartbeat, SendCancelNotice, network
  <2>3. Message(t, None) \in UpMessage
    BY DEF Message, UpMessage
  <2>4. queue \in Seq(UpMessage)
    BY DEF StreamTypes
  <2>5. queue' \in Seq(UpMessage) /\ CallsIn(queue) \subseteq CallsIn(queue')
    <3>1. CallsIn(Append(queue, Message(t, None))) = CallsIn(queue) \cup CallsIn(<<Message(t, None)>>)
      BY <2>3, <2>4, CallsInAppend
    <3> QED
      BY <2>1, <2>3, <2>4, <3>1
  <2> QED
    BY <1>1, <1>2, <2>2, <2>5 DEF StreamTypes, CallAccounted, Somewhere
<1>4. ASSUME NEW r \in Calls, RouteMessage(r) PROVE StreamInv'
  <2>1. /\ handling' = handling \ {r} /\ queue' = Append(queue, Message("response", r))
        /\ UNCHANGED <<up, lost>>
    BY <1>4 DEF RouteMessage, Routed, network
  <2>2. Message("response", r) \in UpMessage /\ Message("response", r).call = r /\ r # None
    BY DEF Message, UpMessage
  <2>3. queue \in Seq(UpMessage)
    BY DEF StreamTypes
  <2>4. CallsIn(<<Message("response", r)>>) = {r}
    BY <2>2, CallsInOne
  <2>5. queue' \in Seq(UpMessage) /\ CallsIn(queue') = CallsIn(queue) \cup {r}
    BY <2>1, <2>2, <2>3, <2>4, CallsInAppend
  <2> QED
    BY <1>1, <1>2, <2>1, <2>5 DEF StreamTypes, CallAccounted, Somewhere
<1>5. CASE SendLoop
  <2>1. /\ current \in Streams /\ queue # <<>> /\ queue' = Tail(queue)
        /\ UNCHANGED handling
    BY <1>5 DEF SendLoop, StreamTypes
  <2>2. PICK m : m = Head(queue)
    OBVIOUS
  <2>3. /\ queue \in Seq(UpMessage) /\ up[current] \in Seq(UpMessage)
    BY <2>1 DEF StreamTypes
  <2>4. /\ CallsIn(queue) = CallsIn(<<m>>) \cup CallsIn(queue')
        /\ m \in UpMessage /\ queue' \in Seq(UpMessage)
    BY <2>1, <2>2, <2>3, CallsInTail
  <2>5. CASE up' = [up EXCEPT ![current] = Append(@, Head(queue))] /\ UNCHANGED lost
    <3>1. up' = [up EXCEPT ![current] = Append(up[current], m)]
      BY <2>2, <2>5
    <3>2. /\ up' \in [Streams -> Seq(UpMessage)]
          /\ up'[current] = Append(up[current], m)
          /\ \A n \in Streams : n # current => up'[n] = up[n]
      BY <2>1, <2>4, <3>1 DEF StreamTypes
    <3>3. CallsIn(up'[current]) = CallsIn(up[current]) \cup CallsIn(<<m>>)
      BY <2>3, <2>4, <3>2, CallsInAppend
    <3>4. CallAccounted'
      <4> SUFFICES ASSUME NEW q \in Calls, Somewhere(q) PROVE Somewhere(q)'
        BY <1>1, <2>5 DEF CallAccounted
      <4>1. CASE q \in CallsIn(<<m>>)
        BY <2>1, <3>3, <4>1 DEF Somewhere
      <4>2. CASE q \notin CallsIn(<<m>>)
        BY <1>1, <2>1, <2>4, <3>2, <3>3, <4>2 DEF Somewhere
      <4> QED
        BY <4>1, <4>2
    <3> QED
      BY <1>1, <1>2, <2>1, <2>4, <3>2, <3>4 DEF StreamTypes
  <2>6. CASE lost' = lost \cup CallsIn(<<Head(queue)>>) /\ UNCHANGED up
    <3>1. CallAccounted'
      BY <1>1, <2>1, <2>2, <2>4, <2>6 DEF CallAccounted, Somewhere
    <3> QED
      BY <1>1, <1>2, <2>1, <2>4, <2>6, <3>1 DEF StreamTypes
  <2> QED
    BY <1>5, <2>5, <2>6 DEF SendLoop
<1> QED
  BY <1>3, <1>4, <1>5

\* A new stream, the end of one, and the receive loop (task_worker_grpc.py:124-201).
LEMMA LinkKeepsStream ==
    ASSUME StreamInv, CallInv', WorkerStep
    PROVE  StreamInv'
<1> USE BoundsAssumption DEF StreamInv, CallInv, CallTypes
<1>1. UNCHANGED <<call, pending, chan, up, queue, lost>>
  BY DEF WorkerStep, Connect, ReceiveLoop, Reconnect, controllerVars, network
<1>2. Answered'
  BY <1>1 DEF Answered
<1>3. CASE Connect \/ Reconnect
  <2>1. UNCHANGED <<down, handling>>
    BY <1>3 DEF Connect, Reconnect, network
  <2>2. /\ handler' \subseteq Streams /\ current' \in Streams \cup {None}
        /\ opened' \in 0..MaxStreams
    <3>1. CASE Connect
      <4>1. opened' = opened + 1 /\ opened < MaxStreams /\ current' = opened'
            /\ handler' = handler \cup {opened'}
        BY <3>1 DEF Connect
      <4>2. opened' \in Streams /\ opened' \in 0..MaxStreams
        BY <4>1 DEF StreamTypes, Streams
      <4> QED
        BY <4>1, <4>2 DEF StreamTypes
    <3>2. CASE Reconnect
      BY <3>2 DEF Reconnect, controllerVars, StreamTypes
    <3> QED
      BY <1>3, <3>1, <3>2
  <2> QED
    BY <1>1, <1>2, <2>1, <2>2 DEF StreamTypes, CallAccounted, Somewhere
<1>4. CASE ReceiveLoop
  <2>1. /\ current \in Streams /\ down[current] # <<>>
        /\ down' = [down EXCEPT ![current] = Tail(down[current])]
        /\ handling' = handling \cup CallsIn(<<Head(down[current])>>)
        /\ UNCHANGED <<handler, current, opened>>
    BY <1>4 DEF ReceiveLoop, StreamTypes, controllerVars
  <2>2. PICK m : m = Head(down[current])
    OBVIOUS
  <2>3. down[current] \in Seq(DownMessage)
    BY <2>1 DEF StreamTypes
  <2>4. /\ CallsIn(down[current]) = CallsIn(<<m>>) \cup CallsIn(Tail(down[current]))
        /\ m \in DownMessage /\ Tail(down[current]) \in Seq(DownMessage)
    BY <2>1, <2>2, <2>3, CallsInTail
  <2>5. /\ down' \in [Streams -> Seq(DownMessage)]
        /\ down'[current] = Tail(down[current])
        /\ \A n \in Streams : n # current => down'[n] = down[n]
    BY <2>1, <2>4 DEF StreamTypes
  <2>6. CallsIn(<<m>>) \subseteq Calls
    BY <2>4, CallsInOne DEF DownMessage
  <2>7. CallAccounted'
    <3> SUFFICES ASSUME NEW q \in Calls, Somewhere(q) PROVE Somewhere(q)'
      BY <1>1 DEF CallAccounted
    <3>1. CASE q \in CallsIn(<<m>>)
      BY <2>1, <2>2, <3>1 DEF Somewhere
    <3>2. CASE q \notin CallsIn(<<m>>)
      BY <1>1, <2>1, <2>2, <2>4, <2>5, <3>2 DEF Somewhere
    <3> QED
      BY <3>1, <3>2
  <2> QED
    BY <1>1, <1>2, <2>1, <2>2, <2>5, <2>6, <2>7 DEF StreamTypes
<1> QED
  BY <1>3, <1>4 DEF WorkerStep

\* The handler of a stream: an answer goes into its channel, or is counted as lost,
\* and whatever else it takes from the stream belongs to no call (grpc.go:95-157).
LEMMA ReceiveKeepsStream ==
    ASSUME StreamInv, CallInv', NEW n \in Streams, Receive(n)
    PROVE  StreamInv'
<1> USE BoundsAssumption DEF StreamInv, CallInv, CallTypes
<1>1. /\ up[n] # <<>> /\ up' = [up EXCEPT ![n] = Tail(up[n])]
      /\ UNCHANGED <<handler, current, opened, queue, handling, call>>
  BY DEF Receive, workerVars, ReceiveHeartbeat, ReceiveResponse, ReceiveNotice
<1>2. PICK m : m = Head(up[n])
  OBVIOUS
<1>3. up[n] \in Seq(UpMessage) /\ down[n] \in Seq(DownMessage)
  BY DEF StreamTypes
<1>4. /\ CallsIn(up[n]) = CallsIn(<<m>>) \cup CallsIn(Tail(up[n]))
      /\ m \in UpMessage /\ Tail(up[n]) \in Seq(UpMessage)
  BY <1>1, <1>2, <1>3, CallsInTail
<1>5. /\ up' \in [Streams -> Seq(UpMessage)]
      /\ up'[n] = Tail(up[n])
      /\ \A k \in Streams : k # n => up'[k] = up[k]
  BY <1>1, <1>4 DEF StreamTypes
<1>6. CallsIn(<<m>>) = {m.call} \ {None}
  BY CallsInOne
<1>7. CASE ReceiveHeartbeat(n) \/ ReceiveNotice(n)
  <2>1. CallsIn(<<m>>) = {}
    BY <1>2, <1>4, <1>6, <1>7 DEF ReceiveHeartbeat, ReceiveNotice, UpMessage
  <2>2. UNCHANGED <<pending, chan, lost>>
    BY <1>7 DEF ReceiveHeartbeat, ReceiveNotice
  <2>3. down' \in [Streams -> Seq(DownMessage)]
        /\ \A k \in Streams : CallsIn(down[k]) \subseteq CallsIn(down'[k])
    <3>1. CASE UNCHANGED down
      BY <3>1 DEF StreamTypes
    <3>2. CASE down' = [down EXCEPT ![n] = Append(@, Message("ack", None))]
      <4>1. Message("ack", None) \in DownMessage
        BY DEF Message, DownMessage
      <4>2. /\ down' \in [Streams -> Seq(DownMessage)]
            /\ down'[n] = Append(down[n], Message("ack", None))
            /\ \A k \in Streams : k # n => down'[k] = down[k]
        BY <3>2, <4>1 DEF StreamTypes
      <4>3. CallsIn(down[n]) \subseteq CallsIn(down'[n])
        <5>1. CallsIn(Append(down[n], Message("ack", None)))
                = CallsIn(down[n]) \cup CallsIn(<<Message("ack", None)>>)
          BY <1>3, <4>1, CallsInAppend
        <5> QED
          BY <4>2, <5>1
      <4> QED
        BY <4>2, <4>3
    <3> QED
      BY <1>7, <3>1, <3>2 DEF ReceiveHeartbeat, ReceiveNotice
  <2>4. CallAccounted'
    <3> SUFFICES ASSUME NEW q \in Calls, Somewhere(q) PROVE Somewhere(q)'
      BY <1>1, <2>2 DEF CallAccounted
    <3> QED
      BY <1>1, <1>4, <1>5, <2>1, <2>2, <2>3 DEF Somewhere
  <2>5. Answered'
    BY <1>1, <2>2 DEF Answered
  <2> QED
    BY <1>1, <1>5, <2>3, <2>4, <2>5 DEF StreamTypes
<1>8. CASE ReceiveResponse(n)
  <2>0. UNCHANGED down
    BY <1>8 DEF ReceiveResponse
  <2>1. CASE UNCHANGED <<pending, chan>> /\ lost' = lost \cup {m.call}
    <3>1. CallAccounted'
      <4> SUFFICES ASSUME NEW q \in Calls, Somewhere(q), q # m.call PROVE Somewhere(q)'
        BY <1>1, <2>1 DEF CallAccounted
      <4> QED
        BY <1>1, <1>4, <1>5, <1>6, <2>0, <2>1 DEF Somewhere
    <3>2. Answered'
      BY <1>1, <2>1 DEF Answered
    <3> QED
      BY <1>1, <1>5, <2>0, <3>1, <3>2 DEF StreamTypes
  <2>2. CASE FinalizeGrpcCall(m.call) /\ UNCHANGED lost
    <3>1. \A q \in Calls : /\ q \in pending /\ q \notin pending' => q = m.call /\ chan'[q].full
                           /\ chan[q].full => chan'[q].full
      BY <2>2 DEF FinalizeGrpcCall
    <3>2. Answered'
      BY <1>1, <3>1 DEF Answered
    <3>3. CallAccounted'
      <4> SUFFICES ASSUME NEW q \in Calls, Somewhere(q), call[q].pc = "waiting"
                   PROVE  Somewhere(q)'
        BY <1>1, <2>2 DEF CallAccounted
      <4>1. CASE q = m.call
        <5>1. m.call \notin pending'
          BY <2>2 DEF FinalizeGrpcCall
        <5> QED
          BY <3>1, <4>1, <5>1 DEF Answered, Somewhere
      <4>2. CASE q # m.call
        BY <1>1, <1>4, <1>5, <1>6, <2>0, <3>1, <4>2 DEF Somewhere
      <4> QED
        BY <4>1, <4>2
    <3> QED
      BY <1>1, <1>5, <2>0, <3>2, <3>3 DEF StreamTypes
  <2> QED
    BY <1>2, <1>8, <2>1, <2>2 DEF ReceiveResponse
<1> QED
  BY <1>7, <1>8 DEF Receive

\* The handler of a stream ends, and the network breaks a stream.
LEMMA BreakKeepsStream ==
    ASSUME StreamInv, CallInv', NEW n \in Streams, StreamEnds(n) \/ Break(n)
    PROVE  StreamInv'
<1> USE BoundsAssumption DEF StreamInv, CallInv, CallTypes
<1>1. UNCHANGED <<call, pending, chan, queue, handling, current, opened>>
  BY DEF StreamEnds, Break, controllerVars, workerVars
<1>2. Answered'
  BY <1>1 DEF Answered
<1>3. CASE StreamEnds(n)
  BY <1>1, <1>2, <1>3 DEF StreamEnds, network, StreamTypes, CallAccounted, Somewhere
<1>4. CASE Break(n)
  <2>1. /\ lost' = lost \cup CallsIn(up[n]) \cup CallsIn(down[n])
        /\ up' = [up EXCEPT ![n] = <<>>] /\ down' = [down EXCEPT ![n] = <<>>]
        /\ UNCHANGED handler
    BY <1>4 DEF Break, controllerVars
  <2>2. \A k \in Streams : k # n => up'[k] = up[k] /\ down'[k] = down[k]
    BY <2>1 DEF StreamTypes
  <2>3. CallAccounted'
    <3> SUFFICES ASSUME NEW q \in Calls, Somewhere(q),
                        q \notin CallsIn(up[n]), q \notin CallsIn(down[n])
                 PROVE  Somewhere(q)'
      BY <1>1, <2>1 DEF CallAccounted
    <3> QED
      BY <1>1, <2>2 DEF Somewhere
  <2>4. StreamTypes'
    BY <1>1, <2>1 DEF StreamTypes
  <2> QED
    BY <1>2, <2>3, <2>4
<1> QED
  BY <1>3, <1>4

\* Every step of calls, streams, worker and network.
LEMMA StreamStep == StreamInv /\ [Next]_vars => StreamInv'
<1> SUFFICES ASSUME StreamInv, [Next]_vars PROVE StreamInv'
  OBVIOUS
<1>0. CallInv'
  BY CallStepLemma DEF StreamInv
<1>1. CASE UNCHANGED vars
  BY <1>0, <1>1, StillSomewhere DEF vars, StreamInv, Answered
<1>2. ASSUME NEW r \in Calls, CallStep(r) \/ GiveUp(r) PROVE StreamInv'
  BY <1>0, <1>2, CallKeepsStream, SendKeepsStream DEF CallStep
<1>3. ASSUME NEW n \in Streams, Receive(n) \/ StreamEnds(n) \/ Break(n) PROVE StreamInv'
  BY <1>0, <1>3, ReceiveKeepsStream, BreakKeepsStream
<1> QED
  BY <1>0, <1>1, <1>2, <1>3, LinkKeepsStream, WorkerKeepsStream DEF Next

\* For any number of calls and streams, however the streams break: a call that waits
\* has its request, its task or its answer somewhere, or was lost with a stream, or by
\* one that had brought no heartbeat yet (task_worker_grpc.py:48-122, grpc.go:143-157).
THEOREM NoCallForgotten == Spec => []CallAccounted
<1>1. StreamInv => CallAccounted
  BY DEF StreamInv
<1> QED
  BY <1>1, InitStream, StreamStep, PTL DEF Spec
=============================================================================
