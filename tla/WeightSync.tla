----------------------------- MODULE WeightSync -----------------------------
(***************************************************************************)
(* New weights go from the trainer to a rollout worker: NCCLTensorSender   *)
(* packs the parameters into buckets, NCCLTensorReceiver takes the writer  *)
(* lock of the worker and applies the buckets, one while the next is being *)
(* received (trainer/components/nccl_tensor_comm.py, async_sglang_worker). *)
(* Calls of generate run beside it under the reader lock.                  *)
(*                                                                         *)
(* The k-th transfer writes version k; Writers are the transfers.  Training *)
(* asks for them.                                                          *)
(***************************************************************************)
EXTENDS RWLock, Sequences

CONSTANTS
    Rounds,         \* number of transfers
    Size,           \* sizes of the parameters, in the order of param_generator
    BucketSize

ASSUME RoundAssumption ==
    /\ Rounds \in Nat \ {0} /\ Writers = 1..Rounds     \* there always is a first one
    /\ BucketSize \in Nat
    /\ Size \in Seq(Nat)

Params == DOMAIN Size

VARIABLES
    round,          \* transfers begun
    sender,         \* NCCLTensorSender.send: next parameter, buffer, size
    chan,           \* broadcasts the receiver has not taken: a bucket and its done flag
    sent,           \* transfer -> parameters put into its buckets
    rpc,            \* transfer -> where its async_receive is
    update,         \* transfer -> its update_params task
    weights,        \* parameter -> version in the engine
    seen            \* generation -> weights when it began

sendVars == <<round, sender, chan, sent>>
recvVars == <<rpc, update, weights>>
syncVars == <<lockVars, sendVars, recvVars, seen>>

RecvPc == {"off", "lock", "flush", "buffer", "await", "flag", "final", "end"}
NoUpdate == [on |-> FALSE, keys |-> {}]
Idle == [on |-> FALSE, next |-> 1, buffer |-> {}, size |-> 0]

SyncInit ==
    /\ LockInit
    /\ round = 0 /\ sender = Idle /\ chan = <<>>
    /\ sent = [w \in Writers |-> {}]
    /\ rpc = [w \in Writers |-> "off"]
    /\ update = [w \in Writers |-> NoUpdate]
    /\ weights = [p \in Params |-> 0]
    /\ seen = [r \in Readers |-> [p \in Params |-> 0]]

\* All tasks are gone and there are new ones, as in SyncInit.
SyncReset ==
    /\ readers' = 0 /\ writerActive' = FALSE /\ waitingWriters' = 0
    /\ activeReaders' = {} /\ cancelled' = {}
    /\ pc' = [t \in Readers \cup Writers |-> "new"]
    /\ round' = 0 /\ sender' = Idle /\ chan' = <<>>
    /\ sent' = [w \in Writers |-> {}]
    /\ rpc' = [w \in Writers |-> "off"]
    /\ update' = [w \in Writers |-> NoUpdate]
    /\ weights' = [p \in Params |-> 0]
    /\ seen' = [r \in Readers |-> [p \in Params |-> 0]]

\* The trainer asks for a transfer, and sender and receiver meet at the barrier.
\* It waits for every transfer but the first to be complete; the sender is busy
\* until its last broadcast has been taken.
StartRound(w) ==
    /\ w = round + 1
    /\ ~sender.on /\ chan = <<>>
    /\ w > 2 => rpc[w - 1] = "end"
    /\ round' = w
    /\ sender' = [Idle EXCEPT !.on = TRUE]
    /\ rpc' = [rpc EXCEPT ![w] = "lock"]
    /\ UNCHANGED <<lockVars, chan, sent, update, weights, seen>>

Broadcast(last) ==
    /\ chan' = Append(chan, [keys |-> sender.buffer, last |-> last])
    /\ sent' = [sent EXCEPT ![round] = @ \cup sender.buffer]

\* A parameter that fills the bucket flushes it, and is not in the next one.
SendParam ==
    LET size == sender.size + Size[sender.next] IN
    /\ sender.on /\ sender.next \in Params
    /\ IF size >= BucketSize
       THEN /\ Broadcast(FALSE)
            /\ sender' = [Idle EXCEPT !.on = TRUE, !.next = sender.next + 1]
       ELSE /\ sender' = [on |-> TRUE, next |-> sender.next + 1,
                          buffer |-> sender.buffer \cup {sender.next}, size |-> size]
            /\ UNCHANGED <<chan, sent>>
    /\ UNCHANGED <<lockVars, round, recvVars, seen>>

SendLast ==
    /\ sender.on /\ sender.next \notin Params
    /\ Broadcast(TRUE)
    /\ sender' = Idle
    /\ UNCHANGED <<lockVars, round, recvVars, seen>>

-----------------------------------------------------------------------------
(* async_receive.                                                          *)

Goto(w, p) == rpc' = [rpc EXCEPT ![w] = p]

\* async_acquire_writer_lock, then flush_cache until it succeeds.
ReceiveLock(w) ==
    /\ rpc[w] = "lock"
    /\ AcquireWriter(w)
    /\ IF pc'[w] = "held" THEN Goto(w, "flush") ELSE UNCHANGED rpc
    /\ UNCHANGED <<sendVars, update, weights, seen>>

FlushCache(w) ==
    /\ rpc[w] = "flush"
    /\ Goto(w, "buffer")
    /\ UNCHANGED <<lockVars, sendVars, update, weights, seen>>

ReceiveBuffer(w) ==
    /\ rpc[w] = "buffer" /\ chan # <<>>
    /\ Goto(w, "await")
    /\ UNCHANGED <<lockVars, sendVars, update, weights, seen>>

\* The previous update is awaited, then the next one is started.
StartUpdate(w) ==
    /\ rpc[w] = "await" /\ ~update[w].on
    /\ update' = [update EXCEPT ![w] = [on |-> TRUE, keys |-> Head(chan).keys]]
    /\ Goto(w, "flag")
    /\ UNCHANGED <<lockVars, sendVars, weights, seen>>

UpdateParams(w) ==
    /\ update[w].on
    /\ weights' = [p \in Params |-> IF p \in update[w].keys THEN w ELSE weights[p]]
    /\ update' = [update EXCEPT ![w] = NoUpdate]
    /\ UNCHANGED <<lockVars, sendVars, rpc, seen>>

ReceiveFlag(w) ==
    /\ rpc[w] = "flag"
    /\ Goto(w, IF Head(chan).last THEN "final" ELSE "buffer")
    /\ chan' = Tail(chan)
    /\ UNCHANGED <<lockVars, round, sender, sent, update, weights, seen>>

\* Mutated form of ReceiveEnd: the last update is not awaited.
ReceiveEndEarly(w) ==
    /\ rpc[w] = "final"
    /\ ReleaseWriter(w)
    /\ Goto(w, "end")
    /\ UNCHANGED <<sendVars, update, weights, seen>>

ReceiveEnd(w) ==
    /\ rpc[w] = "final" /\ ~update[w].on
    /\ ReleaseWriter(w)
    /\ Goto(w, "end")
    /\ UNCHANGED <<sendVars, update, weights, seen>>

\* generate: the engine works with the weights it finds.
GenerateStart(r) ==
    /\ AcquireReader(r)
    /\ seen' = IF pc'[r] = "held" THEN [seen EXCEPT ![r] = weights] ELSE seen
    /\ UNCHANGED <<sendVars, recvVars>>

GenerateEnd(r) ==
    /\ ReleaseReader(r)
    /\ UNCHANGED <<sendVars, recvVars, seen>>

Send == SendParam \/ SendLast
Receive(w) ==
    \/ ReceiveLock(w) \/ FlushCache(w) \/ ReceiveBuffer(w) \/ StartUpdate(w)
    \/ ReceiveFlag(w) \/ ReceiveEnd(w)

\* Everything but the request of the trainer.
SyncNext ==
    \/ \E w \in Writers : Receive(w) \/ UpdateParams(w)
    \/ Send
    \/ \E r \in Readers : GenerateStart(r) \/ GenerateEnd(r)

-----------------------------------------------------------------------------
(* Properties.                                                             *)

\* A generation runs from its first to its last token on the weights it began
\* with: no update is applied while a reader is inside, and none is left over
\* when the writer lock is released (nccl_tensor_comm.py:95-106).
NoTornGeneration == \A r \in Held(Readers) : weights = seen[r]

\* When a transfer is over, every parameter that was put into a bucket has at
\* least its version (nccl_tensor_comm.py:98-105).
BucketsApplied ==
    \A w \in Writers : rpc[w] = "end" => \A p \in sent[w] : weights[p] >= w
=============================================================================
