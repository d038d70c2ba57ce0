------------------------------ MODULE Rollouts ------------------------------
(***************************************************************************)
(* The rollouts of the trainer: DistributedTaskManager with its workers    *)
(* (trainer/components/task_manager.py) and their agent loop               *)
(* (agentic/loops.py, tasks.py), the Buffer that collects results by       *)
(* groups (buffer.py), and the trainer as its only user.  Training fills   *)
(* the queue and gets a batch in each step; validation puts its items and  *)
(* gets them all.  Each has a manager of its own, and a behaviour is about *)
(* one of the two.                                                         *)
(*                                                                         *)
(* An item is its position in the order of put; Source[i] is its group_id. *)
(* The data loader cycles, so a group_id comes back in a later pass.  The  *)
(* methods of Buffer run in one event loop: a stretch from one suspension  *)
(* to the next is one action.                                              *)
(***************************************************************************)
EXTENDS Integers, Sequences, FiniteSets

CONSTANTS
    Workers,        \* distributed_worker tasks
    Source,         \* the group_ids of the items, in the order of the data loader
    GroupSize,      \* buffer_group_size of training; that of validation is 1
    QueueSize,      \* max_queue_size
    MaxSize,        \* max_buffer_size
    FirstMinimum,   \* minimum of get in the first step and later
    Minimum,
    Multiple,       \* multiple of get
    MaxSteps,       \* bound: steps of the trainer
    MaxTurns,       \* max_turns of the agent loop
    MaxRetries,     \* max_retries of the agent loop
    MaxErrors,      \* bound: exceptions in agent loops
    ValCount        \* items of one validation

ASSUME SizeAssumption ==
    /\ \A n \in {GroupSize, QueueSize, MaxSize, Multiple, MaxTurns, MaxRetries} :
           n \in Nat \ {0}
    /\ \A n \in {FirstMinimum, Minimum, MaxSteps, MaxErrors, ValCount} : n \in Nat
    /\ IsFiniteSet(Workers)
    /\ Source \in Seq({Source[i] : i \in DOMAIN Source})

VARIABLES
    training,       \* whether the user is the training or the validation
    step,           \* steps the trainer has begun
    trainer,        \* where the trainer is: puts left, minimum of its get
    pending,        \* _pending_count
    next,           \* items put
    queue,          \* the Ray queue
    worker,         \* worker -> where it is, its item, the try and the turns of it
    errors,         \* exceptions in agent loops so far
    failures,       \* items lost so far
    groups,         \* Buffer.groups: incomplete groups, <<>> where there is none
    buffer,         \* Buffer.queue
    putSignal,      \* Buffer.put_signal and get_signal
    getSignal,
    batch,          \* what the last get returned
    delivered       \* all items returned by get

trainVars == <<training, step, trainer, pending, batch, delivered>>
bufVars == <<groups, buffer, putSignal, getSignal>>
lossVars == <<errors, failures>>
vars == <<trainVars, bufVars, next, queue, worker, lossVars>>

Items == DOMAIN Source
Groups == {Source[i] : i \in Items}
TrainerPc == {"idle", "put", "get", "wait", "woken"}
WorkerPc == {"idle", "start", "turn", "add", "wait", "woken"}
Free == [pc |-> "idle", item |-> 0, try |-> 0, turn |-> 0]

Init ==
    /\ training \in BOOLEAN
    /\ step = 0 /\ trainer = [pc |-> "idle", left |-> 0, minimum |-> 0]
    /\ pending = 0 /\ next = 0 /\ queue = <<>> /\ errors = 0 /\ failures = 0
    /\ worker = [w \in Workers |-> Free]
    /\ groups = [g \in Groups |-> <<>>] /\ buffer = <<>>
    /\ putSignal = FALSE /\ getSignal = FALSE
    /\ batch = <<>> /\ delivered = {}

-----------------------------------------------------------------------------
(* The trainer.                                                            *)

\* The queue is filled up; the number of puts is read once.
PrepareData ==
    /\ training /\ trainer.pc = "idle" /\ step < MaxSteps
    /\ Len(Source) - next >= QueueSize - Len(queue)
    /\ step' = step + 1
    /\ trainer' = [trainer EXCEPT !.pc = "put", !.left = QueueSize - Len(queue)]
    /\ UNCHANGED <<training, pending, batch, delivered, bufVars, next, queue, worker,
                   lossVars>>

LoadValData ==
    /\ ~training /\ trainer.pc = "idle" /\ step < MaxSteps
    /\ Len(Source) - next >= ValCount
    /\ step' = step + 1
    /\ trainer' = [trainer EXCEPT !.pc = "put", !.left = ValCount]
    /\ UNCHANGED <<training, pending, batch, delivered, bufVars, next, queue, worker,
                   lossVars>>

\* put: counted first, then the queue blocks while it is full.
Put ==
    /\ trainer.pc = "put" /\ trainer.left > 0
    /\ Len(queue) < QueueSize
    /\ pending' = pending + 1
    /\ next' = next + 1
    /\ queue' = Append(queue, next + 1)
    /\ trainer' = [trainer EXCEPT !.left = @ - 1]
    /\ UNCHANGED <<training, step, batch, delivered, bufVars, worker, lossVars>>

\* get with the minimum of the step, or get_all with the pending count.
CallGet ==
    /\ trainer.pc = "put" /\ trainer.left = 0
    /\ trainer' = [trainer EXCEPT
           !.pc = "get",
           !.minimum = IF ~training THEN pending
                       ELSE IF step = 1 THEN FirstMinimum ELSE Minimum]
    /\ UNCHANGED <<training, step, pending, batch, delivered, bufVars, next, queue, worker, lossVars>>

CommonMultiple(a, b, m) == m % a = 0 /\ m % b = 0
Lcm(a, b) ==
    CHOOSE m \in 1..(a * b) :
        CommonMultiple(a, b, m) /\ \A k \in 1..(m - 1) : ~CommonMultiple(a, b, k)

\* Mutated form of GetLength: exactly the minimum is taken.
GetLengthMinimum(n) == IF n >= trainer.minimum THEN trainer.minimum ELSE 0

\* How many of n items get takes: as many as there are whole multiples.
GetLength(n) ==
    LET m == IF training THEN Lcm(GroupSize, Multiple) ELSE 1 IN (n \div m) * m

\* The pending count after get or get_all.
CountOff(length) == IF training THEN pending - length ELSE 0

\* Buffer.get from its call or its last wake-up to its return or its next wait.
\* A signal that is still set is cleared before the queue is looked at again.
BufferGet ==
    LET length == GetLength(Len(buffer)) IN
    /\ trainer.pc \in {"get", "woken"}
    /\ IF length >= trainer.minimum
       THEN /\ batch' = SubSeq(buffer, 1, length)
            /\ buffer' = SubSeq(buffer, length + 1, Len(buffer))
            /\ delivered' = delivered \cup {buffer[k] : k \in 1..length}
            /\ getSignal' = TRUE
            /\ putSignal' = IF trainer.pc = "woken" THEN FALSE ELSE putSignal
            /\ worker' = [w \in Workers |-> IF worker[w].pc = "wait"
                             THEN [worker[w] EXCEPT !.pc = "woken"] ELSE worker[w]]
            /\ pending' = CountOff(length)
            /\ trainer' = [trainer EXCEPT !.pc = "idle"]
       ELSE /\ putSignal' = FALSE
            /\ trainer' = [trainer EXCEPT !.pc = "wait"]
            /\ UNCHANGED <<batch, buffer, delivered, getSignal, worker, pending>>
    /\ UNCHANGED <<training, step, groups, next, queue, lossVars>>

-----------------------------------------------------------------------------
(* The workers.                                                            *)

TakeItem(w) ==
    /\ worker[w].pc = "idle" /\ queue # <<>>
    /\ worker' = [worker EXCEPT ![w] = [pc |-> "start", item |-> Head(queue), try |-> 1, turn |-> 0]]
    /\ queue' = Tail(queue)
    /\ UNCHANGED <<trainVars, bufVars, next, lossVars>>

\* The controller has started a session, asked at most five times: a request that
\* seemed to fail may have left a session behind.
StartSample(w) ==
    /\ worker[w].pc = "start"
    /\ worker' = [worker EXCEPT ![w].pc = "turn"]
    /\ UNCHANGED <<trainVars, bufVars, next, queue, lossVars>>

\* The environment has answered, and the loop goes on or is over.  A session that
\* is over without being done is cancelled; an error of that is ignored.
Answered(w, over) ==
    IF over THEN [Free EXCEPT !.pc = "add", !.item = worker[w].item]
    ELSE [worker[w] EXCEPT !.turn = @ + 1]

\* The model generates and the environment answers; the loop is over when the
\* session is done, too long or out of turns.
TakeTurn(w) ==
    /\ worker[w].pc = "turn"
    /\ \E over \in BOOLEAN :
           /\ worker[w].turn + 1 = MaxTurns => over
           /\ worker' = [worker EXCEPT ![w] = Answered(w, over)]
    /\ UNCHANGED <<trainVars, bufVars, next, queue, lossVars>>

\* An exception: the session, if there is one, is left to itself, and the loop
\* starts over.  After its last try it returns None, and the item is gone.
Raise(w) ==
    /\ worker[w].pc \in {"start", "turn"} /\ errors < MaxErrors
    /\ errors' = errors + 1
    /\ IF worker[w].try < MaxRetries
       THEN /\ worker' = [worker EXCEPT ![w].pc = "start", ![w].try = @ + 1, ![w].turn = 0]
            /\ UNCHANGED failures
       ELSE /\ worker' = [worker EXCEPT ![w] = Free]
            /\ failures' = failures + 1
    /\ UNCHANGED <<trainVars, bufVars, next, queue>>

\* A RuntimeError is not retried.
GiveUp(w) ==
    /\ worker[w].pc \in {"start", "turn"} /\ errors < MaxErrors
    /\ errors' = errors + 1
    /\ failures' = failures + 1
    /\ worker' = [worker EXCEPT ![w] = Free]
    /\ UNCHANGED <<trainVars, bufVars, next, queue>>

\* The group size of the buffer.
Whole == IF training THEN GroupSize ELSE 1

\* Mutated form of AnnounceGroup: a group is added silently.
AnnounceNothing == UNCHANGED <<putSignal, trainer>>

\* put_signal.set() wakes a waiting get.
AnnounceGroup ==
    /\ putSignal' = TRUE
    /\ trainer' = IF trainer.pc = "wait" THEN [trainer EXCEPT !.pc = "woken"] ELSE trainer

\* Mutated form of AddItem: a complete group is not deleted.
AddItemKept(i) ==
    LET group == Append(groups[Source[i]], i) IN
    /\ groups' = [groups EXCEPT ![Source[i]] = group]
    /\ IF Len(group) >= Whole
       THEN buffer' = buffer \o group /\ AnnounceGroup
       ELSE UNCHANGED <<buffer, putSignal, trainer>>

\* The item joins its group; a complete group moves to the queue.  Without
\* strict_group every item is a complete group.
AddItem(i) ==
    LET group == Append(groups[Source[i]], i) IN
    IF Len(group) >= Whole
    THEN /\ buffer' = buffer \o group
         /\ groups' = [groups EXCEPT ![Source[i]] = <<>>]
         /\ AnnounceGroup
    ELSE /\ groups' = [groups EXCEPT ![Source[i]] = group]
         /\ UNCHANGED <<buffer, putSignal, trainer>>

\* Mutated form of MustWait: a woken add does not look again.
MustWaitOnce(w) == worker[w].pc = "add" /\ Len(buffer) >= MaxSize

MustWait(w) == Len(buffer) >= MaxSize

\* Buffer.add from its call or its last wake-up to its return or its next wait.
BufferAdd(w) ==
    /\ worker[w].pc \in {"add", "woken"}
    /\ IF MustWait(w)
       THEN /\ worker' = [worker EXCEPT ![w].pc = "wait"]
            /\ getSignal' = FALSE
            /\ UNCHANGED <<groups, buffer, putSignal, trainer>>
       ELSE /\ worker' = [worker EXCEPT ![w] = Free]
            /\ getSignal' = IF worker[w].pc = "woken" THEN FALSE ELSE getSignal
            /\ AddItem(worker[w].item)
    /\ UNCHANGED <<training, step, pending, batch, delivered, next, queue, lossVars>>

-----------------------------------------------------------------------------

Trainer == PrepareData \/ LoadValData \/ Put \/ CallGet \/ BufferGet
Loop(w) == StartSample(w) \/ TakeTurn(w) \/ Raise(w) \/ GiveUp(w)
Worker(w) == TakeItem(w) \/ Loop(w) \/ BufferAdd(w)

Next == Trainer \/ \E w \in Workers : Worker(w)

Spec == Init /\ [][Next]_vars

\* The tasks of the event loops run, and a request of the loop ends: its time is
\* limited.
Fairness == WF_vars(Trainer) /\ \A w \in Workers : WF_vars(Worker(w))

FairSpec == Spec /\ Fairness

-----------------------------------------------------------------------------
(* Properties.                                                             *)

InFlight == {w \in Workers : worker[w].pc # "idle"}

\* The items of incomplete groups.
GroupedItems == {x \in Groups \X Items : x[2] <= Len(groups[x[1]])}

\* Every item that was put is at one place: in the queue, with a worker, in an
\* incomplete group, in the buffer, delivered or lost to a failure.  None is
\* delivered twice, also when its group_id comes back (buffer.py:16-31).
ItemsConserved ==
    next = Len(queue) + Cardinality(InFlight) + Cardinality(GroupedItems)
             + Len(buffer) + Cardinality(delivered) + failures

\* get returns whole groups: of each group_id a multiple of the group size, as the
\* advantage over the group needs it (buffer.py:34-39).
WholeGroups ==
    \A g \in Groups :
        Cardinality({k \in DOMAIN batch : Source[batch[k]] = g}) % Whole = 0

\* However many adds are woken at once, the buffer exceeds its size by less than
\* a group (buffer.py:17-19).
BufferBounded == Len(buffer) < MaxSize + Whole

\* As long as no rollout fails for good, each get returns, whatever is retried: no
\* signal between add and get is lost and no group is stuck (buffer.py:16-43).  A validation that fits into
\* the buffer ends too: get_all returns all of it (task_manager.py:168-172).
BatchArrives ==
    /\ training /\ trainer.pc = "get" ~> trainer.pc = "idle" \/ failures > 0
    /\ ~training /\ ValCount <= MaxSize /\ trainer.pc = "put"
         ~> trainer.pc = "idle" \/ failures > 0
=============================================================================
