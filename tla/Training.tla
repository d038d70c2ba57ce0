------------------------------ MODULE Training ------------------------------
(***************************************************************************)
(* The training loop (examples/training/async_trainer.py and               *)
(* agentrl_trainer.py) with the ranks of the actor (fsdp_worker.py), their *)
(* checkpoints (trainer/checkpoint) and the transfer of the weights to the *)
(* rollout worker (WeightSync).                                            *)
(*                                                                         *)
(* A call on the actor is a task in the queue of each of its ranks, which  *)
(* are single-threaded.  The loop waits for the result of some calls and   *)
(* not of others: neither for load_checkpoint nor for save_checkpoint.     *)
(* The weights of a rank are the set of steps it has been trained with.    *)
(***************************************************************************)
EXTENDS WeightSync

CONSTANTS
    Ranks,          \* ranks of the actor
    MaxSteps,       \* max_steps: the loop ends before this step
    SaveInterval,   \* save_interval
    MaxKeep,        \* max_ckpt_to_keep; 0 stands for none
    MaxLives,       \* bound: processes that train, one after the other
    NoFile          \* a shard that is not on disk, or not completely

ASSUME TrainingAssumption ==
    /\ MaxSteps \in Nat /\ SaveInterval \in Nat \ {0} /\ MaxKeep \in Nat
    /\ MaxLives \in Nat /\ Ranks # {}
    /\ MaxSteps <= Rounds
    /\ \A s \in 1..MaxSteps : NoFile # 1..s

VARIABLES
    driver,         \* where the loop is, and global_step
    tasks,          \* rank -> tasks it has not finished: [op, step]
    saving,         \* rank -> how far it is with a save
    model,          \* rank -> steps its weights contain
    paths,          \* rank -> previous_saved_paths
    disk,           \* step -> rank -> shard of the checkpoint
    marker,         \* latest_checkpointed_iteration.txt, 0 if it is empty
    lives,          \* processes so far
    ever,           \* history: a save has ended with a complete checkpoint
    cut, wiped      \* history: a process ended while ranks were saving, or with the
                    \* marker empty although there was a checkpoint

actorVars == <<tasks, saving, model, paths>>
diskVars == <<disk, marker>>
history == <<lives, ever, cut, wiped>>
vars == <<syncVars, driver, actorVars, diskVars, history>>

Steps == 1..(MaxSteps - 1)

\* What a rank has when it is built: the weights of the pretrained model, and no
\* checkpoint it knows of.
Pretrained == [r \in Ranks |-> {}]
NoPaths == [r \in Ranks |-> <<>>]

Complete(s) == \A r \in Ranks : disk[s][r] = 1..s

Init ==
    /\ SyncInit
    /\ tasks = [r \in Ranks |-> <<>>]
    /\ saving = [r \in Ranks |-> "no"]
    /\ model = Pretrained
    /\ paths = NoPaths
    /\ driver = [pc |-> "start", step |-> 1]
    /\ disk = [s \in Steps |-> [r \in Ranks |-> NoFile]] /\ marker = 0
    /\ lives = 1 /\ ever = FALSE /\ cut = FALSE /\ wiped = FALSE

-----------------------------------------------------------------------------
(* The loop.                                                               *)

Goes(p) == driver' = [driver EXCEPT !.pc = p]
Call(op, s) == tasks' = [r \in Ranks |-> Append(tasks[r], [op |-> op, step |-> s])]

\* Mutated form of Resume: the step of the checkpoint is done again.
ResumeSameStep ==
    /\ driver.pc = "start"
    /\ IF marker = 0 THEN UNCHANGED tasks ELSE Call("load", marker)
    /\ driver' = [pc |-> "barrier", step |-> IF marker = 0 THEN 1 ELSE marker]
    /\ UNCHANGED <<syncVars, saving, model, paths, diskVars, history>>

Resume ==
    /\ driver.pc = "start"
    /\ IF marker = 0 THEN UNCHANGED tasks ELSE Call("load", marker)
    /\ driver' = [pc |-> "barrier", step |-> marker + 1]
    /\ UNCHANGED <<syncVars, saving, model, paths, diskVars, history>>

\* no_op is a barrier: the ranks are through with what was asked of them, be it
\* with an exception.  The first transfer is not waited for.
FirstSync ==
    /\ driver.pc = "barrier" /\ \A r \in Ranks : tasks[r] = <<>>
    /\ StartRound(1)
    /\ Goes("train")
    /\ UNCHANGED <<actorVars, diskVars, history>>

Train ==
    /\ driver.pc = "train" /\ driver.step < MaxSteps
    /\ Call("step", driver.step)
    /\ Goes("step")
    /\ UNCHANGED <<syncVars, saving, model, paths, diskVars, history>>

Sync ==
    /\ driver.pc = "sync"
    /\ \E w \in Writers : StartRound(w)
    /\ Goes("transfer")
    /\ UNCHANGED <<actorVars, diskVars, history>>

Synced ==
    /\ driver.pc = "transfer" /\ rpc[round] = "end"
    /\ driver' = IF driver.step % SaveInterval = 0 THEN [driver EXCEPT !.pc = "save"]
                 ELSE [pc |-> "train", step |-> driver.step + 1]
    /\ UNCHANGED <<syncVars, actorVars, diskVars, history>>

\* The marker is opened, which empties it, and written.
Save ==
    /\ driver.pc = "save"
    /\ Call("save", driver.step)
    /\ Goes("open")
    /\ UNCHANGED <<syncVars, saving, model, paths, diskVars, history>>

OpenMarker ==
    /\ driver.pc = "open"
    /\ marker' = 0
    /\ Goes("mark")
    /\ UNCHANGED <<syncVars, actorVars, disk, history>>

WriteMarker ==
    /\ driver.pc = "mark"
    /\ marker' = driver.step
    /\ driver' = [pc |-> "train", step |-> driver.step + 1]
    /\ UNCHANGED <<syncVars, actorVars, disk, history>>

-----------------------------------------------------------------------------
(* The ranks of the actor.                                                 *)

Doing(r, op) == tasks[r] # <<>> /\ Head(tasks[r]).op = op
Finished(r) == tasks' = [tasks EXCEPT ![r] = Tail(@)]
AllFinished == tasks' = [r \in Ranks |-> Tail(tasks[r])]

\* load_checkpoint: nothing is changed by a load that fails.
Load(r) ==
    /\ Doing(r, "load")
    /\ LET shard == disk[Head(tasks[r]).step][r] IN
       model' = IF shard = NoFile THEN model ELSE [model EXCEPT ![r] = shard]
    /\ Finished(r)
    /\ UNCHANGED <<syncVars, driver, saving, paths, diskVars, history>>

\* forward_backward and step are collective.  A rank that sends weights is busy
\* until its last broadcast has been taken.
StepRanks ==
    /\ \A r \in Ranks : Doing(r, "step")
    /\ ~sender.on /\ chan = <<>>
    /\ model' = [r \in Ranks |-> model[r] \cup {Head(tasks[r]).step}]
    /\ AllFinished
    /\ Goes("sync")
    /\ UNCHANGED <<syncVars, saving, paths, diskVars, history>>

\* Mutated form of KeepStart: one checkpoint too many is removed.
KeepStartLater(n) == n - MaxKeep + 2

\* How many of n former checkpoints are removed to make room for one more.
KeepStart(n) == n - MaxKeep + 1

\* remove_previous_save_local_path takes the shards of all ranks.
Remove(removed) ==
    disk' = [s \in Steps |-> IF s \in removed THEN [q \in Ranks |-> NoFile] ELSE disk[s]]

\* save_checkpoint, until the first barrier.
Prepare(r) ==
    LET full == MaxKeep > 0 /\ Len(paths[r]) >= MaxKeep
        k == IF full THEN KeepStart(Len(paths[r])) ELSE 0
    IN
    /\ Doing(r, "save") /\ saving[r] = "no"
    /\ Remove({paths[r][i] : i \in 1..k})
    /\ paths' = [paths EXCEPT ![r] = SubSeq(@, k + 1, Len(@))]
    /\ saving' = [saving EXCEPT ![r] = "ready"]
    /\ UNCHANGED <<syncVars, driver, tasks, model, marker, history>>

\* The files of the rank are written, in place of any that are there.
OpenShard(r) ==
    /\ saving[r] = "ready" /\ \A q \in Ranks : saving[q] # "no"
    /\ disk' = [disk EXCEPT ![Head(tasks[r]).step][r] = NoFile]
    /\ saving' = [saving EXCEPT ![r] = "writing"]
    /\ UNCHANGED <<syncVars, driver, tasks, model, paths, marker, history>>

WriteShard(r) ==
    /\ saving[r] = "writing"
    /\ disk' = [disk EXCEPT ![Head(tasks[r]).step][r] = model[r]]
    /\ saving' = [saving EXCEPT ![r] = "written"]
    /\ UNCHANGED <<syncVars, driver, tasks, model, paths, marker, history>>

\* The last barrier.
Saved ==
    /\ \A r \in Ranks : saving[r] = "written"
    /\ paths' = [r \in Ranks |-> Append(paths[r], Head(tasks[r]).step)]
    /\ saving' = [r \in Ranks |-> "no"]
    /\ AllFinished
    /\ ever' = (ever \/ \A r \in Ranks : Complete(Head(tasks[r]).step))
    /\ UNCHANGED <<syncVars, driver, model, diskVars, lives, cut, wiped>>

RankStep(r) == Load(r) \/ Prepare(r) \/ OpenShard(r) \/ WriteShard(r)

-----------------------------------------------------------------------------
(* The end of a process takes its workers along, whatever they are doing.  *)

Stop ==
    /\ Goes("down")
    /\ SyncReset
    /\ tasks' = [r \in Ranks |-> <<>>]
    /\ saving' = [r \in Ranks |-> "no"]
    /\ model' = Pretrained
    /\ paths' = NoPaths
    /\ cut' = (cut \/ \E r \in Ranks : \E i \in DOMAIN tasks[r] : tasks[r][i].op = "save")
    /\ wiped' = (wiped \/ (ever /\ marker = 0))
    /\ UNCHANGED <<diskVars, lives, ever>>

Exit == driver.pc = "train" /\ driver.step >= MaxSteps /\ Stop
Crash == driver.pc # "down" /\ lives < MaxLives /\ Stop

Restart ==
    /\ driver.pc = "down" /\ lives < MaxLives
    /\ lives' = lives + 1
    /\ driver' = [pc |-> "start", step |-> 1]
    /\ UNCHANGED <<syncVars, actorVars, diskVars, ever, cut, wiped>>

Driver ==
    \/ Resume \/ FirstSync \/ Train \/ Sync \/ Synced \/ Save \/ OpenMarker \/ WriteMarker
    \/ Exit

Next ==
    \/ Driver \/ StepRanks \/ Saved \/ Crash \/ Restart
    \/ \E r \in Ranks : RankStep(r)
    \/ SyncNext /\ UNCHANGED <<driver, actorVars, diskVars, history>>

Spec == Init /\ [][Next]_vars

\* Processes, threads and tasks run.  A generation is sure to end only when it is
\* cancelled: it may be as long as it likes.
Fairness ==
    /\ WF_vars(Driver) /\ WF_vars(StepRanks) /\ WF_vars(Saved)
    /\ \A r \in Ranks : WF_vars(RankStep(r))
    /\ LET beside == UNCHANGED <<driver, actorVars, diskVars, history>> IN
       /\ WF_vars(Send /\ beside)
       /\ \A w \in Writers : WF_vars(Receive(w) /\ beside) /\ WF_vars(UpdateParams(w) /\ beside)
       /\ \A r \in Readers : /\ WF_vars(GenerateStart(r) /\ beside)
                             /\ WF_vars(r \in cancelled /\ GenerateEnd(r) /\ beside)

FairSpec == Spec /\ Fairness

-----------------------------------------------------------------------------
(* Properties.                                                             *)

\* No step is lost or done twice by a restart, and the ranks agree: a process trains
\* on from the weights of all the steps before its own.  The exceptions: a process has
\* ended while ranks were saving, which the loop does not wait for, and the load of an
\* incomplete checkpoint fails silently (async_trainer.py:147-160, :282-286); or only
\* one checkpoint is kept, so that a save removes the one the marker still names.
StepsKept ==
    driver.pc = "train" /\ ~cut /\ MaxKeep # 1 =>
        \A r \in Ranks : model[r] = 1..(driver.step - 1)

\* With more than one checkpoint to keep, once a save has ended with a complete one
\* there is one at any time, although former ones are removed before the next is written
\* (fsdp_checkpoint_manager.py:145-150) and a process may end at any point.  The one
\* exception: a process ends while the marker is empty, because it has not been
\* written yet or is being replaced, and training starts afresh over the same paths.
CheckpointKept ==
    MaxKeep # 1 /\ ever /\ ~wiped => \E s \in Steps : Complete(s)

\* Every process that is not killed comes to the end of its training, although no
\* generation ends by itself: the writer cancels the readers, a cancelled one
\* cannot slip in again before it (aio_rwlock.py:49, :69-71), and lock, buckets,
\* pending updates and the tasks of the ranks never wait for each other.
TrainingEnds == driver.pc = "start" ~> driver.pc = "down"
=============================================================================
