----------------------------- MODULE Evaluation -----------------------------
(***************************************************************************)
(* The evaluation runner (eval/session): workers take specifications of    *)
(* samples from a queue, each runs one session on the controller from its  *)
(* start to its end, and the results go to a store that a later run can    *)
(* resume (eval/store).                                                    *)
(*                                                                         *)
(* One action is the code between two awaits.  The controller is external: *)
(* a set of open sessions.  What is said in a session is left to module    *)
(* Conversation.                                                           *)
(***************************************************************************)
EXTENDS Naturals, FiniteSets

CONSTANTS
    Specs,          \* <<run, index>> for each sample to evaluate
    Workers,        \* the tasks of a run (concurrency)
    Configs,        \* [renew, startOnly, faults]: options, and failures to stand
    MaxAttempts,    \* bound on the sessions of one specification
    None

FaultKinds == {"start", "query", "renew", "interact", "cancel", "record", "save", "crash", "quit"}

Statuses == {"completed", "task error", "cancelled", "model error", "server error", "workflow error"}

ASSUME SpecsAssumption ==
    /\ Specs \subseteq Nat \X Nat /\ Workers # {}
    /\ Configs \subseteq [renew : BOOLEAN, startOnly : BOOLEAN, faults : [FaultKinds -> Nat]]
    /\ None \notin Workers \cup Specs \cup (Specs \X Nat) \cup Statuses \cup {"run"}
    /\ "run" \notin Workers

VARIABLES
    config,     \* fixed
    phase,      \* of the run: "begin", "running", "aborting", "quitting", "saving", "writing", "ended"
    queue,      \* specifications not taken yet
    wk,         \* per worker: [pc, spec, session, status, cancel]
    mem, disk,  \* results: specification -> status or None
    recent,     \* the store was saved less than 10 seconds ago
    lock,       \* writer that holds the lock of the store: a worker, "run" or None
    open,       \* sessions open on the controller: <<specification, number>>
    lost,       \* history: sessions whose id or whose cancellation was lost
    attempts,   \* per specification, sessions so far
    clean,      \* history: the run had no exception, quit or crash
    faults

vars == <<config, phase, queue, wk, mem, disk, recent, lock, open, lost, attempts, clean, faults>>
store == <<mem, disk, recent, lock>>
server == <<open, lost, attempts>>

CompletedStatuses == {"completed"}

\* Mutated form of ClientErrors: a failure of the client leaves the session alone.
ServerErrorsOnly == {"cancelled", "server error"}

ClientErrors == {"cancelled", "model error", "server error", "workflow error"}

\* A worker at a step, with a specification but no session yet.
At(pc, spec) == [pc |-> pc, spec |-> spec, session |-> None, status |-> None, cancel |-> FALSE]

Failure(kind) ==
    /\ faults[kind] < config.faults[kind]
    /\ faults' = [faults EXCEPT ![kind] = @ + 1]

-----------------------------------------------------------------------------
(* The run: what is resumed, the queue, and how it ends.                   *)

Completed(results) == {s \in Specs : results[s] \in CompletedStatuses}

\* Mutated form of Queued: completed samples are run again.
AllQueued(results) == Specs

Queued(results) == Specs \ Completed(results)

\* Mutated form of Read: the file is not read.
ReadNothing(saved) == [s \in Specs |-> None]

\* The store reads what a former run has saved.
Read(saved) == saved

Begin ==
    /\ phase = "begin"
    /\ mem' = Read(disk) /\ recent' = FALSE
    /\ queue' = Queued(mem')
    /\ wk' = [w \in Workers |-> At("idle", None)]
    /\ phase' = "running"
    /\ UNCHANGED <<config, disk, lock, server, clean, faults>>

\* Mutated form of Over: a failed worker is waited for.
OverWithoutError(w) == wk[w].pc = "done"

Over(w) == wk[w].pc \in {"done", "failed"}

\* gather returns when all are done; an exception makes the run cancel the others
\* and wait for them.
AllDone ==
    /\ phase = "running" /\ \A w \in Workers : wk[w].pc = "done"
    /\ phase' = "saving"
    /\ UNCHANGED <<config, queue, wk, store, server, clean, faults>>

Abort ==
    /\ phase = "running" /\ \E w \in Workers : wk[w].pc = "failed"
    /\ wk' = [w \in Workers |-> IF Over(w) THEN wk[w] ELSE [wk[w] EXCEPT !.cancel = TRUE]]
    /\ phase' = "aborting" /\ clean' = FALSE
    /\ UNCHANGED <<config, queue, store, server, faults>>

AbortDone ==
    /\ phase = "aborting" /\ \A w \in Workers : Over(w)
    /\ phase' = "saving"
    /\ UNCHANGED <<config, queue, wk, store, server, clean, faults>>

\* The user leaves: gather is cancelled, and with it the workers; it raises as
\* soon as one of them has ended, without waiting for the others.
Quit ==
    /\ phase = "running" /\ \E w \in Workers : ~Over(w)
    /\ Failure("quit")
    /\ wk' = [w \in Workers |-> IF Over(w) THEN wk[w] ELSE [wk[w] EXCEPT !.cancel = TRUE]]
    /\ phase' = "quitting" /\ clean' = FALSE
    /\ UNCHANGED <<config, queue, store, server>>

QuitDone ==
    /\ phase = "quitting" /\ \E w \in Workers : Over(w)
    /\ phase' = "saving"
    /\ UNCHANGED <<config, queue, wk, store, server, clean, faults>>

\* Mutated form of SaveAtEnd: the final save is debounced too.
SaveAtEndDebounced ==
    /\ phase = "saving" /\ lock = None
    /\ phase' = IF recent THEN "ended" ELSE "writing"
    /\ lock' = IF recent THEN None ELSE "run"
    /\ UNCHANGED <<config, queue, wk, mem, disk, recent, server, clean, faults>>

\* The final save is forced: it is not debounced.
SaveAtEnd ==
    /\ phase = "saving" /\ lock = None
    /\ phase' = "writing" /\ lock' = "run"
    /\ UNCHANGED <<config, queue, wk, mem, disk, recent, server, clean, faults>>

SaveAtEndDone ==
    /\ phase = "writing"
    /\ disk' = mem /\ recent' = TRUE /\ lock' = None
    /\ phase' = "ended"
    /\ UNCHANGED <<config, queue, wk, mem, server, clean, faults>>

\* The clients are closed and the process ends: what still runs is cut off.
Known(s) == \E w \in Workers : wk[w].session = s /\ ~Over(w)
Exit ==
    /\ phase = "ended" /\ \E w \in Workers : ~Over(w)
    /\ wk' = [w \in Workers |-> IF Over(w) THEN wk[w] ELSE At("done", None)]
    /\ lost' = lost \cup {s \in open : Known(s)}
    /\ lock' = None
    /\ UNCHANGED <<config, phase, queue, mem, disk, recent, open, attempts, clean, faults>>

\* A later run resumes the store.
Resume ==
    /\ phase = "ended" /\ Completed(disk) # Specs
    /\ \A w \in Workers : Over(w)
    /\ \A s \in Specs \ Completed(disk) : attempts[s] < MaxAttempts
    /\ phase' = "begin" /\ clean' = TRUE
    /\ UNCHANGED <<config, queue, wk, store, server, faults>>

\* The process is killed.  A file that was being written has some of its lines.
Crash ==
    /\ phase \notin {"begin", "ended"} /\ Failure("crash")
    /\ IF lock = None THEN UNCHANGED disk
       ELSE \E kept \in SUBSET Specs : disk' = [s \in Specs |-> IF s \in kept THEN mem[s] ELSE None]
    /\ lock' = None
    /\ wk' = [w \in Workers |-> At("done", None)]
    /\ lost' = lost \cup open
    /\ phase' = "ended" /\ clean' = FALSE
    /\ UNCHANGED <<config, queue, mem, recent, open, attempts>>

-----------------------------------------------------------------------------
(* A worker: _worker, _run_spec and the workflow of a sample.              *)

\* Earlier runs come first, and the order within a run is random.
ComesFirst(s) == \A r \in queue : s[1] <= r[1]

Take(w) ==
    /\ wk[w].pc = "idle" /\ ~wk[w].cancel
    /\ \/ /\ queue = {}
          /\ wk' = [wk EXCEPT ![w] = At("done", None)]
          /\ UNCHANGED queue
       \/ \E s \in queue :
            /\ ComesFirst(s)
            /\ queue' = queue \ {s}
            /\ wk' = [wk EXCEPT ![w] = At("start", s)]
    /\ UNCHANGED <<config, phase, store, server, clean, faults>>

\* The end of a sample: a session that is known is cancelled first if the status
\* is an error of the client.
Finish(w, status) ==
    [wk EXCEPT ![w].status = status,
               ![w].pc = IF wk[w].session # None /\ status \in ClientErrors THEN "cancel" ELSE "record"]

NewSession(w) == <<wk[w].spec, attempts[wk[w].spec] + 1>>
Opens(w) == attempts' = [attempts EXCEPT ![wk[w].spec] = @ + 1]

StartSample(w) ==
    /\ wk[w].pc = "start" /\ ~wk[w].cancel
    /\ Opens(w) /\ open' = open \cup {NewSession(w)}
    /\ wk' = [wk EXCEPT ![w].session = NewSession(w),
                        ![w].pc = IF config.startOnly THEN "cancel" ELSE "model",
                        ![w].status = IF config.startOnly THEN "completed" ELSE None]
    /\ UNCHANGED <<config, phase, queue, store, lost, clean, faults>>

\* A sample that ends before it asks the model: its session is closed at once.
StartFinishes(w, status) ==
    /\ wk[w].pc = "start" /\ ~wk[w].cancel /\ ~config.startOnly
    /\ Opens(w)
    /\ wk' = [wk EXCEPT ![w].session = NewSession(w), ![w].status = status,
                        ![w].pc = IF status \in ClientErrors THEN "cancel" ELSE "record"]
    /\ UNCHANGED <<config, phase, queue, store, open, lost, clean, faults>>

\* The request fails, before or after the controller has opened the session.
\* The retry asks for an error of another type, so there is none.
StartFails(w) ==
    /\ wk[w].pc = "start" /\ ~wk[w].cancel /\ Failure("start")
    /\ Opens(w)
    /\ \/ UNCHANGED <<open, lost>>
       \/ open' = open \cup {NewSession(w)} /\ lost' = lost \cup {NewSession(w)}
    /\ wk' = Finish(w, "server error")
    /\ UNCHANGED <<config, phase, queue, store, clean>>

\* After the query the task that renews the session is cancelled and awaited.
Query(w) ==
    /\ wk[w].pc = "model" /\ ~wk[w].cancel
    /\ wk' = [wk EXCEPT ![w].pc = IF config.renew THEN "renewed" ELSE "interact"]
    /\ UNCHANGED <<config, phase, queue, store, server, clean, faults>>

QueryFails(w) ==
    /\ wk[w].pc = "model" /\ ~wk[w].cancel /\ Failure("query")
    /\ wk' = Finish(w, "model error")
    /\ UNCHANGED <<config, phase, queue, store, server, clean>>

\* A cancellation that arrives while the renewal is awaited is taken for its own.
RenewEnds(w) ==
    /\ wk[w].pc = "renewed"
    /\ wk' = [wk EXCEPT ![w].pc = "interact", ![w].cancel = FALSE]
    /\ UNCHANGED <<config, phase, queue, store, server, clean, faults>>

RenewFailed(w) ==
    /\ wk[w].pc = "renewed" /\ ~wk[w].cancel /\ Failure("renew")
    /\ wk' = Finish(w, "workflow error")
    /\ UNCHANGED <<config, phase, queue, store, server, clean>>

InteractContinues(w) ==
    /\ wk[w].pc = "interact" /\ ~wk[w].cancel
    /\ wk' = [wk EXCEPT ![w].pc = "model"]
    /\ UNCHANGED <<config, phase, queue, store, server, clean, faults>>

\* The controller closes a session with the answer that finishes it.
InteractFinishes(w, status) ==
    /\ wk[w].pc = "interact" /\ ~wk[w].cancel
    /\ open' = open \ {wk[w].session}
    /\ wk' = Finish(w, status)
    /\ UNCHANGED <<config, phase, queue, store, lost, attempts, clean, faults>>

InteractFails(w) ==
    /\ wk[w].pc = "interact" /\ ~wk[w].cancel /\ Failure("interact")
    /\ wk' = Finish(w, "server error")
    /\ UNCHANGED <<config, phase, queue, store, server, clean>>

\* cancel: an error of the request is ignored.  A worker that is being cancelled
\* ends here.
Cancelled(w) ==
    /\ wk[w].pc = "cancel"
    /\ wk[w].cancel => wk[w].status = None
    /\ \/ open' = open \ {wk[w].session} /\ UNCHANGED <<lost, faults>>
       \/ Failure("cancel") /\ lost' = lost \cup {wk[w].session} /\ UNCHANGED open
    /\ wk' = [wk EXCEPT ![w].pc = IF wk[w].status = None THEN "done" ELSE "record",
                        ![w].session = None]
    /\ UNCHANGED <<config, phase, queue, store, attempts, clean>>

\* record: the traces are written, the row is replaced under the lock.
Record(w) ==
    /\ wk[w].pc = "record" /\ ~wk[w].cancel /\ lock = None
    /\ mem' = [mem EXCEPT ![wk[w].spec] = wk[w].status]
    /\ wk' = [wk EXCEPT ![w].pc = "save"]
    /\ UNCHANGED <<config, phase, queue, disk, recent, lock, server, clean, faults>>

RecordFails(w) ==
    /\ wk[w].pc = "record" /\ ~wk[w].cancel /\ Failure("record")
    /\ wk' = [wk EXCEPT ![w].pc = "failed"]
    /\ UNCHANGED <<config, phase, queue, store, server, clean>>

Save(w) ==
    /\ wk[w].pc = "save" /\ ~wk[w].cancel /\ lock = None
    /\ \/ recent /\ wk' = [wk EXCEPT ![w].pc = "idle"] /\ UNCHANGED lock
       \/ ~recent /\ wk' = [wk EXCEPT ![w].pc = "write"] /\ lock' = w
    /\ UNCHANGED <<config, phase, queue, mem, disk, recent, server, clean, faults>>

Written(w) ==
    /\ wk[w].pc = "write" /\ ~wk[w].cancel
    /\ disk' = mem /\ recent' = TRUE /\ lock' = None
    /\ wk' = [wk EXCEPT ![w].pc = "idle"]
    /\ UNCHANGED <<config, phase, queue, mem, server, clean, faults>>

\* The write fails or is cut off: the file has some of its lines.
WriteStops(w) ==
    /\ wk[w].pc = "write"
    /\ \/ wk[w].cancel /\ UNCHANGED faults
       \/ ~wk[w].cancel /\ Failure("save")
    /\ \E kept \in SUBSET Specs : disk' = [s \in Specs |-> IF s \in kept THEN mem[s] ELSE None]
    /\ lock' = None
    /\ wk' = [wk EXCEPT ![w].pc = IF wk[w].cancel THEN "done" ELSE "failed"]
    /\ UNCHANGED <<config, phase, queue, mem, recent, server, clean>>

\* A cancellation arrives.  The session is cancelled if its id is known, unless
\* that is what was cut off.
CancelArrives(w) ==
    /\ wk[w].cancel /\ wk[w].pc \notin {"renewed", "write"} /\ ~Over(w)
    /\ \/ /\ wk[w].pc = "start" /\ Opens(w)
          /\ \/ UNCHANGED <<open, lost>>
             \/ open' = open \cup {NewSession(w)} /\ lost' = lost \cup {NewSession(w)}
          /\ wk' = [wk EXCEPT ![w].pc = "done"]
       \/ /\ wk[w].pc \in {"model", "interact"}
          /\ wk' = [wk EXCEPT ![w].pc = "cancel"]
          /\ UNCHANGED server
       \/ /\ wk[w].pc = "cancel" /\ wk[w].status # None
          /\ lost' = lost \cup {wk[w].session}
          /\ wk' = [wk EXCEPT ![w].pc = "done"]
          /\ UNCHANGED <<open, attempts>>
       \/ /\ wk[w].pc \in {"idle", "record", "save"}
          /\ wk' = [wk EXCEPT ![w].pc = "done"]
          /\ UNCHANGED server
    /\ UNCHANGED <<config, phase, queue, store, clean, faults>>

WorkerStep(w) ==
    \/ Take(w) \/ StartSample(w) \/ StartFails(w) \/ Query(w) \/ QueryFails(w)
    \/ RenewEnds(w) \/ RenewFailed(w) \/ InteractFails(w)
    \/ \E status \in {"completed", "task error", "cancelled"} :
           StartFinishes(w, status) \/ InteractFinishes(w, status)
    \/ Cancelled(w) \/ Record(w) \/ RecordFails(w) \/ Save(w) \/ Written(w) \/ WriteStops(w)
    \/ CancelArrives(w)

TimePasses ==
    /\ recent /\ recent' = FALSE
    /\ UNCHANGED <<config, phase, queue, wk, mem, disk, lock, server, clean, faults>>

RunStep == Begin \/ AllDone \/ Abort \/ AbortDone \/ QuitDone \/ SaveAtEnd \/ SaveAtEndDone \/ Exit

Init ==
    /\ config \in Configs
    /\ phase = "begin" /\ queue = {} /\ wk = [w \in Workers |-> At("done", None)]
    /\ mem = [s \in Specs |-> None] /\ disk = [s \in Specs |-> None]
    /\ recent = FALSE /\ lock = None
    /\ open = {} /\ lost = {} /\ attempts = [s \in Specs |-> 0]
    /\ clean = TRUE /\ faults = [kind \in FaultKinds |-> 0]

Next ==
    \/ RunStep \/ Quit \/ Crash \/ Resume \/ TimePasses
    \/ \E w \in Workers : WorkerStep(w) \/ InteractContinues(w)

Spec == Init /\ [][Next]_vars

\* Requests return, and a model does not talk for ever (the tasks have a limit
\* on rounds).
Fairness ==
    /\ WF_vars(RunStep)
    /\ \A w \in Workers : WF_vars(WorkerStep(w))
    /\ \A w \in Workers : SF_vars(\E status \in Statuses : InteractFinishes(w, status))

FairSpec == Spec /\ Fairness

-----------------------------------------------------------------------------
(* Properties.                                                             *)

\* No session is left open behind the workers' back: one that is open belongs to a
\* worker that will close it, or it is known how it was lost
\* (workflow.py:51-72, :166-173).
SessionsClosed == \A s \in open \ lost : Known(s)

\* A sample that has a completed result is not run again, by this run or by one
\* that resumes it (runner.py:192-202, store.py:89-132).
CompletedNotRerun ==
    \A w \in Workers : wk[w].pc \in {"start", "model", "interact"} => wk[w].spec \notin Completed(mem)

\* When a run has ended, by itself or by an exception, what it has recorded is on
\* disk, although single saves are debounced; and every sample has a result if
\* nothing went wrong (runner.py:208-218, store.py:252-263).
ResultsSaved ==
    phase = "ended" => /\ clean => disk = mem /\ \A s \in Specs : mem[s] # None
                       /\ faults["quit"] + faults["crash"] = 0 => disk = mem

\* A completed result that is on disk stays there, unless a write is cut off: a
\* run that resumes reads all of it before it writes (store.py:40-69, :252-263).
ResultsDurable ==
    [][\/ Completed(disk) \subseteq Completed(disk')
       \/ Crash /\ lock # None
       \/ \E w \in Workers : WriteStops(w)]_vars

\* Every run comes to its end: exceptions, cancellations and the lock of the
\* store leave nobody waiting (runner.py:208-218, :223-230).
RunEnds == phase = "begin" ~> phase = "ended" /\ \A w \in Workers : Over(w)
=============================================================================
