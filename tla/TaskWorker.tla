----------------------------- MODULE TaskWorker -----------------------------
(***************************************************************************)
(* A task worker (worker/task_worker.py, task.py): the requests of the     *)
(* controller, the coroutines of the samples, and the hand-over between    *)
(* them by two semaphores (SessionController).                             *)
(*                                                                         *)
(* Everything runs in one event loop; a stretch from one suspension to the *)
(* next is one action.  The locks of SessionController are never waited    *)
(* for: interact refuses when agent_lock is taken, and a sample is         *)
(* sequential.  The controller gives every sample its own number.          *)
(***************************************************************************)
EXTENDS Integers, FiniteSets

CONSTANTS
    Sids,           \* session numbers
    Handlers,       \* requests start_sample and interact that run at a time
    Cancels,        \* bound: cancel requests
    Concurrency,    \* Task.concurrency
    MaxTurns,       \* bound: messages sent to a sample
    None

ASSUME WorkerAssumption ==
    /\ IsFiniteSet(Sids) /\ None \notin Sids
    /\ Concurrency \in Nat /\ MaxTurns \in Nat

VARIABLES
    fullAsync,      \* Task.full_async, fixed when the worker starts
    sessionMap,     \* keys of session_map
    task,           \* sid -> where the sample is
    cancelling,     \* RunningSampleData.cancelling
    interrupted,    \* samples whose asyncio task was cancelled
    envSignal,      \* sid -> permits of env_signal and agent_signal
    agentSignal,
    envInput,       \* sid -> env_input
    status,         \* sid -> status of env_output
    turn,           \* sid -> messages the sample has taken
    handler,        \* running request -> its session and the turn it sent
    cancel,         \* cancel_task coroutines
    notices         \* sessions whose cancel_notice was sent

sessionVars == <<task, cancelling, interrupted, envSignal, agentSignal, envInput, status, turn>>
vars == <<fullAsync, sessionMap, sessionVars, handler, cancel, notices>>

\* pull: suspended in env_pull; ending: has caught the cancellation and cleans up;
\* dead: ended by AgentCancelledException.
TaskPc == {"none", "work", "pull", "ending", "done", "dead"}
Alive == {s \in Sids : task[s] \in {"work", "pull", "ending"}}
Status == {"running", "completed", "error", "cancelled"}
Handler == [pc : {"idle", "pull", "answered"}, sid : Sids \cup {None}, turn : Nat,
            got : Nat, status : Status]
Quiet == [pc |-> "idle", sid |-> None, turn |-> 0, got |-> 0, status |-> "running"]

Init ==
    /\ fullAsync \in BOOLEAN
    /\ sessionMap = {}
    /\ task = [s \in Sids |-> "none"]
    /\ cancelling = {} /\ interrupted = {}
    /\ envSignal = [s \in Sids |-> 0] /\ agentSignal = [s \in Sids |-> 0]
    /\ envInput = [s \in Sids |-> "none"]
    /\ status = [s \in Sids |-> "running"]
    /\ turn = [s \in Sids |-> 0]
    /\ handler = [h \in Handlers |-> Quiet]
    /\ cancel = [c \in Cancels |-> [pc |-> "idle", sid |-> None, notice |-> FALSE]]
    /\ notices = {}

-----------------------------------------------------------------------------
(* Requests.                                                               *)

\* agent_pull holds agent_lock while it waits.
AgentLocked(s) == \E h \in Handlers : handler[h].pc = "pull" /\ handler[h].sid = s

Pull(h, s, n) ==
    handler' = [handler EXCEPT ![h] =
        [pc |-> "pull", sid |-> s, turn |-> n, got |-> 0, status |-> "running"]]

\* Mutated form of Full: one session too many.
FullLate == Cardinality(sessionMap) > Concurrency

Full == Cardinality(sessionMap) >= Concurrency

\* start_sample up to its agent_pull; a number in use or a full map is refused.
StartSample(h, s) ==
    /\ handler[h].pc # "pull"
    /\ task[s] = "none" /\ s \notin sessionMap
    /\ ~Full
    /\ sessionMap' = sessionMap \cup {s}
    /\ task' = [task EXCEPT ![s] = "work"]
    /\ Pull(h, s, 0)
    /\ UNCHANGED <<fullAsync, cancelling, interrupted, envSignal, agentSignal,
                   envInput, status, turn, cancel, notices>>

\* Mutated form of Busy: a cancelled session still takes messages.
BusyUncancelled(s) == AgentLocked(s)

Busy(s) == AgentLocked(s) \/ s \in cancelling

\* interact up to its agent_pull.
Interact(h, s) ==
    /\ handler[h].pc # "pull"
    /\ s \in sessionMap /\ ~Busy(s) /\ turn[s] < MaxTurns
    /\ envInput' = [envInput EXCEPT ![s] = "message"]
    /\ envSignal' = [envSignal EXCEPT ![s] = @ + 1]
    /\ Pull(h, s, turn[s] + 1)
    /\ UNCHANGED <<fullAsync, sessionMap, task, cancelling, interrupted,
                   agentSignal, status, turn, cancel, notices>>

\* agent_pull returns and the request is answered with env_output.
Reply(h) ==
    LET s == handler[h].sid IN
    /\ handler[h].pc = "pull" /\ agentSignal[s] > 0
    /\ agentSignal' = [agentSignal EXCEPT ![s] = @ - 1]
    /\ handler' = [handler EXCEPT ![h] =
           [pc |-> "answered", sid |-> s, turn |-> handler[h].turn, got |-> turn[s],
            status |-> status[s]]]
    /\ UNCHANGED <<fullAsync, sessionMap, task, cancelling, interrupted, envSignal,
                   envInput, status, turn, cancel, notices>>

\* Mutated form of Cancel: the input is set, and the sample is not woken.
CancelUnsignalled(c, s, notice) ==
    /\ cancel[c].pc = "idle" /\ s \in sessionMap
    /\ cancelling' = cancelling \cup {s}
    /\ envInput' = [envInput EXCEPT ![s] = "cancelled"]
    /\ cancel' = [cancel EXCEPT ![c] = [pc |-> "wait", sid |-> s, notice |-> notice]]
    /\ UNCHANGED <<fullAsync, sessionMap, task, interrupted, envSignal, agentSignal,
                   status, turn, handler, notices>>

\* _cancel, also for each session of _cancel_all: the sample is told, then waited
\* for by a cancel_task.
Cancel(c, s, notice) ==
    /\ cancel[c].pc = "idle" /\ s \in sessionMap
    /\ cancelling' = cancelling \cup {s}
    /\ envInput' = [envInput EXCEPT ![s] = "cancelled"]
    /\ envSignal' = [envSignal EXCEPT ![s] = @ + 1]
    /\ cancel' = [cancel EXCEPT ![c] = [pc |-> "wait", sid |-> s, notice |-> notice]]
    /\ UNCHANGED <<fullAsync, sessionMap, task, interrupted, agentSignal, status,
                   turn, handler, notices>>

\* Mutated form of CancelTask: nobody waits for the sample.
CancelTaskAtOnce(c) ==
    LET s == cancel[c].sid IN
    /\ cancel[c].pc = "wait"
    /\ sessionMap' = sessionMap \ {s}
    /\ notices' = IF cancel[c].notice THEN notices \cup {s} ELSE notices
    /\ cancel' = [cancel EXCEPT ![c].pc = "done"]
    /\ UNCHANGED <<fullAsync, sessionVars, handler>>

\* cancel_task: a fully asynchronous sample is cancelled at once, another one is
\* waited for.  AgentCancelledException is no CancelledError: it leaves cancel_task
\* before the session is removed and announced.
CancelTask(c) ==
    LET s == cancel[c].sid IN
    /\ cancel[c].pc = "wait"
    /\ fullAsync \/ task[s] \in {"done", "dead"}
    /\ interrupted' = IF fullAsync /\ s \in Alive THEN interrupted \cup {s} ELSE interrupted
    /\ IF ~fullAsync /\ task[s] = "dead"
       THEN UNCHANGED <<sessionMap, notices>>
       ELSE /\ sessionMap' = sessionMap \ {s}
            /\ notices' = IF cancel[c].notice THEN notices \cup {s} ELSE notices
    /\ cancel' = [cancel EXCEPT ![c].pc = "done"]
    /\ UNCHANGED <<fullAsync, task, cancelling, envSignal, agentSignal, envInput,
                   status, turn, handler>>

-----------------------------------------------------------------------------
(* Samples.                                                                *)

\* Session.action up to the wait of env_pull.
Action(s) ==
    /\ task[s] = "work" /\ s \notin interrupted
    /\ task' = [task EXCEPT ![s] = "pull"]
    /\ agentSignal' = [agentSignal EXCEPT ![s] = @ + 1]
    /\ UNCHANGED <<fullAsync, sessionMap, cancelling, interrupted, envSignal,
                   envInput, status, turn, handler, cancel, notices>>

\* env_pull returns: a message, or the cancellation as an exception, which the
\* sample catches or lets through.
ActionReturns(s) ==
    /\ task[s] = "pull" /\ s \notin interrupted
    /\ envSignal[s] > 0
    /\ envSignal' = [envSignal EXCEPT ![s] = @ - 1]
    /\ IF envInput[s] = "cancelled"
       THEN /\ \E next \in {"ending", "dead"} : task' = [task EXCEPT ![s] = next]
            /\ UNCHANGED turn
       ELSE /\ task' = [task EXCEPT ![s] = "work"]
            /\ turn' = [turn EXCEPT ![s] = @ + 1]
    /\ UNCHANGED <<fullAsync, sessionMap, cancelling, interrupted, agentSignal,
                   envInput, status, handler, cancel, notices>>

\* Mutated form of Finish: the last output is not announced.
FinishSilent(s, result) ==
    /\ sessionMap' = sessionMap \ {s}
    /\ status' = [status EXCEPT ![s] = result]
    /\ task' = [task EXCEPT ![s] = "done"]
    /\ UNCHANGED <<fullAsync, cancelling, interrupted, envSignal, agentSignal,
                   envInput, turn, handler, cancel, notices>>

\* The end of task_start_sample_wrapper: the session is removed, then env_finish.
Finish(s, result) ==
    /\ sessionMap' = sessionMap \ {s}
    /\ status' = [status EXCEPT ![s] = result]
    /\ agentSignal' = [agentSignal EXCEPT ![s] = @ + 1]
    /\ task' = [task EXCEPT ![s] = "done"]
    /\ UNCHANGED <<fullAsync, cancelling, interrupted, envSignal, envInput, turn,
                   handler, cancel, notices>>

\* The sample returns a result, fails, or returns after a caught cancellation.
SampleReturns(s) ==
    /\ s \notin interrupted
    /\ \/ task[s] = "work" /\ \E result \in {"completed", "error"} : Finish(s, result)
       \/ task[s] = "ending" /\ Finish(s, "cancelled")

\* The CancelledError has run through the sample and its clean-up.
SampleInterrupted(s) ==
    /\ s \in interrupted /\ s \in Alive
    /\ Finish(s, "cancelled")

-----------------------------------------------------------------------------

Request ==
    \/ \E h \in Handlers, s \in Sids : StartSample(h, s) \/ Interact(h, s)
    \/ \E c \in Cancels, s \in Sids, notice \in BOOLEAN : Cancel(c, s, notice)

Sample(s) == Action(s) \/ ActionReturns(s) \/ SampleReturns(s) \/ SampleInterrupted(s)

Next ==
    \/ Request
    \/ \E h \in Handlers : Reply(h)
    \/ \E c \in Cancels : CancelTask(c)
    \/ \E s \in Sids : Sample(s)

Spec == Init /\ [][Next]_vars

\* The event loop runs what is ready, and a sample does not work for ever.
Fairness ==
    /\ \A h \in Handlers : WF_vars(Reply(h))
    /\ \A c \in Cancels : WF_vars(CancelTask(c))
    /\ \A s \in Sids : WF_vars(Sample(s))

FairSpec == Spec /\ Fairness

-----------------------------------------------------------------------------
(* Properties.                                                             *)

\* The types of the worker (task_worker.py:83-108, task.py:20-27).
TypeOK ==
    /\ fullAsync \in BOOLEAN
    /\ sessionMap \subseteq Sids /\ cancelling \subseteq Sids /\ interrupted \subseteq Sids
    /\ task \in [Sids -> TaskPc]
    /\ envSignal \in [Sids -> Nat] /\ agentSignal \in [Sids -> Nat]
    /\ envInput \in [Sids -> {"none", "message", "cancelled"}]
    /\ status \in [Sids -> Status]
    /\ turn \in [Sids -> Nat]
    /\ handler \in [Handlers -> Handler]
    /\ cancel \in [Cancels -> [pc : {"idle", "wait", "done"}, sid : Sids \cup {None},
                               notice : BOOLEAN]]
    /\ notices \subseteq Sids

\* A request is answered with the output that follows its own message, never with
\* one that was left over; only the end of the sample may cut in (task.py:29-60).
RepliesMatch ==
    \A h \in Handlers :
        handler[h].pc = "answered" =>
            handler[h].got = handler[h].turn \/ handler[h].status # "running"

\* The number of samples at work stays within the limit, however sessions are
\* cancelled: a session leaves session_map only after its sample (task_worker.py:194,
\* :297).
ConcurrencyRespected == ~fullAsync => Cardinality(Alive) <= Concurrency

\* "send another request to notice cancellation when task is finished"
\* (task_worker.py:285).
NoticeAfterFinish == ~fullAsync => notices \cap Alive = {}

\* Every request that waits for a sample is answered, whatever is cancelled
\* meanwhile, if the sample catches the cancellation (task_worker.py:217, :251).
RequestsAnswered ==
    \A h \in Handlers :
        handler[h].pc = "pull" ~>
            \/ handler[h].pc = "answered"
            \/ \E s \in Sids : s = handler[h].sid /\ task[s] = "dead"

\* A cancelled session leaves session_map, whatever requests are under way, if its
\* sample catches the cancellation and returns (task_worker.py:163, :297).
CancelledLeaves ==
    \A s \in Sids : s \in cancelling ~> s \notin sessionMap \/ task[s] = "dead"
=============================================================================
