-------------------------- MODULE TaskWorkerProofs --------------------------
(***************************************************************************)
(* Proofs about TaskWorker, for every number of sessions, requests and     *)
(* cancellations.                                                          *)
(*                                                                         *)
(* The limit on samples is only tested against session_map.  That the      *)
(* samples at work are all in session_map (InMap) is therefore what has to *)
(* be kept by everything that removes a session; it is not kept for a task *)
(* that is fully asynchronous.                                             *)
(*                                                                         *)
(* A reply is only matched by its turn because the semaphores alternate:   *)
(* Handover says what they hold while a request waits for a session, and   *)
(* that nothing is left in them when none does.                            *)
(***************************************************************************)
EXTENDS TaskWorker, FiniteSetTheorems, TLAPS

\* Requests and cancellations that wait refer to a session.
References ==
    /\ \A h \in Handlers : handler[h].pc = "pull" => handler[h].sid \in Sids
    /\ \A c \in Cancels : cancel[c].pc = "wait" => cancel[c].sid \in Sids

InMap == Alive \subseteq sessionMap
WithinLimit == Cardinality(sessionMap) <= Concurrency
Announced == \A s \in notices : task[s] = "done"

WorkerInv == InMap /\ WithinLimit /\ Announced

-----------------------------------------------------------------------------
(* Types.                                                                  *)

\* A new worker has no sessions (task_worker.py:93).
LEMMA InitType == Init => TypeOK /\ References
BY DEF Init, TypeOK, References, TaskPc, Status, Handler, Quiet

\* Each step of a request, of a cancel_task and of a sample keeps the types.
LEMMA TypeStep == TypeOK /\ References /\ [Next]_vars => (TypeOK /\ References)'
<1> SUFFICES ASSUME TypeOK, References, [Next]_vars PROVE (TypeOK /\ References)'
  OBVIOUS
<1>1. CASE UNCHANGED vars
  BY <1>1 DEF vars, sessionVars, TypeOK, References
<1>2. ASSUME NEW h \in Handlers, NEW s \in Sids, StartSample(h, s)
      PROVE  (TypeOK /\ References)'
  BY <1>2 DEF StartSample, Pull, TypeOK, References, TaskPc, Status, Handler
<1>3. ASSUME NEW h \in Handlers, NEW s \in Sids, Interact(h, s)
      PROVE  (TypeOK /\ References)'
  BY <1>3 DEF Interact, Pull, TypeOK, References, Status, Handler
<1>4. ASSUME NEW c \in Cancels, NEW s \in Sids, NEW notice \in BOOLEAN, Cancel(c, s, notice)
      PROVE  (TypeOK /\ References)'
  BY <1>4 DEF Cancel, TypeOK, References
<1>5. ASSUME NEW h \in Handlers, Reply(h) PROVE (TypeOK /\ References)'
  BY <1>5 DEF Reply, TypeOK, References, Status, Handler
<1>6. ASSUME NEW c \in Cancels, CancelTask(c) PROVE (TypeOK /\ References)'
  BY <1>6 DEF CancelTask, TypeOK, References
<1>7. ASSUME NEW s \in Sids, Action(s) \/ ActionReturns(s) PROVE (TypeOK /\ References)'
  BY <1>7 DEF Action, ActionReturns, TypeOK, References, TaskPc
<1>8. ASSUME NEW s \in Sids, NEW result \in Status, Finish(s, result)
      PROVE  (TypeOK /\ References)'
  BY <1>8 DEF Finish, TypeOK, References, TaskPc
<1>9. ASSUME NEW s \in Sids, SampleReturns(s) \/ SampleInterrupted(s)
      PROVE  (TypeOK /\ References)'
  BY <1>8, <1>9 DEF SampleReturns, SampleInterrupted, Status
<1> QED
  BY <1>1, <1>2, <1>3, <1>4, <1>5, <1>6, <1>7, <1>9 DEF Next, Request, Sample

\* The state of a worker has its types: no semaphore goes below zero, and every
\* waiting coroutine belongs to a session.
THEOREM WorkerTypes == Spec => [](TypeOK /\ References)
<1>1. Init => TypeOK /\ References
  BY InitType
<1>2. TypeOK /\ References /\ [Next]_vars => (TypeOK /\ References)'
  BY TypeStep
<1> QED
  BY <1>1, <1>2, PTL DEF Spec

-----------------------------------------------------------------------------
(* The limit on samples.                                                   *)

\* Sets of sessions are finite, and a part is not larger than the whole.
LEMMA FiniteSessions ==
    ASSUME NEW S \in SUBSET Sids, NEW T \in SUBSET S
    PROVE  /\ IsFiniteSet(S)
           /\ Cardinality(S) \in Nat /\ Cardinality(T) \in Nat
           /\ Cardinality(T) <= Cardinality(S)
<1>1. IsFiniteSet(S)
  BY WorkerAssumption, FS_Subset
<1>2. IsFiniteSet(T) /\ Cardinality(T) <= Cardinality(S)
  BY <1>1, FS_Subset
<1> QED
  BY <1>1, <1>2, FS_CardinalityType

\* Only start_sample enters a session; all else keeps or shrinks session_map.
LEMMA LimitStep ==
    ASSUME TypeOK, References, WorkerInv, ~fullAsync, [Next]_vars
    PROVE  WorkerInv'
<1> USE DEF WorkerInv, InMap, WithinLimit, Announced
<1>1. CASE UNCHANGED vars
  BY <1>1 DEF vars, sessionVars, Alive
<1>2. ASSUME NEW h \in Handlers, NEW s \in Sids, StartSample(h, s) PROVE WorkerInv'
  <2>1. Cardinality(sessionMap') = Cardinality(sessionMap) + 1
    <3>1. IsFiniteSet(sessionMap)
      BY FiniteSessions DEF TypeOK
    <3> QED
      BY <1>2, <3>1, FS_AddElement DEF StartSample
  <2>2. WithinLimit'
    <3>1. Cardinality(sessionMap) \in Nat
      BY FiniteSessions DEF TypeOK
    <3> QED
      BY <1>2, <2>1, <3>1, WorkerAssumption DEF StartSample, Full
  <2>3. InMap'
    BY <1>2 DEF StartSample, Alive, TypeOK
  <2>4. Announced'
    BY <1>2 DEF StartSample, TypeOK
  <2> QED
    BY <2>2, <2>3, <2>4
<1>3. ASSUME NEW h \in Handlers, NEW s \in Sids, Interact(h, s) PROVE WorkerInv'
  BY <1>3 DEF Interact, Alive
<1>4. ASSUME NEW c \in Cancels, NEW s \in Sids, NEW notice \in BOOLEAN, Cancel(c, s, notice)
      PROVE  WorkerInv'
  BY <1>4 DEF Cancel, Alive
<1>5. ASSUME NEW h \in Handlers, Reply(h) PROVE WorkerInv'
  BY <1>5 DEF Reply, Alive
<1>6. ASSUME NEW S \in SUBSET Sids, sessionMap' = sessionMap \ S PROVE WithinLimit'
  <2>1. /\ Cardinality(sessionMap') \in Nat /\ Cardinality(sessionMap) \in Nat
        /\ Cardinality(sessionMap') <= Cardinality(sessionMap)
    BY <1>6, FiniteSessions DEF TypeOK
  <2> QED
    BY <2>1, WorkerAssumption
<1>7. ASSUME NEW c \in Cancels, CancelTask(c) PROVE WorkerInv'
  <2>1. PICK s \in Sids : s = cancel[c].sid
    BY <1>7 DEF CancelTask, References
  <2>2. CASE task[s] = "dead"
    BY <1>7, <2>1, <2>2 DEF CancelTask, Alive
  <2>3. CASE task[s] = "done"
    <3>1. sessionMap' = sessionMap \ {s} /\ task' = task /\ notices' \subseteq notices \cup {s}
      BY <1>7, <2>1, <2>3 DEF CancelTask
    <3>2. WithinLimit'
      BY <1>6, <3>1
    <3>3. InMap'
      BY <2>3, <3>1 DEF Alive
    <3>4. Announced'
      BY <2>3, <3>1
    <3> QED
      BY <3>2, <3>3, <3>4
  <2> QED
    BY <1>7, <2>1, <2>2, <2>3 DEF CancelTask
<1>8. ASSUME NEW s \in Sids, Action(s) \/ ActionReturns(s) PROVE WorkerInv'
  BY <1>8 DEF Action, ActionReturns, Alive, TypeOK
<1>9. ASSUME NEW s \in Sids, NEW result, Finish(s, result) PROVE WorkerInv'
  <2>1. WithinLimit'
    BY <1>6, <1>9 DEF Finish
  <2>2. InMap'
    BY <1>9 DEF Finish, Alive, TypeOK
  <2>3. Announced'
    BY <1>9 DEF Finish, TypeOK
  <2> QED
    BY <2>1, <2>2, <2>3
<1>10. ASSUME NEW s \in Sids, SampleReturns(s) \/ SampleInterrupted(s) PROVE WorkerInv'
  BY <1>9, <1>10 DEF SampleReturns, SampleInterrupted
<1> QED
  BY <1>1, <1>2, <1>3, <1>4, <1>5, <1>7, <1>8, <1>10 DEF Next, Request, Sample

\* No step changes the kind of the task.
LEMMA KindFixed == ASSUME [Next]_vars PROVE fullAsync' = fullAsync
BY DEF Next, Request, Sample, vars, StartSample, Interact, Cancel, Reply, CancelTask,
       Action, ActionReturns, SampleReturns, SampleInterrupted, Finish

\* A worker whose task is not fully asynchronous never works on more samples than
\* its concurrency, and announces a cancellation only after the sample has ended
\* (task_worker.py:194, :284-303).
THEOREM LimitRespected == Spec => [](ConcurrencyRespected /\ NoticeAfterFinish)
<1> DEFINE Inv == ~fullAsync => WorkerInv
<1>1. Init => Inv
  <2> SUFFICES ASSUME Init PROVE WorkerInv
    OBVIOUS
  <2>1. Alive = {}
    BY DEF Init, Alive
  <2> QED
    BY <2>1, FS_EmptySet, WorkerAssumption
    DEF Init, WorkerInv, InMap, WithinLimit, Announced
<1>2. TypeOK /\ References /\ Inv /\ [Next]_vars => Inv'
  BY LimitStep, KindFixed
<1>3. TypeOK /\ Inv => ConcurrencyRespected /\ NoticeAfterFinish
  <2> SUFFICES ASSUME TypeOK, ~fullAsync, WorkerInv
               PROVE  ConcurrencyRespected /\ NoticeAfterFinish
    BY DEF ConcurrencyRespected, NoticeAfterFinish
  <2>1. /\ Cardinality(Alive) \in Nat /\ Cardinality(sessionMap) \in Nat
        /\ Cardinality(Alive) <= Cardinality(sessionMap)
    BY FiniteSessions DEF TypeOK, WorkerInv, InMap
  <2>2. ConcurrencyRespected
    BY <2>1, WorkerAssumption DEF WorkerInv, WithinLimit, ConcurrencyRespected
  <2>3. NoticeAfterFinish
    BY DEF WorkerInv, Announced, NoticeAfterFinish, Alive
  <2> QED
    BY <2>2, <2>3
<1> HIDE DEF Inv
<1> QED
  BY <1>1, <1>2, <1>3, WorkerTypes, PTL DEF Spec

-----------------------------------------------------------------------------
(* Replies match their requests.                                           *)

Waits(h, s) == handler[h].pc = "pull" /\ handler[h].sid = s

\* A session has its number once, and a cancelled one takes no more messages.
Numbered(s) ==
    /\ task[s] = "none" =>
          /\ envSignal[s] = 0 /\ agentSignal[s] = 0 /\ turn[s] = 0
          /\ s \notin cancelling /\ s \notin sessionMap
          /\ \A h \in Handlers : ~Waits(h, s)
    /\ s \in sessionMap => task[s] # "done"
    /\ status[s] = "running" <=> task[s] # "done"
    /\ task[s] \in {"ending", "dead"} => s \in cancelling
    /\ envInput[s] = "cancelled" <=> s \in cancelling

\* While a request waits: the sample works on its message, has put out the answer, or
\* has not taken the message yet, which it will not do once it is cancelled.
Served(h, s) ==
    /\ agentSignal[s] \in {0, 1}
    /\ task[s] = "work" => turn[s] = handler[h].turn /\ agentSignal[s] = 0
    /\ agentSignal[s] = 1 => turn[s] = handler[h].turn
    /\ s \notin cancelling /\ task[s] = "work" => envSignal[s] = 0
    /\ s \notin cancelling /\ envSignal[s] > 0 =>
          envSignal[s] = 1 /\ agentSignal[s] = 0 /\ turn[s] + 1 = handler[h].turn

\* While none does: nothing is left over in the semaphores.
Unasked(s) ==
    /\ task[s] # "work" /\ agentSignal[s] = 0
    /\ s \notin cancelling => envSignal[s] = 0

Handover(s) ==
    /\ \A g, h \in Handlers : Waits(g, s) /\ Waits(h, s) => g = h
    /\ \A h \in Handlers : Waits(h, s) /\ task[s] # "done" => Served(h, s)
    /\ (\A h \in Handlers : ~Waits(h, s)) /\ task[s] # "done" => Unasked(s)

ReplyInv == RepliesMatch /\ \A s \in Sids : Numbered(s) /\ Handover(s)

Frame(t) ==
    /\ task'[t] = task[t] /\ turn'[t] = turn[t] /\ status'[t] = status[t]
    /\ envSignal'[t] = envSignal[t] /\ agentSignal'[t] = agentSignal[t]
    /\ envInput'[t] = envInput[t]
    /\ t \in cancelling' <=> t \in cancelling
    /\ t \in sessionMap' => t \in sessionMap
    /\ \A h \in Handlers : /\ Waits(h, t)' <=> Waits(h, t)
                           /\ Waits(h, t) => handler'[h].turn = handler[h].turn

\* What a step does to one session leaves the others alone.
LEMMA OtherSession ==
    ASSUME NEW t \in Sids, Numbered(t), Handover(t), Frame(t)
    PROVE  Numbered(t)' /\ Handover(t)'
<1>1. Numbered(t)'
  BY DEF Frame, Numbered
<1>2. \A h \in Handlers : Waits(h, t) /\ Served(h, t) => Served(h, t)'
  BY DEF Frame, Served
<1>3. Unasked(t) => Unasked(t)'
  BY DEF Frame, Unasked
<1> QED
  BY <1>1, <1>2, <1>3 DEF Frame, Handover

\* A worker that has just started.
LEMMA InitReplies == Init => ReplyInv
BY DEF Init, ReplyInv, RepliesMatch, Numbered, Handover, Unasked, Waits, Quiet

\* start_sample and interact wait for a session that nobody waits for
\* (task_worker.py:188-217, :222-251).
LEMMA AskKeepsReplies ==
    ASSUME TypeOK, ReplyInv, NEW h \in Handlers, NEW s \in Sids,
           StartSample(h, s) \/ Interact(h, s)
    PROVE  ReplyInv'
<1> USE DEF ReplyInv, TypeOK
<1>1. PICK n \in Nat : /\ Pull(h, s, n) /\ handler[h].pc # "pull"
                       /\ n = IF StartSample(h, s) THEN 0 ELSE turn[s] + 1
  BY DEF StartSample, Interact
<1>2. /\ \A g \in Handlers : g # h => handler'[g] = handler[g]
      /\ handler'[h].pc = "pull" /\ handler'[h].sid = s /\ handler'[h].turn = n
  BY <1>1 DEF Pull, Handler
<1>3. RepliesMatch'
  BY <1>2 DEF RepliesMatch
<1>4. ASSUME NEW t \in Sids, t # s PROVE Numbered(t)' /\ Handover(t)'
  <2>1. \A g \in Handlers : /\ Waits(g, t)' <=> Waits(g, t)
                            /\ Waits(g, t) => handler'[g].turn = handler[g].turn
    BY <1>1, <1>2, <1>4 DEF Waits
  <2>2. Frame(t)
    BY <1>4, <2>1 DEF Frame, StartSample, Interact
  <2> QED
    BY <2>2, OtherSession
<1>5. \A g \in Handlers : ~Waits(g, s)
  BY DEF StartSample, Interact, Numbered, Busy, AgentLocked, Waits
<1>6. \A g \in Handlers : Waits(g, s)' <=> g = h
  BY <1>2, <1>5 DEF Waits
<1>7. CASE StartSample(h, s)
  <2>1. /\ task[s] = "none" /\ task'[s] = "work" /\ n = 0
        /\ UNCHANGED <<turn, cancelling, envSignal, agentSignal, envInput, status>>
    BY <1>1, <1>7 DEF StartSample
  <2>2. Numbered(s)'
    BY <1>6, <2>1 DEF Numbered
  <2>3. Served(h, s)'
    BY <1>2, <2>1 DEF Numbered, Served
  <2> QED
    BY <1>3, <1>4, <1>6, <2>2, <2>3 DEF Handover
<1>8. CASE ~StartSample(h, s) /\ Interact(h, s)
  <2>1. /\ s \in sessionMap /\ s \notin cancelling /\ n = turn[s] + 1
        /\ envInput'[s] = "message" /\ envSignal'[s] = envSignal[s] + 1
        /\ UNCHANGED <<turn, cancelling, agentSignal, status, task, sessionMap>>
    BY <1>1, <1>8 DEF Interact, Busy
  <2>2. task[s] \notin {"none", "done"} /\ Unasked(s)
    BY <1>5, <2>1 DEF Numbered, Handover
  <2>3. Numbered(s)'
    BY <2>1, <2>2 DEF Numbered
  <2>4. Served(h, s)'
    BY <1>2, <2>1, <2>2 DEF Served, Unasked
  <2> QED
    BY <1>3, <1>4, <1>6, <2>3, <2>4 DEF Handover
<1> QED
  BY <1>7, <1>8

\* agent_pull returns to the request whose message the output follows, or after the
\* end of the sample (task.py:29-60).
LEMMA ReplyKeepsReplies ==
    ASSUME TypeOK, References, ReplyInv, NEW h \in Handlers, Reply(h)
    PROVE  ReplyInv'
<1> USE DEF ReplyInv, TypeOK
<1>0. PICK s \in Sids : s = handler[h].sid
  BY DEF Reply, References
<1>1. /\ handler[h].pc = "pull" /\ agentSignal[s] > 0 /\ Waits(h, s)
      /\ agentSignal' = [agentSignal EXCEPT ![s] = @ - 1]
      /\ UNCHANGED <<sessionMap, task, cancelling, envSignal, envInput, status, turn>>
  BY <1>0 DEF Reply, Waits
<1>2. /\ \A g \in Handlers : g # h => handler'[g] = handler[g]
      /\ handler'[h].pc = "answered" /\ handler'[h].turn = handler[h].turn
      /\ handler'[h].got = turn[s] /\ handler'[h].status = status[s]
  BY <1>0 DEF Reply
<1>3. task[s] # "done" => Served(h, s) /\ agentSignal[s] = 1
  BY <1>1 DEF Handover, Served
<1>4. RepliesMatch'
  <2>1. turn[s] = handler[h].turn \/ status[s] # "running"
    BY <1>3 DEF Served, Numbered
  <2> QED
    BY <1>2, <2>1 DEF RepliesMatch
<1>5. ASSUME NEW t \in Sids, t # s PROVE Numbered(t)' /\ Handover(t)'
  <2>1. \A g \in Handlers : /\ Waits(g, t)' <=> Waits(g, t)
                            /\ Waits(g, t) => handler'[g].turn = handler[g].turn
    BY <1>1, <1>2, <1>5 DEF Waits
  <2>2. Frame(t)
    BY <1>1, <1>5, <2>1 DEF Frame
  <2> QED
    BY <2>2, OtherSession
<1>6. \A g \in Handlers : ~Waits(g, s)'
  BY <1>1, <1>2 DEF Handover, Waits
<1>7. Numbered(s)'
  BY <1>1, <1>6 DEF Numbered
<1>8. task[s] # "done" => Unasked(s)'
  BY <1>1, <1>3 DEF Served, Unasked
<1> QED
  BY <1>1, <1>4, <1>5, <1>6, <1>7, <1>8 DEF Handover

\* _cancel wakes the sample once more; no message follows (task_worker.py:268-303).
LEMMA CancelKeepsReplies ==
    ASSUME TypeOK, References, ReplyInv,
           \/ \E c \in Cancels, s \in Sids, notice \in BOOLEAN : Cancel(c, s, notice)
           \/ \E c \in Cancels : CancelTask(c)
    PROVE  ReplyInv'
<1> USE DEF ReplyInv, TypeOK
<1>1. UNCHANGED <<task, handler, agentSignal, status, turn>>
  BY DEF Cancel, CancelTask
<1>2. RepliesMatch'
  BY <1>1 DEF RepliesMatch
<1>3. \A t \in Sids : \A h \in Handlers :
          /\ Waits(h, t)' <=> Waits(h, t)
          /\ Waits(h, t) => handler'[h].turn = handler[h].turn
  BY <1>1 DEF Waits
<1>4. ASSUME NEW c \in Cancels, NEW s \in Sids, NEW notice \in BOOLEAN, Cancel(c, s, notice)
      PROVE  ReplyInv'
  <2>1. /\ s \in sessionMap /\ cancelling' = cancelling \cup {s} /\ UNCHANGED sessionMap
        /\ envInput' = [envInput EXCEPT ![s] = "cancelled"]
        /\ envSignal' = [envSignal EXCEPT ![s] = @ + 1]
    BY <1>4 DEF Cancel
  <2>2. ASSUME NEW t \in Sids, t # s PROVE Numbered(t)' /\ Handover(t)'
    <3>1. Frame(t)
      BY <1>1, <1>3, <2>1, <2>2 DEF Frame
    <3> QED
      BY <3>1, OtherSession
  <2>3. Numbered(s)'
    BY <1>1, <2>1 DEF Numbered
  <2>4. \A h \in Handlers : Served(h, s) => Served(h, s)'
    BY <1>1, <2>1 DEF Served
  <2>5. Unasked(s) => Unasked(s)'
    BY <1>1, <2>1 DEF Unasked
  <2>6. Handover(s)'
    BY <1>1, <1>3, <2>4, <2>5 DEF Handover
  <2> QED
    BY <1>2, <2>2, <2>3, <2>6
<1>5. ASSUME NEW c \in Cancels, CancelTask(c) PROVE ReplyInv'
  <2>1. ASSUME NEW t \in Sids PROVE Numbered(t)' /\ Handover(t)'
    <3>1. Frame(t)
      BY <1>1, <1>3, <1>5 DEF Frame, CancelTask
    <3> QED
      BY <3>1, OtherSession
  <2> QED
    BY <1>2, <2>1
<1> QED
  BY <1>4, <1>5

\* A sample puts out one answer for each message it has taken, and one at its end
\* (task.py:36-60, task_worker.py:150-166).
LEMMA SampleKeepsReplies ==
    ASSUME TypeOK, ReplyInv, NEW s \in Sids, Sample(s)
    PROVE  ReplyInv'
<1> USE DEF ReplyInv, TypeOK
<1>1. UNCHANGED <<handler, cancelling, envInput>>
  BY DEF Sample, Action, ActionReturns, SampleReturns, SampleInterrupted, Finish
<1>2. RepliesMatch'
  BY <1>1 DEF RepliesMatch
<1>3. \A t \in Sids : \A h \in Handlers :
          /\ Waits(h, t)' <=> Waits(h, t)
          /\ Waits(h, t) => handler'[h].turn = handler[h].turn
  BY <1>1 DEF Waits
<1>4. ASSUME NEW t \in Sids, t # s PROVE Numbered(t)' /\ Handover(t)'
  <2>1. Frame(t)
    <3>1. CASE Action(s) \/ ActionReturns(s)
      BY <1>1, <1>3, <1>4, <3>1 DEF Frame, Action, ActionReturns
    <3>2. ASSUME NEW result, Finish(s, result) PROVE Frame(t)
      BY <1>1, <1>3, <1>4, <3>2 DEF Frame, Finish
    <3> QED
      BY <3>1, <3>2 DEF Sample, SampleReturns, SampleInterrupted
  <2> QED
    BY <2>1, OtherSession
<1>5. CASE Action(s)
  <2>1. /\ task[s] = "work" /\ task'[s] = "pull" /\ agentSignal'[s] = agentSignal[s] + 1
        /\ UNCHANGED <<sessionMap, envSignal, status, turn>>
    BY <1>5 DEF Action
  <2>2. PICK h \in Handlers : Waits(h, s)
    BY <2>1 DEF Handover, Unasked
  <2>3. Served(h, s)
    BY <2>1, <2>2 DEF Handover
  <2>4. Served(h, s)'
    BY <1>1, <2>1, <2>3 DEF Served
  <2>5. Numbered(s)'
    BY <1>1, <2>1 DEF Numbered
  <2> QED
    BY <1>2, <1>3, <1>4, <2>2, <2>4, <2>5 DEF Handover
<1>6. CASE ActionReturns(s)
  <2>1. /\ task[s] = "pull" /\ envSignal[s] > 0 /\ envSignal'[s] = envSignal[s] - 1
        /\ UNCHANGED <<sessionMap, agentSignal, status>>
    BY <1>6 DEF ActionReturns
  <2>2. CASE s \in cancelling
    <3>1. task'[s] \in {"ending", "dead"} /\ UNCHANGED turn
      BY <1>6, <2>2 DEF ActionReturns, Numbered
    <3>2. Numbered(s)'
      BY <1>1, <2>1, <2>2, <3>1 DEF Numbered
    <3>3. \A h \in Handlers : Served(h, s) => Served(h, s)'
      BY <1>1, <2>1, <2>2, <3>1 DEF Served
    <3>4. Unasked(s) => Unasked(s)'
      BY <1>1, <2>1, <2>2, <3>1 DEF Unasked
    <3>5. Handover(s)'
      BY <1>3, <2>1, <3>3, <3>4 DEF Handover
    <3> QED
      BY <1>2, <1>4, <3>2, <3>5
  <2>3. CASE s \notin cancelling
    <3>1. task'[s] = "work" /\ turn'[s] = turn[s] + 1
      BY <1>6, <2>3 DEF ActionReturns, Numbered
    <3>2. PICK h \in Handlers : Waits(h, s)
      BY <2>1, <2>3 DEF Handover, Unasked
    <3>3. Served(h, s)
      BY <2>1, <3>2 DEF Handover
    <3>4. Served(h, s)'
      BY <1>1, <2>1, <2>3, <3>1, <3>3 DEF Served
    <3>5. Numbered(s)'
      BY <1>1, <2>1, <2>3, <3>1 DEF Numbered
    <3> QED
      BY <1>2, <1>3, <1>4, <3>2, <3>4, <3>5 DEF Handover
  <2> QED
    BY <2>2, <2>3
<1>7. ASSUME NEW result \in Status \ {"running"}, Finish(s, result), task[s] # "none"
      PROVE  ReplyInv'
  <2>1. /\ task'[s] = "done" /\ status'[s] = result /\ result # "running"
        /\ s \notin sessionMap'
    BY <1>7 DEF Finish
  <2>2. Numbered(s)'
    BY <1>1, <1>7, <2>1 DEF Numbered
  <2>3. Handover(s)'
    BY <1>3, <2>1 DEF Handover
  <2> QED
    BY <1>2, <1>4, <2>2, <2>3
<1>8. CASE SampleReturns(s) \/ SampleInterrupted(s)
  BY <1>7, <1>8 DEF SampleReturns, SampleInterrupted, Alive, Status
<1> QED
  BY <1>5, <1>6, <1>8 DEF Sample

\* Every step of the worker.
LEMMA ReplyStep == TypeOK /\ References /\ ReplyInv /\ [Next]_vars => ReplyInv'
<1> SUFFICES ASSUME TypeOK, References, ReplyInv, [Next]_vars PROVE ReplyInv'
  OBVIOUS
<1>1. CASE UNCHANGED vars
  <2>1. RepliesMatch'
    BY <1>1 DEF vars, RepliesMatch, ReplyInv
  <2>2. ASSUME NEW t \in Sids PROVE Numbered(t)' /\ Handover(t)'
    <3>1. Frame(t)
      BY <1>1 DEF vars, sessionVars, Frame, Waits
    <3> QED
      BY <3>1, OtherSession DEF ReplyInv
  <2> QED
    BY <2>1, <2>2 DEF ReplyInv
<1> QED
  BY <1>1, AskKeepsReplies, ReplyKeepsReplies, CancelKeepsReplies, SampleKeepsReplies
     DEF Next, Request

\* For any number of sessions, requests and cancellations, in any order: a request is
\* answered with the output that follows its own message, or after the end of its
\* sample (task.py:29-60).
THEOREM RepliesAreOwn == Spec => []RepliesMatch
<1>1. ReplyInv => RepliesMatch
  BY DEF ReplyInv
<1> QED
  BY <1>1, InitReplies, ReplyStep, WorkerTypes, PTL DEF Spec
=============================================================================
