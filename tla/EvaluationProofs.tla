-------------------------- MODULE EvaluationProofs --------------------------
(***************************************************************************)
(* Proofs about Evaluation, for any samples, workers, options and number   *)
(* of failures.                                                            *)
(*                                                                         *)
(* The promises of the runner rest on who has a sample: between the queue  *)
(* and its record it is with one worker only (Assigned), no session        *)
(* outlives the steps in which its worker would cancel it (Held), a run    *)
(* that nothing has disturbed waits for its workers (Ends), and then no    *)
(* sample has slipped through (NothingMissed).                             *)
(***************************************************************************)
EXTENDS Evaluation, TLAPS

Pc == {"idle", "start", "model", "renewed", "interact", "cancel", "record", "save", "write",
       "done", "failed"}
Phases == {"begin", "running", "aborting", "quitting", "saving", "writing", "ended"}
Sessions == Specs \X Nat
Worker == [pc : Pc, spec : Specs \cup {None}, session : Sessions \cup {None},
           status : Statuses \cup {None}, cancel : BOOLEAN]

TypeOK ==
    /\ config \in Configs /\ phase \in Phases /\ queue \subseteq Specs
    /\ wk \in [Workers -> Worker]
    /\ mem \in [Specs -> Statuses \cup {None}] /\ disk \in [Specs -> Statuses \cup {None}]
    /\ open \subseteq Sessions /\ attempts \in [Specs -> Nat]
    /\ clean \in BOOLEAN /\ faults \in [FaultKinds -> Nat]

\* Where the result of a sample is still to come, and where its session may be open.
Fresh == {"start", "model", "renewed", "interact", "cancel", "record"}
InSession == {"model", "renewed", "interact", "cancel"}

\* What a worker has of its sample, its result and its session.
Local(w) ==
    /\ wk[w].pc \in Fresh \cup {"save", "write"} => wk[w].spec \in Specs
    /\ wk[w].pc = "start" => wk[w].session = None
    /\ wk[w].pc \in {"model", "renewed", "interact"} => wk[w].session # None
    /\ wk[w].pc = "record" => wk[w].status # None
    /\ wk[w].pc = "cancel" /\ wk[w].status = None => wk[w].cancel

\* A sample is with one worker only, and has no completed result yet.
Assigned ==
    /\ \A w \in Workers : wk[w].pc \in Fresh =>
          wk[w].spec \notin queue /\ wk[w].spec \notin Completed(mem)
    /\ \A v, w \in Workers : v # w /\ wk[v].pc \in Fresh /\ wk[w].pc \in Fresh =>
          wk[v].spec # wk[w].spec
    /\ queue \cap Completed(mem) = {}
    /\ Completed(disk) \subseteq Completed(mem)

\* The number of a session is used once, and a worker that has gone on from its
\* session has closed or lost it.
Used(s) == s[2] <= attempts[s[1]]
Numbered(w) == wk[w].session # None => Used(wk[w].session)
Held ==
    /\ \A s \in open : Used(s)
    /\ \A w \in Workers : Numbered(w)
    /\ \A w \in Workers : wk[w].session \in open \ lost => wk[w].pc \in InSession

\* How a run ends.
Calm == clean \/ (faults["quit"] = 0 /\ faults["crash"] = 0)
Ending == {"saving", "writing", "ended"}
Ends ==
    /\ phase = "begin" => \A w \in Workers : Over(w)
    /\ phase \in Ending /\ Calm => \A w \in Workers : Over(w)
    /\ phase = "ended" /\ Calm => disk = mem
    /\ phase = "quitting" => ~Calm
    /\ phase = "aborting" => ~clean

\* While nothing has gone wrong: every sample is still somewhere.
Covered(s) ==
    \/ mem[s] # None \/ s \in queue
    \/ \E w \in Workers : wk[w].pc \in Fresh \cup {"failed"} /\ wk[w].spec = s
NothingMissed ==
    clean /\ phase # "begin" =>
        /\ \A w \in Workers : ~wk[w].cancel
        /\ \A s \in Specs : Covered(s)
        /\ \A w \in Workers : wk[w].pc = "done" => queue = {}
        /\ phase \in Ending => \A w \in Workers : wk[w].pc = "done"

EvalInv ==
    /\ TypeOK /\ (\A w \in Workers : Local(w)) /\ Assigned /\ Held /\ SessionsClosed
    /\ Ends /\ NothingMissed

-----------------------------------------------------------------------------
(* What a step of a worker may do.                                         *)

OnlyWorker(w) == \A v \in Workers \ {w} : wk'[v] = wk[v]

\* It keeps its sample until there is a result, unless it is being cancelled.
Moves(w) ==
    /\ Local(w)'
    /\ wk'[w].pc \in Fresh => wk[w].pc \in Fresh /\ wk'[w].spec = wk[w].spec
    /\ wk[w].pc \in Fresh =>
          wk[w].cancel \/ (wk'[w].pc \in Fresh \cup {"failed"} /\ wk'[w].spec = wk[w].spec)
    /\ wk'[w].cancel => wk[w].cancel
    /\ wk'[w].pc = "done" => wk[w].cancel

\* A session it opens is new, and one it turns its back on is closed or lost.
Serves(w) ==
    /\ \A s \in Specs : attempts'[s] >= attempts[s]
    /\ \A s \in open' : s \in open \/ Used(s)'
    /\ \A s \in open' \ lost' : s \in open \ lost \/ s = wk'[w].session
    /\ \A v \in Workers \ {w} : wk[v].session \in open' \ lost' => wk[v].session \in open \ lost
    /\ wk[w].session \in open' \ lost' => wk'[w].session = wk[w].session
    /\ Numbered(w)'
    /\ wk'[w].session \in open' \ lost' => wk'[w].pc \in InSession

\* No failure but that of the user or of the machine.
SmallFaults == faults'["quit"] = faults["quit"] /\ faults'["crash"] = faults["crash"]

\* The samples.
LEMMA MovesKeep ==
    ASSUME EvalInv, NEW w \in Workers, ~Over(w), OnlyWorker(w), Moves(w),
           Completed(disk') \subseteq Completed(mem), UNCHANGED <<phase, queue, mem, clean>>
    PROVE  (\A v \in Workers : Local(v)') /\ Assigned' /\ NothingMissed'
<1> USE DEF EvalInv
<1>1. \A v \in Workers : Local(v)'
  BY DEF OnlyWorker, Moves, Local
<1>2. Assigned'
  BY DEF OnlyWorker, Moves, Assigned, Completed
<1>3. NothingMissed'
  <2> SUFFICES ASSUME clean, phase # "begin"
               PROVE  /\ \A v \in Workers : ~wk'[v].cancel
                      /\ \A s \in Specs : Covered(s)'
                      /\ \A v \in Workers : wk'[v].pc = "done" => queue = {}
                      /\ phase \in Ending => \A v \in Workers : wk'[v].pc = "done"
    BY DEF NothingMissed
  <2>1. \A v \in Workers : ~wk'[v].cancel
    BY DEF OnlyWorker, Moves, NothingMissed
  <2>2. ASSUME NEW s \in Specs PROVE Covered(s)'
    <3>1. Covered(s)
      BY DEF NothingMissed
    <3>2. ASSUME NEW v \in Workers, wk[v].pc \in Fresh \cup {"failed"}, wk[v].spec = s
          PROVE  wk'[v].pc \in Fresh \cup {"failed"} /\ wk'[v].spec = s
      BY <3>2 DEF OnlyWorker, Moves, NothingMissed, Over
    <3> QED
      BY <3>1, <3>2 DEF Covered
  <2>3. \A v \in Workers : wk'[v].pc = "done" => queue = {}
    BY DEF OnlyWorker, Moves, NothingMissed
  <2>4. phase \notin Ending
    BY DEF NothingMissed, Over
  <2> QED
    BY <2>1, <2>2, <2>3, <2>4
<1> QED
  BY <1>1, <1>2, <1>3

\* The sessions.
LEMMA ServesKeep ==
    ASSUME EvalInv, TypeOK', NEW w \in Workers, OnlyWorker(w), Serves(w)
    PROVE  Held' /\ SessionsClosed'
<1> USE DEF EvalInv
<1>1. \A s \in Sessions : Used(s) => Used(s)'
  <2> SUFFICES ASSUME NEW s \in Sessions, Used(s) PROVE Used(s)'
    OBVIOUS
  <2>1. s[1] \in Specs /\ s[2] \in Nat
    BY DEF Sessions
  <2>2. attempts[s[1]] \in Nat /\ attempts'[s[1]] \in Nat /\ attempts'[s[1]] >= attempts[s[1]]
    BY <2>1 DEF TypeOK, Serves
  <2> QED
    BY <2>1, <2>2 DEF Used
<1>2. \A s \in open' : Used(s)'
  BY <1>1 DEF Serves, Held, TypeOK
<1>3. \A v \in Workers : Numbered(v)'
  <2> SUFFICES ASSUME NEW v \in Workers, v # w, wk[v].session # None, wk'[v] = wk[v]
               PROVE  Numbered(v)'
    BY DEF Serves, OnlyWorker, Numbered
  <2>1. wk[v].session \in Sessions /\ Used(wk[v].session)
    BY DEF Held, TypeOK, Worker, Numbered
  <2>2. PICK s \in Sessions : s = wk[v].session
    BY <2>1
  <2>3. Used(s)'
    BY <1>1, <2>1, <2>2
  <2> QED
    BY <2>2, <2>3 DEF Numbered, Used
<1>4. \A v \in Workers : wk'[v].session \in open' \ lost' => wk'[v].pc \in InSession
  BY DEF Serves, OnlyWorker, Held
<1>5. SessionsClosed'
  <2> SUFFICES ASSUME NEW s \in open' \ lost' PROVE Known(s)'
    BY DEF SessionsClosed
  <2>1. ASSUME wk'[w].session = s PROVE Known(s)'
    BY <2>1 DEF Serves, Known, Over, InSession
  <2>2. ASSUME s \in open \ lost PROVE Known(s)'
    <3>1. PICK v \in Workers : wk[v].session = s /\ ~Over(v)
      BY <2>2 DEF SessionsClosed, Known
    <3>2. CASE v # w
      BY <3>1, <3>2 DEF OnlyWorker, Known, Over
    <3>3. CASE v = w
      BY <2>1, <3>1, <3>3 DEF Serves
    <3> QED
      BY <3>2, <3>3
  <2> QED
    BY <2>1, <2>2 DEF Serves
<1> QED
  BY <1>2, <1>3, <1>4, <1>5 DEF Held

\* The end of the run waits for a worker that takes a step.
LEMMA EndsKeep ==
    ASSUME EvalInv, NEW w \in Workers, ~Over(w), SmallFaults, UNCHANGED <<phase, clean>>
    PROVE  Ends'
<1>1. Calm' <=> Calm
  BY DEF Calm, SmallFaults
<1>2. phase # "begin" /\ ~(phase \in Ending /\ Calm)
  BY DEF EvalInv, Ends
<1> QED
  BY <1>1, <1>2 DEF EvalInv, Ends, Ending

\* Altogether.
LEMMA WorkerKeeps ==
    ASSUME EvalInv, TypeOK', NEW w \in Workers, ~Over(w), OnlyWorker(w), Moves(w), Serves(w),
           SmallFaults, Completed(disk') \subseteq Completed(mem),
           UNCHANGED <<phase, queue, mem, clean>>
    PROVE  EvalInv'
BY MovesKeep, ServesKeep, EndsKeep DEF EvalInv

\* A failure leaves the types of the counters.
LEMMA FailureFacts ==
    ASSUME TypeOK, NEW kind \in FaultKinds \ {"quit", "crash"}, Failure(kind)
    PROVE  faults' \in [FaultKinds -> Nat] /\ SmallFaults
BY DEF TypeOK, Failure, SmallFaults, FaultKinds

\* A worker that neither opens nor closes a session, and keeps the one it has.
LEMMA ServesSame ==
    ASSUME EvalInv, NEW w \in Workers, UNCHANGED <<open, lost, attempts>>,
           wk'[w].session = wk[w].session \/ wk'[w].session = None,
           wk'[w].session = None => wk[w].session \notin open \ lost,
           wk[w].pc \in InSession => wk'[w].pc \in InSession \/ wk'[w].session = None
    PROVE  Serves(w)
<1> USE SpecsAssumption DEF EvalInv
<1>1. \A s \in Specs : attempts'[s] >= attempts[s]
  BY DEF TypeOK
<1>2. None \notin open
  BY DEF TypeOK, Sessions
<1>3. Numbered(w)'
  BY DEF Held, Numbered, Used
<1> QED
  BY <1>1, <1>2, <1>3 DEF Serves, Held

-----------------------------------------------------------------------------
(* The steps of a worker.                                                  *)

\* The worker goes to p with status st.
To(w, p, st, c) ==
    /\ OnlyWorker(w) /\ wk' \in [Workers -> Worker]
    /\ wk'[w].pc = p /\ wk'[w].status = st /\ wk'[w].cancel = c
    /\ wk'[w].spec = wk[w].spec /\ wk'[w].session = wk[w].session

\* The forms in which the code of a worker moves on.
LEMMA RowTypes ==
    ASSUME EvalInv, NEW w \in Workers
    PROVE  /\ TypeOK /\ wk \in [Workers -> Worker] /\ wk[w] \in Worker
           /\ wk[w].pc \in Pc /\ wk[w].status \in Statuses \cup {None}
           /\ wk[w].cancel \in BOOLEAN
BY DEF EvalInv, TypeOK, Worker

\* One field of one worker is set, the others stay.
LEMMA SetPc ==
    ASSUME NEW f \in [Workers -> Worker], NEW w \in Workers, NEW p \in Pc
    PROVE  /\ [f EXCEPT ![w].pc = p] \in [Workers -> Worker]
           /\ \A v \in Workers \ {w} : [f EXCEPT ![w].pc = p][v] = f[v]
           /\ [f EXCEPT ![w].pc = p][w].pc = p
           /\ [f EXCEPT ![w].pc = p][w].session = f[w].session
           /\ [f EXCEPT ![w].pc = p][w].spec = f[w].spec
           /\ [f EXCEPT ![w].pc = p][w].status = f[w].status
           /\ [f EXCEPT ![w].pc = p][w].cancel = f[w].cancel
BY DEF Worker

LEMMA SetStatus ==
    ASSUME NEW f \in [Workers -> Worker], NEW w \in Workers, NEW st \in Statuses \cup {None}
    PROVE  /\ [f EXCEPT ![w].status = st] \in [Workers -> Worker]
           /\ \A v \in Workers \ {w} : [f EXCEPT ![w].status = st][v] = f[v]
           /\ [f EXCEPT ![w].status = st][w].status = st
           /\ [f EXCEPT ![w].status = st][w].session = f[w].session
           /\ [f EXCEPT ![w].status = st][w].spec = f[w].spec
           /\ [f EXCEPT ![w].status = st][w].pc = f[w].pc
           /\ [f EXCEPT ![w].status = st][w].cancel = f[w].cancel
BY DEF Worker

LEMMA PcForm ==
    ASSUME EvalInv, NEW w \in Workers, NEW p \in Pc, wk' = [wk EXCEPT ![w].pc = p]
    PROVE  To(w, p, wk[w].status, wk[w].cancel)
BY RowTypes DEF To, OnlyWorker, Worker

LEMMA StatusForm ==
    ASSUME EvalInv, NEW w \in Workers, NEW p \in Pc, NEW st \in Statuses \cup {None},
           wk' = [wk EXCEPT ![w].status = st, ![w].pc = p]
    PROVE  To(w, p, st, wk[w].cancel)
<1>1. PICK f : f = [wk EXCEPT ![w].status = st]
  OBVIOUS
<1>2. /\ f \in [Workers -> Worker] /\ f[w].status = st /\ f[w].cancel = wk[w].cancel
      /\ f[w].spec = wk[w].spec /\ f[w].session = wk[w].session
      /\ \A v \in Workers \ {w} : f[v] = wk[v]
  BY <1>1, RowTypes DEF Worker
<1>3. wk' = [f EXCEPT ![w].pc = p]
  BY <1>1
<1>4. wk' \in [Workers -> Worker] /\ OnlyWorker(w)
  <2>1. f \in [Workers -> Worker]
    BY <1>2
  <2>2. wk' \in [Workers -> Worker] /\ \A v \in Workers \ {w} : wk'[v] = f[v]
    <3>1. f[w] \in Worker
      BY <2>1
    <3>2. PICK r \in Worker : r = [f[w] EXCEPT !.pc = p]
      BY <3>1 DEF Worker
    <3>3. wk' = [f EXCEPT ![w] = r]
      BY <1>3, <3>2
    <3> QED
      BY <2>1, <3>3
  <2> QED
    BY <1>2, <2>2 DEF OnlyWorker
<1>5. /\ wk'[w].pc = p /\ wk'[w].status = f[w].status /\ wk'[w].cancel = f[w].cancel
      /\ wk'[w].spec = f[w].spec /\ wk'[w].session = f[w].session
  BY <1>2, <1>3 DEF Worker
<1> QED
  BY <1>2, <1>4, <1>5 DEF To

LEMMA RenewForm ==
    ASSUME EvalInv, NEW w \in Workers, NEW p \in Pc,
           wk' = [wk EXCEPT ![w].pc = p, ![w].cancel = FALSE]
    PROVE  To(w, p, wk[w].status, FALSE)
<1>1. PICK f : f = [wk EXCEPT ![w].pc = p]
  OBVIOUS
<1>2. /\ f \in [Workers -> Worker] /\ f[w].status = wk[w].status /\ f[w].pc = p
      /\ f[w].spec = wk[w].spec /\ f[w].session = wk[w].session
      /\ \A v \in Workers \ {w} : f[v] = wk[v]
  BY <1>1, RowTypes DEF Worker
<1>3. wk' = [f EXCEPT ![w].cancel = FALSE]
  BY <1>1
<1>4. wk' \in [Workers -> Worker] /\ OnlyWorker(w)
  <2>1. f \in [Workers -> Worker]
    BY <1>2
  <2>2. wk' \in [Workers -> Worker] /\ \A v \in Workers \ {w} : wk'[v] = f[v]
    <3>1. f[w] \in Worker
      BY <2>1
    <3>2. PICK r \in Worker : r = [f[w] EXCEPT !.cancel = FALSE]
      BY <3>1 DEF Worker
    <3>3. wk' = [f EXCEPT ![w] = r]
      BY <1>3, <3>2
    <3> QED
      BY <2>1, <3>3
  <2> QED
    BY <1>2, <2>2 DEF OnlyWorker
<1>5. /\ wk'[w].pc = f[w].pc /\ wk'[w].status = f[w].status /\ wk'[w].cancel = FALSE
      /\ wk'[w].spec = f[w].spec /\ wk'[w].session = f[w].session
  BY <1>2, <1>3 DEF Worker
<1> QED
  BY <1>2, <1>4, <1>5 DEF To

\* A step that is only about the worker itself.
LEMMA RowKeeps ==
    ASSUME EvalInv, NEW w \in Workers, NEW p \in Pc, NEW st \in Statuses \cup {None},
           NEW c \in BOOLEAN, To(w, p, st, c), ~Over(w), p # "start",
           p \in {"model", "renewed", "interact"} => wk[w].session # None,
           p = "record" => st # None, p = "cancel" /\ st = None => c,
           p \in Fresh => wk[w].pc \in Fresh,
           p \in {"save", "write"} => wk[w].pc \in Fresh \cup {"save", "write"},
           wk[w].pc \in Fresh => wk[w].cancel \/ p \in Fresh \cup {"failed"},
           c => wk[w].cancel, p = "done" => wk[w].cancel,
           wk[w].pc \in InSession => p \in InSession,
           SmallFaults, faults' \in [FaultKinds -> Nat],
           disk' \in [Specs -> Statuses \cup {None}], Completed(disk') \subseteq Completed(mem),
           UNCHANGED <<config, phase, queue, mem, clean, server>>
    PROVE  EvalInv'
<1>1. /\ wk'[w].pc = p /\ wk'[w].status = st /\ wk'[w].cancel = c
      /\ wk'[w].spec = wk[w].spec /\ wk'[w].session = wk[w].session
      /\ wk' \in [Workers -> Worker] /\ OnlyWorker(w)
  BY DEF To
<1>2. TypeOK'
  BY <1>1 DEF EvalInv, TypeOK, server
<1>3. Moves(w)
  <2>1. Local(w)'
    BY <1>1 DEF EvalInv, Local, Fresh
  <2> QED
    BY <1>1, <2>1 DEF Moves
<1>4. Serves(w)
  <2>1. None \notin open
    BY SpecsAssumption DEF EvalInv, TypeOK, Sessions
  <2> QED
    BY <1>1, <2>1, ServesSame DEF server
<1> QED
  BY <1>1, <1>2, <1>3, <1>4, WorkerKeeps

\* The end of a sample whose session is left to be cancelled (workflow.py:166-173).
LEMMA FinishForm ==
    ASSUME EvalInv, NEW w \in Workers, NEW st \in Statuses
    PROVE  /\ wk' = Finish(w, st) =>
                 To(w, IF wk[w].session # None /\ st \in ClientErrors THEN "cancel" ELSE "record",
                    st, wk[w].cancel)
           /\ st # None
<1>1. PICK p \in {"cancel", "record"} :
          p = IF wk[w].session # None /\ st \in ClientErrors THEN "cancel" ELSE "record"
  OBVIOUS
<1>2. wk' = [wk EXCEPT ![w].status = st, ![w].pc = p] => To(w, p, st, wk[w].cancel)
  BY StatusForm DEF Pc
<1>3. Finish(w, st) = [wk EXCEPT ![w].status = st, ![w].pc = p]
  BY <1>1 DEF Finish
<1> QED
  BY <1>1, <1>2, <1>3, SpecsAssumption

\* The file is left alone.
LEMMA SameDisk ==
    ASSUME EvalInv, UNCHANGED disk
    PROVE  disk' \in [Specs -> Statuses \cup {None}] /\ Completed(disk') \subseteq Completed(mem)
BY DEF EvalInv, TypeOK, Assigned

\* Queries, renewals and interactions that go on or fail (workflow.py:86-160).
LEMMA TalkKeeps ==
    ASSUME EvalInv, NEW w \in Workers,
           \/ Query(w) \/ QueryFails(w) \/ RenewEnds(w) \/ RenewFailed(w)
           \/ InteractContinues(w) \/ InteractFails(w)
    PROVE  EvalInv'
<1> USE RowTypes DEF store
<1>0. /\ UNCHANGED <<config, phase, queue, mem, disk, clean, server>>
      /\ wk[w].pc \in {"model", "renewed", "interact"} /\ ~Over(w)
      /\ wk[w].pc \in Fresh /\ wk[w].pc \in InSession
      /\ SmallFaults /\ faults' \in [FaultKinds -> Nat]
  <2>1. UNCHANGED faults \/ \E k \in {"query", "renew", "interact"} : Failure(k)
    BY DEF Query, QueryFails, RenewEnds, RenewFailed, InteractContinues, InteractFails
  <2>2. SmallFaults /\ faults' \in [FaultKinds -> Nat]
    BY <2>1, FailureFacts DEF TypeOK, SmallFaults, FaultKinds
  <2> QED
    BY <2>2 DEF Query, QueryFails, RenewEnds, RenewFailed, InteractContinues, InteractFails,
       Over, Fresh, InSession
<1>1. CASE Query(w) \/ InteractContinues(w)
  <2>1. PICK p \in {"model", "renewed", "interact"} : wk' = [wk EXCEPT ![w].pc = p]
    BY <1>1 DEF Query, InteractContinues
  <2>2. To(w, p, wk[w].status, wk[w].cancel)
    BY <2>1, PcForm DEF Pc
  <2>3. p \in Pc /\ p \in Fresh /\ p \in InSession /\ wk[w].session # None
    BY <1>0 DEF EvalInv, Pc, Fresh, InSession, Local
  <2> QED
    BY <1>0, <2>2, <2>3, SameDisk, RowKeeps
<1>2. CASE RenewEnds(w)
  <2>1. To(w, "interact", wk[w].status, FALSE)
    BY <1>2, RenewForm DEF RenewEnds, Pc
  <2>3. /\ "interact" \in Pc /\ "interact" \in Fresh /\ "interact" \in InSession
        /\ wk[w].session # None
    BY <1>0 DEF EvalInv, Pc, Fresh, InSession, Local
  <2> QED
    BY <1>0, <2>1, <2>3, SameDisk, RowKeeps
<1>3. CASE QueryFails(w) \/ RenewFailed(w) \/ InteractFails(w)
  <2>1. PICK st \in {"model error", "workflow error", "server error"} : wk' = Finish(w, st)
    BY <1>3 DEF QueryFails, RenewFailed, InteractFails
  <2>2. st \in Statuses /\ st \in ClientErrors
    BY DEF Statuses, ClientErrors
  <2>3. CASE wk[w].session # None
    <3>1. To(w, "cancel", st, wk[w].cancel) /\ st # None
      BY <2>1, <2>2, <2>3, FinishForm
    <3>2. "cancel" \in Pc /\ "cancel" \in Fresh /\ "cancel" \in InSession
      BY DEF Pc, Fresh, InSession
    <3> QED
      BY <1>0, <2>2, <3>1, <3>2, SameDisk, RowKeeps
  <2>4. CASE wk[w].session = None
    BY <1>0, <2>4 DEF EvalInv, Local
  <2> QED
    BY <2>3, <2>4
<1> QED
  BY <1>1, <1>2, <1>3

\* RecordFails, Save and the writes of the store (store.py:134-160, :252-263).
LEMMA SaveKeeps ==
    ASSUME EvalInv, NEW w \in Workers, RecordFails(w) \/ Save(w)
    PROVE  EvalInv'
<1> USE RowTypes DEF store
<1>0. /\ UNCHANGED <<config, phase, queue, mem, disk, clean, server>>
      /\ wk[w].pc \in {"record", "save"} /\ ~Over(w) /\ wk[w].pc \notin InSession
      /\ SmallFaults /\ faults' \in [FaultKinds -> Nat]
  <2>1. UNCHANGED faults \/ Failure("record")
    BY DEF RecordFails, Save
  <2>2. SmallFaults /\ faults' \in [FaultKinds -> Nat]
    BY <2>1, FailureFacts DEF TypeOK, SmallFaults, FaultKinds
  <2> QED
    BY <2>2 DEF RecordFails, Save, Over, InSession
<1>1. PICK p \in {"failed", "idle", "write"} :
          wk' = [wk EXCEPT ![w].pc = p] /\ (wk[w].pc = "record" => p = "failed")
  BY DEF RecordFails, Save
<1>2. To(w, p, wk[w].status, wk[w].cancel)
  <2>1. p \in Pc
    BY DEF Pc
  <2> QED
    BY <1>1, <2>1, PcForm
<1>3. /\ p \in Pc /\ p \notin Fresh
      /\ p \notin {"start", "record", "cancel", "save", "done", "model", "renewed", "interact"}
      /\ p \in {"save", "write"} => wk[w].pc \in Fresh \cup {"save", "write"}
      /\ wk[w].pc \in Fresh => p \in Fresh \cup {"failed"}
  BY <1>0, <1>1 DEF Pc, Fresh
<1>4. disk' \in [Specs -> Statuses \cup {None}] /\ Completed(disk') \subseteq Completed(mem)
  BY <1>0, SameDisk
<1>5. /\ p \in Pc /\ wk[w].status \in Statuses \cup {None} /\ wk[w].cancel \in BOOLEAN
      /\ ~Over(w) /\ p # "start" /\ (p \in {"model", "renewed", "interact"} => wk[w].session # None)
      /\ (p = "record" => wk[w].status # None)
      /\ (p = "cancel" /\ wk[w].status = None => wk[w].cancel)
      /\ (p \in Fresh => wk[w].pc \in Fresh)
  BY <1>0, <1>3, RowTypes
<1>6. /\ p \in {"save", "write"} => wk[w].pc \in Fresh \cup {"save", "write"}
      /\ wk[w].pc \in Fresh => wk[w].cancel \/ p \in Fresh \cup {"failed"}
      /\ p = "done" => wk[w].cancel
      /\ wk[w].pc \in InSession => p \in InSession
  BY <1>0, <1>3
<1>7. /\ SmallFaults /\ faults' \in [FaultKinds -> Nat]
      /\ UNCHANGED <<config, phase, queue, mem, clean, server>>
  BY <1>0, Zenon
<1> QED
  BY <1>2, <1>4, <1>5, <1>6, <1>7, RowKeeps, Zenon

\* A write that ends, and one that is cut off: the file has no line that is not in memory.
LEMMA WriteKeeps ==
    ASSUME EvalInv, NEW w \in Workers, Written(w) \/ WriteStops(w)
    PROVE  EvalInv'
<1> USE RowTypes
<1>0. /\ UNCHANGED <<config, phase, queue, mem, clean, server>>
      /\ wk[w].pc = "write" /\ ~Over(w) /\ wk[w].pc \notin InSession /\ wk[w].pc \notin Fresh
      /\ SmallFaults /\ faults' \in [FaultKinds -> Nat]
  <2>1. UNCHANGED faults \/ Failure("save")
    BY DEF Written, WriteStops
  <2>2. SmallFaults /\ faults' \in [FaultKinds -> Nat]
    BY <2>1, FailureFacts DEF TypeOK, SmallFaults, FaultKinds
  <2> QED
    BY <2>2 DEF Written, WriteStops, Over, InSession, Fresh
<1>1. PICK p \in {"failed", "idle", "done"} :
          wk' = [wk EXCEPT ![w].pc = p] /\ (p = "done" => wk[w].cancel)
  BY DEF Written, WriteStops
<1>2. disk' \in [Specs -> Statuses \cup {None}] /\ Completed(disk') \subseteq Completed(mem)
  <2>1. mem \in [Specs -> Statuses \cup {None}]
    BY DEF TypeOK
  <2>2. CASE disk' = mem
    BY <2>1, <2>2
  <2>3. ASSUME NEW kept \in SUBSET Specs,
               disk' = [s \in Specs |-> IF s \in kept THEN mem[s] ELSE None]
        PROVE  disk' \in [Specs -> Statuses \cup {None}] /\ Completed(disk') \subseteq Completed(mem)
    BY <2>1, <2>3, SpecsAssumption DEF Completed, CompletedStatuses, Statuses
  <2> QED
    BY <2>2, <2>3 DEF Written, WriteStops
<1>3. p \in Pc /\ p \notin Fresh
      /\ p \notin {"start", "record", "cancel", "save", "write", "model", "renewed", "interact"}
  BY DEF Pc, Fresh
<1>4. To(w, p, wk[w].status, wk[w].cancel)
  BY <1>1, <1>3, PcForm
<1>5. /\ p \in Pc /\ wk[w].status \in Statuses \cup {None} /\ wk[w].cancel \in BOOLEAN
      /\ ~Over(w) /\ p # "start" /\ (p \in {"model", "renewed", "interact"} => wk[w].session # None)
      /\ (p = "record" => wk[w].status # None)
      /\ (p = "cancel" /\ wk[w].status = None => wk[w].cancel)
      /\ (p \in Fresh => wk[w].pc \in Fresh)
  BY <1>0, <1>3, RowTypes
<1>6. /\ p \in {"save", "write"} => wk[w].pc \in Fresh \cup {"save", "write"}
      /\ wk[w].pc \in Fresh => wk[w].cancel \/ p \in Fresh \cup {"failed"}
      /\ p = "done" => wk[w].cancel
      /\ wk[w].pc \in InSession => p \in InSession
  BY <1>0, <1>1, <1>3
<1>7. /\ SmallFaults /\ faults' \in [FaultKinds -> Nat]
      /\ UNCHANGED <<config, phase, queue, mem, clean, server>>
  BY <1>0, Zenon
<1> QED
  BY <1>2, <1>4, <1>5, <1>6, <1>7, RowKeeps, Zenon

\* A session that is being opened has a number of its own (workflow.py:51-72).
LEMMA OpensFacts ==
    ASSUME EvalInv, NEW w \in Workers, wk[w].pc = "start", Opens(w)
    PROVE  \E n \in Sessions :
              /\ n = NewSession(w) /\ n \notin open /\ n # None
              /\ \A v \in Workers : wk[v].session # n
              /\ attempts' \in [Specs -> Nat]
              /\ \A s \in Specs : attempts'[s] >= attempts[s]
              /\ Used(n)'
<1> USE DEF EvalInv
<1>1. PICK q \in Specs : q = wk[w].spec
  BY DEF Local, Fresh
<1>2. attempts \in [Specs -> Nat] /\ attempts[q] \in Nat
  BY DEF TypeOK
<1>3. attempts' = [attempts EXCEPT ![q] = attempts[q] + 1]
  BY <1>1 DEF Opens
<1>4. PICK n \in Sessions : n = <<q, attempts[q] + 1>>
  <2>1. attempts[q] + 1 \in Nat
    BY <1>2
  <2>2. <<q, attempts[q] + 1>> \in Sessions
    BY <2>1 DEF Sessions
  <2> QED
    BY <2>2
<1>5. ~Used(n) /\ n = NewSession(w)
  BY <1>1, <1>2, <1>4 DEF Used, NewSession
<1>6. n # None
  BY SpecsAssumption DEF Sessions
<1>7. \A v \in Workers : wk[v].session # n
  BY <1>5, <1>6 DEF Held, Numbered
<1>8. n \notin open
  BY <1>5 DEF Held
<1>9. attempts' \in [Specs -> Nat] /\ \A s \in Specs : attempts'[s] >= attempts[s]
  BY <1>2, <1>3
<1>10. Used(n)'
  BY <1>2, <1>3, <1>4 DEF Used
<1> QED
  BY <1>5, <1>6, <1>7, <1>8, <1>9, <1>10

\* One more field at a time.
LEMMA SetSession ==
    ASSUME NEW f \in [Workers -> Worker], NEW w \in Workers, NEW n \in Sessions \cup {None}
    PROVE  /\ [f EXCEPT ![w].session = n] \in [Workers -> Worker]
           /\ \A v \in Workers \ {w} : [f EXCEPT ![w].session = n][v] = f[v]
           /\ [f EXCEPT ![w].session = n][w].session = n
           /\ [f EXCEPT ![w].session = n][w].pc = f[w].pc
           /\ [f EXCEPT ![w].session = n][w].spec = f[w].spec
           /\ [f EXCEPT ![w].session = n][w].status = f[w].status
           /\ [f EXCEPT ![w].session = n][w].cancel = f[w].cancel
BY DEF Worker

\* The worker goes to p with status st and session n.
With(w, p, st, n) ==
    /\ OnlyWorker(w) /\ wk' \in [Workers -> Worker]
    /\ wk'[w].pc = p /\ wk'[w].status = st /\ wk'[w].session = n
    /\ wk'[w].spec = wk[w].spec /\ wk'[w].cancel = wk[w].cancel

LEMMA WithForms ==
    ASSUME EvalInv, NEW w \in Workers, NEW p \in Pc, NEW st \in Statuses \cup {None},
           NEW n \in Sessions \cup {None},
           \/ wk' = [wk EXCEPT ![w].session = n, ![w].pc = p, ![w].status = st]
           \/ wk' = [wk EXCEPT ![w].session = n, ![w].status = st, ![w].pc = p]
    PROVE  With(w, p, st, n)
<1>0. wk \in [Workers -> Worker]
  BY RowTypes
<1>1. PICK f \in [Workers -> Worker] : f = [wk EXCEPT ![w].session = n]
  BY <1>0, SetSession
<1>2. CASE wk' = [wk EXCEPT ![w].session = n, ![w].pc = p, ![w].status = st]
  <2>1. PICK g \in [Workers -> Worker] : g = [f EXCEPT ![w].pc = p]
    BY SetPc
  <2>2. wk' = [g EXCEPT ![w].status = st]
    BY <1>1, <1>2, <2>1
  <2>3. /\ \A v \in Workers \ {w} : f[v] = wk[v]
        /\ f[w].session = n /\ f[w].spec = wk[w].spec /\ f[w].cancel = wk[w].cancel
    BY <1>0, <1>1, SetSession
  <2>4. /\ \A v \in Workers \ {w} : g[v] = f[v]
        /\ g[w].session = n /\ g[w].spec = wk[w].spec /\ g[w].cancel = wk[w].cancel
        /\ g[w].pc = p
    BY <2>1, <2>3, SetPc
  <2>5. /\ wk' \in [Workers -> Worker] /\ \A v \in Workers \ {w} : wk'[v] = g[v]
        /\ wk'[w].session = n /\ wk'[w].spec = wk[w].spec /\ wk'[w].cancel = wk[w].cancel
        /\ wk'[w].pc = p /\ wk'[w].status = st
    <3>1. /\ [g EXCEPT ![w].status = st] \in [Workers -> Worker]
          /\ \A v \in Workers \ {w} : [g EXCEPT ![w].status = st][v] = g[v]
          /\ [g EXCEPT ![w].status = st][w].status = st
          /\ [g EXCEPT ![w].status = st][w].session = g[w].session
          /\ [g EXCEPT ![w].status = st][w].spec = g[w].spec
          /\ [g EXCEPT ![w].status = st][w].pc = g[w].pc
          /\ [g EXCEPT ![w].status = st][w].cancel = g[w].cancel
      BY SMTT(20) DEF Worker
    <3> QED
      BY <2>2, <2>4, <3>1
  <2> QED
    BY <2>3, <2>4, <2>5 DEF With, OnlyWorker
<1>3. CASE wk' = [wk EXCEPT ![w].session = n, ![w].status = st, ![w].pc = p]
  <2>1. PICK g \in [Workers -> Worker] : g = [f EXCEPT ![w].status = st]
    BY SetStatus
  <2>2. wk' = [g EXCEPT ![w].pc = p]
    BY <1>1, <1>3, <2>1
  <2>3. /\ \A v \in Workers \ {w} : f[v] = wk[v]
        /\ f[w].session = n /\ f[w].spec = wk[w].spec /\ f[w].cancel = wk[w].cancel
    BY <1>0, <1>1, SetSession
  <2>4. /\ \A v \in Workers \ {w} : g[v] = f[v]
        /\ g[w].session = n /\ g[w].spec = wk[w].spec /\ g[w].cancel = wk[w].cancel
        /\ g[w].status = st
    BY <2>1, <2>3, SetStatus
  <2>5. /\ wk' \in [Workers -> Worker] /\ \A v \in Workers \ {w} : wk'[v] = g[v]
        /\ wk'[w].session = n /\ wk'[w].spec = wk[w].spec /\ wk'[w].cancel = wk[w].cancel
        /\ wk'[w].pc = p /\ wk'[w].status = st
    BY <2>2, <2>4, SetPc
  <2> QED
    BY <2>3, <2>4, <2>5 DEF With, OnlyWorker
<1> QED
  BY <1>2, <1>3

\* A worker opens its session, which may end at once (workflow.py:51-84).
LEMMA StartKeeps ==
    ASSUME EvalInv, NEW w \in Workers,
           \/ StartSample(w)
           \/ \E status \in {"completed", "task error", "cancelled"} : StartFinishes(w, status)
    PROVE  EvalInv'
<1> USE DEF store
<1>0. /\ wk[w].pc = "start" /\ Opens(w) /\ ~Over(w) /\ wk[w].session = None /\ wk[w].spec \in Specs
      /\ UNCHANGED <<config, phase, queue, mem, disk, clean, faults, lost>>
  BY DEF StartSample, StartFinishes, Over, EvalInv, Local, Fresh
<1>1. PICK n \in Sessions :
              /\ n = NewSession(w) /\ n \notin open /\ n # None
              /\ \A v \in Workers : wk[v].session # n
              /\ attempts' \in [Specs -> Nat]
              /\ \A s \in Specs : attempts'[s] >= attempts[s]
              /\ Used(n)'
  BY <1>0, OpensFacts
<1>2. PICK p \in {"cancel", "model", "record"}, st \in Statuses \cup {None} :
          /\ With(w, p, st, n) /\ (p # "model" => st # None)
          /\ (open' = open \cup {n} /\ p # "record") \/ open' = open
  <2>1. CASE StartSample(w)
    <3>1. PICK p \in {"cancel", "model"}, st \in Statuses \cup {None} :
              /\ p = IF config.startOnly THEN "cancel" ELSE "model"
              /\ st = IF config.startOnly THEN "completed" ELSE None
      BY DEF Statuses
    <3>2. wk' = [wk EXCEPT ![w].session = n, ![w].pc = p, ![w].status = st]
      BY <1>1, <2>1, <3>1 DEF StartSample
    <3>3. With(w, p, st, n)
      BY <3>2, WithForms DEF Pc
    <3>4. p # "model" => st # None
      BY <3>1, SpecsAssumption DEF Statuses
    <3>5. open' = open \cup {n}
      BY <1>1, <2>1 DEF StartSample
    <3> QED
      BY <3>1, <3>3, <3>4, <3>5
  <2>2. ASSUME NEW status \in {"completed", "task error", "cancelled"}, StartFinishes(w, status)
        PROVE  \E p \in {"cancel", "model", "record"}, st \in Statuses \cup {None} :
                  /\ With(w, p, st, n) /\ (p # "model" => st # None)
                  /\ (open' = open \cup {n} /\ p # "record") \/ open' = open
    <3>1. PICK p \in {"cancel", "record"} : p = IF status \in ClientErrors THEN "cancel" ELSE "record"
      OBVIOUS
    <3>2. wk' = [wk EXCEPT ![w].session = n, ![w].status = status, ![w].pc = p]
      BY <1>1, <2>2, <3>1 DEF StartFinishes
    <3>3. status \in Statuses /\ status # None
      BY SpecsAssumption DEF Statuses
    <3>4. With(w, p, status, n)
      BY <3>2, <3>3, WithForms DEF Pc
    <3> QED
      BY <2>2, <3>3, <3>4 DEF StartFinishes
  <2> QED
    BY <2>1, <2>2
<1>3. /\ wk'[w].pc = p /\ wk'[w].status = st /\ wk'[w].session = n /\ wk'[w].spec = wk[w].spec
      /\ wk'[w].cancel = wk[w].cancel /\ OnlyWorker(w) /\ wk' \in [Workers -> Worker]
  BY <1>2 DEF With
<1>4. TypeOK'
  BY <1>0, <1>1, <1>2, <1>3 DEF EvalInv, TypeOK
<1>5. Moves(w)
  <2>1. Local(w)'
    BY <1>0, <1>1, <1>2, <1>3 DEF Local, Fresh
  <2>2. wk[w].pc \in Fresh /\ p \in Fresh /\ p # "done"
    BY <1>0 DEF Fresh
  <2> QED
    BY <1>3, <2>1, <2>2 DEF Moves
<1>6. Serves(w)
  <2>1. Numbered(w)'
    BY <1>1, <1>3 DEF Numbered, Used
  <2>2. None \notin open'
    BY <1>1, <1>2, SpecsAssumption DEF EvalInv, TypeOK, Sessions
  <2>3. n \in open' => p \in InSession
    BY <1>1, <1>2 DEF InSession
  <2> QED
    BY <1>0, <1>1, <1>2, <1>3, <2>1, <2>2, <2>3 DEF Serves
<1> QED
  BY <1>0, <1>3, <1>4, <1>5, <1>6, SameDisk, WorkerKeeps DEF SmallFaults

\* A start that fails or is cut off: the session that may be open is counted as lost.
LEMMA LostStartKeeps ==
    ASSUME EvalInv, NEW w \in Workers, NEW p \in Pc, NEW st \in Statuses \cup {None},
           wk[w].pc = "start", Opens(w), To(w, p, st, wk[w].cancel),
           \/ UNCHANGED <<open, lost>>
           \/ open' = open \cup {NewSession(w)} /\ lost' = lost \cup {NewSession(w)},
           \/ p = "record" /\ st # None
           \/ p = "done" /\ wk[w].cancel,
           SmallFaults, faults' \in [FaultKinds -> Nat],
           UNCHANGED <<config, phase, queue, mem, disk, clean>>
    PROVE  EvalInv'
<1>0. ~Over(w) /\ wk[w].session = None /\ wk[w].spec \in Specs
  BY DEF Over, EvalInv, Local, Fresh
<1>1. PICK n \in Sessions :
              /\ n = NewSession(w) /\ n \notin open /\ n # None
              /\ \A v \in Workers : wk[v].session # n
              /\ attempts' \in [Specs -> Nat]
              /\ \A s \in Specs : attempts'[s] >= attempts[s]
              /\ Used(n)'
  BY OpensFacts
<1>2. /\ wk'[w].pc = p /\ wk'[w].status = st /\ wk'[w].session = None /\ wk'[w].spec = wk[w].spec
      /\ wk'[w].cancel = wk[w].cancel /\ OnlyWorker(w) /\ wk' \in [Workers -> Worker]
  BY <1>0 DEF To
<1>3. /\ open' \subseteq open \cup {n} /\ open' \ lost' \subseteq open \ lost
      /\ open' \subseteq Sessions
  BY <1>1 DEF EvalInv, TypeOK
<1>4. TypeOK'
  BY <1>1, <1>2, <1>3 DEF EvalInv, TypeOK
<1>5. Moves(w)
  <2>1. Local(w)'
    BY <1>0, <1>2 DEF Local, Fresh
  <2>2. wk[w].pc \in Fresh /\ "record" \in Fresh /\ "done" \notin Fresh
    BY DEF Fresh
  <2> QED
    BY <1>2, <2>1, <2>2 DEF Moves
<1>6. Serves(w)
  <2>1. Numbered(w)'
    BY <1>2 DEF Numbered
  <2>2. None \notin open'
    BY <1>3, SpecsAssumption DEF Sessions
  <2> QED
    BY <1>0, <1>1, <1>2, <1>3, <2>1, <2>2 DEF Serves
<1> QED
  BY <1>0, <1>2, <1>4, <1>5, <1>6, SameDisk, WorkerKeeps

LEMMA StartFailsKeeps ==
    ASSUME EvalInv, NEW w \in Workers, StartFails(w)
    PROVE  EvalInv'
<1>1. /\ wk[w].pc = "start" /\ Opens(w) /\ wk[w].session = None
      /\ UNCHANGED <<config, phase, queue, mem, disk, clean>>
      /\ \/ UNCHANGED <<open, lost>>
         \/ open' = open \cup {NewSession(w)} /\ lost' = lost \cup {NewSession(w)}
  BY DEF StartFails, store, EvalInv, Local
<1>2. SmallFaults /\ faults' \in [FaultKinds -> Nat]
  BY FailureFacts DEF StartFails, EvalInv, FaultKinds
<1>3. "server error" \in Statuses /\ "record" \in Pc
  BY DEF Statuses, Pc
<1>4. To(w, "record", "server error", wk[w].cancel) /\ "server error" # None
  BY <1>1, <1>3, FinishForm DEF StartFails
<1> QED
  BY <1>1, <1>2, <1>3, <1>4, LostStartKeeps

\* A session that the controller has finished, one that is cancelled, and one that
\* can no longer be (workflow.py:140-173).
LEMMA CloseKeeps ==
    ASSUME EvalInv, NEW w \in Workers, NEW p \in Pc, NEW st \in Statuses \cup {None},
           NEW n \in Sessions \cup {None}, With(w, p, st, n), n \in {wk[w].session, None},
           wk[w].pc \in InSession, ~Over(w),
           \/ open' = open \ {wk[w].session} /\ UNCHANGED lost
           \/ lost' = lost \cup {wk[w].session} /\ UNCHANGED open,
           \/ p \in {"record", "cancel"} /\ st # None
           \/ p = "done" /\ wk[w].cancel,
           SmallFaults, faults' \in [FaultKinds -> Nat],
           UNCHANGED <<config, phase, queue, mem, disk, clean, attempts>>
    PROVE  EvalInv'
<1>1. /\ wk'[w].pc = p /\ wk'[w].status = st /\ wk'[w].session = n /\ wk'[w].spec = wk[w].spec
      /\ wk'[w].cancel = wk[w].cancel /\ OnlyWorker(w) /\ wk' \in [Workers -> Worker]
  BY DEF With
<1>2. open' \ lost' \subseteq (open \ lost) \ {wk[w].session} /\ open' \subseteq open
  OBVIOUS
<1>3. TypeOK'
  BY <1>1, <1>2 DEF EvalInv, TypeOK
<1>4. Moves(w)
  <2>1. wk[w].pc \in Fresh /\ "record" \in Fresh /\ "cancel" \in Fresh /\ "done" \notin Fresh
    BY DEF Fresh, InSession
  <2>2. Local(w)'
    BY <1>1, <2>1 DEF EvalInv, Local, Fresh
  <2> QED
    BY <1>1, <2>1, <2>2 DEF Moves
<1>5. Serves(w)
  <2>1. Numbered(w)'
    BY <1>1 DEF EvalInv, Held, Numbered, Used
  <2>2. None \notin open'
    BY <1>2, SpecsAssumption DEF EvalInv, TypeOK, Sessions
  <2>3. \A s \in Specs : attempts'[s] >= attempts[s]
    BY DEF EvalInv, TypeOK
  <2> QED
    BY <1>1, <1>2, <2>1, <2>2, <2>3 DEF Serves
<1> QED
  BY <1>1, <1>3, <1>4, <1>5, SameDisk, WorkerKeeps

\* To is With, for the session the worker has.
LEMMA ToWith ==
    ASSUME EvalInv, NEW w \in Workers, NEW p, NEW st, To(w, p, st, wk[w].cancel)
    PROVE  With(w, p, st, wk[w].session)
BY DEF To, With

LEMMA InteractFinishesKeeps ==
    ASSUME EvalInv, NEW w \in Workers, NEW st \in {"completed", "task error", "cancelled"},
           InteractFinishes(w, st)
    PROVE  EvalInv'
<1>1. /\ wk[w].pc = "interact" /\ ~Over(w) /\ wk[w].pc \in InSession
      /\ open' = open \ {wk[w].session} /\ wk' = Finish(w, st)
      /\ UNCHANGED <<config, phase, queue, mem, disk, clean, attempts, lost, faults>>
  BY DEF InteractFinishes, store, Over, InSession
<1>2. SmallFaults /\ faults' \in [FaultKinds -> Nat]
  BY <1>1 DEF EvalInv, TypeOK, SmallFaults
<1>3. st \in Statuses
  BY DEF Statuses
<1>4. PICK p \in {"cancel", "record"} : To(w, p, st, wk[w].cancel) /\ st # None
  BY <1>1, <1>3, FinishForm
<1>5. With(w, p, st, wk[w].session) /\ p \in Pc
  BY <1>4, ToWith DEF Pc
<1>6. wk[w].session \in Sessions \cup {None}
  BY RowTypes DEF Worker
<1>7. PICK n \in Sessions \cup {None} : n = wk[w].session
  BY <1>6
<1>8. With(w, p, st, n)
  BY <1>5, <1>7
<1> QED
  BY <1>1, <1>2, <1>3, <1>4, <1>5, <1>7, <1>8, CloseKeeps

LEMMA CancelledKeeps ==
    ASSUME EvalInv, NEW w \in Workers, Cancelled(w)
    PROVE  EvalInv'
<1>1. /\ wk[w].pc = "cancel" /\ ~Over(w) /\ wk[w].pc \in InSession
      /\ UNCHANGED <<config, phase, queue, mem, disk, clean, attempts>>
      /\ \/ open' = open \ {wk[w].session} /\ UNCHANGED lost
         \/ lost' = lost \cup {wk[w].session} /\ UNCHANGED open
  BY DEF Cancelled, store, Over, InSession
<1>2. SmallFaults /\ faults' \in [FaultKinds -> Nat]
  <2>1. UNCHANGED faults \/ Failure("cancel")
    BY DEF Cancelled
  <2> QED
    BY <2>1, FailureFacts DEF EvalInv, TypeOK, SmallFaults, FaultKinds
<1>3. PICK st \in Statuses \cup {None} : st = wk[w].status
  BY RowTypes
<1>4. PICK p \in {"done", "record"} : p = IF st = None THEN "done" ELSE "record"
  OBVIOUS
<1>5. wk' = [wk EXCEPT ![w].pc = p, ![w].session = None]
  BY <1>3, <1>4 DEF Cancelled
<1>6. With(w, p, st, None)
  <2>0. wk \in [Workers -> Worker] /\ p \in Pc
    BY RowTypes DEF Pc
  <2>1. PICK f \in [Workers -> Worker] : f = [wk EXCEPT ![w].pc = p]
    BY <2>0, SetPc
  <2>2. wk' = [f EXCEPT ![w].session = None]
    BY <1>5, <2>1
  <2>3. /\ \A v \in Workers \ {w} : f[v] = wk[v]
        /\ f[w].pc = p /\ f[w].spec = wk[w].spec /\ f[w].cancel = wk[w].cancel
        /\ f[w].status = wk[w].status
    BY <2>0, <2>1, SetPc
  <2>4. /\ wk' \in [Workers -> Worker] /\ \A v \in Workers \ {w} : wk'[v] = f[v]
        /\ wk'[w].session = None /\ wk'[w].pc = f[w].pc /\ wk'[w].spec = f[w].spec
        /\ wk'[w].cancel = f[w].cancel /\ wk'[w].status = f[w].status
    BY <2>2 DEF Worker
  <2> QED
    BY <1>3, <2>3, <2>4 DEF With, OnlyWorker
<1>7. p = "done" => wk[w].cancel
  BY <1>1, <1>3, <1>4 DEF EvalInv, Local
<1> QED
  BY <1>1, <1>2, <1>4, <1>6, <1>7, CloseKeeps DEF Pc

\* A cancellation arrives (runner.py:223-230, workflow.py:166-173).
LEMMA CancelArrivesKeeps ==
    ASSUME EvalInv, NEW w \in Workers, CancelArrives(w)
    PROVE  EvalInv'
<1>1. /\ wk[w].cancel /\ ~Over(w) /\ UNCHANGED <<config, phase, queue, mem, disk, clean, faults>>
  BY DEF CancelArrives, store
<1>2. SmallFaults /\ faults' \in [FaultKinds -> Nat]
  BY <1>1 DEF EvalInv, TypeOK, SmallFaults
<1>3. PICK st \in Statuses \cup {None} : st = wk[w].status
  BY RowTypes
<1>4. ASSUME wk' = [wk EXCEPT ![w].pc = "done"] PROVE To(w, "done", st, wk[w].cancel)
  BY <1>3, <1>4, PcForm DEF Pc
<1>5. CASE /\ wk[w].pc = "start" /\ Opens(w) /\ wk' = [wk EXCEPT ![w].pc = "done"]
           /\ \/ UNCHANGED <<open, lost>>
              \/ open' = open \cup {NewSession(w)} /\ lost' = lost \cup {NewSession(w)}
  BY <1>1, <1>2, <1>4, <1>5, LostStartKeeps DEF Pc
<1>6. CASE /\ wk[w].pc \in {"model", "interact"} /\ wk' = [wk EXCEPT ![w].pc = "cancel"]
           /\ UNCHANGED server
  <2>1. To(w, "cancel", st, wk[w].cancel)
    BY <1>3, <1>6, PcForm DEF Pc
  <2>2. /\ "cancel" \in Pc /\ "cancel" \in Fresh /\ "cancel" \in InSession
        /\ wk[w].pc \in Fresh /\ wk[w].cancel \in BOOLEAN
    BY <1>6, RowTypes DEF Pc, Fresh, InSession
  <2> QED
    BY <1>1, <1>2, <1>6, <2>1, <2>2, SameDisk, RowKeeps
<1>7. CASE /\ wk[w].pc = "cancel" /\ wk' = [wk EXCEPT ![w].pc = "done"]
           /\ lost' = lost \cup {wk[w].session} /\ UNCHANGED <<open, attempts>>
  <2>1. PICK n \in Sessions \cup {None} : n = wk[w].session
    BY RowTypes DEF Worker
  <2>2. With(w, "done", st, n)
    BY <1>4, <1>7, <2>1, ToWith
  <2>3. wk[w].pc \in InSession /\ "done" \in Pc
    BY <1>7 DEF InSession, Pc
  <2> QED
    BY <1>1, <1>2, <1>7, <2>1, <2>2, <2>3, CloseKeeps
<1>8. CASE /\ wk[w].pc \in {"idle", "record", "save"} /\ wk' = [wk EXCEPT ![w].pc = "done"]
           /\ UNCHANGED server
  <2>1. /\ "done" \in Pc /\ "done" \notin Fresh /\ wk[w].pc \notin InSession
        /\ wk[w].cancel \in BOOLEAN
    BY <1>8, RowTypes DEF Pc, Fresh, InSession
  <2> QED
    BY <1>1, <1>2, <1>4, <1>8, <2>1, SameDisk, RowKeeps
<1> QED
  BY <1>5, <1>6, <1>7, <1>8 DEF CancelArrives

\* A worker takes the next sample, or ends when there is none (runner.py:223-230).
LEMMA TakeKeeps ==
    ASSUME EvalInv, NEW w \in Workers, Take(w)
    PROVE  EvalInv'
<1>0. /\ wk[w].pc = "idle" /\ ~Over(w) /\ wk[w].pc \notin Fresh /\ wk[w].pc \notin InSession
      /\ UNCHANGED <<config, phase, mem, disk, clean, faults, open, lost, attempts>>
  BY DEF Take, store, server, Over, Fresh, InSession
<1>1. SmallFaults
  BY <1>0 DEF SmallFaults
<1>2. wk \in [Workers -> Worker]
  BY RowTypes
<1>3. PICK p \in {"done", "start"}, q \in Specs \cup {None} :
          /\ wk' = [wk EXCEPT ![w] = [pc |-> p, spec |-> q, session |-> None,
                                      status |-> None, cancel |-> FALSE]]
          /\ \/ p = "done" /\ queue = {} /\ UNCHANGED queue
             \/ p = "start" /\ q \in queue /\ queue' = queue \ {q}
  BY DEF Take, At, EvalInv, TypeOK
<1>4. /\ wk'[w].pc = p /\ wk'[w].spec = q /\ wk'[w].session = None /\ wk'[w].status = None
      /\ ~wk'[w].cancel /\ OnlyWorker(w)
  BY <1>2, <1>3 DEF OnlyWorker
<1>5. wk' \in [Workers -> Worker]
  <2>1. [pc |-> p, spec |-> q, session |-> None, status |-> None, cancel |-> FALSE] \in Worker
    BY DEF Worker, Pc
  <2> QED
    BY <1>2, <1>3, <2>1
<1>6. TypeOK'
  BY <1>0, <1>3, <1>5 DEF EvalInv, TypeOK
<1>7. Serves(w)
  <2>1. wk[w].session \notin open \ lost
    BY <1>0 DEF EvalInv, Held
  <2> QED
    BY <1>0, <1>4, <2>1, ServesSame
<1>8. Held' /\ SessionsClosed'
  BY <1>4, <1>6, <1>7, ServesKeep
<1>9. Ends'
  BY <1>0, <1>1, EndsKeep
<1>10. \A v \in Workers : Local(v)'
  <2>1. p = "start" => q \in Specs
    BY <1>3 DEF EvalInv, TypeOK
  <2> QED
    BY <1>3, <1>4, <2>1 DEF OnlyWorker, Local, Fresh, EvalInv
<1>11. Assigned'
  <2>1. q \in queue => q \notin Completed(mem)
    BY DEF EvalInv, Assigned
  <2>2. queue' \subseteq queue /\ "done" \notin Fresh
    BY <1>3 DEF Fresh
  <2> QED
    BY <1>0, <1>3, <1>4, <2>1, <2>2 DEF OnlyWorker, Assigned, EvalInv
<1>12. NothingMissed'
  <2> SUFFICES ASSUME clean, phase # "begin"
               PROVE  /\ \A v \in Workers : ~wk'[v].cancel
                      /\ \A s \in Specs : Covered(s)'
                      /\ \A v \in Workers : wk'[v].pc = "done" => queue' = {}
                      /\ phase \in Ending => \A v \in Workers : wk'[v].pc = "done"
    BY <1>0 DEF NothingMissed
  <2>1. \A v \in Workers : ~wk'[v].cancel
    BY <1>4 DEF OnlyWorker, NothingMissed, EvalInv
  <2>2. ASSUME NEW s \in Specs PROVE Covered(s)'
    <3>1. Covered(s)
      BY DEF NothingMissed, EvalInv
    <3>2. CASE mem[s] # None
      BY <1>0, <3>2 DEF Covered
    <3>3. CASE s \in queue
      <4>1. "start" \in Fresh
        BY DEF Fresh
      <4> QED
        BY <1>3, <1>4, <3>3, <4>1 DEF Covered
    <3>4. ASSUME NEW v \in Workers, wk[v].pc \in Fresh \cup {"failed"}, wk[v].spec = s
          PROVE  Covered(s)'
      <4>1. v # w
        BY <1>0, <3>4
      <4> QED
        BY <1>4, <3>4, <4>1 DEF OnlyWorker, Covered
    <3> QED
      BY <3>1, <3>2, <3>3, <3>4 DEF Covered
  <2>3. \A v \in Workers : wk'[v].pc = "done" => queue' = {}
    BY <1>3, <1>4 DEF OnlyWorker, NothingMissed, EvalInv
  <2>4. phase \notin Ending
    BY <1>0 DEF NothingMissed, EvalInv
  <2> QED
    BY <2>1, <2>2, <2>3, <2>4
<1> QED
  BY <1>6, <1>8, <1>9, <1>10, <1>11, <1>12 DEF EvalInv

\* The result of a sample is recorded, once (store.py:134-160).
LEMMA RecordKeeps ==
    ASSUME EvalInv, NEW w \in Workers, Record(w)
    PROVE  EvalInv'
<1>0. /\ wk[w].pc = "record" /\ ~Over(w) /\ wk[w].pc \in Fresh /\ wk[w].pc \notin InSession
      /\ UNCHANGED <<config, phase, queue, disk, clean, faults, open, lost, attempts>>
      /\ mem' = [mem EXCEPT ![wk[w].spec] = wk[w].status]
      /\ wk' = [wk EXCEPT ![w].pc = "save"]
  BY DEF Record, server, Over, Fresh, InSession
<1>1. SmallFaults
  BY <1>0 DEF SmallFaults
<1>2. PICK q \in Specs, st \in Statuses : q = wk[w].spec /\ st = wk[w].status
  BY <1>0, RowTypes DEF EvalInv, Local
<1>3. /\ mem' \in [Specs -> Statuses \cup {None}]
      /\ \A s \in Specs : mem'[s] = IF s = q THEN st ELSE mem[s]
      /\ st # None
  BY <1>0, <1>2, SpecsAssumption DEF EvalInv, TypeOK
<1>4. To(w, "save", wk[w].status, wk[w].cancel)
  BY <1>0, PcForm DEF Pc
<1>5. /\ wk'[w].pc = "save" /\ wk'[w].spec = q /\ wk'[w].session = wk[w].session
      /\ wk'[w].cancel = wk[w].cancel /\ OnlyWorker(w) /\ wk' \in [Workers -> Worker]
  BY <1>2, <1>4 DEF To
<1>6. TypeOK'
  BY <1>0, <1>3, <1>5 DEF EvalInv, TypeOK
<1>7. Serves(w)
  <2>1. None \notin open
    BY SpecsAssumption DEF EvalInv, TypeOK, Sessions
  <2> QED
    BY <1>0, <1>5, <2>1, ServesSame
<1>8. Held' /\ SessionsClosed'
  BY <1>5, <1>6, <1>7, ServesKeep
<1>9. Ends'
  BY <1>0, <1>1, EndsKeep
<1>10. \A v \in Workers : Local(v)'
  BY <1>5 DEF OnlyWorker, Local, Fresh, EvalInv
<1>11. Assigned'
  <2>0. "save" \notin Fresh
    BY DEF Fresh
  <2>1. /\ q \notin queue /\ q \notin Completed(mem)
        /\ \A v \in Workers \ {w} : wk[v].pc \in Fresh => wk[v].spec # q
    BY <1>0, <1>2 DEF EvalInv, Assigned
  <2>2. /\ Completed(mem) \subseteq Completed(mem')
        /\ Completed(mem') \subseteq Completed(mem) \cup {q}
    BY <1>3, <2>1 DEF Completed
  <2>3. /\ wk'[w].pc \notin Fresh /\ UNCHANGED queue
        /\ \A v \in Workers \ {w} : wk'[v] = wk[v]
    BY <1>0, <1>5, <2>0 DEF OnlyWorker
  <2>4. \A v \in Workers : wk'[v].pc \in Fresh =>
            v # w /\ wk[v].pc \in Fresh /\ wk'[v].spec = wk[v].spec
    BY <2>3
  <2>5. \A v \in Workers : wk'[v].pc \in Fresh =>
            wk'[v].spec \notin queue' /\ wk'[v].spec \notin Completed(mem')
    BY <2>1, <2>2, <2>3, <2>4 DEF Assigned, EvalInv
  <2>6. queue' \cap Completed(mem') = {} /\ Completed(disk') \subseteq Completed(mem')
    BY <1>0, <2>1, <2>2, <2>3 DEF Assigned, EvalInv
  <2>7. \A u, v \in Workers : u # v /\ wk'[u].pc \in Fresh /\ wk'[v].pc \in Fresh =>
            wk'[u].spec # wk'[v].spec
    BY <2>4 DEF Assigned, EvalInv
  <2> QED
    BY <2>5, <2>6, <2>7, Zenon DEF Assigned
<1>12. NothingMissed'
  <2> SUFFICES ASSUME clean, phase # "begin"
               PROVE  /\ \A v \in Workers : ~wk'[v].cancel
                      /\ \A s \in Specs : Covered(s)'
                      /\ \A v \in Workers : wk'[v].pc = "done" => queue = {}
                      /\ phase \in Ending => \A v \in Workers : wk'[v].pc = "done"
    BY <1>0 DEF NothingMissed
  <2>1. \A v \in Workers : ~wk'[v].cancel
    BY <1>5 DEF OnlyWorker, NothingMissed, EvalInv
  <2>2. ASSUME NEW s \in Specs PROVE Covered(s)'
    <3>1. Covered(s)
      BY DEF NothingMissed, EvalInv
    <3>2. CASE s = q
      BY <1>3, <3>2 DEF Covered
    <3>3. ASSUME s # q, NEW v \in Workers, wk[v].pc \in Fresh \cup {"failed"}, wk[v].spec = s
          PROVE  Covered(s)'
      <4>1. v # w
        BY <1>2, <3>3
      <4> QED
        BY <1>5, <3>3, <4>1 DEF OnlyWorker, Covered
    <3> QED
      BY <1>0, <1>3, <3>1, <3>2, <3>3 DEF Covered
  <2>3. \A v \in Workers : wk'[v].pc = "done" => queue = {}
    BY <1>5 DEF OnlyWorker, NothingMissed, EvalInv
  <2>4. phase \notin Ending
    BY <1>0 DEF NothingMissed, EvalInv
  <2> QED
    BY <2>1, <2>2, <2>3, <2>4
<1> QED
  BY <1>6, <1>8, <1>9, <1>10, <1>11, <1>12 DEF EvalInv

\* Every step of a worker.
LEMMA WorkerStepKeeps ==
    ASSUME EvalInv, NEW w \in Workers, WorkerStep(w) \/ InteractContinues(w)
    PROVE  EvalInv'
BY TakeKeeps, StartKeeps, StartFailsKeeps, TalkKeeps, InteractFinishesKeeps, CancelledKeeps,
   RecordKeeps, SaveKeeps, WriteKeeps, CancelArrivesKeeps DEF WorkerStep

-----------------------------------------------------------------------------
(* The steps of the run.                                                   *)

\* Every worker stands at a step with its sample or none, and no session.
AllAt(p) == \A w \in Workers : /\ wk'[w].pc = p /\ wk'[w].session = None /\ ~wk'[w].cancel

LEMMA AtType ==
    ASSUME NEW p \in Pc
    PROVE  /\ At(p, None) \in Worker /\ At(p, None).pc = p /\ At(p, None).session = None
           /\ ~At(p, None).cancel
BY DEF At, Worker

LEMMA NoSession == ASSUME EvalInv PROVE None \notin open
BY SpecsAssumption DEF EvalInv, TypeOK, Sessions

\* The run begins: what the file has is not queued again (runner.py:192-202).
LEMMA BeginKeeps == ASSUME EvalInv, Begin PROVE EvalInv'
<1>0. /\ phase = "begin" /\ phase' = "running" /\ mem' = disk
      /\ queue' = Specs \ Completed(disk) /\ wk' = [w \in Workers |-> At("idle", None)]
      /\ UNCHANGED <<config, disk, open, lost, attempts, clean, faults>>
  BY DEF Begin, server, Read, Queued
<1>1. "idle" \in Pc /\ "idle" \notin Fresh \cup {"save", "write"}
  BY DEF Pc, Fresh
<1>2. AllAt("idle") /\ wk' \in [Workers -> Worker]
  BY <1>0, <1>1, AtType DEF AllAt
<1>3. TypeOK'
  BY <1>0, <1>2 DEF EvalInv, TypeOK, Phases
<1>4. \A w \in Workers : Local(w)'
  BY <1>1, <1>2 DEF AllAt, Local
<1>5. Assigned'
  BY <1>0, <1>1, <1>2 DEF AllAt, Assigned
<1>6. Held'
  <2>1. \A s \in open' : Used(s)'
    BY <1>0 DEF EvalInv, Held, Used
  <2>2. \A w \in Workers : Numbered(w)'
    BY <1>2 DEF AllAt, Numbered
  <2> QED
    BY <1>0, <1>2, <2>1, <2>2, NoSession DEF AllAt, Held
<1>7. SessionsClosed'
  BY <1>0 DEF EvalInv, SessionsClosed, Known, Ends
<1>8. Ends'
  BY <1>0 DEF Ends, Ending
<1>9. NothingMissed'
  <2>1. \A s \in Specs : Covered(s)'
    BY <1>0, SpecsAssumption DEF Covered, Completed, CompletedStatuses, Statuses
  <2> QED
    BY <1>0, <1>2, <2>1 DEF NothingMissed, AllAt, Ending
<1> QED
  BY <1>3, <1>4, <1>5, <1>6, <1>7, <1>8, <1>9 DEF EvalInv

\* A step that leaves the workers, the queue, the results and the sessions alone.
LEMMA SameWorkers ==
    ASSUME EvalInv, UNCHANGED <<queue, wk, mem, open, lost, attempts>>,
           Completed(disk') \subseteq Completed(mem)
    PROVE  (\A w \in Workers : Local(w)') /\ Assigned' /\ Held' /\ SessionsClosed'
<1>1. (\A w \in Workers : Local(w)') /\ Assigned'
  BY DEF EvalInv, Local, Assigned
<1>2. Held' /\ SessionsClosed'
  BY DEF EvalInv, Held, Used, Numbered, SessionsClosed, Known, Over
<1> QED
  BY <1>1, <1>2

\* The run waits for its workers, then saves (runner.py:208-218).
LEMMA PhaseKeeps ==
    ASSUME EvalInv, phase # "begin", phase' \in {"saving", "writing"},
           Calm => \A w \in Workers : Over(w), clean => \A w \in Workers : wk[w].pc = "done",
           UNCHANGED <<config, queue, wk, mem, disk, open, lost, attempts, clean, faults>>
    PROVE  EvalInv'
<1>1. TypeOK'
  BY DEF EvalInv, TypeOK, Phases
<1>2. (\A w \in Workers : Local(w)') /\ Assigned' /\ Held' /\ SessionsClosed'
  BY SameWorkers DEF EvalInv, Assigned
<1>3. Ends'
  BY DEF Ends, Calm, Over
<1>4. NothingMissed'
  BY DEF EvalInv, NothingMissed, Covered
<1> QED
  BY <1>1, <1>2, <1>3, <1>4 DEF EvalInv

LEMMA EndingKeeps ==
    ASSUME EvalInv, AllDone \/ AbortDone \/ QuitDone \/ SaveAtEnd
    PROVE  EvalInv'
<1>1. CASE AllDone
  BY <1>1, PhaseKeeps DEF AllDone, store, server, Over
<1>2. CASE AbortDone
  BY <1>2, PhaseKeeps DEF AbortDone, store, server, EvalInv, Ends
<1>3. CASE QuitDone
  BY <1>3, PhaseKeeps DEF QuitDone, store, server, EvalInv, Ends, Calm
<1>4. CASE SaveAtEnd
  BY <1>4, PhaseKeeps DEF SaveAtEnd, server, EvalInv, Ends, NothingMissed, Ending
<1> QED
  BY <1>1, <1>2, <1>3, <1>4

\* The last save is forced.
LEMMA SaveAtEndDoneKeeps == ASSUME EvalInv, SaveAtEndDone PROVE EvalInv'
<1>0. /\ phase = "writing" /\ phase' = "ended" /\ disk' = mem
      /\ UNCHANGED <<config, queue, wk, mem, open, lost, attempts, clean, faults>>
  BY DEF SaveAtEndDone, server
<1>1. TypeOK'
  BY <1>0 DEF EvalInv, TypeOK, Phases
<1>2. (\A w \in Workers : Local(w)') /\ Assigned' /\ Held' /\ SessionsClosed'
  BY <1>0, SameWorkers
<1>3. Ends'
  BY <1>0 DEF EvalInv, Ends, Calm, Over, Ending
<1>4. NothingMissed'
  BY <1>0 DEF EvalInv, NothingMissed, Covered, Ending
<1> QED
  BY <1>1, <1>2, <1>3, <1>4 DEF EvalInv

\* A later run resumes.
LEMMA ResumeKeeps == ASSUME EvalInv, Resume PROVE EvalInv'
<1>0. /\ phase' = "begin" /\ clean' = TRUE /\ \A w \in Workers : Over(w)
      /\ UNCHANGED <<config, queue, wk, mem, disk, open, lost, attempts, faults>>
  BY DEF Resume, server, store
<1>1. TypeOK'
  BY <1>0 DEF EvalInv, TypeOK, Phases
<1>2. (\A w \in Workers : Local(w)') /\ Assigned' /\ Held' /\ SessionsClosed'
  BY <1>0, SameWorkers DEF EvalInv, Assigned
<1>3. Ends'
  BY <1>0 DEF Ends, Over, Ending
<1>4. NothingMissed'
  BY <1>0 DEF NothingMissed
<1> QED
  BY <1>1, <1>2, <1>3, <1>4 DEF EvalInv

\* The workers are cancelled: nothing else changes yet (runner.py:208-218).
CancelAll == wk' = [w \in Workers |-> IF Over(w) THEN wk[w] ELSE [wk[w] EXCEPT !.cancel = TRUE]]

LEMMA CancelAllForm ==
    ASSUME EvalInv, CancelAll
    PROVE  /\ wk' \in [Workers -> Worker]
           /\ \A w \in Workers :
                 /\ wk'[w].pc = wk[w].pc /\ wk'[w].spec = wk[w].spec
                 /\ wk'[w].session = wk[w].session /\ wk'[w].status = wk[w].status
                 /\ wk[w].cancel => wk'[w].cancel
<1>1. ASSUME NEW w \in Workers
      PROVE  /\ wk'[w] \in Worker
             /\ wk'[w].pc = wk[w].pc /\ wk'[w].spec = wk[w].spec
             /\ wk'[w].session = wk[w].session /\ wk'[w].status = wk[w].status
             /\ wk[w].cancel => wk'[w].cancel
  <2>1. wk[w] \in Worker
    BY RowTypes
  <2>2. PICK r \in Worker : r = wk[w]
    BY <2>1
  <2>3. PICK c \in BOOLEAN : c = TRUE
    OBVIOUS
  <2>4. /\ [r EXCEPT !.cancel = c] \in Worker
        /\ [r EXCEPT !.cancel = c].pc = r.pc /\ [r EXCEPT !.cancel = c].spec = r.spec
        /\ [r EXCEPT !.cancel = c].session = r.session
        /\ [r EXCEPT !.cancel = c].status = r.status
    BY DEF Worker
  <2>5. [r EXCEPT !.cancel = c].cancel = c
    BY DEF Worker
  <2>6. wk'[w] = IF Over(w) THEN r ELSE [r EXCEPT !.cancel = c]
    BY <2>2, <2>3 DEF CancelAll
  <2> QED
    BY <2>2, <2>3, <2>4, <2>5, <2>6
<1>2. wk' = [w \in Workers |-> wk'[w]]
  BY DEF CancelAll
<1> QED
  BY <1>1, <1>2

LEMMA CancelAllKeeps ==
    ASSUME EvalInv, CancelAll, faults' \in [FaultKinds -> Nat], clean' = FALSE,
           phase' = "aborting" \/ (phase' = "quitting" /\ faults'["quit"] # 0),
           UNCHANGED <<config, queue, mem, disk, open, lost, attempts>>
    PROVE  EvalInv'
<1>1. TypeOK'
  BY CancelAllForm DEF EvalInv, TypeOK, Phases
<1>2. \A w \in Workers : Local(w)'
  BY CancelAllForm DEF EvalInv, Local
<1>3. Assigned'
  BY CancelAllForm DEF EvalInv, Assigned
<1>4. Held'
  BY CancelAllForm DEF EvalInv, Held, Numbered, Used
<1>5. SessionsClosed'
  BY CancelAllForm DEF EvalInv, SessionsClosed, Known, Over
<1>6. Ends'
  BY DEF Ends, Calm, Ending
<1>7. NothingMissed'
  BY DEF NothingMissed
<1> QED
  BY <1>1, <1>2, <1>3, <1>4, <1>5, <1>6, <1>7 DEF EvalInv

LEMMA AbortKeeps == ASSUME EvalInv, Abort \/ Quit PROVE EvalInv'
<1>1. CASE Abort
  BY <1>1, CancelAllKeeps DEF Abort, CancelAll, store, server, EvalInv, TypeOK
<1>2. CASE Quit
  <2>1. faults' \in [FaultKinds -> Nat] /\ faults'["quit"] # 0
    BY <1>2 DEF Quit, Failure, FaultKinds, EvalInv, TypeOK
  <2> QED
    BY <1>2, <2>1, CancelAllKeeps DEF Quit, CancelAll, store, server
<1> QED
  BY <1>1, <1>2

\* The process ends while workers still run: what they had is lost.
LEMMA CutOffKeeps ==
    ASSUME EvalInv, phase' = "ended", ~Calm', ~clean', clean' \in BOOLEAN,
           faults' \in [FaultKinds -> Nat],
           \A w \in Workers : wk'[w] = IF Over(w) THEN wk[w] ELSE At("done", None),
           wk' \in [Workers -> Worker],
           lost \subseteq lost', \A s \in open : Known(s) => s \in lost',
           disk' \in [Specs -> Statuses \cup {None}], Completed(disk') \subseteq Completed(mem),
           UNCHANGED <<config, queue, mem, open, attempts>>
    PROVE  EvalInv'
<1>0. "done" \in Pc /\ "done" \notin Fresh \cup {"save", "write"}
  BY DEF Pc, Fresh
<1>1. TypeOK'
  BY DEF EvalInv, TypeOK, Phases
<1>2. \A w \in Workers : \/ wk'[w] = wk[w]
                         \/ wk'[w].pc = "done" /\ wk'[w].session = None
  BY <1>0, AtType
<1>3. \A w \in Workers : Local(w)'
  BY <1>0, <1>2 DEF EvalInv, Local
<1>4. Assigned'
  BY <1>0, <1>2 DEF EvalInv, Assigned
<1>5. Held'
  <2>1. \A s \in open' : Used(s)'
    BY DEF EvalInv, Held, Used
  <2>2. \A w \in Workers : Numbered(w)'
    BY <1>2 DEF EvalInv, Held, Numbered, Used
  <2> QED
    BY <1>2, <2>1, <2>2, NoSession DEF EvalInv, Held
<1>6. SessionsClosed'
  BY DEF EvalInv, SessionsClosed
<1>7. Ends'
  BY DEF Ends
<1>8. NothingMissed'
  BY DEF NothingMissed
<1> QED
  BY <1>1, <1>3, <1>4, <1>5, <1>6, <1>7, <1>8 DEF EvalInv

LEMMA ExitKeeps == ASSUME EvalInv, Exit PROVE EvalInv'
<1>0. /\ phase = "ended" /\ phase' = "ended" /\ \E w \in Workers : ~Over(w)
      /\ wk' = [w \in Workers |-> IF Over(w) THEN wk[w] ELSE At("done", None)]
      /\ lost' = lost \cup {s \in open : Known(s)}
      /\ UNCHANGED <<config, queue, mem, disk, open, attempts, clean, faults>>
  BY DEF Exit
<1>1. ~Calm /\ ~clean
  BY <1>0 DEF EvalInv, Ends, Ending, Calm
<1>2. wk' \in [Workers -> Worker]
  BY <1>0, AtType DEF EvalInv, TypeOK, Pc
<1>3. ~Calm' /\ ~clean' /\ clean' \in BOOLEAN /\ faults' \in [FaultKinds -> Nat]
  BY <1>0, <1>1 DEF Calm, EvalInv, TypeOK
<1>4. /\ disk' \in [Specs -> Statuses \cup {None}] /\ Completed(disk') \subseteq Completed(mem)
  BY <1>0 DEF EvalInv, TypeOK, Assigned
<1> QED
  BY <1>0, <1>2, <1>3, <1>4, CutOffKeeps

\* The process is killed: the file keeps some of the lines it was being given.
LEMMA CrashKeeps == ASSUME EvalInv, Crash PROVE EvalInv'
<1>0. /\ phase' = "ended" /\ clean' = FALSE /\ Failure("crash")
      /\ wk' = [w \in Workers |-> At("done", None)] /\ lost' = lost \cup open
      /\ UNCHANGED <<config, queue, mem, open, attempts>>
  BY DEF Crash
<1>1. faults' \in [FaultKinds -> Nat] /\ faults'["crash"] # 0
  BY <1>0 DEF Failure, FaultKinds, EvalInv, TypeOK
<1>2. ~Calm' /\ ~clean' /\ clean' \in BOOLEAN
  BY <1>0, <1>1 DEF Calm
<1>3. /\ disk' \in [Specs -> Statuses \cup {None}] /\ Completed(disk') \subseteq Completed(mem)
  <2>1. CASE disk' = disk
    BY <2>1 DEF EvalInv, TypeOK, Assigned
  <2>2. ASSUME NEW kept \in SUBSET Specs,
               disk' = [s \in Specs |-> IF s \in kept THEN mem[s] ELSE None]
        PROVE  /\ disk' \in [Specs -> Statuses \cup {None}]
               /\ Completed(disk') \subseteq Completed(mem)
    <3>1. None \notin CompletedStatuses
      BY SpecsAssumption DEF CompletedStatuses, Statuses
    <3> QED
      BY <2>2, <3>1 DEF EvalInv, TypeOK, Completed
  <2> QED
    BY <2>1, <2>2 DEF Crash
<1>4. wk' \in [Workers -> Worker] /\ "done" \in Pc /\ "done" \notin Fresh \cup {"save", "write"}
  BY <1>0, AtType DEF Pc, Fresh
<1>5. \A w \in Workers : wk'[w].pc = "done" /\ wk'[w].session = None
  BY <1>0, <1>4, AtType
<1>6. TypeOK'
  BY <1>0, <1>1, <1>2, <1>3, <1>4 DEF EvalInv, TypeOK, Phases
<1>7. (\A w \in Workers : Local(w)') /\ Assigned'
  BY <1>0, <1>3, <1>4, <1>5 DEF EvalInv, Local, Assigned
<1>8. Held' /\ SessionsClosed'
  <2>1. \A s \in open' : Used(s)'
    BY <1>0 DEF EvalInv, Held, Used
  <2> QED
    BY <1>0, <1>5, <2>1, NoSession DEF Held, Numbered, SessionsClosed
<1>9. Ends' /\ NothingMissed'
  BY <1>0, <1>2 DEF Ends, NothingMissed
<1> QED
  BY <1>6, <1>7, <1>8, <1>9 DEF EvalInv

LEMMA QuietKeeps == ASSUME EvalInv, TimePasses \/ UNCHANGED vars PROVE EvalInv'
<1>0. UNCHANGED <<config, phase, queue, wk, mem, disk, open, lost, attempts, clean, faults>>
  BY DEF TimePasses, vars, server
<1>1. TypeOK'
  BY <1>0 DEF EvalInv, TypeOK
<1>2. (\A w \in Workers : Local(w)') /\ Assigned' /\ Held' /\ SessionsClosed'
  BY <1>0, SameWorkers DEF EvalInv, Assigned
<1>3. Ends' /\ NothingMissed'
  BY <1>0 DEF EvalInv, Ends, Calm, Over, NothingMissed, Covered
<1> QED
  BY <1>1, <1>2, <1>3 DEF EvalInv

-----------------------------------------------------------------------------
(* The invariant and the theorems.                                         *)

LEMMA EvalInit == Init => EvalInv
<1> SUFFICES ASSUME Init PROVE EvalInv
  OBVIOUS
<1>1. /\ wk = [w \in Workers |-> At("done", None)] /\ phase = "begin" /\ open = {}
      /\ queue = {} /\ attempts = [s \in Specs |-> 0] /\ config \in Configs
      /\ mem = [s \in Specs |-> None] /\ disk = mem /\ clean = TRUE
      /\ faults = [kind \in FaultKinds |-> 0]
  BY DEF Init
<1>2. "done" \in Pc /\ "done" \notin Fresh \cup {"save", "write"}
  BY DEF Pc, Fresh
<1>3. wk \in [Workers -> Worker]
  BY <1>1, <1>2, AtType
<1>4. \A w \in Workers : wk[w].pc = "done" /\ wk[w].session = None
  BY <1>1, <1>2, AtType
<1>5. TypeOK
  BY <1>1, <1>3 DEF TypeOK, Phases
<1>6. \A w \in Workers : Local(w)
  BY <1>2, <1>4 DEF Local
<1>7. Assigned
  BY <1>1, <1>2, <1>4 DEF Assigned
<1>8. Held /\ SessionsClosed
  BY <1>1, <1>4 DEF Held, Numbered, SessionsClosed
<1>9. Ends /\ NothingMissed
  BY <1>1, <1>4 DEF Ends, Ending, Over, NothingMissed
<1> QED
  BY <1>5, <1>6, <1>7, <1>8, <1>9 DEF EvalInv

LEMMA EvalNext == EvalInv /\ [Next]_vars => EvalInv'
<1> SUFFICES ASSUME EvalInv, [Next]_vars PROVE EvalInv'
  OBVIOUS
<1>1. CASE RunStep
  BY <1>1, BeginKeeps, EndingKeeps, AbortKeeps, SaveAtEndDoneKeeps, ExitKeeps DEF RunStep
<1>2. CASE Quit \/ Crash \/ Resume
  BY <1>2, AbortKeeps, CrashKeeps, ResumeKeeps
<1>3. CASE TimePasses \/ UNCHANGED vars
  BY <1>3, QuietKeeps
<1>4. CASE \E w \in Workers : WorkerStep(w) \/ InteractContinues(w)
  BY <1>4, WorkerStepKeeps
<1> QED
  BY <1>1, <1>2, <1>3, <1>4 DEF Next

LEMMA EvalAlways == Spec => []EvalInv
BY EvalInit, EvalNext, PTL DEF Spec

\* No session is left open behind the workers' back, whatever fails and whoever
\* is cancelled: the worker that knows it still stands where it will cancel it,
\* or the session is among the lost ones (workflow.py:51-72, :166-173).
THEOREM SessionsAreClosed == Spec => []SessionsClosed
<1>1. EvalInv => SessionsClosed
  BY DEF EvalInv
<1> QED
  BY <1>1, EvalAlways, PTL

\* A sample with a completed result is never run again, by this run or by one
\* that resumes it, since no other worker has it and the queue does not hold it
\* (runner.py:192-202, store.py:89-132).
THEOREM NeverRerun == Spec => []CompletedNotRerun
<1>1. EvalInv => CompletedNotRerun
  BY DEF EvalInv, Assigned, Fresh, CompletedNotRerun
<1> QED
  BY <1>1, EvalAlways, PTL

\* A run that ended by itself has its results on disk, and one that nothing went
\* wrong in has a result for every sample (runner.py:208-218, store.py:252-263).
THEOREM ResultsAreSaved == Spec => []ResultsSaved
<1>1. EvalInv => ResultsSaved
  <2> SUFFICES ASSUME EvalInv, phase = "ended"
               PROVE  /\ clean => disk = mem /\ \A s \in Specs : mem[s] # None
                      /\ faults["quit"] + faults["crash"] = 0 => disk = mem
    BY DEF ResultsSaved
  <2>1. ASSUME clean PROVE disk = mem /\ \A s \in Specs : mem[s] # None
    <3>1. \A w \in Workers : wk[w].pc = "done"
      BY <2>1 DEF EvalInv, NothingMissed, Ending
    <3>2. queue = {} /\ \A s \in Specs : Covered(s)
      BY <2>1, <3>1, SpecsAssumption DEF EvalInv, NothingMissed
    <3>3. "done" \notin Fresh \cup {"failed"}
      BY DEF Fresh
    <3> QED
      BY <2>1, <3>1, <3>2, <3>3 DEF Covered, EvalInv, Ends, Calm
  <2>2. ASSUME faults["quit"] + faults["crash"] = 0 PROVE disk = mem
    <3>1. faults["quit"] \in Nat /\ faults["crash"] \in Nat
      BY DEF EvalInv, TypeOK, FaultKinds
    <3>2. faults["quit"] = 0 /\ faults["crash"] = 0
      BY <2>2, <3>1
    <3> QED
      BY <3>2 DEF EvalInv, Ends, Calm
  <2> QED
    BY <2>1, <2>2
<1> QED
  BY <1>1, EvalAlways, PTL

\* A completed result on disk stays there unless a write is cut off: every whole
\* write is of results that include all of those on disk (store.py:40-69, :252-263).
THEOREM ResultsStay == Spec => ResultsDurable
<1>1. EvalInv /\ [Next]_vars =>
        [\/ Completed(disk) \subseteq Completed(disk')
         \/ Crash /\ lock # None
         \/ \E w \in Workers : WriteStops(w)]_vars
  <2> SUFFICES ASSUME EvalInv, [Next]_vars, ~(Crash /\ lock # None),
                      ~\E w \in Workers : WriteStops(w)
               PROVE  Completed(disk) \subseteq Completed(disk')
    OBVIOUS
  <2>1. Completed(disk) \subseteq Completed(mem)
    BY DEF EvalInv, Assigned
  <2>2. disk' = disk \/ disk' = mem
    <3>1. CASE RunStep \/ Quit \/ Resume \/ TimePasses \/ UNCHANGED vars
      BY <3>1 DEF RunStep, Begin, AllDone, Abort, AbortDone, QuitDone, SaveAtEnd, SaveAtEndDone,
                  Exit, Quit, Resume, TimePasses, store, vars
    <3>2. CASE Crash
      BY <3>2 DEF Crash
    <3>3. ASSUME NEW w \in Workers, WorkerStep(w) \/ InteractContinues(w)
          PROVE  disk' = disk \/ disk' = mem
      BY <3>3 DEF WorkerStep, Take, StartSample, StartFails, Query, QueryFails, RenewEnds,
                  RenewFailed, InteractFails, StartFinishes, InteractFinishes, Cancelled,
                  Record, RecordFails, Save, Written, CancelArrives, InteractContinues, store
    <3> QED
      BY <3>1, <3>2, <3>3 DEF Next
  <2> QED
    BY <2>1, <2>2
<1> QED
  BY <1>1, EvalAlways, PTL DEF Spec, ResultsDurable
=============================================================================
