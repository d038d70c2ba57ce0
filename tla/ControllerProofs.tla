-------------------------- MODULE ControllerProofs --------------------------
(***************************************************************************)
(* What holds of the controller for every number of tasks, workers,        *)
(* sessions and goroutines.                                                *)
(*                                                                         *)
(* Types and references.  TypeOK /\ WellFormed is inductive: the types of  *)
(* an action's result depend on the references being valid (a handler past *)
(* "begin" has a Session, whose worker is a registered Worker object), and *)
(* the references depend on the types.  There is one lemma Type<Action>    *)
(* and one lemma Formed<Action> per action; StructureStep puts them        *)
(* together.                                                               *)
(*                                                                         *)
(* On top of TypeCorrect each part has an inductive invariant:             *)
(*   - the slots: CurrentCountsSessions itself is inductive;               *)
(*   - the registry: Registry, two properties none of which is needed for  *)
(*     the other, proved together since the same steps disturb both;       *)
(*   - the handlers that interact: Calls, likewise;                        *)
(*   - the table of sessions: Table, which adds to NoLostSession what      *)
(*     makes a number new: all numbers known anywhere were given by this   *)
(*     controller, unless it was restarted.                                *)
(***************************************************************************)
EXTENDS Controller, TLAPS, FiniteSetTheorems

-----------------------------------------------------------------------------
(* Record updates stay in their record set, field by field.                *)

LEMMA RequestFields ==
    ASSUME NEW q \in Request
    PROVE  /\ \A x \in RequestPc : [q EXCEPT !.pc = x] \in Request
           /\ \A x \in Result : [q EXCEPT !.res = x] \in Request
           /\ \A x \in BOOLEAN : [q EXCEPT !.live = x] \in Request
           /\ \A x \in SUBSET Workers : [q EXCEPT !.todo = x] \in Request
           /\ \A x \in Workers \cup {None} : [q EXCEPT !.best = x] \in Request
           /\ \A x \in Int : [q EXCEPT !.avail = x] \in Request
<1>1. \A x \in RequestPc : [q EXCEPT !.pc = x] \in Request
  BY DEF Request
<1>2. \A x \in Result : [q EXCEPT !.res = x] \in Request
  BY DEF Request
<1>3. \A x \in BOOLEAN : [q EXCEPT !.live = x] \in Request
  BY DEF Request
<1>4. \A x \in SUBSET Workers : [q EXCEPT !.todo = x] \in Request
  BY DEF Request
<1>5. \A x \in Workers \cup {None} : [q EXCEPT !.best = x] \in Request
  BY DEF Request
<1>6. \A x \in Int : [q EXCEPT !.avail = x] \in Request
  BY DEF Request
<1> QED  BY <1>1, <1>2, <1>3, <1>4, <1>5, <1>6

LEMMA RequestConstructors ==
    /\ NoRequest \in Request
    /\ \A t \in Tasks, i \in Indices, ws \in SUBSET Workers : Scanning(t, i, ws) \in Request
    /\ \A k \in {"start", "interact"}, o \in Objs : Beginning(k, o) \in Request
  BY DEF Request, RequestPc, Result, NoRequest, Scanning, Beginning

LEMMA SessionFields ==
    ASSUME NEW x \in Session
    PROVE  /\ \A b \in BOOLEAN : [x EXCEPT !.interacting = b] \in Session
           /\ \A b \in BOOLEAN : [x EXCEPT !.cancelling = b] \in Session
           /\ \A b \in BOOLEAN : [x EXCEPT !.finished = b] \in Session
<1>1. \A b \in BOOLEAN : [x EXCEPT !.interacting = b] \in Session
  BY DEF Session
<1>2. \A b \in BOOLEAN : [x EXCEPT !.cancelling = b] \in Session
  BY DEF Session
<1>3. \A b \in BOOLEAN : [x EXCEPT !.finished = b] \in Session
  BY DEF Session
<1> QED  BY <1>1, <1>2, <1>3

LEMMA SessionConstructors ==
    /\ NoSession \in Session
    /\ \A id \in SessionIds, w \in Workers, i \in Indices : NewSession(id, w, i) \in Session
  BY ConstantAssumption DEF Session, NoSession, NewSession, SessionIds

LEMMA SyncConstructors ==
    /\ NoSync \in SyncCall
    /\ \A w \in Workers : [NoSync EXCEPT !.pc = "call", !.worker = w] \in SyncCall
<1>1. NoSync \in SyncCall
  BY DEF SyncCall, NoSync
<1> QED  BY <1>1 DEF SyncCall

\* Touching sessions leaves the table of Sync calls well typed.
LEMMA TouchType ==
    ASSUME sync \in [Syncs -> SyncCall], NEW S \in SUBSET Objs
    PROVE  Touch(S) \in [Syncs -> SyncCall]
  BY DEF Touch, SyncCall

LEMMA FinishingTuples ==
    /\ \A o \in Objs, p \in BOOLEAN, n \in BOOLEAN :
          <<o, p, n>> \in Objs \X BOOLEAN \X BOOLEAN
    /\ \A f \in Objs \X BOOLEAN \X BOOLEAN :
          f[1] \in Objs /\ f[2] \in BOOLEAN /\ f[3] \in BOOLEAN
  OBVIOUS

\* The goroutines FinishSessions spawns.
LEMMA FinishSessionsType ==
    ASSUME sessions \in [SessionIds -> Objs \cup {None}], NEW S, NEW n \in BOOLEAN
    PROVE  FinishSessions(S, n) \in SUBSET (Objs \X BOOLEAN \X BOOLEAN)
<1>1. \A id \in SessionIds : Live(id) => sessions[id] \in Objs
  BY DEF Live
<1>2. \A id \in SessionIds : Live(id) =>
          <<sessions[id], FALSE, n>> \in Objs \X BOOLEAN \X BOOLEAN
  BY <1>1
<1>3. SUFFICES ASSUME NEW f \in FinishSessions(S, n)
               PROVE  f \in Objs \X BOOLEAN \X BOOLEAN
  OBVIOUS
<1>4. PICK id \in SessionIds : Live(id) /\ f = <<sessions[id], FALSE, n>>
  BY <1>3 DEF FinishSessions
<1> QED  BY <1>2, <1>4

\* A CancelAll goroutine for each worker of a set.
LEMMA CancelAllRecords ==
    ASSUME NEW S \in SUBSET Workers, NEW b \in BOOLEAN,
           NEW pc \in {"notice", "cancel", "finish"}
    PROVE  {[worker |-> v, critical |-> b, pc |-> pc] : v \in S} \in SUBSET CancelAllCall
<1>1. \A v \in S : [worker |-> v, critical |-> b, pc |-> pc] \in CancelAllCall
  BY DEF CancelAllCall
<1> QED  BY <1>1

LEMMA RemoteFields ==
    ASSUME NEW x \in Remote
    PROVE  /\ \A run \in SUBSET (SessionIds \X Indices) : [x EXCEPT !.run = run] \in Remote
           /\ \A ids \in SUBSET SessionIds : [x EXCEPT !.cancelling = ids] \in Remote
<1>1. \A run \in SUBSET (SessionIds \X Indices) : [x EXCEPT !.run = run] \in Remote
  BY DEF Remote
<1>2. \A ids \in SUBSET SessionIds : [x EXCEPT !.cancelling = ids] \in Remote
  BY DEF Remote
<1> QED  BY <1>1, <1>2

LEMMA AnnounceType ==
    ASSUME remote \in [Addr -> Remote], NEW a, NEW ids \in SUBSET SessionIds
    PROVE  Announce(a, ids) \in [Addr -> Remote]
<1> DEFINE new == remote[a].cancelling \cup (ids \cap Ids(remote[a].run))
<1>1. a \in Addr => new \in SUBSET SessionIds
  BY DEF Remote
<1>2. a \in Addr => [remote[a] EXCEPT !.cancelling = new] \in Remote
  BY <1>1, RemoteFields
<1>3. Announce(a, ids) = [remote EXCEPT ![a] = [remote[a] EXCEPT !.cancelling = new]]
  BY DEF Announce
<1> QED  BY <1>2, <1>3

\* FinishSession leaves everything it writes well typed.
LEMMA FinishSessionType ==
    ASSUME TypeOK, WellFormed, NEW o \in Objs, session[o].id # 0,
           NEW p \in BOOLEAN, NEW n \in BOOLEAN, NEW rq \in [Requests -> Request],
           FinishSession(o, p, n, rq)
    PROVE  /\ session' \in [Objs -> Session] /\ current' \in [Workers -> Int]
           /\ cancels' \in SUBSET CancelCall /\ sync' \in [Syncs -> SyncCall]
           /\ req' \in [Requests -> Request]
<1>0. session[o].worker \in Workers /\ session[o].id \in SessionIds
  BY ConstantAssumption DEF TypeOK, WellFormed, SessionsFormed, Session, NoSession, SessionIds
<1>1. session' \in [Objs -> Session]
  <2>1. session[o] \in Session /\ session[o].cancelling \in BOOLEAN
    BY DEF TypeOK, Session
  <2>2. (session[o].cancelling \/ n) \in BOOLEAN /\ (~n) \in BOOLEAN
    OBVIOUS
  <2>3. [session[o] EXCEPT !.interacting = FALSE,
                           !.cancelling = session[o].cancelling \/ n,
                           !.finished = ~n] \in Session
    BY <2>1, <2>2, SessionFields
  <2> QED  BY <2>3 DEF TypeOK, FinishSession, FinishOpen
<1>2. current' \in [Workers -> Int]
  BY <1>0 DEF TypeOK, FinishSession, FinishOpen
<1>3. cancels' \in SUBSET CancelCall
  BY <1>0 DEF TypeOK, FinishSession, FinishOpen, CancelCall
<1>4. sync' \in [Syncs -> SyncCall]
  BY TouchType DEF TypeOK, FinishSession, FinishOpen
<1>5. req' \in [Requests -> Request]
  <2>1. \A r \in Requests : [rq[r] EXCEPT !.live = FALSE] \in Request
    BY RequestFields
  <2> QED  BY <2>1 DEF FinishSession, FinishOpen
<1> QED  BY <1>1, <1>2, <1>3, <1>4, <1>5

LEMMA RunShrinks ==
    ASSUME remote \in [Addr -> Remote], NEW a, NEW S
    PROVE  [remote EXCEPT ![a].run = @ \ S] \in [Addr -> Remote]
<1>1. a \in Addr => remote[a].run \ S \in SUBSET (SessionIds \X Indices)
  BY DEF Remote
<1>2. a \in Addr => [remote[a] EXCEPT !.run = remote[a].run \ S] \in Remote
  BY <1>1, RemoteFields
<1> QED  BY <1>2

LEMMA TypeInteractReply ==
    ASSUME TypeOK, WellFormed, NEW r \in Requests, InteractReply(r)
    PROVE  TypeOK'
<1> DEFINE o == req[r].obj
<1>1. o \in Objs /\ session[o].id # 0
  BY DEF WellFormed, RequestsFormed, RequestFormed, Early, InteractReply
<1>2. CASE req[r].res = "done"
  <2>1. [req EXCEPT ![r].pc = "defer"] \in [Requests -> Request]
    BY RequestFields DEF TypeOK, RequestPc
  <2> QED  BY <1>1, <1>2, <2>1, FinishSessionType
           DEF TypeOK, InteractReply, taskVars, netVars, boundVars
<1>3. CASE req[r].res # "done"
  <2>1. session' \in [Objs -> Session]
    <3>1. [session[o] EXCEPT !.interacting = FALSE] \in Session
      BY <1>1, SessionFields DEF TypeOK
    <3> QED  BY <1>3, <3>1 DEF TypeOK, InteractReply
  <2>2. sync' \in [Syncs -> SyncCall]
    BY <1>1, <1>3, TouchType DEF TypeOK, InteractReply
  <2>3. AfterError(r, req[r].res) \in [Requests -> Request]
    <3>1. req[r].res \in Result
      BY DEF TypeOK, Request
    <3>2. [req[r] EXCEPT !.pc = "fail", !.res = req[r].res, !.live = FALSE] \in Request
      BY <3>1, RequestFields DEF TypeOK, RequestPc
    <3> QED  BY <3>2, RequestConstructors DEF TypeOK, AfterError
  <2>4. req' \in [Requests -> Request]
    BY <1>3, <2>3, RequestConstructors DEF TypeOK, InteractReply
  <2> QED  BY <1>3, <2>1, <2>2, <2>4
           DEF TypeOK, InteractReply, taskVars, netVars, boundVars
<1> QED  BY <1>2, <1>3

LEMMA TypeStartFails ==
    ASSUME TypeOK, WellFormed, NEW r \in Requests, StartFails(r)
    PROVE  TypeOK'
<1> DEFINE o == req[r].obj
<1>1. /\ o \in Objs /\ session[o].id # 0
      /\ session[o].worker \in Workers
  BY DEF WellFormed, RequestsFormed, RequestFormed, Early, SessionsFormed, NoSession, StartFails
<1>2. [req EXCEPT ![r] = NoRequest] \in [Requests -> Request]
  BY RequestConstructors DEF TypeOK
<1>3. toSync' \in SUBSET Workers
  BY <1>1 DEF TypeOK, StartFails
<1> QED  BY <1>1, <1>2, <1>3, FinishSessionType
         DEF TypeOK, StartFails, taskVars, netVars, boundVars

LEMMA TypeRunFinishSession ==
    ASSUME TypeOK, WellFormed, NEW f \in finishing, RunFinishSession(f)
    PROVE  TypeOK'
<1>1. f[1] \in Objs /\ f[2] \in BOOLEAN /\ f[3] \in BOOLEAN /\ session[f[1]].id # 0
  BY FinishingTuples DEF TypeOK, WellFormed, QueuesFormed
<1>2. req \in [Requests -> Request]
  BY DEF TypeOK
<1>3. finishing' \in SUBSET (Objs \X BOOLEAN \X BOOLEAN)
  BY DEF TypeOK, RunFinishSession
<1> QED  BY <1>1, <1>2, <1>3, FinishSessionType
         DEF TypeOK, RunFinishSession, taskVars, netVars, boundVars

LEMMA TypeRemoteCall ==
    ASSUME TypeOK, WellFormed, NEW r \in Requests, RemoteCall(r)
    PROVE  TypeOK'
<1> DEFINE o == req[r].obj
           a == AddrOf(session[o].worker)
           id == session[o].id
<1>0. o \in Objs /\ id # 0
  BY DEF WellFormed, RequestsFormed, RequestFormed, Early, RemoteCall
<1>1. session[o].worker \in Workers /\ status[session[o].worker] # "unused"
  BY <1>0 DEF WellFormed, SessionsFormed, NoSession
<1>2. a \in Addr /\ id \in SessionIds /\ session[o].index \in Indices
  BY <1>0, <1>1, ConstantAssumption
  DEF TypeOK, WellFormed, SessionsFormed, WorkersFormed, NoSession, AddrOf, Session, SessionIds
<1>3. \A pc \in RequestPc, res \in Result :
         [req[r] EXCEPT !.pc = pc, !.res = res] \in Request
  BY RequestFields DEF TypeOK
<1>4. req' \in [Requests -> Request]
  <2>1. PICK pc \in RequestPc, res \in Result :
           req' = [req EXCEPT ![r] = [@ EXCEPT !.pc = pc, !.res = res]]
    BY DEF RemoteCall, RemoteStart, RequestPc, Result
  <2> QED  BY <1>3, <2>1 DEF TypeOK
<1>5. remote' \in [Addr -> Remote]
  <2>1. remote[a].run \cup {<<id, session[o].index>>} \in SUBSET (SessionIds \X Indices)
    BY <1>2 DEF TypeOK, Remote
  <2>2. [remote[a] EXCEPT !.run = remote[a].run \cup {<<id, session[o].index>>}] \in Remote
    BY <1>2, <2>1, RemoteFields DEF TypeOK
  <2> QED  BY <1>2, <2>2 DEF TypeOK, RemoteCall
<1> QED
  BY <1>4, <1>5 DEF TypeOK, RemoteCall, taskVars, sessionVars, goVars, netVars, boundVars

\* What SyncApply writes, given the new Session objects and what each of them is.
SyncWrites(s, new, of) ==
    LET w == sync[s].worker
        fin == SyncFinishes(w, s)
        resumed == SyncResumes(w, s)
    IN
    /\ \A m \in SyncAdds(s) : \E o \in new : of[o] = m
    /\ \A o1, o2 \in new : of[o1] = of[o2] => o1 = o2
    /\ session' = [o \in Objs |->
          CASE o \in fin -> [session[o] EXCEPT !.interacting = FALSE,
                                               !.finished = TRUE]
            [] o \in resumed -> [session[o] EXCEPT !.finished = FALSE]
            [] o \in new -> NewSession(of[o][1], w, of[o][2])
            [] OTHER -> session[o]]
    /\ sessions' = [id \in SessionIds |->
          IF \E o \in new : of[o][1] = id
          THEN CHOOSE o \in new : of[o][1] = id
          ELSE sessions[id]]
    /\ current' = [current EXCEPT ![w] =
          @ - Cardinality(fin) + Cardinality(resumed) + Cardinality(new)]
    /\ sync' = [Touch(fin \cup resumed \cup new) EXCEPT ![s] = NoSync]

\* What Sync writes: the sessions it finishes, resumes and adds.
LEMMA TypeSyncApply ==
    ASSUME TypeOK, WellFormed, NEW s \in Syncs, SyncApply(s)
    PROVE  TypeOK'
<1> DEFINE w == sync[s].worker
           fin == SyncFinishes(w, s)
           resumed == SyncResumes(w, s)
           adds == SyncAdds(s)
<1>1. w \in Workers
  BY DEF WellFormed, SyncsFormed, SyncApply
<1>2. fin \in SUBSET Objs /\ resumed \in SUBSET Objs /\ IsFiniteSet(fin) /\ IsFiniteSet(resumed)
  BY PoolAssumption, FS_Subset DEF SyncFinishes, SyncResumes
<1>3. \A m \in adds : m[1] \in SessionIds /\ m[2] \in Indices
  BY DEF TypeOK, SyncCall, SyncAdds
<1>3a. PICK new \in SUBSET Unused : \E of \in [new -> adds] : SyncWrites(s, new, of)
  BY DEF SyncApply, SyncWrites
<1>3b. PICK of \in [new -> adds] : SyncWrites(s, new, of)
  BY <1>3a
<1>4. 
        /\ session' = [o \in Objs |->
              CASE o \in fin -> [session[o] EXCEPT !.interacting = FALSE,
                                                   !.finished = TRUE]
                [] o \in resumed -> [session[o] EXCEPT !.finished = FALSE]
                [] o \in new -> NewSession(of[o][1], w, of[o][2])
                [] OTHER -> session[o]]
        /\ sessions' = [id \in SessionIds |->
              IF \E o \in new : of[o][1] = id
              THEN CHOOSE o \in new : of[o][1] = id
              ELSE sessions[id]]
        /\ current' = [current EXCEPT ![w] =
              @ - Cardinality(fin) + Cardinality(resumed) + Cardinality(new)]
        /\ sync' = [Touch(fin \cup resumed \cup new) EXCEPT ![s] = NoSync]
  BY <1>3b DEF SyncWrites
<1>5. new \in SUBSET Objs /\ IsFiniteSet(new)
  BY PoolAssumption, FS_Subset DEF Unused
<1>6. session' \in [Objs -> Session]
  <2>1. \A o \in Objs : /\ [session[o] EXCEPT !.interacting = FALSE, !.finished = TRUE] \in Session
                        /\ [session[o] EXCEPT !.finished = FALSE] \in Session
                        /\ session[o] \in Session
    BY SessionFields DEF TypeOK
  <2>2. \A o \in new : NewSession(of[o][1], w, of[o][2]) \in Session
    BY <1>1, <1>3, SessionConstructors
  <2> QED  BY <1>4, <2>1, <2>2
<1>7. sessions' \in [SessionIds -> Objs \cup {None}]
  BY <1>4, <1>5 DEF TypeOK
<1>8. current' \in [Workers -> Int]
  <2>1. Cardinality(fin) \in Nat /\ Cardinality(resumed) \in Nat /\ Cardinality(new) \in Nat
    BY <1>2, <1>5, FS_CardinalityType
  <2>2. current[w] - Cardinality(fin) + Cardinality(resumed) + Cardinality(new) \in Int
    BY <1>1, <2>1 DEF TypeOK
  <2> HIDE DEF w, fin, resumed
  <2> QED  BY <1>1, <1>4, <2>2 DEF TypeOK
<1>9. sync' \in [Syncs -> SyncCall]
  <2>1. Touch(fin \cup resumed \cup new) \in [Syncs -> SyncCall]
    BY <1>2, <1>5, TouchType DEF TypeOK
  <2> QED  BY <1>4, <2>1, SyncConstructors
<1>10. req' \in [Requests -> Request]
  BY RequestFields DEF TypeOK, SyncApply
<1>11. cancelAlls' \in SUBSET CancelAllCall
  <2>1. [worker |-> w, critical |-> TRUE, pc |-> "cancel"] \in CancelAllCall
    BY <1>1 DEF CancelAllCall
  <2> QED  BY <2>1, ZenonT(40) DEF TypeOK, SyncApply
<1>12. status' \in [Workers -> WorkerStatus]
  BY <1>1 DEF TypeOK, SyncApply, WorkerStatus
<1> QED
  BY <1>6, <1>7, <1>8, <1>9, <1>10, <1>11, <1>12
  DEF TypeOK, SyncApply, taskVars, netVars, boundVars

\* The controller's state when it starts.
LEMMA EmptyState ==
    /\ [t \in Tasks |-> None] \in [Tasks -> Offers \cup {None}]
    /\ [a \in Addr |-> None] \in [Addr -> Tasks \cup {None}]
    /\ [w \in Workers |-> NoWorker] \in [Workers -> Worker]
    /\ [w \in Workers |-> "unused"] \in [Workers -> WorkerStatus]
    /\ [w \in Workers |-> 0] \in [Workers -> Int]
    /\ [o \in Objs |-> NoSession] \in [Objs -> Session]
    /\ [id \in SessionIds |-> None] \in [SessionIds -> Objs \cup {None}]
    /\ 0 \in 0..MaxSessionId /\ 0 \in 0..MaxRestarts /\ 0 \in 0..MaxFaults
    /\ [r \in Requests |-> NoRequest] \in [Requests -> Request]
    /\ [s \in Syncs |-> NoSync] \in [Syncs -> SyncCall]
<1>1. NoWorker \in Worker
  BY DEF NoWorker, Worker
<1>2. 0 \in 0..MaxSessionId /\ 0 \in 0..MaxRestarts /\ 0 \in 0..MaxFaults /\ 0 \in Int
  BY ConstantAssumption
<1>3. "unused" \in WorkerStatus
  BY DEF WorkerStatus
<1> QED
  BY <1>1, <1>2, <1>3, RequestConstructors, SessionConstructors, SyncConstructors, Zenon

LEMMA TypeInit ==
    Init => TypeOK
<1>1. [up : {TRUE}, task : Tasks, offer : Offers, run : {{}}, cancelling : {{}}]
        \subseteq Remote
  BY DEF Remote
<1> QED  BY <1>1, EmptyState DEF Init, TypeOK

LEMMA TypeRestart ==
    ASSUME TypeOK, Restart
    PROVE  TypeOK'
<1>1. restarts' \in 0..MaxRestarts
  BY ConstantAssumption DEF TypeOK, Restart
<1> QED  BY <1>1, EmptyState DEF Restart, TypeOK, netVars

LEMMA TypeCreateOrValidateTask ==
    ASSUME TypeOK, NEW a \in Addr, CreateOrValidateTask(a)
    PROVE  TypeOK'
<1>1. tasks' \in [Tasks -> Offers \cup {None}]
  BY DEF TypeOK, CreateOrValidateTask, Remote
<1>2. beat' \in [Addr -> Tasks \cup {None}]
  BY DEF TypeOK, CreateOrValidateTask, Remote
<1> QED  BY <1>1, <1>2 DEF TypeOK, CreateOrValidateTask, sessionVars, goVars, netVars, boundVars

LEMMA TypeUpdateWorker ==
    ASSUME TypeOK, NEW a \in Addr, UpdateWorker(a)
    PROVE  TypeOK'
<1>tt. beat[a] \in Tasks
  BY DEF TypeOK, UpdateWorker
<1>u. [name |-> beat[a], addr |-> a, stale |-> FALSE] \in Worker
  BY <1>tt DEF Worker
<1>v. Elsewhere(a, beat[a]) \in SUBSET Workers
  BY DEF TypeOK, Elsewhere
<1>1. listed' \in SUBSET Workers
  BY DEF TypeOK, UpdateWorker, RegisterWorker, RefreshWorker
<1>2. worker' \in [Workers -> Worker]
  <2>1. \/ UNCHANGED worker
        \/ \E w \in Workers : worker' = [worker EXCEPT ![w] =
                                 [name |-> beat[a], addr |-> a, stale |-> FALSE]]
    BY DEF UpdateWorker, RegisterWorker, RefreshWorker
  <2> QED  BY <1>u, <2>1 DEF TypeOK
<1>3. status' \in [Workers -> WorkerStatus]
  BY DEF TypeOK, UpdateWorker, RegisterWorker, RefreshWorker, WorkerStatus
<1>4. toSync' \in SUBSET Workers
  BY DEF TypeOK, UpdateWorker, RegisterWorker, RefreshWorker, WorkersOf
<1>5. removals' \in SUBSET Workers
  BY <1>v DEF TypeOK, UpdateWorker, RegisterWorker, RefreshWorker
<1>6. cancelAlls' \in SUBSET CancelAllCall
  BY <1>v, CancelAllRecords DEF TypeOK, UpdateWorker, RegisterWorker, RefreshWorker
<1>7. beat' \in [Addr -> Tasks \cup {None}]
  BY DEF TypeOK, UpdateWorker
<1> QED  BY <1>1, <1>2, <1>3, <1>4, <1>5, <1>6, <1>7 DEF TypeOK, UpdateWorker, sessionVars, netVars, boundVars

LEMMA TypeMarkWorkerStale ==
    ASSUME TypeOK, NEW w \in Workers, NEW b \in BOOLEAN, MarkWorkerStale(w, b)
    PROVE  TypeOK'
<1>1. worker' \in [Workers -> Worker]
  BY DEF TypeOK, MarkWorkerStale, Worker
<1> QED  BY <1>1 DEF TypeOK, MarkWorkerStale, taskVars, sessionVars, goVars, netVars, boundVars

LEMMA TypeStreamClosed ==
    ASSUME TypeOK, NEW w \in Workers, StreamClosed(w)
    PROVE  TypeOK'
<1>1. status' \in [Workers -> WorkerStatus]
  BY DEF TypeOK, StreamClosed, WorkerStatus
<1>2. faults' \in 0..MaxFaults
  BY ConstantAssumption DEF TypeOK, StreamClosed
<1> QED  BY <1>1, <1>2 DEF TypeOK, StreamClosed, taskVars, sessionVars, goVars, netVars

LEMMA TypeWorkerTimeout ==
    ASSUME TypeOK, NEW w \in Workers, WorkerTimeout(w)
    PROVE  TypeOK'
<1>1. status' \in [Workers -> WorkerStatus]
  BY DEF TypeOK, WorkerTimeout, WorkerStatus
<1> QED  BY <1>1 DEF TypeOK, WorkerTimeout, taskVars, sessionVars, goVars, netVars, boundVars

LEMMA TypeCleanWorkers ==
    ASSUME TypeOK, NEW w \in Workers, CleanWorkers(w)
    PROVE  TypeOK'
<1>1. removals' \in SUBSET Workers
  BY DEF TypeOK, CleanWorkers
<1> QED  BY <1>1 DEF TypeOK, CleanWorkers, taskVars, sessionVars, netVars, boundVars

LEMMA TypeRemoveWorker ==
    ASSUME TypeOK, NEW w \in Workers, RemoveWorker(w)
    PROVE  TypeOK'
<1>1. status' \in [Workers -> WorkerStatus]
  BY DEF TypeOK, RemoveWorker, WorkerStatus
<1>2. listed' \in SUBSET Workers
  BY DEF TypeOK, RemoveWorker
<1>3. tasks' \in [Tasks -> Offers \cup {None}]
  BY DEF TypeOK, RemoveWorker
<1>4. removals' \in SUBSET Workers
  BY DEF TypeOK, RemoveWorker
<1> QED  BY <1>1, <1>2, <1>3, <1>4 DEF TypeOK, RemoveWorker, sessionVars, netVars, boundVars

LEMMA TypeStartSample ==
    ASSUME TypeOK, NEW r \in Requests, NEW t \in Tasks, NEW i \in Indices, StartSample(r, t, i)
    PROVE  TypeOK'
<1>1. req' \in [Requests -> Request]
  BY RequestFields, RequestConstructors DEF TypeOK, StartSample, WorkersOf
<1> QED  BY <1>1 DEF TypeOK, StartSample, taskVars, sessionVars, goVars, netVars, boundVars

LEMMA TypeScanWorker ==
    ASSUME TypeOK, NEW r \in Requests, NEW w \in Workers, ScanWorker(r, w)
    PROVE  TypeOK'
<1>f. /\ req[r].todo \ {w} \in SUBSET Workers
       /\ req[r].best \in Workers \cup {None} /\ req[r].avail \in Int
       /\ Capacity - current[w] \in Int
  BY ConstantAssumption DEF TypeOK, Request
<1>1. req' \in [Requests -> Request]
  BY <1>f, RequestFields, RequestConstructors DEF TypeOK, ScanWorker
<1> QED  BY <1>1 DEF TypeOK, ScanWorker, taskVars, sessionVars, goVars, netVars, boundVars

LEMMA TypeScanDone ==
    ASSUME TypeOK, NEW r \in Requests, ScanDone(r)
    PROVE  TypeOK'
<1>1. req' \in [Requests -> Request]
  BY RequestFields, RequestConstructors DEF TypeOK, ScanDone, RequestPc
<1> QED  BY <1>1 DEF TypeOK, ScanDone, taskVars, sessionVars, goVars, netVars, boundVars

LEMMA TypeTakeSlot ==
    ASSUME TypeOK, WellFormed, NEW r \in Requests, TakeSlot(r)
    PROVE  TypeOK'
<1>f. req[r].task \in Tasks /\ req[r].index \in Indices /\ req[r].best \in Workers
  BY DEF WellFormed, RequestsFormed, RequestFormed, Early, TakeSlot
<1>g. WorkersOf(req[r].task) \in SUBSET Workers
  BY DEF TypeOK, WorkersOf
<1>1. req' \in [Requests -> Request]
  <2>1. Scanning(req[r].task, req[r].index, WorkersOf(req[r].task)) \in Request
    BY <1>f, <1>g, RequestConstructors
  <2>2. [req[r] EXCEPT !.pc = "create"] \in Request
    BY RequestFields DEF TypeOK, RequestPc
  <2> QED  BY <2>1, <2>2 DEF TypeOK, TakeSlot
<1>2. current' \in [Workers -> Int]
  BY <1>f DEF TypeOK, TakeSlot
<1> QED  BY <1>1, <1>2 DEF TypeOK, TakeSlot, taskVars, sessionVars, goVars, netVars, boundVars

LEMMA TypeCreateSession ==
    ASSUME TypeOK, WellFormed, NEW r \in Requests, NEW o \in Objs, CreateSession(r, o)
    PROVE  TypeOK'
<1>f. req[r].best \in Workers /\ req[r].index \in Indices
  BY DEF WellFormed, RequestsFormed, RequestFormed, Early, CreateSession
<1>1. req' \in [Requests -> Request]
  BY RequestFields, RequestConstructors DEF TypeOK, CreateSession
<1>2. session' \in [Objs -> Session]
  BY <1>f, SessionConstructors DEF TypeOK, CreateSession
<1>3. sync' \in [Syncs -> SyncCall]
  BY TouchType DEF TypeOK, CreateSession
<1>4. sessions' \in [SessionIds -> Objs \cup {None}]
  BY DEF TypeOK, CreateSession
<1>5. nextSessionId' \in 0..MaxSessionId
  BY ConstantAssumption DEF TypeOK, CreateSession, SessionIds
<1> QED  BY <1>1, <1>2, <1>3, <1>4, <1>5 DEF TypeOK, CreateSession, taskVars, goVars, netVars, boundVars

LEMMA TypeGetForInteract ==
    ASSUME TypeOK, NEW r \in Requests, NEW id \in SessionIds, GetForInteract(r, id)
    PROVE  TypeOK'
<1>1. req' \in [Requests -> Request]
  BY RequestFields, RequestConstructors DEF TypeOK, GetForInteract, Live
<1> QED  BY <1>1 DEF TypeOK, GetForInteract, taskVars, sessionVars, goVars, netVars, boundVars

LEMMA TypeInteractBegin ==
    ASSUME TypeOK, WellFormed, NEW r \in Requests, InteractBegin(r)
    PROVE  TypeOK'
<1>f. req[r].obj \in Objs
  BY DEF WellFormed, RequestsFormed, RequestFormed, Early, InteractBegin
<1>g. (~session[req[r].obj].finished) \in BOOLEAN
  BY DEF TypeOK, InteractBegin
<1>1. req' \in [Requests -> Request]
  <2>1. [req[r] EXCEPT !.pc = "fail", !.res = "err", !.live = FALSE] \in Request
    BY RequestFields DEF TypeOK, RequestPc, Result
  <2>2. [req[r] EXCEPT !.pc = "call", !.live = ~session[req[r].obj].finished] \in Request
    BY <1>g, RequestFields DEF TypeOK, RequestPc
  <2> QED  BY <2>1, <2>2, RequestConstructors DEF TypeOK, InteractBegin, AfterError
<1>2. session' \in [Objs -> Session]
  <2>1. [session[req[r].obj] EXCEPT !.interacting = TRUE] \in Session
    BY <1>f, SessionFields DEF TypeOK
  <2> QED  BY <2>1 DEF TypeOK, InteractBegin
<1>3. sync' \in [Syncs -> SyncCall]
  BY <1>f, TouchType DEF TypeOK, InteractBegin
<1> QED  BY <1>1, <1>2, <1>3 DEF TypeOK, InteractBegin, taskVars, goVars, netVars, boundVars

LEMMA TypeCallFails ==
    ASSUME TypeOK, WellFormed, NEW r \in Requests, CallFails(r)
    PROVE  TypeOK'
<1>f. req[r].obj \in Objs /\ session[req[r].obj].id # 0
  BY DEF WellFormed, RequestsFormed, RequestFormed, Early, CallFails
<1>g. <<AddrOf(session[req[r].obj].worker), session[req[r].obj].id,
         session[req[r].obj].index>> \in Addr \X SessionIds \X Indices
  BY <1>f, ConstantAssumption DEF TypeOK, WellFormed, SessionsFormed, WorkersFormed, NoSession,
     AddrOf, Session, SessionIds
<1>1. req' \in [Requests -> Request]
  BY RequestFields, RequestConstructors DEF TypeOK, CallFails, RequestPc, Result
<1>2. late' \in SUBSET (Addr \X SessionIds \X Indices)
  BY <1>g DEF TypeOK, CallFails
<1> QED  BY <1>1, <1>2 DEF TypeOK, CallFails, taskVars, sessionVars, goVars, boundVars

LEMMA TypeInteractDefer ==
    ASSUME TypeOK, WellFormed, NEW r \in Requests, InteractDefer(r)
    PROVE  TypeOK'
<1>f. req[r].obj \in Objs
  BY DEF WellFormed, RequestsFormed, RequestFormed, Early, InteractDefer
<1>1. req' \in [Requests -> Request]
  BY RequestFields, RequestConstructors DEF TypeOK, InteractDefer
<1>2. session' \in [Objs -> Session]
  BY <1>f, SessionFields DEF TypeOK, InteractDefer
<1>3. sync' \in [Syncs -> SyncCall]
  BY <1>f, TouchType DEF TypeOK, InteractDefer
<1> QED  BY <1>1, <1>2, <1>3 DEF TypeOK, InteractDefer, taskVars, goVars, netVars, boundVars

LEMMA TypeHandleCancel ==
    ASSUME TypeOK, NEW id \in SessionIds, HandleCancel(id)
    PROVE  TypeOK'
<1>f. Live(id) => sessions[id] \in Objs
  BY DEF TypeOK, Live
<1>1. finishing' \in SUBSET (Objs \X BOOLEAN \X BOOLEAN)
  BY <1>f, FinishingTuples DEF TypeOK, HandleCancel
<1> QED  BY <1>1 DEF TypeOK, HandleCancel, taskVars, sessionVars, netVars, boundVars

LEMMA TypeHandleCancelAll ==
    ASSUME TypeOK, NEW ts \in SUBSET Tasks, HandleCancelAll(ts)
    PROVE  TypeOK'
<1>f. {w \in listed : worker[w].name \in ts /\ status[w] # "dead"} \in SUBSET Workers
  BY DEF TypeOK
<1>1. finishing' \in SUBSET (Objs \X BOOLEAN \X BOOLEAN)
  BY FinishSessionsType DEF TypeOK, HandleCancelAll
<1>2. cancelAlls' \in SUBSET CancelAllCall
  BY <1>f, CancelAllRecords DEF TypeOK, HandleCancelAll
<1> QED  BY <1>1, <1>2 DEF TypeOK, HandleCancelAll, taskVars, sessionVars, netVars, boundVars

LEMMA TypeHandleCancelNotice ==
    ASSUME TypeOK, NEW id \in SessionIds, HandleCancelNotice(id)
    PROVE  TypeOK'
<1>f. Live(id) => sessions[id] \in Objs
  BY DEF TypeOK, Live
<1>1. finishing' \in SUBSET (Objs \X BOOLEAN \X BOOLEAN)
  BY <1>f, FinishingTuples DEF TypeOK, HandleCancelNotice
<1>2. notices' \in SUBSET SessionIds
  BY DEF TypeOK, HandleCancelNotice
<1> QED  BY <1>1, <1>2 DEF TypeOK, HandleCancelNotice, taskVars, sessionVars, boundVars

LEMMA TypeRemoveSession ==
    ASSUME TypeOK, NEW id \in SessionIds, RemoveSession(id)
    PROVE  TypeOK'
<1>1. sessions' \in [SessionIds -> Objs \cup {None}]
  BY DEF TypeOK, RemoveSession
<1>2. session' \in [Objs -> Session]
  BY SessionConstructors DEF TypeOK, RemoveSession
<1> QED  BY <1>1, <1>2 DEF TypeOK, RemoveSession, taskVars, goVars, netVars, boundVars

LEMMA TypeExpireSession ==
    ASSUME TypeOK, NEW id \in SessionIds, ExpireSession(id)
    PROVE  TypeOK'
<1>f. Live(id) => sessions[id] \in Objs
  BY DEF TypeOK, Live
<1>1. finishing' \in SUBSET (Objs \X BOOLEAN \X BOOLEAN)
  BY <1>f, FinishingTuples DEF TypeOK, ExpireSession
<1> QED  BY <1>1 DEF TypeOK, ExpireSession, taskVars, sessionVars, netVars, boundVars

LEMMA TypeCancelWithNotice ==
    ASSUME TypeOK, NEW c \in cancels, CancelWithNotice(c)
    PROVE  TypeOK'
<1>f. c \in CancelCall
  BY DEF TypeOK
<1>g. {c.id} \in SUBSET SessionIds
  BY <1>f DEF CancelCall
<1>1. cancels' \in SUBSET CancelCall
  BY <1>f DEF TypeOK, CancelWithNotice, NextStage, CancelCall
<1>2. remote' \in [Addr -> Remote]
  BY <1>g, AnnounceType DEF TypeOK, CancelWithNotice
<1> QED  BY <1>1, <1>2 DEF TypeOK, CancelWithNotice, taskVars, sessionVars, boundVars

LEMMA TypeCancel ==
    ASSUME TypeOK, NEW c \in cancels, Cancel(c)
    PROVE  TypeOK'
<1>f. c \in CancelCall
  BY DEF TypeOK
<1>1. cancels' \in SUBSET CancelCall
  BY <1>f DEF TypeOK, Cancel, NextStage, CancelCall
<1>2. remote' \in [Addr -> Remote]
  <2>1. CASE UNCHANGED remote
    BY <2>1 DEF TypeOK
  <2>2. CASE \E S : remote' = [remote EXCEPT ![AddrOf(c.worker)].run = @ \ S]
    <3>1. PICK S : remote' = [remote EXCEPT ![AddrOf(c.worker)].run = @ \ S]
      BY <2>2
    <3>2. [remote EXCEPT ![AddrOf(c.worker)].run = @ \ S] \in [Addr -> Remote]
      BY RunShrinks DEF TypeOK
    <3> QED  BY <3>1, <3>2
  <2> QED  BY <2>1, <2>2 DEF Cancel
<1>3. status' \in [Workers -> WorkerStatus]
  BY <1>f DEF TypeOK, Cancel, WorkerStatus
<1> QED  BY <1>1, <1>2, <1>3 DEF TypeOK, Cancel, taskVars, sessionVars, boundVars

LEMMA TypeCancelFinish ==
    ASSUME TypeOK, NEW c \in cancels, CancelFinish(c)
    PROVE  TypeOK'
<1>f. Live(c.id) => sessions[c.id] \in Objs
  BY DEF TypeOK, Live, CancelCall
<1>1. cancels' \in SUBSET CancelCall
  BY DEF TypeOK, CancelFinish
<1>2. finishing' \in SUBSET (Objs \X BOOLEAN \X BOOLEAN)
  BY <1>f, FinishingTuples DEF TypeOK, CancelFinish
<1> QED  BY <1>1, <1>2 DEF TypeOK, CancelFinish, taskVars, sessionVars, netVars, boundVars

LEMMA TypeCancelAllWithNotice ==
    ASSUME TypeOK, NEW c \in cancelAlls, CancelAllWithNotice(c)
    PROVE  TypeOK'
<1>f. c \in CancelAllCall
  BY DEF TypeOK
<1>1. cancelAlls' \in SUBSET CancelAllCall
  BY <1>f DEF TypeOK, CancelAllWithNotice, NextStageAll, CancelAllCall
<1>2. remote' \in [Addr -> Remote]
  BY AnnounceType DEF TypeOK, CancelAllWithNotice
<1> QED  BY <1>1, <1>2 DEF TypeOK, CancelAllWithNotice, taskVars, sessionVars, boundVars

LEMMA TypeCancelAll ==
    ASSUME TypeOK, NEW c \in cancelAlls, CancelAll(c)
    PROVE  TypeOK'
<1>f. c \in CancelAllCall /\ c.worker \in Workers
  BY DEF TypeOK, CancelAllCall
<1>1. cancelAlls' \in SUBSET CancelAllCall
  BY <1>f DEF TypeOK, CancelAll, NextStageAll, CancelAllCall
<1>2. remote' \in [Addr -> Remote]
  <2>1. CASE UNCHANGED remote
    BY <2>1 DEF TypeOK
  <2>2. CASE remote' = [remote EXCEPT ![AddrOf(c.worker)].run = {}]
    BY <2>2, ZenonT(40) DEF TypeOK, Remote
  <2> QED
    BY <2>1, <2>2 DEF CancelAll
<1>3. status' \in [Workers -> WorkerStatus]
  BY <1>f DEF TypeOK, CancelAll, WorkerStatus
<1>4. removals' \in SUBSET Workers
  BY <1>f DEF TypeOK, CancelAll
<1> QED  BY <1>1, <1>2, <1>3, <1>4 DEF TypeOK, CancelAll, taskVars, sessionVars, boundVars

LEMMA TypeCancelAllFinish ==
    ASSUME TypeOK, NEW c \in cancelAlls, CancelAllFinish(c)
    PROVE  TypeOK'
<1>1. cancelAlls' \in SUBSET CancelAllCall
  BY DEF TypeOK, CancelAllFinish
<1>2. finishing' \in SUBSET (Objs \X BOOLEAN \X BOOLEAN)
  BY FinishSessionsType DEF TypeOK, CancelAllFinish
<1> QED  BY <1>1, <1>2 DEF TypeOK, CancelAllFinish, taskVars, sessionVars, netVars, boundVars

LEMMA TypeCallSyncAll ==
    ASSUME TypeOK, CallSyncAll
    PROVE  TypeOK'
<1>1. toSync' \in SUBSET Workers
  BY DEF TypeOK, CallSyncAll
<1> QED  BY <1>1 DEF TypeOK, CallSyncAll, taskVars, sessionVars, netVars, boundVars

LEMMA TypeSyncStart ==
    ASSUME TypeOK, NEW s \in Syncs, NEW w \in Workers, SyncStart(s, w)
    PROVE  TypeOK'
<1>1. sync' \in [Syncs -> SyncCall]
  BY SyncConstructors DEF TypeOK, SyncStart
<1>2. toSync' \in SUBSET Workers
  BY DEF TypeOK, SyncStart
<1> QED  BY <1>1, <1>2 DEF TypeOK, SyncStart, taskVars, sessionVars, netVars, boundVars

LEMMA TypeSyncReply ==
    ASSUME TypeOK, WellFormed, NEW s \in Syncs, SyncReply(s)
    PROVE  TypeOK'
<1>f. AddrOf(sync[s].worker) \in Addr
  BY DEF TypeOK, WellFormed, SyncsFormed, WorkersFormed, SyncReply, AddrOf
<1>g. /\ [sync[s] EXCEPT !.pc = "reply"] \in SyncCall
       /\ \A got \in SUBSET (SessionIds \X Indices) :
             [sync[s] EXCEPT !.pc = "reply", !.ok = TRUE, !.got = got] \in SyncCall
  BY ZenonT(40) DEF TypeOK, SyncCall
<1>h. remote[AddrOf(sync[s].worker)].run \in SUBSET (SessionIds \X Indices)
  BY <1>f DEF TypeOK, Remote
<1>1. sync' \in [Syncs -> SyncCall]
  BY <1>g, <1>h DEF TypeOK, SyncReply
<1> QED  BY <1>1 DEF TypeOK, SyncReply, taskVars, sessionVars, goVars, netVars, boundVars

LEMMA TypeSyncCheck ==
    ASSUME TypeOK, NEW s \in Syncs, SyncCheck(s)
    PROVE  TypeOK'
<1>1. sync' \in [Syncs -> SyncCall]
  BY SyncConstructors, ZenonT(40) DEF TypeOK, SyncCheck, SyncCall
<1> QED  BY <1>1 DEF TypeOK, SyncCheck, taskVars, sessionVars, goVars, netVars, boundVars

LEMMA TypeSyncFailed ==
    ASSUME TypeOK, NEW s \in Syncs, SyncFailed(s)
    PROVE  TypeOK'
<1>1. sync' \in [Syncs -> SyncCall]
  BY SyncConstructors DEF TypeOK, SyncFailed
<1>2. status' \in [Workers -> WorkerStatus]
  BY DEF TypeOK, SyncFailed, WorkerStatus
<1> QED  BY <1>1, <1>2 DEF TypeOK, SyncFailed, taskVars, sessionVars, goVars, netVars, boundVars

LEMMA TypeRemoteReply ==
    ASSUME TypeOK, NEW r \in Requests, RemoteReply(r)
    PROVE  TypeOK'
<1>f. /\ [req[r] EXCEPT !.pc = "reply", !.res = "running"] \in Request
       /\ [req[r] EXCEPT !.pc = "reply", !.res = "done"] \in Request
  BY RequestFields DEF TypeOK, RequestPc, Result
<1>1. req' \in [Requests -> Request]
  BY <1>f DEF TypeOK, RemoteReply
<1>2. remote' \in [Addr -> Remote]
  <2>1. CASE UNCHANGED remote
    BY <2>1 DEF TypeOK
  <2>2. CASE \E S : remote' = [remote EXCEPT ![AddrOf(session[req[r].obj].worker)].run = @ \ S]
    <3>1. PICK S : remote' = [remote EXCEPT ![AddrOf(session[req[r].obj].worker)].run = @ \ S]
      BY <2>2
    <3>2. [remote EXCEPT ![AddrOf(session[req[r].obj].worker)].run = @ \ S] \in [Addr -> Remote]
      BY RunShrinks DEF TypeOK
    <3> QED  BY <3>1, <3>2
  <2> QED  BY <2>1, <2>2 DEF RemoteReply
<1> QED  BY <1>1, <1>2 DEF TypeOK, RemoteReply, taskVars, sessionVars, goVars, boundVars

LEMMA TypeLateStart ==
    ASSUME TypeOK, NEW m \in late, LateStart(m)
    PROVE  TypeOK'
<1>f. m \in Addr \X SessionIds \X Indices
  BY DEF TypeOK
<1>1. late' \in SUBSET (Addr \X SessionIds \X Indices)
  BY DEF TypeOK, LateStart
<1>2. remote' \in [Addr -> Remote]
  BY <1>f DEF TypeOK, LateStart, Remote
<1> QED  BY <1>1, <1>2 DEF TypeOK, LateStart, taskVars, sessionVars, goVars, boundVars

LEMMA TypeRemoteEnds ==
    ASSUME TypeOK, NEW a \in Addr, NEW m \in remote[a].run, RemoteEnds(a, m)
    PROVE  TypeOK'
<1>1. remote' \in [Addr -> Remote]
  BY RunShrinks DEF TypeOK, RemoteEnds
<1> QED  BY <1>1 DEF TypeOK, RemoteEnds, taskVars, sessionVars, goVars, boundVars

LEMMA TypeRemoteCancelled ==
    ASSUME TypeOK, NEW a \in Addr, NEW id \in SessionIds, RemoteCancelled(a, id)
    PROVE  TypeOK'
<1>1. remote' \in [Addr -> Remote]
  BY ZenonT(40) DEF TypeOK, RemoteCancelled, Remote
<1>2. notices' \in SUBSET SessionIds
  BY DEF TypeOK, RemoteCancelled
<1> QED  BY <1>1, <1>2 DEF TypeOK, RemoteCancelled, taskVars, sessionVars, goVars, boundVars

LEMMA TypeRemoteRestart ==
    ASSUME TypeOK, NEW a \in Addr, NEW t \in Tasks, NEW offer \in Offers, RemoteRestart(a, t, offer)
    PROVE  TypeOK'
<1>1. remote' \in [Addr -> Remote]
  BY DEF TypeOK, RemoteRestart, Remote
<1>2. faults' \in 0..MaxFaults
  BY ConstantAssumption DEF TypeOK, RemoteRestart
<1> QED  BY <1>1, <1>2 DEF TypeOK, RemoteRestart, taskVars, sessionVars, goVars

LEMMA TypeRemoteStop ==
    ASSUME TypeOK, NEW a \in Addr, RemoteStop(a)
    PROVE  TypeOK'
<1>1. remote' \in [Addr -> Remote]
  BY ZenonT(40) DEF TypeOK, RemoteStop, Remote
<1>2. faults' \in 0..MaxFaults
  BY ConstantAssumption DEF TypeOK, RemoteStop
<1> QED  BY <1>1, <1>2 DEF TypeOK, RemoteStop, taskVars, sessionVars, goVars

-----------------------------------------------------------------------------
(* WellFormed is preserved.  What most steps leave as it is:               *)

\* The Worker objects that are in use stay in use, and no new one is.
WorkersKept == \A w \in Workers : status'[w] # "unused" <=> status[w] # "unused"

\* A Session object keeps its identity.
SessionsKept ==
    \A o \in Objs : /\ session'[o].id = session[o].id
                    /\ session'[o].worker = session[o].worker
                    /\ session'[o].index = session[o].index
                    /\ session[o] = NoSession => session'[o] = NoSession

\* No Sync starts, and a running one keeps its worker.
SyncsKept ==
    \A s \in Syncs : sync'[s].pc # "idle" =>
        sync[s].pc # "idle" /\ sync'[s].worker = sync[s].worker

\* A handler stays as it is, returns, or goes on with the Session it has.
RequestsKept ==
    \A r \in Requests :
        \/ req'[r] = req[r]
        \/ req'[r] = NoRequest
        \/ req[r].pc \notin Early /\ req'[r].pc \notin Early /\ req'[r].obj = req[r].obj

LEMMA FrameSessions ==
    ASSUME TypeOK, SessionsFormed, WorkersKept, SessionsKept
    PROVE  SessionsFormed'
  BY DEF SessionsFormed, WorkersKept, SessionsKept

LEMMA FrameWorkers ==
    ASSUME WorkersFormed, WorkersKept, UNCHANGED worker
    PROVE  WorkersFormed'
  BY DEF WorkersFormed, WorkersKept

LEMMA FrameTable ==
    ASSUME TypeOK, TableFormed, SessionsKept, UNCHANGED sessions
    PROVE  TableFormed'
  BY DEF TypeOK, TableFormed, SessionsKept

LEMMA NoRequestFormed ==
    ASSUME NEW r \in Requests, req'[r] = NoRequest
    PROVE  RequestFormed(r)'
  BY DEF RequestFormed, NoRequest, Early

LEMMA FrameRequests ==
    ASSUME TypeOK, RequestsFormed, WorkersKept, SessionsKept,
           \A r \in Requests :
              \/ req'[r] = req[r]
              \/ req'[r] = NoRequest
              \/ req[r].pc \notin Early /\ req'[r].pc \notin Early /\ req'[r].obj = req[r].obj
              \/ RequestFormed(r)'
    PROVE  RequestsFormed'
<1> SUFFICES ASSUME NEW r \in Requests PROVE RequestFormed(r)'
  BY DEF RequestsFormed
<1>1. CASE req'[r] = req[r]
  <2>1. req[r].best \in Workers \cup {None} /\ req[r].todo \subseteq Workers
    BY DEF TypeOK, Request
  <2> QED  BY <1>1, <2>1 DEF RequestsFormed, RequestFormed, WorkersKept, SessionsKept
<1>2. CASE req'[r] = NoRequest
  BY <1>2, NoRequestFormed
<1>3. CASE req[r].pc \notin Early /\ req'[r].pc \notin Early /\ req'[r].obj = req[r].obj
  BY <1>3 DEF RequestsFormed, RequestFormed, SessionsKept
<1> QED  BY <1>1, <1>2, <1>3

LEMMA FrameSyncs ==
    ASSUME SyncsFormed, WorkersKept, SyncsKept
    PROVE  SyncsFormed'
  BY DEF SyncsFormed, WorkersKept, SyncsKept

LEMMA FrameQueues ==
    ASSUME TypeOK, QueuesFormed, WorkersKept, SessionsKept,
           \A w \in listed' \cup toSync' \cup removals' :
              w \in Workers /\ (w \in listed \cup toSync \cup removals \/ status[w] # "unused"),
           \A f \in finishing' :
              f[1] \in Objs /\ (f \in finishing \/ session[f[1]].id # 0),
           \A c \in cancels' \cup cancelAlls' :
              c.worker \in Workers /\ (c \in cancels \cup cancelAlls \/ status[c.worker] # "unused")
    PROVE  QueuesFormed'
  BY DEF QueuesFormed, WorkersKept, SessionsKept

\* What the queues hold.
LEMMA QueueTypes ==
    ASSUME TypeOK
    PROVE  /\ \A w \in listed \cup toSync \cup removals : w \in Workers
           /\ \A f \in finishing : f[1] \in Objs
           /\ \A c \in cancels \cup cancelAlls : c.worker \in Workers
  BY DEF TypeOK, CancelCall, CancelAllCall

LEMMA TouchKeeps ==
    ASSUME TypeOK, NEW S, NEW s \in Syncs
    PROVE  /\ Touch(S)[s].pc = sync[s].pc
           /\ Touch(S)[s].worker = sync[s].worker
           /\ Touch(S)[s].ok = sync[s].ok
           /\ Touch(S)[s].got = sync[s].got
  BY DEF TypeOK, Touch, SyncCall

\* A session that is in the table unfinished.
LEMMA LiveFormed ==
    ASSUME TypeOK, TableFormed, NEW id \in SessionIds, Live(id)
    PROVE  sessions[id] \in Objs /\ session[sessions[id]].id = id /\ id # 0
<1>1. id # 0
  BY ConstantAssumption DEF SessionIds
<1> QED  BY <1>1 DEF TypeOK, TableFormed, Live

LEMMA SessionWorker ==
    ASSUME SessionsFormed, NEW o \in Objs, session[o].id # 0
    PROVE  /\ session[o].worker \in Workers /\ session[o].index \in Indices
           /\ status[session[o].worker] # "unused"
  BY DEF SessionsFormed, NoSession

LEMMA SpawnedFormed ==
    ASSUME TypeOK, TableFormed, NEW S, NEW n, NEW f \in FinishSessions(S, n)
    PROVE  f[1] \in Objs /\ session[f[1]].id # 0
<1>1. PICK id \in SessionIds : Live(id) /\ f = <<sessions[id], FALSE, n>>
  BY DEF FinishSessions
<1> QED  BY <1>1, LiveFormed

\* FinishSession changes flags only.
LEMMA FinishSessionKeeps ==
    ASSUME TypeOK, WellFormed, NEW o \in Objs, session[o].id # 0,
           NEW p \in BOOLEAN, NEW n \in BOOLEAN, NEW rq \in [Requests -> Request],
           \A r \in Requests : rq[r].pc \in Early => rq[r].obj = None,
           FinishSession(o, p, n, rq)
    PROVE  /\ SessionsKept /\ SyncsKept
           /\ \A r \in Requests : /\ req'[r].pc = rq[r].pc /\ req'[r].obj = rq[r].obj
                                  /\ rq[r].pc \in Early => req'[r] = rq[r]
           /\ \A c \in cancels' : c \in cancels \/ c.worker = session[o].worker
<1>1. SessionsKept
  <2>1. CASE session[o].finished
    BY <2>1 DEF FinishSession, FinishOpen, SessionsKept
  <2>2. CASE ~session[o].finished
    <3>1. /\ session' \in [Objs -> Session]
          /\ \A x \in Objs : x # o => session'[x] = session[x]
          /\ session'[o] = [session[o] EXCEPT !.interacting = FALSE,
                               !.cancelling = session[o].cancelling \/ n,
                               !.finished = ~n]
      BY <2>2, FinishSessionType DEF TypeOK, FinishSession, FinishOpen
    <3>2. /\ session'[o].id = session[o].id /\ session'[o].worker = session[o].worker
          /\ session'[o].index = session[o].index
      BY <3>1 DEF TypeOK, Session
    <3>3. session[o] # NoSession
      BY DEF NoSession
    <3> QED  BY <3>1, <3>2, <3>3 DEF SessionsKept
  <2> QED  BY <2>1, <2>2
<1>2. SyncsKept
  BY TouchKeeps DEF FinishSession, FinishOpen, SyncsKept
<1>3. ASSUME NEW r \in Requests
      PROVE  /\ req'[r].pc = rq[r].pc /\ req'[r].obj = rq[r].obj
             /\ rq[r].pc \in Early => req'[r] = rq[r]
  <2>1. rq[r] \in Request
    OBVIOUS
  <2>2. rq[r].pc \in Early => rq[r].obj # o
    BY PoolAssumption
  <2> QED  BY <2>1, <2>2 DEF FinishSession, FinishOpen, Request
<1>4. \A c \in cancels' : c \in cancels \/ c.worker = session[o].worker
  BY DEF FinishSession, FinishOpen
<1> QED  BY <1>1, <1>2, <1>3, <1>4

LEMMA FormedUpdateWorker ==
    ASSUME TypeOK, WellFormed, NEW a \in Addr, UpdateWorker(a)
    PROVE  WellFormed'
<1>1. CASE tasks[beat[a]] = None
  BY <1>1 DEF WellFormed, SessionsFormed, WorkersFormed, TableFormed, RequestsFormed,
     RequestFormed, SyncsFormed, QueuesFormed, UpdateWorker, sessionVars
<1>2. ASSUME NEW w \in Workers, RegisterWorker(a, beat[a], w), tasks[beat[a]] # None
      PROVE  WellFormed'
  <2>0. beat[a] \in Tasks
    BY DEF TypeOK, UpdateWorker
  <2>1. /\ status' = [status EXCEPT ![w] = "alive"]
        /\ worker' = [worker EXCEPT ![w] = [name |-> beat[a], addr |-> a, stale |-> FALSE]]
        /\ UNCHANGED <<session, sessions, req, sync, finishing, cancels>>
    BY <1>2 DEF RegisterWorker, UpdateWorker, sessionVars
  <2>2. \A v \in Workers : status[v] # "unused" => status'[v] # "unused"
    BY <2>1 DEF TypeOK
  <2>3. SessionsFormed'
    BY <2>1, <2>2 DEF WellFormed, SessionsFormed
  <2>4. WorkersFormed'
    <3>1. worker'[w] = [name |-> beat[a], addr |-> a, stale |-> FALSE]
      BY <2>1 DEF TypeOK
    <3>2. \A v \in Workers : v # w => worker'[v] = worker[v] /\ status'[v] = status[v]
      BY <2>1 DEF TypeOK
    <3> QED  BY <2>0, <3>1, <3>2 DEF WellFormed, WorkersFormed
  <2>5. TableFormed'
    BY <2>1 DEF WellFormed, TableFormed
  <2>6. RequestsFormed'
    <3>1. \A r \in Requests : req[r].best \in Workers \cup {None} /\ req[r].todo \subseteq Workers
      BY DEF TypeOK, Request
    <3> QED  BY <2>1, <2>2, <3>1 DEF WellFormed, RequestsFormed, RequestFormed
  <2>7. SyncsFormed'
    BY <2>1, <2>2 DEF WellFormed, SyncsFormed
  <2>8. QueuesFormed'
    <3>1. listed \subseteq Workers /\ status'[w] # "unused"
      BY <2>1 DEF TypeOK
    <3>2. \A v \in listed' \cup toSync' \cup removals' : status'[v] # "unused"
      BY <1>2, <2>2, <3>1, QueueTypes DEF WellFormed, QueuesFormed, RegisterWorker, Elsewhere
    <3>3. \A c \in cancels' \cup cancelAlls' : status'[c.worker] # "unused"
      <4>1. \A c \in cancelAlls' : c \in cancelAlls \/ c.worker \in listed
        BY <1>2 DEF RegisterWorker, Elsewhere
      <4> QED  BY <2>1, <2>2, <4>1, QueueTypes DEF WellFormed, QueuesFormed
    <3>4. \A f \in finishing' : session'[f[1]].id # 0
      BY <2>1 DEF WellFormed, QueuesFormed
    <3> QED  BY <3>2, <3>3, <3>4 DEF QueuesFormed
  <2> QED  BY <2>3, <2>4, <2>5, <2>6, <2>7, <2>8 DEF WellFormed
<1>3. ASSUME NEW w \in Workers, RefreshWorker(a, beat[a], w), tasks[beat[a]] # None
      PROVE  WellFormed'
  <2>1. /\ status' = [status EXCEPT ![w] = "alive"] /\ status[w] # "unused"
        /\ UNCHANGED <<worker, session, sessions, req, sync, finishing, cancels, cancelAlls,
                       listed, removals>>
        /\ toSync' \subseteq toSync \cup {w}
    BY <1>3 DEF RefreshWorker, UpdateWorker, sessionVars, WorkersOf, WellFormed, QueuesFormed
  <2>2. WorkersKept
    BY <2>1 DEF TypeOK, WorkersKept
  <2>3. SessionsKept /\ SyncsKept
    BY <2>1 DEF SessionsKept, SyncsKept
  <2>4. QueuesFormed'
    BY <2>1, <2>2, <2>3, FrameQueues, QueueTypes DEF WellFormed
  <2> QED
    BY <2>1, <2>2, <2>3, <2>4, FrameSessions, FrameWorkers, FrameTable, FrameRequests, FrameSyncs
    DEF WellFormed
<1> QED  BY <1>1, <1>2, <1>3 DEF UpdateWorker

LEMMA FormedRemoveWorker ==
    ASSUME TypeOK, WellFormed, NEW w \in Workers, RemoveWorker(w)
    PROVE  WellFormed'
<1>1. /\ status[w] # "unused"
      /\ status' = status \/ status' = [status EXCEPT ![w] = "dead"]
      /\ listed' \subseteq listed /\ removals' \subseteq removals
      /\ UNCHANGED <<worker, session, sessions, req, sync, toSync, finishing, cancels, cancelAlls>>
  BY DEF RemoveWorker, WellFormed, QueuesFormed, sessionVars
<1>2. WorkersKept
  BY <1>1 DEF TypeOK, WorkersKept
<1>3. SessionsKept /\ SyncsKept
  BY <1>1 DEF SessionsKept, SyncsKept
<1>4. QueuesFormed'
  BY <1>1, <1>2, <1>3, FrameQueues, QueueTypes DEF WellFormed
<1> QED
  BY <1>1, <1>2, <1>3, <1>4, FrameSessions, FrameWorkers, FrameTable, FrameRequests, FrameSyncs
  DEF WellFormed

\* Steps that change nothing but the handler r.
LEMMA FormedRequestOnly ==
    ASSUME TypeOK, WellFormed, NEW r \in Requests, RequestFormed(r)',
           \A q \in Requests : q # r => req'[q] = req[q],
           UNCHANGED <<worker, status, session, sessions, sync, listed, toSync, removals,
                       finishing, cancels, cancelAlls>>
    PROVE  WellFormed'
<1>1. RequestsFormed'
  BY FrameRequests DEF WellFormed, WorkersKept, SessionsKept
<1> QED
  BY <1>1 DEF WellFormed, SessionsFormed, WorkersFormed, TableFormed, SyncsFormed, QueuesFormed

LEMMA FormedStartSample ==
    ASSUME TypeOK, WellFormed, NEW r \in Requests, NEW t \in Tasks, NEW i \in Indices,
           StartSample(r, t, i)
    PROVE  WellFormed'
<1>1. req'[r] = Scanning(t, i, WorkersOf(t)) /\ \A q \in Requests : q # r => req'[q] = req[q]
  BY DEF TypeOK, StartSample
<1>2. RequestFormed(r)'
  BY <1>1 DEF RequestFormed, Early, Scanning, WorkersOf, WellFormed, QueuesFormed, StartSample
<1> QED
  BY <1>1, <1>2, FormedRequestOnly DEF StartSample, taskVars, sessionVars, goVars

LEMMA FormedScanDone ==
    ASSUME TypeOK, WellFormed, NEW r \in Requests, ScanDone(r)
    PROVE  WellFormed'
<1>1. /\ req'[r] = IF req[r].best = None THEN NoRequest ELSE [req[r] EXCEPT !.pc = "take"]
      /\ \A q \in Requests : q # r => req'[q] = req[q]
      /\ UNCHANGED <<status, session>>
  BY DEF TypeOK, ScanDone, sessionVars
<1>2. RequestFormed(r)'
  <2>1. CASE req[r].best = None
    BY <1>1, <2>1, NoRequestFormed
  <2>2. CASE req[r].best # None
    <3>1. req'[r] = [req[r] EXCEPT !.pc = "take"]
      BY <1>1, <2>2
    <3>2. /\ req'[r].pc = "take" /\ req'[r].obj = req[r].obj /\ req'[r].live = req[r].live
          /\ req'[r].task = req[r].task /\ req'[r].index = req[r].index
          /\ req'[r].best = req[r].best /\ req'[r].todo = req[r].todo
          /\ req[r].best \in Workers
      BY <2>2, <3>1 DEF TypeOK, Request
    <3> QED  BY <1>1, <3>2 DEF WellFormed, RequestsFormed, RequestFormed, Early, ScanDone
  <2> QED  BY <2>1, <2>2
<1> QED
  BY <1>1, <1>2, FormedRequestOnly DEF ScanDone, taskVars, sessionVars, goVars

LEMMA FormedTakeSlot ==
    ASSUME TypeOK, WellFormed, NEW r \in Requests, TakeSlot(r)
    PROVE  WellFormed'
<1> DEFINE again == Scanning(req[r].task, req[r].index, WorkersOf(req[r].task))
<1>1. /\ req'[r] = again \/ req'[r] = [req[r] EXCEPT !.pc = "create"]
      /\ \A q \in Requests : q # r => req'[q] = req[q]
      /\ UNCHANGED <<status, session>>
  BY DEF TypeOK, TakeSlot, sessionVars
<1>2. RequestFormed(r)
  BY DEF WellFormed, RequestsFormed
<1>3. CASE req'[r] = again
  <2>1. RequestFormed(r)'
    BY <1>1, <1>2, <1>3
    DEF RequestFormed, Early, Scanning, WorkersOf, WellFormed, QueuesFormed, TakeSlot
  <2> QED  BY <1>1, <2>1, FormedRequestOnly DEF TakeSlot, taskVars, sessionVars, goVars
<1>4. CASE req'[r] = [req[r] EXCEPT !.pc = "create"]
  <2>1. /\ req'[r].pc = "create" /\ req'[r].obj = req[r].obj /\ req'[r].live = req[r].live
        /\ req'[r].task = req[r].task /\ req'[r].index = req[r].index
        /\ req'[r].best = req[r].best /\ req'[r].todo = req[r].todo
    BY <1>4 DEF TypeOK, Request
  <2>2. RequestFormed(r)'
    BY <1>1, <1>2, <2>1 DEF RequestFormed, Early, TakeSlot
  <2> QED  BY <1>1, <2>2, FormedRequestOnly DEF TakeSlot, taskVars, sessionVars, goVars
<1> QED  BY <1>1, <1>3, <1>4

LEMMA FormedCreateSession ==
    ASSUME TypeOK, WellFormed, NEW r \in Requests, NEW o \in Objs, CreateSession(r, o)
    PROVE  WellFormed'
<1> DEFINE id == nextSessionId + 1
<1>1. /\ req[r].best \in Workers /\ req[r].index \in Indices
      /\ status[req[r].best] # "unused" /\ req[r].obj = None
  BY PoolAssumption DEF WellFormed, RequestsFormed, RequestFormed, Early, CreateSession
<1>2. /\ session' = [session EXCEPT ![o] = NewSession(id, req[r].best, req[r].index)]
      /\ sessions' = [sessions EXCEPT ![id] = o]
      /\ req' = [req EXCEPT ![r] = Beginning("start", o)]
      /\ sync' = Touch({o})
      /\ session[o].id = 0 /\ id \in SessionIds
      /\ UNCHANGED <<worker, status, listed, toSync, removals, finishing, cancels, cancelAlls>>
  BY DEF CreateSession, Unused, taskVars, goVars
<1>3. id # 0
  BY <1>2, ConstantAssumption DEF SessionIds
<1>4. /\ session'[o] = NewSession(id, req[r].best, req[r].index)
      /\ \A x \in Objs : x # o => session'[x] = session[x]
      /\ session'[o].id = id
      /\ \A x \in Objs : session[x].id # 0 => session'[x] = session[x]
  BY <1>2 DEF TypeOK, NewSession
<1>5. SessionsFormed'
  BY <1>1, <1>2, <1>3, <1>4 DEF WellFormed, SessionsFormed, NewSession
<1>6. WorkersFormed'
  BY <1>2 DEF WellFormed, WorkersFormed
<1>7. TableFormed'
  <2>1. SUFFICES ASSUME NEW i \in SessionIds, sessions'[i] # None
                 PROVE  session'[sessions'[i]].id = i
    BY DEF TableFormed
  <2>2. CASE i = id
    BY <1>2, <1>4, <2>2 DEF TypeOK
  <2>3. CASE i # id
    <3>1. sessions'[i] = sessions[i] /\ sessions[i] \in Objs /\ session[sessions[i]].id = i
      BY <1>2, <2>1, <2>3 DEF TypeOK, WellFormed, TableFormed
    <3>2. i # 0
      BY ConstantAssumption DEF SessionIds
    <3> QED  BY <1>4, <3>1, <3>2
  <2> QED  BY <2>2, <2>3
<1>8. RequestsFormed'
  <2>1. SUFFICES ASSUME NEW q \in Requests PROVE RequestFormed(q)'
    BY DEF RequestsFormed
  <2>2. CASE q = r
    <3>1. req'[r] = Beginning("start", o)
      BY <1>2 DEF TypeOK
    <3> QED  BY <1>3, <1>4, <2>2, <3>1 DEF RequestFormed, Beginning, Early
  <2>3. CASE q # r
    BY <1>2, <1>4, <2>3 DEF TypeOK, WellFormed, RequestsFormed, RequestFormed
  <2> QED  BY <2>2, <2>3
<1>9. SyncsFormed'
  BY <1>2, TouchKeeps DEF WellFormed, SyncsFormed
<1>10. QueuesFormed'
  BY <1>2, <1>4, QueueTypes DEF WellFormed, QueuesFormed
<1> QED  BY <1>5, <1>6, <1>7, <1>8, <1>9, <1>10 DEF WellFormed

LEMMA FormedGetForInteract ==
    ASSUME TypeOK, WellFormed, NEW r \in Requests, NEW id \in SessionIds, GetForInteract(r, id)
    PROVE  WellFormed'
<1>1. /\ req'[r] = Beginning("interact", sessions[id])
      /\ \A q \in Requests : q # r => req'[q] = req[q]
      /\ UNCHANGED session
  BY DEF TypeOK, GetForInteract, sessionVars
<1>2. sessions[id] \in Objs /\ session[sessions[id]].id # 0
  BY LiveFormed DEF GetForInteract, WellFormed
<1>3. RequestFormed(r)'
  BY <1>1, <1>2 DEF RequestFormed, Early, Beginning
<1> QED
  BY <1>1, <1>3, FormedRequestOnly DEF GetForInteract, taskVars, sessionVars, goVars

\* Steps that keep the identity of everything: what remains is the queues.
LEMMA FormedKept ==
    ASSUME TypeOK, WellFormed, WorkersKept, SessionsKept, SyncsKept, RequestsKept,
           UNCHANGED <<worker, sessions>>, QueuesFormed'
    PROVE  WellFormed'
  BY FrameSessions, FrameWorkers, FrameTable, FrameRequests, FrameSyncs
  DEF WellFormed, RequestsKept

LEMMA AllKept ==
    ASSUME UNCHANGED <<status, session, req, sync>>
    PROVE  WorkersKept /\ SessionsKept /\ RequestsKept /\ SyncsKept
  BY DEF WorkersKept, SessionsKept, RequestsKept, SyncsKept

\* Setting Interacting keeps the identity of the session.
LEMMA InteractingKeeps ==
    ASSUME TypeOK, NEW o \in Objs, session[o].id # 0, NEW b \in BOOLEAN,
           session' = [session EXCEPT ![o] = [@ EXCEPT !.interacting = b]]
    PROVE  SessionsKept
<1>1. session'[o] = [session[o] EXCEPT !.interacting = b]
  BY DEF TypeOK
<1>2. /\ session'[o].id = session[o].id /\ session'[o].worker = session[o].worker
      /\ session'[o].index = session[o].index
  BY <1>1 DEF TypeOK, Session
<1>3. session[o] # NoSession
  BY DEF NoSession
<1>4. \A x \in Objs : x # o => session'[x] = session[x]
  BY DEF TypeOK
<1> QED  BY <1>2, <1>3, <1>4 DEF SessionsKept

LEMMA AfterErrorKeeps ==
    ASSUME TypeOK, NEW r \in Requests, req[r].pc \notin Early, NEW res \in Result,
           req' = AfterError(r, res)
    PROVE  RequestsKept
<1>1. \A q \in Requests : q # r => req'[q] = req[q]
  BY DEF TypeOK, AfterError
<1>2. CASE req[r].kind = "start"
  <2>1. req'[r] = [req[r] EXCEPT !.pc = "fail", !.res = res, !.live = FALSE]
    BY <1>2 DEF TypeOK, AfterError
  <2>2. req'[r].pc = "fail" /\ req'[r].obj = req[r].obj
    BY <2>1 DEF TypeOK, Request
  <2> QED  BY <1>1, <2>2 DEF RequestsKept, Early
<1>3. CASE req[r].kind # "start"
  BY <1>1, <1>3 DEF TypeOK, AfterError, RequestsKept
<1> QED  BY <1>2, <1>3

LEMMA FormedInteractBegin ==
    ASSUME TypeOK, WellFormed, NEW r \in Requests, InteractBegin(r)
    PROVE  WellFormed'
<1> DEFINE o == req[r].obj
<1>1. o \in Objs /\ session[o].id # 0
  BY DEF WellFormed, RequestsFormed, RequestFormed, Early, InteractBegin
<1>2. SessionsKept
  <2>1. CASE UNCHANGED session
    BY <2>1 DEF SessionsKept
  <2>2. CASE session' = [session EXCEPT ![o] = [@ EXCEPT !.interacting = TRUE]]
    BY <1>1, <2>2, InteractingKeeps
  <2> QED  BY <2>1, <2>2 DEF InteractBegin
<1>3. SyncsKept
  BY TouchKeeps DEF SyncsKept, InteractBegin
<1>4. RequestsKept
  <2>1. req[r].pc \notin Early
    BY DEF InteractBegin, Early
  <2>2. CASE req' = AfterError(r, "err")
    BY <2>1, <2>2, AfterErrorKeeps DEF Result
  <2>3. CASE req' = [req EXCEPT ![r] = [@ EXCEPT !.pc = "call",
                                                 !.live = ~session[o].finished]]
    <3>1. \A q \in Requests : q # r => req'[q] = req[q]
      BY <2>3 DEF TypeOK
    <3>2. req'[r].pc = "call" /\ req'[r].obj = req[r].obj
      BY <2>3 DEF TypeOK, Request
    <3> QED  BY <2>1, <3>1, <3>2 DEF RequestsKept, Early
  <2> QED  BY <2>2, <2>3 DEF InteractBegin
<1>5. WorkersKept
  BY DEF WorkersKept, InteractBegin
<1>6. QueuesFormed'
  BY <1>2, <1>5, QueueTypes, FrameQueues DEF WellFormed, InteractBegin, taskVars, goVars
<1> QED  BY <1>2, <1>3, <1>4, <1>5, <1>6, FormedKept DEF InteractBegin

LEMMA FormedInteractReply ==
    ASSUME TypeOK, WellFormed, NEW r \in Requests, InteractReply(r)
    PROVE  WellFormed'
<1> DEFINE o == req[r].obj
<1>1. o \in Objs /\ session[o].id # 0
  BY DEF WellFormed, RequestsFormed, RequestFormed, Early, InteractReply
<1>2. WorkersKept
  BY DEF WorkersKept, InteractReply
<1>3. CASE req[r].res = "done"
  <2> DEFINE rq == [req EXCEPT ![r].pc = "defer"]
  <2>1. rq \in [Requests -> Request]
    BY RequestFields DEF TypeOK, RequestPc
  <2>2. /\ \A q \in Requests : q # r => rq[q] = req[q]
        /\ rq[r].pc = "defer" /\ rq[r].obj = req[r].obj
    BY DEF TypeOK, Request
  <2>3. \A q \in Requests : rq[q].pc \in Early => rq[q].obj = None
    BY <2>2 DEF WellFormed, RequestsFormed, RequestFormed, Early
  <2>4. FinishSession(o, FALSE, FALSE, rq)
    BY <1>3 DEF InteractReply
  <2> HIDE DEF rq, o
  <2>5. /\ SessionsKept /\ SyncsKept
        /\ \A q \in Requests : /\ req'[q].pc = rq[q].pc /\ req'[q].obj = rq[q].obj
                               /\ rq[q].pc \in Early => req'[q] = rq[q]
        /\ \A c \in cancels' : c \in cancels \/ c.worker = session[o].worker
    BY <1>1, <2>1, <2>3, <2>4, FinishSessionKeeps
  <2>6. RequestsKept
    BY <2>2, <2>5 DEF RequestsKept, Early, InteractReply
  <2>7. QueuesFormed'
    BY <1>1, <1>2, <2>5, QueueTypes, FrameQueues, SessionWorker, ZenonT(40)
    DEF WellFormed, InteractReply, taskVars
  <2> QED  BY <1>2, <2>5, <2>6, <2>7, FormedKept DEF InteractReply
<1>4. CASE req[r].res # "done"
  <2>1. SessionsKept
    BY <1>1, <1>4 DEF TypeOK, Session, NoSession, SessionsKept, InteractReply
  <2>2. SyncsKept
    BY <1>4, TouchKeeps DEF SyncsKept, InteractReply
  <2>3. RequestsKept
    <3>1. req[r].pc \notin Early /\ req[r].res \in Result
      BY DEF TypeOK, Request, InteractReply, Early
    <3>2. CASE req[r].res = "running"
      BY <1>4, <3>2 DEF TypeOK, RequestsKept, InteractReply
    <3>3. CASE req[r].res # "running"
      BY <1>4, <3>1, <3>3, AfterErrorKeeps DEF InteractReply
    <3> QED  BY <3>2, <3>3
  <2>4. QueuesFormed'
    BY <1>2, <1>4, <2>1, QueueTypes, FrameQueues DEF WellFormed, InteractReply, taskVars
  <2> QED  BY <1>2, <2>1, <2>2, <2>3, <2>4, FormedKept DEF InteractReply
<1> QED  BY <1>3, <1>4

LEMMA FormedInteractDefer ==
    ASSUME TypeOK, WellFormed, NEW r \in Requests, InteractDefer(r)
    PROVE  WellFormed'
<1> DEFINE o == req[r].obj
<1>1. o \in Objs /\ session[o].id # 0
  BY DEF WellFormed, RequestsFormed, RequestFormed, Early, InteractDefer
<1>2. SessionsKept
  BY <1>1, InteractingKeeps DEF InteractDefer
<1>3. SyncsKept
  BY TouchKeeps DEF SyncsKept, InteractDefer
<1>4. RequestsKept /\ WorkersKept
  BY DEF TypeOK, RequestsKept, WorkersKept, InteractDefer
<1>5. QueuesFormed'
  BY <1>2, <1>4, QueueTypes, FrameQueues DEF WellFormed, InteractDefer, taskVars, goVars
<1> QED  BY <1>2, <1>3, <1>4, <1>5, FormedKept DEF InteractDefer

LEMMA FormedStartFails ==
    ASSUME TypeOK, WellFormed, NEW r \in Requests, StartFails(r)
    PROVE  WellFormed'
<1> DEFINE o == req[r].obj
           rq == [req EXCEPT ![r] = NoRequest]
<1>1. o \in Objs /\ session[o].id # 0
  BY DEF WellFormed, RequestsFormed, RequestFormed, Early, StartFails
<1>2. rq \in [Requests -> Request]
  BY RequestConstructors DEF TypeOK
<1>3. /\ \A q \in Requests : q # r => rq[q] = req[q]
      /\ rq[r] = NoRequest /\ rq[r].pc = "idle" /\ rq[r].obj = None
  BY DEF TypeOK, NoRequest
<1>4. \A q \in Requests : rq[q].pc \in Early => rq[q].obj = None
  BY <1>3 DEF WellFormed, RequestsFormed, RequestFormed, Early
<1>5. FinishSession(o, FALSE, FALSE, rq)
  BY DEF StartFails
<1> HIDE DEF rq, o
<1>6. /\ SessionsKept /\ SyncsKept
      /\ \A q \in Requests : /\ req'[q].pc = rq[q].pc /\ req'[q].obj = rq[q].obj
                             /\ rq[q].pc \in Early => req'[q] = rq[q]
      /\ \A c \in cancels' : c \in cancels \/ c.worker = session[o].worker
  BY <1>1, <1>2, <1>4, <1>5, FinishSessionKeeps
<1>7. RequestsKept /\ WorkersKept
  BY <1>3, <1>6 DEF RequestsKept, Early, WorkersKept, StartFails
<1>8. QueuesFormed'
  <2>1. session[o].worker \in Workers /\ status[session[o].worker] # "unused"
    BY <1>1, SessionWorker DEF WellFormed
  <2>2. toSync' \subseteq toSync \cup {session[o].worker}
    BY DEF StartFails, o
  <2> QED
    BY <1>6, <1>7, <2>1, <2>2, QueueTypes, FrameQueues DEF WellFormed, StartFails, taskVars
<1> QED  BY <1>6, <1>7, <1>8, FormedKept DEF StartFails

LEMMA FormedRunFinishSession ==
    ASSUME TypeOK, WellFormed, NEW f \in finishing, RunFinishSession(f)
    PROVE  WellFormed'
<1>1. f[1] \in Objs /\ f[2] \in BOOLEAN /\ f[3] \in BOOLEAN /\ session[f[1]].id # 0
  BY FinishingTuples DEF TypeOK, WellFormed, QueuesFormed
<1>2. req \in [Requests -> Request] /\ \A q \in Requests : req[q].pc \in Early => req[q].obj = None
  BY DEF TypeOK, WellFormed, RequestsFormed, RequestFormed
<1>3. /\ SessionsKept /\ SyncsKept
      /\ \A q \in Requests : /\ req'[q].pc = req[q].pc /\ req'[q].obj = req[q].obj
                             /\ req[q].pc \in Early => req'[q] = req[q]
      /\ \A c \in cancels' : c \in cancels \/ c.worker = session[f[1]].worker
  BY <1>1, <1>2, FinishSessionKeeps DEF RunFinishSession
<1>4. RequestsKept /\ WorkersKept
  BY <1>3 DEF RequestsKept, WorkersKept, RunFinishSession
<1>5. session[f[1]].worker \in Workers /\ status[session[f[1]].worker] # "unused"
  BY <1>1, SessionWorker DEF WellFormed
<1>6. QueuesFormed'
  BY <1>3, <1>4, <1>5, QueueTypes, FrameQueues DEF WellFormed, RunFinishSession, taskVars
<1> QED  BY <1>3, <1>4, <1>6, FormedKept DEF RunFinishSession

\* One more FinishSession goroutine, for a session that exists.
LEMMA SpawnOne ==
    ASSUME TypeOK, NEW o \in Objs, session[o].id # 0, NEW p, NEW n,
           finishing' \subseteq finishing \cup {<<o, p, n>>}
    PROVE  \A f \in finishing' : f[1] \in Objs /\ (f \in finishing \/ session[f[1]].id # 0)
<1> SUFFICES ASSUME NEW f \in finishing'
             PROVE  f[1] \in Objs /\ (f \in finishing \/ session[f[1]].id # 0)
  OBVIOUS
<1>1. CASE f \in finishing
  BY <1>1, QueueTypes
<1>2. CASE f = <<o, p, n>>
  BY <1>2
<1> QED  BY <1>1, <1>2

LEMMA FormedHandleCancel ==
    ASSUME TypeOK, WellFormed, NEW id \in SessionIds, HandleCancel(id)
    PROVE  WellFormed'
<1>1. Live(id) => sessions[id] \in Objs /\ session[sessions[id]].id # 0
  BY LiveFormed DEF WellFormed
<1>2. \A f \in finishing' :
         f[1] \in Objs /\ (f \in finishing \/ session[f[1]].id # 0)
  BY <1>1, SpawnOne DEF HandleCancel
<1>3. WorkersKept /\ SessionsKept /\ RequestsKept /\ SyncsKept
  BY AllKept DEF HandleCancel, sessionVars
<1>4. QueuesFormed'
  BY <1>2, <1>3, QueueTypes, FrameQueues DEF WellFormed, HandleCancel, taskVars
<1> QED  BY <1>3, <1>4, FormedKept DEF HandleCancel, sessionVars

LEMMA FormedExpireSession ==
    ASSUME TypeOK, WellFormed, NEW id \in SessionIds, ExpireSession(id)
    PROVE  WellFormed'
<1>1. Live(id) => sessions[id] \in Objs /\ session[sessions[id]].id # 0
  BY LiveFormed DEF WellFormed
<1>2. \A f \in finishing' :
         f[1] \in Objs /\ (f \in finishing \/ session[f[1]].id # 0)
  BY <1>1, SpawnOne DEF ExpireSession
<1>3. WorkersKept /\ SessionsKept /\ RequestsKept /\ SyncsKept
  BY AllKept DEF ExpireSession, sessionVars
<1>4. QueuesFormed'
  BY <1>2, <1>3, QueueTypes, FrameQueues DEF WellFormed, ExpireSession, taskVars
<1> QED  BY <1>3, <1>4, FormedKept DEF ExpireSession, sessionVars

LEMMA FormedHandleCancelNotice ==
    ASSUME TypeOK, WellFormed, NEW id \in SessionIds, HandleCancelNotice(id)
    PROVE  WellFormed'
<1>1. Live(id) => sessions[id] \in Objs /\ session[sessions[id]].id # 0
  BY LiveFormed DEF WellFormed
<1>2. \A f \in finishing' :
         f[1] \in Objs /\ (f \in finishing \/ session[f[1]].id # 0)
  <2>1. CASE Live(id)
    BY <1>1, <2>1, SpawnOne DEF HandleCancelNotice
  <2>2. CASE ~Live(id)
    BY <2>2, QueueTypes DEF HandleCancelNotice
  <2> QED  BY <2>1, <2>2
<1>3. WorkersKept /\ SessionsKept /\ RequestsKept /\ SyncsKept
  BY AllKept DEF HandleCancelNotice, sessionVars
<1>4. QueuesFormed'
  BY <1>2, <1>3, QueueTypes, FrameQueues DEF WellFormed, HandleCancelNotice, taskVars
<1> QED  BY <1>3, <1>4, FormedKept DEF HandleCancelNotice, sessionVars

LEMMA FormedCancelFinish ==
    ASSUME TypeOK, WellFormed, NEW c \in cancels, CancelFinish(c)
    PROVE  WellFormed'
<1>1. Live(c.id) => sessions[c.id] \in Objs /\ session[sessions[c.id]].id # 0
  BY LiveFormed DEF WellFormed, TypeOK, CancelCall
<1>2. \A f \in finishing' :
         f[1] \in Objs /\ (f \in finishing \/ session[f[1]].id # 0)
  <2>1. CASE Live(c.id)
    BY <1>1, <2>1, SpawnOne DEF CancelFinish
  <2>2. CASE ~Live(c.id)
    BY <2>2, QueueTypes DEF CancelFinish
  <2> QED  BY <2>1, <2>2
<1>3. WorkersKept /\ SessionsKept /\ RequestsKept /\ SyncsKept
  BY AllKept DEF CancelFinish, sessionVars
<1>4. QueuesFormed'
  BY <1>2, <1>3, QueueTypes, FrameQueues DEF WellFormed, CancelFinish, taskVars
<1> QED  BY <1>3, <1>4, FormedKept DEF CancelFinish, sessionVars

LEMMA FormedHandleCancelAll ==
    ASSUME TypeOK, WellFormed, NEW ts \in SUBSET Tasks, HandleCancelAll(ts)
    PROVE  WellFormed'
<1>1. \A f \in finishing' :
         f[1] \in Objs /\ (f \in finishing \/ session[f[1]].id # 0)
  BY SpawnedFormed, QueueTypes DEF WellFormed, HandleCancelAll
<1>2. \A c \in cancelAlls' : c \in cancelAlls \/ c.worker \in listed
  BY DEF HandleCancelAll
<1>3. \A w \in listed : status[w] # "unused"
  BY DEF WellFormed, QueuesFormed
<1>4. WorkersKept /\ SessionsKept /\ RequestsKept /\ SyncsKept
  BY AllKept DEF HandleCancelAll, sessionVars
<1>5. QueuesFormed'
  BY <1>1, <1>2, <1>3, <1>4, QueueTypes, FrameQueues DEF WellFormed, HandleCancelAll, taskVars
<1> QED  BY <1>4, <1>5, FormedKept DEF HandleCancelAll, sessionVars

LEMMA FormedCancelAllFinish ==
    ASSUME TypeOK, WellFormed, NEW c \in cancelAlls, CancelAllFinish(c)
    PROVE  WellFormed'
<1>1. \A f \in finishing' :
         f[1] \in Objs /\ (f \in finishing \/ session[f[1]].id # 0)
  BY SpawnedFormed, QueueTypes DEF WellFormed, CancelAllFinish
<1>2. WorkersKept /\ SessionsKept /\ RequestsKept /\ SyncsKept
  BY AllKept DEF CancelAllFinish, sessionVars
<1>3. QueuesFormed'
  BY <1>1, <1>2, QueueTypes, FrameQueues DEF WellFormed, CancelAllFinish, taskVars
<1> QED  BY <1>2, <1>3, FormedKept DEF CancelAllFinish, sessionVars

LEMMA FormedCancelWithNotice ==
    ASSUME TypeOK, WellFormed, NEW c \in cancels, CancelWithNotice(c)
    PROVE  WellFormed'
<1>1. c.worker \in Workers /\ status[c.worker] # "unused"
  BY QueueTypes DEF WellFormed, QueuesFormed
<1>2. \A d \in cancels' : d \in cancels \/ d.worker = c.worker
  BY DEF TypeOK, CancelCall, CancelWithNotice, NextStage
<1>3. WorkersKept
  BY DEF WorkersKept, CancelWithNotice
<1>4. SessionsKept /\ RequestsKept /\ SyncsKept
  BY DEF SessionsKept, RequestsKept, SyncsKept, CancelWithNotice, sessionVars
<1>5. QueuesFormed'
  BY <1>1, <1>2, <1>3, <1>4, QueueTypes, FrameQueues DEF WellFormed, CancelWithNotice, taskVars
<1> QED  BY <1>3, <1>4, <1>5, FormedKept DEF CancelWithNotice, sessionVars

LEMMA FormedCancel ==
    ASSUME TypeOK, WellFormed, NEW c \in cancels, Cancel(c)
    PROVE  WellFormed'
<1>1. c.worker \in Workers /\ status[c.worker] # "unused"
  BY QueueTypes DEF WellFormed, QueuesFormed
<1>2. \A d \in cancels' : d \in cancels \/ d.worker = c.worker
  BY DEF TypeOK, CancelCall, Cancel, NextStage
<1>3. WorkersKept
  BY <1>1 DEF TypeOK, WorkersKept, Cancel
<1>4. SessionsKept /\ RequestsKept /\ SyncsKept
  BY DEF SessionsKept, RequestsKept, SyncsKept, Cancel, sessionVars
<1>5. QueuesFormed'
  BY <1>1, <1>2, <1>3, <1>4, QueueTypes, FrameQueues DEF WellFormed, Cancel, taskVars
<1> QED  BY <1>3, <1>4, <1>5, FormedKept DEF Cancel, sessionVars

LEMMA FormedCancelAllWithNotice ==
    ASSUME TypeOK, WellFormed, NEW c \in cancelAlls, CancelAllWithNotice(c)
    PROVE  WellFormed'
<1>1. c.worker \in Workers /\ status[c.worker] # "unused"
  BY QueueTypes DEF WellFormed, QueuesFormed
<1>2. \A d \in cancelAlls' : d \in cancelAlls \/ d.worker = c.worker
  BY DEF TypeOK, CancelAllCall, CancelAllWithNotice, NextStageAll
<1>3. WorkersKept
  BY DEF WorkersKept, CancelAllWithNotice
<1>4. SessionsKept /\ RequestsKept /\ SyncsKept
  BY DEF SessionsKept, RequestsKept, SyncsKept, CancelAllWithNotice, sessionVars
<1>5. QueuesFormed'
  BY <1>1, <1>2, <1>3, <1>4, QueueTypes, FrameQueues DEF WellFormed, CancelAllWithNotice, taskVars
<1> QED  BY <1>3, <1>4, <1>5, FormedKept DEF CancelAllWithNotice, sessionVars

LEMMA FormedCancelAll ==
    ASSUME TypeOK, WellFormed, NEW c \in cancelAlls, CancelAll(c)
    PROVE  WellFormed'
<1>1. c.worker \in Workers /\ status[c.worker] # "unused"
  BY QueueTypes DEF WellFormed, QueuesFormed
<1>2. \A d \in cancelAlls' : d \in cancelAlls \/ d.worker = c.worker
  BY DEF TypeOK, CancelAllCall, CancelAll, NextStageAll
<1>3. WorkersKept
  BY <1>1 DEF TypeOK, WorkersKept, CancelAll
<1>4. SessionsKept /\ RequestsKept /\ SyncsKept
  BY DEF SessionsKept, RequestsKept, SyncsKept, CancelAll, sessionVars
<1>5. QueuesFormed'
  BY <1>1, <1>2, <1>3, <1>4, QueueTypes, FrameQueues DEF WellFormed, CancelAll, taskVars
<1> QED  BY <1>3, <1>4, <1>5, FormedKept DEF CancelAll, sessionVars

LEMMA FormedSyncStart ==
    ASSUME TypeOK, WellFormed, NEW s \in Syncs, NEW w \in Workers, SyncStart(s, w)
    PROVE  WellFormed'
<1>1. status[w] # "unused"
  BY DEF WellFormed, QueuesFormed, SyncStart
<1>2. \A x \in Syncs : \/ sync'[x] = sync[x]
                       \/ x = s /\ sync'[x] = [NoSync EXCEPT !.pc = "call", !.worker = w]
  BY DEF TypeOK, SyncStart
<1>3. [NoSync EXCEPT !.pc = "call", !.worker = w].worker = w
  BY DEF NoSync
<1>4. SyncsFormed'
  <2>1. UNCHANGED status
    BY DEF SyncStart
  <2> QED  BY <1>1, <1>2, <1>3, <2>1 DEF WellFormed, SyncsFormed
<1>5. QueuesFormed'
  BY DEF WellFormed, QueuesFormed, SyncStart, taskVars, sessionVars
<1> QED
  BY <1>4, <1>5
  DEF WellFormed, SyncStart, SessionsFormed, WorkersFormed, TableFormed, RequestsFormed,
      RequestFormed, sessionVars

\* Steps of a running Sync that write nothing but the call itself.
LEMMA FormedSyncOnly ==
    ASSUME TypeOK, WellFormed, SyncsKept,
           UNCHANGED <<worker, status, session, sessions, req, listed, toSync, removals,
                       finishing, cancels, cancelAlls>>
    PROVE  WellFormed'
<1>1. SyncsFormed'
  BY FrameSyncs DEF WellFormed, WorkersKept
<1> QED
  BY <1>1 DEF WellFormed, SessionsFormed, WorkersFormed, TableFormed, RequestsFormed,
     RequestFormed, QueuesFormed

LEMMA FormedSyncReply ==
    ASSUME TypeOK, WellFormed, NEW s \in Syncs, SyncReply(s)
    PROVE  WellFormed'
<1>1. \A x \in Syncs : x # s => sync'[x] = sync[x]
  BY DEF TypeOK, SyncReply
<1>2. sync'[s].worker = sync[s].worker /\ sync[s].pc # "idle"
  BY ZenonT(40) DEF TypeOK, SyncCall, SyncReply
<1>3. SyncsKept
  BY <1>1, <1>2 DEF SyncsKept
<1> QED  BY <1>3, FormedSyncOnly DEF SyncReply, taskVars, sessionVars, goVars

LEMMA FormedSyncCheck ==
    ASSUME TypeOK, WellFormed, NEW s \in Syncs, SyncCheck(s)
    PROVE  WellFormed'
<1>1. \A x \in Syncs : x # s => sync'[x] = sync[x]
  BY DEF TypeOK, SyncCheck
<1>2. sync'[s].pc # "idle" => sync'[s].worker = sync[s].worker /\ sync[s].pc # "idle"
  BY DEF TypeOK, SyncCall, SyncCheck, NoSync
<1>3. SyncsKept
  BY <1>1, <1>2 DEF SyncsKept
<1> QED  BY <1>3, FormedSyncOnly DEF SyncCheck, taskVars, sessionVars, goVars

LEMMA FormedSyncFailed ==
    ASSUME TypeOK, WellFormed, NEW s \in Syncs, SyncFailed(s)
    PROVE  WellFormed'
<1>1. sync[s].worker \in Workers /\ status[sync[s].worker] # "unused"
  BY DEF WellFormed, SyncsFormed, SyncFailed
<1>2. WorkersKept
  BY <1>1 DEF TypeOK, WorkersKept, SyncFailed
<1>3. SyncsKept
  BY DEF TypeOK, SyncsKept, SyncFailed, NoSync
<1>4. SessionsKept /\ RequestsKept
  BY DEF SessionsKept, RequestsKept, SyncFailed, sessionVars
<1>5. QueuesFormed'
  BY <1>2, <1>4, QueueTypes, FrameQueues DEF WellFormed, SyncFailed, taskVars, goVars
<1> QED  BY <1>2, <1>3, <1>4, <1>5, FormedKept DEF SyncFailed, sessionVars

\* The sets that Sync works on are sets of different objects of one worker.
LEMMA SyncSets ==
    ASSUME TypeOK, NEW s \in Syncs, NEW w \in Workers, NEW new \in SUBSET Unused
    PROVE  /\ SyncFinishes(w, s) \subseteq Objs /\ SyncResumes(w, s) \subseteq Objs
           /\ new \subseteq Objs
           /\ SyncFinishes(w, s) \cap SyncResumes(w, s) = {}
           /\ SyncFinishes(w, s) \cap new = {} /\ SyncResumes(w, s) \cap new = {}
           /\ \A o \in SyncFinishes(w, s) \cup SyncResumes(w, s) :
                 session[o].worker = w /\ session[o].id # 0
           /\ \A o \in new : session[o].id = 0
<1>1. 0 \notin SessionIds
  BY ConstantAssumption DEF SessionIds
<1> QED  BY <1>1 DEF SyncFinishes, SyncResumes, Unused

LEMMA SyncSessions ==
    ASSUME TypeOK, WellFormed, NEW s \in Syncs, SyncApply(s),
           NEW new \in SUBSET Unused, NEW of \in [new -> SyncAdds(s)], SyncWrites(s, new, of),
           NEW o \in Objs
    PROVE  LET w == sync[s].worker IN
           /\ o \in SyncFinishes(w, s) => session'[o] =
                 [session[o] EXCEPT !.interacting = FALSE, !.finished = TRUE]
           /\ o \in SyncResumes(w, s) => session'[o] = [session[o] EXCEPT !.finished = FALSE]
           /\ o \in new => session'[o] = NewSession(of[o][1], w, of[o][2])
           /\ o \notin SyncFinishes(w, s) \cup SyncResumes(w, s) \cup new =>
                 session'[o] = session[o]
<1>1. sync[s].worker \in Workers
  BY DEF WellFormed, SyncsFormed, SyncApply
<1> QED  BY <1>1, SyncSets, ZenonT(40) DEF SyncWrites

LEMMA FormedSyncApply ==
    ASSUME TypeOK, WellFormed, NEW s \in Syncs, SyncApply(s)
    PROVE  WellFormed'
<1> DEFINE w == sync[s].worker
           fin == SyncFinishes(w, s)
           resumed == SyncResumes(w, s)
<1>1. w \in Workers /\ status[w] # "unused"
  BY DEF WellFormed, SyncsFormed, SyncApply
<1>2. PICK new \in SUBSET Unused : \E of \in [new -> SyncAdds(s)] : SyncWrites(s, new, of)
  BY DEF SyncApply, SyncWrites
<1>3. PICK of \in [new -> SyncAdds(s)] : SyncWrites(s, new, of)
  BY <1>2
<1>4. \A o \in new : of[o] \in SessionIds \X Indices /\ sessions[of[o][1]] = None
  BY DEF TypeOK, SyncCall, SyncAdds
<1>5. \A o \in new : of[o][1] \in SessionIds /\ of[o][1] # 0 /\ of[o][2] \in Indices
  <2>1. 0 \notin SessionIds
    BY ConstantAssumption DEF SessionIds
  <2> QED  BY <1>4, <2>1
<1>6. ASSUME NEW o \in Objs
      PROVE  /\ o \notin new => /\ session'[o].id = session[o].id
                                /\ session'[o].worker = session[o].worker
                                /\ session'[o].index = session[o].index
                                /\ session[o] = NoSession => session'[o] = NoSession
             /\ o \in new => /\ session'[o].id = of[o][1] /\ session'[o].worker = w
                             /\ session'[o].index = of[o][2] /\ session[o].id = 0
  <2>0. session[o] \in Session /\ (session[o].id # 0 => session[o] # NoSession)
    BY DEF TypeOK, NoSession
  <2> HIDE DEF w, fin, resumed
  <2>1. CASE o \in fin
    <3>1. session'[o] = [session[o] EXCEPT !.interacting = FALSE, !.finished = TRUE]
      BY <1>3, <2>1, SyncSessions DEF fin, w
    <3>2. o \notin new /\ session[o].id # 0
      BY <1>1, <2>1, SyncSets DEF fin
    <3> QED  BY <2>0, <3>1, <3>2 DEF Session
  <2>2. CASE o \in resumed
    <3>1. session'[o] = [session[o] EXCEPT !.finished = FALSE]
      BY <1>3, <2>2, SyncSessions DEF resumed, w
    <3>2. o \notin new /\ session[o].id # 0
      BY <1>1, <2>2, SyncSets DEF resumed
    <3> QED  BY <2>0, <3>1, <3>2 DEF Session
  <2>3. CASE o \in new
    <3>1. session'[o] = NewSession(of[o][1], w, of[o][2])
      <4>1. o \notin fin /\ o \notin resumed
        BY <1>1, <2>3, SyncSets DEF fin, resumed
      <4> QED  BY <1>3, <2>3, <4>1 DEF SyncWrites, fin, resumed, w
    <3> QED  BY <2>3, <3>1 DEF NewSession, Unused
  <2>4. CASE o \notin fin \cup resumed \cup new
    <3>1. session'[o] = session[o]
      BY <1>3, <2>4, SyncSessions DEF fin, resumed, w
    <3> QED  BY <2>4, <3>1
  <2> QED  BY <2>1, <2>2, <2>3, <2>4
<1>7. WorkersKept
  <2>1. status' = [status EXCEPT ![w] = "alive"]
    BY DEF SyncApply
  <2> QED  BY <1>1, <2>1 DEF TypeOK, WorkersKept
<1>8. SessionsFormed'
  <2> SUFFICES ASSUME NEW o \in Objs, session'[o] # NoSession
               PROVE  /\ session'[o].id # 0
                      /\ session'[o].worker \in Workers /\ session'[o].index \in Indices
                      /\ status'[session'[o].worker] # "unused"
    BY DEF SessionsFormed
  <2>1. CASE o \in new
    BY <1>1, <1>5, <1>6, <1>7, <2>1 DEF WorkersKept
  <2>2. CASE o \notin new
    BY <1>6, <1>7, <2>2 DEF WellFormed, SessionsFormed, WorkersKept
  <2> QED  BY <2>1, <2>2
<1>9. WorkersFormed'
  BY <1>7, FrameWorkers DEF WellFormed, SyncApply
<1>10. TableFormed'
  <2> SUFFICES ASSUME NEW id \in SessionIds, sessions'[id] # None
               PROVE  session'[sessions'[id]].id = id
    BY DEF TableFormed
  <2>1. sessions'[id] = IF \E o \in new : of[o][1] = id
                        THEN CHOOSE o \in new : of[o][1] = id ELSE sessions[id]
    BY <1>3 DEF SyncWrites
  <2>2. CASE \E o \in new : of[o][1] = id
    <3>1. sessions'[id] \in new /\ of[sessions'[id]][1] = id
      BY <2>1, <2>2
    <3> QED  BY <1>6, <3>1 DEF Unused
  <2>3. CASE ~\E o \in new : of[o][1] = id
    <3>1. sessions'[id] = sessions[id] /\ sessions[id] \in Objs /\ session[sessions[id]].id = id
      BY <2>1, <2>3 DEF TypeOK, WellFormed, TableFormed
    <3>2. id # 0
      BY ConstantAssumption DEF SessionIds
    <3> QED  BY <1>6, <3>1, <3>2
  <2> QED  BY <2>2, <2>3
<1>11. RequestsFormed'
  <2> SUFFICES ASSUME NEW r \in Requests PROVE RequestFormed(r)'
    BY DEF RequestsFormed
  <2>1. \/ req'[r] = req[r] /\ req[r].obj \notin fin
        \/ req'[r] = [req[r] EXCEPT !.live = FALSE] /\ req[r].obj \in fin
    BY DEF SyncApply
  <2>2. fin \subseteq Objs
    BY DEF SyncFinishes
  <2>3. req[r] \in Request /\ req[r].best \in Workers \cup {None} /\ req[r].todo \subseteq Workers
    BY DEF TypeOK, Request
  <2>4. req'[r].pc = req[r].pc /\ req'[r].obj = req[r].obj
    BY <2>1, <2>3 DEF Request
  <2>5. req[r].pc \in Early => req'[r] = req[r]
    BY <2>1, <2>2, PoolAssumption DEF WellFormed, RequestsFormed, RequestFormed
  <2>6. RequestFormed(r)
    BY DEF WellFormed, RequestsFormed
  <2>7. CASE req[r].pc \in Early
    BY <1>7, <2>3, <2>5, <2>6, <2>7 DEF RequestFormed, WorkersKept
  <2>8. CASE req[r].pc \notin Early
    BY <1>6, <2>4, <2>6, <2>8 DEF RequestFormed
  <2> QED  BY <2>7, <2>8
<1>12. SyncsFormed'
  <2>1. \A x \in Syncs : x # s => sync'[x] = Touch(fin \cup resumed \cup new)[x]
    BY <1>3, TouchType DEF SyncWrites, Touch
  <2>2. sync'[s] = NoSync
    BY <1>3 DEF SyncWrites, Touch
  <2>3. SyncsKept
    BY <2>1, <2>2, TouchKeeps DEF SyncsKept, NoSync
  <2> QED  BY <1>7, <2>3, FrameSyncs DEF WellFormed
<1>13. QueuesFormed'
  <2>1. UNCHANGED <<listed, toSync, removals, finishing, cancels>>
    BY DEF SyncApply, taskVars
  <2>2. \A c \in cancelAlls' : c \in cancelAlls \/ c.worker = w
    <3>1. cancelAlls' \subseteq cancelAlls
                \cup {[worker |-> w, critical |-> TRUE, pc |-> "cancel"]}
      BY DEF SyncApply
    <3> QED  BY <3>1
  <2>3. \A v \in listed' \cup toSync' \cup removals' : status'[v] # "unused"
    BY <1>7, <2>1, QueueTypes DEF WellFormed, QueuesFormed, WorkersKept
  <2>4. \A f \in finishing' : session'[f[1]].id # 0
    BY <1>6, <2>1, QueueTypes DEF WellFormed, QueuesFormed
  <2>5. \A c \in cancels' \cup cancelAlls' : status'[c.worker] # "unused"
    BY <1>1, <1>7, <2>1, <2>2, QueueTypes DEF WellFormed, QueuesFormed, WorkersKept
  <2> QED  BY <2>3, <2>4, <2>5 DEF QueuesFormed
<1> QED  BY <1>8, <1>9, <1>10, <1>11, <1>12, <1>13 DEF WellFormed

LEMMA FormedRemoteCall ==
    ASSUME TypeOK, WellFormed, NEW r \in Requests, RemoteCall(r)
    PROVE  WellFormed'
<1>1. \A q \in Requests : q # r => req'[q] = req[q]
  BY DEF TypeOK, RemoteCall
<1>2. req'[r].pc \notin Early /\ req'[r].obj = req[r].obj
  <2>1. PICK pc \in {"served", "reply"}, res \in Result :
           req' = [req EXCEPT ![r] = [@ EXCEPT !.pc = pc, !.res = res]]
    BY DEF RemoteCall, RemoteStart, Result
  <2> QED  BY <2>1 DEF TypeOK, Request, Early
<1>3. RequestFormed(r)'
  BY <1>2 DEF WellFormed, RequestsFormed, RequestFormed, Early, RemoteCall, sessionVars
<1> QED  BY <1>1, <1>3, FormedRequestOnly DEF RemoteCall, taskVars, sessionVars, goVars

LEMMA FormedRemoteReply ==
    ASSUME TypeOK, WellFormed, NEW r \in Requests, RemoteReply(r)
    PROVE  WellFormed'
<1>1. \A q \in Requests : q # r => req'[q] = req[q]
  BY DEF TypeOK, RemoteReply
<1>2. req'[r].pc \notin Early /\ req'[r].obj = req[r].obj
  <2>1. PICK res \in Result : req' = [req EXCEPT ![r] = [@ EXCEPT !.pc = "reply", !.res = res]]
    BY DEF RemoteReply, Result
  <2> QED  BY <2>1 DEF TypeOK, Request, Early
<1>3. RequestFormed(r)'
  BY <1>2 DEF WellFormed, RequestsFormed, RequestFormed, Early, RemoteReply, sessionVars
<1> QED  BY <1>1, <1>3, FormedRequestOnly DEF RemoteReply, taskVars, sessionVars, goVars

LEMMA FormedCreateOrValidateTask ==
    ASSUME TypeOK, WellFormed, NEW a \in Addr, CreateOrValidateTask(a)
    PROVE  WellFormed'
<1> QED
  BY DEF WellFormed, CreateOrValidateTask, SessionsFormed, WorkersFormed, TableFormed, RequestsFormed, RequestFormed, Early, SyncsFormed, QueuesFormed, sessionVars, goVars, netVars, boundVars

LEMMA FormedMarkWorkerStale ==
    ASSUME TypeOK, WellFormed, NEW w \in Workers, NEW b \in BOOLEAN, MarkWorkerStale(w, b)
    PROVE  WellFormed'
<1>1. WorkersFormed'
  BY DEF TypeOK, WellFormed, WorkersFormed, MarkWorkerStale
<1> QED
  BY <1>1 DEF WellFormed, MarkWorkerStale, SessionsFormed, TableFormed, RequestsFormed, RequestFormed, Early, SyncsFormed, QueuesFormed, taskVars, sessionVars, goVars, netVars, boundVars

LEMMA FormedStreamClosed ==
    ASSUME TypeOK, WellFormed, NEW w \in Workers, StreamClosed(w)
    PROVE  WellFormed'
<1>1. SessionsFormed'
  BY DEF TypeOK, WellFormed, SessionsFormed, StreamClosed, sessionVars
<1>2. WorkersFormed'
  BY DEF TypeOK, WellFormed, WorkersFormed, StreamClosed
<1>3. RequestsFormed'
  BY DEF TypeOK, WellFormed, RequestsFormed, RequestFormed, Early, StreamClosed, sessionVars
<1>4. SyncsFormed'
  BY DEF TypeOK, WellFormed, SyncsFormed, StreamClosed
<1>5. QueuesFormed'
  BY DEF TypeOK, WellFormed, QueuesFormed, StreamClosed, taskVars, sessionVars, goVars
<1> QED
  BY <1>1, <1>2, <1>3, <1>4, <1>5 DEF WellFormed, StreamClosed, TableFormed, taskVars, sessionVars, goVars, netVars

LEMMA FormedWorkerTimeout ==
    ASSUME TypeOK, WellFormed, NEW w \in Workers, WorkerTimeout(w)
    PROVE  WellFormed'
<1>1. SessionsFormed'
  BY DEF TypeOK, WellFormed, SessionsFormed, WorkerTimeout, sessionVars
<1>2. WorkersFormed'
  BY DEF TypeOK, WellFormed, WorkersFormed, WorkerTimeout
<1>3. RequestsFormed'
  BY DEF TypeOK, WellFormed, RequestsFormed, RequestFormed, Early, WorkerTimeout, sessionVars
<1>4. SyncsFormed'
  BY DEF TypeOK, WellFormed, SyncsFormed, WorkerTimeout
<1>5. QueuesFormed'
  BY DEF TypeOK, WellFormed, QueuesFormed, WorkerTimeout, taskVars, sessionVars, goVars
<1> QED
  BY <1>1, <1>2, <1>3, <1>4, <1>5 DEF WellFormed, WorkerTimeout, TableFormed, taskVars, sessionVars, goVars, netVars, boundVars

LEMMA FormedCleanWorkers ==
    ASSUME TypeOK, WellFormed, NEW w \in Workers, CleanWorkers(w)
    PROVE  WellFormed'
<1>1. QueuesFormed'
  BY DEF TypeOK, WellFormed, QueuesFormed, CleanWorkers, taskVars, sessionVars
<1> QED
  BY <1>1 DEF WellFormed, CleanWorkers, SessionsFormed, WorkersFormed, TableFormed, RequestsFormed, RequestFormed, Early, SyncsFormed, taskVars, sessionVars, netVars, boundVars

LEMMA FormedScanWorker ==
    ASSUME TypeOK, WellFormed, NEW r \in Requests, NEW w \in Workers, ScanWorker(r, w)
    PROVE  WellFormed'
<1>1. RequestsFormed'
  BY DEF TypeOK, WellFormed, RequestsFormed, RequestFormed, Early, ScanWorker, sessionVars
<1> QED
  BY <1>1 DEF WellFormed, ScanWorker, SessionsFormed, WorkersFormed, TableFormed, SyncsFormed, QueuesFormed, taskVars, sessionVars, goVars, netVars, boundVars

LEMMA FormedCallFails ==
    ASSUME TypeOK, WellFormed, NEW r \in Requests, CallFails(r)
    PROVE  WellFormed'
<1>1. RequestsFormed'
  BY DEF TypeOK, WellFormed, RequestsFormed, RequestFormed, Early, CallFails, sessionVars
<1> QED
  BY <1>1 DEF WellFormed, CallFails, SessionsFormed, WorkersFormed, TableFormed, SyncsFormed, QueuesFormed, taskVars, sessionVars, goVars, boundVars

LEMMA FormedRemoveSession ==
    ASSUME TypeOK, WellFormed, NEW id \in SessionIds, RemoveSession(id)
    PROVE  WellFormed'
<1>1. SessionsFormed'
  BY DEF TypeOK, WellFormed, SessionsFormed, RemoveSession
<1>2. TableFormed'
  BY DEF TypeOK, WellFormed, TableFormed, RemoveSession
<1>3. RequestsFormed'
  BY DEF TypeOK, WellFormed, RequestsFormed, RequestFormed, Early, RemoveSession
<1>4. QueuesFormed'
  BY DEF TypeOK, WellFormed, QueuesFormed, RemoveSession, taskVars, goVars
<1> QED
  BY <1>1, <1>2, <1>3, <1>4 DEF WellFormed, RemoveSession, WorkersFormed, SyncsFormed, taskVars, goVars, netVars, boundVars

LEMMA FormedCallSyncAll ==
    ASSUME TypeOK, WellFormed, CallSyncAll
    PROVE  WellFormed'
<1>1. QueuesFormed'
  BY DEF TypeOK, WellFormed, QueuesFormed, CallSyncAll, taskVars, sessionVars
<1> QED
  BY <1>1 DEF WellFormed, CallSyncAll, SessionsFormed, WorkersFormed, TableFormed, RequestsFormed, RequestFormed, Early, SyncsFormed, taskVars, sessionVars, netVars, boundVars

LEMMA FormedLateStart ==
    ASSUME TypeOK, WellFormed, NEW m \in late, LateStart(m)
    PROVE  WellFormed'
<1> QED
  BY DEF WellFormed, LateStart, SessionsFormed, WorkersFormed, TableFormed, RequestsFormed, RequestFormed, Early, SyncsFormed, QueuesFormed, taskVars, sessionVars, goVars, boundVars

LEMMA FormedRemoteEnds ==
    ASSUME TypeOK, WellFormed, NEW a \in Addr, NEW m \in remote[a].run, RemoteEnds(a, m)
    PROVE  WellFormed'
<1> QED
  BY DEF WellFormed, RemoteEnds, SessionsFormed, WorkersFormed, TableFormed, RequestsFormed, RequestFormed, Early, SyncsFormed, QueuesFormed, taskVars, sessionVars, goVars, boundVars

LEMMA FormedRemoteCancelled ==
    ASSUME TypeOK, WellFormed, NEW a \in Addr, NEW id \in SessionIds, RemoteCancelled(a, id)
    PROVE  WellFormed'
<1> QED
  BY DEF WellFormed, RemoteCancelled, SessionsFormed, WorkersFormed, TableFormed, RequestsFormed, RequestFormed, Early, SyncsFormed, QueuesFormed, taskVars, sessionVars, goVars, boundVars

LEMMA FormedRemoteRestart ==
    ASSUME TypeOK, WellFormed, NEW a \in Addr, NEW t \in Tasks, NEW offer \in Offers, RemoteRestart(a, t, offer)
    PROVE  WellFormed'
<1> QED
  BY DEF WellFormed, RemoteRestart, SessionsFormed, WorkersFormed, TableFormed, RequestsFormed, RequestFormed, Early, SyncsFormed, QueuesFormed, taskVars, sessionVars, goVars

LEMMA FormedRemoteStop ==
    ASSUME TypeOK, WellFormed, NEW a \in Addr, RemoteStop(a)
    PROVE  WellFormed'
<1> QED
  BY DEF WellFormed, RemoteStop, SessionsFormed, WorkersFormed, TableFormed, RequestsFormed, RequestFormed, Early, SyncsFormed, QueuesFormed, taskVars, sessionVars, goVars

LEMMA FormedInit ==
    Init => WellFormed
<1> SUFFICES ASSUME Init PROVE WellFormed
  OBVIOUS
<1>1. SessionsFormed /\ WorkersFormed /\ TableFormed /\ QueuesFormed
  BY DEF Init, SessionsFormed, WorkersFormed, TableFormed, QueuesFormed
<1>2. RequestsFormed
  BY DEF Init, RequestsFormed, RequestFormed, NoRequest, Early
<1>3. SyncsFormed
  BY DEF Init, SyncsFormed, NoSync
<1> QED  BY <1>1, <1>2, <1>3 DEF WellFormed

LEMMA FormedRestart ==
    Restart => WellFormed'
<1> SUFFICES ASSUME Restart PROVE WellFormed'
  OBVIOUS
<1>1. SessionsFormed' /\ WorkersFormed' /\ TableFormed' /\ QueuesFormed'
  BY DEF Restart, SessionsFormed, WorkersFormed, TableFormed, QueuesFormed
<1>2. RequestsFormed'
  BY NoRequestFormed DEF Restart, RequestsFormed
<1>3. SyncsFormed'
  BY DEF Restart, SyncsFormed, NoSync
<1> QED  BY <1>1, <1>2, <1>3 DEF WellFormed

-----------------------------------------------------------------------------
(* The inductive invariant.                                                *)

\* Everything the controller and its environment write has its type, and no
\* goroutine, queue or table entry refers to an object that was never allocated
\* or has been given up (TypeOK and WellFormed of Controller): every action
\* preserves both together.
LEMMA StructureStep ==
    ASSUME TypeOK, WellFormed, [Next]_vars
    PROVE  TypeOK' /\ WellFormed'
<1>1. CASE ClientStep
  BY <1>1, TypeStartSample, FormedStartSample, TypeGetForInteract, FormedGetForInteract,
     TypeHandleCancel, FormedHandleCancel, TypeHandleCancelAll, FormedHandleCancelAll,
     TypeMarkWorkerStale, FormedMarkWorkerStale
  DEF ClientStep
<1>2. CASE \E r \in Requests : RequestStep(r)
  BY <1>2, TypeScanWorker, FormedScanWorker, TypeScanDone, FormedScanDone,
     TypeTakeSlot, FormedTakeSlot, TypeCreateSession, FormedCreateSession,
     TypeInteractBegin, FormedInteractBegin, TypeCallFails, FormedCallFails,
     TypeInteractReply, FormedInteractReply, TypeInteractDefer, FormedInteractDefer,
     TypeStartFails, FormedStartFails
  DEF RequestStep
<1>3. CASE \E s \in Syncs : SyncStep(s)
  BY <1>3, TypeSyncStart, FormedSyncStart, TypeSyncReply, FormedSyncReply,
     TypeSyncCheck, FormedSyncCheck, TypeSyncFailed, FormedSyncFailed,
     TypeSyncApply, FormedSyncApply
  DEF SyncStep
<1>4. CASE CancelStep
  BY <1>4, TypeRunFinishSession, FormedRunFinishSession, TypeCancelWithNotice, FormedCancelWithNotice,
     TypeCancel, FormedCancel, TypeCancelFinish, FormedCancelFinish,
     TypeCancelAllWithNotice, FormedCancelAllWithNotice, TypeCancelAll, FormedCancelAll,
     TypeCancelAllFinish, FormedCancelAllFinish
  DEF CancelStep
<1>5. CASE WorkerStep
  BY <1>5, TypeCreateOrValidateTask, FormedCreateOrValidateTask, TypeUpdateWorker, FormedUpdateWorker,
     TypeRemoteStop, FormedRemoteStop, TypeRemoteRestart, FormedRemoteRestart,
     TypeRemoteCancelled, FormedRemoteCancelled, TypeHandleCancelNotice, FormedHandleCancelNotice,
     TypeRemoteEnds, FormedRemoteEnds, TypeLateStart, FormedLateStart,
     TypeRemoteCall, FormedRemoteCall, TypeRemoteReply, FormedRemoteReply,
     TypeStreamClosed, FormedStreamClosed
  DEF WorkerStep
<1>6. CASE Background
  BY <1>6, TypeWorkerTimeout, FormedWorkerTimeout, TypeCleanWorkers, FormedCleanWorkers,
     TypeRemoveWorker, FormedRemoveWorker, TypeRemoveSession, FormedRemoveSession,
     TypeExpireSession, FormedExpireSession, TypeCallSyncAll, FormedCallSyncAll
  DEF Background
<1>7. CASE Restart
  BY <1>7, TypeRestart, FormedRestart
<1>8. CASE UNCHANGED vars
  BY <1>8 DEF vars, taskVars, sessionVars, goVars, netVars, boundVars, TypeOK, WellFormed,
     SessionsFormed, WorkersFormed, TableFormed, RequestsFormed, RequestFormed, SyncsFormed,
     QueuesFormed
<1> QED  BY <1>1, <1>2, <1>3, <1>4, <1>5, <1>6, <1>7, <1>8 DEF Next

\* The type invariant and the structural invariant of the controller hold in
\* every reachable state (the types of session.go, task.go and worker.go).
THEOREM TypeCorrect ==
    Spec => [](TypeOK /\ WellFormed)
<1>1. Init => TypeOK /\ WellFormed
  BY TypeInit, FormedInit
<1>2. TypeOK /\ WellFormed /\ [Next]_vars => (TypeOK /\ WellFormed)'
  BY StructureStep
<1> QED  BY <1>1, <1>2, PTL DEF Spec

-----------------------------------------------------------------------------
(* The slots of the workers.                                               *)

\* The sets whose sizes are counted are finite.
LEMMA SlotsFinite ==
    \A w : /\ IsFiniteSet(Holding(w)) /\ IsFiniteSet(Reserving(w))
           /\ Cardinality(Holding(w)) \in Nat /\ Cardinality(Reserving(w)) \in Nat
<1> SUFFICES ASSUME NEW w
             PROVE  /\ IsFiniteSet(Holding(w)) /\ IsFiniteSet(Reserving(w))
                    /\ Cardinality(Holding(w)) \in Nat /\ Cardinality(Reserving(w)) \in Nat
  OBVIOUS
<1>1. Holding(w) \subseteq Objs /\ Reserving(w) \subseteq Requests
  BY DEF Holding, Reserving
<1> QED  BY <1>1, PoolAssumption, FS_Subset, FS_CardinalityType

LEMMA SameSlots ==
    ASSUME CurrentCountsSessions, UNCHANGED current,
           \A w \in Workers : Holding(w)' = Holding(w) /\ Reserving(w)' = Reserving(w)
    PROVE  CurrentCountsSessions'
  BY DEF CurrentCountsSessions

LEMMA SlotsTakeSlot ==
    ASSUME TypeOK, WellFormed, CurrentCountsSessions, NEW r \in Requests, TakeSlot(r)
    PROVE  CurrentCountsSessions'
<1>0. PICK b \in Workers : b = req[r].best /\ req[r].pc = "take" /\ UNCHANGED session
  BY DEF WellFormed, RequestsFormed, RequestFormed, Early, TakeSlot, sessionVars
<1>1. \A w : Holding(w)' = Holding(w)
  BY <1>0 DEF Holding
<1>2. \A q \in Requests : q # r => req'[q] = req[q]
  BY DEF TypeOK, TakeSlot
<1>3. CASE status[b] # "alive" \/ current[b] >= Capacity
  <2>1. req'[r].pc = "scan" /\ UNCHANGED current
    BY <1>0, <1>3 DEF TypeOK, TakeSlot, Scanning
  <2>2. \A w : Reserving(w)' = Reserving(w)
    BY <1>0, <1>2, <2>1 DEF Reserving
  <2> QED  BY <1>1, <2>1, <2>2, SameSlots
<1>4. CASE ~(status[b] # "alive" \/ current[b] >= Capacity)
  <2>1. req'[r].pc = "create" /\ req'[r].best = b
    BY <1>0, <1>4 DEF TypeOK, TakeSlot, Request
  <2>2. current' = [current EXCEPT ![b] = @ + 1]
    BY <1>0, <1>4 DEF TakeSlot
  <2>3. Reserving(b)' = Reserving(b) \cup {r} /\ r \notin Reserving(b)
    BY <1>0, <1>2, <2>1 DEF Reserving
  <2>4. \A w \in Workers : w # b => Reserving(w)' = Reserving(w)
    BY <1>0, <1>2, <2>1 DEF Reserving
  <2>5. Cardinality(Reserving(b)') = Cardinality(Reserving(b)) + 1
    BY <2>3, SlotsFinite, FS_AddElement
  <2> QED
    BY <1>0, <1>1, <2>2, <2>4, <2>5, SlotsFinite DEF TypeOK, CurrentCountsSessions
<1> QED  BY <1>3, <1>4

LEMMA SlotsCreateSession ==
    ASSUME TypeOK, WellFormed, CurrentCountsSessions, NEW r \in Requests, NEW o \in Objs,
           CreateSession(r, o)
    PROVE  CurrentCountsSessions'
<1>0. PICK b \in Workers : b = req[r].best /\ req[r].pc = "create" /\ UNCHANGED current
  BY DEF WellFormed, RequestsFormed, RequestFormed, Early, CreateSession
<1>1. \A q \in Requests : q # r => req'[q] = req[q]
  BY DEF TypeOK, CreateSession
<1>2. req'[r].pc = "begin"
  BY DEF TypeOK, CreateSession, Beginning
<1>3. /\ \A x \in Objs : x # o => session'[x] = session[x]
      /\ session'[o].worker = b /\ ~session'[o].finished
  BY <1>0 DEF TypeOK, CreateSession, NewSession
<1>4. \A w \in Workers : o \notin Holding(w)
  <2>1. session[o] = NoSession
    BY DEF CreateSession, Unused, WellFormed, SessionsFormed
  <2> QED  BY <2>1 DEF Holding, NoSession
<1>5. Reserving(b)' = Reserving(b) \ {r} /\ r \in Reserving(b)
  BY <1>0, <1>1, <1>2 DEF Reserving
<1>6. Holding(b)' = Holding(b) \cup {o}
  BY <1>3 DEF Holding
<1>7. \A w \in Workers : w # b => Reserving(w)' = Reserving(w) /\ Holding(w)' = Holding(w)
  <2>1. \A w \in Workers : w # b => Reserving(w)' = Reserving(w)
    BY <1>0, <1>1, <1>2 DEF Reserving
  <2>2. ASSUME NEW w \in Workers, w # b PROVE Holding(w)' = Holding(w)
    BY <1>3, <1>4, <2>2 DEF Holding
  <2> QED  BY <2>1, <2>2
<1>8. Cardinality(Reserving(b)') = Cardinality(Reserving(b)) - 1
  BY <1>5, SlotsFinite, FS_RemoveElement
<1>9. Cardinality(Holding(b)') = Cardinality(Holding(b)) + 1
  BY <1>4, <1>6, SlotsFinite, FS_AddElement
<1> QED  BY <1>0, <1>7, <1>8, <1>9, SlotsFinite DEF TypeOK, CurrentCountsSessions

\* FinishSession gives back one slot, and only for a session that held one.
LEMMA SlotsFinishSession ==
    ASSUME TypeOK, WellFormed, CurrentCountsSessions, NEW o \in Objs, session[o].id # 0,
           NEW p \in BOOLEAN, NEW n \in BOOLEAN, NEW rq \in [Requests -> Request],
           FinishSession(o, p, n, rq),
           \A w \in Workers : Reserving(w)' = Reserving(w)
    PROVE  CurrentCountsSessions'
<1>0. PICK h \in Workers : h = session[o].worker
  BY SessionWorker DEF WellFormed
<1>1. CASE session[o].finished
  <2>1. UNCHANGED <<session, current>>
    BY <1>1 DEF FinishSession, FinishOpen
  <2> QED  BY <2>1, SameSlots DEF Holding
<1>2. CASE ~session[o].finished
  <2>1. /\ \A x \in Objs : x # o => session'[x] = session[x]
        /\ session'[o] = [session[o] EXCEPT !.interacting = FALSE,
                             !.cancelling = session[o].cancelling \/ n,
                             !.finished = ~n]
    BY <1>2 DEF TypeOK, FinishSession, FinishOpen
  <2>2. session'[o].worker = h /\ session'[o].finished = ~n
    BY <1>0, <2>1 DEF TypeOK, Session
  <2>3. \A w \in Workers : w # h => Holding(w)' = Holding(w)
    BY <1>0, <2>1, <2>2 DEF Holding
  <2>4. CASE n
    <3>1. Holding(h)' = Holding(h)
      BY <1>0, <1>2, <2>1, <2>2, <2>4 DEF Holding
    <3>2. UNCHANGED current
      BY <1>2, <2>4 DEF FinishSession, FinishOpen
    <3> QED  BY <2>3, <3>1, <3>2, SameSlots
  <2>5. CASE ~n
    <3>1. Holding(h)' = Holding(h) \ {o} /\ o \in Holding(h)
      BY <1>0, <1>2, <2>1, <2>2, <2>5 DEF Holding
    <3>2. current' = [current EXCEPT ![h] = @ - 1]
      BY <1>0, <1>2, <2>5 DEF FinishSession, FinishOpen
    <3>3. Cardinality(Holding(h)') = Cardinality(Holding(h)) - 1
      BY <3>1, SlotsFinite, FS_RemoveElement
    <3> QED
      BY <1>0, <2>3, <3>2, <3>3, SlotsFinite DEF TypeOK, CurrentCountsSessions
  <2> QED  BY <2>4, <2>5
<1> QED  BY <1>1, <1>2

\* A step that leaves every session finished or not as it was, and that no
\* handler uses to take or to turn in a reservation.
LEMMA SlotsKept ==
    ASSUME TypeOK, CurrentCountsSessions, UNCHANGED current,
           \A o \in Objs : /\ session'[o].worker = session[o].worker
                           /\ session'[o].finished = session[o].finished,
           \A r \in Requests : \/ req'[r] = req[r]
                               \/ req[r].pc # "create" /\ req'[r].pc # "create"
    PROVE  CurrentCountsSessions'
<1>1. \A w \in Workers : Holding(w)' = Holding(w)
  BY DEF Holding
<1>2. \A w \in Workers : Reserving(w)' = Reserving(w)
  BY DEF Reserving
<1> QED  BY <1>1, <1>2, SameSlots

LEMMA DisjointUnion ==
    ASSUME NEW S, NEW T, IsFiniteSet(S), IsFiniteSet(T), S \cap T = {}
    PROVE  /\ IsFiniteSet(S \cup T)
           /\ Cardinality(S \cup T) = Cardinality(S) + Cardinality(T)
<1>1. /\ IsFiniteSet(S \cup T)
      /\ Cardinality(S \cup T) = Cardinality(S) + Cardinality(T) - Cardinality(S \cap T)
  BY FS_Union
<1>2. Cardinality(S \cap T) = 0
  BY FS_EmptySet
<1>3. Cardinality(S) \in Nat /\ Cardinality(T) \in Nat
  BY FS_CardinalityType
<1> QED  BY <1>1, <1>2, <1>3

\* Sync gives back the slots of the sessions it finishes and takes one for each
\* session it resumes or adds.
LEMMA SlotsSyncApply ==
    ASSUME TypeOK, WellFormed, CurrentCountsSessions, NEW s \in Syncs, SyncApply(s)
    PROVE  CurrentCountsSessions'
<1>1. PICK w \in Workers : w = sync[s].worker
  BY DEF WellFormed, SyncsFormed, SyncApply
<1>2. PICK new \in SUBSET Unused : \E of \in [new -> SyncAdds(s)] : SyncWrites(s, new, of)
  BY DEF SyncApply, SyncWrites
<1>3. PICK of \in [new -> SyncAdds(s)] : SyncWrites(s, new, of)
  BY <1>2
<1> DEFINE fin == SyncFinishes(w, s)
           resumed == SyncResumes(w, s)
<1>4. /\ fin \subseteq Holding(w) /\ resumed \cap Holding(w) = {}
      /\ resumed \subseteq Objs
      /\ \A o \in resumed : session[o].worker = w
  BY DEF SyncFinishes, SyncResumes, Holding
<1>5. new \subseteq Objs /\ new \cap (fin \cup resumed) = {} /\ fin \cap resumed = {}
  BY SyncSets
<1>6. \A v \in Workers : new \cap Holding(v) = {}
  <2>1. \A o \in new : o \in Objs /\ session[o] = NoSession
    BY DEF Unused, WellFormed, SessionsFormed
  <2> QED  BY <2>1 DEF Holding, NoSession
<1>7. current' = [current EXCEPT ![w] =
          @ - Cardinality(fin) + Cardinality(resumed) + Cardinality(new)]
  BY <1>1, <1>3 DEF SyncWrites
<1>8. ASSUME NEW o \in Objs
      PROVE  /\ o \in fin => session'[o].finished
             /\ o \in resumed => ~session'[o].finished
             /\ o \in new => session'[o].worker = w /\ ~session'[o].finished
             /\ o \notin new => session'[o].worker = session[o].worker
             /\ o \notin fin \cup resumed \cup new =>
                   session'[o].finished = session[o].finished
  <2>0. session[o] \in Session
    BY DEF TypeOK
  <2> HIDE DEF fin, resumed
  <2>1. CASE o \in fin
    <3>1. session'[o] = [session[o] EXCEPT !.interacting = FALSE, !.finished = TRUE]
      BY <1>1, <1>3, <2>1, SyncSessions DEF fin
    <3> QED  BY <1>5, <2>0, <2>1, <3>1 DEF Session
  <2>2. CASE o \in resumed
    <3>1. session'[o] = [session[o] EXCEPT !.finished = FALSE]
      BY <1>1, <1>3, <2>2, SyncSessions DEF resumed
    <3> QED  BY <1>5, <2>0, <2>2, <3>1 DEF Session
  <2>3. CASE o \in new
    <3>1. o \notin fin /\ o \notin resumed
      BY <1>5, <2>3
    <3>2. session'[o] = NewSession(of[o][1], w, of[o][2])
      BY <1>1, <1>3, <2>3, <3>1 DEF SyncWrites, fin, resumed
    <3>3. session'[o].worker = w /\ session'[o].finished = FALSE
      BY <3>2 DEF NewSession
    <3> QED  BY <2>3, <3>1, <3>3
  <2>4. CASE o \notin fin \cup resumed \cup new
    <3>1. session'[o] = session[o]
      BY <1>1, <1>3, <2>4, SyncSessions, ZenonT(40) DEF fin, resumed
    <3> QED  BY <2>4, <3>1
  <2> QED  BY <2>1, <2>2, <2>3, <2>4
<1> HIDE DEF fin, resumed
<1>9. Holding(w)' = ((Holding(w) \ fin) \cup resumed) \cup new
  BY <1>4, <1>5, <1>8 DEF Holding
<1>10. \A v \in Workers : v # w => Holding(v)' = Holding(v)
  <2> SUFFICES ASSUME NEW v \in Workers, v # w, NEW o \in Objs
               PROVE  o \in Holding(v)' <=> o \in Holding(v)
    BY DEF Holding
  <2>1. CASE o \in new
    BY <1>6, <1>8, <2>1 DEF Holding
  <2>2. CASE o \in fin \cup resumed
    BY <1>4, <1>5, <1>8, <2>2 DEF Holding
  <2>3. CASE o \notin fin \cup resumed \cup new
    BY <1>8, <2>3 DEF Holding
  <2> QED  BY <2>1, <2>2, <2>3
<1>11. \A v \in Workers : Reserving(v)' = Reserving(v)
  <2>1. \A r \in Requests : req'[r].pc = req[r].pc /\ req'[r].best = req[r].best
    <3>1. \A r \in Requests : req'[r] = req[r] \/ req'[r] = [req[r] EXCEPT !.live = FALSE]
      BY DEF SyncApply
    <3> QED  BY <3>1, ZenonT(40) DEF TypeOK, Request
  <2> QED  BY <2>1 DEF Reserving
<1>12. Cardinality(Holding(w)') =
          Cardinality(Holding(w)) - Cardinality(fin) + Cardinality(resumed) + Cardinality(new)
  <2>1. IsFiniteSet(Holding(w)) /\ IsFiniteSet(fin) /\ IsFiniteSet(resumed) /\ IsFiniteSet(new)
    BY <1>4, <1>5, SlotsFinite, PoolAssumption, FS_Subset
  <2>2. /\ IsFiniteSet(Holding(w) \ fin)
        /\ Cardinality(Holding(w) \ fin) = Cardinality(Holding(w)) - Cardinality(fin)
    <3>1. Holding(w) \cap fin = fin
      BY <1>4
    <3> QED  BY <2>1, <3>1, FS_Difference
  <2>3. /\ IsFiniteSet((Holding(w) \ fin) \cup resumed)
        /\ Cardinality((Holding(w) \ fin) \cup resumed)
             = Cardinality(Holding(w) \ fin) + Cardinality(resumed)
    <3>1. (Holding(w) \ fin) \cap resumed = {}
      BY <1>4
    <3> QED  BY <2>1, <2>2, <3>1, DisjointUnion
  <2>4. Cardinality(((Holding(w) \ fin) \cup resumed) \cup new)
          = Cardinality((Holding(w) \ fin) \cup resumed) + Cardinality(new)
    <3>1. ((Holding(w) \ fin) \cup resumed) \cap new = {}
      BY <1>5, <1>6
    <3> QED  BY <2>1, <2>3, <3>1, DisjointUnion
  <2> QED  BY <1>9, <2>2, <2>3, <2>4
<1>13. Cardinality(fin) \in Nat /\ Cardinality(resumed) \in Nat /\ Cardinality(new) \in Nat
  BY <1>4, <1>5, SlotsFinite, PoolAssumption, FS_Subset, FS_CardinalityType
<1> QED
  BY <1>7, <1>10, <1>11, <1>12, <1>13, SlotsFinite DEF TypeOK, CurrentCountsSessions

LEMMA SlotsRemoveSession ==
    ASSUME TypeOK, CurrentCountsSessions, NEW id \in SessionIds, RemoveSession(id)
    PROVE  CurrentCountsSessions'
<1>1. \A o \in Objs : \/ session'[o] = session[o]
                      \/ session[o].finished /\ session'[o] = NoSession
  <2>1. sessions[id] \in Objs /\ session[sessions[id]].finished
    BY DEF TypeOK, RemoveSession
  <2>2. \/ session' = session
        \/ session' = [session EXCEPT ![sessions[id]] = NoSession]
    BY DEF RemoveSession
  <2>3. CASE session' = session
    BY <2>3
  <2>4. CASE session' = [session EXCEPT ![sessions[id]] = NoSession]
    <3>1. session'[sessions[id]] = NoSession
      BY <2>1, <2>4 DEF TypeOK
    <3>2. \A o \in Objs : o # sessions[id] => session'[o] = session[o]
      BY <2>4 DEF TypeOK
    <3> QED  BY <2>1, <3>1, <3>2
  <2> QED  BY <2>2, <2>3, <2>4
<1>2. NoSession.finished
  BY DEF NoSession
<1>3. \A w \in Workers : Holding(w)' = Holding(w)
  BY <1>1, <1>2 DEF Holding
<1>4. \A w \in Workers : Reserving(w)' = Reserving(w)
  BY DEF Reserving, RemoveSession
<1> QED  BY <1>3, <1>4, SameSlots DEF RemoveSession

LEMMA SlotsInteractReply ==
    ASSUME TypeOK, WellFormed, CurrentCountsSessions, NEW r \in Requests, InteractReply(r)
    PROVE  CurrentCountsSessions'
<1> DEFINE o == req[r].obj
<1>1. o \in Objs /\ session[o].id # 0
  BY DEF WellFormed, RequestsFormed, RequestFormed, Early, InteractReply
<1>2. CASE req[r].res = "done"
  <2> DEFINE rq == [req EXCEPT ![r].pc = "defer"]
  <2>1. rq \in [Requests -> Request]
    BY RequestFields DEF TypeOK, RequestPc
  <2>2. \A q \in Requests : /\ q # r => rq[q] = req[q]
                            /\ rq[r].pc = "defer"
    BY DEF TypeOK, Request
  <2>3. FinishSession(o, FALSE, FALSE, rq)
    BY <1>2 DEF InteractReply
  <2> HIDE DEF rq, o
  <2>4. \A q \in Requests : req'[q].pc = rq[q].pc /\ req'[q].best = rq[q].best
    <3>1. \A q \in Requests : req'[q] = rq[q] \/ req'[q] = [rq[q] EXCEPT !.live = FALSE]
      BY <2>3 DEF FinishSession, FinishOpen
    <3> QED  BY <2>1, <3>1, ZenonT(40) DEF Request
  <2>5. \A w \in Workers : Reserving(w)' = Reserving(w)
    <3>1. req[r].pc = "reply"
      BY DEF InteractReply
    <3>2. \A q \in Requests : \/ req'[q].pc = req[q].pc /\ req'[q].best = req[q].best
                              \/ req[q].pc # "create" /\ req'[q].pc # "create"
      BY <2>2, <2>4, <3>1
    <3> QED  BY <3>2 DEF Reserving
  <2> QED  BY <1>1, <2>1, <2>3, <2>5, SlotsFinishSession
<1>3. CASE req[r].res # "done"
  <2>1. session' = [session EXCEPT ![o] = [@ EXCEPT !.interacting = FALSE]] /\ UNCHANGED current
    BY <1>3 DEF InteractReply
  <2>2. \A q \in Requests : \/ req'[q] = req[q]
                            \/ req[q].pc # "create" /\ req'[q].pc # "create"
    <3>1. \A q \in Requests : q # r => req'[q] = req[q]
      BY <1>3 DEF TypeOK, InteractReply, AfterError
    <3>2. req'[r] = NoRequest \/ req'[r] = [req[r] EXCEPT !.pc = "fail",
                                              !.res = req[r].res, !.live = FALSE]
      BY <1>3 DEF TypeOK, InteractReply, AfterError
    <3>3. NoRequest.pc # "create"
      BY DEF NoRequest
    <3>4. [req[r] EXCEPT !.pc = "fail", !.res = req[r].res, !.live = FALSE].pc # "create"
      BY DEF TypeOK, Request
    <3>5. req[r].pc # "create"
      BY DEF InteractReply
    <3>6. req'[r].pc # "create"
      BY <3>2, <3>3, <3>4
    <3> QED  BY <3>1, <3>5, <3>6
  <2>3. \A x \in Objs : /\ session'[x].worker = session[x].worker
                        /\ session'[x].finished = session[x].finished
    BY <2>1 DEF TypeOK, Session
  <2> QED  BY <2>1, <2>2, <2>3, SlotsKept
<1> QED  BY <1>2, <1>3

LEMMA SlotsStartFails ==
    ASSUME TypeOK, WellFormed, CurrentCountsSessions, NEW r \in Requests, StartFails(r)
    PROVE  CurrentCountsSessions'
<1> DEFINE o == req[r].obj
           rq == [req EXCEPT ![r] = NoRequest]
<1>1. o \in Objs /\ session[o].id # 0
  BY DEF WellFormed, RequestsFormed, RequestFormed, Early, StartFails
<1>2. rq \in [Requests -> Request]
  BY RequestConstructors DEF TypeOK
<1>3. \A q \in Requests : /\ q # r => rq[q] = req[q]
                          /\ rq[r].pc = "idle"
  BY DEF TypeOK, NoRequest
<1>4. FinishSession(o, FALSE, FALSE, rq)
  BY DEF StartFails
<1> HIDE DEF rq, o
<1>5. \A q \in Requests : req'[q].pc = rq[q].pc /\ req'[q].best = rq[q].best
  <2>1. \A q \in Requests : req'[q] = rq[q] \/ req'[q] = [rq[q] EXCEPT !.live = FALSE]
    BY <1>4 DEF FinishSession, FinishOpen
  <2> QED  BY <1>2, <2>1, ZenonT(40) DEF Request
<1>6. \A w \in Workers : Reserving(w)' = Reserving(w)
  <2>1. req[r].pc = "fail"
    BY DEF StartFails
  <2>2. \A q \in Requests : \/ req'[q].pc = req[q].pc /\ req'[q].best = req[q].best
                            \/ req[q].pc # "create" /\ req'[q].pc # "create"
    BY <1>3, <1>5, <2>1
  <2> QED  BY <2>2 DEF Reserving
<1> QED  BY <1>1, <1>2, <1>4, <1>6, SlotsFinishSession

LEMMA SlotsRunFinishSession ==
    ASSUME TypeOK, WellFormed, CurrentCountsSessions, NEW f \in finishing, RunFinishSession(f)
    PROVE  CurrentCountsSessions'
<1>1. f[1] \in Objs /\ f[2] \in BOOLEAN /\ f[3] \in BOOLEAN /\ session[f[1]].id # 0
  BY FinishingTuples DEF TypeOK, WellFormed, QueuesFormed
<1>2. req \in [Requests -> Request] /\ FinishSession(f[1], f[2], f[3], req)
  BY DEF TypeOK, RunFinishSession
<1>3. \A q \in Requests : req'[q].pc = req[q].pc /\ req'[q].best = req[q].best
  <2>1. \A q \in Requests : req'[q] = req[q] \/ req'[q] = [req[q] EXCEPT !.live = FALSE]
    BY <1>2 DEF FinishSession, FinishOpen
  <2> QED  BY <1>2, <2>1 DEF Request
<1>4. \A w \in Workers : Reserving(w)' = Reserving(w)
  BY <1>3 DEF Reserving
<1> QED  BY <1>1, <1>2, <1>4, SlotsFinishSession

LEMMA SlotsInit ==
    ASSUME \A w \in Workers : current[w] = 0,
           \A o \in Objs : session[o] = NoSession,
           \A r \in Requests : req[r] = NoRequest
    PROVE  CurrentCountsSessions
<1>1. \A w \in Workers : Holding(w) = {}
  BY DEF Holding, NoSession
<1>2. \A w \in Workers : Reserving(w) = {}
  BY DEF Reserving, NoRequest
<1>3. \A w \in Workers : Cardinality(Holding(w)) = 0 /\ Cardinality(Reserving(w)) = 0
  BY <1>1, <1>2, FS_EmptySet
<1> QED  BY <1>3 DEF CurrentCountsSessions

\* Steps that write no session, and at most the handler r, which neither is nor
\* becomes one that holds a reservation.
LEMMA SlotsUntouched ==
    ASSUME TypeOK, CurrentCountsSessions, UNCHANGED <<current, session>>,
           NEW r \in Requests, \A q \in Requests : q # r => req'[q] = req[q],
           req[r].pc # "create", req'[r].pc # "create"
    PROVE  CurrentCountsSessions'
  BY SlotsKept

LEMMA SlotsStartSample ==
    ASSUME TypeOK, CurrentCountsSessions, NEW r \in Requests, NEW t \in Tasks,
           NEW i \in Indices, StartSample(r, t, i)
    PROVE  CurrentCountsSessions'
  BY SlotsUntouched DEF TypeOK, StartSample, Scanning, sessionVars

LEMMA SlotsGetForInteract ==
    ASSUME TypeOK, CurrentCountsSessions, NEW r \in Requests, NEW id \in SessionIds,
           GetForInteract(r, id)
    PROVE  CurrentCountsSessions'
  BY SlotsUntouched DEF TypeOK, GetForInteract, Beginning, sessionVars

LEMMA SlotsScanWorker ==
    ASSUME TypeOK, CurrentCountsSessions, NEW r \in Requests, NEW w \in Workers, ScanWorker(r, w)
    PROVE  CurrentCountsSessions'
<1>1. \A q \in Requests : q # r => req'[q] = req[q]
  BY DEF TypeOK, ScanWorker
<1>2. req'[r].pc = req[r].pc /\ req[r].pc # "create"
  BY DEF TypeOK, ScanWorker, Request
<1> QED  BY <1>1, <1>2, SlotsUntouched DEF ScanWorker, sessionVars

LEMMA SlotsScanDone ==
    ASSUME TypeOK, CurrentCountsSessions, NEW r \in Requests, ScanDone(r)
    PROVE  CurrentCountsSessions'
<1>1. \A q \in Requests : q # r => req'[q] = req[q]
  BY DEF TypeOK, ScanDone
<1>2. req'[r].pc # "create" /\ req[r].pc # "create"
  BY DEF TypeOK, ScanDone, Request, NoRequest
<1> QED  BY <1>1, <1>2, SlotsUntouched DEF ScanDone, sessionVars

LEMMA SlotsInteractBegin ==
    ASSUME TypeOK, WellFormed, CurrentCountsSessions, NEW r \in Requests, InteractBegin(r)
    PROVE  CurrentCountsSessions'
<1> DEFINE o == req[r].obj
<1>1. \A q \in Requests : q # r => req'[q] = req[q]
  BY DEF TypeOK, InteractBegin, AfterError
<1>2. \/ req'[r] = NoRequest
      \/ req'[r] = [req[r] EXCEPT !.pc = "fail", !.res = "err", !.live = FALSE]
      \/ req'[r] = [req[r] EXCEPT !.pc = "call", !.live = ~session[o].finished]
  BY DEF TypeOK, InteractBegin, AfterError
<1>3. NoRequest.pc # "create"
  BY DEF NoRequest
<1>4. /\ [req[r] EXCEPT !.pc = "fail", !.res = "err", !.live = FALSE].pc # "create"
      /\ [req[r] EXCEPT !.pc = "call", !.live = ~session[o].finished].pc # "create"
  BY DEF TypeOK, Request
<1>5. req[r].pc # "create" /\ UNCHANGED current
  BY DEF InteractBegin
<1>6. \A x \in Objs : /\ session'[x].worker = session[x].worker
                      /\ session'[x].finished = session[x].finished
  <2>1. UNCHANGED session \/ session' = [session EXCEPT ![o] = [@ EXCEPT !.interacting = TRUE]]
    BY DEF InteractBegin
  <2> QED  BY <2>1 DEF TypeOK, Session
<1> QED  BY <1>1, <1>2, <1>3, <1>4, <1>5, <1>6, SlotsKept

LEMMA SlotsInteractDefer ==
    ASSUME TypeOK, CurrentCountsSessions, NEW r \in Requests, InteractDefer(r)
    PROVE  CurrentCountsSessions'
<1>1. \A q \in Requests : q # r => req'[q] = req[q]
  BY DEF TypeOK, InteractDefer
<1>2. req[r].pc # "create" /\ req'[r].pc # "create" /\ UNCHANGED current
  BY DEF TypeOK, InteractDefer, NoRequest
<1>3. \A x \in Objs : /\ session'[x].worker = session[x].worker
                      /\ session'[x].finished = session[x].finished
  BY DEF TypeOK, InteractDefer, Session
<1> QED  BY <1>1, <1>2, <1>3, SlotsKept

\* The steps of a call: sent, accepted, answered, failed.
LEMMA SlotsCall ==
    ASSUME TypeOK, CurrentCountsSessions, NEW r \in Requests,
           CallFails(r) \/ RemoteCall(r) \/ RemoteReply(r)
    PROVE  CurrentCountsSessions'
<1>1. PICK pc \in {"reply", "served"}, res \in Result :
         req' = [req EXCEPT ![r] = [@ EXCEPT !.pc = pc, !.res = res]]
  BY DEF CallFails, RemoteCall, RemoteReply, RemoteStart, Result
<1>2. \A q \in Requests : q # r => req'[q] = req[q]
  BY <1>1 DEF TypeOK
<1>3. req'[r].pc # "create"
  BY <1>1 DEF TypeOK, Request
<1>4. req[r].pc # "create" /\ UNCHANGED <<current, session>>
  BY DEF CallFails, RemoteCall, RemoteReply, sessionVars
<1> QED  BY <1>2, <1>3, <1>4, SlotsUntouched

\* No other step writes Current, a session or a handler.
LEMMA SlotsOther ==
    ASSUME TypeOK, CurrentCountsSessions, UNCHANGED <<current, session, req>>
    PROVE  CurrentCountsSessions'
  BY SlotsKept

LEMMA SlotsStep ==
    ASSUME TypeOK, WellFormed, CurrentCountsSessions, [Next]_vars
    PROVE  CurrentCountsSessions'
<1>1. CASE ClientStep
  <2>1. CASE \E id \in SessionIds : HandleCancel(id)
    BY <2>1, SlotsOther DEF HandleCancel, sessionVars
  <2>2. CASE \E ts \in {Tasks} \cup {{t} : t \in Tasks} : HandleCancelAll(ts)
    BY <2>2, SlotsOther DEF HandleCancelAll, sessionVars
  <2>3. CASE \E w \in Workers, b \in BOOLEAN : MarkWorkerStale(w, b)
    BY <2>3, SlotsOther DEF MarkWorkerStale, sessionVars
  <2> QED  BY <1>1, <2>1, <2>2, <2>3, SlotsStartSample, SlotsGetForInteract DEF ClientStep
<1>2. CASE \E r \in Requests : RequestStep(r)
  BY <1>2, SlotsScanWorker, SlotsScanDone, SlotsTakeSlot, SlotsCreateSession,
     SlotsInteractBegin, SlotsCall, SlotsInteractReply, SlotsInteractDefer, SlotsStartFails
  DEF RequestStep
<1>3. CASE \E s \in Syncs : SyncStep(s)
  <2>1. ASSUME NEW s \in Syncs,
               (\E w \in Workers : SyncStart(s, w)) \/ SyncReply(s) \/ SyncCheck(s) \/ SyncFailed(s)
        PROVE  CurrentCountsSessions'
    BY <2>1, SlotsOther DEF SyncStart, SyncReply, SyncCheck, SyncFailed, sessionVars
  <2> QED  BY <1>3, <2>1, SlotsSyncApply DEF SyncStep
<1>4. CASE CancelStep
  <2>1. ASSUME NEW c \in cancels, CancelWithNotice(c) \/ Cancel(c) \/ CancelFinish(c)
        PROVE  CurrentCountsSessions'
    BY <2>1, SlotsOther DEF CancelWithNotice, Cancel, CancelFinish, sessionVars
  <2>2. ASSUME NEW c \in cancelAlls,
               CancelAllWithNotice(c) \/ CancelAll(c) \/ CancelAllFinish(c)
        PROVE  CurrentCountsSessions'
    BY <2>2, SlotsOther DEF CancelAllWithNotice, CancelAll, CancelAllFinish, sessionVars
  <2> QED  BY <1>4, <2>1, <2>2, SlotsRunFinishSession DEF CancelStep
<1>5. CASE WorkerStep
  <2>1. CASE \E r \in Requests : RemoteCall(r) \/ RemoteReply(r)
    BY <2>1, SlotsCall
  <2>2. CASE \E a \in Addr : CreateOrValidateTask(a) \/ UpdateWorker(a) \/ RemoteStop(a)
    BY <2>2, SlotsOther DEF CreateOrValidateTask, UpdateWorker, RemoteStop, sessionVars
  <2>3. CASE \/ \E a \in Addr, t \in Tasks, f \in Offers : RemoteRestart(a, t, f)
             \/ \E a \in Addr, id \in SessionIds : RemoteCancelled(a, id)
             \/ \E id \in SessionIds : HandleCancelNotice(id)
    BY <2>3, SlotsOther DEF RemoteRestart, RemoteCancelled, HandleCancelNotice, sessionVars
  <2>4. CASE \/ \E a \in Addr : \E m \in remote[a].run : RemoteEnds(a, m)
             \/ \E m \in late : LateStart(m)
             \/ \E w \in Workers : StreamClosed(w)
    BY <2>4, SlotsOther DEF RemoteEnds, LateStart, StreamClosed, sessionVars
  <2> QED  BY <1>5, <2>1, <2>2, <2>3, <2>4 DEF WorkerStep
<1>6. CASE Background
  <2>1. CASE \E w \in Workers : WorkerTimeout(w) \/ CleanWorkers(w) \/ RemoveWorker(w)
    BY <2>1, SlotsOther DEF WorkerTimeout, CleanWorkers, RemoveWorker, sessionVars
  <2>2. CASE CallSyncAll \/ \E id \in SessionIds : ExpireSession(id)
    BY <2>2, SlotsOther DEF CallSyncAll, ExpireSession, sessionVars
  <2> QED  BY <1>6, <2>1, <2>2, SlotsRemoveSession DEF Background
<1>7. CASE Restart
  <2>1. /\ \A w \in Workers : current'[w] = 0
        /\ \A o \in Objs : session'[o] = NoSession
        /\ \A r \in Requests : req'[r] = NoRequest
    BY <1>7 DEF Restart
  <2>2. \A w \in Workers : Holding(w)' = {}
    BY <2>1 DEF Holding, NoSession
  <2>3. \A w \in Workers : Reserving(w)' = {}
    BY <2>1 DEF Reserving, NoRequest
  <2> QED  BY <2>1, <2>2, <2>3, FS_EmptySet DEF CurrentCountsSessions
<1>8. CASE UNCHANGED vars
  BY <1>8, SlotsOther DEF vars, sessionVars
<1> QED  BY <1>1, <1>2, <1>3, <1>4, <1>5, <1>6, <1>7, <1>8 DEF Next

\* Worker.Current is exactly the number of slots taken, in every reachable
\* state: no interleaving of finishing, cancelling, notices, syncs, dispatches
\* and clean-ups gives a slot back twice or loses one (task.go:270,
\* session.go:253, :330).
THEOREM SlotsCorrect ==
    Spec => []CurrentCountsSessions
<1>1. Init => CurrentCountsSessions
  BY SlotsInit DEF Init
<1>2. TypeOK /\ WellFormed /\ CurrentCountsSessions /\ [Next]_vars => CurrentCountsSessions'
  BY SlotsStep
<1> QED  BY <1>1, <1>2, TypeCorrect, PTL DEF Spec

-----------------------------------------------------------------------------
(* The registry of workers.                                                *)

Registry == RegistryConsistent /\ AddressConflictResolved

\* What a listed worker is.
LEMMA ListedFormed ==
    ASSUME TypeOK, WellFormed, NEW w \in listed
    PROVE  /\ w \in Workers /\ status[w] # "unused"
           /\ worker[w].name \in Tasks /\ worker[w].addr \in Addr
  BY DEF TypeOK, WellFormed, QueuesFormed, WorkersFormed

\* A step that lists and unlists nobody, gives up no task and no removal, and
\* leaves the listed workers alive or in coma.
LEMMA RegistryKept ==
    ASSUME TypeOK, WellFormed, Registry, listed' = listed, removals \subseteq removals',
           \A w \in listed : /\ worker'[w].name = worker[w].name
                             /\ worker'[w].addr = worker[w].addr
                             /\ status'[w] = status[w] \/ status'[w] \in {"alive", "coma"},
           \A t \in Tasks : tasks[t] # None => tasks'[t] # None
    PROVE  Registry'
<1>1. RegistryConsistent'
  BY ListedFormed DEF Registry, RegistryConsistent, AddrOf
<1>2. AddressConflictResolved'
  BY ListedFormed DEF Registry, AddressConflictResolved, AddrOf
<1> QED  BY <1>1, <1>2 DEF Registry

LEMMA RegistrySame ==
    ASSUME TypeOK, WellFormed, Registry, UNCHANGED <<tasks, listed, worker, status, removals>>
    PROVE  Registry'
  BY RegistryKept

\* The status of one worker becomes alive or coma.
LEMMA RegistryStatus ==
    ASSUME TypeOK, WellFormed, Registry, UNCHANGED <<tasks, listed, worker>>,
           removals \subseteq removals',
           NEW w, NEW x \in {"alive", "coma"},
           status' = status \/ status' = [status EXCEPT ![w] = x]
    PROVE  Registry'
<1>1. \A v \in listed : status'[v] = status[v] \/ status'[v] \in {"alive", "coma"}
  BY ListedFormed DEF TypeOK
<1> QED  BY <1>1, RegistryKept

LEMMA RegistryCreateOrValidateTask ==
    ASSUME TypeOK, WellFormed, Registry, NEW a \in Addr, CreateOrValidateTask(a)
    PROVE  Registry'
<1>1. remote[a].task \in Tasks /\ remote[a].offer # None
  BY PoolAssumption DEF TypeOK, Remote
<1>2. \A t \in Tasks : tasks[t] # None => tasks'[t] # None
  BY <1>1 DEF TypeOK, CreateOrValidateTask
<1> QED  BY <1>2, RegistryKept DEF CreateOrValidateTask, goVars

LEMMA RegistryMarkWorkerStale ==
    ASSUME TypeOK, WellFormed, Registry, NEW w \in Workers, NEW b \in BOOLEAN,
           MarkWorkerStale(w, b)
    PROVE  Registry'
<1>1. \A v \in listed : worker'[v].name = worker[v].name /\ worker'[v].addr = worker[v].addr
  BY ListedFormed DEF TypeOK, MarkWorkerStale, Worker
<1> QED  BY <1>1, RegistryKept DEF MarkWorkerStale, taskVars, goVars

\* A worker is registered only if its address is not listed under that task, and
\* then the workers of other tasks at the address are removed (task.go:83-167).
LEMMA RegistryRegisterWorker ==
    ASSUME TypeOK, WellFormed, Registry, NEW a \in Addr, NEW t \in Tasks, NEW w \in Workers,
           tasks[t] # None, UNCHANGED tasks, RegisterWorker(a, t, w)
    PROVE  Registry'
<1>1. /\ status[w] = "unused" /\ listed' = listed \cup {w}
      /\ removals' = removals \cup Elsewhere(a, t)
      /\ ~\E v \in WorkersOf(t) : AddrOf(v) = a
      /\ worker' = [worker EXCEPT ![w] = [name |-> t, addr |-> a, stale |-> FALSE]]
      /\ status' = [status EXCEPT ![w] = "alive"]
  BY DEF RegisterWorker
<1>2. w \notin listed
  BY <1>1, ListedFormed
<1>3. /\ worker'[w].name = t /\ worker'[w].addr = a /\ status'[w] = "alive"
      /\ \A v \in listed : worker'[v] = worker[v] /\ status'[v] = status[v]
  BY <1>1, <1>2, ListedFormed DEF TypeOK
<1>4. \A v \in listed : worker[v].addr = a => worker[v].name # t /\ v \in removals'
  BY <1>1 DEF WorkersOf, AddrOf, Elsewhere
<1>5. RegistryConsistent'
  BY <1>1, <1>3, <1>4 DEF Registry, RegistryConsistent, AddrOf
<1>6. AddressConflictResolved'
  BY <1>1, <1>3, <1>4 DEF Registry, AddressConflictResolved, AddrOf
<1> QED  BY <1>5, <1>6 DEF Registry

LEMMA RegistryUpdateWorker ==
    ASSUME TypeOK, WellFormed, Registry, NEW a \in Addr, UpdateWorker(a)
    PROVE  Registry'
<1>1. CASE tasks[beat[a]] = None
  BY <1>1, RegistrySame DEF UpdateWorker
<1>2. CASE tasks[beat[a]] # None
  <2>1. PICK t \in Tasks : t = beat[a]
    BY DEF TypeOK, UpdateWorker
  <2>2. PICK w \in Workers : RegisterWorker(a, t, w) \/ RefreshWorker(a, t, w)
    BY <1>2, <2>1 DEF UpdateWorker
  <2>3. UNCHANGED tasks
    BY DEF UpdateWorker
  <2>4. CASE RegisterWorker(a, t, w)
    BY <1>2, <2>1, <2>3, <2>4, RegistryRegisterWorker
  <2>5. CASE RefreshWorker(a, t, w)
    <3>1. status' = [status EXCEPT ![w] = "alive"] /\ UNCHANGED <<listed, worker, removals>>
      BY <2>5 DEF RefreshWorker
    <3> QED  BY <2>3, <3>1, RegistryStatus
  <2> QED  BY <2>2, <2>4, <2>5
<1> QED  BY <1>1, <1>2

\* A removal that runs takes a listed worker off the list, and gives up the task
\* only with its last worker (task.go:349-382).
LEMMA RegistryRemoveWorker ==
    ASSUME TypeOK, WellFormed, Registry, NEW w \in Workers, RemoveWorker(w)
    PROVE  Registry'
<1> DEFINE t == worker[w].name
<1>1. removals' = removals \ {w} /\ UNCHANGED worker
  BY DEF RemoveWorker
<1>2. CASE tasks[t] = None \/ status[w] = "dead"
  <2>1. UNCHANGED <<status, listed, tasks>>
    BY <1>2 DEF RemoveWorker
  <2>2. w \notin listed
    BY <1>2 DEF Registry, RegistryConsistent
  <2> QED  BY <1>1, <2>1, <2>2 DEF Registry, RegistryConsistent, AddressConflictResolved, AddrOf
<1>3. CASE ~(tasks[t] = None \/ status[w] = "dead")
  <2>1. /\ status' = [status EXCEPT ![w] = "dead"] /\ listed' = listed \ {w}
        /\ tasks' = IF WorkersOf(t) \ {w} = {} THEN [tasks EXCEPT ![t] = None] ELSE tasks
    BY <1>3 DEF RemoveWorker
  <2>2. \A v \in listed' : status'[v] = status[v] /\ v \in listed
    BY <2>1 DEF TypeOK
  <2>3. \A v \in listed' : tasks'[worker[v].name] # None
    <3> SUFFICES ASSUME NEW v \in listed' PROVE tasks'[worker[v].name] # None
      OBVIOUS
    <3>1. v \in listed /\ v # w /\ tasks[worker[v].name] # None /\ worker[v].name \in Tasks
      BY <2>1, ListedFormed DEF Registry, RegistryConsistent
    <3>2. worker[v].name = t => v \in WorkersOf(t) \ {w}
      BY <3>1 DEF WorkersOf
    <3> HIDE DEF t
    <3> QED  BY <2>1, <3>1, <3>2 DEF TypeOK
  <2>4. RegistryConsistent'
    BY <1>1, <2>2, <2>3 DEF Registry, RegistryConsistent, AddrOf
  <2>5. AddressConflictResolved'
    BY <1>1, <2>1 DEF Registry, AddressConflictResolved, AddrOf
  <2> QED  BY <2>4, <2>5 DEF Registry
<1> QED  BY <1>2, <1>3

LEMMA RegistryStep ==
    ASSUME TypeOK, WellFormed, Registry, [Next]_vars
    PROVE  Registry'
<1>1. CASE ClientStep
  <2>1. ASSUME NEW r \in Requests, NEW t \in Tasks, NEW i \in Indices, StartSample(r, t, i)
        PROVE  Registry'
    BY <2>1, RegistrySame DEF StartSample, taskVars, goVars
  <2>2. CASE \E id \in SessionIds : HandleCancel(id)
    BY <2>2, RegistrySame DEF HandleCancel, taskVars, goVars
  <2>3. CASE \E ts \in {Tasks} \cup {{t} : t \in Tasks} : HandleCancelAll(ts)
    BY <2>3, RegistrySame DEF HandleCancelAll, taskVars, goVars
  <2>4. ASSUME NEW r \in Requests, NEW id \in SessionIds, GetForInteract(r, id)
        PROVE  Registry'
    BY <2>4, RegistrySame DEF GetForInteract, taskVars, goVars
  <2> QED  BY <1>1, <2>1, <2>2, <2>3, <2>4, RegistryMarkWorkerStale DEF ClientStep
<1>2. CASE \E r \in Requests : RequestStep(r)
  <2>1. PICK r \in Requests : RequestStep(r)
    BY <1>2
  <2>2. UNCHANGED <<tasks, listed, worker, status, removals>>
    BY <2>1 DEF RequestStep, ScanWorker, ScanDone, TakeSlot, CreateSession, InteractBegin,
       CallFails, InteractReply, InteractDefer, StartFails, taskVars, goVars
  <2> QED  BY <2>2, RegistrySame
<1>3. CASE \E s \in Syncs : SyncStep(s)
  <2>1. PICK s \in Syncs : SyncStep(s)
    BY <1>3
  <2>2. CASE (\E w \in Workers : SyncStart(s, w)) \/ SyncReply(s) \/ SyncCheck(s)
    BY <2>2, RegistrySame DEF SyncStart, SyncReply, SyncCheck, taskVars, goVars
  <2>3. CASE SyncFailed(s)
    BY <2>3, RegistryStatus DEF SyncFailed, taskVars, goVars
  <2>4. CASE SyncApply(s)
    <3>1. /\ status' = [status EXCEPT ![sync[s].worker] = "alive"]
          /\ UNCHANGED <<tasks, listed, worker, removals>>
      BY <2>4 DEF SyncApply, taskVars
    <3> QED  BY <3>1, RegistryStatus
  <2> QED  BY <2>1, <2>2, <2>3, <2>4 DEF SyncStep
<1>4. CASE CancelStep
  <2>1. ASSUME NEW f \in finishing, RunFinishSession(f) PROVE Registry'
    BY <2>1, RegistrySame DEF RunFinishSession, taskVars
  <2>2. ASSUME NEW c \in cancels, CancelWithNotice(c) \/ CancelFinish(c) PROVE Registry'
    BY <2>2, RegistrySame DEF CancelWithNotice, CancelFinish, taskVars
  <2>3. ASSUME NEW c \in cancels, Cancel(c) PROVE Registry'
    <3>1. /\ status' = status \/ status' = [status EXCEPT ![c.worker] = "coma"]
          /\ UNCHANGED <<tasks, listed, worker, removals>>
      BY <2>3 DEF Cancel, taskVars
    <3> QED  BY <3>1, RegistryStatus
  <2>4. ASSUME NEW c \in cancelAlls, CancelAllWithNotice(c) \/ CancelAllFinish(c) PROVE Registry'
    BY <2>4, RegistrySame DEF CancelAllWithNotice, CancelAllFinish, taskVars
  <2>5. ASSUME NEW c \in cancelAlls, CancelAll(c) PROVE Registry'
    <3>1. /\ status' = status \/ status' = [status EXCEPT ![c.worker] = "coma"]
          /\ removals \subseteq removals' /\ UNCHANGED <<tasks, listed, worker>>
      BY <2>5 DEF CancelAll, taskVars
    <3> QED  BY <3>1, RegistryStatus
  <2> QED  BY <1>4, <2>1, <2>2, <2>3, <2>4, <2>5 DEF CancelStep
<1>5. CASE WorkerStep
  <2>1. CASE \E a \in Addr : CreateOrValidateTask(a) \/ UpdateWorker(a) \/ RemoteStop(a)
    BY <2>1, RegistryCreateOrValidateTask, RegistryUpdateWorker, RegistrySame
    DEF RemoteStop, taskVars, goVars
  <2>2. CASE \/ \E a \in Addr, t \in Tasks, f \in Offers : RemoteRestart(a, t, f)
             \/ \E a \in Addr, id \in SessionIds : RemoteCancelled(a, id)
             \/ \E id \in SessionIds : HandleCancelNotice(id)
    BY <2>2, RegistrySame DEF RemoteRestart, RemoteCancelled, HandleCancelNotice, taskVars, goVars
  <2>3. CASE \/ \E a \in Addr : \E m \in remote[a].run : RemoteEnds(a, m)
             \/ \E m \in late : LateStart(m)
             \/ \E r \in Requests : RemoteCall(r) \/ RemoteReply(r)
    BY <2>3, RegistrySame DEF RemoteEnds, LateStart, RemoteCall, RemoteReply, taskVars, goVars
  <2>4. CASE \E w \in Workers : StreamClosed(w)
    BY <2>4, RegistryStatus DEF StreamClosed, taskVars, goVars
  <2> QED  BY <1>5, <2>1, <2>2, <2>3, <2>4 DEF WorkerStep
<1>6. CASE Background
  <2>1. ASSUME NEW w \in Workers, WorkerTimeout(w) \/ CleanWorkers(w) PROVE Registry'
    <3>1. /\ status' = status \/ status' = [status EXCEPT ![w] = "coma"]
          /\ removals \subseteq removals' /\ UNCHANGED <<tasks, listed, worker>>
      BY <2>1 DEF WorkerTimeout, CleanWorkers, taskVars, goVars
    <3> QED  BY <3>1, RegistryStatus
  <2>2. CASE \E id \in SessionIds : RemoveSession(id) \/ ExpireSession(id)
    BY <2>2, RegistrySame DEF RemoveSession, ExpireSession, taskVars, goVars
  <2>3. CASE CallSyncAll
    BY <2>3, RegistrySame DEF CallSyncAll, taskVars
  <2> QED  BY <1>6, <2>1, <2>2, <2>3, RegistryRemoveWorker DEF Background
<1>7. CASE Restart
  BY <1>7 DEF Restart, Registry, RegistryConsistent, AddressConflictResolved
<1>8. CASE UNCHANGED vars
  BY <1>8, RegistrySame DEF vars, taskVars, goVars
<1> QED  BY <1>1, <1>2, <1>3, <1>4, <1>5, <1>6, <1>7, <1>8 DEF Next

LEMMA RegistryAlways == Spec => []Registry
<1>1. Init => Registry
  BY DEF Init, Registry, RegistryConsistent, AddressConflictResolved
<1>2. TypeOK /\ WellFormed /\ Registry /\ [Next]_vars => Registry'
  BY RegistryStep
<1> QED  BY <1>1, <1>2, TypeCorrect, PTL DEF Spec

\* A listed worker is alive or in coma and its task exists, and an address is
\* listed once per task, whatever the order of heartbeats, timeouts, removals
\* and synchronisations (task.go:83-167, :349-382).
THEOREM RegistryIsConsistent == Spec => []RegistryConsistent
<1>1. Registry => RegistryConsistent
  BY DEF Registry
<1> QED  BY <1>1, RegistryAlways, PTL

\* When a process at an address is replaced by one of another task, the removal
\* of the old worker is under way until it is off the list (task.go:109-124).
THEOREM ConflictsAreResolved == Spec => []AddressConflictResolved
<1>1. Registry => AddressConflictResolved
  BY DEF Registry
<1> QED  BY <1>1, RegistryAlways, PTL

-----------------------------------------------------------------------------
(* The handlers that interact with a session.                              *)

Calls == InteractingHasHandler /\ NoCallAfterFinish
InCall == {"call", "served", "reply", "defer"}

\* A step that marks no session, from which a handler goes away only with the mark
\* cleared, and that finishes or cancels no session under a live context.
CallsKeep(r) ==
    /\ req[r].pc \in InCall => \/ req'[r].pc \in InCall /\ req'[r].obj = req[r].obj
                               \/ ~session'[req[r].obj].interacting
    /\ req'[r].live => /\ req[r].live /\ req'[r].obj = req[r].obj
                       /\ session'[req[r].obj].finished => session[req[r].obj].finished
                       /\ session'[req[r].obj].cancelling => session[req[r].obj].cancelling

LEMMA CallsKept ==
    ASSUME Calls,
           \A o \in Objs : session'[o].interacting => session[o].interacting,
           \A r \in Requests : CallsKeep(r)
    PROVE  Calls'
<1>1. InteractingHasHandler'
  BY DEF Calls, InteractingHasHandler, CallsKeep, InCall
<1>2. NoCallAfterFinish'
  BY DEF Calls, NoCallAfterFinish, CallsKeep
<1> QED  BY <1>1, <1>2 DEF Calls

LEMMA CallsSame ==
    ASSUME Calls, UNCHANGED <<session, req>>
    PROVE  Calls'
<1>1. \A r \in Requests : CallsKeep(r)
  BY DEF CallsKeep
<1> QED  BY <1>1, CallsKept

\* Only the handler r moves, and it is none that interacts.
LEMMA CallsOutside ==
    ASSUME Calls, UNCHANGED session, NEW r \in Requests,
           \A q \in Requests : q # r => req'[q] = req[q],
           req[r].pc \notin InCall, ~req'[r].live
    PROVE  Calls'
<1>1. \A q \in Requests : CallsKeep(q)
  BY DEF CallsKeep
<1> QED  BY <1>1, CallsKept

LEMMA CallsStartSample ==
    ASSUME TypeOK, WellFormed, Calls, NEW r \in Requests, NEW t \in Tasks, NEW i \in Indices,
           StartSample(r, t, i)
    PROVE  Calls'
  BY CallsOutside DEF TypeOK, StartSample, Scanning, InCall, sessionVars

LEMMA CallsGetForInteract ==
    ASSUME TypeOK, WellFormed, Calls, NEW r \in Requests, NEW id \in SessionIds,
           GetForInteract(r, id)
    PROVE  Calls'
  BY CallsOutside DEF TypeOK, GetForInteract, Beginning, InCall, sessionVars

LEMMA CallsScan ==
    ASSUME TypeOK, WellFormed, Calls, NEW r \in Requests,
           (\E w \in Workers : ScanWorker(r, w)) \/ ScanDone(r) \/ TakeSlot(r)
    PROVE  Calls'
<1>1. req[r].pc \in Early /\ req[r].pc \notin InCall /\ ~req[r].live
  BY DEF WellFormed, RequestsFormed, RequestFormed, ScanWorker, ScanDone, TakeSlot, Early, InCall
<1>2. UNCHANGED session /\ \A q \in Requests : q # r => req'[q] = req[q]
  BY DEF TypeOK, ScanWorker, ScanDone, TakeSlot, sessionVars
<1>3. ~req'[r].live
  <2>1. CASE \E w \in Workers : ScanWorker(r, w)
    <3>1. PICK w \in Workers : ScanWorker(r, w)
      BY <2>1
    <3> DEFINE free == Capacity - current[w]
               better == status[w] = "alive" /\ ~worker[w].stale /\ free > req[r].avail
    <3>2. PICK S, b, a : /\ S = req[r].todo \ {w}
                         /\ b = IF better THEN w ELSE req[r].best
                         /\ a = IF better THEN free ELSE req[r].avail
      OBVIOUS
    <3>3. req' = [req EXCEPT ![r] = [@ EXCEPT !.todo = S, !.best = b, !.avail = a]]
      BY <3>1, <3>2 DEF ScanWorker
    <3>4. req'[r].live <=> req[r].live
      BY <3>3 DEF TypeOK, Request
    <3> QED  BY <1>1, <3>4
  <2>2. CASE ScanDone(r)
    BY <1>1, <2>2 DEF TypeOK, ScanDone, Request, NoRequest
  <2>3. CASE TakeSlot(r)
    BY <1>1, <2>3 DEF TypeOK, TakeSlot, Request, Scanning
  <2> QED  BY <2>1, <2>2, <2>3
<1> QED  BY <1>1, <1>2, <1>3, CallsOutside

\* The object of a new session is one that no handler holds.
LEMMA CallsCreateSession ==
    ASSUME TypeOK, WellFormed, Calls, NEW r \in Requests, NEW o \in Objs, CreateSession(r, o)
    PROVE  Calls'
<1>1. \A q \in Requests : q # r => req'[q] = req[q]
  BY DEF TypeOK, CreateSession
<1>2. req[r].pc \notin InCall /\ req'[r].live = FALSE
  BY DEF TypeOK, CreateSession, Beginning, InCall
<1>3. session'[o].interacting = FALSE /\ \A x \in Objs : x # o => session'[x] = session[x]
  BY DEF TypeOK, CreateSession, NewSession
<1>4. \A q \in Requests : req[q].live \/ req[q].pc \in InCall => req[q].obj \in Objs \ {o}
  BY DEF WellFormed, RequestsFormed, RequestFormed, CreateSession, Unused, InCall, Early
<1>5. \A q \in Requests : CallsKeep(q)
  BY <1>1, <1>2, <1>3, <1>4 DEF CallsKeep
<1> QED  BY <1>3, <1>5, CallsKept

\* Interact marks a session that is neither interacting nor being cancelled
\* (session.go:60-91).
LEMMA CallsInteractBegin ==
    ASSUME TypeOK, WellFormed, Calls, NEW r \in Requests, InteractBegin(r)
    PROVE  Calls'
<1> DEFINE o == req[r].obj
<1>1. o \in Objs /\ req[r].pc = "begin"
  BY DEF WellFormed, RequestsFormed, RequestFormed, Early, InteractBegin
<1>2. CASE session[o].interacting \/ session[o].cancelling
  <2>1. UNCHANGED session /\ req' = AfterError(r, "err")
    BY <1>2 DEF InteractBegin
  <2>2. \A q \in Requests : q # r => req'[q] = req[q]
    BY <2>1 DEF TypeOK, AfterError
  <2>3. ~req'[r].live
    BY <2>1 DEF TypeOK, AfterError, Request, NoRequest
  <2> QED  BY <1>1, <2>1, <2>2, <2>3, CallsOutside DEF InCall
<1>3. CASE ~(session[o].interacting \/ session[o].cancelling)
  <2>1. /\ session' = [session EXCEPT ![o] = [@ EXCEPT !.interacting = TRUE]]
        /\ req' = [req EXCEPT ![r] = [@ EXCEPT !.pc = "call", !.live = ~session[o].finished]]
    BY <1>3 DEF InteractBegin
  <2>2. /\ \A x \in Objs : x # o => session'[x] = session[x]
        /\ session'[o].finished = session[o].finished
        /\ session'[o].cancelling = session[o].cancelling
    BY <1>1, <2>1 DEF TypeOK, Session
  <2>3. \A q \in Requests : q # r => req'[q] = req[q]
    BY <2>1 DEF TypeOK
  <2>4. req'[r].pc = "call" /\ req'[r].obj = o
    BY <2>1 DEF TypeOK, Request
  <2>5. req'[r].live <=> ~session[o].finished
    BY <2>1 DEF TypeOK, Request
  <2> HIDE DEF o
  <2>6. InteractingHasHandler'
    <3> SUFFICES ASSUME NEW x \in Objs, session'[x].interacting
                 PROVE  \E q \in Requests : req'[q].obj = x /\ req'[q].pc \in InCall
      BY DEF InteractingHasHandler, InCall
    <3>1. CASE x = o
      BY <2>4, <3>1 DEF InCall
    <3>2. CASE x # o
      <4>1. PICK q \in Requests : req[q].obj = x /\ req[q].pc \in InCall
        BY <2>2, <3>2 DEF Calls, InteractingHasHandler, InCall
      <4>2. q # r
        BY <1>1, <4>1 DEF InCall
      <4> QED  BY <2>3, <4>1, <4>2
    <3> QED  BY <3>1, <3>2
  <2>7. NoCallAfterFinish'
    <3> SUFFICES ASSUME NEW q \in Requests, req'[q].live
                 PROVE  ~session'[req'[q].obj].finished /\ ~session'[req'[q].obj].cancelling
      BY DEF NoCallAfterFinish
    <3>1. CASE q = r
      BY <1>3, <2>2, <2>4, <2>5, <3>1 DEF o
    <3>2. CASE q # r
      <4>1. req'[q] = req[q] /\ req[q].obj \in Objs
        BY <2>3, <3>2 DEF WellFormed, RequestsFormed, RequestFormed
      <4> QED  BY <2>2, <4>1 DEF Calls, NoCallAfterFinish
    <3> QED  BY <3>1, <3>2
  <2> QED  BY <2>6, <2>7 DEF Calls
<1> QED  BY <1>2, <1>3

\* The steps of a call: sent, accepted, answered, failed.
LEMMA CallsCall ==
    ASSUME TypeOK, WellFormed, Calls, NEW r \in Requests,
           CallFails(r) \/ RemoteCall(r) \/ RemoteReply(r)
    PROVE  Calls'
<1>1. PICK pc \in {"reply", "served"}, res \in Result :
         req' = [req EXCEPT ![r] = [@ EXCEPT !.pc = pc, !.res = res]]
  BY DEF CallFails, RemoteCall, RemoteReply, RemoteStart, Result
<1>2. \A q \in Requests : q # r => req'[q] = req[q]
  BY <1>1 DEF TypeOK
<1>3. req'[r].pc = pc /\ req'[r].obj = req[r].obj
  BY <1>1 DEF TypeOK, Request
<1>4. req'[r].live <=> req[r].live
  BY <1>1 DEF TypeOK, Request
<1>5. UNCHANGED session
  BY DEF CallFails, RemoteCall, RemoteReply, sessionVars
<1>6. \A q \in Requests : CallsKeep(q)
  BY <1>2, <1>3, <1>4, <1>5 DEF CallsKeep, InCall
<1> QED  BY <1>5, <1>6, CallsKept

\* FinishSession clears the mark and ends the contexts (session.go:303-330).
LEMMA CallsFinishSession ==
    ASSUME TypeOK, WellFormed, Calls, NEW o \in Objs, session[o].id # 0,
           NEW p \in BOOLEAN, NEW n \in BOOLEAN, NEW rq \in [Requests -> Request],
           FinishSession(o, p, n, rq),
           \A r \in Requests : req[r].pc \in InCall => rq[r].pc \in InCall /\ rq[r].obj = req[r].obj,
           \A r \in Requests : rq[r].live => req[r].live /\ rq[r].obj = req[r].obj
    PROVE  Calls'
<1>1. CASE session[o].finished
  <2>1. UNCHANGED session /\ req' = rq
    BY <1>1 DEF FinishSession, FinishOpen
  <2>2. \A r \in Requests : CallsKeep(r)
    BY <2>1 DEF CallsKeep
  <2> QED  BY <2>1, <2>2, CallsKept
<1>2. CASE ~session[o].finished
  <2>1. /\ \A x \in Objs : x # o => session'[x] = session[x]
        /\ session'[o] = [session[o] EXCEPT !.interacting = FALSE,
                             !.cancelling = session[o].cancelling \/ n,
                             !.finished = ~n]
        /\ req' = [r \in Requests |->
                     IF rq[r].obj = o THEN [rq[r] EXCEPT !.live = FALSE] ELSE rq[r]]
    BY <1>2 DEF TypeOK, FinishSession, FinishOpen
  <2>2. session'[o].interacting = FALSE
    BY <2>1 DEF TypeOK, Session
  <2>3. \A r \in Requests : /\ req'[r].pc = rq[r].pc /\ req'[r].obj = rq[r].obj
    BY <2>1 DEF Request
  <2>4. \A r \in Requests : req'[r].live => rq[r].live /\ rq[r].obj # o
    BY <2>1 DEF Request
  <2>5. \A r \in Requests : rq[r].live => rq[r].obj \in Objs
    BY DEF WellFormed, RequestsFormed, RequestFormed
  <2>6. \A r \in Requests : CallsKeep(r)
    BY <2>1, <2>2, <2>3, <2>4, <2>5 DEF CallsKeep
  <2> QED  BY <2>1, <2>2, <2>6, CallsKept
<1> QED  BY <1>1, <1>2

\* Clearing the mark of a session, by the handler that goes away.
LEMMA CallsClear ==
    ASSUME TypeOK, WellFormed, Calls, NEW r \in Requests, req[r].obj \in Objs,
           session' = [session EXCEPT ![req[r].obj] = [@ EXCEPT !.interacting = FALSE]],
           \A q \in Requests : q # r => req'[q] = req[q], ~req'[r].live
    PROVE  Calls'
<1> DEFINE o == req[r].obj
<1>1. /\ \A x \in Objs : x # o => session'[x] = session[x]
      /\ session'[o].interacting = FALSE
      /\ session'[o].finished = session[o].finished
      /\ session'[o].cancelling = session[o].cancelling
  BY DEF TypeOK, Session
<1>2. \A q \in Requests : req[q].live => req[q].obj \in Objs
  BY DEF WellFormed, RequestsFormed, RequestFormed
<1> HIDE DEF o
<1>3. \A q \in Requests : CallsKeep(q)
  BY <1>1, <1>2 DEF CallsKeep, o
<1> QED  BY <1>1, <1>3, CallsKept

LEMMA CallsInteractReply ==
    ASSUME TypeOK, WellFormed, Calls, NEW r \in Requests, InteractReply(r)
    PROVE  Calls'
<1> DEFINE o == req[r].obj
<1>1. o \in Objs /\ session[o].id # 0
  BY DEF WellFormed, RequestsFormed, RequestFormed, Early, InteractReply
<1>2. CASE req[r].res = "done"
  <2> DEFINE rq == [req EXCEPT ![r].pc = "defer"]
  <2>1. rq \in [Requests -> Request]
    BY RequestFields DEF TypeOK, RequestPc
  <2>2. \A q \in Requests : q # r => rq[q] = req[q]
    BY DEF TypeOK
  <2>3. rq[r].pc = "defer" /\ rq[r].obj = req[r].obj
    BY DEF TypeOK, Request
  <2>4. rq[r].live <=> req[r].live
    BY DEF TypeOK, Request
  <2>5. FinishSession(o, FALSE, FALSE, rq)
    BY <1>2 DEF InteractReply
  <2> HIDE DEF rq, o
  <2>6. /\ \A q \in Requests : req[q].pc \in InCall => rq[q].pc \in InCall /\ rq[q].obj = req[q].obj
        /\ \A q \in Requests : rq[q].live => req[q].live /\ rq[q].obj = req[q].obj
    BY <2>2, <2>3, <2>4 DEF InCall
  <2> QED  BY <1>1, <2>1, <2>5, <2>6, CallsFinishSession
<1>3. CASE req[r].res # "done"
  <2>1. /\ session' = [session EXCEPT ![o] = [@ EXCEPT !.interacting = FALSE]]
        /\ req' = IF req[r].res = "running" THEN [req EXCEPT ![r] = NoRequest]
                  ELSE AfterError(r, req[r].res)
    BY <1>3 DEF InteractReply
  <2>2. \A q \in Requests : q # r => req'[q] = req[q]
    BY <2>1 DEF TypeOK, AfterError
  <2>3. ~req'[r].live
    BY <2>1 DEF TypeOK, AfterError, Request, NoRequest
  <2> QED  BY <1>1, <2>1, <2>2, <2>3, CallsClear
<1> QED  BY <1>2, <1>3

LEMMA CallsInteractDefer ==
    ASSUME TypeOK, WellFormed, Calls, NEW r \in Requests, InteractDefer(r)
    PROVE  Calls'
<1>1. req[r].obj \in Objs
  BY DEF WellFormed, RequestsFormed, RequestFormed, Early, InteractDefer
<1>2. (\A q \in Requests : q # r => req'[q] = req[q]) /\ ~req'[r].live
  BY DEF TypeOK, InteractDefer, NoRequest
<1> QED  BY <1>1, <1>2, CallsClear DEF InteractDefer

LEMMA CallsStartFails ==
    ASSUME TypeOK, WellFormed, Calls, NEW r \in Requests, StartFails(r)
    PROVE  Calls'
<1> DEFINE o == req[r].obj
           rq == [req EXCEPT ![r] = NoRequest]
<1>1. o \in Objs /\ session[o].id # 0
  BY DEF WellFormed, RequestsFormed, RequestFormed, Early, StartFails
<1>2. rq \in [Requests -> Request]
  BY RequestConstructors DEF TypeOK
<1>3. /\ \A q \in Requests : q # r => rq[q] = req[q]
      /\ rq[r].live = FALSE
  BY DEF TypeOK, NoRequest
<1>4. FinishSession(o, FALSE, FALSE, rq) /\ req[r].pc = "fail"
  BY DEF StartFails
<1> HIDE DEF rq, o
<1>5. /\ \A q \in Requests : req[q].pc \in InCall => rq[q].pc \in InCall /\ rq[q].obj = req[q].obj
      /\ \A q \in Requests : rq[q].live => req[q].live /\ rq[q].obj = req[q].obj
  BY <1>3, <1>4 DEF InCall
<1> QED  BY <1>1, <1>2, <1>4, <1>5, CallsFinishSession

LEMMA CallsRunFinishSession ==
    ASSUME TypeOK, WellFormed, Calls, NEW f \in finishing, RunFinishSession(f)
    PROVE  Calls'
<1>1. f[1] \in Objs /\ f[2] \in BOOLEAN /\ f[3] \in BOOLEAN /\ session[f[1]].id # 0
  BY FinishingTuples DEF TypeOK, WellFormed, QueuesFormed
<1>2. req \in [Requests -> Request] /\ FinishSession(f[1], f[2], f[3], req)
  BY DEF TypeOK, RunFinishSession
<1> QED  BY <1>1, <1>2, CallsFinishSession

\* A session object is given up only when no handler holds it.
LEMMA CallsRemoveSession ==
    ASSUME TypeOK, WellFormed, Calls, NEW id \in SessionIds, RemoveSession(id)
    PROVE  Calls'
<1>1. UNCHANGED req /\ sessions[id] \in Objs
  BY DEF TypeOK, RemoveSession
<1>2. CASE session' = session
  BY <1>1, <1>2, CallsSame
<1>3. CASE /\ session' = [session EXCEPT ![sessions[id]] = NoSession]
           /\ \A r \in Requests : req[r].obj # sessions[id]
  <2>1. /\ \A x \in Objs : x # sessions[id] => session'[x] = session[x]
        /\ session'[sessions[id]].interacting = FALSE
    BY <1>1, <1>3 DEF TypeOK, NoSession
  <2>2. \A r \in Requests : req[r].live \/ req[r].pc \in InCall => req[r].obj \in Objs
    BY DEF WellFormed, RequestsFormed, RequestFormed, Early, InCall
  <2>3. \A r \in Requests : CallsKeep(r)
    BY <1>1, <1>3, <2>1, <2>2 DEF CallsKeep
  <2> QED  BY <2>1, <2>3, CallsKept
<1> QED  BY <1>2, <1>3 DEF RemoveSession

\* Sync ends the contexts of the sessions it finishes; one that it resumes had no
\* live context, and a new one has no handler (session.go:191-260).
LEMMA CallsSyncApply ==
    ASSUME TypeOK, WellFormed, Calls, NEW s \in Syncs, SyncApply(s)
    PROVE  Calls'
<1>1. PICK w \in Workers : w = sync[s].worker
  BY DEF WellFormed, SyncsFormed, SyncApply
<1>2. PICK new \in SUBSET Unused : \E of \in [new -> SyncAdds(s)] : SyncWrites(s, new, of)
  BY DEF SyncApply, SyncWrites
<1>3. PICK of \in [new -> SyncAdds(s)] : SyncWrites(s, new, of)
  BY <1>2
<1> DEFINE fin == SyncFinishes(w, s)
           resumed == SyncResumes(w, s)
<1>4. new \subseteq Objs /\ new \cap (fin \cup resumed) = {} /\ fin \cap resumed = {}
  BY SyncSets
<1>5. ASSUME NEW o \in Objs
      PROVE  /\ session'[o].interacting => session[o].interacting
             /\ o \notin fin \cup new => /\ session'[o].finished => session[o].finished
                                         /\ session'[o].cancelling => session[o].cancelling
  <2>0. session[o] \in Session
    BY DEF TypeOK
  <2> HIDE DEF fin, resumed
  <2>1. CASE o \in fin
    <3>1. session'[o] = [session[o] EXCEPT !.interacting = FALSE, !.finished = TRUE]
      BY <1>1, <1>3, <2>1, SyncSessions DEF fin
    <3>2. session'[o].interacting = FALSE
      BY <2>0, <3>1 DEF Session
    <3> QED  BY <2>1, <3>2
  <2>2. CASE o \in resumed
    <3>1. session'[o] = [session[o] EXCEPT !.finished = FALSE]
      BY <1>1, <1>3, <2>2, SyncSessions DEF resumed
    <3>2. /\ session'[o].interacting = session[o].interacting
          /\ session'[o].cancelling = session[o].cancelling
          /\ session'[o].finished = FALSE
      BY <2>0, <3>1 DEF Session
    <3> QED  BY <3>2
  <2>3. CASE o \in new
    <3>1. o \notin fin /\ o \notin resumed
      BY <1>4, <2>3
    <3>2. session'[o] = NewSession(of[o][1], w, of[o][2])
      BY <1>1, <1>3, <2>3, <3>1 DEF SyncWrites, fin, resumed
    <3>3. session'[o].interacting = FALSE
      BY <3>2 DEF NewSession
    <3> QED  BY <2>3, <3>3
  <2>4. CASE o \notin fin \cup resumed \cup new
    <3>1. session'[o] = session[o]
      BY <1>1, <1>3, <2>4, SyncSessions, ZenonT(40) DEF fin, resumed
    <3> QED  BY <3>1
  <2> QED  BY <2>1, <2>2, <2>3, <2>4
<1>6. \A r \in Requests : \/ req'[r] = req[r] /\ req[r].obj \notin fin
                          \/ req'[r] = [req[r] EXCEPT !.live = FALSE]
  BY <1>1 DEF SyncApply
<1> HIDE DEF fin, resumed
<1>7. \A r \in Requests : /\ req'[r].pc = req[r].pc /\ req'[r].obj = req[r].obj
  <2> SUFFICES ASSUME NEW r \in Requests
               PROVE  req'[r].pc = req[r].pc /\ req'[r].obj = req[r].obj
    OBVIOUS
  <2>1. req[r] \in Request
    BY DEF TypeOK
  <2>2. CASE req'[r] = [req[r] EXCEPT !.live = FALSE]
    BY <2>1, <2>2 DEF Request
  <2> QED  BY <1>6, <2>2
<1>8. \A r \in Requests : req'[r].live => req[r].live /\ req[r].obj \notin fin
  BY <1>6 DEF TypeOK, Request
<1>9. \A r \in Requests : req[r].live => req[r].obj \in Objs /\ req[r].obj \notin new
  BY DEF WellFormed, RequestsFormed, RequestFormed, Unused
<1>10. \A r \in Requests : CallsKeep(r)
  BY <1>5, <1>7, <1>8, <1>9 DEF CallsKeep
<1> QED  BY <1>5, <1>10, CallsKept

LEMMA CallsStep ==
    ASSUME TypeOK, WellFormed, Calls, [Next]_vars
    PROVE  Calls'
<1>1. CASE ClientStep
  <2>1. CASE \E id \in SessionIds : HandleCancel(id)
    BY <2>1, CallsSame DEF HandleCancel, sessionVars
  <2>2. CASE \E ts \in {Tasks} \cup {{t} : t \in Tasks} : HandleCancelAll(ts)
    BY <2>2, CallsSame DEF HandleCancelAll, sessionVars
  <2>3. CASE \E w \in Workers, b \in BOOLEAN : MarkWorkerStale(w, b)
    BY <2>3, CallsSame DEF MarkWorkerStale, sessionVars
  <2> QED  BY <1>1, <2>1, <2>2, <2>3, CallsStartSample, CallsGetForInteract DEF ClientStep
<1>2. CASE \E r \in Requests : RequestStep(r)
  BY <1>2, CallsScan, CallsCreateSession, CallsInteractBegin, CallsCall, CallsInteractReply,
     CallsInteractDefer, CallsStartFails
  DEF RequestStep
<1>3. CASE \E s \in Syncs : SyncStep(s)
  <2>1. ASSUME NEW s \in Syncs,
               (\E w \in Workers : SyncStart(s, w)) \/ SyncReply(s) \/ SyncCheck(s) \/ SyncFailed(s)
        PROVE  Calls'
    BY <2>1, CallsSame DEF SyncStart, SyncReply, SyncCheck, SyncFailed, sessionVars
  <2> QED  BY <1>3, <2>1, CallsSyncApply DEF SyncStep
<1>4. CASE CancelStep
  <2>1. ASSUME NEW c \in cancels, CancelWithNotice(c) \/ Cancel(c) \/ CancelFinish(c)
        PROVE  Calls'
    BY <2>1, CallsSame DEF CancelWithNotice, Cancel, CancelFinish, sessionVars
  <2>2. ASSUME NEW c \in cancelAlls,
               CancelAllWithNotice(c) \/ CancelAll(c) \/ CancelAllFinish(c)
        PROVE  Calls'
    BY <2>2, CallsSame DEF CancelAllWithNotice, CancelAll, CancelAllFinish, sessionVars
  <2> QED  BY <1>4, <2>1, <2>2, CallsRunFinishSession DEF CancelStep
<1>5. CASE WorkerStep
  <2>1. CASE \E r \in Requests : RemoteCall(r) \/ RemoteReply(r)
    BY <2>1, CallsCall
  <2>2. CASE \E a \in Addr : CreateOrValidateTask(a) \/ UpdateWorker(a) \/ RemoteStop(a)
    BY <2>2, CallsSame DEF CreateOrValidateTask, UpdateWorker, RemoteStop, sessionVars
  <2>3. CASE \/ \E a \in Addr, t \in Tasks, f \in Offers : RemoteRestart(a, t, f)
             \/ \E a \in Addr, id \in SessionIds : RemoteCancelled(a, id)
             \/ \E id \in SessionIds : HandleCancelNotice(id)
    BY <2>3, CallsSame DEF RemoteRestart, RemoteCancelled, HandleCancelNotice, sessionVars
  <2>4. CASE \/ \E a \in Addr : \E m \in remote[a].run : RemoteEnds(a, m)
             \/ \E m \in late : LateStart(m)
             \/ \E w \in Workers : StreamClosed(w)
    BY <2>4, CallsSame DEF RemoteEnds, LateStart, StreamClosed, sessionVars
  <2> QED  BY <1>5, <2>1, <2>2, <2>3, <2>4 DEF WorkerStep
<1>6. CASE Background
  <2>1. CASE \E w \in Workers : WorkerTimeout(w) \/ CleanWorkers(w) \/ RemoveWorker(w)
    BY <2>1, CallsSame DEF WorkerTimeout, CleanWorkers, RemoveWorker, sessionVars
  <2>2. CASE CallSyncAll \/ \E id \in SessionIds : ExpireSession(id)
    BY <2>2, CallsSame DEF CallSyncAll, ExpireSession, sessionVars
  <2> QED  BY <1>6, <2>1, <2>2, CallsRemoveSession DEF Background
<1>7. CASE Restart
  BY <1>7 DEF Restart, Calls, InteractingHasHandler, NoCallAfterFinish, NoSession, NoRequest
<1>8. CASE UNCHANGED vars
  BY <1>8, CallsSame DEF vars, sessionVars
<1> QED  BY <1>1, <1>2, <1>3, <1>4, <1>5, <1>6, <1>7, <1>8 DEF Next

LEMMA CallsAlways == Spec => []Calls
<1>1. Init => Calls
  BY DEF Init, Calls, InteractingHasHandler, NoCallAfterFinish, NoSession, NoRequest
<1>2. TypeOK /\ WellFormed /\ Calls /\ [Next]_vars => Calls'
  BY CallsStep
<1> QED  BY <1>1, <1>2, TypeCorrect, PTL DEF Spec

\* The mark Interacting of a session is never left behind: whoever set it, or a
\* later handler of the session, is still there to clear it (session.go:60-101).
THEOREM MarksAreCleared == Spec => []InteractingHasHandler
<1>1. Calls => InteractingHasHandler
  BY DEF Calls
<1> QED  BY <1>1, CallsAlways, PTL

\* No handler talks to the worker under a live context once its session is
\* finished or being cancelled, also when Sync finishes or resumes the session
\* meanwhile (session.go:303-330).
THEOREM ContextsAreCancelled == Spec => []NoCallAfterFinish
<1>1. Calls => NoCallAfterFinish
  BY DEF Calls
<1> QED  BY <1>1, CallsAlways, PTL

-----------------------------------------------------------------------------
(* The table of sessions.  Until a restart every number that is known      *)
(* anywhere, by a worker, in a message or in a report, was given by this   *)
(* controller, so the next number is new; and a report has no number twice.*)

Once(reported) == \A m, n \in reported : m[1] = n[1] => m = n
Reports ==
    /\ \A a \in Addr : Once(remote[a].run)
    /\ \A s \in Syncs : Once(sync[s].got)

Given ==
    /\ \A o \in Objs : session[o].id <= nextSessionId
    /\ \A a \in Addr : \A m \in remote[a].run : m[1] <= nextSessionId
    /\ \A m \in late : m[2] <= nextSessionId
    /\ \A s \in Syncs : \A m \in sync[s].got : m[1] <= nextSessionId

Table == Reports /\ (restarts = 0 => Given) /\ NoLostSession

\* A step after which no more sessions are unfinished, and no more are reported.
SessionsStill ==
    /\ UNCHANGED <<restarts, sessions, nextSessionId>>
    /\ \A o \in Objs : session'[o].id = session[o].id
    /\ \A o \in Objs : session[o].finished => session'[o].finished
ReportsStill ==
    /\ \A a \in Addr : remote'[a].run \subseteq remote[a].run
    /\ \A s \in Syncs : sync'[s].got \subseteq sync[s].got
    /\ late' \subseteq late

LEMMA TableKept ==
    ASSUME Table, SessionsStill, ReportsStill
    PROVE  Table'
<1>1. Reports'
  BY DEF Table, Reports, Once, ReportsStill
<1>2. restarts' = 0 => Given'
  BY DEF Table, Given, SessionsStill, ReportsStill
<1>3. NoLostSession'
  BY DEF Table, NoLostSession, SessionsStill
<1> QED  BY <1>1, <1>2, <1>3 DEF Table

\* What steps do to the sessions.
LEMMA StillSame ==
    ASSUME UNCHANGED <<restarts, session, sessions, nextSessionId>>
    PROVE  SessionsStill
  BY DEF SessionsStill

LEMMA StillMark ==
    ASSUME TypeOK, NEW o \in Objs, NEW b \in BOOLEAN,
           session' = [session EXCEPT ![o] = [@ EXCEPT !.interacting = b]],
           UNCHANGED <<restarts, sessions, nextSessionId>>
    PROVE  SessionsStill
<1>1. \A x \in Objs : x # o => session'[x] = session[x]
  BY DEF TypeOK
<1>2. session'[o].id = session[o].id /\ session'[o].finished = session[o].finished
  BY DEF TypeOK, Session
<1> QED  BY <1>1, <1>2 DEF SessionsStill

LEMMA StillFinish ==
    ASSUME TypeOK, NEW o \in Objs, NEW p \in BOOLEAN, NEW n \in BOOLEAN, NEW rq,
           FinishSession(o, p, n, rq), UNCHANGED <<restarts, sessions, nextSessionId>>
    PROVE  SessionsStill
<1>1. CASE session[o].finished
  BY <1>1 DEF FinishSession, FinishOpen, SessionsStill
<1>2. CASE ~session[o].finished
  <2>1. /\ \A x \in Objs : x # o => session'[x] = session[x]
        /\ session'[o] = [session[o] EXCEPT !.interacting = FALSE,
                             !.cancelling = session[o].cancelling \/ n,
                             !.finished = ~n]
    BY <1>2 DEF TypeOK, FinishSession, FinishOpen
  <2>2. session'[o].id = session[o].id
    BY <2>1 DEF TypeOK, Session
  <2> QED  BY <1>2, <2>1, <2>2 DEF SessionsStill
<1> QED  BY <1>1, <1>2

\* What steps do to the reports.
LEMMA StillReports ==
    ASSUME TypeOK, UNCHANGED <<remote, late>>,
           \/ UNCHANGED sync
           \/ \E S : sync' = Touch(S)
           \/ \E s \in Syncs : sync' = [sync EXCEPT ![s] = NoSync]
    PROVE  ReportsStill
<1>1. \A s \in Syncs : sync'[s].got \subseteq sync[s].got
  <2>1. CASE \E S : sync' = Touch(S)
    <3>1. PICK S : sync' = Touch(S)
      BY <2>1
    <3> QED  BY <3>1, TouchKeeps
  <2>2. ASSUME NEW s \in Syncs, sync' = [sync EXCEPT ![s] = NoSync]
        PROVE  \A x \in Syncs : sync'[x].got \subseteq sync[x].got
    BY <2>2 DEF TypeOK, NoSync
  <2> QED  BY <2>1, <2>2
<1> QED  BY <1>1 DEF ReportsStill

LEMMA StillRuns ==
    ASSUME TypeOK, UNCHANGED sync, late' \subseteq late,
           \A a \in Addr : remote'[a].run \subseteq remote[a].run
    PROVE  ReportsStill
  BY DEF ReportsStill

LEMMA RunLess ==
    ASSUME TypeOK, NEW a, NEW S, remote' = [remote EXCEPT ![a].run = S],
           a \in Addr => S \subseteq remote[a].run
    PROVE  \A b \in Addr : remote'[b].run \subseteq remote[b].run
  BY DEF TypeOK, Remote

LEMMA AnnounceRuns ==
    ASSUME TypeOK, NEW a, NEW ids, remote' = Announce(a, ids)
    PROVE  \A b \in Addr : remote'[b].run = remote[b].run
<1>1. PICK S : remote' = [remote EXCEPT ![a].cancelling = S]
  BY DEF Announce
<1> QED  BY <1>1 DEF TypeOK, Remote

\* The steps of the handlers.
LEMMA TableRequest ==
    ASSUME TypeOK, WellFormed, Table, NEW r \in Requests,
           InteractBegin(r) \/ InteractReply(r) \/ InteractDefer(r) \/ StartFails(r)
    PROVE  Table'
<1>1. PICK o \in Objs : o = req[r].obj
  BY DEF WellFormed, RequestsFormed, RequestFormed, Early, InteractBegin, InteractReply,
     InteractDefer, StartFails
<1>2. UNCHANGED <<restarts, sessions, nextSessionId, remote, late>>
  BY DEF InteractBegin, InteractReply, InteractDefer, StartFails, netVars, boundVars
<1>3. \/ UNCHANGED session
      \/ \E b \in BOOLEAN : session' = [session EXCEPT ![o] = [@ EXCEPT !.interacting = b]]
      \/ \E rq : FinishSession(o, FALSE, FALSE, rq)
  BY <1>1 DEF InteractBegin, InteractReply, InteractDefer, StartFails
<1>4. SessionsStill
  BY <1>2, <1>3, StillSame, StillMark, StillFinish
<1>5. UNCHANGED sync \/ \E S : sync' = Touch(S)
  BY DEF InteractBegin, InteractReply, InteractDefer, StartFails, FinishSession, FinishOpen
<1> QED  BY <1>2, <1>4, <1>5, StillReports, TableKept

LEMMA TableRunFinishSession ==
    ASSUME TypeOK, WellFormed, Table, NEW f \in finishing, RunFinishSession(f)
    PROVE  Table'
<1>1. f[1] \in Objs /\ f[2] \in BOOLEAN /\ f[3] \in BOOLEAN
  BY FinishingTuples DEF TypeOK
<1>2. /\ FinishSession(f[1], f[2], f[3], req)
      /\ UNCHANGED <<restarts, sessions, nextSessionId, remote, late>>
  BY DEF RunFinishSession, netVars, boundVars
<1>3. SessionsStill
  BY <1>1, <1>2, StillFinish
<1>4. UNCHANGED sync \/ \E S : sync' = Touch(S)
  BY <1>2 DEF FinishSession, FinishOpen
<1> QED  BY <1>2, <1>3, <1>4, StillReports, TableKept

\* The next number is new (session.go:191): it overwrites no entry of the table
\* that leads to an unfinished session.
LEMMA TableCreateSession ==
    ASSUME TypeOK, WellFormed, Table, NEW r \in Requests, NEW o \in Objs, CreateSession(r, o)
    PROVE  Table'
<1>1. PICK id \in SessionIds : id = nextSessionId + 1
  BY DEF CreateSession
<1>2. /\ nextSessionId' = id /\ sessions' = [sessions EXCEPT ![id] = o]
      /\ session' = [session EXCEPT ![o] = NewSession(id, req[r].best, req[r].index)]
      /\ sync' = Touch({o}) /\ UNCHANGED <<remote, late, restarts>>
  BY <1>1 DEF CreateSession, netVars, boundVars
<1>3. /\ session'[o].id = id /\ sessions'[id] = o
      /\ \A x \in Objs : x # o => session'[x] = session[x]
      /\ \A i \in SessionIds : i # id => sessions'[i] = sessions[i]
  BY <1>2 DEF TypeOK, NewSession
<1>4. \A s \in Syncs : sync'[s].got = sync[s].got
  BY <1>2, TouchKeeps
<1>5. nextSessionId \in Int /\ id \in Int /\ id > nextSessionId
  BY <1>1, ConstantAssumption DEF TypeOK
<1>6. Reports'
  BY <1>2, <1>4 DEF Table, Reports, Once
<1>7. restarts' = 0 => Given'
  <2> SUFFICES ASSUME restarts = 0, Given PROVE Given'
    BY <1>2 DEF Table
  <2>1. \A x \in Objs : session'[x].id <= id
    <3>1. \A x \in Objs : session[x].id \in Int
      BY ConstantAssumption DEF TypeOK, Session
    <3> QED  BY <1>3, <1>5, <3>1 DEF Given
  <2>2. \A i \in SessionIds : i <= nextSessionId => i <= id
    BY <1>5 DEF SessionIds
  <2>3. \A m \in SessionIds \X Indices : m[1] \in SessionIds
    OBVIOUS
  <2>4. \A a \in Addr : \A m \in remote[a].run : m[1] <= id
    <3>1. \A a \in Addr : remote[a].run \subseteq SessionIds \X Indices
      BY DEF TypeOK, Remote
    <3> QED  BY <2>2, <2>3, <3>1 DEF Given
  <2>5. \A m \in late : m[2] <= id
    <3>1. \A m \in late : m[2] \in SessionIds
      BY DEF TypeOK
    <3> QED  BY <2>2, <3>1 DEF Given
  <2>6. \A s \in Syncs : \A m \in sync[s].got : m[1] <= id
    <3>1. \A s \in Syncs : sync[s].got \subseteq SessionIds \X Indices
      BY DEF TypeOK, SyncCall
    <3> QED  BY <2>2, <2>3, <3>1 DEF Given
  <2> QED  BY <1>2, <1>4, <2>1, <2>4, <2>5, <2>6 DEF Given
<1>8. NoLostSession'
  <2> SUFFICES ASSUME restarts = 0, NEW x \in Objs, ~session'[x].finished
               PROVE  sessions'[session'[x].id] = x
    BY <1>2 DEF NoLostSession
  <2>1. CASE x = o
    BY <1>3, <2>1
  <2>2. CASE x # o
    <3>1. session'[x] = session[x] /\ sessions[session[x].id] = x
      BY <1>3, <2>2 DEF Table, NoLostSession
    <3>2. session[x].id \in Int /\ session[x].id <= nextSessionId
      BY ConstantAssumption DEF Table, Given, TypeOK, Session
    <3>3. session[x].id # id
      BY <1>5, <3>2
    <3>4. session[x].id \in SessionIds
      <4>1. session[x] # NoSession
        BY <3>1 DEF NoSession
      <4> QED  BY <4>1, ConstantAssumption DEF WellFormed, SessionsFormed, TypeOK, Session, SessionIds
    <3> QED  BY <1>3, <3>1, <3>3, <3>4
  <2> QED  BY <2>1, <2>2
<1> QED  BY <1>6, <1>7, <1>8 DEF Table

\* CleanSessions drops finished sessions only (session.go:378).
LEMMA TableRemoveSession ==
    ASSUME TypeOK, WellFormed, Table, NEW id \in SessionIds, RemoveSession(id)
    PROVE  Table'
<1>1. PICK o \in Objs : o = sessions[id]
  BY DEF TypeOK, RemoveSession
<1>2. /\ session[o].finished /\ sessions' = [sessions EXCEPT ![id] = None]
      /\ session' = session \/ session' = [session EXCEPT ![o] = NoSession]
      /\ UNCHANGED <<restarts, nextSessionId, remote, late, sync>>
  BY <1>1 DEF RemoveSession, netVars, boundVars
<1>3. \A x \in Objs : \/ session'[x] = session[x]
                      \/ x = o /\ session'[x].id = 0 /\ session'[x].finished
  BY <1>2 DEF TypeOK, NoSession
<1>4. 0 <= nextSessionId
  BY ConstantAssumption DEF TypeOK
<1>5. Reports' /\ (restarts' = 0 => Given')
  BY <1>2, <1>3, <1>4 DEF Table, Reports, Given
<1>6. NoLostSession'
  <2> SUFFICES ASSUME restarts = 0, NEW x \in Objs, ~session'[x].finished
               PROVE  sessions'[session'[x].id] = x
    BY <1>2 DEF NoLostSession
  <2>1. session'[x] = session[x] /\ sessions[session[x].id] = x /\ x # o
    BY <1>2, <1>3 DEF Table, NoLostSession
  <2>2. session[x].id # id
    BY <1>1, <2>1
  <2> QED  BY <1>2, <2>1, <2>2 DEF TypeOK
<1> QED  BY <1>5, <1>6 DEF Table

\* A request that the worker accepts, or that is lost on its way, carries the number
\* of a session; and the worker refuses a number it has.
LEMMA TableAccepted ==
    ASSUME TypeOK, WellFormed, Table, NEW a \in Addr, NEW id \in SessionIds, NEW i \in Indices,
           restarts = 0 => id <= nextSessionId, id \notin Ids(remote[a].run),
           remote' = [remote EXCEPT ![a].run = @ \cup {<<id, i>>}], late' \subseteq late,
           UNCHANGED <<restarts, session, sessions, nextSessionId, sync>>
    PROVE  Table'
<1>1. /\ \A b \in Addr : b # a => remote'[b] = remote[b]
      /\ remote'[a].run = remote[a].run \cup {<<id, i>>}
  BY DEF TypeOK, Remote
<1>2. \A m \in remote[a].run : m[1] # id
  BY DEF Ids
<1>3. Reports'
  <2>1. Once(remote[a].run)
    BY DEF Table, Reports
  <2>2. Once(remote'[a].run)
    BY <1>1, <1>2, <2>1 DEF Once
  <2> QED  BY <1>1, <2>2 DEF Table, Reports
<1>4. restarts' = 0 => Given'
  BY <1>1 DEF Table, Given
<1>5. NoLostSession'
  BY DEF Table, NoLostSession
<1> QED  BY <1>3, <1>4, <1>5 DEF Table

LEMMA TableRemoteCall ==
    ASSUME TypeOK, WellFormed, Table, NEW r \in Requests, RemoteCall(r)
    PROVE  Table'
<1>1. PICK o \in Objs : o = req[r].obj /\ session[o].id # 0
  BY DEF WellFormed, RequestsFormed, RequestFormed, Early, RemoteCall
<1>2. PICK a \in Addr, id \in SessionIds, i \in Indices :
         a = AddrOf(session[o].worker) /\ id = session[o].id /\ i = session[o].index
  <2>1. /\ session[o].worker \in Workers /\ session[o].index \in Indices
        /\ status[session[o].worker] # "unused"
    BY <1>1, SessionWorker DEF WellFormed
  <2>2. AddrOf(session[o].worker) \in Addr
    BY <2>1 DEF WellFormed, WorkersFormed, AddrOf
  <2>3. session[o].id \in SessionIds
    BY <1>1, ConstantAssumption DEF TypeOK, Session, SessionIds
  <2> QED  BY <2>1, <2>2, <2>3
<1>3. UNCHANGED <<restarts, session, sessions, nextSessionId, sync, late>>
  BY DEF RemoteCall, sessionVars, boundVars
<1>4. restarts = 0 => id <= nextSessionId
  BY <1>2 DEF Table, Given
<1>5. \/ UNCHANGED remote
      \/ RemoteStart(a, id) = "none" /\ remote' = [remote EXCEPT ![a].run = @ \cup {<<id, i>>}]
  BY <1>1, <1>2 DEF RemoteCall
<1>6. CASE UNCHANGED remote
  BY <1>3, <1>6, StillSame, StillReports, TableKept
<1>7. CASE /\ RemoteStart(a, id) = "none"
           /\ remote' = [remote EXCEPT ![a].run = @ \cup {<<id, i>>}]
  <2>1. id \notin Ids(remote[a].run)
    BY <1>7 DEF RemoteStart
  <2> QED  BY <1>3, <1>4, <1>7, <2>1, TableAccepted
<1> QED  BY <1>5, <1>6, <1>7

LEMMA TableLateStart ==
    ASSUME TypeOK, WellFormed, Table, NEW m \in late, LateStart(m)
    PROVE  Table'
<1>1. PICK a \in Addr, id \in SessionIds, i \in Indices : a = m[1] /\ id = m[2] /\ i = m[3]
  BY DEF TypeOK
<1>2. UNCHANGED <<restarts, session, sessions, nextSessionId, sync>> /\ late' \subseteq late
  BY DEF LateStart, sessionVars, boundVars
<1>3. restarts = 0 => id <= nextSessionId
  BY <1>1 DEF Table, Given
<1>4. \/ UNCHANGED remote
      \/ RemoteStart(a, id) = "none" /\ remote' = [remote EXCEPT ![a].run = @ \cup {<<id, i>>}]
  BY <1>1 DEF LateStart
<1>5. CASE UNCHANGED remote
  BY <1>2, <1>5, StillSame, StillRuns, TableKept
<1>6. CASE /\ RemoteStart(a, id) = "none"
           /\ remote' = [remote EXCEPT ![a].run = @ \cup {<<id, i>>}]
  <2>1. id \notin Ids(remote[a].run)
    BY <1>6 DEF RemoteStart
  <2> QED  BY <1>2, <1>3, <1>6, <2>1, TableAccepted
<1> QED  BY <1>4, <1>5, <1>6

LEMMA TableCallFails ==
    ASSUME TypeOK, WellFormed, Table, NEW r \in Requests, CallFails(r)
    PROVE  Table'
<1>1. PICK o \in Objs : o = req[r].obj
  BY DEF WellFormed, RequestsFormed, RequestFormed, Early, CallFails
<1>2. UNCHANGED <<restarts, session, sessions, nextSessionId, sync, remote>>
  BY DEF CallFails, sessionVars, boundVars
<1>3. PICK b, i : late' \subseteq late \cup {<<b, session[o].id, i>>}
  BY <1>1 DEF CallFails
<1>4. restarts' = 0 => Given'
  BY <1>2, <1>3 DEF Table, Given
<1>5. Reports' /\ NoLostSession'
  BY <1>2 DEF Table, Reports, NoLostSession
<1> QED  BY <1>4, <1>5 DEF Table

\* The steps of the worker processes and of the calls that reach them: a session_map
\* only loses sessions.
LEMMA TableRemote ==
    ASSUME TypeOK, WellFormed, Table,
           \A a \in Addr : remote'[a].run \subseteq remote[a].run,
           UNCHANGED <<restarts, session, sessions, nextSessionId, sync, late>>
    PROVE  Table'
  BY StillSame, StillRuns, TableKept

LEMMA TableRemoteReply ==
    ASSUME TypeOK, WellFormed, Table, NEW r \in Requests, RemoteReply(r)
    PROVE  Table'
<1>1. PICK a, S : UNCHANGED remote \/ remote' = [remote EXCEPT ![a].run = @ \ S]
  BY DEF RemoteReply
<1>2. \A b \in Addr : remote'[b].run \subseteq remote[b].run
  BY <1>1 DEF TypeOK, Remote
<1> QED  BY <1>2, TableRemote DEF RemoteReply, sessionVars, boundVars

LEMMA TableWorkers ==
    ASSUME TypeOK, WellFormed, Table, NEW a \in Addr,
           \/ RemoteStop(a)
           \/ \E t \in Tasks, f \in Offers : RemoteRestart(a, t, f)
           \/ \E id \in SessionIds : RemoteCancelled(a, id)
           \/ \E m \in remote[a].run : RemoteEnds(a, m)
    PROVE  Table'
<1>1. UNCHANGED <<restarts, session, sessions, nextSessionId, sync, late>>
  BY DEF RemoteStop, RemoteRestart, RemoteCancelled, RemoteEnds, sessionVars, boundVars
<1>2. \A b \in Addr : remote'[b].run \subseteq remote[b].run
  <2>1. CASE RemoteStop(a)
    BY <2>1 DEF TypeOK, Remote, RemoteStop
  <2>2. ASSUME NEW t \in Tasks, NEW f \in Offers, RemoteRestart(a, t, f)
        PROVE  \A b \in Addr : remote'[b].run \subseteq remote[b].run
    BY <2>2 DEF TypeOK, RemoteRestart
  <2>3. ASSUME NEW id \in SessionIds, RemoteCancelled(a, id)
        PROVE  \A b \in Addr : remote'[b].run \subseteq remote[b].run
    BY <2>3 DEF TypeOK, Remote, RemoteCancelled
  <2>4. ASSUME NEW m \in remote[a].run, RemoteEnds(a, m)
        PROVE  \A b \in Addr : remote'[b].run \subseteq remote[b].run
    BY <2>4 DEF TypeOK, Remote, RemoteEnds
  <2> QED  BY <2>1, <2>2, <2>3, <2>4
<1> QED  BY <1>1, <1>2, TableRemote

LEMMA TableCancels ==
    ASSUME TypeOK, WellFormed, Table,
           \/ \E c \in cancels : CancelWithNotice(c) \/ Cancel(c)
           \/ \E c \in cancelAlls : CancelAllWithNotice(c) \/ CancelAll(c)
    PROVE  Table'
<1>1. UNCHANGED <<restarts, session, sessions, nextSessionId, sync, late>>
  BY DEF CancelWithNotice, Cancel, CancelAllWithNotice, CancelAll, sessionVars, boundVars
<1>2. \/ UNCHANGED remote
      \/ \E a, ids : remote' = Announce(a, ids)
      \/ \E a, S : remote' = [remote EXCEPT ![a].run = @ \ S]
      \/ \E a : remote' = [remote EXCEPT ![a].run = {}]
  BY DEF CancelWithNotice, Cancel, CancelAllWithNotice, CancelAll
<1>3. \A b \in Addr : remote'[b].run \subseteq remote[b].run
  <2>1. ASSUME NEW a, NEW ids, remote' = Announce(a, ids)
        PROVE  \A b \in Addr : remote'[b].run \subseteq remote[b].run
    BY <2>1, AnnounceRuns
  <2>2. ASSUME NEW a, NEW S, remote' = [remote EXCEPT ![a].run = @ \ S]
        PROVE  \A b \in Addr : remote'[b].run \subseteq remote[b].run
    BY <2>2 DEF TypeOK, Remote
  <2>3. ASSUME NEW a, remote' = [remote EXCEPT ![a].run = {}]
        PROVE  \A b \in Addr : remote'[b].run \subseteq remote[b].run
    BY <2>3 DEF TypeOK, Remote
  <2> QED  BY <1>2, <2>1, <2>2, <2>3
<1> QED  BY <1>1, <1>3, TableRemote

\* get_sessions reports the session_map of a worker.
LEMMA TableSyncReply ==
    ASSUME TypeOK, WellFormed, Table, NEW s \in Syncs, SyncReply(s)
    PROVE  Table'
<1>1. UNCHANGED <<restarts, session, sessions, nextSessionId, remote, late>>
  BY DEF SyncReply, sessionVars, netVars, boundVars
<1>2. PICK a \in Addr : a = AddrOf(sync[s].worker)
  BY DEF WellFormed, SyncsFormed, WorkersFormed, AddrOf, SyncReply
<1>3. /\ \A x \in Syncs : x # s => sync'[x] = sync[x]
      /\ sync'[s].got = sync[s].got \/ sync'[s].got = remote[a].run
  BY <1>2 DEF TypeOK, SyncCall, SyncReply
<1>4. Reports'
  BY <1>1, <1>3 DEF Table, Reports, Once
<1>5. restarts' = 0 => Given'
  BY <1>1, <1>3 DEF Table, Given
<1>6. NoLostSession'
  BY <1>1 DEF Table, NoLostSession
<1> QED  BY <1>4, <1>5, <1>6 DEF Table

LEMMA TableSyncOnly ==
    ASSUME TypeOK, WellFormed, Table, NEW s \in Syncs,
           (\E w \in Workers : SyncStart(s, w)) \/ SyncCheck(s) \/ SyncFailed(s)
    PROVE  Table'
<1>1. UNCHANGED <<restarts, session, sessions, nextSessionId, remote, late>>
  BY DEF SyncStart, SyncCheck, SyncFailed, sessionVars, netVars, boundVars
<1>2. \A x \in Syncs : sync'[x].got \subseteq sync[x].got
  <2>1. ASSUME NEW w \in Workers, SyncStart(s, w)
        PROVE  \A x \in Syncs : sync'[x].got \subseteq sync[x].got
    <3>1. PICK c : c = [NoSync EXCEPT !.pc = "call", !.worker = w]
      OBVIOUS
    <3>2. c.got = {}
      BY <3>1 DEF NoSync
    <3> QED  BY <2>1, <3>1, <3>2 DEF TypeOK, SyncStart
  <2>2. CASE SyncCheck(s)
    BY <2>2 DEF TypeOK, SyncCall, SyncCheck, NoSync
  <2>3. CASE SyncFailed(s)
    BY <2>3 DEF TypeOK, SyncFailed, NoSync
  <2> QED  BY <2>1, <2>2, <2>3
<1> QED  BY <1>1, <1>2, StillSame, TableKept DEF ReportsStill

\* Sync resumes a session only through its entry in the table, and adds one only
\* where the table has no entry (session.go:191-260).
LEMMA TableSyncApply ==
    ASSUME TypeOK, WellFormed, Table, NEW s \in Syncs, SyncApply(s)
    PROVE  Table'
<1>1. PICK w \in Workers : w = sync[s].worker
  BY DEF WellFormed, SyncsFormed, SyncApply
<1>2. PICK new \in SUBSET Unused : \E of \in [new -> SyncAdds(s)] : SyncWrites(s, new, of)
  BY DEF SyncApply, SyncWrites
<1>3. PICK of \in [new -> SyncAdds(s)] : SyncWrites(s, new, of)
  BY <1>2
<1> DEFINE fin == SyncFinishes(w, s)
           resumed == SyncResumes(w, s)
<1>4. new \subseteq Objs /\ new \cap (fin \cup resumed) = {} /\ fin \cap resumed = {}
  BY SyncSets
<1>5. UNCHANGED <<restarts, nextSessionId, remote, late>>
  BY DEF SyncApply, netVars, boundVars
<1>6. ASSUME NEW o \in new
      PROVE  /\ of[o] \in sync[s].got /\ of[o][1] \in SessionIds
             /\ sessions[of[o][1]] = None
  <2>1. of[o] \in SyncAdds(s)
    OBVIOUS
  <2>2. sync[s].got \subseteq SessionIds \X Indices
    BY DEF TypeOK, SyncCall
  <2> QED  BY <2>1, <2>2 DEF SyncAdds
<1>7. \A x, y \in new : of[x][1] = of[y][1] => x = y
  <2>1. Once(sync[s].got)
    BY DEF Table, Reports
  <2>2. \A x, y \in new : of[x] = of[y] => x = y
    BY <1>3 DEF SyncWrites
  <2> QED  BY <1>6, <2>1, <2>2 DEF Once
<1>8. ASSUME NEW o \in Objs
      PROVE  /\ o \in new => session'[o].id = of[o][1]
             /\ o \notin new => session'[o].id = session[o].id
             /\ o \notin new /\ ~session'[o].finished => ~session[o].finished \/ o \in resumed
  <2>0. session[o] \in Session
    BY DEF TypeOK
  <2> HIDE DEF fin, resumed
  <2>1. CASE o \in fin
    <3>1. session'[o] = [session[o] EXCEPT !.interacting = FALSE, !.finished = TRUE]
      BY <1>1, <1>3, <2>1, SyncSessions DEF fin
    <3>2. session'[o].id = session[o].id /\ session'[o].finished = TRUE
      BY <2>0, <3>1 DEF Session
    <3> QED  BY <1>4, <2>1, <3>2
  <2>2. CASE o \in resumed
    <3>1. session'[o] = [session[o] EXCEPT !.finished = FALSE]
      BY <1>1, <1>3, <2>2, SyncSessions DEF resumed
    <3>2. session'[o].id = session[o].id
      BY <2>0, <3>1 DEF Session
    <3> QED  BY <1>4, <2>2, <3>2
  <2>3. CASE o \in new
    <3>1. o \notin fin /\ o \notin resumed
      BY <1>4, <2>3
    <3>2. session'[o] = NewSession(of[o][1], w, of[o][2])
      BY <1>1, <1>3, <2>3, <3>1 DEF SyncWrites, fin, resumed
    <3> QED  BY <2>3, <3>2 DEF NewSession
  <2>4. CASE o \notin fin \cup resumed \cup new
    <3>1. session'[o] = session[o]
      BY <1>1, <1>3, <2>4, SyncSessions, ZenonT(40) DEF fin, resumed
    <3> QED  BY <2>4, <3>1
  <2> QED  BY <2>1, <2>2, <2>3, <2>4
<1>9. \A o \in resumed : session[o].id \in SessionIds /\ sessions[session[o].id] = o
  BY DEF SyncResumes
<1> HIDE DEF fin, resumed
<1>10. \A x \in Syncs : sync'[x].got \subseteq sync[x].got
  <2>1. PICK S : sync' = [Touch(S) EXCEPT ![s] = NoSync]
    BY <1>3 DEF SyncWrites
  <2>2. \A x \in Syncs : x # s => sync'[x] = Touch(S)[x]
    BY <2>1 DEF Touch
  <2>3. sync'[s] = NoSync
    BY <2>1 DEF Touch
  <2>4. NoSync.got = {}
    BY DEF NoSync
  <2> QED  BY <2>2, <2>3, <2>4, TouchKeeps
<1>11. Reports'
  BY <1>5, <1>10 DEF Table, Reports, Once
<1>12. restarts' = 0 => Given'
  <2> SUFFICES ASSUME restarts = 0, Given PROVE Given'
    BY <1>5 DEF Table
  <2>1. \A o \in Objs : session'[o].id <= nextSessionId
    BY <1>6, <1>8 DEF Given
  <2> QED  BY <1>5, <1>10, <2>1 DEF Given
<1>13. \A o \in new : sessions'[of[o][1]] = o
  <2> SUFFICES ASSUME NEW o \in new PROVE sessions'[of[o][1]] = o
    OBVIOUS
  <2>1. PICK id \in SessionIds : id = of[o][1]
    BY <1>6
  <2>2. sessions'[id] = CHOOSE x \in new : of[x][1] = id
    BY <1>3, <2>1 DEF SyncWrites
  <2>3. sessions'[id] \in new /\ of[sessions'[id]][1] = id
    BY <2>1, <2>2
  <2> QED  BY <1>7, <2>1, <2>3
<1>14. \A id \in SessionIds : sessions[id] # None => sessions'[id] = sessions[id]
  BY <1>3, <1>6 DEF SyncWrites
<1>15. NoLostSession'
  <2> SUFFICES ASSUME restarts = 0, NEW o \in Objs, ~session'[o].finished
               PROVE  sessions'[session'[o].id] = o
    BY <1>5 DEF NoLostSession
  <2>1. CASE o \in new
    BY <1>8, <1>13, <2>1
  <2>2. CASE o \notin new
    <3>1. session[o].id \in SessionIds /\ sessions[session[o].id] = o
      <4>1. CASE o \in resumed
        BY <1>9, <4>1
      <4>2. CASE ~session[o].finished
        <5>1. session[o] # NoSession
          BY <4>2 DEF NoSession
        <5>2. session[o].id \in SessionIds
          BY <5>1, ConstantAssumption DEF WellFormed, SessionsFormed, TypeOK, Session, SessionIds
        <5> QED  BY <4>2, <5>2 DEF Table, NoLostSession
      <4> QED  BY <1>8, <2>2, <4>1, <4>2
    <3>2. o # None
      BY PoolAssumption
    <3> QED  BY <1>8, <1>14, <2>2, <3>1, <3>2
  <2> QED  BY <2>1, <2>2
<1> QED  BY <1>11, <1>12, <1>15 DEF Table

\* After a restart the table is empty, and nothing is claimed for it any more.
LEMMA TableRestart ==
    ASSUME TypeOK, WellFormed, Table, Restart
    PROVE  Table'
<1>1. restarts' # 0
  BY DEF TypeOK, Restart
<1>2. Reports'
  BY DEF Table, Reports, Once, Restart, netVars, NoSync
<1> QED  BY <1>1, <1>2 DEF Table, NoLostSession

\* No other step writes any of this.
LEMMA TableSame ==
    ASSUME TypeOK, Table, UNCHANGED <<restarts, session, sessions, nextSessionId, sync, remote, late>>
    PROVE  Table'
  BY StillSame, StillReports, TableKept

LEMMA TableStep ==
    ASSUME TypeOK, WellFormed, Table, [Next]_vars
    PROVE  Table'
<1>1. CASE ClientStep
  <2>1. UNCHANGED <<restarts, session, sessions, nextSessionId, sync, remote, late>>
    BY <1>1 DEF ClientStep, StartSample, GetForInteract, HandleCancel, HandleCancelAll,
       MarkWorkerStale, sessionVars, netVars, boundVars
  <2> QED  BY <2>1, TableSame
<1>2. CASE \E r \in Requests : RequestStep(r)
  <2>1. ASSUME NEW r \in Requests,
               (\E w \in Workers : ScanWorker(r, w)) \/ ScanDone(r) \/ TakeSlot(r)
        PROVE  Table'
    BY <2>1, TableSame DEF ScanWorker, ScanDone, TakeSlot, sessionVars, netVars, boundVars
  <2> QED  BY <1>2, <2>1, TableCreateSession, TableRequest, TableCallFails DEF RequestStep
<1>3. CASE \E s \in Syncs : SyncStep(s)
  BY <1>3, TableSyncOnly, TableSyncReply, TableSyncApply DEF SyncStep
<1>4. CASE CancelStep
  <2>1. ASSUME (\E c \in cancels : CancelFinish(c)) \/ (\E c \in cancelAlls : CancelAllFinish(c))
        PROVE  Table'
    BY <2>1, TableSame DEF CancelFinish, CancelAllFinish, sessionVars, netVars, boundVars
  <2> QED  BY <1>4, <2>1, TableRunFinishSession, TableCancels DEF CancelStep
<1>5. CASE WorkerStep
  <2>1. CASE \E a \in Addr : CreateOrValidateTask(a) \/ UpdateWorker(a)
    BY <2>1, TableSame DEF CreateOrValidateTask, UpdateWorker, sessionVars, netVars, boundVars
  <2>2. CASE \/ \E id \in SessionIds : HandleCancelNotice(id)
             \/ \E w \in Workers : StreamClosed(w)
    BY <2>2, TableSame DEF HandleCancelNotice, StreamClosed, sessionVars, netVars, boundVars
  <2> QED
    BY <1>5, <2>1, <2>2, TableWorkers, TableLateStart, TableRemoteCall, TableRemoteReply
    DEF WorkerStep
<1>6. CASE Background
  <2>1. CASE \E w \in Workers : WorkerTimeout(w) \/ CleanWorkers(w) \/ RemoveWorker(w)
    BY <2>1, TableSame DEF WorkerTimeout, CleanWorkers, RemoveWorker, sessionVars, netVars, boundVars
  <2>2. CASE CallSyncAll \/ \E id \in SessionIds : ExpireSession(id)
    BY <2>2, TableSame DEF CallSyncAll, ExpireSession, sessionVars, netVars, boundVars
  <2> QED  BY <1>6, <2>1, <2>2, TableRemoveSession DEF Background
<1>7. CASE Restart
  BY <1>7, TableRestart
<1>8. CASE UNCHANGED vars
  BY <1>8, TableSame DEF vars, sessionVars, netVars, boundVars
<1> QED  BY <1>1, <1>2, <1>3, <1>4, <1>5, <1>6, <1>7, <1>8 DEF Next

LEMMA TableInit == Init => Table
<1> SUFFICES ASSUME Init PROVE Table
  OBVIOUS
<1>1. \A a \in Addr : remote[a].run = {}
  BY DEF Init
<1>2. /\ \A o \in Objs : session[o].id = 0 /\ session[o].finished
      /\ \A s \in Syncs : sync[s].got = {}
      /\ late = {} /\ nextSessionId = 0
  BY DEF Init, NoSession, NoSync
<1>3. Reports
  BY <1>1, <1>2 DEF Reports, Once
<1>4. Given
  BY <1>1, <1>2 DEF Given
<1>5. NoLostSession
  BY <1>2 DEF NoLostSession
<1> QED  BY <1>3, <1>4, <1>5 DEF Table

\* Until the controller is restarted every unfinished session is in the table
\* under its number, where cancelling, expiry and Sync find it: neither a new
\* session nor one that Sync adds takes the place of another
\* (session.go:191, :249, :378).
THEOREM SessionsAreFound == Spec => []NoLostSession
<1>1. TypeOK /\ WellFormed /\ Table /\ [Next]_vars => Table'
  BY TableStep
<1>2. Table => NoLostSession
  BY DEF Table
<1> QED  BY <1>1, <1>2, TableInit, TypeCorrect, PTL DEF Spec
=============================================================================
