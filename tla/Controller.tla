----------------------------- MODULE Controller -----------------------------
(***************************************************************************)
(* The task controller (controller/internal/controller): it registers task *)
(* workers from their heartbeats, dispatches samples to the worker with    *)
(* the most free slots, relays the interactions of a session to its        *)
(* worker, and reconciles its own table of sessions with what the workers  *)
(* report.  Every handler runs in a goroutine of its own; a critical       *)
(* section under the locks of the code is one action here, and everything  *)
(* between two critical sections can be interleaved.                       *)
(*                                                                         *)
(* Worker and Session objects have identities of their own: a worker that  *)
(* is removed and registers again is a new object, and the table Sessions  *)
(* may stop pointing at a Session that goroutines still hold.              *)
(***************************************************************************)
EXTENDS Integers, FiniteSets

CONSTANTS
    Tasks,              \* task names
    Addr,               \* addresses of worker processes
    Indices,            \* sample indices
    Offers,             \* the index lists a worker process may announce
    Workers,            \* Worker objects (bound: registrations)
    Objs,               \* Session objects (bound: sessions created or resumed)
    MaxSessionId,       \* bound on nextSessionId
    Requests,           \* concurrent start_sample / interact handlers
    Syncs,              \* concurrent Worker.Sync goroutines
    Capacity,           \* concurrency announced by every worker process
    MaxRestarts,        \* bound on controller restarts
    MaxFaults,          \* bound on worker crashes and dropped streams
    MaxPending,         \* background goroutines after which no new one is asked for
    Ops,                \* the optional operations that happen in an instance
    None                \* Go's nil

SessionIds == 1..MaxSessionId

ASSUME ConstantAssumption ==
    /\ Capacity \in Nat \ {0}
    /\ MaxSessionId \in Nat
    /\ MaxRestarts \in Nat
    /\ MaxFaults \in Nat
    /\ MaxPending \in Nat
    /\ Offers \subseteq SUBSET Indices

ASSUME PoolAssumption ==
    /\ IsFiniteSet(Objs) /\ IsFiniteSet(Requests) /\ IsFiniteSet(Workers)
    /\ None \notin Objs \cup Workers \cup Tasks \cup Offers \cup Indices \cup Addr

VARIABLES
    \* TaskManager
    tasks,          \* task name -> its Indices, or None
    listed,         \* workers that are in the Workers list of their task
    beat,           \* address -> task whose heartbeat is being handled, or None
    \* Worker objects
    worker,         \* static data, capacity, staleness, age of LastVisit
    status,
    current,        \* Worker.Current
    \* SessionManager
    session,        \* Session objects
    sessions,       \* SessionManager.Sessions: id -> object or None
    nextSessionId,
    \* goroutines
    req,            \* handlers of start_sample and interact
    sync,           \* running Worker.Sync calls
    toSync,         \* workers with a Sync goroutine that has not started
    finishing,      \* spawned FinishSession calls: <<object, propagate, notice>>
    cancels,        \* CancelWithNotice goroutines
    cancelAlls,     \* CancelAll / CancelAllWithNotice goroutines
    removals,       \* RemoveWorker goroutines
    \* the worker processes and the network
    remote,         \* address -> the worker process there
    late,           \* start_sample requests nobody waits for any more
    notices,        \* cancel notices on their way
    restarts,
    faults

taskVars == <<tasks, listed, beat>>
sessionVars == <<session, sessions, nextSessionId>>
goVars == <<toSync, finishing, cancels, cancelAlls, removals>>
netVars == <<remote, late, notices>>
boundVars == <<restarts, faults>>
vars == <<taskVars, worker, status, current, sessionVars, req, sync, goVars,
          netVars, boundVars>>

-----------------------------------------------------------------------------
(* The data. *)

Worker == [name : Tasks \cup {None}, addr : Addr \cup {None}, stale : BOOLEAN]
NoWorker == [name |-> None, addr |-> None, stale |-> FALSE]
WorkerStatus == {"unused", "alive", "coma", "dead"}

Session == [id : 0..MaxSessionId, worker : Workers \cup {None},
            index : Indices \cup {None}, interacting : BOOLEAN,
            cancelling : BOOLEAN, finished : BOOLEAN]
\* An object that has not been allocated: it holds no slot of any worker.
NoSession == [id |-> 0, worker |-> None, index |-> None, interacting |-> FALSE,
              cancelling |-> FALSE, finished |-> TRUE]
NewSession(id, w, i) ==
    [id |-> id, worker |-> w, index |-> i, interacting |-> FALSE,
     cancelling |-> FALSE, finished |-> FALSE]
Unused == {o \in Objs : session[o].id = 0}

\* A handler of start_sample walks scan, take, create, begin; both handlers
\* then walk call (request sent), served (accepted by the worker process),
\* reply, and defer or fail.
RequestPc == {"idle", "scan", "take", "create", "begin", "call", "served", "reply",
              "defer", "fail"}
Result == {"none", "running", "done", "full", "err"}
Request == [pc : RequestPc, kind : {"start", "interact"},
            task : Tasks \cup {None}, index : Indices \cup {None},
            todo : SUBSET Workers, best : Workers \cup {None}, avail : Int,
            obj : Objs \cup {None},
            res : Result, live : BOOLEAN]     \* its context has not been cancelled
NoRequest == [pc |-> "idle", kind |-> "start", task |-> None, index |-> None,
              todo |-> {}, best |-> None, avail |-> 0, obj |-> None,
              res |-> "none", live |-> FALSE]
\* A handler about to walk the list ws of the workers of a task.
Scanning(t, i, ws) ==
    [pc |-> "scan", kind |-> "start", task |-> t, index |-> i, todo |-> ws,
     best |-> None, avail |-> 0, obj |-> None, res |-> "none", live |-> FALSE]
\* A handler that has a Session and is about to interact with it.
Beginning(kind, o) ==
    [pc |-> "begin", kind |-> kind, task |-> None, index |-> None, todo |-> {},
     best |-> None, avail |-> 0, obj |-> o, res |-> "none", live |-> FALSE]

\* A CancelWithNotice goroutine asks for a notice, falls back to Cancel, then
\* finishes the session; the same for all sessions of a worker.
CancelCall == [worker : Workers, id : SessionIds, pc : {"notice", "cancel", "finish"}]
CancelAllCall == [worker : Workers, critical : BOOLEAN,
                  pc : {"notice", "cancel", "finish"}]

\* fresh: the sessions whose LastUpdate is later than this call's syncTime.
SyncCall == [pc : {"idle", "call", "reply", "apply"}, worker : Workers \cup {None},
             ok : BOOLEAN, got : SUBSET (SessionIds \X Indices),
             fresh : SUBSET Objs]
NoSync == [pc |-> "idle", worker |-> None, ok |-> FALSE, got |-> {}, fresh |-> {}]

\* run: the worker's session_map, as pairs of session id and index;
\* cancelling: sessions whose end the worker will announce with a notice.
Remote == [up : BOOLEAN, task : Tasks, offer : Offers,
           run : SUBSET (SessionIds \X Indices), cancelling : SUBSET SessionIds]

Ids(run) == {m[1] : m \in run}
Live(id) == sessions[id] # None /\ ~session[sessions[id]].finished
AddrOf(w) == worker[w].addr
WorkersOf(t) == {w \in listed : worker[w].name = t}

\* DispatchTask holds the read lock of the TaskManager from its scan to the
\* creation of the session; writers of that lock wait.
Dispatching == \E r \in Requests : req[r].pc \in {"scan", "take", "create"}

\* The bound on concurrency: handlers and timers that spawn goroutines wait
\* while MaxPending of them are still running.
Room == Cardinality(finishing) + Cardinality(cancels) + Cardinality(cancelAlls)
             < MaxPending

\* Setting LastUpdate to now makes a session fresh for every running Sync.
Touch(S) ==
    [s \in Syncs |-> IF sync[s].pc = "idle" THEN sync[s]
                     ELSE [sync[s] EXCEPT !.fresh = @ \cup S]]

-----------------------------------------------------------------------------
(* FinishSession, run with the lock of the session's worker held.  rq is   *)
(* the request table as the calling goroutine leaves it.  CancelFunc       *)
(* cancels the context of every interaction of the session that is under   *)
(* way.                                                                    *)
(***************************************************************************)
FinishOpen(o, propagate, withNotice, rq) ==
    /\ session' = [session EXCEPT ![o] =
            [@ EXCEPT !.interacting = FALSE,
                      !.cancelling = session[o].cancelling \/ withNotice,
                      !.finished = ~withNotice]]
    /\ current' = IF withNotice THEN current
                  ELSE [current EXCEPT ![session[o].worker] = @ - 1]
    /\ cancels' = IF propagate
                  THEN cancels \cup {[worker |-> session[o].worker,
                                      id |-> session[o].id, pc |-> "notice"]}
                  ELSE cancels
    /\ sync' = Touch({o})
    /\ req' = [r \in Requests |->
                 IF rq[r].obj = o THEN [rq[r] EXCEPT !.live = FALSE] ELSE rq[r]]

FinishSession(o, propagate, withNotice, rq) ==
    \/ /\ session[o].finished
       /\ req' = rq
       /\ UNCHANGED <<session, current, cancels, sync>>
    \/ ~session[o].finished /\ FinishOpen(o, propagate, withNotice, rq)

\* The goroutines FinishSessions spawns for the unfinished sessions in S.
FinishSessions(S, withNotice) ==
    {<<sessions[id], FALSE, withNotice>> :
        id \in {i \in SessionIds : Live(i) /\ sessions[i] \in S}}

SessionsOf(w) == {o \in Objs : session[o].worker = w}

-----------------------------------------------------------------------------
(* Heartbeats: CreateOrValidateTask and UpdateWorker are two critical      *)
(* sections of one handler.                                                *)
(***************************************************************************)
CreateOrValidateTask(a) ==
    LET t == remote[a].task IN
    /\ remote[a].up /\ beat[a] = None /\ ~Dispatching
    /\ \/ /\ tasks[t] = None \/ WorkersOf(t) = {}
          /\ tasks' = [tasks EXCEPT ![t] = remote[a].offer]
       \/ /\ tasks[t] # None /\ WorkersOf(t) # {}
          /\ tasks[t] = remote[a].offer
          /\ UNCHANGED tasks
    /\ beat' = [beat EXCEPT ![a] = t]
    /\ UNCHANGED <<listed, worker, status, current, sessionVars, req, sync, goVars,
                   netVars, boundVars>>

\* Mutated form of Elsewhere: the workers of other tasks are not looked at.
ElsewhereSameTask(a, t) == {v \in WorkersOf(t) : AddrOf(v) = a}

\* Workers of other tasks that are registered at the address.
Elsewhere(a, t) == {v \in listed : AddrOf(v) = a /\ worker[v].name # t}

RegisterWorker(a, t, w) ==
    LET others == Elsewhere(a, t) IN
    /\ ~\E v \in WorkersOf(t) : AddrOf(v) = a
    /\ status[w] = "unused"
    /\ worker' = [worker EXCEPT ![w] = [name |-> t, addr |-> a, stale |-> FALSE]]
    /\ status' = [status EXCEPT ![w] = "alive"]
    /\ listed' = listed \cup {w}
    /\ toSync' = toSync \cup {w}
    /\ removals' = removals \cup others
    /\ cancelAlls' = cancelAlls \cup      \* go FinishSessions
          {[worker |-> v, critical |-> FALSE, pc |-> "finish"] : v \in others}

RefreshWorker(a, t, w) ==
    /\ w \in WorkersOf(t) /\ AddrOf(w) = a
    /\ toSync' = IF status[w] # "alive" THEN toSync \cup {w} ELSE toSync
    /\ status' = [status EXCEPT ![w] = "alive"]
    /\ UNCHANGED <<listed, worker, removals, cancelAlls>>

UpdateWorker(a) ==
    /\ beat[a] # None /\ ~Dispatching
    /\ \/ /\ tasks[beat[a]] = None
          /\ UNCHANGED <<listed, worker, status, toSync, removals, cancelAlls>>
       \/ /\ tasks[beat[a]] # None
          /\ \E w \in Workers : \/ RegisterWorker(a, beat[a], w)
                                \/ RefreshWorker(a, beat[a], w)
    /\ beat' = [beat EXCEPT ![a] = None]
    /\ UNCHANGED <<tasks, current, sessionVars, req, sync, finishing, cancels,
                   netVars, boundVars>>

MarkWorkerStale(w, stale) ==
    /\ w \in listed
    /\ worker' = [worker EXCEPT ![w].stale = stale]
    /\ UNCHANGED <<taskVars, status, current, sessionVars, req, sync, goVars,
                   netVars, boundVars>>

\* The gRPC stream of a worker is closed: SetStatus(WorkerStatusComa).
StreamClosed(w) ==
    /\ status[w] = "alive" /\ faults < MaxFaults
    /\ faults' = faults + 1
    /\ status' = [status EXCEPT ![w] = "coma"]
    /\ UNCHANGED <<taskVars, worker, current, sessionVars, req, sync, goVars, netVars,
                   restarts>>

\* CleanWorkers finds a worker that has missed its heartbeats, and one that
\* has been in a coma for WorkerRemoveTime with no session left.
WorkerTimeout(w) ==
    /\ w \in listed /\ status[w] = "alive"
    /\ status' = [status EXCEPT ![w] = "coma"]
    /\ UNCHANGED <<taskVars, worker, current, sessionVars, req, sync, goVars, netVars,
                   boundVars>>

CleanWorkers(w) ==
    /\ w \in listed /\ status[w] = "coma" /\ current[w] = 0
    /\ removals' = removals \cup {w}
    /\ UNCHANGED <<taskVars, worker, status, current, sessionVars, req, sync, toSync,
                   finishing, cancels, cancelAlls, netVars, boundVars>>

\* Mutated form of RemoveWorker: the task goes with its first removed worker.
RemoveWorkerAndTask(w) ==
    /\ w \in removals /\ ~Dispatching
    /\ removals' = removals \ {w}
    /\ IF tasks[worker[w].name] = None \/ status[w] = "dead"
       THEN UNCHANGED <<status, listed, tasks>>
       ELSE /\ status' = [status EXCEPT ![w] = "dead"]
            /\ listed' = listed \ {w}
            /\ tasks' = [tasks EXCEPT ![worker[w].name] = None]
    /\ UNCHANGED <<beat, worker, current, sessionVars, req, sync, toSync, finishing,
                   cancels, cancelAlls, netVars, boundVars>>

RemoveWorker(w) ==
    LET t == worker[w].name IN
    /\ w \in removals /\ ~Dispatching
    /\ removals' = removals \ {w}
    /\ IF tasks[t] = None \/ status[w] = "dead"
       THEN UNCHANGED <<status, listed, tasks>>
       ELSE /\ status' = [status EXCEPT ![w] = "dead"]
            /\ listed' = listed \ {w}
            /\ tasks' = IF WorkersOf(t) \ {w} = {}
                        THEN [tasks EXCEPT ![t] = None] ELSE tasks
    /\ UNCHANGED <<beat, worker, current, sessionVars, req, sync, toSync, finishing,
                   cancels, cancelAlls, netVars, boundVars>>

-----------------------------------------------------------------------------
(* start_sample: DispatchTask, then the first interaction.                 *)

StartSample(r, t, i) ==
    /\ req[r].pc = "idle"
    /\ tasks[t] # None
    /\ i \in tasks[t]
    /\ req' = [req EXCEPT ![r] = Scanning(t, i, WorkersOf(t))]
    /\ UNCHANGED <<taskVars, worker, status, current, sessionVars, sync, goVars,
                   netVars, boundVars>>

\* One iteration of the loop over task.Workers, under that worker's lock.
ScanWorker(r, w) ==
    LET free == Capacity - current[w]
        better == /\ status[w] = "alive" /\ ~worker[w].stale
                  /\ free > req[r].avail
    IN
    /\ req[r].pc = "scan" /\ w \in req[r].todo
    /\ req' = [req EXCEPT ![r] =
                 [@ EXCEPT !.todo = req[r].todo \ {w},
                           !.best = IF better THEN w ELSE req[r].best,
                           !.avail = IF better THEN free ELSE req[r].avail]]
    /\ UNCHANGED <<taskVars, worker, status, current, sessionVars, sync, goVars,
                   netVars, boundVars>>

ScanDone(r) ==
    /\ req[r].pc = "scan" /\ req[r].todo = {}
    /\ req' = [req EXCEPT ![r] = IF req[r].best = None THEN NoRequest
                                 ELSE [@ EXCEPT !.pc = "take"]]
    /\ UNCHANGED <<taskVars, worker, status, current, sessionVars, sync, goVars,
                   netVars, boundVars>>

\* The chosen worker is checked again under its lock; if it filled up or went
\* into a coma meanwhile, the scan starts over.
TakeSlot(r) ==
    LET w == req[r].best IN
    /\ req[r].pc = "take"
    /\ IF status[w] # "alive" \/ current[w] >= Capacity
       THEN /\ req' = [req EXCEPT ![r] = Scanning(req[r].task, req[r].index,
                                                  WorkersOf(req[r].task))]
            /\ UNCHANGED current
       ELSE /\ req' = [req EXCEPT ![r].pc = "create"]
            /\ current' = [current EXCEPT ![w] = @ + 1]
    /\ UNCHANGED <<taskVars, worker, status, sessionVars, sync, goVars, netVars,
                   boundVars>>

\* Mutated form of CreateSession: the next session gets the same number.
CreateSessionSameId(r, o) ==
    LET id == nextSessionId + 1 IN
    /\ req[r].pc = "create" /\ o \in Unused /\ id \in SessionIds
    /\ session' = [session EXCEPT ![o] = NewSession(id, req[r].best, req[r].index)]
    /\ sessions' = [sessions EXCEPT ![id] = o]
    /\ sync' = Touch({o})
    /\ req' = [req EXCEPT ![r] = Beginning("start", o)]
    /\ UNCHANGED <<taskVars, worker, status, current, nextSessionId, goVars, netVars,
                   boundVars>>

CreateSession(r, o) ==
    LET id == nextSessionId + 1 IN
    /\ req[r].pc = "create" /\ o \in Unused /\ id \in SessionIds
    /\ nextSessionId' = id
    /\ session' = [session EXCEPT ![o] = NewSession(id, req[r].best, req[r].index)]
    /\ sessions' = [sessions EXCEPT ![id] = o]
    /\ sync' = Touch({o})
    /\ req' = [req EXCEPT ![r] = Beginning("start", o)]
    /\ UNCHANGED <<taskVars, worker, status, current, goVars, netVars, boundVars>>

-----------------------------------------------------------------------------
(* interact: GetSession, then Session.Interact.                            *)

GetForInteract(r, id) ==
    /\ req[r].pc = "idle" /\ Live(id)
    /\ req' = [req EXCEPT ![r] = Beginning("interact", sessions[id])]
    /\ UNCHANGED <<taskVars, worker, status, current, sessionVars, sync, goVars,
                   netVars, boundVars>>

\* What a handler does once Interact has returned an error.
AfterError(r, res) ==
    IF req[r].kind = "start"
    THEN [req EXCEPT ![r] = [@ EXCEPT !.pc = "fail", !.res = res, !.live = FALSE]]
    ELSE [req EXCEPT ![r] = NoRequest]

\* Mutated form of InteractBegin: a session that is being cancelled is accepted.
InteractBeginCancelling(r) ==
    LET o == req[r].obj IN
    /\ req[r].pc = "begin"
    /\ IF session[o].interacting
       THEN /\ req' = AfterError(r, "err")
            /\ UNCHANGED <<session, sync>>
       ELSE /\ session' = [session EXCEPT ![o] = [@ EXCEPT !.interacting = TRUE]]
            /\ sync' = Touch({o})
            /\ req' = [req EXCEPT ![r] = [@ EXCEPT !.pc = "call",
                                                   !.live = ~session[o].finished]]
    /\ UNCHANGED <<taskVars, worker, status, current, sessions, nextSessionId,
                   goVars, netVars, boundVars>>

InteractBegin(r) ==
    LET o == req[r].obj IN
    /\ req[r].pc = "begin"
    /\ IF session[o].interacting \/ session[o].cancelling
       THEN /\ req' = AfterError(r, "err")
            /\ UNCHANGED <<session, sync>>
       ELSE /\ session' = [session EXCEPT ![o] = [@ EXCEPT !.interacting = TRUE]]
            /\ sync' = Touch({o})
            /\ req' = [req EXCEPT ![r] = [@ EXCEPT !.pc = "call",
                                                   !.live = ~session[o].finished]]
    /\ UNCHANGED <<taskVars, worker, status, current, sessions, nextSessionId,
                   goVars, netVars, boundVars>>

\* The call fails: connection refused, a lost message, a timeout or a cancelled
\* context.  A start_sample that was sent may still arrive.
CallFails(r) ==
    LET o == req[r].obj IN
    /\ req[r].pc \in {"call", "served"}
    /\ req' = [req EXCEPT ![r] = [@ EXCEPT !.pc = "reply", !.res = "err"]]
    /\ \/ UNCHANGED late
       \/ /\ "late" \in Ops
          /\ req[r].pc = "call" /\ req[r].kind = "start"
          /\ late' = late \cup {<<AddrOf(session[o].worker), session[o].id,
                                  session[o].index>>}
    /\ UNCHANGED <<taskVars, worker, status, current, sessionVars, sync, goVars,
                   remote, notices, boundVars>>

\* Mutated form of InteractReply: an error leaves Interacting set.
InteractReplyLeaky(r) ==
    /\ req[r].pc = "reply"
    /\ IF req[r].res = "done"
       THEN FinishSession(req[r].obj, FALSE, FALSE, [req EXCEPT ![r].pc = "defer"])
       ELSE /\ req' = IF req[r].res = "running" THEN [req EXCEPT ![r] = NoRequest]
                      ELSE AfterError(r, req[r].res)
            /\ UNCHANGED <<session, sync, current, cancels>>
    /\ UNCHANGED <<taskVars, worker, status, sessions, nextSessionId, toSync, finishing,
                   cancelAlls, removals, netVars, boundVars>>

\* Interact returns: a status other than running finishes the session first,
\* then the deferred function clears Interacting.
InteractReply(r) ==
    LET o == req[r].obj IN
    /\ req[r].pc = "reply"
    /\ IF req[r].res = "done"
       THEN /\ FinishSession(o, FALSE, FALSE, [req EXCEPT ![r].pc = "defer"])
            /\ UNCHANGED <<status, toSync>>
       ELSE /\ session' = [session EXCEPT ![o] = [@ EXCEPT !.interacting = FALSE]]
            /\ sync' = Touch({o})
            /\ req' = IF req[r].res = "running" THEN [req EXCEPT ![r] = NoRequest]
                      ELSE AfterError(r, req[r].res)
            /\ UNCHANGED <<status, current, cancels, toSync>>
    /\ UNCHANGED <<taskVars, worker, sessions, nextSessionId, finishing, cancelAlls,
                   removals, netVars, boundVars>>

InteractDefer(r) ==
    LET o == req[r].obj IN
    /\ req[r].pc = "defer"
    /\ session' = [session EXCEPT ![o] = [@ EXCEPT !.interacting = FALSE]]
    /\ sync' = Touch({o})
    /\ req' = [req EXCEPT ![r] = NoRequest]
    /\ UNCHANGED <<taskVars, worker, status, current, sessions, nextSessionId,
                   goVars, netVars, boundVars>>

\* handleStartSample after an error: the session is removed, and a worker that
\* answered 406 is synchronised.
StartFails(r) ==
    LET o == req[r].obj IN
    /\ req[r].pc = "fail"
    /\ FinishSession(o, FALSE, FALSE, [req EXCEPT ![r] = NoRequest])
    /\ toSync' = IF req[r].res = "full" THEN toSync \cup {session[o].worker}
                 ELSE toSync
    /\ UNCHANGED <<taskVars, worker, status, sessions, nextSessionId, finishing,
                   cancelAlls, removals, netVars, boundVars>>

-----------------------------------------------------------------------------
(* Cancelling and cleaning sessions.                                       *)

HandleCancel(id) ==
    /\ Room
    /\ Live(id)
    /\ finishing' = finishing \cup {<<sessions[id], TRUE, TRUE>>}
    /\ UNCHANGED <<taskVars, worker, status, current, sessionVars, req, sync, toSync,
                   cancels, cancelAlls, removals, netVars, boundVars>>

\* CallCancelAll (ts is every task name) and CallCancelAllFor.
HandleCancelAll(ts) ==
    LET ws == {w \in listed : worker[w].name \in ts /\ status[w] # "dead"} IN
    /\ Room
    /\ ts = Tasks \/ Cardinality({t \in Tasks : tasks[t] # None}) > 1
    /\ finishing' = finishing \cup
          FinishSessions({o \in Objs : session[o].worker # None
                             /\ worker[session[o].worker].name \in ts}, TRUE)
    /\ cancelAlls' = cancelAlls \cup
          {[worker |-> w, critical |-> FALSE, pc |-> "notice"] : w \in ws}
    /\ UNCHANGED <<taskVars, worker, status, current, sessionVars, req, sync, toSync,
                   cancels, removals, netVars, boundVars>>

HandleCancelNotice(id) ==
    /\ id \in notices
    /\ notices' = notices \ {id}
    /\ finishing' = IF Live(id) THEN finishing \cup {<<sessions[id], FALSE, FALSE>>}
                    ELSE finishing
    /\ UNCHANGED <<taskVars, worker, status, current, sessionVars, req, sync, toSync,
                   cancels, cancelAlls, removals, remote, late, boundVars>>

\* A spawned FinishSession gets the locks.
RunFinishSession(f) ==
    /\ f \in finishing
    /\ finishing' = finishing \ {f}
    /\ FinishSession(f[1], f[2], f[3], req)
    /\ UNCHANGED <<taskVars, worker, status, sessions, nextSessionId, toSync,
                   cancelAlls, removals, netVars, boundVars>>

\* CleanSessions deletes finished sessions from the table after
\* SessionRemoveTime.  An object no goroutine holds any more can be reused.
RemoveSession(id) ==
    LET o == sessions[id]
        held == \/ \E r \in Requests : req[r].obj = o
                \/ \E f \in finishing : f[1] = o
    IN
    /\ o # None /\ session[o].finished
    /\ sessions' = [sessions EXCEPT ![id] = None]
    /\ session' = IF held THEN session ELSE [session EXCEPT ![o] = NoSession]
    /\ UNCHANGED <<taskVars, worker, status, current, nextSessionId, req, sync,
                   goVars, netVars, boundVars>>

\* CleanSessions cancels a session that has been idle for SessionExpireTime.
ExpireSession(id) ==
    /\ Room
    /\ Live(id) /\ ~session[sessions[id]].interacting
    /\ finishing' = finishing \cup {<<sessions[id], TRUE, TRUE>>}
    /\ UNCHANGED <<taskVars, worker, status, current, sessionVars, req, sync, toSync,
                   cancels, cancelAlls, removals, netVars, boundVars>>

-----------------------------------------------------------------------------
(* Worker.CancelWithNotice, with its fallback to Cancel.                   *)

NextStage(c, pc) == (cancels \ {c}) \cup {[c EXCEPT !.pc = pc]}

\* The request arrives: the worker starts the cancellation and will announce
\* its end.
Announce(a, ids) ==
    [remote EXCEPT ![a].cancelling = @ \cup (ids \cap Ids(remote[a].run))]

\* Mutated form of CancelWithNotice: no fallback when the notice is refused.
CancelWithNoticeOnly(c) ==
    LET a == AddrOf(c.worker) IN
    /\ c \in cancels /\ c.pc = "notice"
    /\ cancels' = cancels \ {c}
    /\ remote' \in {Announce(a, {c.id}), remote}
    /\ UNCHANGED <<taskVars, worker, status, current, sessionVars, req, sync, toSync,
                   finishing, cancelAlls, removals, late, notices, boundVars>>

CancelWithNotice(c) ==
    LET a == AddrOf(c.worker) IN
    /\ c \in cancels /\ c.pc = "notice"
    /\ \/ /\ remote[a].up /\ c.id \in Ids(remote[a].run)
          /\ remote' = Announce(a, {c.id})
          /\ cancels' \in {cancels \ {c}, NextStage(c, "cancel")}  \* or reply lost
       \/ /\ cancels' = NextStage(c, "cancel")
          /\ UNCHANGED remote
    /\ UNCHANGED <<taskVars, worker, status, current, sessionVars, req, sync, toSync,
                   finishing, cancelAlls, removals, late, notices, boundVars>>

\* Cancel: on an error the worker is put into a coma.
Cancel(c) ==
    LET a == AddrOf(c.worker)
        gone == {m \in remote[a].run : m[1] = c.id}
    IN
    /\ c \in cancels /\ c.pc = "cancel"
    /\ \/ /\ remote[a].up /\ gone # {}
          /\ remote' = [remote EXCEPT ![a].run = @ \ gone]
          /\ status' \in {status, [status EXCEPT ![c.worker] = "coma"]}  \* or reply lost
       \/ /\ status' = [status EXCEPT ![c.worker] = "coma"]
          /\ UNCHANGED remote
    /\ cancels' = NextStage(c, "finish")
    /\ UNCHANGED <<taskVars, worker, current, sessionVars, req, sync, toSync,
                   finishing, cancelAlls, removals, late, notices, boundVars>>

CancelFinish(c) ==
    /\ c \in cancels /\ c.pc = "finish"
    /\ cancels' = cancels \ {c}
    /\ finishing' = IF Live(c.id)
                    THEN finishing \cup {<<sessions[c.id], FALSE, FALSE>>}
                    ELSE finishing
    /\ UNCHANGED <<taskVars, worker, status, current, sessionVars, req, sync, toSync,
                   cancelAlls, removals, netVars, boundVars>>

-----------------------------------------------------------------------------
(* Worker.CancelAllWithNotice and Worker.CancelAll.                        *)

NextStageAll(c, pc) == (cancelAlls \ {c}) \cup {[c EXCEPT !.pc = pc]}

CancelAllWithNotice(c) ==
    LET a == AddrOf(c.worker) IN
    /\ c \in cancelAlls /\ c.pc = "notice"
    /\ \/ /\ remote[a].up
          /\ remote' = Announce(a, SessionIds)
          /\ cancelAlls' \in {cancelAlls \ {c}, NextStageAll(c, "cancel")}
       \/ /\ cancelAlls' = NextStageAll(c, "cancel")
          /\ UNCHANGED remote
    /\ UNCHANGED <<taskVars, worker, status, current, sessionVars, req, sync, toSync,
                   finishing, cancels, removals, late, notices, boundVars>>

\* An error of a critical call removes the worker, any other puts it into coma.
CancelAll(c) ==
    LET a == AddrOf(c.worker)
        Failed == IF c.critical
                  THEN /\ removals' = removals \cup {c.worker}
                       /\ UNCHANGED status
                  ELSE /\ status' = [status EXCEPT ![c.worker] = "coma"]
                       /\ UNCHANGED removals
    IN
    /\ c \in cancelAlls /\ c.pc = "cancel"
    /\ \/ /\ remote[a].up
          /\ remote' = [remote EXCEPT ![a].run = {}]
          /\ Failed \/ UNCHANGED <<status, removals>>   \* reply lost or received
       \/ /\ Failed
          /\ UNCHANGED remote
    /\ cancelAlls' = NextStageAll(c, "finish")
    /\ UNCHANGED <<taskVars, worker, current, sessionVars, req, sync, toSync,
                   finishing, cancels, late, notices, boundVars>>

CancelAllFinish(c) ==
    /\ c \in cancelAlls /\ c.pc = "finish"
    /\ cancelAlls' = cancelAlls \ {c}
    /\ finishing' = finishing \cup FinishSessions(SessionsOf(c.worker), FALSE)
    /\ UNCHANGED <<taskVars, worker, status, current, sessionVars, req, sync, toSync,
                   cancels, removals, netVars, boundVars>>

-----------------------------------------------------------------------------
(* Worker.Sync.                                                            *)

CallSyncAll ==
    /\ toSync' = toSync \cup listed
    /\ UNCHANGED <<taskVars, worker, status, current, sessionVars, req, sync,
                   finishing, cancels, cancelAlls, removals, netVars, boundVars>>

SyncStart(s, w) ==
    /\ sync[s].pc = "idle" /\ w \in toSync
    /\ toSync' = toSync \ {w}
    /\ sync' = IF status[w] = "dead" THEN sync
               ELSE [sync EXCEPT ![s] = [NoSync EXCEPT !.pc = "call", !.worker = w]]
    /\ UNCHANGED <<taskVars, worker, status, current, sessionVars, req, finishing,
                   cancels, cancelAlls, removals, netVars, boundVars>>

\* get_sessions is answered, or fails.
SyncReply(s) ==
    LET a == AddrOf(sync[s].worker) IN
    /\ sync[s].pc = "call"
    /\ \/ /\ remote[a].up
          /\ sync' = [sync EXCEPT ![s] = [@ EXCEPT !.pc = "reply", !.ok = TRUE,
                                                   !.got = remote[a].run]]
       \/ sync' = [sync EXCEPT ![s].pc = "reply"]
    /\ UNCHANGED <<taskVars, worker, status, current, sessionVars, req, goVars,
                   netVars, boundVars>>

\* The second look at Status, before the worker's lock is taken.
SyncCheck(s) ==
    /\ sync[s].pc = "reply"
    /\ sync' = [sync EXCEPT ![s] = IF status[sync[s].worker] = "dead" THEN NoSync
                                   ELSE [@ EXCEPT !.pc = "apply"]]
    /\ UNCHANGED <<taskVars, worker, status, current, sessionVars, req, goVars,
                   netVars, boundVars>>

SyncFailed(s) ==
    /\ sync[s].pc = "apply" /\ ~sync[s].ok
    /\ status' = [status EXCEPT ![sync[s].worker] = "coma"]
    /\ sync' = [sync EXCEPT ![s] = NoSync]
    /\ UNCHANGED <<taskVars, worker, current, sessionVars, req, goVars, netVars,
                   boundVars>>

\* ResumeSession of a reported session m = <<id, index>>.
Mismatched(w, m) ==
    LET o == sessions[m[1]] IN
    o # None /\ (session[o].worker # w \/ session[o].index # m[2])

\* Sessions of w that Sync finishes: unknown to the worker, not touched since
\* syncTime.
SyncFinishes(w, s) ==
    {o \in Objs : /\ session[o].worker = w /\ ~session[o].finished
                  /\ session[o].id \in SessionIds
                  /\ sessions[session[o].id] = o
                  /\ session[o].id \notin Ids(sync[s].got)
                  /\ o \notin sync[s].fresh}

\* Mutated form of SyncResumes: sessions that were never finished count again.
SyncResumesAll(w, s) ==
    {o \in Objs : /\ session[o].worker = w
                  /\ session[o].id \in SessionIds
                  /\ sessions[session[o].id] = o
                  /\ <<session[o].id, session[o].index>> \in sync[s].got
                  /\ o \notin sync[s].fresh}

\* Finished sessions of w that the worker still runs and that were not
\* finished since syncTime.
SyncResumes(w, s) ==
    {o \in Objs : /\ session[o].worker = w /\ session[o].finished
                  /\ session[o].id \in SessionIds
                  /\ sessions[session[o].id] = o
                  /\ <<session[o].id, session[o].index>> \in sync[s].got
                  /\ o \notin sync[s].fresh}

\* Reported sessions the controller does not know.
SyncAdds(s) == {m \in sync[s].got : sessions[m[1]] = None}

SyncApply(s) ==
    LET w == sync[s].worker
        fin == SyncFinishes(w, s)
        resumed == SyncResumes(w, s)
        adds == SyncAdds(s)
    IN
    /\ sync[s].pc = "apply" /\ sync[s].ok
    /\ status' = [status EXCEPT ![w] = "alive"]
    /\ \E new \in SUBSET Unused :
       \E of \in [new -> adds] :
          /\ \A m \in adds : \E o \in new : of[o] = m
          /\ \A o1, o2 \in new : of[o1] = of[o2] => o1 = o2
          /\ session' = [o \in Objs |->
                CASE o \in fin -> [session[o] EXCEPT !.interacting = FALSE,
                                                     !.finished = TRUE]
                  [] o \in resumed -> [session[o] EXCEPT !.finished = FALSE]
                  [] o \in new -> NewSession(of[o][1], w, of[o][2])
                  [] OTHER -> session[o]]
          /\ sessions' = [id \in SessionIds |->
                IF \E o \in new : of[o][1] = id
                THEN CHOOSE o \in new : of[o][1] = id
                ELSE sessions[id]]
          /\ current' = [current EXCEPT ![w] =
                @ - Cardinality(fin) + Cardinality(resumed) + Cardinality(new)]
          /\ sync' = [Touch(fin \cup resumed \cup new) EXCEPT ![s] = NoSync]
    /\ req' = [r \in Requests |-> IF req[r].obj \in fin
                                  THEN [req[r] EXCEPT !.live = FALSE] ELSE req[r]]
    /\ cancelAlls' = IF \E m \in sync[s].got : Mismatched(w, m)
                     THEN cancelAlls \cup {[worker |-> w, critical |-> TRUE,
                                            pc |-> "cancel"]}
                     ELSE cancelAlls
    /\ UNCHANGED <<taskVars, worker, nextSessionId, toSync, finishing, cancels,
                   removals, netVars, boundVars>>

-----------------------------------------------------------------------------
(* The worker processes (task_worker.py) as the controller meets them.     *)

\* start_sample on the worker: a known id or a full session_map is refused.
RemoteStart(a, id) ==
    IF id \in Ids(remote[a].run) THEN "err"
    ELSE IF Cardinality(remote[a].run) >= Capacity THEN "full" ELSE "none"

RemoteCall(r) ==
    LET o == req[r].obj
        a == AddrOf(session[o].worker)
        id == session[o].id
        res == IF req[r].kind = "start" THEN RemoteStart(a, id)
               ELSE IF /\ id \in Ids(remote[a].run) \ remote[a].cancelling
                       /\ ~\E q \in Requests : req[q].pc = "served" /\ req[q].obj = o
                    THEN "none" ELSE "err"
    IN
    /\ req[r].pc = "call" /\ remote[a].up
    /\ req' = [req EXCEPT ![r] = [@ EXCEPT !.pc = IF res = "none" THEN "served"
                                                  ELSE "reply", !.res = res]]
    /\ remote' = IF req[r].kind = "start" /\ res = "none"
                 THEN [remote EXCEPT ![a].run = @ \cup {<<id, session[o].index>>}]
                 ELSE remote
    /\ UNCHANGED <<taskVars, worker, status, current, sessionVars, sync, goVars, late,
                   notices, boundVars>>

\* The sample reaches its next turn, ends, or has been cancelled.
RemoteReply(r) ==
    LET o == req[r].obj
        a == AddrOf(session[o].worker)
        mine == {m \in remote[a].run : m[1] = session[o].id}
    IN
    /\ req[r].pc = "served" /\ remote[a].up
    /\ \/ /\ mine # {}
          /\ req' = [req EXCEPT ![r] = [@ EXCEPT !.pc = "reply", !.res = "running"]]
          /\ UNCHANGED remote
       \/ /\ req' = [req EXCEPT ![r] = [@ EXCEPT !.pc = "reply", !.res = "done"]]
          /\ remote' = [remote EXCEPT ![a].run = @ \ mine]
    /\ UNCHANGED <<taskVars, worker, status, current, sessionVars, sync, goVars, late,
                   notices, boundVars>>

\* A start_sample the controller gave up on reaches the worker, or is lost.
LateStart(m) ==
    /\ m \in late
    /\ late' = late \ {m}
    /\ remote' = IF remote[m[1]].up /\ RemoteStart(m[1], m[2]) = "none"
                 THEN [remote EXCEPT ![m[1]].run = @ \cup {<<m[2], m[3]>>}]
                 ELSE remote
    /\ UNCHANGED <<taskVars, worker, status, current, sessionVars, req, sync, goVars,
                   notices, boundVars>>

\* A sample ends while no handler of the controller waits for it.
RemoteEnds(a, m) ==
    /\ remote[a].up /\ m \in remote[a].run
    /\ remote' = [remote EXCEPT ![a].run = @ \ {m}]
    /\ UNCHANGED <<taskVars, worker, status, current, sessionVars, req, sync, goVars,
                   late, notices, boundVars>>

\* A cancelled session leaves the session_map and the worker sends its notice,
\* which may be lost.
RemoteCancelled(a, id) ==
    /\ remote[a].up /\ id \in remote[a].cancelling
    /\ remote' = [remote EXCEPT ![a] = [@ EXCEPT !.cancelling = remote[a].cancelling \ {id},
                                   !.run = {m \in remote[a].run : m[1] # id}]]
    /\ notices' \in {notices, notices \cup {id}}
    /\ UNCHANGED <<taskVars, worker, status, current, sessionVars, req, sync, goVars,
                   late, boundVars>>

\* The worker process dies with its sessions; one is started at that address.
RemoteRestart(a, t, offer) ==
    /\ faults < MaxFaults
    /\ faults' = faults + 1
    /\ remote' = [remote EXCEPT ![a] = [up |-> TRUE, task |-> t, offer |-> offer,
                                        run |-> {}, cancelling |-> {}]]
    /\ UNCHANGED <<taskVars, worker, status, current, sessionVars, req, sync,
                   goVars, late, notices, restarts>>

RemoteStop(a) ==
    /\ remote[a].up /\ faults < MaxFaults
    /\ faults' = faults + 1
    /\ remote' = [remote EXCEPT ![a] = [@ EXCEPT !.up = FALSE, !.run = {},
                                                 !.cancelling = {}]]
    /\ UNCHANGED <<taskVars, worker, status, current, sessionVars, req, sync,
                   goVars, late, notices, restarts>>

-----------------------------------------------------------------------------
(* A restart of the controller, which keeps nothing.                       *)

Restart ==
    /\ restarts < MaxRestarts
    /\ restarts' = restarts + 1
    /\ tasks' = [t \in Tasks |-> None]
    /\ listed' = {}
    /\ beat' = [a \in Addr |-> None]
    /\ worker' = [w \in Workers |-> NoWorker]
    /\ status' = [w \in Workers |-> "unused"]
    /\ current' = [w \in Workers |-> 0]
    /\ session' = [o \in Objs |-> NoSession]
    /\ sessions' = [id \in SessionIds |-> None]
    /\ nextSessionId' = 0
    /\ req' = [r \in Requests |-> NoRequest]
    /\ sync' = [s \in Syncs |-> NoSync]
    /\ toSync' = {} /\ finishing' = {} /\ cancels' = {} /\ cancelAlls' = {}
    /\ removals' = {}
    /\ UNCHANGED <<netVars, faults>>

Init ==
    /\ tasks = [t \in Tasks |-> None]
    /\ listed = {}
    /\ beat = [a \in Addr |-> None]
    /\ worker = [w \in Workers |-> NoWorker]
    /\ status = [w \in Workers |-> "unused"]
    /\ current = [w \in Workers |-> 0]
    /\ session = [o \in Objs |-> NoSession]
    /\ sessions = [id \in SessionIds |-> None]
    /\ nextSessionId = 0
    /\ req = [r \in Requests |-> NoRequest]
    /\ sync = [s \in Syncs |-> NoSync]
    /\ toSync = {} /\ finishing = {} /\ cancels = {} /\ cancelAlls = {}
    /\ removals = {}
    /\ remote \in [Addr -> [up : {TRUE}, task : Tasks, offer : Offers,
                            run : {{}}, cancelling : {{}}]]
    /\ late = {} /\ notices = {}
    /\ restarts = 0 /\ faults = 0

\* Which optional operations an instance has is a constant, so that an instance
\* can concentrate on some of them; AllOps is everything.
AllOps == {"interact", "cancel", "cancel_all", "stale", "late", "ends", "expire",
           "remove", "sync", "timeout"}

ClientStep ==
    \/ \E r \in Requests, t \in Tasks, i \in Indices : StartSample(r, t, i)
    \/ "interact" \in Ops /\ \E r \in Requests, id \in SessionIds : GetForInteract(r, id)
    \/ "cancel" \in Ops /\ \E id \in SessionIds : HandleCancel(id)
    \/ "cancel_all" \in Ops /\ \E ts \in {Tasks} \cup {{t} : t \in Tasks} :
                                   HandleCancelAll(ts)
    \/ "stale" \in Ops /\ \E w \in Workers, b \in BOOLEAN : MarkWorkerStale(w, b)

RequestStep(r) ==
    \/ \E w \in Workers : ScanWorker(r, w)
    \/ ScanDone(r)
    \/ TakeSlot(r)
    \/ \E o \in Objs : CreateSession(r, o)
    \/ InteractBegin(r)
    \/ CallFails(r)
    \/ InteractReply(r)
    \/ InteractDefer(r)
    \/ StartFails(r)

SyncStep(s) ==
    \/ \E w \in Workers : SyncStart(s, w)
    \/ SyncReply(s)
    \/ SyncCheck(s)
    \/ SyncFailed(s)
    \/ SyncApply(s)

CancelStep ==
    \/ \E f \in finishing : RunFinishSession(f)
    \/ \E c \in cancels : CancelWithNotice(c) \/ Cancel(c) \/ CancelFinish(c)
    \/ \E c \in cancelAlls : CancelAllWithNotice(c) \/ CancelAll(c) \/ CancelAllFinish(c)

WorkerStep ==
    \/ \E a \in Addr : CreateOrValidateTask(a) \/ UpdateWorker(a) \/ RemoteStop(a)
    \/ \E a \in Addr, t \in Tasks, f \in Offers : RemoteRestart(a, t, f)
    \/ \E a \in Addr, id \in SessionIds : RemoteCancelled(a, id)
    \/ \E id \in SessionIds : HandleCancelNotice(id)
    \/ "ends" \in Ops /\ \E a \in Addr : \E m \in remote[a].run : RemoteEnds(a, m)
    \/ \E m \in late : LateStart(m)
    \/ \E r \in Requests : RemoteCall(r) \/ RemoteReply(r)
    \/ \E w \in Workers : StreamClosed(w)

Background ==
    \/ "timeout" \in Ops /\ \E w \in Workers : WorkerTimeout(w) \/ CleanWorkers(w)
    \/ \E w \in Workers : RemoveWorker(w)
    \/ "remove" \in Ops /\ \E id \in SessionIds : RemoveSession(id)
    \/ "expire" \in Ops /\ \E id \in SessionIds : ExpireSession(id)
    \/ "sync" \in Ops /\ CallSyncAll

Next ==
    \/ ClientStep
    \/ \E r \in Requests : RequestStep(r)
    \/ \E s \in Syncs : SyncStep(s)
    \/ CancelStep
    \/ WorkerStep
    \/ Background
    \/ Restart

Spec == Init /\ [][Next]_vars

\* Goroutines run, calls return (every one has a timeout), cancelled samples
\* end on a worker that is up, and the cleaning loop keeps running.
Fairness ==
    /\ \A r \in Requests : WF_vars(RequestStep(r))
    /\ \A s \in Syncs : WF_vars(SyncStep(s))
    /\ WF_vars(\E f \in finishing : RunFinishSession(f))
    /\ WF_vars(\E c \in cancels : CancelWithNotice(c))
    /\ WF_vars(\E c \in cancels : Cancel(c))
    /\ WF_vars(\E c \in cancels : CancelFinish(c))
    /\ \A a \in Addr, id \in SessionIds : WF_vars(RemoteCancelled(a, id))
    /\ \A id \in SessionIds : WF_vars(ExpireSession(id))

FairSpec == Spec /\ Fairness

-----------------------------------------------------------------------------
(* Properties.                                                             *)

\* The types of all the state.
TypeOK ==
    /\ tasks \in [Tasks -> Offers \cup {None}]
    /\ listed \in SUBSET Workers
    /\ beat \in [Addr -> Tasks \cup {None}]
    /\ worker \in [Workers -> Worker]
    /\ status \in [Workers -> WorkerStatus]
    /\ current \in [Workers -> Int]
    /\ session \in [Objs -> Session]
    /\ sessions \in [SessionIds -> Objs \cup {None}]
    /\ nextSessionId \in 0..MaxSessionId
    /\ req \in [Requests -> Request]
    /\ sync \in [Syncs -> SyncCall]
    /\ toSync \in SUBSET Workers
    /\ finishing \in SUBSET (Objs \X BOOLEAN \X BOOLEAN)
    /\ cancels \in SUBSET CancelCall
    /\ cancelAlls \in SUBSET CancelAllCall
    /\ removals \in SUBSET Workers
    /\ remote \in [Addr -> Remote]
    /\ late \in SUBSET (Addr \X SessionIds \X Indices)
    /\ notices \in SUBSET SessionIds
    /\ restarts \in 0..MaxRestarts
    /\ faults \in 0..MaxFaults

\* The parts of WellFormed, one per kind of reference.
SessionsFormed ==
    \A o \in Objs :
        \/ session[o] = NoSession
        \/ /\ session[o].id # 0
           /\ session[o].worker \in Workers /\ session[o].index \in Indices
           /\ status[session[o].worker] # "unused"

WorkersFormed ==
    \A w \in Workers :
        status[w] # "unused" => worker[w].name \in Tasks /\ worker[w].addr \in Addr

TableFormed ==
    \A id \in SessionIds : sessions[id] # None => session[sessions[id]].id = id

\* A handler has a Session from "begin" on, and none before.
Early == {"idle", "scan", "take", "create"}
RequestFormed(r) ==
    IF req[r].pc \in Early
    THEN /\ req[r].obj = None /\ ~req[r].live
         /\ req[r].pc # "idle" => req[r].task \in Tasks /\ req[r].index \in Indices
         /\ req[r].pc \in {"take", "create"} => req[r].best \in Workers
         /\ req[r].best # None => status[req[r].best] # "unused"
         /\ \A w \in req[r].todo : status[w] # "unused"
    ELSE req[r].obj \in Objs /\ session[req[r].obj].id # 0
RequestsFormed == \A r \in Requests : RequestFormed(r)

SyncsFormed ==
    \A s \in Syncs : sync[s].pc # "idle" =>
        sync[s].worker \in Workers /\ status[sync[s].worker] # "unused"

QueuesFormed ==
    /\ \A w \in listed \cup toSync \cup removals : status[w] # "unused"
    /\ \A f \in finishing : session[f[1]].id # 0
    /\ \A c \in cancels \cup cancelAlls : status[c.worker] # "unused"

\* No goroutine and no table entry refers to an object that was never allocated
\* or that has been given up: the entries of Sessions carry their own id
\* (session.go:191, :249), and a session is dropped for good only when nothing
\* holds it.
WellFormed ==
    /\ SessionsFormed /\ WorkersFormed /\ TableFormed /\ RequestsFormed
    /\ SyncsFormed /\ QueuesFormed

\* The slots of a worker that are taken: its unfinished sessions, and the
\* dispatches that have taken a slot and not yet created their session.
Holding(w) == {o \in Objs : session[o].worker = w /\ ~session[o].finished}
Reserving(w) == {r \in Requests : req[r].pc = "create" /\ req[r].best = w}

\* Worker.Current (task.go:270, session.go:253 and :330) is exactly the number
\* of slots taken: whatever the order of finishing, cancelling, notices, syncs
\* and dispatches, no slot is given back twice and none is lost.
CurrentCountsSessions ==
    \A w \in Workers :
        current[w] = Cardinality(Holding(w)) + Cardinality(Reserving(w))

\* As long as the controller has not been restarted, every unfinished session
\* is in the table, where cancelling, expiry and Sync can find it: creating or
\* resuming a session never overwrites one, and cleaning never drops one
\* (session.go:191, :249, :378).
NoLostSession ==
    restarts = 0 =>
        \A o \in Objs : ~session[o].finished => sessions[session[o].id] = o

\* A session never stays marked as interacting without a handler that will
\* clear the mark (session.go:92-101): an abandoned mark would keep
\* CleanSessions from ever expiring the session.
InteractingHasHandler ==
    \A o \in Objs : session[o].interacting =>
        \E r \in Requests : req[r].obj = o
                            /\ req[r].pc \in {"call", "served", "reply", "defer"}

\* FinishSession cancels the context of the interaction under way
\* (session.go:303-305): no call runs with a live context for a session that
\* is finished or being cancelled.
NoCallAfterFinish ==
    \A r \in Requests : req[r].live =>
        ~session[req[r].obj].finished /\ ~session[req[r].obj].cancelling

\* The registry is consistent (task.go:83-167, :349-382): a listed worker is
\* not dead and its task exists, and one address is listed once per task.
RegistryConsistent ==
    /\ \A w \in listed : status[w] \in {"alive", "coma"} /\ tasks[worker[w].name] # None
    /\ \A v, w \in listed :
          worker[v].name = worker[w].name /\ AddrOf(v) = AddrOf(w) => v = w

\* An address listed under two tasks belongs to a process that was replaced:
\* the removal of one of the two is under way (task.go:109-124).
AddressConflictResolved ==
    \A v, w \in listed : v # w /\ AddrOf(v) = AddrOf(w) => removals \cap {v, w} # {}

\* A session whose cancellation has been requested is finished in the end, even
\* if the notice of the worker is lost or the worker is unreachable.
CancellationCompletes ==
    \A o \in Objs : session[o].cancelling ~> session[o].finished
=============================================================================
