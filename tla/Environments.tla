---------------------------- MODULE Environments ----------------------------
(***************************************************************************)
(* The environment controllers of the workers (worker/environment):        *)
(* docker.py and k8s.py start and end sessions on containers (pods), reuse *)
(* shared containers up to limits, and clean up in the background.  All    *)
(* the workers of a task share the containers and, through a state         *)
(* provider, the record of who uses them.                                  *)
(*                                                                         *)
(* One action is the code between two awaits that reach the store or the   *)
(* container engine.  The two controllers run the same steps; what differs *)
(* (how candidates are listed, when a container counts as healthy, what a  *)
(* failed deletion does) is a definition per driver.                       *)
(***************************************************************************)
EXTENDS StateProviders, FiniteSets

CONSTANTS
    Workers,        \* worker processes
    Sessions,       \* session ids; fresh ones are given out in increasing order
    Containers,     \* container ids, likewise
    Configs         \* deployments to check

FaultKinds == {"crash", "create", "delete", "health"}

\* A deployment, with the number of failures of each kind it has to stand.
Config ==
    [driver : {"docker", "k8s"}, provider : Providers, concurrency : Nat,
     reuse : Nat, immutable : BOOLEAN, homepage : BOOLEAN, clients : SUBSET Sessions,
     workers : SUBSET Workers, cleaning : BOOLEAN, faults : [FaultKinds -> Nat]]

ASSUME ConfigsAssumption ==
    /\ Configs \subseteq Config
    /\ Sessions \subseteq Nat /\ Containers \subseteq Nat
    /\ NoOne \notin Sessions \cup Containers

VARIABLES
    config,     \* the deployment, never changed
    cont,       \* containers: [life, exclusive]
    cache,      \* per worker, pods known to its watch (k8s): [init, pods]
    store,      \* the state provider
    sess,       \* per session, the coroutine that started it
    cleaner,    \* per worker, its background task
    bg,         \* holder of the lock `background`, or NoOne
    served,     \* history: sessions that were given a container
    faults      \* failures so far

vars == <<config, cont, cache, store, sess, cleaner, bg, served, faults>>

Exists == {"new", "up", "bad"}
Ended == {"ended", "failed", "dead"}

NoSession == [pc |-> "idle", at |-> NoOne, cands |-> {}, sel |-> NoOne,
              mine |-> {}, excl |-> {}, page |-> FALSE]
NoCleaning == [pc |-> "off", todo |-> {}, victim |-> NoOne, step |-> "check"]

Docker == config.driver = "docker"
Local == config.provider = "local"

-----------------------------------------------------------------------------
(* The state provider in use.  A provider with leases refuses an operation *)
(* in the name of a session whose lease is gone.                           *)

Refused(s) == config.provider \in {"consul", "etcd"} /\ s \notin store.live

AcquireLock(s) ==
    [local |-> LocalAcquire(store, s), redis |-> RedisAcquire(store, s),
     consul |-> ConsulAcquire(store, s), etcd |-> EtcdAcquire(store, s)][config.provider]

ReleaseLock(st, s) ==
    [local |-> st, redis |-> RedisRelease(st, s),
     consul |-> ConsulRelease(st, s), etcd |-> EtcdRelease(st, s)][config.provider]

AllocateContainer(c, s) ==
    [local |-> LocalAllocate(store, c, s), redis |-> RedisAllocate(store, c, s),
     consul |-> ConsulAllocate(store, c, s), etcd |-> EtcdAllocate(store, c, s)][config.provider]

RemoveContainer(c) ==
    [local |-> LocalRemove(store, c), redis |-> RedisRemove(store, c),
     consul |-> ConsulRemove(store, c), etcd |-> EtcdRemove(store, c)][config.provider]

StoreData(s, d) ==
    [local |-> LocalStore(store, s, d), redis |-> RedisStore(store, s, d),
     consul |-> ConsulStore(store, s, d), etcd |-> EtcdStore(store, s, d)][config.provider]

DeleteSession(s) ==
    [local |-> LocalDelete(store, s), redis |-> RedisDelete(store, s),
     consul |-> ConsulDelete(store, s), etcd |-> EtcdDelete(store, s)][config.provider]

-----------------------------------------------------------------------------
(* Calls of the container engine.                                          *)

Failures(kind, n) ==
    /\ faults[kind] + n <= config.faults[kind]
    /\ faults' = [faults EXCEPT ![kind] = @ + n]

\* A call fails after as many failures as it has attempts.
DockerCallFails(kind, retry) == Failures(kind, IF retry THEN 2 ELSE 1)
ApiCallFails(kind, retry) == Failures(kind, IF retry THEN 2 ELSE 1)

Shared == {c \in Containers : cont[c].life \in Exists /\ ~cont[c].exclusive}

\* The shared containers a session may be given: docker lists them afresh,
\* k8s reads the cache its watch maintains, filled at the first use.
IdentifyContainers == {c \in Shared : cont[c].life # "bad"}
IdentifyPods(w) == IF cache[w].init THEN cache[w].pods ELSE Shared
Candidates(w) == IF Docker THEN IdentifyContainers ELSE IdentifyPods(w)

\* The cache after a use.
Identified(w) ==
    IF Docker THEN cache ELSE [cache EXCEPT ![w] = [init |-> TRUE, pods |-> Candidates(w)]]

RecordPod(w, c) == [cache EXCEPT ![w].pods = @ \cup {c}]
EvictPod(w, c) == [cache EXCEPT ![w].pods = @ \ {c}]

\* Mutated form of DockerHealthy: a container that is gone is waited for.
DockerHealthyIfListed(s) == \A c \in sess[s].mine : cont[c].life = "up"

\* docker waits until no container of the session is starting or unhealthy,
\* and does not miss one that is gone; k8s waits while a pod is not found, and
\* does not wait for one that is being deleted.
DockerHealthy(s) == \A c \in sess[s].mine : cont[c].life \in {"up", "gone"}
PodsHealthy(s) == \A c \in sess[s].mine : cont[c].life = "up"
PodsDeleting(s) == ~Docker /\ \A c \in sess[s].mine : cont[c].life \in {"up", "gone"}
Healthy(s) == IF Docker THEN DockerHealthy(s) ELSE PodsHealthy(s)

-----------------------------------------------------------------------------
(* start_session                                                           *)

NeedsExclusive == config.reuse = 1 \/ (config.reuse # 0 /\ ~config.immutable)

\* Mutated form of Below: off by one.
BelowOrAt(n, limit) == limit = 0 \/ n <= limit

Below(n, limit) == limit = 0 \/ n < limit

Usable(c) ==
    /\ Below(store.uses[c], config.reuse)
    /\ Below(Cardinality(store.alloc[c]), config.concurrency)

Fail(s) == [sess EXCEPT ![s].pc = "failed", ![s].cands = {}]

StartSession(s, w) ==
    /\ s \in config.clients /\ w \in config.workers
    /\ sess[s].pc = "idle" /\ \A r \in config.clients : sess[r].pc = "idle" => s <= r
    /\ store' = [store EXCEPT !.live = @ \cup {s}]
    /\ sess' = [sess EXCEPT ![s].at = w,
                            ![s].pc = IF NeedsExclusive THEN "create" ELSE "identify"]
    /\ UNCHANGED <<config, cont, cache, cleaner, bg, served, faults>>

\* A new container; k8s enters a shared pod into its cache.
CreateContainer(c, exclusive) ==
    /\ cont' = [cont EXCEPT ![c] = [life |-> "new", exclusive |-> exclusive]]
    /\ UNCHANGED cache
CreatePod(w, c, exclusive) ==
    /\ cont' = [cont EXCEPT ![c] = [life |-> "new", exclusive |-> exclusive]]
    /\ cache' = IF exclusive THEN cache ELSE RecordPod(w, c)

\* For the session alone ("create"), or to be shared ("grow"): then the new
\* container is a candidate like the others.
Create(s) ==
    /\ sess[s].pc \in {"create", "grow"}
    /\ \E c \in Containers :
        /\ cont[c].life = "none" /\ \A d \in Containers : cont[d].life = "none" => c <= d
        /\ IF Docker THEN CreateContainer(c, sess[s].pc = "create")
           ELSE CreatePod(sess[s].at, c, sess[s].pc = "create")
        /\ sess' = IF sess[s].pc = "create"
                   THEN [sess EXCEPT ![s].pc = "allocate", ![s].sel = c]
                   ELSE [sess EXCEPT ![s].pc = "lock", ![s].cands = @ \cup {c}]
    /\ UNCHANGED <<config, store, cleaner, bg, served, faults>>

\* An exception leaves start_session at once: what has been allocated so far
\* stays recorded.
CreateFails(s) ==
    /\ sess[s].pc \in {"create", "grow"}
    /\ IF Docker THEN DockerCallFails("create", FALSE) ELSE ApiCallFails("create", FALSE)
    /\ sess' = Fail(s)
    /\ UNCHANGED <<config, cont, cache, store, cleaner, bg, served>>

Identify(s) ==
    /\ sess[s].pc = "identify"
    /\ sess' = [sess EXCEPT ![s].pc = "lock", ![s].cands = Candidates(sess[s].at)]
    /\ cache' = Identified(sess[s].at)
    /\ UNCHANGED <<config, cont, store, cleaner, bg, served, faults>>

\* with_lock asks again until it has the lock.
Lock(s) ==
    /\ sess[s].pc = "lock"
    /\ \/ /\ ~Refused(s)
          /\ Local \/ AcquireLock(s).lock = s
          /\ store' = AcquireLock(s)
          /\ sess' = [sess EXCEPT ![s].pc = "select"]
       \/ /\ Refused(s)
          /\ sess' = Fail(s)
          /\ UNCHANGED store
    /\ UNCHANGED <<config, cont, cache, cleaner, bg, served, faults>>

\* The container selected last is recorded as the session's: the lock is
\* given back if it is a shared one, and the homepage comes next, if any.
Taken(s, c) ==
    [sess EXCEPT ![s].mine = @ \cup {c},
                 ![s].excl = IF cont[c].exclusive THEN @ \cup {c} ELSE @,
                 ![s].sel = NoOne,
                 ![s].cands = {},
                 ![s].page = config.homepage,
                 ![s].pc = IF config.homepage /\ ~sess[s].page THEN "create" ELSE "store"]

Serve(c, s) == served' = [served EXCEPT ![c] = @ \cup {s}]

\* The first candidate below the limits, or a new container.  In the memory
\* of one process nothing runs between the choice and its record.
Select(s) ==
    /\ sess[s].pc = "select"
    /\ LET usable == {c \in sess[s].cands : Usable(c)} IN
       \/ \E c \in usable :
            \/ /\ Local
               /\ store' = AllocateContainer(c, s) /\ Serve(c, s) /\ sess' = Taken(s, c)
            \/ /\ ~Local
               /\ sess' = [sess EXCEPT ![s].pc = "allocate", ![s].sel = c]
               /\ UNCHANGED <<store, served>>
       \/ /\ usable = {}
          /\ store' = ReleaseLock(store, s)
          /\ sess' = [sess EXCEPT ![s].pc = "grow"]
          /\ UNCHANGED served
    /\ UNCHANGED <<config, cont, cache, cleaner, bg, faults>>

\* allocate_container: the key of the allocation, then the number of uses.
Allocate(s) ==
    /\ sess[s].pc = "allocate"
    /\ LET c == sess[s].sel IN
       \/ /\ ~Refused(s)
          /\ store' = AllocateContainer(c, s)
          /\ Serve(c, s)
          /\ sess' = IF Local THEN Taken(s, c) ELSE [sess EXCEPT ![s].pc = "count"]
       \/ /\ Refused(s)
          /\ store' = ReleaseLock(store, s)
          /\ sess' = Fail(s)
          /\ UNCHANGED served
    /\ UNCHANGED <<config, cont, cache, cleaner, bg, faults>>

Count(s) ==
    /\ sess[s].pc = "count"
    /\ store' = ReleaseLock(AddUse(store, sess[s].sel), s)
    /\ sess' = Taken(s, sess[s].sel)
    /\ UNCHANGED <<config, cont, cache, cleaner, bg, served, faults>>

StoreSession(s) ==
    /\ sess[s].pc = "store"
    /\ store' = StoreData(s, [all |-> sess[s].mine, excl |-> sess[s].excl])
    /\ sess' = IF Refused(s) THEN Fail(s) ELSE [sess EXCEPT ![s].pc = "health"]
    /\ UNCHANGED <<config, cont, cache, cleaner, bg, served, faults>>

WaitForHealth(s) ==
    /\ sess[s].pc = "health"
    /\ \/ Healthy(s) /\ sess' = [sess EXCEPT ![s].pc = "running"]
       \/ ~Docker /\ (\E c \in sess[s].mine : cont[c].life = "bad") /\ sess' = Fail(s)
    /\ UNCHANGED <<config, cont, cache, store, cleaner, bg, served, faults>>

PassOverDeleting(s) ==
    /\ sess[s].pc = "health" /\ PodsDeleting(s)
    /\ sess' = [sess EXCEPT ![s].pc = "running"]
    /\ UNCHANGED <<config, cont, cache, store, cleaner, bg, served, faults>>

StartStep(s) ==
    \/ Create(s) \/ CreateFails(s) \/ Identify(s) \/ Lock(s) \/ Select(s)
    \/ Allocate(s) \/ Count(s) \/ StoreSession(s) \/ WaitForHealth(s)

-----------------------------------------------------------------------------
(* end_session                                                             *)

EndSession(s) ==
    /\ sess[s].pc = "running"
    /\ sess' = [sess EXCEPT ![s].pc = IF store.data[s] = NoData THEN "drop" ELSE "release"]
    /\ UNCHANGED <<config, cont, cache, store, cleaner, bg, served, faults>>

\* Mutated form of Left: the allocation of every session is released.
AllLeft(users, s) == {}

Left(users, s) == users \ {s}

\* Under the lock, which is free at once or asked for again.
ReleaseShared(s) ==
    /\ sess[s].pc = "release"
    /\ Local \/ AcquireLock(s).lock = s
    /\ store' = [store EXCEPT !.alloc = [c \in Containers |->
                    IF c \in sess[s].mine \ sess[s].excl THEN Left(@[c], s) ELSE @[c]]]
    /\ sess' = [sess EXCEPT ![s].pc = "delete"]
    /\ UNCHANGED <<config, cont, cache, cleaner, bg, served, faults>>

\* delete_container forgets the container whether or not docker deletes it;
\* delete_pod, and end_session itself for a pod it cannot read, keep the record.
DeleteContainer(c, ok) ==
    /\ cont' = IF ok THEN [cont EXCEPT ![c].life = "gone"] ELSE cont
    /\ store' = RemoveContainer(c)
DeletePod(w, c, ok) ==
    \/ /\ ok /\ cont[c].life \in Exists
       /\ cont' = [cont EXCEPT ![c].life = "gone"]
       /\ store' = RemoveContainer(c)
       /\ cache' = EvictPod(w, c)
    \/ /\ ~ok \/ cont[c].life = "gone"
       /\ UNCHANGED <<cont, store, cache>>

DeleteFails == IF Docker THEN DockerCallFails("delete", FALSE) ELSE ApiCallFails("delete", TRUE)

Delete(w, c) ==
    \/ /\ Docker /\ DeleteContainer(c, TRUE) /\ UNCHANGED <<cache, faults>>
    \/ /\ Docker /\ cont[c].life \in Exists
       /\ DeleteFails /\ DeleteContainer(c, FALSE) /\ UNCHANGED cache
    \/ /\ ~Docker /\ DeletePod(w, c, TRUE) /\ UNCHANGED faults
    \/ /\ ~Docker /\ DeleteFails /\ DeletePod(w, c, FALSE)

DeleteExclusive(s) ==
    /\ sess[s].pc = "delete"
    /\ \/ \E c \in sess[s].excl :
            /\ Delete(sess[s].at, c)
            /\ sess' = [sess EXCEPT ![s].excl = @ \ {c}]
       \/ /\ sess[s].excl = {}
          /\ sess' = [sess EXCEPT ![s].pc = "drop"]
          /\ UNCHANGED <<cont, cache, store, faults>>
    /\ UNCHANGED <<config, cleaner, bg, served>>

DropSession(s) ==
    /\ sess[s].pc = "drop"
    /\ store' = DeleteSession(s)
    /\ sess' = [sess EXCEPT ![s] = [NoSession EXCEPT !.pc = "ended"]]
    /\ UNCHANGED <<config, cont, cache, cleaner, bg, served, faults>>

EndStep(s) == ReleaseShared(s) \/ DeleteExclusive(s) \/ DropSession(s)

-----------------------------------------------------------------------------
(* background_task: _clean_containers / _clean_pods, one worker at a time. *)

\* Mutated form of ExclusiveContainers: only unhealthy ones are looked at.
ExclusiveUnhealthy == {c \in Containers : cont[c].life = "bad" /\ cont[c].exclusive}

\* What each pass lists: exclusive containers, shared ones that are not
\* healthy (a pod that is still starting is one), candidates for reuse.
ExclusiveContainers == {c \in Containers : cont[c].life \in Exists /\ cont[c].exclusive}
UnhealthyContainers == {c \in Shared : cont[c].life = "bad"}
UnhealthyPods == {c \in Shared : cont[c].life \in {"new", "bad"}}

Listed(w, pass) ==
    CASE pass = "exclusive" -> ExclusiveContainers
      [] pass = "unhealthy" -> IF Docker THEN UnhealthyContainers ELSE UnhealthyPods
      [] pass = "reuse" -> IF config.reuse = 0 THEN {} ELSE Candidates(w)
      [] pass = "off" -> {}

Pass(w, pass) ==
    cleaner' = [cleaner EXCEPT ![w] = [NoCleaning EXCEPT !.pc = pass, !.todo = Listed(w, pass)]]

CleanBegin(w) ==
    /\ w \in config.workers /\ config.cleaning
    /\ cleaner[w].pc = "off"
    /\ Local \/ bg = NoOne
    /\ bg' = IF Local THEN bg ELSE w
    /\ Pass(w, "exclusive")
    /\ UNCHANGED <<config, cont, cache, store, sess, served, faults>>

\* The two questions about a container are two calls to the store.
CleanCheck(w) ==
    /\ cleaner[w].step = "check"
    /\ \E c \in cleaner[w].todo :
        cleaner' = [cleaner EXCEPT
            ![w].todo = @ \ {c},
            ![w].victim = IF store.alloc[c] = {} THEN c ELSE NoOne,
            ![w].step = CASE store.alloc[c] # {} -> "check"
                          [] store.alloc[c] = {} /\ cleaner[w].pc = "reuse" -> "uses"
                          [] OTHER -> "delete"]
    /\ UNCHANGED <<config, cont, cache, store, sess, bg, served, faults>>

\* Mutated form of WornOut: off by one.
WornOutEarly(c) == store.uses[c] >= config.reuse - 1

WornOut(c) == store.uses[c] >= config.reuse

CleanUses(w) ==
    /\ cleaner[w].step = "uses"
    /\ cleaner' = [cleaner EXCEPT ![w].step = IF WornOut(cleaner[w].victim) THEN "delete" ELSE "check"]
    /\ UNCHANGED <<config, cont, cache, store, sess, bg, served, faults>>

CleanDelete(w) ==
    /\ cleaner[w].step = "delete"
    /\ \/ /\ cont' = [cont EXCEPT ![cleaner[w].victim].life = "gone"]
          /\ cleaner' = [cleaner EXCEPT ![w].step = "forget"]
          /\ UNCHANGED faults
       \/ /\ DeleteFails
          /\ cleaner' = [cleaner EXCEPT ![w].step = IF Docker THEN "forget" ELSE "check"]
          /\ UNCHANGED cont
    /\ UNCHANGED <<config, cache, store, sess, bg, served>>

CleanForget(w) ==
    /\ cleaner[w].step = "forget"
    /\ store' = RemoveContainer(cleaner[w].victim)
    /\ cache' = IF Docker THEN cache ELSE EvictPod(w, cleaner[w].victim)
    /\ cleaner' = [cleaner EXCEPT ![w].step = "check", ![w].victim = NoOne]
    /\ UNCHANGED <<config, cont, sess, bg, served, faults>>

CleanNext(w) ==
    /\ cleaner[w].pc # "off" /\ cleaner[w].step = "check" /\ cleaner[w].todo = {}
    /\ Pass(w, [exclusive |-> "unhealthy", unhealthy |-> "reuse", reuse |-> "off"][cleaner[w].pc])
    /\ cache' = IF cleaner[w].pc = "unhealthy" THEN Identified(w) ELSE cache
    /\ bg' = IF cleaner[w].pc = "reuse" /\ bg = w THEN NoOne ELSE bg
    /\ UNCHANGED <<config, cont, store, sess, served, faults>>

CleanStep(w) ==
    CleanBegin(w) \/ CleanCheck(w) \/ CleanUses(w) \/ CleanDelete(w) \/ CleanForget(w) \/ CleanNext(w)

-----------------------------------------------------------------------------
(* Time and failures.                                                      *)

\* A session that runs is renewed in time by its sample, and the operations
\* of one critical section take less than the time to live of a lock.  A
\* session that is being started, or that nobody owns any more, is not renewed.
Renewed(s) == sess[s].pc \notin {"create", "grow", "health"} \cup Ended

\* redis has a time to live per key, and none for the session as such.
HasKeys(s) ==
    store.lock = s \/ store.data[s] # NoData \/ \E c \in Containers : s \in store.alloc[c]

Expire(s) ==
    /\ ~Local /\ s \in store.live /\ ~Renewed(s)
    /\ config.provider = "redis" => HasKeys(s)
    /\ store' = WithoutLease(store, s)
    /\ UNCHANGED <<config, cont, cache, sess, cleaner, bg, served, faults>>

BackgroundExpires ==
    /\ bg # NoOne /\ cleaner[bg].pc = "off"
    /\ bg' = NoOne
    /\ UNCHANGED <<config, cont, cache, store, sess, cleaner, served, faults>>

\* The process of a worker is killed and started again.
Crash(w) ==
    /\ w \in config.workers /\ Failures("crash", 1)
    /\ sess' = [s \in Sessions |->
                  IF sess[s].at = w /\ sess[s].pc \notin Ended
                  THEN [sess[s] EXCEPT !.pc = "dead", !.cands = {}] ELSE sess[s]]
    /\ store' = IF Local THEN EmptyStore(Containers, Sessions) ELSE store
    /\ cleaner' = [cleaner EXCEPT ![w] = NoCleaning]
    /\ cache' = [cache EXCEPT ![w] = [init |-> FALSE, pods |-> {}]]
    /\ UNCHANGED <<config, cont, bg, served>>

\* A container starts up; it may fail its health check or disappear.
ContainerReady(c) ==
    /\ cont[c].life = "new"
    /\ cont' = [cont EXCEPT ![c].life = "up"]
    /\ UNCHANGED <<config, cache, store, sess, cleaner, bg, served, faults>>

ContainerFails(c) ==
    /\ Failures("health", 1)
    /\ \E life \in {"bad", "gone"} :
        /\ cont[c].life \in {"new", "up"}
        /\ cont' = [cont EXCEPT ![c].life = life]
    /\ UNCHANGED <<config, cache, store, sess, cleaner, bg, served>>

\* The watch brings the cache of a worker up to date, or loses its place and
\* makes the next use list the pods again.
WatchPods(w) ==
    /\ ~Docker /\ cache[w].init
    /\ \/ cache' = [cache EXCEPT ![w].pods = Shared]
       \/ cache' = [cache EXCEPT ![w].init = FALSE]
    /\ UNCHANGED <<config, cont, store, sess, cleaner, bg, served, faults>>

-----------------------------------------------------------------------------
Init ==
    /\ config \in Configs
    /\ cont = [c \in Containers |-> [life |-> "none", exclusive |-> FALSE]]
    /\ cache = [w \in Workers |-> [init |-> FALSE, pods |-> {}]]
    /\ store = EmptyStore(Containers, Sessions)
    /\ sess = [s \in Sessions |-> NoSession]
    /\ cleaner = [w \in Workers |-> NoCleaning]
    /\ bg = NoOne
    /\ served = [c \in Containers |-> {}]
    /\ faults = [kind \in FaultKinds |-> 0]

Next ==
    \/ \E s \in Sessions, w \in Workers : StartSession(s, w)
    \/ \E s \in Sessions : StartStep(s) \/ PassOverDeleting(s) \/ EndSession(s) \/ EndStep(s) \/ Expire(s)
    \/ \E w \in Workers : CleanStep(w) \/ WatchPods(w) \/ Crash(w)
    \/ \E c \in Containers : ContainerReady(c) \/ ContainerFails(c)
    \/ BackgroundExpires

Spec == Init /\ [][Next]_vars

\* Coroutines run and calls return, locks and leases that nobody renews
\* expire, containers start up and the background tasks keep running.
Fairness ==
    /\ \A s \in Sessions : WF_vars(StartStep(s)) /\ WF_vars(EndStep(s))
    /\ \A s \in Sessions : WF_vars(sess[s].pc \in Ended /\ Expire(s))
    /\ \A w \in Workers : WF_vars(CleanStep(w))
    /\ \A c \in Containers : WF_vars(ContainerReady(c))
    /\ WF_vars(BackgroundExpires)

FairSpec == Spec /\ Fairness

-----------------------------------------------------------------------------
(* Properties.                                                             *)

\* The sessions that use a container: they were given it, have not begun to
\* give it back, and are still known to the store.
Users(c) ==
    {s \in store.live :
        /\ c \in sess[s].mine \/ (sess[s].pc = "count" /\ sess[s].sel = c)
        /\ sess[s].pc \notin Ended \cup {"delete", "drop"}}

\* A worker that is killed between the two commands of allocate_container
\* leaves a use that was not counted; one of a session whose keys expired
\* while it was being started (its homepage took longer) counts afterwards.
Uncounted(c) ==
    {s \in Sessions : /\ sess[s].sel = c
                      /\ sess[s].pc = "dead" \/ (sess[s].pc = "count" /\ s \notin store.live)}

Pool == INSTANCE ContainerPool WITH
    limits <- [concurrency |-> config.concurrency, reuse |-> config.reuse],
    life <- [c \in Containers |-> IF cont[c].life \in Exists THEN "up" ELSE cont[c].life],
    users <- [c \in Containers |-> Users(c)],
    served <- [c \in Containers |-> served[c] \ Uncounted(c)]

\* The environments implement ContainerPool: whatever the workers, their
\* cleaners and the expiry of locks and leases do, a container that runs is
\* never used by more sessions than its limits allow (docker.py:158-175,
\* k8s.py:217-246).
PoolSpec == Pool!Spec

\* Docker's delete_container forgets a container whether or not docker
\* deleted it (docker.py:517-526): from then on the record may be behind.
Deletes == Docker => faults["delete"] = 0

\* The record is never behind: a session that uses a container that runs
\* has an allocation key there, so that the cleaners and the other sessions
\* see it (docker.py:170-190, :240-243, :529-575; state/_base.py:33-63).
UseIsRecorded ==
    Deletes => \A c \in Containers : cont[c].life \in Exists => Users(c) \subseteq store.alloc[c]

\* A cleaner deletes a healthy shared container only when it has been used
\* as often as allowed, although it reads the two counters at different times
\* (docker.py:561-575).
UsefulKept ==
    [][\A w \in Workers, c \in Containers :
          /\ CleanDelete(w) /\ cleaner[w].victim = c /\ cleaner[w].pc = "reuse"
          /\ cont[c].life = "up"
          => Cardinality(served[c]) >= config.reuse]_vars

\* A session that is started runs or fails in the end.  The wait for health has
\* no limit: it is the one place where a start may stay, for an unhealthy
\* container (docker.py:363-388) or for a pod that has disappeared
\* (k8s.py:955-1039).
WaitsForEver(s) ==
    /\ sess[s].pc = "health"
    /\ \E c \in sess[s].mine : cont[c].life = IF Docker THEN "bad" ELSE "gone"
StartReturns ==
    \A s \in Sessions :
        sess[s].pc # "idle" ~> sess[s].pc \in Ended \cup {"running"} \/ WaitsForEver(s)

\* Nothing leaks: exclusive containers whose session has died or failed are
\* removed in the end, by any worker that is left (docker.py:529-545).
Abandoned ==
    {c \in Containers : /\ cont[c].life \in Exists /\ cont[c].exclusive
                        /\ \A s \in Sessions :
                              c \in sess[s].mine \cup {sess[s].sel} => sess[s].pc \in Ended}
AbandonedRemoved == \A c \in Containers : c \in Abandoned ~> cont[c].life = "gone"
=============================================================================
