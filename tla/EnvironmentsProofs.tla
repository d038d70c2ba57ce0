------------------------ MODULE EnvironmentsProofs --------------------------
(***************************************************************************)
(* Proofs about Environments: the record of the state provider is never    *)
(* behind the use of the containers, useful containers are kept, and the   *)
(* environments implement ContainerPool.                                   *)
(*                                                                         *)
(* The argument is that of allocation under a lock.  What a session reads  *)
(* of a container under the lock (StillUsable) stays true until it has     *)
(* written both its allocation and its use, because nobody else chooses    *)
(* the same container (OneChooser, from LockHeld, and because an exclusive *)
(* container is named by nobody else); all other steps only take away.     *)
(* So the actions are of three kinds: Quiet ones, which give no container  *)
(* to a session; Giving ones, the up to three steps in which a session is  *)
(* given a container; and Creating ones.  Each kind is shown to preserve   *)
(* Inv once, and each action to be of its kind; each is shown to be a step *)
(* of the pool or a stutter (Refines) in the same place.                   *)
(***************************************************************************)
EXTENDS Environments, FiniteSetTheorems, TLAPS

\* Types.  The values of a field are those the code can give it.
Pcs == {"idle", "create", "grow", "identify", "lock", "select", "allocate", "count", "store",
        "health", "running", "release", "delete", "drop"} \cup Ended
SessionRecord ==
    [pc : Pcs, at : Workers \cup {NoOne}, cands : SUBSET Containers, sel : Containers \cup {NoOne},
     mine : SUBSET Containers, excl : SUBSET Containers, page : BOOLEAN]
ContainerRecord == [life : {"none", "new", "up", "bad", "gone"}, exclusive : BOOLEAN]
CacheRecord == [init : BOOLEAN, pods : SUBSET Containers]
CleanerRecord ==
    [pc : {"off", "exclusive", "unhealthy", "reuse"}, todo : SUBSET Containers,
     victim : Containers \cup {NoOne}, step : {"check", "uses", "delete", "forget"}]
SessionData == [all : SUBSET Containers, excl : SUBSET Containers] \cup {NoData}
Store ==
    [alloc : [Containers -> SUBSET Sessions], uses : [Containers -> Nat],
     data : [Sessions -> SessionData], live : SUBSET Sessions, lock : Sessions \cup {NoOne}]

TypeOK ==
    /\ config \in Configs
    /\ cont \in [Containers -> ContainerRecord]
    /\ cache \in [Workers -> CacheRecord]
    /\ store \in Store
    /\ sess \in [Sessions -> SessionRecord]
    /\ cleaner \in [Workers -> CleanerRecord]
    /\ bg \in Workers \cup {NoOne}
    /\ served \in [Containers -> SUBSET Sessions]
    /\ faults \in [FaultKinds -> Nat]

\* A container that has been created, whatever became of it.
Made(c) == cont[c].life # "none"

\* Whatever names a container names one that has been created; the lists of
\* candidates name shared ones.
NamesKnown ==
    /\ \A s \in Sessions : \A c \in Containers :
          /\ c \in sess[s].mine \cup sess[s].excl => Made(c)
          /\ c = sess[s].sel => Made(c)
          /\ c \in sess[s].cands => Made(c) /\ ~cont[c].exclusive
    /\ \A w \in Workers : \A c \in Containers :
          /\ c \in cache[w].pods => Made(c) /\ ~cont[c].exclusive
          /\ c \in cleaner[w].todo => Made(c)
          /\ c = cleaner[w].victim => Made(c)
    /\ \A c \in Containers : served[c] # {} => Made(c)

\* Before a session has been served anything; and from its choice of a
\* container to the end of allocate_container.
Early == {"idle", "identify", "lock", "grow", "select"}
Choosing == {"allocate", "count"}

\* What a session has chosen, and what it has been served.
Stages ==
    \A s \in Sessions :
       /\ sess[s].pc = "idle" => sess[s].mine = {}
       /\ sess[s].pc = "identify" => sess[s].at \in Workers
       /\ sess[s].pc \in Early =>
             \A c \in Containers : s \notin served[c]
       /\ sess[s].pc \in Choosing => sess[s].sel \in Containers
       /\ sess[s].sel # NoOne => sess[s].pc \in Choosing \cup {"dead", "failed"}
       /\ sess[s].sel # NoOne /\ s \in served[sess[s].sel] => sess[s].pc \in {"count", "dead"}
       /\ sess[s].pc = "count" => s \in served[sess[s].sel]
       /\ Local /\ sess[s].pc \in Choosing =>
             sess[s].pc = "allocate" /\ cont[sess[s].sel].exclusive

\* The lock on allocation.
LockHeld ==
    ~Local => \A s \in Sessions :
       /\ sess[s].pc = "select" => store.lock = s
       /\ sess[s].pc \in Choosing => cont[sess[s].sel].exclusive \/ store.lock = s

\* No two sessions are choosing the same container.
OneChooser ==
    \A s, t \in Sessions :
       sess[s].pc \in Choosing /\ sess[t].pc \in Choosing /\ sess[s].sel = sess[t].sel => s = t

\* What was read under the lock before allocate_container still holds when
\* its commands run: the check of the limits is not stale.
StillUsable ==
    \A s \in Sessions : sess[s].pc \in Choosing =>
       /\ Below(Cardinality(store.alloc[sess[s].sel] \ {s}), config.concurrency)
       /\ Below(store.uses[sess[s].sel], config.reuse)

\* Who has an allocation was served; only finitely many were.
ServedFinite ==
    \A c \in Containers : IsFiniteSet(served[c]) /\ store.alloc[c] \subseteq served[c]

\* Whether the counts in the record can be relied upon: docker has deleted
\* what it forgot, and no worker with a local record was killed, which takes
\* the record along while the containers go on (state/local.py).
Counts == Deletes /\ (Local => faults["crash"] = 0)

\* The sessions whose use of c has been counted: all that were served, but
\* for those between the two commands of allocate_container.
Counted(c) == served[c] \ {s \in Sessions : sess[s].sel = c /\ sess[s].pc \in {"count", "dead"}}

\* The counter of uses never runs ahead, and is exact while containers that
\* run are not forgotten.
UsesCounted ==
    \A c \in Containers :
       /\ store.uses[c] <= Cardinality(Counted(c))
       /\ Counts /\ cont[c].life \in Exists => Cardinality(Counted(c)) <= store.uses[c]

\* What a cleaner has found about its victim stays true until it acts: a
\* container once served is served for ever, one that is gone stays gone.
Cleaning ==
    \A w \in Workers :
       /\ cleaner[w].step # "check" => cleaner[w].victim \in Containers
       /\ cleaner[w].step = "forget" /\ Deletes => cont[cleaner[w].victim].life = "gone"
       /\ cleaner[w].step = "delete" /\ cleaner[w].pc = "reuse" =>
             config.reuse <= Cardinality(served[cleaner[w].victim])

\* The inductive invariant.
Inv ==
    /\ TypeOK /\ NamesKnown /\ Stages /\ LockHeld /\ OneChooser /\ StillUsable
    /\ ServedFinite /\ UsesCounted /\ Cleaning /\ UseIsRecorded
-----------------------------------------------------------------------------
(* What the operations of the state providers do to a store.               *)

\* The deployment is one of those that are checked.
LEMMA ConfigTypes ==
    ASSUME TypeOK
    PROVE  /\ config \in Config
           /\ config.driver \in {"docker", "k8s"} /\ config.provider \in Providers
           /\ config.concurrency \in Nat /\ config.reuse \in Nat
           /\ config.clients \in SUBSET Sessions /\ config.workers \in SUBSET Workers
           /\ config.faults \in [FaultKinds -> Nat]
BY ConfigsAssumption DEF TypeOK, Config

\* The fields of the store.
LEMMA StoreTypes ==
    ASSUME NEW st \in Store
    PROVE  /\ st.alloc \in [Containers -> SUBSET Sessions] /\ st.uses \in [Containers -> Nat]
           /\ st.data \in [Sessions -> SessionData] /\ st.live \in SUBSET Sessions
           /\ st.lock \in Sessions \cup {NoOne}
BY DEF Store

\* acquire_lock gives the lock to the session that asks, or to nobody new.
LEMMA Acquired ==
    ASSUME TypeOK, NEW s \in Sessions
    PROVE  /\ AcquireLock(s) \in Store
           /\ AcquireLock(s).alloc = store.alloc /\ AcquireLock(s).uses = store.uses
           /\ AcquireLock(s).live = store.live
           /\ ~Local /\ AcquireLock(s).lock = s => store.lock \in {NoOne, s}
<1>1. store \in Store /\ config.provider \in Providers
  BY ConfigTypes DEF TypeOK
<1>2. CASE config.provider = "local"
  BY <1>1, <1>2 DEF AcquireLock, LocalAcquire, Local, Store
<1>3. CASE config.provider = "redis"
  BY <1>1, <1>3 DEF AcquireLock, RedisAcquire, Local, Store
<1>4. CASE config.provider = "consul"
  BY <1>1, <1>4 DEF AcquireLock, ConsulAcquire, Local, Store
<1>5. CASE config.provider = "etcd"
  BY <1>1, <1>5 DEF AcquireLock, EtcdAcquire, Local, Store
<1> QED
  BY <1>1, <1>2, <1>3, <1>4, <1>5 DEF Providers

\* release_lock takes the lock from the session that asks only.
LEMMA Released ==
    ASSUME TypeOK, NEW s \in Sessions, NEW st \in Store
    PROVE  /\ ReleaseLock(st, s) \in Store
           /\ ReleaseLock(st, s).alloc = st.alloc /\ ReleaseLock(st, s).uses = st.uses
           /\ ReleaseLock(st, s).live = st.live
           /\ ReleaseLock(st, s).lock = st.lock \/ (st.lock = s /\ ReleaseLock(st, s).lock = NoOne)
<1>1. config.provider \in Providers
  BY ConfigTypes
<1>2. CASE config.provider = "local"
  BY <1>1, <1>2 DEF ReleaseLock, Store
<1>3. CASE config.provider = "redis"
  BY <1>1, <1>3 DEF ReleaseLock, RedisRelease, Store
<1>4. CASE config.provider = "consul"
  BY <1>1, <1>4 DEF ReleaseLock, ConsulRelease, Store
<1>5. CASE config.provider = "etcd"
  BY <1>1, <1>5 DEF ReleaseLock, EtcdRelease, Store
<1> QED
  BY <1>1, <1>2, <1>3, <1>4, <1>5 DEF Providers

\* allocate_container, when it is not refused, writes the key; in the memory of
\* one process it counts the use as well.
LEMMA Allocated ==
    ASSUME TypeOK, NEW s \in Sessions, NEW c \in Containers, ~Refused(s)
    PROVE  /\ AllocateContainer(c, s) \in Store
           /\ AllocateContainer(c, s).alloc = [store.alloc EXCEPT ![c] = @ \cup {s}]
           /\ AllocateContainer(c, s).uses =
                 IF Local THEN [store.uses EXCEPT ![c] = @ + 1] ELSE store.uses
           /\ AllocateContainer(c, s).live = store.live
           /\ AllocateContainer(c, s).lock = store.lock
<1>1. store \in Store /\ config.provider \in Providers
  BY ConfigTypes DEF TypeOK
<1> DEFINE added == [store EXCEPT !.alloc = [store.alloc EXCEPT ![c] = @ \cup {s}]]
<1>2. /\ AddAllocation(store, c, s) = added /\ added \in Store
      /\ added.alloc = [store.alloc EXCEPT ![c] = @ \cup {s}]
      /\ added.uses = store.uses /\ added.live = store.live /\ added.lock = store.lock
  BY <1>1, StoreTypes DEF AddAllocation, Store
<1> HIDE DEF added
<1>3. CASE config.provider = "local"
  <2>1. AllocateContainer(c, s) = [added EXCEPT !.uses = [added.uses EXCEPT ![c] = @ + 1]]
    BY <1>2, <1>3 DEF AllocateContainer, LocalAllocate, AddUse
  <2> QED
    BY <1>2, <1>3, <2>1 DEF Local, Store
<1>4. CASE config.provider = "redis"
  BY <1>2, <1>4 DEF AllocateContainer, RedisAllocate, Local
<1>5. CASE config.provider = "consul"
  BY <1>2, <1>5 DEF AllocateContainer, ConsulAllocate, Local, Refused
<1>6. CASE config.provider = "etcd"
  BY <1>2, <1>6 DEF AllocateContainer, EtcdAllocate, Local, Refused
<1> QED
  BY <1>1, <1>3, <1>4, <1>5, <1>6 DEF Providers

\* The second command of allocate_container.
LEMMA UseAdded ==
    ASSUME NEW st \in Store, NEW c \in Containers
    PROVE  /\ AddUse(st, c) \in Store
           /\ AddUse(st, c).uses = [st.uses EXCEPT ![c] = @ + 1]
           /\ AddUse(st, c).alloc = st.alloc /\ AddUse(st, c).live = st.live
           /\ AddUse(st, c).lock = st.lock
BY DEF AddUse, Store

\* remove_container forgets the allocations and the number of uses.
LEMMA Removed ==
    ASSUME TypeOK, NEW c \in Containers
    PROVE  /\ RemoveContainer(c) \in Store
           /\ RemoveContainer(c).alloc = [store.alloc EXCEPT ![c] = {}]
           /\ RemoveContainer(c).uses = [store.uses EXCEPT ![c] = 0]
           /\ RemoveContainer(c).live = store.live /\ RemoveContainer(c).lock = store.lock
<1>1. store \in Store /\ config.provider \in Providers
  BY ConfigTypes DEF TypeOK
<1>2. RemoveContainer(c) = Forget(store, c)
  BY <1>1 DEF RemoveContainer, LocalRemove, RedisRemove, ConsulRemove, EtcdRemove, Providers
<1>3. RemoveContainer(c) = [[store EXCEPT !.alloc = [store.alloc EXCEPT ![c] = {}]]
                                EXCEPT !.uses = [store.uses EXCEPT ![c] = 0]]
  BY <1>1, <1>2 DEF Forget, Store
<1>4. /\ [store.alloc EXCEPT ![c] = {}] \in [Containers -> SUBSET Sessions]
      /\ [store.uses EXCEPT ![c] = 0] \in [Containers -> Nat]
  BY <1>1, StoreTypes
<1> QED
  BY <1>1, <1>3, <1>4 DEF Store

\* store_session.
LEMMA Stored ==
    ASSUME TypeOK, NEW s \in Sessions, NEW d \in SessionData
    PROVE  /\ StoreData(s, d) \in Store
           /\ StoreData(s, d).alloc = store.alloc /\ StoreData(s, d).uses = store.uses
           /\ StoreData(s, d).live = store.live /\ StoreData(s, d).lock = store.lock
<1>1. store \in Store /\ config.provider \in Providers
  BY ConfigTypes DEF TypeOK
<1>2. StoreData(s, d) \in {store, [store EXCEPT !.data[s] = d]}
  BY <1>1 DEF StoreData, LocalStore, RedisStore, ConsulStore, EtcdStore, Providers
<1> QED
  BY <1>1, <1>2 DEF Store

\* What goes when a session is deleted or its lease expires is its own.
OwnGone(st, s) ==
    /\ st \in Store /\ st.uses = store.uses
    /\ \A c \in Containers : st.alloc[c] \subseteq store.alloc[c] /\ store.alloc[c] \subseteq st.alloc[c] \cup {s}
    /\ st.live \subseteq store.live /\ store.live \subseteq st.live \cup {s}
    /\ st.lock = store.lock \/ (store.lock = s /\ st.lock = NoOne)

\* The lease of a session expires: state/consul.py, etcd.py; for redis, its keys.
LEMMA LeaseGone ==
    ASSUME TypeOK, NEW s \in Sessions
    PROVE  OwnGone(WithoutLease(store, s), s) /\ s \notin WithoutLease(store, s).live
<1>1. store \in Store
  BY DEF TypeOK
<1> DEFINE left == [c \in Containers |-> store.alloc[c] \ {s}]
           data == [store.data EXCEPT ![s] = NoData]
           lock == IF store.lock = s THEN NoOne ELSE store.lock
<1>2. left \in [Containers -> SUBSET Sessions] /\ data \in [Sessions -> SessionData]
      /\ lock \in Sessions \cup {NoOne}
  BY <1>1 DEF Store, SessionData
<1>3. DOMAIN store.alloc = Containers
  BY <1>1 DEF Store
<1>4. WithoutLease(store, s) = [[[[store EXCEPT !.live = store.live \ {s}] EXCEPT !.data = data]
                                   EXCEPT !.alloc = left] EXCEPT !.lock = lock]
  BY <1>1, <1>3 DEF WithoutLease, Store
<1> HIDE DEF left, data, lock
<1>5. /\ WithoutLease(store, s) \in Store
      /\ WithoutLease(store, s).uses = store.uses /\ WithoutLease(store, s).alloc = left
      /\ WithoutLease(store, s).live = store.live \ {s} /\ WithoutLease(store, s).lock = lock
  BY <1>1, <1>2, <1>4 DEF Store
<1> QED
  BY <1>1, <1>5 DEF OwnGone, left, lock

\* delete_session takes the data of the session or its lease.
LEMMA SessionGone ==
    ASSUME TypeOK, NEW s \in Sessions
    PROVE  OwnGone(DeleteSession(s), s)
<1>1. store \in Store /\ config.provider \in Providers
  BY ConfigTypes DEF TypeOK
<1>2. DeleteSession(s) \in {[store EXCEPT !.data[s] = NoData], WithoutLease(store, s)}
  BY <1>1 DEF DeleteSession, LocalDelete, RedisDelete, ConsulDelete, EtcdDelete, Providers
<1>3. OwnGone([store EXCEPT !.data[s] = NoData], s)
  BY <1>1 DEF OwnGone, Store, SessionData
<1> QED
  BY <1>2, <1>3, LeaseGone

-----------------------------------------------------------------------------
(* Types.                                                                  *)

\* The types of the initial state.
LEMMA InitTypes == Init => TypeOK
BY ConfigsAssumption DEF Init, TypeOK, EmptyStore, Store, SessionData, SessionRecord, Pcs, NoSession,
   NoCleaning, ContainerRecord, CacheRecord, CleanerRecord, Ended

\* The fields of the other variables.
LEMMA FieldTypes ==
    ASSUME TypeOK
    PROVE  /\ \A s \in Sessions :
                /\ sess[s] \in SessionRecord
                /\ sess[s].pc \in Pcs /\ sess[s].at \in Workers \cup {NoOne}
                /\ sess[s].cands \in SUBSET Containers /\ sess[s].sel \in Containers \cup {NoOne}
                /\ sess[s].mine \in SUBSET Containers /\ sess[s].excl \in SUBSET Containers
                /\ sess[s].page \in BOOLEAN
           /\ \A c \in Containers :
                /\ cont[c] \in ContainerRecord
                /\ cont[c].life \in {"none", "new", "up", "bad", "gone"} /\ cont[c].exclusive \in BOOLEAN
           /\ \A w \in Workers :
                /\ cache[w] \in CacheRecord
                /\ cache[w].init \in BOOLEAN /\ cache[w].pods \in SUBSET Containers
                /\ cleaner[w] \in CleanerRecord
                /\ cleaner[w].todo \in SUBSET Containers /\ cleaner[w].victim \in Containers \cup {NoOne}
BY DEF TypeOK, SessionRecord, ContainerRecord, CacheRecord, CleanerRecord

-----------------------------------------------------------------------------
(* Updates of the record of a session.                                     *)

\* Record r with the given fields.
Fields(r, pc, at, cands, sel, mine, excl, page) ==
    /\ r \in SessionRecord
    /\ r.pc = pc /\ r.at = at /\ r.cands = cands /\ r.sel = sel
    /\ r.mine = mine /\ r.excl = excl /\ r.page = page

\* f is sess but for session s.
OnlyChanges(f, s) ==
    /\ f \in [Sessions -> SessionRecord]
    /\ \A t \in Sessions : t # s => f[t] = sess[t]

\* The updates of one field, each.
LEMMA RecordFields ==
    ASSUME NEW r \in SessionRecord
    PROVE  /\ r.pc \in Pcs /\ r.at \in Workers \cup {NoOne} /\ r.cands \in SUBSET Containers
           /\ r.sel \in Containers \cup {NoOne} /\ r.mine \in SUBSET Containers
           /\ r.excl \in SUBSET Containers /\ r.page \in BOOLEAN
BY DEF SessionRecord

LEMMA RecordPc ==
    ASSUME NEW r \in SessionRecord, NEW p \in Pcs
    PROVE  Fields([r EXCEPT !.pc = p], p, r.at, r.cands, r.sel, r.mine, r.excl, r.page)
BY DEF Fields, SessionRecord

LEMMA RecordAt ==
    ASSUME NEW r \in SessionRecord, NEW w \in Workers
    PROVE  Fields([r EXCEPT !.at = w], r.pc, w, r.cands, r.sel, r.mine, r.excl, r.page)
BY DEF Fields, SessionRecord

LEMMA RecordCands ==
    ASSUME NEW r \in SessionRecord, NEW X \in SUBSET Containers
    PROVE  Fields([r EXCEPT !.cands = X], r.pc, r.at, X, r.sel, r.mine, r.excl, r.page)
BY DEF Fields, SessionRecord

LEMMA RecordSel ==
    ASSUME NEW r \in SessionRecord, NEW c \in Containers \cup {NoOne}
    PROVE  Fields([r EXCEPT !.sel = c], r.pc, r.at, r.cands, c, r.mine, r.excl, r.page)
BY DEF Fields, SessionRecord

LEMMA RecordExcl ==
    ASSUME NEW r \in SessionRecord, NEW X \in SUBSET Containers
    PROVE  Fields([r EXCEPT !.excl = X], r.pc, r.at, r.cands, r.sel, r.mine, X, r.page)
BY DEF Fields, SessionRecord

LEMMA RecordMine ==
    ASSUME NEW r \in SessionRecord, NEW X \in SUBSET Containers
    PROVE  Fields([r EXCEPT !.mine = X], r.pc, r.at, r.cands, r.sel, X, r.excl, r.page)
BY DEF Fields, SessionRecord

LEMMA RecordPage ==
    ASSUME NEW r \in SessionRecord, NEW b \in BOOLEAN
    PROVE  Fields([r EXCEPT !.page = b], r.pc, r.at, r.cands, r.sel, r.mine, r.excl, b)
BY DEF Fields, SessionRecord

\* The updates of sess that the actions use.
LEMMA Replace ==
    ASSUME TypeOK, NEW s \in Sessions, NEW q \in SessionRecord
    PROVE  OnlyChanges([sess EXCEPT ![s] = q], s) /\ [sess EXCEPT ![s] = q][s] = q
BY DEF TypeOK, OnlyChanges

LEMMA UpdatePc ==
    ASSUME TypeOK, NEW s \in Sessions, NEW p \in Pcs
    PROVE  LET f == [sess EXCEPT ![s].pc = p]
               r == sess[s]
           IN  OnlyChanges(f, s) /\ Fields(f[s], p, r.at, r.cands, r.sel, r.mine, r.excl, r.page)
<1> DEFINE r == sess[s]
<1>1. sess \in [Sessions -> SessionRecord] /\ r \in SessionRecord
  BY DEF TypeOK
<1>2. [sess EXCEPT ![s].pc = p] = [sess EXCEPT ![s] = [r EXCEPT !.pc = p]]
  BY <1>1
<1>3. Fields([r EXCEPT !.pc = p], p, r.at, r.cands, r.sel, r.mine, r.excl, r.page)
  BY <1>1, RecordPc
<1> QED
  BY Replace, <1>2, <1>3 DEF Fields

LEMMA UpdateExcl ==
    ASSUME TypeOK, NEW s \in Sessions, NEW X \in SUBSET Containers
    PROVE  LET f == [sess EXCEPT ![s].excl = X]
               r == sess[s]
           IN  OnlyChanges(f, s) /\ Fields(f[s], r.pc, r.at, r.cands, r.sel, r.mine, X, r.page)
<1> DEFINE r == sess[s]
<1>1. sess \in [Sessions -> SessionRecord] /\ r \in SessionRecord
  BY DEF TypeOK
<1>2. [sess EXCEPT ![s].excl = X] = [sess EXCEPT ![s] = [r EXCEPT !.excl = X]]
  BY <1>1
<1>3. Fields([r EXCEPT !.excl = X], r.pc, r.at, r.cands, r.sel, r.mine, X, r.page)
  BY <1>1, RecordExcl
<1> QED
  BY Replace, <1>2, <1>3 DEF Fields

LEMMA UpdateAt ==
    ASSUME TypeOK, NEW s \in Sessions, NEW p \in Pcs, NEW w \in Workers
    PROVE  LET f == [sess EXCEPT ![s].at = w, ![s].pc = p]
               r == sess[s]
           IN  OnlyChanges(f, s) /\ Fields(f[s], p, w, r.cands, r.sel, r.mine, r.excl, r.page)
<1> DEFINE r == sess[s]
<1>1. sess \in [Sessions -> SessionRecord] /\ r \in SessionRecord
  BY DEF TypeOK
<1>2. PICK q \in SessionRecord : q = [r EXCEPT !.at = w]
  BY <1>1, RecordAt DEF Fields
<1>3. [sess EXCEPT ![s].at = w, ![s].pc = p] = [sess EXCEPT ![s] = [q EXCEPT !.pc = p]]
  BY <1>1, <1>2
<1>4. Fields(q, r.pc, w, r.cands, r.sel, r.mine, r.excl, r.page)
  BY <1>1, <1>2, RecordAt DEF Fields
<1>5. Fields([q EXCEPT !.pc = p], p, w, r.cands, r.sel, r.mine, r.excl, r.page)
  BY <1>4, RecordPc DEF Fields
<1> QED
  BY Replace, <1>3, <1>5 DEF Fields

LEMMA UpdateCands ==
    ASSUME TypeOK, NEW s \in Sessions, NEW p \in Pcs, NEW X \in SUBSET Containers
    PROVE  LET f == [sess EXCEPT ![s].pc = p, ![s].cands = X]
               r == sess[s]
           IN  OnlyChanges(f, s) /\ Fields(f[s], p, r.at, X, r.sel, r.mine, r.excl, r.page)
<1> DEFINE r == sess[s]
<1>1. sess \in [Sessions -> SessionRecord] /\ r \in SessionRecord
  BY DEF TypeOK
<1>2. PICK q \in SessionRecord : q = [r EXCEPT !.pc = p]
  BY <1>1, RecordPc DEF Fields
<1>3. [sess EXCEPT ![s].pc = p, ![s].cands = X] = [sess EXCEPT ![s] = [q EXCEPT !.cands = X]]
  BY <1>1, <1>2
<1>4. Fields(q, p, r.at, r.cands, r.sel, r.mine, r.excl, r.page)
  BY <1>1, <1>2, RecordPc DEF Fields
<1>5. Fields([q EXCEPT !.cands = X], p, r.at, X, r.sel, r.mine, r.excl, r.page)
  BY <1>4, RecordCands DEF Fields
<1> QED
  BY Replace, <1>3, <1>5 DEF Fields

LEMMA UpdateSel ==
    ASSUME TypeOK, NEW s \in Sessions, NEW p \in Pcs, NEW c \in Containers \cup {NoOne}
    PROVE  LET f == [sess EXCEPT ![s].pc = p, ![s].sel = c]
               r == sess[s]
           IN  OnlyChanges(f, s) /\ Fields(f[s], p, r.at, r.cands, c, r.mine, r.excl, r.page)
<1> DEFINE r == sess[s]
<1>1. sess \in [Sessions -> SessionRecord] /\ r \in SessionRecord
  BY DEF TypeOK
<1>2. PICK q \in SessionRecord : q = [r EXCEPT !.pc = p]
  BY <1>1, RecordPc DEF Fields
<1>3. [sess EXCEPT ![s].pc = p, ![s].sel = c] = [sess EXCEPT ![s] = [q EXCEPT !.sel = c]]
  BY <1>1, <1>2
<1>4. Fields(q, p, r.at, r.cands, r.sel, r.mine, r.excl, r.page)
  BY <1>1, <1>2, RecordPc DEF Fields
<1>5. Fields([q EXCEPT !.sel = c], p, r.at, r.cands, c, r.mine, r.excl, r.page)
  BY <1>4, RecordSel DEF Fields
<1> QED
  BY Replace, <1>3, <1>5 DEF Fields

\* A container that has been taken is recorded as the session's.
LEMMA TakenUpdates ==
    ASSUME TypeOK, NEW s \in Sessions, NEW c \in Containers
    PROVE  /\ OnlyChanges(Taken(s, c), s)
           /\ \E p \in {"create", "store"} :
              \E x \in SUBSET Containers :
                 /\ x \subseteq sess[s].excl \cup {c}
                 /\ Fields(Taken(s, c)[s], p, sess[s].at, {}, NoOne, sess[s].mine \cup {c}, x,
                           config.homepage)
<1> DEFINE r == sess[s]
<1>1. sess \in [Sessions -> SessionRecord] /\ r \in SessionRecord /\ r.mine \cup {c} \in SUBSET Containers
  BY RecordFields DEF TypeOK
<1>2. config.homepage \in BOOLEAN
  BY ConfigsAssumption DEF TypeOK, Config
<1>3. PICK p \in Pcs : p = IF config.homepage /\ ~sess[s].page THEN "create" ELSE "store"
  BY DEF Pcs
<1>4. PICK x \in SUBSET Containers :
        x = IF cont[c].exclusive THEN sess[s].excl \cup {c} ELSE sess[s].excl
  BY <1>1, RecordFields
<1>5. PICK r1 \in SessionRecord : r1 = [r EXCEPT !.mine = r.mine \cup {c}]
  BY <1>1, RecordMine DEF Fields
<1>6. PICK r2 \in SessionRecord : r2 = [r1 EXCEPT !.excl = x]
  BY <1>1, RecordExcl DEF Fields
<1>7. PICK r3 \in SessionRecord : r3 = [r2 EXCEPT !.sel = NoOne]
  BY <1>1, RecordSel DEF Fields
<1>8. PICK r4 \in SessionRecord : r4 = [r3 EXCEPT !.cands = {}]
  BY <1>1, RecordCands DEF Fields
<1>9. PICK r5 \in SessionRecord : r5 = [r4 EXCEPT !.page = config.homepage]
  BY <1>2, RecordPage DEF Fields
<1>10. PICK r6 \in SessionRecord : r6 = [r5 EXCEPT !.pc = p]
  BY <1>1, RecordPc DEF Fields
<1>11. Fields(r6, p, r.at, {}, NoOne, r.mine \cup {c}, x, config.homepage)
  <2>1. Fields(r1, r.pc, r.at, r.cands, r.sel, r.mine \cup {c}, r.excl, r.page)
    BY <1>1, <1>5, RecordMine DEF Fields
  <2>2. Fields(r2, r.pc, r.at, r.cands, r.sel, r.mine \cup {c}, x, r.page)
    BY <2>1, <1>6, RecordExcl DEF Fields
  <2>3. Fields(r3, r.pc, r.at, r.cands, NoOne, r.mine \cup {c}, x, r.page)
    BY <2>2, <1>7, RecordSel DEF Fields
  <2>4. Fields(r4, r.pc, r.at, {}, NoOne, r.mine \cup {c}, x, r.page)
    BY <2>3, <1>8, RecordCands DEF Fields
  <2>5. Fields(r5, r.pc, r.at, {}, NoOne, r.mine \cup {c}, x, config.homepage)
    BY <2>4, <1>9, <1>2, RecordPage DEF Fields
  <2> QED
    BY <2>5, <1>10, RecordPc DEF Fields
<1>12. Taken(s, c) = [sess EXCEPT ![s] = r6]
  BY <1>1, <1>3, <1>4, <1>5, <1>6, <1>7, <1>8, <1>9, <1>10 DEF Taken
<1>13. OnlyChanges(Taken(s, c), s) /\ Taken(s, c)[s] = r6
  BY <1>1, <1>12 DEF OnlyChanges
<1>14. p \in {"create", "store"} /\ x \subseteq sess[s].excl \cup {c}
  BY <1>3, <1>4
<1> QED
  BY <1>11, <1>13, <1>14

\* One session moves; the fields that the invariants speak of.
Moves(s, p, cands, sel, mine) ==
    /\ sess' \in [Sessions -> SessionRecord]
    /\ \A t \in Sessions : t # s => sess'[t] = sess[t]
    /\ sess'[s].pc = p /\ sess'[s].cands = cands /\ sess'[s].sel = sel /\ sess'[s].mine = mine
    /\ sess'[s].excl \subseteq sess[s].excl \cup mine

\* The updates of sess that the actions make are moves.
LEMMA MovePc ==
    ASSUME TypeOK, NEW s \in Sessions, NEW p \in Pcs, sess' = [sess EXCEPT ![s].pc = p]
    PROVE  Moves(s, p, sess[s].cands, sess[s].sel, sess[s].mine)
<1> DEFINE r == sess[s]
<1>1. OnlyChanges(sess', s) /\ Fields(sess'[s], p, r.at, r.cands, r.sel, r.mine, r.excl, r.page)
  BY UpdatePc
<1> QED
  BY <1>1 DEF Moves, OnlyChanges, Fields

LEMMA MoveAt ==
    ASSUME TypeOK, NEW s \in Sessions, NEW w \in Workers, NEW p \in Pcs,
           sess' = [sess EXCEPT ![s].at = w, ![s].pc = p]
    PROVE  Moves(s, p, sess[s].cands, sess[s].sel, sess[s].mine) /\ sess'[s].at = w
<1> DEFINE r == sess[s]
<1>1. OnlyChanges(sess', s) /\ Fields(sess'[s], p, w, r.cands, r.sel, r.mine, r.excl, r.page)
  BY UpdateAt
<1> QED
  BY <1>1 DEF Moves, OnlyChanges, Fields

LEMMA MoveCands ==
    ASSUME TypeOK, NEW s \in Sessions, NEW p \in Pcs, NEW X \in SUBSET Containers,
           sess' = [sess EXCEPT ![s].pc = p, ![s].cands = X]
    PROVE  Moves(s, p, X, sess[s].sel, sess[s].mine)
<1> DEFINE r == sess[s]
<1>1. OnlyChanges(sess', s) /\ Fields(sess'[s], p, r.at, X, r.sel, r.mine, r.excl, r.page)
  BY UpdateCands
<1> QED
  BY <1>1 DEF Moves, OnlyChanges, Fields

LEMMA MoveSel ==
    ASSUME TypeOK, NEW s \in Sessions, NEW p \in Pcs, NEW c \in Containers,
           sess' = [sess EXCEPT ![s].pc = p, ![s].sel = c]
    PROVE  Moves(s, p, sess[s].cands, c, sess[s].mine)
<1> DEFINE r == sess[s]
<1>1. OnlyChanges(sess', s) /\ Fields(sess'[s], p, r.at, r.cands, c, r.mine, r.excl, r.page)
  BY UpdateSel
<1> QED
  BY <1>1 DEF Moves, OnlyChanges, Fields

LEMMA MoveExcl ==
    ASSUME TypeOK, NEW s \in Sessions, NEW c, sess' = [sess EXCEPT ![s].excl = @ \ {c}]
    PROVE  Moves(s, sess[s].pc, sess[s].cands, sess[s].sel, sess[s].mine)
<1> DEFINE r == sess[s]
<1>1. PICK X \in SUBSET Containers : X = sess[s].excl \ {c}
  BY FieldTypes
<1>2. sess' = [sess EXCEPT ![s].excl = X]
  BY <1>1 DEF TypeOK
<1>3. OnlyChanges(sess', s) /\ Fields(sess'[s], r.pc, r.at, r.cands, r.sel, r.mine, X, r.page)
  BY <1>2, UpdateExcl
<1> QED
  BY <1>1, <1>3 DEF Moves, OnlyChanges, Fields

LEMMA MoveFailed ==
    ASSUME TypeOK, NEW s \in Sessions, sess' = Fail(s)
    PROVE  Moves(s, "failed", {}, sess[s].sel, sess[s].mine)
BY MoveCands DEF Fail, Pcs, Ended

LEMMA MoveTaken ==
    ASSUME TypeOK, NEW s \in Sessions, NEW c \in Containers, sess' = Taken(s, c)
    PROVE  \E p \in {"create", "store"} : Moves(s, p, {}, NoOne, sess[s].mine \cup {c})
<1>1. PICK p \in {"create", "store"}, x \in SUBSET Containers :
        /\ x \subseteq sess[s].excl \cup {c}
        /\ Fields(Taken(s, c)[s], p, sess[s].at, {}, NoOne, sess[s].mine \cup {c}, x, config.homepage)
  BY TakenUpdates
<1> QED
  BY <1>1, TakenUpdates DEF Moves, OnlyChanges, Fields

\* The program counters, for steps that name one.
LEMMA PcsAre ==
    /\ {"idle", "create", "grow", "identify", "lock", "select", "allocate", "count", "store"} \subseteq Pcs
    /\ {"health", "running", "release", "delete", "drop", "ended", "failed", "dead"} \subseteq Pcs
BY DEF Pcs, Ended

\* The types after each action; the caches and cleaners come last.
LEMMA StartTypes ==
    ASSUME TypeOK, NEW s \in Sessions, NEW w \in Workers, StartSession(s, w)
    PROVE  TypeOK'
BY DEF StartSession, TypeOK, Store, SessionRecord, Pcs

LEMMA CandidateTypes ==
    ASSUME TypeOK, NEW w \in Workers
    PROVE  /\ Candidates(w) \in SUBSET Containers
           /\ Identified(w) \in [Workers -> CacheRecord]
<1>1. Candidates(w) \in SUBSET Containers
  BY FieldTypes DEF Candidates, IdentifyContainers, IdentifyPods, Shared
<1> QED
  BY <1>1 DEF Identified, TypeOK, CacheRecord

LEMMA CreateTypes ==
    ASSUME TypeOK, NEW s \in Sessions, Create(s)
    PROVE  TypeOK'
<1>1. PICK c \in Containers :
        /\ \/ CreateContainer(c, sess[s].pc = "create")
           \/ CreatePod(sess[s].at, c, sess[s].pc = "create")
        /\ sess' = IF sess[s].pc = "create"
                   THEN [sess EXCEPT ![s].pc = "allocate", ![s].sel = c]
                   ELSE [sess EXCEPT ![s].pc = "lock", ![s].cands = @ \cup {c}]
  BY DEF Create
<1>2. sess' \in [Sessions -> SessionRecord]
  <2>1. CASE sess[s].pc = "create"
    BY <1>1, <2>1, PcsAre, MoveSel DEF Moves
  <2>2. CASE sess[s].pc # "create"
    <3>1. PICK X \in SUBSET Containers : X = sess[s].cands \cup {c}
      BY FieldTypes
    <3>2. sess' = [sess EXCEPT ![s].pc = "lock", ![s].cands = X]
      BY <1>1, <2>2, <3>1 DEF TypeOK
    <3> QED
      BY <3>2, PcsAre, MoveCands DEF Moves
  <2> QED
    BY <2>1, <2>2
<1>3. cont' \in [Containers -> ContainerRecord]
  <2>1. PICK x \in BOOLEAN : cont' = [cont EXCEPT ![c] = [life |-> "new", exclusive |-> x]]
    BY <1>1 DEF CreateContainer, CreatePod
  <2>2. [life |-> "new", exclusive |-> x] \in ContainerRecord
    BY DEF ContainerRecord
  <2> QED
    BY <2>1, <2>2 DEF TypeOK
<1>4. cache' \in [Workers -> CacheRecord]
  <2>1. CASE cache' = cache
    BY <2>1 DEF TypeOK
  <2>2. CASE cache' = RecordPod(sess[s].at, c)
    BY <2>2 DEF TypeOK, RecordPod, CacheRecord
  <2> QED
    BY <1>1, <2>1, <2>2 DEF CreateContainer, CreatePod
<1> QED
  BY <1>2, <1>3, <1>4 DEF Create, TypeOK

LEMMA FailureTypes ==
    ASSUME TypeOK, NEW kind \in FaultKinds, NEW n \in Nat, Failures(kind, n)
    PROVE  /\ faults' \in [FaultKinds -> Nat]
           /\ faults'[kind] = faults[kind] + n
           /\ \A k \in FaultKinds : k # kind => faults'[k] = faults[k]
BY DEF Failures, TypeOK

LEMMA CreateFailsTypes ==
    ASSUME TypeOK, NEW s \in Sessions, CreateFails(s)
    PROVE  TypeOK'
<1>1. faults' \in [FaultKinds -> Nat]
  BY FailureTypes DEF CreateFails, DockerCallFails, ApiCallFails, FaultKinds
<1> QED
  BY <1>1, MoveFailed DEF CreateFails, TypeOK, Moves

LEMMA IdentifyTypes ==
    ASSUME TypeOK, NEW s \in Sessions, sess[s].at \in Workers, Identify(s)
    PROVE  TypeOK'
<1>1. sess' \in [Sessions -> SessionRecord]
  BY CandidateTypes, PcsAre, MoveCands DEF Identify, Moves
<1> QED
  BY <1>1, CandidateTypes DEF Identify, TypeOK

LEMMA LockTypes ==
    ASSUME TypeOK, NEW s \in Sessions, Lock(s)
    PROVE  TypeOK'
<1>1. sess' \in [Sessions -> SessionRecord]
  <2>1. CASE sess' = [sess EXCEPT ![s].pc = "select"]
    BY <2>1, PcsAre, MovePc DEF Moves
  <2>2. CASE sess' = Fail(s)
    BY <2>2, MoveFailed DEF Moves
  <2> QED
    BY <2>1, <2>2 DEF Lock
<1>2. store' \in Store
  BY Acquired DEF Lock, TypeOK
<1> QED
  BY <1>1, <1>2 DEF Lock, TypeOK

LEMMA SelectTypes ==
    ASSUME TypeOK, NEW s \in Sessions, Select(s)
    PROVE  TypeOK'
<1>1. CASE \E c \in sess[s].cands :
              Local /\ store' = AllocateContainer(c, s) /\ Serve(c, s) /\ sess' = Taken(s, c)
  <2>1. PICK c \in Containers :
          Local /\ store' = AllocateContainer(c, s) /\ Serve(c, s) /\ sess' = Taken(s, c)
    BY <1>1, FieldTypes
  <2>2. store' \in Store
    BY <2>1, Allocated DEF Local, Refused
  <2>3. served' \in [Containers -> SUBSET Sessions]
    BY <2>1 DEF Serve, TypeOK
  <2> QED
    BY <2>1, <2>2, <2>3, MoveTaken DEF Select, TypeOK, Moves
<1>2. CASE \E c \in sess[s].cands :
              /\ sess' = [sess EXCEPT ![s].pc = "allocate", ![s].sel = c]
              /\ UNCHANGED <<store, served>>
  <2>1. PICK c \in Containers : sess' = [sess EXCEPT ![s].pc = "allocate", ![s].sel = c]
    BY <1>2, FieldTypes
  <2>2. sess' \in [Sessions -> SessionRecord]
    BY <2>1, PcsAre, MoveSel DEF Moves
  <2> QED
    BY <1>2, <2>2 DEF Select, TypeOK
<1>3. CASE /\ store' = ReleaseLock(store, s)
           /\ sess' = [sess EXCEPT ![s].pc = "grow"]
           /\ UNCHANGED served
  <2>1. sess' \in [Sessions -> SessionRecord]
    BY <1>3, PcsAre, MovePc DEF Moves
  <2> QED
    BY <1>3, <2>1, Released DEF Select, TypeOK
<1> QED
  BY <1>1, <1>2, <1>3 DEF Select

LEMMA AllocateTypes ==
    ASSUME TypeOK, NEW s \in Sessions, sess[s].sel \in Containers, Allocate(s)
    PROVE  TypeOK'
<1>1. sess' \in [Sessions -> SessionRecord]
  <2>1. CASE sess' = Fail(s)
    BY <2>1, MoveFailed DEF Moves
  <2>2. CASE sess' = Taken(s, sess[s].sel)
    BY <2>2, MoveTaken DEF Moves
  <2>3. CASE sess' = [sess EXCEPT ![s].pc = "count"]
    BY <2>3, PcsAre, MovePc DEF Moves
  <2> QED
    BY <2>1, <2>2, <2>3 DEF Allocate
<1>2. CASE ~Refused(s)
  <2>1. /\ store' = AllocateContainer(sess[s].sel, s)
        /\ Serve(sess[s].sel, s)
    BY <1>2 DEF Allocate
  <2>2. served' \in [Containers -> SUBSET Sessions]
    BY <2>1 DEF Serve, TypeOK
  <2> QED
    BY <1>1, <1>2, <2>1, <2>2, Allocated DEF Allocate, TypeOK
<1>3. CASE Refused(s)
  BY <1>1, <1>3, Released DEF Allocate, TypeOK
<1> QED
  BY <1>2, <1>3

LEMMA CountTypes ==
    ASSUME TypeOK, NEW s \in Sessions, sess[s].sel \in Containers, Count(s)
    PROVE  TypeOK'
<1>1. AddUse(store, sess[s].sel) \in Store
  BY UseAdded DEF TypeOK
<1> QED
  BY <1>1, Released, MoveTaken DEF Count, TypeOK, Moves

LEMMA StoreSessionTypes ==
    ASSUME TypeOK, NEW s \in Sessions, StoreSession(s)
    PROVE  TypeOK'
<1>1. [all |-> sess[s].mine, excl |-> sess[s].excl] \in SessionData
  BY FieldTypes DEF SessionData
<1>2. sess' \in [Sessions -> SessionRecord]
  BY PcsAre, MoveFailed, MovePc DEF StoreSession, Moves
<1> QED
  BY <1>1, <1>2, Stored DEF StoreSession, TypeOK

LEMMA WaitTypes ==
    ASSUME TypeOK, NEW s \in Sessions, WaitForHealth(s) \/ PassOverDeleting(s) \/ EndSession(s)
    PROVE  TypeOK'
<1>1. sess' \in [Sessions -> SessionRecord]
  <2>1. CASE sess' = Fail(s)
    BY <2>1, MoveFailed DEF Moves
  <2>2. CASE \E p \in {"running", "drop", "release"} : sess' = [sess EXCEPT ![s].pc = p]
    BY <2>2, PcsAre, MovePc DEF Moves
  <2> QED
    BY <2>1, <2>2 DEF WaitForHealth, PassOverDeleting, EndSession
<1> QED
  BY <1>1 DEF WaitForHealth, PassOverDeleting, EndSession, TypeOK

LEMMA ReleaseSharedTypes ==
    ASSUME TypeOK, NEW s \in Sessions, ReleaseShared(s)
    PROVE  TypeOK'
<1>1. sess' \in [Sessions -> SessionRecord]
  BY PcsAre, MovePc DEF ReleaseShared, Moves
<1>2. store' \in Store
  BY DEF ReleaseShared, TypeOK, Store, Left
<1> QED
  BY <1>1, <1>2 DEF ReleaseShared, TypeOK

LEMMA DeleteTypes ==
    ASSUME TypeOK, NEW w \in Workers \cup {NoOne}, NEW c \in Containers, Delete(w, c)
    PROVE  /\ cont' \in [Containers -> ContainerRecord] /\ store' \in Store
           /\ cache' \in [Workers -> CacheRecord] /\ faults' \in [FaultKinds -> Nat]
<1>1. cont' \in [Containers -> ContainerRecord]
  BY DEF Delete, DeleteContainer, DeletePod, TypeOK, ContainerRecord
<1>2. store' \in Store
  BY Removed DEF Delete, DeleteContainer, DeletePod, TypeOK
<1>3. cache' \in [Workers -> CacheRecord]
  <2>1. CASE cache' = cache
    BY <2>1 DEF TypeOK
  <2>2. CASE cache' = EvictPod(w, c)
    BY <2>2 DEF EvictPod, TypeOK, CacheRecord
  <2> QED
    BY <2>1, <2>2 DEF Delete, DeletePod
<1>4. faults' \in [FaultKinds -> Nat]
  BY FailureTypes DEF Delete, DeleteFails, DockerCallFails, ApiCallFails, FaultKinds, TypeOK
<1> QED
  BY <1>1, <1>2, <1>3, <1>4

LEMMA DeleteExclusiveTypes ==
    ASSUME TypeOK, NEW s \in Sessions, DeleteExclusive(s)
    PROVE  TypeOK'
<1>1. CASE \E c \in sess[s].excl :
              Delete(sess[s].at, c) /\ sess' = [sess EXCEPT ![s].excl = @ \ {c}]
  <2>1. PICK c \in Containers :
              Delete(sess[s].at, c) /\ sess' = [sess EXCEPT ![s].excl = @ \ {c}]
    BY <1>1, FieldTypes
  <2>2. sess' \in [Sessions -> SessionRecord]
    BY <2>1, MoveExcl DEF Moves
  <2> QED
    BY <2>1, <2>2, DeleteTypes, FieldTypes DEF DeleteExclusive, TypeOK
<1>2. CASE /\ sess' = [sess EXCEPT ![s].pc = "drop"]
           /\ UNCHANGED <<cont, cache, store, faults>>
  <2>1. sess' \in [Sessions -> SessionRecord]
    BY <1>2, PcsAre, MovePc DEF Moves
  <2> QED
    BY <1>2, <2>1 DEF DeleteExclusive, TypeOK
<1> QED
  BY <1>1, <1>2 DEF DeleteExclusive

LEMMA DropTypes ==
    ASSUME TypeOK, NEW s \in Sessions, DropSession(s)
    PROVE  TypeOK'
<1>1. sess' \in [Sessions -> SessionRecord]
  <2>1. [NoSession EXCEPT !.pc = "ended"] \in SessionRecord
    BY PcsAre DEF NoSession, SessionRecord
  <2> QED
    BY <2>1 DEF DropSession, TypeOK
<1>2. store' \in Store
  BY SessionGone DEF DropSession, OwnGone
<1> QED
  BY <1>1, <1>2 DEF DropSession, TypeOK

-----------------------------------------------------------------------------

LEMMA ListedTypes ==
    ASSUME TypeOK, NEW w \in Workers, NEW pass \in {"off", "exclusive", "unhealthy", "reuse"}
    PROVE  Listed(w, pass) \in SUBSET Containers
BY CandidateTypes DEF Listed, ExclusiveContainers, UnhealthyContainers, UnhealthyPods, Shared

LEMMA PassTypes ==
    ASSUME TypeOK, NEW w \in Workers, NEW pass \in {"off", "exclusive", "unhealthy", "reuse"},
           Pass(w, pass)
    PROVE  /\ cleaner' \in [Workers -> CleanerRecord]
           /\ cleaner'[w] = [NoCleaning EXCEPT !.pc = pass, !.todo = Listed(w, pass)]
           /\ \A v \in Workers : v # w => cleaner'[v] = cleaner[v]
<1>1. [NoCleaning EXCEPT !.pc = pass, !.todo = Listed(w, pass)] \in CleanerRecord
  BY ListedTypes DEF NoCleaning, CleanerRecord
<1> QED
  BY <1>1 DEF Pass, TypeOK

\* Updates of the record of a cleaner.
LEMMA CleanerFields ==
    ASSUME NEW r \in CleanerRecord, NEW X \in SUBSET Containers
    PROVE  LET a == [r EXCEPT !.todo = X] IN
           a \in CleanerRecord /\ a.pc = r.pc /\ a.todo = X /\ a.victim = r.victim /\ a.step = r.step
BY DEF CleanerRecord

LEMMA CleanerVictim ==
    ASSUME NEW r \in CleanerRecord, NEW x \in Containers \cup {NoOne}
    PROVE  LET a == [r EXCEPT !.victim = x] IN
           a \in CleanerRecord /\ a.pc = r.pc /\ a.todo = r.todo /\ a.victim = x /\ a.step = r.step
BY DEF CleanerRecord

LEMMA CleanerAsks ==
    ASSUME NEW r \in CleanerRecord, NEW p \in {"check", "uses", "delete", "forget"}
    PROVE  LET a == [r EXCEPT !.step = p] IN
           a \in CleanerRecord /\ a.pc = r.pc /\ a.todo = r.todo /\ a.victim = r.victim /\ a.step = p
BY DEF CleanerRecord

LEMMA CleanerStep ==
    ASSUME TypeOK, NEW w \in Workers, NEW p \in {"check", "uses", "delete", "forget"},
           cleaner' = [cleaner EXCEPT ![w].step = p]
    PROVE  /\ cleaner' \in [Workers -> CleanerRecord]
           /\ \A v \in Workers : v # w => cleaner'[v] = cleaner[v]
           /\ cleaner'[w].pc = cleaner[w].pc /\ cleaner'[w].todo = cleaner[w].todo
           /\ cleaner'[w].victim = cleaner[w].victim /\ cleaner'[w].step = p
BY DEF TypeOK, CleanerRecord

LEMMA CleanerForgets ==
    ASSUME TypeOK, NEW w \in Workers, cleaner' = [cleaner EXCEPT ![w].step = "check", ![w].victim = NoOne]
    PROVE  /\ cleaner' \in [Workers -> CleanerRecord]
           /\ \A v \in Workers : v # w => cleaner'[v] = cleaner[v]
           /\ cleaner'[w].pc = cleaner[w].pc /\ cleaner'[w].todo = cleaner[w].todo
           /\ cleaner'[w].victim = NoOne /\ cleaner'[w].step = "check"
<1>1. cleaner \in [Workers -> CleanerRecord] /\ cleaner[w] \in CleanerRecord
  BY DEF TypeOK
<1>2. PICK a \in CleanerRecord : /\ a = [cleaner[w] EXCEPT !.step = "check"]
                                /\ a.pc = cleaner[w].pc /\ a.todo = cleaner[w].todo /\ a.step = "check"
  BY <1>1, CleanerAsks
<1>3. PICK b \in CleanerRecord :
        b = [a EXCEPT !.victim = NoOne] /\ b.pc = a.pc /\ b.todo = a.todo /\ b.step = a.step /\ b.victim = NoOne
  BY <1>2, CleanerVictim
<1>4. cleaner' = [cleaner EXCEPT ![w] = b]
  BY <1>1, <1>2, <1>3
<1> QED
  BY <1>1, <1>2, <1>3, <1>4

LEMMA Checked ==
    ASSUME TypeOK, NEW w \in Workers, CleanCheck(w)
    PROVE  /\ cleaner' \in [Workers -> CleanerRecord]
           /\ \A v \in Workers : v # w => cleaner'[v] = cleaner[v]
           /\ cleaner'[w].pc = cleaner[w].pc /\ cleaner'[w].todo \subseteq cleaner[w].todo
           /\ cleaner'[w].victim \in cleaner[w].todo \cup {NoOne}
           /\ \/ cleaner'[w].step = "check"
              \/ cleaner'[w].victim \in Containers /\ cleaner'[w].step = "uses"
              \/ cleaner'[w].victim \in Containers /\ cleaner'[w].pc # "reuse" /\ cleaner'[w].step = "delete"
<1>1. cleaner[w].todo \in SUBSET Containers
  BY FieldTypes
<1>2. PICK c \in Containers :
        /\ c \in cleaner[w].todo
        /\ cleaner' = [cleaner EXCEPT
            ![w].todo = @ \ {c},
            ![w].victim = IF store.alloc[c] = {} THEN c ELSE NoOne,
            ![w].step = CASE store.alloc[c] # {} -> "check"
                          [] store.alloc[c] = {} /\ cleaner[w].pc = "reuse" -> "uses"
                          [] OTHER -> "delete"]
  BY <1>1 DEF CleanCheck
<1>3. PICK x \in Containers \cup {NoOne} : x = IF store.alloc[c] = {} THEN c ELSE NoOne
  OBVIOUS
<1>4. PICK p \in {"check", "uses", "delete", "forget"} :
        p = CASE store.alloc[c] # {} -> "check"
              [] store.alloc[c] = {} /\ cleaner[w].pc = "reuse" -> "uses"
              [] OTHER -> "delete"
  OBVIOUS
<1>5. PICK X \in SUBSET Containers : X = cleaner[w].todo \ {c}
  BY <1>1
<1>6. cleaner' = [cleaner EXCEPT ![w].todo = X, ![w].victim = x, ![w].step = p]
  BY <1>2, <1>3, <1>4, <1>5 DEF TypeOK
<1>7. cleaner \in [Workers -> CleanerRecord] /\ cleaner[w] \in CleanerRecord
  BY DEF TypeOK
<1>8. PICK a \in CleanerRecord : a = [cleaner[w] EXCEPT !.todo = X] /\ a.pc = cleaner[w].pc /\ a.todo = X
  BY <1>7, CleanerFields
<1>9. PICK b \in CleanerRecord :
        b = [a EXCEPT !.victim = x] /\ b.pc = a.pc /\ b.todo = a.todo /\ b.victim = x
  BY <1>8, CleanerVictim
<1> DEFINE d == [b EXCEPT !.step = p]
<1>10. d \in CleanerRecord /\ d.pc = b.pc /\ d.todo = b.todo /\ d.victim = b.victim /\ d.step = p
  BY <1>9, CleanerAsks
<1> HIDE DEF d
<1>11. cleaner' = [cleaner EXCEPT ![w] = d]
  BY <1>6, <1>7, <1>8, <1>9, <1>10 DEF d
<1>12. cleaner' \in [Workers -> CleanerRecord] /\ cleaner'[w] = d
       /\ \A v \in Workers : v # w => cleaner'[v] = cleaner[v]
  BY <1>7, <1>10, <1>11
<1>13. d.victim \in cleaner[w].todo \cup {NoOne} /\ d.todo \subseteq cleaner[w].todo /\ d.pc = cleaner[w].pc
  BY <1>2, <1>3, <1>5, <1>8, <1>9, <1>10
<1>14. \/ d.step = "check"
       \/ d.victim \in Containers /\ d.step = "uses"
       \/ d.victim \in Containers /\ d.pc # "reuse" /\ d.step = "delete"
  <2>1. p = "check" \/ (x \in Containers /\ p = "uses") \/ (x \in Containers /\ cleaner[w].pc # "reuse" /\ p = "delete")
    BY <1>3, <1>4
  <2> QED
    BY <1>8, <1>9, <1>10, <2>1
<1> QED
  BY <1>12, <1>13, <1>14

LEMMA CleanTypes ==
    ASSUME TypeOK, NEW w \in Workers, CleanStep(w),
           cleaner[w].step # "check" => cleaner[w].victim \in Containers
    PROVE  TypeOK'
<1>1. CASE CleanBegin(w)
  BY <1>1, PassTypes DEF CleanBegin, TypeOK
<1>2. CASE CleanCheck(w)
  BY <1>2, Checked DEF CleanCheck, TypeOK
<1>3. CASE CleanUses(w)
  <2>1. cleaner' \in [Workers -> CleanerRecord]
    BY <1>3 DEF CleanUses, TypeOK, CleanerRecord
  <2> QED
    BY <1>3, <2>1 DEF CleanUses, TypeOK
<1>4. CASE CleanDelete(w)
  <2>1. cleaner' \in [Workers -> CleanerRecord]
    BY <1>4, SMTT(30) DEF CleanDelete, TypeOK, CleanerRecord
  <2>2. cont' \in [Containers -> ContainerRecord]
    BY <1>4 DEF CleanDelete, TypeOK, ContainerRecord
  <2>3. faults' \in [FaultKinds -> Nat]
    BY <1>4, FailureTypes DEF CleanDelete, DeleteFails, DockerCallFails, ApiCallFails, FaultKinds, TypeOK
  <2> QED
    BY <1>4, <2>1, <2>2, <2>3 DEF CleanDelete, TypeOK
<1>5. CASE CleanForget(w)
  <2>1. cleaner' \in [Workers -> CleanerRecord]
    BY <1>5, CleanerForgets DEF CleanForget
  <2>2. cache' \in [Workers -> CacheRecord]
    BY <1>5 DEF CleanForget, EvictPod, TypeOK, CacheRecord
  <2>3. store' \in Store
    BY <1>5, Removed DEF CleanForget
  <2> QED
    BY <1>5, <2>1, <2>2, <2>3 DEF CleanForget, TypeOK
<1>6. CASE CleanNext(w)
  <2>1. PICK pass \in {"off", "exclusive", "unhealthy", "reuse"} : Pass(w, pass)
    <3>1. cleaner[w].pc \in {"exclusive", "unhealthy", "reuse"}
      BY <1>6, FieldTypes DEF CleanNext, CleanerRecord
    <3> QED
      BY <1>6, <3>1 DEF CleanNext
  <2> QED
    BY <1>6, <2>1, PassTypes, CandidateTypes DEF CleanNext, TypeOK
<1> QED
  BY <1>1, <1>2, <1>3, <1>4, <1>5, <1>6 DEF CleanStep

LEMMA ExpireTypes ==
    ASSUME TypeOK, NEW s \in Sessions, Expire(s)
    PROVE  TypeOK'
BY LeaseGone DEF Expire, OwnGone, TypeOK

LEMMA CrashTypes ==
    ASSUME TypeOK, NEW w \in Workers, Crash(w)
    PROVE  TypeOK'
<1>1. sess' \in [Sessions -> SessionRecord]
  <2>1. ASSUME NEW s \in Sessions
        PROVE  [sess[s] EXCEPT !.pc = "dead", !.cands = {}] \in SessionRecord
    <3>1. PICK r \in SessionRecord : r = [sess[s] EXCEPT !.pc = "dead"]
      BY FieldTypes, PcsAre, RecordPc DEF Fields
    <3> QED
      BY <3>1, RecordCands DEF Fields
  <2> QED
    BY <2>1, FieldTypes DEF Crash
<1>2. store' \in Store
  BY DEF Crash, TypeOK, EmptyStore, Store, SessionData
<1>3. cleaner' \in [Workers -> CleanerRecord]
  BY DEF Crash, TypeOK, CleanerRecord, NoCleaning
<1>4. cache' \in [Workers -> CacheRecord]
  BY DEF Crash, TypeOK, CacheRecord
<1>5. faults' \in [FaultKinds -> Nat]
  BY FailureTypes DEF Crash, FaultKinds
<1> QED
  BY <1>1, <1>2, <1>3, <1>4, <1>5 DEF Crash, TypeOK

LEMMA WorldTypes ==
    ASSUME TypeOK,
           \/ \E c \in Containers : ContainerReady(c) \/ ContainerFails(c)
           \/ \E w \in Workers : WatchPods(w)
           \/ BackgroundExpires
    PROVE  TypeOK'
<1>1. ASSUME NEW c \in Containers, ContainerReady(c) PROVE TypeOK'
  BY <1>1 DEF ContainerReady, TypeOK, ContainerRecord
<1>2. ASSUME NEW c \in Containers, ContainerFails(c) PROVE TypeOK'
  <2>1. cont' \in [Containers -> ContainerRecord]
    BY <1>2 DEF ContainerFails, TypeOK, ContainerRecord
  <2>2. faults' \in [FaultKinds -> Nat]
    BY <1>2, FailureTypes DEF ContainerFails, FaultKinds
  <2> QED
    BY <1>2, <2>1, <2>2 DEF ContainerFails, TypeOK
<1>3. ASSUME NEW w \in Workers, WatchPods(w) PROVE TypeOK'
  <2>1. cache' \in [Workers -> CacheRecord]
    <3>1. Shared \in SUBSET Containers
      BY DEF Shared
    <3>2. [cache EXCEPT ![w].pods = Shared] \in [Workers -> CacheRecord]
      BY <3>1 DEF TypeOK, CacheRecord
    <3>3. [cache EXCEPT ![w].init = FALSE] \in [Workers -> CacheRecord]
      BY DEF TypeOK, CacheRecord
    <3> QED
      BY <1>3, <3>2, <3>3 DEF WatchPods
  <2> QED
    BY <1>3, <2>1 DEF WatchPods, TypeOK
<1>4. CASE BackgroundExpires
  BY <1>4 DEF BackgroundExpires, TypeOK
<1> QED
  BY <1>1, <1>2, <1>3, <1>4

-----------------------------------------------------------------------------
(* Steps that give no container to a session.                              *)

\* Session s uses container c: membership of Users(c), as a predicate.
Using(s, c) ==
    /\ s \in store.live
    /\ c \in sess[s].mine \/ (sess[s].pc = "count" /\ sess[s].sel = c)
    /\ sess[s].pc \notin Ended \cup {"delete", "drop"}

\* A quiet step creates no container and revives none; it makes no failure
\* undone; what it takes from the store belongs to sessions that no longer
\* use the container, or to a container that is gone; no session chooses, no
\* list names a container that nobody named, unless it exists.
QuietContainers ==
    \A c \in Containers :
       /\ cont'[c].exclusive = cont[c].exclusive
       /\ cont'[c].life = "none" <=> cont[c].life = "none"
       /\ cont'[c].life \in Exists => cont[c].life \in Exists
       /\ cont[c].life = "gone" => cont'[c].life = "gone"

QuietFaults == (Deletes' => Deletes) /\ (Counts' => Counts)

QuietStore ==
    \A c \in Containers :
       /\ store'.alloc[c] \subseteq store.alloc[c]
       /\ \/ store'.uses[c] = store.uses[c]
          \/ store'.uses[c] = 0 /\ (cont'[c].life \in Exists => ~Counts')
       /\ \A s \in Sessions :
             s \in store.alloc[c] /\ Using(s, c)' /\ cont'[c].life \in Exists /\ Deletes' =>
                s \in store'.alloc[c]

QuietSession(s) ==
    /\ sess'[s].sel = sess[s].sel
    /\ sess'[s].mine \subseteq sess[s].mine
    /\ sess'[s].excl \subseteq sess[s].excl \cup sess[s].mine
    /\ \A c \in Containers : c \in sess'[s].cands => c \in sess[s].cands \/ (Made(c) /\ ~cont[c].exclusive)
    /\ sess'[s].pc = "idle" => sess[s].pc = "idle"
    /\ sess'[s].pc = "identify" => sess'[s].at \in Workers
    /\ sess'[s].pc \in Early => sess[s].pc \in Early
    /\ sess'[s].pc \in Choosing => sess'[s].pc = sess[s].pc
    /\ sess[s].pc = "allocate" => sess'[s].pc \in {"allocate", "dead", "failed"}
    /\ sess[s].pc = "count" => sess'[s].pc \in {"count", "dead"}
    /\ sess[s].pc \in {"dead", "failed"} => sess'[s].pc = sess[s].pc
    /\ ~Local /\ (sess'[s].pc = "select" \/ (sess'[s].pc \in Choosing /\ store.lock = s)) => store'.lock = s
    /\ \A c \in Containers : Using(s, c)' => Using(s, c)
    /\ sess[s].pc = "count" /\ s \in store'.live => s \in store.live

QuietWorkers ==
    \A w \in Workers, c \in Containers :
       /\ c \in cache'[w].pods => c \in cache[w].pods \/ (Made(c) /\ ~cont[c].exclusive)
       /\ c \in cleaner'[w].todo => c \in cleaner[w].todo \/ Made(c)
       /\ c = cleaner'[w].victim => c = cleaner[w].victim \/ Made(c)

\* A step that gives no container to a session and creates none.
Quiet ==
    /\ TypeOK' /\ config' = config /\ served' = served
    /\ QuietContainers /\ QuietFaults /\ QuietStore /\ QuietWorkers
    /\ \A s \in Sessions : QuietSession(s)

\* Users and Using say the same, now and in the next state.
LEMMA UsersAre ==
    ASSUME TypeOK
    PROVE  \A c \in Containers : Users(c) \subseteq Sessions /\ \A s \in Sessions : s \in Users(c) <=> Using(s, c)
BY StoreTypes DEF TypeOK, Users, Using

LEMMA UsersWillBe ==
    ASSUME TypeOK'
    PROVE  \A c \in Containers :
              Users(c)' \subseteq Sessions /\ \A s \in Sessions : s \in Users(c)' <=> Using(s, c)'
<1>1. store'.live \subseteq Sessions
  BY StoreTypes DEF TypeOK
<1> QED
  BY <1>1 DEF Users, Using

\* What a quiet step preserves, one part of the invariant after the other.
LEMMA QuietNames ==
    ASSUME Inv, Quiet
    PROVE  NamesKnown'
<1>1. TypeOK /\ TypeOK' /\ NamesKnown
  BY DEF Inv, Quiet
<1>2. \A c \in Containers : (Made(c) => Made(c)') /\ (cont'[c].exclusive = cont[c].exclusive)
  BY DEF Quiet, QuietContainers, Made
<1>3. ASSUME NEW s \in Sessions, NEW c \in Containers
      PROVE  /\ c \in sess'[s].mine \cup sess'[s].excl => Made(c)'
             /\ c = sess'[s].sel => Made(c)'
             /\ c \in sess'[s].cands => Made(c)' /\ ~cont'[c].exclusive
  BY <1>1, <1>2 DEF Quiet, QuietSession, NamesKnown
<1>4. ASSUME NEW w \in Workers, NEW c \in Containers
      PROVE  /\ c \in cache'[w].pods => Made(c)' /\ ~cont'[c].exclusive
             /\ c \in cleaner'[w].todo => Made(c)'
             /\ c = cleaner'[w].victim => Made(c)'
  BY <1>1, <1>2 DEF Quiet, QuietWorkers, NamesKnown
<1>5. \A c \in Containers : served'[c] # {} => Made(c)'
  BY <1>1, <1>2 DEF Quiet, NamesKnown
<1> QED
  BY <1>3, <1>4, <1>5 DEF NamesKnown

LEMMA QuietStages ==
    ASSUME Inv, Quiet
    PROVE  Stages'
<1> SUFFICES ASSUME NEW s \in Sessions
             PROVE  /\ sess'[s].pc = "idle" => sess'[s].mine = {}
                    /\ sess'[s].pc = "identify" => sess'[s].at \in Workers
                    /\ sess'[s].pc \in Early => \A c \in Containers : s \notin served'[c]
                    /\ sess'[s].pc \in Choosing => sess'[s].sel \in Containers
                    /\ sess'[s].sel # NoOne => sess'[s].pc \in Choosing \cup {"dead", "failed"}
                    /\ sess'[s].sel # NoOne /\ s \in served'[sess'[s].sel] => sess'[s].pc \in {"count", "dead"}
                    /\ sess'[s].pc = "count" => s \in served'[sess'[s].sel]
                    /\ Local' /\ sess'[s].pc \in Choosing =>
                          sess'[s].pc = "allocate" /\ cont'[sess'[s].sel].exclusive
  BY DEF Stages
<1>1. QuietSession(s) /\ served' = served /\ (Local' <=> Local) /\ QuietContainers
  BY DEF Quiet, Local
<1>2. /\ sess[s].pc = "idle" => sess[s].mine = {}
      /\ sess[s].pc \in Early => \A c \in Containers : s \notin served[c]
      /\ sess[s].pc \in Choosing => sess[s].sel \in Containers
      /\ sess[s].sel # NoOne => sess[s].pc \in Choosing \cup {"dead", "failed"}
      /\ sess[s].sel # NoOne /\ s \in served[sess[s].sel] => sess[s].pc \in {"count", "dead"}
      /\ sess[s].pc = "count" => s \in served[sess[s].sel]
      /\ Local /\ sess[s].pc \in Choosing => sess[s].pc = "allocate" /\ cont[sess[s].sel].exclusive
  BY DEF Inv, Stages
<1>3. sess'[s].pc = "idle" => sess'[s].mine = {}
  BY <1>1, <1>2 DEF QuietSession
<1>4. sess'[s].pc \in Early => \A c \in Containers : s \notin served'[c]
  BY <1>1, <1>2 DEF QuietSession
<1>5. sess'[s].pc \in Choosing => sess'[s].sel \in Containers
  BY <1>1, <1>2 DEF QuietSession
<1>6. sess'[s].sel # NoOne => sess'[s].pc \in Choosing \cup {"dead", "failed"}
  BY <1>1, <1>2 DEF QuietSession, Choosing
<1>7. sess'[s].sel # NoOne /\ s \in served'[sess'[s].sel] => sess'[s].pc \in {"count", "dead"}
  BY <1>1, <1>2 DEF QuietSession
<1>8. sess'[s].pc = "count" => s \in served'[sess'[s].sel]
  BY <1>1, <1>2 DEF QuietSession, Choosing
<1>9. Local' /\ sess'[s].pc \in Choosing => sess'[s].pc = "allocate" /\ cont'[sess'[s].sel].exclusive
  BY <1>1, <1>2 DEF QuietSession, QuietContainers
<1>10. sess'[s].pc = "identify" => sess'[s].at \in Workers
  BY <1>1 DEF QuietSession
<1> QED
  BY <1>3, <1>4, <1>5, <1>6, <1>7, <1>8, <1>9, <1>10

LEMMA QuietLock ==
    ASSUME Inv, Quiet
    PROVE  LockHeld' /\ OneChooser'
<1>1. LockHeld /\ OneChooser /\ QuietContainers /\ (Local' <=> Local)
  BY DEF Inv, Quiet, Local
<1>2. \A s \in Sessions : QuietSession(s)
  BY DEF Quiet
<1>3. \A s \in Sessions : sess[s].pc \in Choosing => sess[s].sel \in Containers
  BY DEF Inv, Stages
<1>4. ASSUME ~Local', NEW s \in Sessions
      PROVE  /\ sess'[s].pc = "select" => store'.lock = s
             /\ sess'[s].pc \in Choosing => cont'[sess'[s].sel].exclusive \/ store'.lock = s
  BY <1>1, <1>2, <1>3, <1>4 DEF LockHeld, QuietSession, QuietContainers
<1>5. LockHeld'
  BY <1>4 DEF LockHeld
<1>6. \A s \in Sessions : sess'[s].sel = sess[s].sel /\ (sess'[s].pc \in Choosing => sess[s].pc \in Choosing)
  BY <1>2 DEF QuietSession
<1>7. OneChooser'
  BY <1>1, <1>6 DEF OneChooser
<1> QED
  BY <1>5, <1>7

\* A smaller number is still below a limit.
LEMMA BelowStays ==
    ASSUME NEW m \in Nat, NEW n \in Nat, NEW limit \in Nat, m <= n, Below(n, limit)
    PROVE  Below(m, limit)
BY DEF Below

\* Sessions with an allocation can be counted.
LEMMA AllocFinite ==
    ASSUME TypeOK, ServedFinite, NEW c \in Containers
    PROVE  /\ IsFiniteSet(store.alloc[c]) /\ IsFiniteSet(served[c])
           /\ \A S \in SUBSET served[c] : IsFiniteSet(S) /\ Cardinality(S) \in Nat
           /\ \A S \in SUBSET served[c] : \A T \in SUBSET S : Cardinality(T) <= Cardinality(S)
<1>1. IsFiniteSet(served[c]) /\ store.alloc[c] \in SUBSET served[c]
  BY DEF ServedFinite
<1>2. \A S \in SUBSET served[c] : IsFiniteSet(S) /\ Cardinality(S) \in Nat
  BY <1>1, FS_Subset, FS_CardinalityType
<1>3. \A S \in SUBSET served[c] : \A T \in SUBSET S : Cardinality(T) <= Cardinality(S)
  BY <1>2, FS_Subset
<1> QED
  BY <1>1, <1>2, <1>3

LEMMA QuietUsable ==
    ASSUME Inv, Quiet
    PROVE  StillUsable' /\ ServedFinite'
<1>1. TypeOK /\ TypeOK' /\ ServedFinite /\ StillUsable /\ config' = config /\ QuietStore /\ served' = served
  BY DEF Inv, Quiet
<1>2. ServedFinite'
  BY <1>1 DEF ServedFinite, QuietStore
<1>3. ASSUME NEW s \in Sessions, sess'[s].pc \in Choosing
      PROVE  /\ Below(Cardinality(store'.alloc[sess'[s].sel] \ {s}), config.concurrency)
             /\ Below(store'.uses[sess'[s].sel], config.reuse)
  <2>1. QuietSession(s)
    BY DEF Quiet
  <2>2. PICK c \in Containers : c = sess[s].sel /\ sess'[s].sel = c /\ sess[s].pc \in Choosing
    BY <1>3, <2>1 DEF QuietSession, Inv, Stages
  <2>3. Below(Cardinality(store.alloc[c] \ {s}), config.concurrency) /\ Below(store.uses[c], config.reuse)
    BY <1>1, <2>2 DEF StillUsable
  <2>4. config.concurrency \in Nat /\ config.reuse \in Nat
    BY <1>1, ConfigTypes
  <2>5. store.uses[c] \in Nat /\ store'.uses[c] \in Nat /\ store'.uses[c] <= store.uses[c]
    <3>1. store \in Store /\ store' \in Store
      BY <1>1 DEF TypeOK
    <3>2. store.uses[c] \in Nat /\ store'.uses[c] \in Nat
      BY <3>1, StoreTypes
    <3> QED
      BY <1>1, <3>2 DEF QuietStore
  <2>6. /\ store.alloc[c] \ {s} \in SUBSET served[c]
        /\ store'.alloc[c] \ {s} \in SUBSET (store.alloc[c] \ {s})
        /\ store'.alloc[c] \ {s} \in SUBSET served[c]
    BY <1>1 DEF QuietStore, ServedFinite
  <2>7. /\ Cardinality(store.alloc[c] \ {s}) \in Nat /\ Cardinality(store'.alloc[c] \ {s}) \in Nat
        /\ Cardinality(store'.alloc[c] \ {s}) <= Cardinality(store.alloc[c] \ {s})
    BY <1>1, <2>6, AllocFinite
  <2>8. Below(Cardinality(store'.alloc[c] \ {s}), config.concurrency)
    BY <2>3, <2>4, <2>7, BelowStays
  <2>9. Below(store'.uses[c], config.reuse)
    BY <2>3, <2>4, <2>5, BelowStays
  <2> QED
    BY <2>2, <2>8, <2>9
<1>4. StillUsable'
  BY <1>1, <1>3 DEF StillUsable
<1> QED
  BY <1>2, <1>4

LEMMA QuietCounted ==
    ASSUME Inv, Quiet, NEW c \in Containers
    PROVE  Counted(c)' = Counted(c)
<1>1. served' = served /\ served[c] \in SUBSET Sessions
  BY DEF Inv, TypeOK, Quiet
<1>2. ASSUME NEW s \in Sessions, s \in served[c], sess[s].sel = c
      PROVE  sess[s].pc \in {"count", "dead"} <=> sess'[s].pc \in {"count", "dead"}
  <2>1. sess[s].pc \in {"count", "dead"}
    BY <1>2, ConfigsAssumption DEF Inv, Stages
  <2> QED
    BY <2>1 DEF Quiet, QuietSession
<1>3. \A s \in Sessions : sess'[s].sel = sess[s].sel
  BY DEF Quiet, QuietSession
<1> QED
  BY <1>1, <1>2, <1>3 DEF Counted

LEMMA QuietUses ==
    ASSUME Inv, Quiet
    PROVE  UsesCounted'
<1>1. ASSUME NEW c \in Containers
      PROVE  /\ store'.uses[c] <= Cardinality(Counted(c)')
             /\ Counts' /\ cont'[c].life \in Exists => Cardinality(Counted(c)') <= store'.uses[c]
  <2>1. Counted(c)' = Counted(c)
    BY QuietCounted
  <2>2. Cardinality(Counted(c)) \in Nat
    BY AllocFinite DEF Counted, Inv
  <2>3. /\ store.uses[c] <= Cardinality(Counted(c))
        /\ Counts /\ cont[c].life \in Exists => Cardinality(Counted(c)) <= store.uses[c]
    BY DEF Inv, UsesCounted
  <2>4. /\ store'.uses[c] = store.uses[c] \/ (store'.uses[c] = 0 /\ (cont'[c].life \in Exists => ~Counts'))
        /\ cont'[c].life \in Exists => cont[c].life \in Exists
        /\ Counts' => Counts
    BY DEF Quiet, QuietStore, QuietContainers, QuietFaults
  <2> QED
    BY <2>1, <2>2, <2>3, <2>4
<1> QED
  BY <1>1 DEF UsesCounted

LEMMA QuietRecorded ==
    ASSUME Inv, Quiet
    PROVE  UseIsRecorded'
<1>1. TypeOK /\ TypeOK' /\ UseIsRecorded
  BY DEF Inv, Quiet
<1> SUFFICES ASSUME Deletes', NEW c \in Containers, cont'[c].life \in Exists, NEW s \in Sessions, s \in Users(c)'
             PROVE  s \in store'.alloc[c]
  BY <1>1, UsersWillBe DEF UseIsRecorded
<1>2. Using(s, c)'
  BY <1>1, UsersWillBe
<1>3. Using(s, c) /\ cont[c].life \in Exists /\ Deletes
  BY <1>2 DEF Quiet, QuietSession, QuietContainers, QuietFaults
<1>4. s \in store.alloc[c]
  BY <1>1, <1>3, UsersAre DEF UseIsRecorded
<1> QED
  BY <1>2, <1>4 DEF Quiet, QuietStore

LEMMA QuietStep ==
    ASSUME Inv, Quiet, Cleaning'
    PROVE  Inv'
BY QuietNames, QuietStages, QuietLock, QuietUsable, QuietUses, QuietRecorded DEF Inv, Quiet

\* What the cleaners have found out stays true while others move.
LEMMA QuietCleaning ==
    ASSUME Inv, QuietContainers, QuietFaults, config' = config, served' = served, NEW w \in Workers,
           cleaner'[w] = cleaner[w]
    PROVE  /\ cleaner'[w].step # "check" => cleaner'[w].victim \in Containers
           /\ cleaner'[w].step = "forget" /\ Deletes' => cont'[cleaner'[w].victim].life = "gone"
           /\ cleaner'[w].step = "delete" /\ cleaner'[w].pc = "reuse" =>
                 config'.reuse <= Cardinality(served'[cleaner'[w].victim])
BY DEF Inv, Cleaning, QuietContainers, QuietFaults

-----------------------------------------------------------------------------
(* What the quiet steps have in common.                                    *)

\* Steps that leave a variable alone, or change it in a simple way, are quiet
\* as far as that variable is concerned.
LEMMA SameContainers ==
    ASSUME cont' = cont
    PROVE  QuietContainers
BY DEF QuietContainers

LEMMA GoneContainer ==
    ASSUME TypeOK, NEW c \in Containers, Made(c), cont' = [cont EXCEPT ![c].life = "gone"]
    PROVE  QuietContainers /\ cont'[c].life = "gone" /\ \A d \in Containers : d # c => cont'[d] = cont[d]
BY DEF TypeOK, ContainerRecord, QuietContainers, Made, Exists

LEMMA SameFaults ==
    ASSUME faults' = faults, config' = config
    PROVE  QuietFaults
BY DEF QuietFaults, Deletes, Counts, Docker, Local

LEMMA MoreFaults ==
    ASSUME TypeOK, config' = config, NEW kind \in FaultKinds, NEW n \in Nat \ {0}, Failures(kind, n)
    PROVE  /\ QuietFaults
           /\ Docker /\ kind = "delete" => ~Deletes'
           /\ Local /\ kind = "crash" => ~Counts'
<1>1. /\ faults'[kind] = faults[kind] + n
      /\ \A k \in FaultKinds : k # kind => faults'[k] = faults[k]
  BY FailureTypes
<1>2. \A k \in FaultKinds : faults[k] \in Nat
  BY DEF TypeOK
<1>3. faults'[kind] # 0
  BY <1>1, <1>2
<1>4. "delete" \in FaultKinds /\ "crash" \in FaultKinds
  BY DEF FaultKinds
<1>5. /\ faults'["delete"] = 0 => faults["delete"] = 0
      /\ faults'["crash"] = 0 => faults["crash"] = 0
  BY <1>1, <1>3, <1>4
<1> QED
  BY <1>3, <1>5 DEF QuietFaults, Deletes, Counts, Docker, Local

LEMMA SameWorkers ==
    ASSUME cache' = cache, cleaner' = cleaner
    PROVE  QuietWorkers
BY DEF QuietWorkers

LEMMA SameStore ==
    ASSUME store'.alloc = store.alloc, store'.uses = store.uses
    PROVE  QuietStore
BY DEF QuietStore

\* A container may be forgotten when it is gone, or after a failed deletion.
LEMMA ForgottenStore ==
    ASSUME TypeOK, NEW c \in Containers, store' = RemoveContainer(c), cont'[c].life \in Exists => ~Deletes'
    PROVE  QuietStore
<1>1. /\ store'.alloc = [store.alloc EXCEPT ![c] = {}] /\ store'.uses = [store.uses EXCEPT ![c] = 0]
      /\ store.alloc \in [Containers -> SUBSET Sessions] /\ store.uses \in [Containers -> Nat]
  BY Removed, StoreTypes DEF TypeOK
<1>2. /\ store'.alloc[c] = {} /\ store'.uses[c] = 0
      /\ \A d \in Containers : d # c => store'.alloc[d] = store.alloc[d] /\ store'.uses[d] = store.uses[d]
  BY <1>1
<1>3. cont'[c].life \in Exists => ~Counts'
  BY DEF Counts
<1> QED
  BY <1>2, <1>3 DEF QuietStore

\* A session that uses nothing may lose its own part of the record.
LEMMA OwnGoneStore ==
    ASSUME NEW s \in Sessions, OwnGone(store', s), \A c \in Containers : ~Using(s, c)'
    PROVE  QuietStore
BY DEF QuietStore, OwnGone

\* A session that does not move.
LEMMA QuietOther ==
    ASSUME Inv, config' = config, NEW t \in Sessions, sess'[t] = sess[t],
           t \in store'.live => t \in store.live,
           ~Local /\ sess[t].pc \in {"select"} \cup Choosing /\ store.lock = t => store'.lock = t
    PROVE  QuietSession(t)
<1>1. sess[t].pc = "identify" => sess[t].at \in Workers
  BY DEF Inv, Stages
<1>2. ~Local /\ sess[t].pc = "select" => store.lock = t
  BY DEF Inv, LockHeld
<1>3. \A c \in Containers : Using(t, c)' => Using(t, c)
  BY DEF Using
<1> QED
  BY <1>1, <1>2, <1>3 DEF QuietSession

\* A session that moves without choosing is quiet.
LEMMA QuietMove ==
    ASSUME Inv, NEW s \in Sessions, NEW p \in Pcs, NEW X,
           Moves(s, p, X, sess[s].sel, sess[s].mine), config' = config,
           \A c \in Containers : c \in X => c \in sess[s].cands \/ (Made(c) /\ ~cont[c].exclusive),
           p # "idle", p = "identify" => sess'[s].at \in Workers,
           p \in Early => sess[s].pc \in Early, p \notin Choosing,
           sess[s].pc \notin {"count", "dead", "failed"}, sess[s].pc = "allocate" => p = "failed",
           p = "select" /\ ~Local => store'.lock = s,
           sess[s].pc \in Ended \cup {"delete", "drop"} => p \in Ended \cup {"delete", "drop"},
           \A t \in Sessions : t \in store'.live => t \in store.live \/ (t = s /\ sess[s].pc = "idle"),
           ~Local => \A t \in Sessions : t # s /\ store.lock = t => store'.lock = t
    PROVE  \A t \in Sessions : QuietSession(t)
<1>1. ASSUME NEW t \in Sessions, t # s
      PROVE  QuietSession(t)
  <2>1. sess'[t] = sess[t]
    BY <1>1 DEF Moves
  <2> QED
    BY <1>1, <2>1, QuietOther
<1>2. QuietSession(s)
  <2>1. /\ sess'[s].pc = p /\ sess'[s].cands = X /\ sess'[s].sel = sess[s].sel /\ sess'[s].mine = sess[s].mine
        /\ sess'[s].excl \subseteq sess[s].excl \cup sess[s].mine
    BY DEF Moves
  <2>2. sess[s].pc = "idle" => sess[s].mine = {}
    BY DEF Inv, Stages
  <2>3. p # "count"
    BY DEF Choosing
  <2>4. \A c \in Containers : Using(s, c)' => Using(s, c)
    BY <2>1, <2>2, <2>3 DEF Using
  <2> QED
    BY <2>1, <2>3, <2>4 DEF QuietSession, Choosing
<1> QED
  BY <1>1, <1>2

\* A session fails, or goes on without a container.
LEMMA QuietFail ==
    ASSUME Inv, NEW s \in Sessions, sess' = Fail(s), config' = config,
           sess[s].pc \notin {"count"} \cup Ended, store'.live = store.live,
           ~Local => \A t \in Sessions : t # s /\ store.lock = t => store'.lock = t
    PROVE  \A t \in Sessions : QuietSession(t)
<1>1. Moves(s, "failed", {}, sess[s].sel, sess[s].mine)
  BY MoveFailed DEF Inv
<1>2. /\ "failed" \in Pcs /\ "failed" \notin Early /\ "failed" \notin Choosing /\ "failed" \in Ended
      /\ sess[s].pc \notin {"count", "dead", "failed"}
  BY PcsAre DEF Early, Choosing, Ended
<1>3. \A t \in Sessions : t \in store'.live => t \in store.live \/ (t = s /\ sess[s].pc = "idle")
  OBVIOUS
<1>4. \A c \in Containers : c \in {} => c \in sess[s].cands \/ (Made(c) /\ ~cont[c].exclusive)
  OBVIOUS
<1> QED
  BY <1>1, <1>2, <1>3, <1>4, QuietMove

LEMMA QuietGo ==
    ASSUME Inv, NEW s \in Sessions, NEW p \in Pcs, sess' = [sess EXCEPT ![s].pc = p], config' = config,
           p \notin {"idle", "identify"}, p \notin Choosing, p \in Early => sess[s].pc \in Early,
           sess[s].pc \notin {"allocate", "count"} \cup Ended,
           sess[s].pc \in {"delete", "drop"} => p \in {"delete", "drop"},
           store'.live = store.live,
           ~Local /\ p = "select" => store'.lock = s,
           ~Local => \A t \in Sessions : t # s /\ store.lock = t => store'.lock = t
    PROVE  \A t \in Sessions : QuietSession(t)
<1>1. Moves(s, p, sess[s].cands, sess[s].sel, sess[s].mine)
  BY MovePc DEF Inv
<1>2. /\ sess[s].pc \notin {"count", "dead", "failed"} /\ sess[s].pc # "allocate"
      /\ sess[s].pc \in Ended \cup {"delete", "drop"} => p \in Ended \cup {"delete", "drop"}
  BY DEF Ended
<1>3. \A t \in Sessions : t \in store'.live => t \in store.live \/ (t = s /\ sess[s].pc = "idle")
  OBVIOUS
<1>4. \A c \in Containers : c \in sess[s].cands => c \in sess[s].cands \/ (Made(c) /\ ~cont[c].exclusive)
  OBVIOUS
<1> QED
  BY <1>1, <1>2, <1>3, <1>4, QuietMove

\* Steps in which no session moves.
LEMMA QuietStay ==
    ASSUME Inv, config' = config, sess' = sess,
           \A t \in Sessions : t \in store'.live => t \in store.live,
           ~Local => \A t \in Sessions :
              sess[t].pc \in {"select"} \cup Choosing /\ store.lock = t => store'.lock = t
    PROVE  \A t \in Sessions : QuietSession(t)
BY QuietOther

\* Steps of sessions, containers and time leave the cleaners as they are.
LEMMA QuietInv ==
    ASSUME Inv, Quiet, cleaner' = cleaner
    PROVE  Inv'
<1>1. Cleaning'
  BY QuietCleaning DEF Quiet, Cleaning
<1> QED
  BY <1>1, QuietStep

-----------------------------------------------------------------------------
(* The quiet steps of start_session.                                       *)

\* start_session: the session is made known to the store.
LEMMA StartQuiet ==
    ASSUME Inv, NEW s \in Sessions, NEW w \in Workers, StartSession(s, w)
    PROVE  Quiet /\ Inv'
<1>1. TypeOK /\ TypeOK'
  BY StartTypes DEF Inv
<1>2. PICK p \in {"create", "identify"} : sess' = [sess EXCEPT ![s].at = w, ![s].pc = p]
  BY DEF StartSession
<1>3. Moves(s, p, sess[s].cands, sess[s].sel, sess[s].mine) /\ sess'[s].at = w
  BY <1>1, <1>2, PcsAre, MoveAt
<1>4. /\ store'.live = store.live \cup {s} /\ store'.lock = store.lock
      /\ store'.alloc = store.alloc /\ store'.uses = store.uses
  BY <1>1, StoreTypes DEF StartSession, TypeOK, Store
<1>5. \A t \in Sessions : QuietSession(t)
  <2>1. /\ p \in Pcs /\ p # "idle" /\ p # "select" /\ p \notin Choosing
        /\ sess[s].pc = "idle" /\ sess[s].pc \in Early /\ config' = config
    BY PcsAre DEF StartSession, Early, Choosing
  <2>2. /\ sess[s].pc \notin {"count", "dead", "failed"} /\ sess[s].pc # "allocate"
        /\ sess[s].pc \notin Ended \cup {"delete", "drop"} /\ sess'[s].at \in Workers
    BY <1>3, <2>1 DEF Ended
  <2>3. \A t \in Sessions : t \in store'.live => t \in store.live \/ (t = s /\ sess[s].pc = "idle")
    BY <1>4, <2>1
  <2> QED
    BY <1>3, <1>4, <2>1, <2>2, <2>3, QuietMove
<1>6. Quiet
  BY <1>1, <1>4, <1>5, SameContainers, SameFaults, SameWorkers, SameStore DEF StartSession, Quiet
<1> QED
  BY <1>6, QuietInv DEF StartSession

\* The container engine refuses: the session fails, what it has stays.
LEMMA CreateFailsQuiet ==
    ASSUME Inv, NEW s \in Sessions, CreateFails(s)
    PROVE  Quiet /\ Inv'
<1>1. TypeOK /\ TypeOK'
  BY CreateFailsTypes DEF Inv
<1>2. Moves(s, "failed", {}, sess[s].sel, sess[s].mine)
  BY <1>1, MoveFailed DEF CreateFails
<1>3. \A t \in Sessions : QuietSession(t)
  BY <1>2, PcsAre, QuietMove DEF CreateFails, Early, Choosing, Ended
<1>4. QuietFaults
  BY <1>1, MoreFaults DEF CreateFails, DockerCallFails, ApiCallFails, FaultKinds
<1>5. Quiet
  BY <1>1, <1>3, <1>4, SameContainers, SameWorkers, SameStore DEF CreateFails, Quiet
<1> QED
  BY <1>5, QuietInv DEF CreateFails

\* Candidates are shared containers.
LEMMA CandidatesShared ==
    ASSUME Inv, NEW w \in Workers, NEW c \in Candidates(w)
    PROVE  c \in Containers /\ Made(c) /\ ~cont[c].exclusive
<1>1. CASE c \in Shared
  BY <1>1 DEF Shared, Made, Exists
<1>2. CASE c \in cache[w].pods
  BY <1>2, FieldTypes DEF Inv, NamesKnown
<1> QED
  BY <1>1, <1>2 DEF Candidates, IdentifyContainers, IdentifyPods

LEMMA IdentifiedPods ==
    ASSUME Inv, NEW w \in Workers, cache' = Identified(w), NEW v \in Workers, NEW c \in cache'[v].pods
    PROVE  c \in cache[v].pods \/ (Made(c) /\ ~cont[c].exclusive)
<1>1. CASE cache' = cache
  BY <1>1
<1>2. CASE cache' = [cache EXCEPT ![w] = [init |-> TRUE, pods |-> Candidates(w)]]
  <2>1. c \in cache[v].pods \/ c \in Candidates(w)
    BY <1>2 DEF Inv, TypeOK
  <2> QED
    BY <2>1, CandidatesShared
<1> QED
  BY <1>1, <1>2 DEF Identified

\* The list of candidates.
LEMMA IdentifyQuiet ==
    ASSUME Inv, NEW s \in Sessions, Identify(s)
    PROVE  Quiet /\ Inv'
<1>1. sess[s].at \in Workers
  BY DEF Inv, Stages, Identify
<1>2. TypeOK /\ TypeOK'
  BY <1>1, IdentifyTypes DEF Inv
<1>3. Moves(s, "lock", Candidates(sess[s].at), sess[s].sel, sess[s].mine)
  BY <1>1, <1>2, CandidateTypes, PcsAre, MoveCands DEF Identify
<1>4. \A t \in Sessions : QuietSession(t)
  BY <1>1, <1>3, PcsAre, CandidatesShared, QuietMove DEF Identify, Early, Choosing, Ended
<1>5. QuietWorkers
  BY <1>1, IdentifiedPods DEF QuietWorkers, Identify
<1>6. Quiet
  BY <1>2, <1>4, <1>5, SameContainers, SameFaults, SameStore DEF Identify, Quiet
<1> QED
  BY <1>6, QuietInv DEF Identify

\* The lock of the allocation, or an exception because the lease is gone.
LEMMA LockQuiet ==
    ASSUME Inv, NEW s \in Sessions, Lock(s)
    PROVE  Quiet /\ Inv'
<1>1. TypeOK /\ TypeOK'
  BY LockTypes DEF Inv
<1>2. /\ store'.alloc = store.alloc /\ store'.uses = store.uses /\ store'.live = store.live
  BY <1>1, Acquired DEF Lock
<1>3. /\ sess[s].pc = "lock" /\ sess[s].pc \in Early /\ config' = config
      /\ sess[s].pc \notin {"allocate", "count"} \cup Ended /\ sess[s].pc \notin {"delete", "drop"}
      /\ "select" \notin Choosing /\ "select" \in Pcs
  BY PcsAre DEF Lock, Early, Choosing, Ended
<1>4. ASSUME ~Refused(s) PROVE \A t \in Sessions : QuietSession(t)
  <2>1. sess' = [sess EXCEPT ![s].pc = "select"]
    BY <1>4 DEF Lock
  <2>2. ~Local => store'.lock = s /\ store.lock \in {NoOne, s}
    BY <1>1, <1>4, Acquired DEF Lock
  <2>3. ~Local => \A t \in Sessions : t # s /\ store.lock = t => store'.lock = t
    BY <2>2, ConfigsAssumption
  <2> QED
    BY <1>2, <1>3, <2>1, <2>2, <2>3, QuietGo
<1>5. ASSUME Refused(s) PROVE \A t \in Sessions : QuietSession(t)
  <2>1. sess' = Fail(s) /\ store' = store
    BY <1>5 DEF Lock
  <2> QED
    BY <1>2, <1>3, <2>1, QuietFail
<1>6. \A t \in Sessions : QuietSession(t)
  BY <1>4, <1>5
<1>7. Quiet
  BY <1>1, <1>2, <1>6, SameContainers, SameFaults, SameWorkers, SameStore DEF Lock, Quiet
<1> QED
  BY <1>7, QuietInv DEF Lock

\* store_session.
LEMMA StoreSessionQuiet ==
    ASSUME Inv, NEW s \in Sessions, StoreSession(s)
    PROVE  Quiet /\ Inv'
<1>1. TypeOK /\ TypeOK'
  BY StoreSessionTypes DEF Inv
<1>2. /\ store'.alloc = store.alloc /\ store'.uses = store.uses /\ store'.live = store.live
      /\ store'.lock = store.lock
  <2>1. [all |-> sess[s].mine, excl |-> sess[s].excl] \in SessionData
    BY <1>1, FieldTypes DEF SessionData
  <2> QED
    BY <1>1, <2>1, Stored DEF StoreSession
<1>3. /\ sess[s].pc = "store" /\ config' = config
      /\ sess[s].pc \notin {"allocate", "count"} \cup Ended /\ sess[s].pc \notin {"delete", "drop"}
      /\ "health" \notin Early \cup Choosing /\ "health" \in Pcs
  BY PcsAre DEF StoreSession, Early, Choosing, Ended
<1>4. ASSUME sess' = [sess EXCEPT ![s].pc = "health"] PROVE \A t \in Sessions : QuietSession(t)
  BY <1>2, <1>3, <1>4, QuietGo
<1>5. ASSUME sess' = Fail(s) PROVE \A t \in Sessions : QuietSession(t)
  BY <1>2, <1>3, <1>5, QuietFail
<1>6. \A t \in Sessions : QuietSession(t)
  BY <1>4, <1>5 DEF StoreSession
<1>7. Quiet
  BY <1>1, <1>2, <1>6, SameContainers, SameFaults, SameWorkers, SameStore DEF StoreSession, Quiet
<1> QED
  BY <1>7, QuietInv DEF StoreSession

\* The wait for health, and the beginning of the end.
LEMMA WaitQuiet ==
    ASSUME Inv, NEW s \in Sessions, WaitForHealth(s) \/ PassOverDeleting(s) \/ EndSession(s)
    PROVE  Quiet /\ Inv'
<1>1. TypeOK /\ TypeOK'
  BY WaitTypes DEF Inv
<1>2. UNCHANGED <<config, cont, cache, store, cleaner, served, faults>>
  BY DEF WaitForHealth, PassOverDeleting, EndSession
<1>3. /\ sess[s].pc \in {"health", "running"}
      /\ \/ \E p \in {"running", "drop", "release"} : sess' = [sess EXCEPT ![s].pc = p]
         \/ sess' = Fail(s)
  BY DEF WaitForHealth, PassOverDeleting, EndSession
<1>4. /\ sess[s].pc \notin {"allocate", "count"} \cup Ended /\ sess[s].pc \notin {"delete", "drop"}
      /\ store'.live = store.live /\ store'.lock = store.lock
  BY <1>2, <1>3 DEF Ended
<1>5. ASSUME sess' = Fail(s) PROVE \A t \in Sessions : QuietSession(t)
  BY <1>2, <1>4, <1>5, QuietFail
<1>6. ASSUME NEW p \in {"running", "drop", "release"}, sess' = [sess EXCEPT ![s].pc = p]
      PROVE  \A t \in Sessions : QuietSession(t)
  <2>1. p \notin Early /\ p \notin Choosing /\ p \in Pcs /\ p \notin {"idle", "identify"} /\ p # "select"
    BY PcsAre DEF Early, Choosing
  <2> QED
    BY <1>2, <1>4, <1>6, <2>1, QuietGo
<1>7. \A t \in Sessions : QuietSession(t)
  BY <1>3, <1>5, <1>6
<1>8. Quiet
  BY <1>1, <1>2, <1>7, SameContainers, SameFaults, SameWorkers, SameStore DEF Quiet
<1> QED
  BY <1>2, <1>8, QuietInv

-----------------------------------------------------------------------------
(* The end of a session.                                                   *)

\* release_container: the allocations on shared containers go, and those of
\* other sessions stay.
LEMMA ReleaseSharedQuiet ==
    ASSUME Inv, NEW s \in Sessions, ReleaseShared(s)
    PROVE  Quiet /\ Inv'
<1>1. TypeOK /\ TypeOK' /\ store \in Store
  BY ReleaseSharedTypes DEF Inv, TypeOK
<1>2. /\ store'.uses = store.uses /\ store'.live = store.live /\ store'.lock = store.lock
      /\ \A c \in Containers : store'.alloc[c] \in {store.alloc[c], store.alloc[c] \ {s}}
  BY <1>1 DEF ReleaseShared, Left, Store
<1>3. /\ sess' = [sess EXCEPT ![s].pc = "delete"] /\ sess[s].pc = "release" /\ config' = config
      /\ sess[s].pc \notin {"allocate", "count"} \cup Ended /\ sess[s].pc \notin {"delete", "drop"}
      /\ "delete" \in Pcs /\ "delete" \notin Early /\ "delete" \notin Choosing
  BY PcsAre DEF ReleaseShared, Early, Choosing, Ended
<1>4. \A t \in Sessions : QuietSession(t)
  BY <1>2, <1>3, QuietGo
<1>5. sess'[s].pc = "delete"
  BY <1>1, <1>3, MovePc DEF Moves
<1>6. \A c \in Containers : ~Using(s, c)'
  BY <1>5 DEF Using
<1>7. QuietStore
  BY <1>2, <1>6 DEF QuietStore
<1>8. Quiet
  BY <1>1, <1>4, <1>7, SameContainers, SameFaults, SameWorkers DEF ReleaseShared, Quiet
<1> QED
  BY <1>8, QuietInv DEF ReleaseShared

\* The cache of a worker loses a pod.
LEMMA Evicted ==
    ASSUME TypeOK, NEW w \in Workers \cup {NoOne}, NEW c, cache' = EvictPod(w, c),
           NEW v \in Workers, NEW d \in cache'[v].pods
    PROVE  d \in cache[v].pods
<1>1. cache \in [Workers -> CacheRecord]
  BY DEF TypeOK
<1>2. CASE v = w
  BY <1>1, <1>2 DEF EvictPod, CacheRecord
<1>3. CASE v # w
  BY <1>1, <1>3 DEF EvictPod
<1> QED
  BY <1>2, <1>3

\* A container is deleted and forgotten; with docker it is forgotten also when
\* the deletion failed, with k8s a pod that cannot be deleted stays recorded.
LEMMA DeleteQuiet ==
    ASSUME Inv, NEW w \in Workers \cup {NoOne}, NEW c \in Containers, Made(c), Delete(w, c),
           config' = config, cleaner' = cleaner
    PROVE  /\ QuietContainers /\ QuietFaults /\ QuietStore /\ QuietWorkers
           /\ store'.live = store.live /\ store'.lock = store.lock
           /\ cont' = cont \/ cont' = [cont EXCEPT ![c].life = "gone"]
<1>1. TypeOK
  BY DEF Inv
<1>2. ASSUME cont' = [cont EXCEPT ![c].life = "gone"], store' = RemoveContainer(c), faults' = faults,
             cache' = cache \/ cache' = EvictPod(w, c)
      PROVE  /\ QuietContainers /\ QuietFaults /\ QuietStore /\ QuietWorkers
             /\ store'.live = store.live /\ store'.lock = store.lock
  <2>1. QuietContainers /\ cont'[c].life = "gone"
    BY <1>1, <1>2, GoneContainer
  <2>2. cont'[c].life \notin Exists
    BY <2>1 DEF Exists
  <2>3. QuietStore /\ store'.live = store.live /\ store'.lock = store.lock
    BY <1>1, <1>2, <2>2, ForgottenStore, Removed
  <2>4. QuietWorkers
    BY <1>1, <1>2, Evicted DEF QuietWorkers
  <2> QED
    BY <1>2, <2>1, <2>3, <2>4, SameFaults
<1>3. CASE Docker /\ DeleteContainer(c, TRUE) /\ UNCHANGED <<cache, faults>>
  BY <1>2, <1>3 DEF DeleteContainer
<1>4. CASE Docker /\ DeleteFails /\ DeleteContainer(c, FALSE) /\ UNCHANGED cache
  <2>1. cont' = cont /\ store' = RemoveContainer(c)
    BY <1>4 DEF DeleteContainer
  <2>2. QuietFaults /\ ~Deletes'
    BY <1>1, <1>4, MoreFaults DEF DeleteFails, DockerCallFails, FaultKinds
  <2>3. QuietStore /\ store'.live = store.live /\ store'.lock = store.lock
    BY <1>1, <2>1, <2>2, ForgottenStore, Removed
  <2> QED
    BY <1>4, <2>1, <2>2, <2>3, SameContainers, SameWorkers
<1>5. CASE ~Docker /\ DeletePod(w, c, TRUE) /\ UNCHANGED faults
  BY <1>2, <1>5, SameContainers, SameFaults, SameStore, SameWorkers DEF DeletePod
<1>6. CASE ~Docker /\ DeleteFails /\ DeletePod(w, c, FALSE)
  <2>1. UNCHANGED <<cont, store, cache>>
    BY <1>6 DEF DeletePod
  <2>2. QuietFaults
    BY <1>1, <1>6, MoreFaults DEF DeleteFails, ApiCallFails, FaultKinds
  <2> QED
    BY <2>1, <2>2, SameContainers, SameStore, SameWorkers
<1>7. cont' = cont \/ cont' = [cont EXCEPT ![c].life = "gone"]
  BY DEF Delete, DeleteContainer, DeletePod
<1> QED
  BY <1>3, <1>4, <1>5, <1>6, <1>7 DEF Delete

\* The containers of the session alone are deleted, one after the other.
LEMMA DeleteExclusiveQuiet ==
    ASSUME Inv, NEW s \in Sessions, DeleteExclusive(s)
    PROVE  Quiet /\ Inv'
<1>1. TypeOK /\ TypeOK' /\ config' = config /\ served' = served /\ cleaner' = cleaner /\ sess[s].pc = "delete"
  BY DeleteExclusiveTypes DEF Inv, DeleteExclusive
<1>2. "delete" \in Pcs /\ "drop" \in Pcs /\ {"delete", "drop"} \cap (Early \cup Choosing \cup Ended) = {}
  BY PcsAre DEF Early, Choosing, Ended
<1>3. ASSUME NEW c \in sess[s].excl, Delete(sess[s].at, c), sess' = [sess EXCEPT ![s].excl = @ \ {c}]
      PROVE  Quiet
  <2>1. c \in Containers /\ Made(c) /\ sess[s].at \in Workers \cup {NoOne}
    BY <1>1, FieldTypes DEF Inv, NamesKnown
  <2>2. /\ QuietContainers /\ QuietFaults /\ QuietStore /\ QuietWorkers
        /\ store'.live = store.live /\ store'.lock = store.lock
    BY <1>1, <1>3, <2>1, DeleteQuiet
  <2>3. Moves(s, "delete", sess[s].cands, sess[s].sel, sess[s].mine)
    BY <1>1, <1>3, MoveExcl
  <2>4. \A d \in Containers : d \in sess[s].cands => d \in sess[s].cands \/ (Made(d) /\ ~cont[d].exclusive)
    OBVIOUS
  <2>5. /\ "delete" \notin Early /\ "delete" \notin Choosing
        /\ sess[s].pc \notin {"count", "dead", "failed"} /\ sess[s].pc # "allocate"
    BY <1>1, <1>2
  <2>6. \A t \in Sessions : QuietSession(t)
    BY <1>1, <1>2, <2>2, <2>3, <2>4, <2>5, QuietMove
  <2> QED
    BY <1>1, <2>2, <2>6 DEF Quiet
<1>4. ASSUME sess' = [sess EXCEPT ![s].pc = "drop"], UNCHANGED <<cont, cache, store, faults>>
      PROVE  Quiet
  <2>1. sess[s].pc \notin {"allocate", "count"} \cup Ended
    BY <1>1, <1>2
  <2>2. "drop" \notin Early /\ "drop" \notin Choosing
    BY <1>2
  <2>3. \A t \in Sessions : QuietSession(t)
    BY <1>1, <1>2, <1>4, <2>1, <2>2, QuietGo
  <2> QED
    BY <1>1, <1>4, <2>3, SameContainers, SameFaults, SameStore, SameWorkers DEF Quiet
<1>5. Quiet
  BY <1>3, <1>4 DEF DeleteExclusive
<1> QED
  BY <1>1, <1>5, QuietInv

\* delete_session, the last step.
LEMMA DropQuiet ==
    ASSUME Inv, NEW s \in Sessions, DropSession(s)
    PROVE  Quiet /\ Inv'
<1>1. TypeOK /\ TypeOK' /\ config' = config /\ sess[s].pc = "drop" /\ OwnGone(store', s)
  BY DropTypes, SessionGone DEF Inv, DropSession
<1>2. /\ sess'[s] = [NoSession EXCEPT !.pc = "ended"]
      /\ \A t \in Sessions : t # s => sess'[t] = sess[t]
  BY <1>1 DEF DropSession, TypeOK
<1>3. /\ sess'[s].pc = "ended" /\ sess'[s].sel = NoOne /\ sess'[s].mine = {} /\ sess'[s].excl = {}
      /\ sess'[s].cands = {}
  BY <1>2 DEF NoSession
<1>4. sess[s].sel = NoOne
  BY <1>1 DEF Inv, Stages, Choosing
<1>5. \A c \in Containers : ~Using(s, c)'
  BY <1>3 DEF Using
<1>6. QuietSession(s)
  BY <1>1, <1>3, <1>4, <1>5 DEF QuietSession, Early, Choosing
<1>7. ASSUME NEW t \in Sessions, t # s
      PROVE  QuietSession(t)
  <2>1. sess'[t] = sess[t] /\ (t \in store'.live => t \in store.live) /\ (store.lock = t => store'.lock = t)
    BY <1>1, <1>2, <1>7 DEF OwnGone
  <2> QED
    BY <1>1, <2>1, QuietOther
<1>8. QuietStore
  BY <1>1, <1>5, OwnGoneStore
<1>9. Quiet
  BY <1>1, <1>6, <1>7, <1>8, SameContainers, SameFaults, SameWorkers DEF DropSession, Quiet
<1> QED
  BY <1>9, QuietInv DEF DropSession

-----------------------------------------------------------------------------
(* Time and failures.                                                      *)

\* A lease expires only of a session that does not hold the lock in use.
LEMMA ExpireQuiet ==
    ASSUME Inv, NEW s \in Sessions, Expire(s)
    PROVE  Quiet /\ Inv'
<1>1. TypeOK /\ TypeOK' /\ OwnGone(store', s) /\ s \notin store'.live
  BY ExpireTypes, LeaseGone DEF Inv, Expire
<1>2. sess[s].pc \notin {"select"} \cup Choosing
  BY DEF Expire, Renewed, Choosing, Ended
<1>3. /\ \A t \in Sessions : t \in store'.live => t \in store.live
      /\ \A t \in Sessions : sess[t].pc \in {"select"} \cup Choosing /\ store.lock = t => store'.lock = t
  BY <1>1, <1>2 DEF OwnGone
<1>4. \A t \in Sessions : QuietSession(t)
  BY <1>3, QuietStay DEF Expire
<1>5. \A c \in Containers : ~Using(s, c)'
  BY <1>1 DEF Using
<1>6. QuietStore
  BY <1>1, <1>5, OwnGoneStore
<1>7. Quiet
  BY <1>1, <1>4, <1>6, SameContainers, SameFaults, SameWorkers DEF Expire, Quiet
<1> QED
  BY <1>7, QuietInv DEF Expire

\* A worker is killed: its sessions are dead, its lists gone; the local
\* provider forgets everything, and the counts are no longer relied upon.
LEMMA CrashQuiet ==
    ASSUME Inv, NEW w \in Workers, Crash(w)
    PROVE  Quiet /\ Inv'
<1>1. TypeOK /\ TypeOK' /\ config' = config /\ served' = served /\ cont' = cont /\ (Local' <=> Local)
  BY CrashTypes DEF Inv, Crash, Local
<1>2. QuietFaults /\ (Local => ~Counts')
  <2>1. Failures("crash", 1) /\ "crash" \in FaultKinds
    BY DEF Crash, FaultKinds
  <2> QED
    BY <1>1, <2>1, MoreFaults
<1>3. QuietStore
  <2>1. CASE Local
    <3>1. \A c \in Containers : store'.alloc[c] = {} /\ store'.uses[c] = 0
      BY <2>1 DEF Crash, EmptyStore
    <3>2. \A t \in Sessions, c \in Containers : ~Using(t, c)'
      BY <2>1 DEF Crash, EmptyStore, Using
    <3> QED
      BY <1>2, <2>1, <3>1, <3>2 DEF QuietStore
  <2>2. CASE ~Local
    BY <2>2, SameStore DEF Crash
  <2> QED
    BY <2>1, <2>2
<1>4. \A t \in Sessions : t \in store'.live => t \in store.live
  BY DEF Crash, EmptyStore
<1>5. ~Local => store'.lock = store.lock
  BY DEF Crash
<1>6. ASSUME NEW t \in Sessions
      PROVE  QuietSession(t)
  <2>1. CASE sess'[t] = sess[t]
    BY <1>1, <1>4, <1>5, <2>1, QuietOther
  <2>2. CASE sess'[t] = [sess[t] EXCEPT !.pc = "dead", !.cands = {}] /\ sess[t].pc \notin Ended
    <3> DEFINE r == [sess[t] EXCEPT !.pc = "dead"]
    <3>1. sess[t] \in SessionRecord /\ "dead" \in Pcs
      BY <1>1, FieldTypes, PcsAre
    <3>2. /\ r \in SessionRecord
          /\ r.pc = "dead" /\ r.sel = sess[t].sel /\ r.mine = sess[t].mine /\ r.excl = sess[t].excl
      BY <3>1, RecordPc DEF Fields
    <3>3. sess'[t] = [r EXCEPT !.cands = {}]
      BY <2>2
    <3> HIDE DEF r
    <3>4. Fields([r EXCEPT !.cands = {}], r.pc, r.at, {}, r.sel, r.mine, r.excl, r.page)
      BY <3>2, RecordCands
    <3>5. /\ sess'[t].pc = "dead" /\ sess'[t].sel = sess[t].sel /\ sess'[t].mine = sess[t].mine
          /\ sess'[t].excl = sess[t].excl /\ sess'[t].cands = {}
      BY <3>2, <3>4, <3>3 DEF Fields
    <3>6. \A c \in Containers : ~Using(t, c)'
      BY <3>5 DEF Using, Ended
    <3>7. "dead" \notin Early /\ "dead" \notin Choosing /\ sess[t].pc \notin {"dead", "failed"}
      BY <2>2 DEF Early, Choosing, Ended
    <3> QED
      BY <1>4, <3>5, <3>6, <3>7 DEF QuietSession
  <2> QED
    BY <2>1, <2>2 DEF Crash
<1>7. /\ cleaner'[w] = NoCleaning
      /\ \A v \in Workers : v # w => cleaner'[v] = cleaner[v] /\ cache'[v] = cache[v]
      /\ cache'[w].pods = {}
  BY <1>1 DEF Crash, TypeOK
<1>8. QuietWorkers
  BY <1>7, ConfigsAssumption DEF QuietWorkers, NoCleaning
<1>9. Quiet
  BY <1>1, <1>2, <1>3, <1>6, <1>8, SameContainers DEF Quiet
<1>10. Cleaning'
  <2>1. QuietContainers
    BY <1>9 DEF Quiet
  <2>2. \A v \in Workers : v # w => cleaner'[v] = cleaner[v]
    BY <1>7
  <2>3. cleaner'[w].step = "check"
    BY <1>7 DEF NoCleaning
  <2> QED
    BY <1>1, <1>2, <2>1, <2>2, <2>3, QuietCleaning DEF Cleaning
<1> QED
  BY <1>9, <1>10, QuietStep

\* Containers start up, fail or disappear; pods are watched.
LEMMA WorldQuiet ==
    ASSUME Inv,
           \/ \E c \in Containers : ContainerReady(c) \/ ContainerFails(c)
           \/ \E w \in Workers : WatchPods(w)
           \/ BackgroundExpires
    PROVE  Quiet /\ Inv'
<1>1. TypeOK /\ TypeOK'
  BY WorldTypes DEF Inv
<1>2. UNCHANGED <<config, store, sess, cleaner, served>>
  BY DEF ContainerReady, ContainerFails, WatchPods, BackgroundExpires
<1>3. \A t \in Sessions : QuietSession(t)
  BY <1>2, QuietStay
<1>4. QuietStore
  BY <1>2, SameStore
<1>5. QuietContainers
  <2>1. ASSUME NEW c \in Containers, cont[c].life \in {"new", "up"}, NEW life \in {"up", "bad", "gone"},
               cont' = [cont EXCEPT ![c].life = life]
        PROVE  QuietContainers
    BY <1>1, <2>1 DEF TypeOK, ContainerRecord, QuietContainers, Exists
  <2> QED
    BY <2>1, SameContainers DEF ContainerReady, ContainerFails, WatchPods, BackgroundExpires
<1>6. QuietFaults
  <2>1. ASSUME NEW c \in Containers, ContainerFails(c) PROVE QuietFaults
    BY <1>1, <1>2, <2>1, MoreFaults DEF ContainerFails, FaultKinds
  <2> QED
    BY <1>2, <2>1, SameFaults DEF ContainerReady, WatchPods, BackgroundExpires
<1>7. QuietWorkers
  <2>1. ASSUME NEW w \in Workers, WatchPods(w) PROVE QuietWorkers
    <3>1. ASSUME NEW v \in Workers, NEW d \in cache'[v].pods
          PROVE  d \in cache[v].pods \/ d \in Shared
      BY <1>1, <2>1, <3>1 DEF WatchPods, TypeOK, CacheRecord
    <3>2. \A d \in Shared : Made(d) /\ ~cont[d].exclusive
      BY DEF Shared, Made, Exists
    <3> QED
      BY <1>2, <3>1, <3>2 DEF QuietWorkers
  <2> QED
    BY <1>2, <2>1, SameWorkers DEF ContainerReady, ContainerFails, BackgroundExpires
<1>8. Quiet
  BY <1>1, <1>2, <1>3, <1>4, <1>5, <1>6, <1>7 DEF Quiet
<1> QED
  BY <1>2, <1>8, QuietInv

-----------------------------------------------------------------------------
(* The background tasks.                                                   *)

\* What a pass lists has been created.
LEMMA ListedMade ==
    ASSUME Inv, NEW w \in Workers, NEW pass \in {"off", "exclusive", "unhealthy", "reuse"},
           NEW c \in Listed(w, pass)
    PROVE  c \in Containers /\ Made(c)
BY CandidatesShared DEF Listed, ExclusiveContainers, UnhealthyContainers, UnhealthyPods, Shared, Made, Exists

\* The cleaners that do not move, and the one that does.
LEMMA CleanInv ==
    ASSUME Inv, Quiet, NEW w \in Workers, \A v \in Workers : v # w => cleaner'[v] = cleaner[v],
           cleaner'[w].step # "check" => cleaner'[w].victim \in Containers,
           cleaner'[w].step = "forget" /\ Deletes' => cont'[cleaner'[w].victim].life = "gone",
           cleaner'[w].step = "delete" /\ cleaner'[w].pc = "reuse" =>
              config.reuse <= Cardinality(served[cleaner'[w].victim])
    PROVE  Inv'
<1>1. QuietContainers /\ QuietFaults /\ config' = config /\ served' = served
  BY DEF Quiet
<1>2. ASSUME NEW v \in Workers
      PROVE  /\ cleaner'[v].step # "check" => cleaner'[v].victim \in Containers
             /\ cleaner'[v].step = "forget" /\ Deletes' => cont'[cleaner'[v].victim].life = "gone"
             /\ cleaner'[v].step = "delete" /\ cleaner'[v].pc = "reuse" =>
                   config'.reuse <= Cardinality(served'[cleaner'[v].victim])
  <2>1. CASE v = w
    BY <1>1, <2>1
  <2>2. CASE v # w
    BY <1>1, <2>2, QuietCleaning
  <2> QED
    BY <2>1, <2>2
<1>3. Cleaning'
  BY <1>2 DEF Cleaning
<1> QED
  BY <1>3, QuietStep

\* A pass begins, and the next one.
LEMMA PassQuiet ==
    ASSUME Inv, TypeOK', NEW w \in Workers, NEW pass \in {"off", "exclusive", "unhealthy", "reuse"},
           Pass(w, pass), cache' = cache \/ cache' = Identified(w),
           UNCHANGED <<config, cont, store, sess, served, faults>>
    PROVE  Quiet /\ Inv'
<1>1. TypeOK
  BY DEF Inv
<1>2. /\ cleaner'[w] = [NoCleaning EXCEPT !.pc = pass, !.todo = Listed(w, pass)]
      /\ \A v \in Workers : v # w => cleaner'[v] = cleaner[v]
  BY <1>1, PassTypes
<1>3. cleaner'[w].todo = Listed(w, pass) /\ cleaner'[w].victim = NoOne /\ cleaner'[w].step = "check"
  BY <1>2 DEF NoCleaning
<1>4. ASSUME NEW v \in Workers, NEW c \in Containers
      PROVE  /\ c \in cache'[v].pods => c \in cache[v].pods \/ (Made(c) /\ ~cont[c].exclusive)
             /\ c \in cleaner'[v].todo => c \in cleaner[v].todo \/ Made(c)
             /\ c = cleaner'[v].victim => c = cleaner[v].victim \/ Made(c)
  <2>1. c \in cache'[v].pods => c \in cache[v].pods \/ (Made(c) /\ ~cont[c].exclusive)
    BY IdentifiedPods
  <2>2. c \in cleaner'[v].todo => c \in cleaner[v].todo \/ Made(c)
    <3>1. CASE v = w
      BY <1>3, <3>1, ListedMade
    <3>2. CASE v # w
      BY <1>2, <3>2
    <3> QED
      BY <3>1, <3>2
  <2>3. c = cleaner'[v].victim => c = cleaner[v].victim \/ Made(c)
    BY <1>2, <1>3, ConfigsAssumption
  <2> QED
    BY <2>1, <2>2, <2>3
<1>5. QuietWorkers
  BY <1>4 DEF QuietWorkers
<1>6. \A t \in Sessions : QuietSession(t)
  BY QuietStay
<1>7. Quiet
  BY <1>5, <1>6, SameContainers, SameFaults, SameStore DEF Quiet
<1> QED
  BY <1>2, <1>3, <1>7, CleanInv

\* A cleaner that goes on leaves the caches alone and picks from its list.
LEMMA CleanerWorkers ==
    ASSUME Inv, cache' = cache, NEW w \in Workers,
           \A v \in Workers : v # w => cleaner'[v] = cleaner[v],
           cleaner'[w].todo \subseteq cleaner[w].todo,
           cleaner'[w].victim \in cleaner[w].todo \cup {cleaner[w].victim, NoOne}
    PROVE  QuietWorkers
<1>1. \A c \in Containers : c \in cleaner[w].todo => Made(c)
  BY DEF Inv, NamesKnown
<1>2. \A v \in Workers, c \in Containers : c \in cleaner'[v].todo => c \in cleaner[v].todo
  OBVIOUS
<1>3. \A v \in Workers, c \in Containers : c = cleaner'[v].victim => c = cleaner[v].victim \/ Made(c)
  BY <1>1, ConfigsAssumption
<1> QED
  BY <1>2, <1>3 DEF QuietWorkers

\* The first question, whether anybody has an allocation.
LEMMA CheckQuiet ==
    ASSUME Inv, TypeOK', NEW w \in Workers, CleanCheck(w)
    PROVE  Quiet /\ Inv'
<1>1. TypeOK /\ UNCHANGED <<config, cont, cache, store, sess, served, faults>>
  BY DEF Inv, CleanCheck
<1>2. /\ \A v \in Workers : v # w => cleaner'[v] = cleaner[v]
      /\ cleaner'[w].pc = cleaner[w].pc /\ cleaner'[w].todo \subseteq cleaner[w].todo
      /\ cleaner'[w].victim \in cleaner[w].todo \cup {NoOne}
      /\ \/ cleaner'[w].step = "check"
         \/ cleaner'[w].victim \in Containers /\ cleaner'[w].step = "uses"
         \/ cleaner'[w].victim \in Containers /\ cleaner'[w].pc # "reuse" /\ cleaner'[w].step = "delete"
  BY <1>1, Checked
<1>3. QuietWorkers
  BY <1>1, <1>2, CleanerWorkers
<1>4. \A t \in Sessions : QuietSession(t)
  BY <1>1, QuietStay
<1>5. Quiet
  BY <1>1, <1>3, <1>4, SameContainers, SameFaults, SameStore DEF Quiet
<1> QED
  BY <1>2, <1>5, CleanInv

\* The second one, how often the container was used.  The answer is a lower
\* bound of the sessions served, for ever.
LEMMA UsesQuiet ==
    ASSUME Inv, TypeOK', NEW w \in Workers, CleanUses(w)
    PROVE  Quiet /\ Inv'
<1>1. TypeOK /\ UNCHANGED <<config, cont, cache, store, sess, served, faults>>
  BY DEF Inv, CleanUses
<1>2. PICK p \in {"check", "delete"} :
        /\ cleaner' = [cleaner EXCEPT ![w].step = p]
        /\ p = "delete" => WornOut(cleaner[w].victim)
  BY DEF CleanUses
<1>3. /\ \A v \in Workers : v # w => cleaner'[v] = cleaner[v]
      /\ cleaner'[w].pc = cleaner[w].pc /\ cleaner'[w].todo = cleaner[w].todo
      /\ cleaner'[w].victim = cleaner[w].victim /\ cleaner'[w].step = p
  BY <1>1, <1>2, CleanerStep
<1>4. cleaner[w].victim \in Containers
  BY DEF Inv, Cleaning, CleanUses
<1>5. p = "delete" => config.reuse <= Cardinality(served[cleaner[w].victim])
  <2>1. PICK c \in Containers : c = cleaner[w].victim
    BY <1>4
  <2>2. store.uses[c] <= Cardinality(Counted(c))
    BY DEF Inv, UsesCounted
  <2>3. /\ Cardinality(Counted(c)) \in Nat /\ Cardinality(served[c]) \in Nat
        /\ Cardinality(Counted(c)) <= Cardinality(served[c])
    BY AllocFinite DEF Counted, Inv
  <2>4. store.uses[c] \in Nat /\ config.reuse \in Nat
    BY <1>1, ConfigTypes, StoreTypes DEF TypeOK
  <2>5. p = "delete" => store.uses[c] >= config.reuse
    BY <1>2, <2>1 DEF WornOut
  <2> QED
    BY <2>1, <2>2, <2>3, <2>4, <2>5
<1>6. QuietWorkers
  BY <1>1, <1>3, CleanerWorkers
<1>7. \A t \in Sessions : QuietSession(t)
  BY <1>1, QuietStay
<1>8. Quiet
  BY <1>1, <1>6, <1>7, SameContainers, SameFaults, SameStore DEF Quiet
<1> QED
  BY <1>2, <1>3, <1>4, <1>5, <1>8, CleanInv

\* The deletion, which may fail.
LEMMA CleanDeleteQuiet ==
    ASSUME Inv, TypeOK', NEW w \in Workers, CleanDelete(w)
    PROVE  Quiet /\ Inv'
<1>1. TypeOK /\ UNCHANGED <<config, cache, store, sess, served>>
  BY DEF Inv, CleanDelete
<1>2. PICK p \in {"check", "forget"} :
        /\ cleaner' = [cleaner EXCEPT ![w].step = p]
        /\ \/ cont' = [cont EXCEPT ![cleaner[w].victim].life = "gone"] /\ faults' = faults
           \/ DeleteFails /\ cont' = cont /\ (p = "forget" => Docker)
  BY DEF CleanDelete
<1>3. /\ \A v \in Workers : v # w => cleaner'[v] = cleaner[v]
      /\ cleaner'[w].pc = cleaner[w].pc /\ cleaner'[w].todo = cleaner[w].todo
      /\ cleaner'[w].victim = cleaner[w].victim /\ cleaner'[w].step = p
  BY <1>1, <1>2, CleanerStep
<1>4. cleaner[w].victim \in Containers /\ Made(cleaner[w].victim)
  <2>1. cleaner[w].victim \in Containers
    BY DEF Inv, Cleaning, CleanDelete
  <2> QED
    BY <2>1 DEF Inv, NamesKnown
<1>5. QuietContainers /\ QuietFaults /\ (p = "forget" /\ Deletes' => cont'[cleaner[w].victim].life = "gone")
  <2>1. CASE cont' = [cont EXCEPT ![cleaner[w].victim].life = "gone"] /\ faults' = faults
    BY <1>1, <1>4, <2>1, GoneContainer, SameFaults
  <2>2. CASE DeleteFails /\ cont' = cont /\ (p = "forget" => Docker)
    <3>1. Failures("delete", IF Docker THEN 1 ELSE 2)
      BY <2>2 DEF DeleteFails, DockerCallFails, ApiCallFails
    <3>2. QuietFaults /\ (Docker => ~Deletes')
      BY <1>1, <3>1, MoreFaults DEF FaultKinds
    <3> QED
      BY <2>2, <3>2, SameContainers
  <2> QED
    BY <1>2, <2>1, <2>2
<1>6. QuietWorkers
  BY <1>1, <1>3, CleanerWorkers
<1>7. \A t \in Sessions : QuietSession(t)
  BY <1>1, QuietStay
<1>8. Quiet
  BY <1>1, <1>5, <1>6, <1>7, SameStore DEF Quiet
<1> QED
  BY <1>2, <1>3, <1>4, <1>5, <1>8, CleanInv

\* remove_container, of a container that is gone unless docker failed.
LEMMA ForgetQuiet ==
    ASSUME Inv, TypeOK', NEW w \in Workers, CleanForget(w)
    PROVE  Quiet /\ Inv'
<1>1. TypeOK /\ UNCHANGED <<config, cont, sess, served, faults>>
  BY DEF Inv, CleanForget
<1>2. cleaner[w].victim \in Containers /\ (Deletes => cont[cleaner[w].victim].life = "gone")
  BY DEF Inv, Cleaning, CleanForget
<1>3. store' = RemoveContainer(cleaner[w].victim)
  BY DEF CleanForget
<1>4. Deletes' <=> Deletes
  BY <1>1 DEF Deletes, Docker
<1>5. QuietStore
  BY <1>1, <1>2, <1>3, <1>4, ForgottenStore DEF Exists
<1>6. store'.live = store.live /\ store'.lock = store.lock
  BY <1>1, <1>2, <1>3, Removed
<1>7. /\ \A v \in Workers : v # w => cleaner'[v] = cleaner[v]
      /\ cleaner'[w].todo = cleaner[w].todo /\ cleaner'[w].victim = NoOne /\ cleaner'[w].step = "check"
  BY <1>1, CleanerForgets DEF CleanForget
<1>8. \A v \in Workers, d \in Containers : d \in cache'[v].pods => d \in cache[v].pods
  BY <1>1, Evicted DEF CleanForget
<1>9. QuietWorkers
  BY <1>7, <1>8, ConfigsAssumption DEF QuietWorkers
<1>10. \A t \in Sessions : QuietSession(t)
  BY <1>1, <1>6, QuietStay
<1>11. Quiet
  BY <1>1, <1>5, <1>9, <1>10, SameContainers, SameFaults DEF Quiet
<1> QED
  BY <1>7, <1>11, CleanInv

\* Any step of a background task.
LEMMA CleanQuiet ==
    ASSUME Inv, NEW w \in Workers, CleanStep(w)
    PROVE  Quiet /\ Inv'
<1>1. TypeOK'
  BY CleanTypes DEF Inv, Cleaning
<1>2. CASE CleanBegin(w)
  BY <1>1, <1>2, PassQuiet DEF CleanBegin
<1>3. CASE CleanNext(w)
  <2>1. cleaner[w].pc \in {"exclusive", "unhealthy", "reuse"}
    BY <1>3, FieldTypes DEF Inv, CleanNext, CleanerRecord
  <2>2. PICK pass \in {"off", "exclusive", "unhealthy", "reuse"} : Pass(w, pass)
    BY <1>3, <2>1 DEF CleanNext
  <2>3. /\ cache' = cache \/ cache' = Identified(w)
        /\ UNCHANGED <<config, cont, store, sess, served, faults>>
    BY <1>3 DEF CleanNext
  <2> QED
    BY <1>1, <2>2, <2>3, PassQuiet
<1> QED
  BY <1>1, <1>2, <1>3, CheckQuiet, UsesQuiet, CleanDeleteQuiet, ForgetQuiet DEF CleanStep

-----------------------------------------------------------------------------
(* The refinement of ContainerPool.                                        *)

\* The variables of ContainerPool, as Environments gives them.
PoolLimits == [concurrency |-> config.concurrency, reuse |-> config.reuse]
PoolLife == [c \in Containers |-> IF cont[c].life \in Exists THEN "up" ELSE cont[c].life]
PoolUsers == [c \in Containers |-> Users(c)]
PoolServed == [c \in Containers |-> served[c] \ Uncounted(c)]

\* While the counts can be relied upon, a step is one of the pool or a stutter.
Refines == Counts => [Pool!Next]_(Pool!vars)

\* A step that changes none of them is a stutter.
LEMMA StutterRefines ==
    ASSUME config' = config, PoolLife' = PoolLife, PoolUsers' = PoolUsers, PoolServed' = PoolServed
    PROVE  Refines
BY DEF Refines, Pool!vars, PoolLife, PoolUsers, PoolServed

\* Cardinality is the same function in the instance.
LEMMA PoolCardinality == ASSUME NEW S PROVE Pool!Cardinality(S) = Cardinality(S)
BY DEF Pool!Cardinality, Cardinality

\* Steps that do not show: of the containers, and of their users.
LEMMA SamePoolLife ==
    ASSUME TypeOK, TypeOK', QuietContainers,
           \A c \in Containers : cont'[c].life \in Exists <=> cont[c].life \in Exists
    PROVE  PoolLife' = PoolLife
<1>1. ASSUME NEW c \in Containers
      PROVE  PoolLife'[c] = PoolLife[c]
  <2>1. /\ cont[c].life \in {"none", "new", "up", "bad", "gone"}
        /\ cont'[c].life \in {"none", "new", "up", "bad", "gone"}
    BY DEF TypeOK, ContainerRecord
  <2> QED
    BY <2>1 DEF QuietContainers, PoolLife, Exists
<1> QED
  BY <1>1 DEF PoolLife

LEMMA SamePoolUse ==
    ASSUME store'.live = store.live, served' = served,
           \A s \in Sessions : sess'[s].pc = sess[s].pc /\ sess'[s].mine = sess[s].mine /\ sess'[s].sel = sess[s].sel,
           TypeOK
    PROVE  PoolUsers' = PoolUsers /\ PoolServed' = PoolServed
<1>1. store.live \subseteq Sessions
  BY StoreTypes DEF TypeOK
<1>2. \A c \in Containers : Users(c)' = Users(c) /\ Uncounted(c)' = Uncounted(c)
  BY <1>1 DEF Users, Uncounted
<1> QED
  BY <1>2 DEF PoolUsers, PoolServed

\* A quiet step that destroys nothing only lets sessions leave.
LEMMA QuietLeaves ==
    ASSUME Inv, Quiet, \A c \in Containers : cont'[c].life \in Exists <=> cont[c].life \in Exists
    PROVE  Refines
<1>1. TypeOK /\ TypeOK' /\ config' = config /\ served' = served
  BY DEF Inv, Quiet
<1>2. PoolLife' = PoolLife
  BY <1>1, SamePoolLife DEF Quiet
<1>3. \A c \in Containers : Users(c)' \subseteq Users(c)
  BY <1>1, UsersAre, UsersWillBe DEF Quiet, QuietSession
<1>4. ASSUME NEW c \in Containers, NEW s \in Sessions, s \in Uncounted(c)
      PROVE  s \in Uncounted(c)'
  <2>1. /\ sess'[s].sel = sess[s].sel
        /\ sess[s].pc = "count" => sess'[s].pc \in {"count", "dead"}
        /\ sess[s].pc \in {"dead", "failed"} => sess'[s].pc = sess[s].pc
        /\ sess[s].pc = "count" /\ s \in store'.live => s \in store.live
    BY DEF Quiet, QuietSession
  <2> QED
    BY <1>4, <2>1 DEF Uncounted
<1>5. ASSUME NEW c \in Containers, NEW s \in Sessions, s \in served[c], s \notin Uncounted(c), s \in Uncounted(c)'
      PROVE  s \in Users(c) /\ s \notin Users(c)'
  <2>1. sess'[s].sel = sess[s].sel /\ sess'[s].sel = c
    BY <1>5 DEF Quiet, QuietSession, Uncounted
  <2>2. sess[s].pc \in {"count", "dead"}
    BY <1>5, <2>1, ConfigsAssumption DEF Inv, Stages
  <2>3. sess[s].pc = "count" /\ s \in store.live
    BY <1>5, <2>1, <2>2 DEF Uncounted
  <2>4. Using(s, c)
    BY <2>1, <2>3 DEF Using, Ended
  <2>5. ~Using(s, c)'
    BY <1>5 DEF Using, Uncounted, Ended
  <2> QED
    BY <1>1, <2>4, <2>5, UsersAre, UsersWillBe
<1>6. \A c \in Containers : served[c] \subseteq Sessions /\ Uncounted(c) \subseteq Sessions /\ Uncounted(c)' \subseteq Sessions
  BY <1>1 DEF TypeOK, Uncounted
<1>7. /\ \A c \in Containers : PoolUsers'[c] \subseteq PoolUsers[c]
      /\ \A c \in Containers : PoolServed'[c] \subseteq PoolServed[c]
      /\ \A c \in Containers : PoolServed[c] \ PoolServed'[c] \subseteq PoolUsers[c] \ PoolUsers'[c]
  BY <1>1, <1>3, <1>4, <1>5, <1>6 DEF PoolUsers, PoolServed
<1>8. Pool!Leave
  BY <1>1, <1>2, <1>7 DEF Pool!Leave, PoolLife, PoolUsers, PoolServed
<1> QED
  BY <1>8 DEF Refines, Pool!Next

\* A container is destroyed, if it was there.
LEMMA GoneRefines ==
    ASSUME Inv, Quiet, NEW c \in Containers, Made(c),
           cont' = cont \/ cont' = [cont EXCEPT ![c].life = "gone"],
           PoolUsers' = PoolUsers, PoolServed' = PoolServed
    PROVE  Refines
<1>1. TypeOK /\ config' = config
  BY DEF Inv, Quiet
<1>2. CASE cont' = cont
  BY <1>2, QuietLeaves
<1>3. CASE cont' = [cont EXCEPT ![c].life = "gone"] /\ cont[c].life \notin Exists
  <2>1. \A d \in Containers : cont'[d].life \in Exists <=> cont[d].life \in Exists
    BY <1>1, <1>3, GoneContainer DEF Exists
  <2> QED
    BY <2>1, QuietLeaves
<1>4. CASE cont' = [cont EXCEPT ![c].life = "gone"] /\ cont[c].life \in Exists
  <2>1. cont'[c].life = "gone" /\ \A d \in Containers : d # c => cont'[d] = cont[d]
    BY <1>1, <1>4, GoneContainer
  <2>2. PoolLife[c] = "up" /\ PoolLife'[c] = "gone"
    BY <1>4, <2>1 DEF PoolLife, Exists
  <2>3. \A d \in Containers : d # c => PoolLife'[d] = PoolLife[d]
    BY <2>1 DEF PoolLife
  <2>4. PoolLife' = [PoolLife EXCEPT ![c] = "gone"]
    BY <2>2, <2>3 DEF PoolLife
  <2>5. Pool!Destroy(c)
    BY <1>1, <2>2, <2>4 DEF Pool!Destroy, PoolLife, PoolUsers, PoolServed
  <2> QED
    BY <2>5 DEF Refines, Pool!Next
<1> QED
  BY <1>2, <1>3, <1>4

\* A container is given within its limits: the sessions that use it have an
\* allocation, and those that were served have been counted, because nobody
\* else is choosing it.
LEMMA AssignRefines ==
    ASSUME Inv, NEW s \in Sessions, NEW c \in Containers, Made(c), config' = config, cont' = cont,
           s \notin store.alloc[c] \/ s \notin Users(c), Users(c)' \in {Users(c), Users(c) \cup {s}},
           \A d \in Containers : d # c => Users(d)' = Users(d) /\ PoolServed'[d] = PoolServed[d],
           PoolServed'[c] = PoolServed[c] \cup {s},
           Below(Cardinality(store.alloc[c] \ {s}), config.concurrency), Below(store.uses[c], config.reuse),
           \A t \in Sessions : sess[t].sel = c /\ sess[t].pc = "count" => t \notin store.live
    PROVE  Refines
<1> SUFFICES ASSUME Counts PROVE Pool!Next
  BY DEF Refines
<1>1. TypeOK /\ ServedFinite /\ config.concurrency \in Nat /\ config.reuse \in Nat /\ Deletes
  BY ConfigTypes DEF Inv, Counts
<1>2. PoolLife[c] # "none" /\ PoolLife' = PoolLife
  BY DEF PoolLife, Made
<1>3. PoolUsers' \in {PoolUsers, [PoolUsers EXCEPT ![c] = @ \cup {s}]}
  BY DEF PoolUsers
<1>4. PoolServed' = [PoolServed EXCEPT ![c] = @ \cup {s}]
  BY DEF PoolServed
<1>5. ASSUME PoolLife[c] = "up"
      PROVE  /\ Below(Cardinality(PoolUsers[c]), config.concurrency)
             /\ Below(Cardinality(PoolServed[c]), config.reuse)
  <2>1. cont[c].life \in Exists
    BY <1>1, <1>5 DEF PoolLife, TypeOK, ContainerRecord, Exists
  <2>2. Users(c) \subseteq store.alloc[c] \ {s} /\ store.alloc[c] \subseteq served[c]
    BY <1>1, <2>1 DEF Inv, UseIsRecorded, ServedFinite
  <2>3. /\ Cardinality(Users(c)) \in Nat /\ Cardinality(store.alloc[c] \ {s}) \in Nat
        /\ Cardinality(Users(c)) <= Cardinality(store.alloc[c] \ {s})
    BY <1>1, <2>2, AllocFinite
  <2>4. Below(Cardinality(Users(c)), config.concurrency)
    BY <1>1, <2>3, BelowStays
  <2>5. served[c] \ Uncounted(c) = Counted(c)
    BY DEF Uncounted, Counted
  <2>6. Cardinality(Counted(c)) \in Nat
    BY <1>1, AllocFinite DEF Counted
  <2>7. Cardinality(Counted(c)) <= store.uses[c]
    BY <2>1 DEF Inv, UsesCounted
  <2>8. store.uses[c] \in Nat
    BY <1>1, StoreTypes DEF TypeOK
  <2>9. Below(Cardinality(Counted(c)), config.reuse)
    BY <1>1, <2>6, <2>7, <2>8, BelowStays
  <2> QED
    BY <2>4, <2>5, <2>9 DEF PoolUsers, PoolServed
<1>6. Pool!Assign(c, s)
  <2>1. PoolLife[c] = "up" => /\ Pool!Below(Cardinality(PoolUsers[c]), config.concurrency)
                              /\ Pool!Below(Cardinality(PoolServed[c]), config.reuse)
    BY <1>5 DEF Below, Pool!Below
  <2>2. PoolLife[c] = "up" => /\ Pool!Below(Pool!Cardinality(PoolUsers[c]), config.concurrency)
                              /\ Pool!Below(Pool!Cardinality(PoolServed[c]), config.reuse)
    BY <2>1, PoolCardinality
  <2>3. PoolLimits' = PoolLimits
    BY DEF PoolLimits
  <2>4. PoolUsers' = [PoolUsers EXCEPT ![c] = PoolUsers[c] \cup {s}] \/ PoolUsers' = PoolUsers
    BY <1>3
  <2> QED
    BY <1>2, <1>4, <2>2, <2>3, <2>4 DEF Pool!Assign, PoolLimits, PoolLife, PoolUsers, PoolServed
<1> QED
  BY <1>6 DEF Pool!Next

-----------------------------------------------------------------------------
(* A session is given container c, in up to three steps (Select, Allocate, *)
(* Count): what they have in common.                                       *)

\* What the three have in common: one container is concerned, of one session.
Giving(s, c) ==
    /\ TypeOK' /\ UNCHANGED <<config, cont, cache, cleaner, faults>>
    /\ Made(c)
    /\ store'.live = store.live
    /\ ~Local => \A t \in Sessions : t # s /\ store.lock = t => store'.lock = t
    /\ \A d \in Containers \ {c} :
          served'[d] = served[d] /\ store'.alloc[d] = store.alloc[d] /\ store'.uses[d] = store.uses[d]
    /\ served'[c] \in {served[c], served[c] \cup {s}}
    /\ store'.alloc[c] \in {store.alloc[c], store.alloc[c] \cup {s}} /\ store'.alloc[c] \subseteq served'[c]
    /\ \A t \in Sessions : t # s => sess'[t] = sess[t] /\ (sess[t].pc \in Choosing => sess[t].sel # c)
    /\ sess[s].sel \in {c, NoOne}
    /\ sess'[s].mine \subseteq sess[s].mine \cup {c}
    /\ sess'[s].excl \subseteq sess[s].excl \cup sess[s].mine \cup {c}
    /\ sess'[s].cands \subseteq sess[s].cands

\* Where it then stands.
Given(s, c) ==
    \/ sess'[s].pc \in {"create", "store"} /\ sess'[s].sel = NoOne
    \/ /\ ~Local /\ sess'[s].sel = c
       /\ cont[c].exclusive \/ store'.lock = s
       /\ \/ sess'[s].pc = "allocate" /\ s \notin served'[c]
          \/ sess'[s].pc = "count" /\ s \in served'[c]
       /\ Below(Cardinality(store'.alloc[c] \ {s}), config.concurrency)
       /\ Below(store'.uses[c], config.reuse)

\* What such a step preserves, one part of the invariant after the other.
LEMMA GivingNames ==
    ASSUME Inv, NEW s \in Sessions, NEW c \in Containers, Giving(s, c), sess'[s].sel \in {c, NoOne}
    PROVE  NamesKnown'
<1>1. NamesKnown /\ cont' = cont /\ cache' = cache /\ cleaner' = cleaner /\ Made(c)
  BY DEF Inv, Giving
<1>2. \A d \in Containers : (Made(d)' <=> Made(d)) /\ cont'[d].exclusive = cont[d].exclusive
  BY <1>1 DEF Made
<1>3. ASSUME NEW t \in Sessions, NEW d \in Containers
      PROVE  /\ d \in sess'[t].mine \cup sess'[t].excl => Made(d)'
             /\ d = sess'[t].sel => Made(d)'
             /\ d \in sess'[t].cands => Made(d)' /\ ~cont'[d].exclusive
  <2>1. CASE t # s
    BY <1>1, <1>2, <2>1 DEF Giving, NamesKnown
  <2>2. CASE t = s
    <3>1. sess'[s].sel # d \/ d = c
      BY ConfigsAssumption
    <3> QED
      BY <1>1, <1>2, <2>2, <3>1 DEF Giving, NamesKnown
  <2> QED
    BY <2>1, <2>2
<1>4. \A w \in Workers : \A d \in Containers :
          /\ d \in cache'[w].pods => Made(d)' /\ ~cont'[d].exclusive
          /\ d \in cleaner'[w].todo => Made(d)'
          /\ d = cleaner'[w].victim => Made(d)'
  BY <1>1, <1>2 DEF NamesKnown
<1>5. \A d \in Containers : served'[d] # {} => Made(d)'
  BY <1>1, <1>2 DEF Giving, NamesKnown
<1> QED
  BY <1>3, <1>4, <1>5 DEF NamesKnown

\* The session stands where its stage says.
LEMMA GivingStages ==
    ASSUME Inv, NEW s \in Sessions, NEW c \in Containers, Giving(s, c), Given(s, c)
    PROVE  Stages'
<1>1. Local' <=> Local
  BY DEF Giving, Local
<1>2. ASSUME NEW t \in Sessions
      PROVE  /\ sess'[t].pc = "idle" => sess'[t].mine = {}
             /\ sess'[t].pc = "identify" => sess'[t].at \in Workers
             /\ sess'[t].pc \in Early => \A d \in Containers : t \notin served'[d]
             /\ sess'[t].pc \in Choosing => sess'[t].sel \in Containers
             /\ sess'[t].sel # NoOne => sess'[t].pc \in Choosing \cup {"dead", "failed"}
             /\ sess'[t].sel # NoOne /\ t \in served'[sess'[t].sel] => sess'[t].pc \in {"count", "dead"}
             /\ sess'[t].pc = "count" => t \in served'[sess'[t].sel]
             /\ Local' /\ sess'[t].pc \in Choosing =>
                   sess'[t].pc = "allocate" /\ cont'[sess'[t].sel].exclusive
  <2>1. CASE t = s
    BY <1>1, <2>1 DEF Given, Early, Choosing
  <2>2. CASE t # s
    <3>1. sess'[t] = sess[t] /\ cont' = cont
      BY <2>2 DEF Giving
    <3>2. \A d \in Containers : t \in served'[d] <=> t \in served[d]
      BY <2>2 DEF Giving
    <3>3. /\ sess[t].pc = "idle" => sess[t].mine = {}
          /\ sess[t].pc = "identify" => sess[t].at \in Workers
          /\ sess[t].pc \in Early => \A d \in Containers : t \notin served[d]
          /\ sess[t].pc \in Choosing => sess[t].sel \in Containers
          /\ sess[t].sel # NoOne => sess[t].pc \in Choosing \cup {"dead", "failed"}
          /\ sess[t].sel # NoOne /\ t \in served[sess[t].sel] => sess[t].pc \in {"count", "dead"}
          /\ sess[t].pc = "count" => t \in served[sess[t].sel]
          /\ Local /\ sess[t].pc \in Choosing => sess[t].pc = "allocate" /\ cont[sess[t].sel].exclusive
      BY DEF Inv, Stages
    <3>4. sess[t].sel \in Containers \cup {NoOne}
      BY FieldTypes DEF Inv
    <3>5. sess[t].pc = "count" => sess[t].sel \in Containers
      BY <3>3 DEF Choosing
    <3> QED
      BY <1>1, <3>1, <3>2, <3>3, <3>4, <3>5
  <2> QED
    BY <2>1, <2>2
<1> QED
  BY <1>2 DEF Stages

\* The lock, and that what was read under it still holds.
LEMMA GivingLock ==
    ASSUME Inv, NEW s \in Sessions, NEW c \in Containers, Giving(s, c), Given(s, c)
    PROVE  LockHeld' /\ OneChooser' /\ StillUsable'
<1>1. (Local' <=> Local) /\ cont' = cont /\ config' = config
  BY DEF Giving, Local
<1>2. sess'[s].pc # "select" /\ (sess'[s].pc \in Choosing => sess'[s].sel = c)
  BY DEF Given, Choosing
<1>3. \A t \in Sessions : t # s => sess'[t] = sess[t] /\ (sess[t].pc \in Choosing => sess[t].sel # c)
  BY DEF Giving
<1>4. ASSUME ~Local', NEW t \in Sessions
      PROVE  /\ sess'[t].pc = "select" => store'.lock = t
             /\ sess'[t].pc \in Choosing => cont'[sess'[t].sel].exclusive \/ store'.lock = t
  <2>1. CASE t = s
    BY <1>1, <1>2, <2>1 DEF Given, Choosing
  <2>2. CASE t # s
    <3>1. /\ sess[t].pc = "select" => store.lock = t
          /\ sess[t].pc \in Choosing => cont[sess[t].sel].exclusive \/ store.lock = t
      BY <1>1, <1>4 DEF Inv, LockHeld
    <3>2. store.lock = t => store'.lock = t
      BY <1>1, <1>4, <2>2 DEF Giving
    <3> QED
      BY <1>1, <1>3, <2>2, <3>1, <3>2
  <2> QED
    BY <2>1, <2>2
<1>5. OneChooser'
  BY <1>2, <1>3 DEF Inv, OneChooser
<1>6. ASSUME NEW t \in Sessions, sess'[t].pc \in Choosing
      PROVE  /\ Below(Cardinality(store'.alloc[sess'[t].sel] \ {t}), config'.concurrency)
             /\ Below(store'.uses[sess'[t].sel], config'.reuse)
  <2>1. CASE t = s
    BY <1>1, <1>6, <2>1 DEF Given, Choosing
  <2>2. CASE t # s
    <3>1. sess'[t].sel = sess[t].sel /\ sess[t].sel # c /\ sess[t].sel \in Containers /\ sess[t].pc \in Choosing
      BY <1>3, <1>6, <2>2 DEF Inv, Stages
    <3>2. store'.alloc[sess[t].sel] = store.alloc[sess[t].sel] /\ store'.uses[sess[t].sel] = store.uses[sess[t].sel]
      BY <3>1 DEF Giving
    <3>3. /\ Below(Cardinality(store.alloc[sess[t].sel] \ {t}), config.concurrency)
          /\ Below(store.uses[sess[t].sel], config.reuse)
      BY <3>1 DEF Inv, StillUsable
    <3> QED
      BY <1>1, <3>1, <3>2, <3>3
  <2> QED
    BY <2>1, <2>2
<1> QED
  BY <1>4, <1>5, <1>6 DEF LockHeld, StillUsable

\* A container that is not given keeps its count.
LEMMA GivingCounted ==
    ASSUME Inv, NEW s \in Sessions, NEW c \in Containers, Giving(s, c), sess'[s].sel \in {c, NoOne},
           NEW d \in Containers, d # c
    PROVE  Counted(d)' = Counted(d)
<1>1. sess[s].sel # d /\ sess'[s].sel # d
  BY ConfigsAssumption DEF Giving
<1>2. served'[d] = served[d] /\ \A t \in Sessions : t # s => sess'[t] = sess[t]
  BY DEF Giving
<1> QED
  BY <1>1, <1>2 DEF Counted

\* The invariant, from what remains to be shown of the counters and of the
\* record for each of the three.
LEMMA GivingInv ==
    ASSUME Inv, NEW s \in Sessions, NEW c \in Containers, Giving(s, c), Given(s, c),
           store'.uses[c] <= Cardinality(Counted(c)'),
           Counts /\ cont[c].life \in Exists => Cardinality(Counted(c)') <= store'.uses[c],
           Deletes => \A d \in Containers : cont[d].life \in Exists /\ Using(s, d)' => s \in store'.alloc[d]
    PROVE  Inv'
<1>1. TypeOK /\ TypeOK' /\ UNCHANGED <<config, cont, cache, cleaner, faults>>
  BY DEF Inv, Giving
<1>2. (Deletes' <=> Deletes) /\ (Counts' <=> Counts)
  BY <1>1 DEF Deletes, Counts, Docker, Local
<1>3. sess'[s].sel \in {c, NoOne}
  BY DEF Given
<1>4. ServedFinite'
  <2>1. ASSUME NEW d \in Containers
        PROVE  IsFiniteSet(served'[d]) /\ store'.alloc[d] \subseteq served'[d]
    <3>1. IsFiniteSet(served[d]) /\ store.alloc[d] \subseteq served[d]
      BY DEF Inv, ServedFinite
    <3>2. IsFiniteSet(served[d] \cup {s})
      BY <3>1, FS_AddElement
    <3> QED
      BY <3>1, <3>2 DEF Giving
  <2> QED
    BY <2>1 DEF ServedFinite
<1>5. UsesCounted'
  <2>1. ASSUME NEW d \in Containers
        PROVE  /\ store'.uses[d] <= Cardinality(Counted(d)')
               /\ Counts' /\ cont'[d].life \in Exists => Cardinality(Counted(d)') <= store'.uses[d]
    <3>1. CASE d = c
      BY <1>1, <1>2, <3>1
    <3>2. CASE d # c
      <4>1. Counted(d)' = Counted(d) /\ store'.uses[d] = store.uses[d]
        BY <1>3, <3>2, GivingCounted DEF Giving
      <4> QED
        BY <1>1, <1>2, <4>1 DEF Inv, UsesCounted
    <3> QED
      BY <3>1, <3>2
  <2> QED
    BY <2>1 DEF UsesCounted
<1>6. Cleaning'
  <2>1. ASSUME NEW w \in Workers
        PROVE  /\ cleaner'[w].step # "check" => cleaner'[w].victim \in Containers
               /\ cleaner'[w].step = "forget" /\ Deletes' => cont'[cleaner'[w].victim].life = "gone"
               /\ cleaner'[w].step = "delete" /\ cleaner'[w].pc = "reuse" =>
                     config'.reuse <= Cardinality(served'[cleaner'[w].victim])
    <3>1. /\ cleaner[w].step # "check" => cleaner[w].victim \in Containers
          /\ cleaner[w].step = "forget" /\ Deletes => cont[cleaner[w].victim].life = "gone"
          /\ cleaner[w].step = "delete" /\ cleaner[w].pc = "reuse" =>
                config.reuse <= Cardinality(served[cleaner[w].victim])
      BY DEF Inv, Cleaning
    <3>2. ASSUME cleaner[w].step = "delete", cleaner[w].pc = "reuse"
          PROVE  config.reuse <= Cardinality(served'[cleaner[w].victim])
      <4>1. PICK d \in Containers : d = cleaner[w].victim
        BY <3>1, <3>2
      <4>2. IsFiniteSet(served'[d]) /\ served[d] \subseteq served'[d]
        BY <1>4 DEF ServedFinite, Giving
      <4>3. /\ Cardinality(served[d]) \in Nat /\ Cardinality(served'[d]) \in Nat
            /\ Cardinality(served[d]) <= Cardinality(served'[d])
        BY <4>2, FS_Subset, FS_CardinalityType
      <4>4. config.reuse \in Nat
        BY <1>1, ConfigTypes
      <4> QED
        BY <3>1, <3>2, <4>1, <4>3, <4>4
    <3> QED
      BY <1>1, <1>2, <3>1, <3>2
  <2> QED
    BY <2>1 DEF Cleaning
<1>7. UseIsRecorded'
  <2> SUFFICES ASSUME Deletes', NEW d \in Containers, cont'[d].life \in Exists, NEW t \in Sessions, t \in Users(d)'
               PROVE  t \in store'.alloc[d]
    BY <1>1, UsersWillBe DEF UseIsRecorded
  <2>1. Using(t, d)' /\ Deletes /\ cont[d].life \in Exists
    BY <1>1, <1>2, UsersWillBe
  <2>2. CASE t = s
    BY <2>1, <2>2
  <2>3. CASE t # s
    <3>1. sess'[t] = sess[t] /\ store'.live = store.live
      BY <2>3 DEF Giving
    <3>2. Using(t, d)
      BY <2>1, <3>1 DEF Using
    <3>3. t \in store.alloc[d]
      BY <1>1, <2>1, <3>2, UsersAre DEF Inv, UseIsRecorded
    <3> QED
      BY <3>3 DEF Giving
  <2> QED
    BY <2>2, <2>3
<1>8. NamesKnown' /\ Stages' /\ LockHeld' /\ OneChooser' /\ StillUsable'
  BY <1>3, GivingNames, GivingStages, GivingLock
<1> QED
  BY <1>1, <1>4, <1>5, <1>6, <1>7, <1>8 DEF Inv

\* Seen from outside, the session is given the container when the use of a live
\* session is recorded, or when that of an expired one is counted.
LEMMA GivingRefines ==
    ASSUME Inv, NEW s \in Sessions, NEW c \in Containers, Giving(s, c), sess'[s].sel \in {c, NoOne},
           \A d \in Containers : d # c => (Using(s, d)' <=> Using(s, d)),
           Using(s, c) => Using(s, c)',
           \/ (Using(s, c)' => Using(s, c)) /\ (s \in PoolServed'[c] <=> s \in PoolServed[c])
           \/ /\ s \in PoolServed'[c]
              /\ s \notin store.alloc[c] \/ s \notin Users(c)
              /\ Below(Cardinality(store.alloc[c] \ {s}), config.concurrency)
              /\ Below(store.uses[c], config.reuse)
              /\ sess[s].pc = "count" => s \notin store.live
    PROVE  Refines
<1>1. TypeOK /\ TypeOK' /\ config' = config /\ cont' = cont /\ store'.live = store.live /\ Made(c)
  BY DEF Inv, Giving
<1>2. \A t \in Sessions : t # s => sess'[t] = sess[t]
  BY DEF Giving
<1>3. \A t \in Sessions, d \in Containers : t # s => (Using(t, d)' <=> Using(t, d))
  BY <1>1, <1>2 DEF Using
<1>4. \A d \in Containers : Users(d) \subseteq Sessions /\ Users(d)' \subseteq Sessions
  BY <1>1, UsersAre, UsersWillBe
<1>5. \A t \in Sessions, d \in Containers : (t \in Users(d) <=> Using(t, d)) /\ (t \in Users(d)' <=> Using(t, d)')
  BY <1>1, UsersAre, UsersWillBe
<1>6. ASSUME NEW d \in Containers, d # c
      PROVE  Users(d)' = Users(d)
  <2>1. \A t \in Sessions : t \in Users(d)' <=> t \in Users(d)
    BY <1>3, <1>6, <1>5
  <2> QED
    BY <1>4, <2>1
<1>7. Users(c)' = Users(c) \/ (~Using(s, c) /\ Users(c)' = Users(c) \cup {s})
  <2>1. \A t \in Sessions : t # s => (t \in Users(c)' <=> t \in Users(c))
    BY <1>3, <1>5
  <2>2. s \in Users(c) => s \in Users(c)'
    BY <1>5
  <2>3. CASE s \in Users(c)' => s \in Users(c)
    <3>1. \A t \in Sessions : t \in Users(c)' <=> t \in Users(c)
      BY <2>1, <2>2, <2>3
    <3> QED
      BY <1>4, <3>1
  <2>4. CASE s \in Users(c)' /\ s \notin Users(c)
    <3>1. \A t \in Sessions : t \in Users(c)' <=> t \in Users(c) \cup {s}
      BY <2>1, <2>4
    <3>2. Users(c)' = Users(c) \cup {s}
      BY <1>4, <3>1
    <3> QED
      BY <1>5, <2>4, <3>2
  <2> QED
    BY <2>3, <2>4
<1>8. ASSUME NEW d \in Containers, d # c
      PROVE  PoolServed'[d] = PoolServed[d]
  <2>1. sess[s].sel # d /\ sess'[s].sel # d
    BY <1>8, ConfigsAssumption DEF Giving
  <2>2. Uncounted(d)' = Uncounted(d)
    BY <1>1, <1>2, <2>1 DEF Uncounted
  <2> QED
    BY <1>8, <2>2 DEF Giving, PoolServed
<1>9. ASSUME NEW t \in Sessions, t # s
      PROVE  t \in PoolServed'[c] <=> t \in PoolServed[c]
  <2>1. t \in Uncounted(c)' <=> t \in Uncounted(c)
    BY <1>1, <1>2, <1>9 DEF Uncounted
  <2> QED
    BY <1>9, <2>1 DEF Giving, PoolServed
<1>10. PoolServed'[c] \subseteq Sessions /\ PoolServed[c] \subseteq Sessions
  BY <1>1 DEF TypeOK, PoolServed
<1>11. PoolLife' = PoolLife
  BY <1>1 DEF PoolLife
<1>12. CASE (Using(s, c)' => Using(s, c)) /\ (s \in PoolServed'[c] <=> s \in PoolServed[c])
  <2>1. Users(c)' = Users(c)
    <3>1. s \in Users(c)' => s \in Users(c)
      BY <1>12, <1>5
    <3> QED
      BY <1>7, <1>5, <3>1
  <2>2. PoolServed'[c] = PoolServed[c]
    BY <1>9, <1>10, <1>12
  <2>3. PoolUsers' = PoolUsers /\ PoolServed' = PoolServed
    BY <1>6, <1>8, <2>1, <2>2 DEF PoolUsers, PoolServed
  <2> QED
    BY <1>1, <1>11, <2>3, StutterRefines
<1>13. CASE /\ s \in PoolServed'[c]
            /\ s \notin store.alloc[c] \/ s \notin Users(c)
            /\ Below(Cardinality(store.alloc[c] \ {s}), config.concurrency)
            /\ Below(store.uses[c], config.reuse)
            /\ sess[s].pc = "count" => s \notin store.live
  <2>1. PoolServed'[c] = PoolServed[c] \cup {s}
    BY <1>9, <1>10, <1>13
  <2>2. \A t \in Sessions : sess[t].sel = c /\ sess[t].pc = "count" => t \notin store.live
    BY <1>13 DEF Giving, Choosing
  <2>3. Users(c)' \in {Users(c), Users(c) \cup {s}}
    BY <1>7
  <2> QED
    BY <1>1, <1>6, <1>8, <1>13, <2>1, <2>2, <2>3, AssignRefines
<1> QED
  BY <1>12, <1>13

\* Nothing runs between the choice and its record in the memory of one process.
LEMMA LocalTakeInv ==
    ASSUME Inv, TypeOK', NEW s \in Sessions, NEW c \in Containers, Local, Made(c),
           sess[s].pc \in {"select", "allocate"}, sess[s].sel \in {c, NoOne}, Usable(c),
           \A t \in Sessions : t # s /\ sess[t].pc \in Choosing => sess[t].sel # c,
           s \notin served[c],
           store' = AllocateContainer(c, s), Serve(c, s), sess' = Taken(s, c),
           UNCHANGED <<config, cont, cache, cleaner, faults>>
    PROVE  Inv' /\ Refines
<1>1. TypeOK /\ store \in Store /\ served \in [Containers -> SUBSET Sessions] /\ ~Refused(s)
  BY DEF Inv, TypeOK, Local, Refused
<1>2. /\ store'.alloc = [store.alloc EXCEPT ![c] = @ \cup {s}]
      /\ store'.uses = [store.uses EXCEPT ![c] = @ + 1]
      /\ store'.live = store.live
  BY <1>1, Allocated
<1>3. /\ store'.alloc[c] = store.alloc[c] \cup {s} /\ store'.uses[c] = store.uses[c] + 1
      /\ served'[c] = served[c] \cup {s}
      /\ \A d \in Containers : d # c =>
            served'[d] = served[d] /\ store'.alloc[d] = store.alloc[d] /\ store'.uses[d] = store.uses[d]
  BY <1>1, <1>2, StoreTypes DEF Serve
<1>4. PICK p \in {"create", "store"} : Moves(s, p, {}, NoOne, sess[s].mine \cup {c})
  BY <1>1, MoveTaken
<1>5. store.alloc[c] \subseteq served[c]
  BY DEF Inv, ServedFinite
<1>6. Giving(s, c)
  BY <1>2, <1>3, <1>4, <1>5 DEF Giving, Moves
<1>7. Given(s, c)
  BY <1>4 DEF Given, Moves
<1>8. Counted(c)' = Counted(c) \cup {s} /\ s \notin Counted(c)
  <2>1. sess'[s].sel = NoOne /\ \A t \in Sessions : t # s => sess'[t] = sess[t]
    BY <1>4 DEF Moves
  <2>2. served'[c] \subseteq Sessions /\ served[c] \subseteq Sessions /\ NoOne # c
    BY <1>1, <1>3, ConfigsAssumption
  <2>3. ASSUME NEW t \in Sessions
        PROVE  t \in Counted(c)' <=> t \in Counted(c) \/ t = s
    <3>1. CASE t = s
      BY <1>3, <2>1, <2>2, <3>1 DEF Counted
    <3>2. CASE t # s
      BY <1>3, <2>1, <3>2 DEF Counted
    <3> QED
      BY <3>1, <3>2
  <2>4. Counted(c)' \subseteq Sessions /\ Counted(c) \subseteq Sessions /\ s \notin Counted(c)
    BY <2>2 DEF Counted
  <2> QED
    BY <2>3, <2>4
<1>9. /\ IsFiniteSet(Counted(c)) /\ Cardinality(Counted(c)) \in Nat
      /\ Cardinality(Counted(c)') = Cardinality(Counted(c)) + 1
  <2>1. IsFiniteSet(Counted(c)) /\ Cardinality(Counted(c)) \in Nat
    BY AllocFinite DEF Counted, Inv
  <2> QED
    BY <1>8, <2>1, FS_AddElement
<1>10. /\ store'.uses[c] <= Cardinality(Counted(c)')
       /\ Counts /\ cont[c].life \in Exists => Cardinality(Counted(c)') <= store'.uses[c]
  <2>1. store.uses[c] \in Nat
    BY <1>1, StoreTypes
  <2>2. /\ store.uses[c] <= Cardinality(Counted(c))
        /\ Counts /\ cont[c].life \in Exists => Cardinality(Counted(c)) <= store.uses[c]
    BY DEF Inv, UsesCounted
  <2> QED
    BY <1>3, <1>9, <2>1, <2>2
<1>11. ASSUME Deletes, NEW d \in Containers, cont[d].life \in Exists, Using(s, d)'
       PROVE  s \in store'.alloc[d]
  <2>1. CASE d = c
    BY <1>3, <2>1
  <2>2. CASE d # c
    <3>1. Using(s, d)
      BY <1>2, <1>4, <1>11, <2>2 DEF Using, Moves, Ended
    <3> QED
      BY <1>1, <1>3, <1>11, <2>2, <3>1, UsersAre DEF Inv, UseIsRecorded
  <2> QED
    BY <2>1, <2>2
<1>12. Refines
  <2>1. \A d \in Containers : d # c => (Using(s, d)' <=> Using(s, d))
    BY <1>2, <1>4 DEF Using, Moves, Ended
  <2>2. Using(s, c) => Using(s, c)'
    BY <1>2, <1>4 DEF Using, Moves, Ended
  <2>3. s \in PoolServed'[c]
    BY <1>3, <1>4, ConfigsAssumption DEF PoolServed, Uncounted, Moves
  <2>4. store.alloc[c] \ {s} = store.alloc[c] /\ s \notin store.alloc[c]
    BY <1>5
  <2>5. sess'[s].sel \in {c, NoOne} /\ sess[s].pc # "count"
    BY <1>4 DEF Moves
  <2> QED
    BY <1>6, <2>1, <2>2, <2>3, <2>4, <2>5, GivingRefines DEF Usable
<1> QED
  BY <1>6, <1>7, <1>10, <1>11, GivingInv, <1>12

\* A shared candidate is chosen under the lock.
LEMMA ChooseInv ==
    ASSUME Inv, TypeOK', NEW s \in Sessions, NEW c \in Containers, ~Local,
           sess[s].pc = "select", c \in sess[s].cands, Usable(c),
           sess' = [sess EXCEPT ![s].pc = "allocate", ![s].sel = c],
           UNCHANGED <<config, cont, cache, store, cleaner, served, faults>>
    PROVE  Inv' /\ Refines
<1>1. TypeOK /\ Made(c) /\ ~cont[c].exclusive
  BY DEF Inv, NamesKnown
<1>2. store.lock = s
  BY DEF Inv, LockHeld
<1>3. sess[s].sel = NoOne /\ s \notin served[c] /\ store.alloc[c] \subseteq served[c]
  <2>1. sess[s].sel = NoOne /\ s \notin served[c]
    BY DEF Inv, Stages, Choosing, Early
  <2> QED
    BY <2>1 DEF Inv, ServedFinite
<1>4. Moves(s, "allocate", sess[s].cands, c, sess[s].mine)
  BY <1>1, PcsAre, MoveSel
<1>5. \A t \in Sessions : t # s /\ sess[t].pc \in Choosing => sess[t].sel # c
  BY <1>1, <1>2 DEF Inv, LockHeld
<1>6. Giving(s, c)
  BY <1>1, <1>3, <1>4, <1>5 DEF Giving, Moves
<1>7. Given(s, c)
  <2>1. Below(store.uses[c], config.reuse) /\ Below(Cardinality(store.alloc[c]), config.concurrency)
    BY DEF Usable
  <2>2. store.alloc[c] \ {s} = store.alloc[c]
    BY <1>3
  <2> QED
    BY <1>2, <1>3, <1>4, <2>1, <2>2 DEF Given, Moves
<1>8. Counted(c)' = Counted(c)
  BY <1>3, <1>4 DEF Counted, Moves
<1>9. /\ store'.uses[c] <= Cardinality(Counted(c)')
      /\ Counts /\ cont[c].life \in Exists => Cardinality(Counted(c)') <= store'.uses[c]
  BY <1>8 DEF Inv, UsesCounted
<1>10. ASSUME Deletes, NEW d \in Containers, cont[d].life \in Exists, Using(s, d)'
       PROVE  s \in store'.alloc[d]
  <2>1. Using(s, d)
    BY <1>4, <1>10 DEF Using, Moves, Ended
  <2> QED
    BY <1>1, <1>10, <2>1, UsersAre DEF Inv, UseIsRecorded
<1>11. Refines
  <2>1. \A d \in Containers : Using(s, d)' <=> Using(s, d)
    BY <1>4 DEF Using, Moves, Ended
  <2>2. s \notin PoolServed'[c] /\ s \notin PoolServed[c]
    BY <1>3 DEF PoolServed
  <2>3. sess'[s].sel \in {c, NoOne}
    BY <1>4 DEF Moves
  <2> QED
    BY <1>6, <2>1, <2>2, <2>3, GivingRefines
<1> QED
  BY <1>6, <1>7, <1>9, <1>10, GivingInv, <1>11

\* Its allocation is written: the first command of allocate_container.
LEMMA AllocateInv ==
    ASSUME Inv, TypeOK', NEW s \in Sessions, NEW c \in Containers, ~Local, ~Refused(s),
           sess[s].pc = "allocate", sess[s].sel = c,
           store' = AllocateContainer(c, s), Serve(c, s), sess' = [sess EXCEPT ![s].pc = "count"],
           UNCHANGED <<config, cont, cache, cleaner, faults>>
    PROVE  Inv' /\ Refines
<1>1. TypeOK /\ store \in Store /\ served \in [Containers -> SUBSET Sessions] /\ Made(c)
  BY DEF Inv, TypeOK, NamesKnown
<1>2. /\ store'.alloc = [store.alloc EXCEPT ![c] = @ \cup {s}]
      /\ store'.uses = store.uses /\ store'.live = store.live /\ store'.lock = store.lock
  BY <1>1, Allocated
<1>3. /\ store'.alloc[c] = store.alloc[c] \cup {s} /\ served'[c] = served[c] \cup {s}
      /\ \A d \in Containers : d # c => served'[d] = served[d] /\ store'.alloc[d] = store.alloc[d]
  BY <1>1, <1>2, StoreTypes DEF Serve
<1>4. s \notin served[c] /\ store.alloc[c] \subseteq served[c]
  <2>1. sess[s].sel # NoOne /\ s \in served[sess[s].sel] => sess[s].pc \in {"count", "dead"}
    BY DEF Inv, Stages
  <2> QED
    BY <2>1, ConfigsAssumption DEF Inv, ServedFinite
<1>5. Moves(s, "count", sess[s].cands, c, sess[s].mine)
  BY <1>1, PcsAre, MovePc
<1>6. \A t \in Sessions : t # s /\ sess[t].pc \in Choosing => sess[t].sel # c
  BY DEF Inv, OneChooser, Choosing
<1>7. Giving(s, c)
  BY <1>1, <1>2, <1>3, <1>4, <1>5, <1>6 DEF Giving, Moves
<1>8. Given(s, c)
  <2>1. Below(store.uses[c], config.reuse) /\ Below(Cardinality(store.alloc[c] \ {s}), config.concurrency)
    BY DEF Inv, StillUsable, Choosing
  <2>2. store'.alloc[c] \ {s} = store.alloc[c] \ {s}
    BY <1>3
  <2>3. cont[c].exclusive \/ store.lock = s
    BY DEF Inv, LockHeld, Choosing
  <2> QED
    BY <1>2, <1>3, <1>5, <2>1, <2>2, <2>3 DEF Given, Moves
<1>9. Counted(c)' = Counted(c)
  BY <1>3, <1>4, <1>5 DEF Counted, Moves
<1>10. /\ store'.uses[c] <= Cardinality(Counted(c)')
       /\ Counts /\ cont[c].life \in Exists => Cardinality(Counted(c)') <= store'.uses[c]
  BY <1>2, <1>9 DEF Inv, UsesCounted
<1>11. ASSUME Deletes, NEW d \in Containers, cont[d].life \in Exists, Using(s, d)'
       PROVE  s \in store'.alloc[d]
  <2>1. CASE d = c
    BY <1>3, <2>1
  <2>2. CASE d # c
    <3>1. Using(s, d)
      BY <1>2, <1>5, <1>11, <2>2 DEF Using, Moves, Ended
    <3> QED
      BY <1>1, <1>3, <1>11, <2>2, <3>1, UsersAre DEF Inv, UseIsRecorded
  <2> QED
    BY <2>1, <2>2
<1>12. Refines
  <2>1. \A d \in Containers : d # c => (Using(s, d)' <=> Using(s, d))
    BY <1>2, <1>5 DEF Using, Moves, Ended
  <2>2. (Using(s, c) => Using(s, c)') /\ (s \notin store.live => ~Using(s, c)')
    BY <1>2, <1>5 DEF Using, Moves, Ended
  <2>3. sess'[s].sel \in {c, NoOne} /\ s \notin PoolServed[c]
    BY <1>4, <1>5 DEF Moves, PoolServed
  <2>4. s \in PoolServed'[c] <=> s \in store.live
    BY <1>2, <1>3, <1>5 DEF PoolServed, Uncounted, Moves
  <2>5. Below(store.uses[c], config.reuse) /\ Below(Cardinality(store.alloc[c] \ {s}), config.concurrency)
    BY DEF Inv, StillUsable, Choosing
  <2>6. s \notin store.alloc[c]
    BY <1>4
  <2> QED
    BY <1>7, <2>1, <2>2, <2>3, <2>4, <2>5, <2>6, GivingRefines
<1> QED
  BY <1>7, <1>8, <1>10, <1>11, GivingInv, <1>12

\* Its use is counted: the second one, and the lock is given back.
LEMMA CountInv ==
    ASSUME Inv, NEW s \in Sessions, Count(s)
    PROVE  Inv' /\ Refines
<1>1. /\ TypeOK /\ store \in Store /\ served \in [Containers -> SUBSET Sessions]
      /\ sess[s].pc = "count" /\ UNCHANGED <<config, cont, cache, cleaner, served, faults>>
  BY DEF Inv, TypeOK, Count
<1>2. PICK c \in Containers : c = sess[s].sel
  BY <1>1 DEF Inv, Stages, Choosing
<1>3. TypeOK' /\ Made(c) /\ ~Local /\ s \in served[c]
  <2>1. s \in served[c] /\ ~Local
    BY <1>1, <1>2 DEF Inv, Stages, Choosing
  <2> QED
    BY <1>1, <1>2, <2>1, CountTypes DEF Inv, NamesKnown
<1>4. PICK added \in Store : added = AddUse(store, c)
  BY <1>1, UseAdded
<1>5. /\ added.uses = [store.uses EXCEPT ![c] = @ + 1] /\ added.alloc = store.alloc
      /\ added.live = store.live /\ added.lock = store.lock
  BY <1>1, <1>4, UseAdded
<1>6. store' = ReleaseLock(added, s)
  BY <1>2, <1>4 DEF Count
<1>7. /\ store'.uses = added.uses /\ store'.alloc = store.alloc /\ store'.live = store.live
      /\ \A t \in Sessions : t # s /\ store.lock = t => store'.lock = t
  BY <1>1, <1>5, <1>6, Released
<1>8. /\ store'.uses[c] = store.uses[c] + 1
      /\ \A d \in Containers : d # c => store'.uses[d] = store.uses[d]
  BY <1>1, <1>5, <1>7, StoreTypes
<1>9. PICK p \in {"create", "store"} : Moves(s, p, {}, NoOne, sess[s].mine \cup {c})
  BY <1>1, <1>2, MoveTaken DEF Count
<1>10. \A t \in Sessions : t # s /\ sess[t].pc \in Choosing => sess[t].sel # c
  BY <1>1, <1>2 DEF Inv, OneChooser, Choosing
<1>11. store.alloc[c] \subseteq served[c]
  BY DEF Inv, ServedFinite
<1>12. Giving(s, c)
  BY <1>1, <1>2, <1>3, <1>7, <1>8, <1>9, <1>10, <1>11 DEF Giving, Moves
<1>13. Given(s, c)
  BY <1>9 DEF Given, Moves
<1>14. Counted(c)' = Counted(c) \cup {s} /\ s \notin Counted(c)
  <2>1. sess'[s].sel = NoOne /\ \A t \in Sessions : t # s => sess'[t] = sess[t]
    BY <1>9 DEF Moves
  <2> QED
    BY <1>1, <1>2, <1>3, <2>1, ConfigsAssumption DEF Counted
<1>15. /\ Cardinality(Counted(c)) \in Nat
       /\ Cardinality(Counted(c)') = Cardinality(Counted(c)) + 1
  <2>1. IsFiniteSet(Counted(c)) /\ Cardinality(Counted(c)) \in Nat
    BY AllocFinite DEF Counted, Inv
  <2> QED
    BY <1>14, <2>1, FS_AddElement
<1>16. /\ store'.uses[c] <= Cardinality(Counted(c)')
       /\ Counts /\ cont[c].life \in Exists => Cardinality(Counted(c)') <= store'.uses[c]
  <2>1. store.uses[c] \in Nat
    BY <1>1, StoreTypes
  <2>2. /\ store.uses[c] <= Cardinality(Counted(c))
        /\ Counts /\ cont[c].life \in Exists => Cardinality(Counted(c)) <= store.uses[c]
    BY DEF Inv, UsesCounted
  <2> QED
    BY <1>8, <1>15, <2>1, <2>2
<1>17. ASSUME Deletes, NEW d \in Containers, cont[d].life \in Exists, Using(s, d)'
       PROVE  s \in store'.alloc[d]
  <2>1. Using(s, d)
    BY <1>1, <1>2, <1>7, <1>9, <1>17 DEF Using, Moves, Ended
  <2> QED
    BY <1>1, <1>7, <1>17, <2>1, UsersAre DEF Inv, UseIsRecorded
<1>18. Refines
  <2>1. \A d \in Containers : d # c => (Using(s, d)' <=> Using(s, d))
    BY <1>1, <1>2, <1>7, <1>9 DEF Using, Moves, Ended
  <2>2. (Using(s, c) <=> s \in store.live) /\ (Using(s, c)' <=> s \in store.live)
    BY <1>1, <1>2, <1>7, <1>9 DEF Using, Moves, Ended
  <2>3. sess'[s].sel \in {c, NoOne} /\ s \in PoolServed'[c]
    BY <1>1, <1>3, <1>9, ConfigsAssumption DEF Moves, PoolServed, Uncounted
  <2>4. s \in PoolServed[c] <=> s \in store.live
    BY <1>1, <1>2, <1>3 DEF PoolServed, Uncounted
  <2>5. Below(store.uses[c], config.reuse) /\ Below(Cardinality(store.alloc[c] \ {s}), config.concurrency)
    BY <1>1, <1>2 DEF Inv, StillUsable, Choosing
  <2>6. s \notin store.live => s \notin Users(c)
    BY DEF Users
  <2> QED
    BY <1>12, <2>1, <2>2, <2>3, <2>4, <2>5, <2>6, GivingRefines
<1> QED
  BY <1>12, <1>13, <1>16, <1>17, GivingInv, <1>18

\* Select: a local allocation, a choice under the lock, or no usable one.
LEMMA SelectInv ==
    ASSUME Inv, NEW s \in Sessions, Select(s)
    PROVE  Inv' /\ Refines
<1>1. TypeOK /\ TypeOK' /\ sess[s].pc = "select" /\ UNCHANGED <<config, cont, cache, cleaner, faults>>
  BY SelectTypes DEF Inv, Select
<1>2. \A c \in Containers : c \in sess[s].cands => Made(c) /\ ~cont[c].exclusive
  BY DEF Inv, NamesKnown
<1>3. sess[s].sel = NoOne /\ \A c \in Containers : s \notin served[c]
  BY <1>1 DEF Inv, Stages, Choosing, Early
<1>4. ASSUME NEW c \in Containers, c \in sess[s].cands, Usable(c), Local,
             store' = AllocateContainer(c, s), Serve(c, s), sess' = Taken(s, c)
      PROVE  Inv' /\ Refines
  <2>1. \A t \in Sessions : t # s /\ sess[t].pc \in Choosing => sess[t].sel # c
    BY <1>2, <1>4 DEF Inv, Stages
  <2>2. Made(c) /\ s \notin served[c] /\ sess[s].sel \in {c, NoOne} /\ sess[s].pc \in {"select", "allocate"}
    BY <1>1, <1>2, <1>3, <1>4
  <2> QED
    BY <1>1, <1>4, <2>1, <2>2, LocalTakeInv
<1>5. ASSUME NEW c \in Containers, c \in sess[s].cands, Usable(c), ~Local,
             sess' = [sess EXCEPT ![s].pc = "allocate", ![s].sel = c], UNCHANGED <<store, served>>
      PROVE  Inv' /\ Refines
  BY <1>1, <1>5, ChooseInv
<1>6. ASSUME store' = ReleaseLock(store, s), sess' = [sess EXCEPT ![s].pc = "grow"], served' = served
      PROVE  Inv' /\ Refines
  <2>1. /\ store'.alloc = store.alloc /\ store'.uses = store.uses /\ store'.live = store.live
        /\ \A t \in Sessions : t # s /\ store.lock = t => store'.lock = t
    BY <1>1, <1>6, Released DEF TypeOK
  <2>2. /\ "grow" \in Pcs /\ "grow" \notin Choosing
        /\ sess[s].pc \in Early /\ sess[s].pc \notin {"allocate", "count"} \cup Ended
        /\ sess[s].pc \notin {"delete", "drop"}
    BY <1>1, PcsAre DEF Early, Choosing, Ended
  <2>3. \A t \in Sessions : QuietSession(t)
    BY <1>1, <1>6, <2>1, <2>2, QuietGo
  <2>4. Quiet
    BY <1>1, <1>6, <2>1, <2>3, SameContainers, SameFaults, SameStore, SameWorkers DEF Quiet
  <2> QED
    BY <1>1, <2>4, QuietInv, QuietLeaves
<1>7. sess[s].cands \subseteq Containers
  BY <1>1, FieldTypes
<1> QED
  BY <1>4, <1>5, <1>6, <1>7 DEF Select

\* Allocate: the first command, or an exception because the lease is gone.
LEMMA AllocateStepInv ==
    ASSUME Inv, NEW s \in Sessions, Allocate(s)
    PROVE  Inv' /\ Refines
<1>1. /\ TypeOK /\ sess[s].pc = "allocate" /\ sess[s].pc \in Choosing
      /\ UNCHANGED <<config, cont, cache, cleaner, faults>>
  BY DEF Inv, Allocate, Choosing
<1>2. PICK c \in Containers : c = sess[s].sel
  BY <1>1 DEF Inv, Stages
<1>3. TypeOK' /\ Made(c) /\ s \notin served[c]
  <2>1. sess[s].sel # NoOne /\ s \in served[sess[s].sel] => sess[s].pc \in {"count", "dead"}
    BY DEF Inv, Stages
  <2>2. s \notin served[c]
    BY <1>1, <1>2, <2>1, ConfigsAssumption
  <2> QED
    BY <1>1, <1>2, <2>2, AllocateTypes DEF Inv, NamesKnown
<1>4. ASSUME ~Refused(s), Local
      PROVE  Inv' /\ Refines
  <2>1. store' = AllocateContainer(c, s) /\ Serve(c, s) /\ sess' = Taken(s, c)
    BY <1>2, <1>4 DEF Allocate
  <2>2. \A t \in Sessions : t # s /\ sess[t].pc \in Choosing => sess[t].sel # c
    BY <1>1, <1>2 DEF Inv, OneChooser
  <2>3. Usable(c)
    <3>1. store.alloc[c] \ {s} = store.alloc[c]
      BY <1>3 DEF Inv, ServedFinite
    <3> QED
      BY <1>1, <1>2, <3>1 DEF Inv, StillUsable, Usable
  <2> QED
    BY <1>1, <1>2, <1>3, <1>4, <2>1, <2>2, <2>3, LocalTakeInv
<1>5. ASSUME ~Refused(s), ~Local
      PROVE  Inv' /\ Refines
  <2>1. store' = AllocateContainer(c, s) /\ Serve(c, s) /\ sess' = [sess EXCEPT ![s].pc = "count"]
    BY <1>2, <1>5 DEF Allocate
  <2> QED
    BY <1>1, <1>2, <1>3, <1>5, <2>1, AllocateInv
<1>6. ASSUME Refused(s)
      PROVE  Inv' /\ Refines
  <2>1. store' = ReleaseLock(store, s) /\ sess' = Fail(s) /\ served' = served
    BY <1>6 DEF Allocate
  <2>2. /\ store'.alloc = store.alloc /\ store'.uses = store.uses /\ store'.live = store.live
        /\ \A t \in Sessions : t # s /\ store.lock = t => store'.lock = t
    BY <1>1, <2>1, Released DEF TypeOK
  <2>3. sess[s].pc \notin {"count"} \cup Ended
    BY <1>1 DEF Ended
  <2>4. \A t \in Sessions : QuietSession(t)
    BY <1>1, <2>1, <2>2, <2>3, QuietFail
  <2>5. Quiet
    BY <1>1, <1>3, <2>1, <2>2, <2>4, SameContainers, SameFaults, SameStore, SameWorkers DEF Quiet
  <2> QED
    BY <1>1, <2>5, QuietInv, QuietLeaves
<1> QED
  BY <1>4, <1>5, <1>6

-----------------------------------------------------------------------------
(* A container is created.  Nothing names it yet.                          *)

\* A container that nobody has named becomes the session's choice (exclusive)
\* or one of its candidates (shared).
Creating(s, c) ==
    /\ TypeOK' /\ UNCHANGED <<config, store, cleaner, served, faults>>
    /\ cont[c].life = "none" /\ cont'[c].life = "new"
    /\ \A d \in Containers \ {c} : cont'[d] = cont[d]
    /\ \A w \in Workers : \A d \in Containers :
          d \in cache'[w].pods => d \in cache[w].pods \/ (d = c /\ ~cont'[c].exclusive)
    /\ sess[s].sel = NoOne
    /\ \/ /\ sess[s].pc = "create" /\ cont'[c].exclusive
          /\ Moves(s, "allocate", sess[s].cands, c, sess[s].mine)
       \/ /\ sess[s].pc = "grow" /\ ~cont'[c].exclusive
          /\ Moves(s, "lock", sess[s].cands \cup {c}, NoOne, sess[s].mine)

\* docker containers.create and the creation of a pod are such a step.
LEMMA CreateStep ==
    ASSUME Inv, NEW s \in Sessions, Create(s)
    PROVE  \E c \in Containers : Creating(s, c)
<1>1. TypeOK /\ TypeOK' /\ sess[s].pc \in {"create", "grow"}
  BY CreateTypes DEF Inv, Create
<1>2. sess[s].sel = NoOne
  BY <1>1 DEF Inv, Stages, Choosing
<1>3. PICK c \in Containers :
        /\ cont[c].life = "none"
        /\ \/ CreateContainer(c, sess[s].pc = "create")
           \/ CreatePod(sess[s].at, c, sess[s].pc = "create")
        /\ sess' = IF sess[s].pc = "create"
                   THEN [sess EXCEPT ![s].pc = "allocate", ![s].sel = c]
                   ELSE [sess EXCEPT ![s].pc = "lock", ![s].cands = @ \cup {c}]
  BY DEF Create
<1>4. PICK x \in BOOLEAN : /\ x = (sess[s].pc = "create")
                           /\ cont' = [cont EXCEPT ![c] = [life |-> "new", exclusive |-> x]]
                           /\ cache' = cache \/ (~x /\ cache' = RecordPod(sess[s].at, c))
  BY <1>3 DEF CreateContainer, CreatePod
<1>5. /\ cont'[c].life = "new" /\ cont'[c].exclusive = x
      /\ \A d \in Containers \ {c} : cont'[d] = cont[d]
  BY <1>1, <1>4 DEF TypeOK
<1>6. ASSUME NEW w \in Workers, NEW d \in Containers, d \in cache'[w].pods
      PROVE  d \in cache[w].pods \/ (d = c /\ ~cont'[c].exclusive)
  <2>1. cache \in [Workers -> CacheRecord]
    BY <1>1 DEF TypeOK
  <2>2. CASE cache' = cache
    BY <1>6, <2>2
  <2>3. CASE ~x /\ cache' = RecordPod(sess[s].at, c)
    <3>1. CASE w = sess[s].at
      BY <1>5, <1>6, <2>1, <2>3, <3>1 DEF RecordPod, CacheRecord
    <3>2. CASE w # sess[s].at
      BY <1>6, <2>1, <2>3, <3>2 DEF RecordPod
    <3> QED
      BY <3>1, <3>2
  <2> QED
    BY <1>4, <2>2, <2>3
<1>7. \/ /\ sess[s].pc = "create" /\ cont'[c].exclusive
         /\ Moves(s, "allocate", sess[s].cands, c, sess[s].mine)
      \/ /\ sess[s].pc = "grow" /\ ~cont'[c].exclusive
         /\ Moves(s, "lock", sess[s].cands \cup {c}, NoOne, sess[s].mine)
  <2>1. CASE sess[s].pc = "create"
    <3>1. sess' = [sess EXCEPT ![s].pc = "allocate", ![s].sel = c]
      BY <1>3, <2>1
    <3>2. Moves(s, "allocate", sess[s].cands, c, sess[s].mine)
      BY <1>1, <3>1, PcsAre, MoveSel
    <3> QED
      BY <1>4, <1>5, <2>1, <3>2
  <2>2. CASE sess[s].pc = "grow"
    <3>1. PICK X \in SUBSET Containers : X = sess[s].cands \cup {c}
      BY <1>1, FieldTypes
    <3>2. sess' = [sess EXCEPT ![s].pc = "lock", ![s].cands = X]
      BY <1>1, <1>3, <2>2, <3>1 DEF TypeOK
    <3>3. Moves(s, "lock", X, sess[s].sel, sess[s].mine)
      BY <1>1, <3>2, PcsAre, MoveCands
    <3> QED
      BY <1>2, <1>4, <1>5, <2>2, <3>1, <3>3
  <2> QED
    BY <1>1, <2>1, <2>2
<1> QED
  BY <1>1, <1>2, <1>3, <1>5, <1>6, <1>7 DEF Creating, Create

\* The new container has no allocation, no use and no user: it is usable.
LEMMA CreateInv ==
    ASSUME Inv, NEW s \in Sessions, NEW c \in Containers, Creating(s, c)
    PROVE  Inv'
<1>1. /\ TypeOK /\ TypeOK' /\ UNCHANGED <<config, store, cleaner, served, faults>>
      /\ (Deletes' <=> Deletes) /\ (Counts' <=> Counts) /\ (Local' <=> Local)
  BY DEF Inv, Creating, Deletes, Counts, Local, Docker
<1>2. /\ served[c] = {} /\ store.alloc[c] = {} /\ Counted(c) = {} /\ store.uses[c] = 0
  <2>1. served[c] = {} /\ store.alloc[c] = {}
    BY DEF Inv, NamesKnown, ServedFinite, Creating, Made
  <2>2. Counted(c) = {}
    BY <2>1 DEF Counted
  <2>3. store.uses[c] \in Nat /\ store.uses[c] <= Cardinality(Counted(c)) /\ Cardinality({}) = 0
    BY <1>1, StoreTypes, FS_EmptySet DEF TypeOK, Inv, UsesCounted
  <2> QED
    BY <2>1, <2>2, <2>3
<1>3. /\ cont'[c].life = "new" /\ Made(c)' /\ ~Made(c)
      /\ \A d \in Containers : d # c => cont'[d] = cont[d]
      /\ \A d \in Containers : Made(d) => d # c /\ Made(d)'
  BY DEF Creating, Made
<1>4. /\ \A t \in Sessions : t # s => sess'[t] = sess[t]
      /\ sess[s].sel = NoOne /\ sess'[s].mine = sess[s].mine
      /\ sess'[s].excl \subseteq sess[s].excl \cup sess[s].mine
      /\ \/ /\ sess[s].pc = "create" /\ sess'[s].pc = "allocate" /\ sess'[s].sel = c /\ cont'[c].exclusive
            /\ sess'[s].cands = sess[s].cands
         \/ /\ sess[s].pc = "grow" /\ sess'[s].pc = "lock" /\ sess'[s].sel = NoOne /\ ~cont'[c].exclusive
            /\ sess'[s].cands = sess[s].cands \cup {c}
  BY DEF Creating, Moves
<1>5. NoOne # c
  BY ConfigsAssumption
<1>6. \A t \in Sessions :
         /\ c \notin sess[t].mine /\ c \notin sess[t].excl /\ c # sess[t].sel /\ c \notin sess[t].cands
  BY <1>3 DEF Inv, NamesKnown
<1>7. NamesKnown'
  <2>1. ASSUME NEW t \in Sessions, NEW d \in Containers
        PROVE  /\ d \in sess'[t].mine \cup sess'[t].excl => Made(d)'
               /\ d = sess'[t].sel => Made(d)'
               /\ d \in sess'[t].cands => Made(d)' /\ ~cont'[d].exclusive
    <3>1. /\ d \in sess[t].mine \cup sess[t].excl => Made(d)
          /\ d = sess[t].sel => Made(d)
          /\ d \in sess[t].cands => Made(d) /\ ~cont[d].exclusive
      BY DEF Inv, NamesKnown
    <3>2. CASE t # s
      BY <1>3, <1>4, <3>1, <3>2
    <3>3. CASE t = s
      BY <1>3, <1>4, <1>5, <3>1, <3>3, ConfigsAssumption
    <3> QED
      BY <3>2, <3>3
  <2>2. ASSUME NEW w \in Workers, NEW d \in Containers
        PROVE  /\ d \in cache'[w].pods => Made(d)' /\ ~cont'[d].exclusive
               /\ d \in cleaner'[w].todo => Made(d)'
               /\ d = cleaner'[w].victim => Made(d)'
    <3>1. /\ d \in cache[w].pods => Made(d) /\ ~cont[d].exclusive
          /\ d \in cleaner[w].todo => Made(d)
          /\ d = cleaner[w].victim => Made(d)
      BY DEF Inv, NamesKnown
    <3>2. d \in cache'[w].pods => d \in cache[w].pods \/ (d = c /\ ~cont'[c].exclusive)
      BY DEF Creating
    <3> QED
      BY <1>1, <1>3, <3>1, <3>2
  <2>3. \A d \in Containers : served'[d] # {} => Made(d)'
    BY <1>1, <1>3 DEF Inv, NamesKnown
  <2> QED
    BY <2>1, <2>2, <2>3 DEF NamesKnown
<1>8. Stages'
  <2>1. ASSUME NEW t \in Sessions
        PROVE  /\ sess'[t].pc = "idle" => sess'[t].mine = {}
               /\ sess'[t].pc = "identify" => sess'[t].at \in Workers
               /\ sess'[t].pc \in Early => \A d \in Containers : t \notin served'[d]
               /\ sess'[t].pc \in Choosing => sess'[t].sel \in Containers
               /\ sess'[t].sel # NoOne => sess'[t].pc \in Choosing \cup {"dead", "failed"}
               /\ sess'[t].sel # NoOne /\ t \in served'[sess'[t].sel] => sess'[t].pc \in {"count", "dead"}
               /\ sess'[t].pc = "count" => t \in served'[sess'[t].sel]
               /\ Local' /\ sess'[t].pc \in Choosing =>
                     sess'[t].pc = "allocate" /\ cont'[sess'[t].sel].exclusive
    <3>1. /\ sess[t].pc = "idle" => sess[t].mine = {}
          /\ sess[t].pc = "identify" => sess[t].at \in Workers
          /\ sess[t].pc \in Early => \A d \in Containers : t \notin served[d]
          /\ sess[t].pc \in Choosing => sess[t].sel \in Containers
          /\ sess[t].sel # NoOne => sess[t].pc \in Choosing \cup {"dead", "failed"}
          /\ sess[t].sel # NoOne /\ t \in served[sess[t].sel] => sess[t].pc \in {"count", "dead"}
          /\ sess[t].pc = "count" => t \in served[sess[t].sel]
          /\ Local /\ sess[t].pc \in Choosing => sess[t].pc = "allocate" /\ cont[sess[t].sel].exclusive
      BY DEF Inv, Stages
    <3>2. CASE t # s
      BY <1>1, <1>3, <1>4, <1>6, <3>1, <3>2
    <3>3. CASE t = s /\ sess[s].pc = "create"
      BY <1>1, <1>2, <1>4, <3>3 DEF Early, Choosing
    <3>4. CASE t = s /\ sess[s].pc = "grow"
      <4>1. "grow" \in Early /\ "lock" \notin Choosing
        BY DEF Early, Choosing
      <4> QED
        BY <1>1, <1>4, <3>1, <3>4, <4>1
    <3> QED
      BY <1>4, <3>2, <3>3, <3>4
  <2> QED
    BY <2>1 DEF Stages
<1>9. \A t \in Sessions : sess'[t].pc \in Choosing =>
         \/ t = s /\ sess'[t].sel = c /\ cont'[c].exclusive
         \/ /\ t # s /\ sess'[t] = sess[t] /\ sess[t].sel \in Containers /\ sess[t].sel # c
            /\ cont'[sess[t].sel] = cont[sess[t].sel]
  <2>1. \A t \in Sessions : sess[t].pc \in Choosing => sess[t].sel \in Containers
    BY DEF Inv, Stages
  <2>2. "lock" \notin Choosing
    BY DEF Choosing
  <2> QED
    BY <1>3, <1>4, <1>6, <2>1, <2>2
<1>10. LockHeld'
  <2>1. ASSUME ~Local', NEW t \in Sessions
        PROVE  /\ sess'[t].pc = "select" => store'.lock = t
               /\ sess'[t].pc \in Choosing => cont'[sess'[t].sel].exclusive \/ store'.lock = t
    BY <1>1, <1>4, <1>9, <2>1 DEF Inv, LockHeld
  <2> QED
    BY <2>1 DEF LockHeld
<1>11. OneChooser'
  BY <1>9 DEF Inv, OneChooser
<1>12. StillUsable'
  <2>1. ASSUME NEW t \in Sessions, sess'[t].pc \in Choosing
        PROVE  /\ Below(Cardinality(store'.alloc[sess'[t].sel] \ {t}), config'.concurrency)
               /\ Below(store'.uses[sess'[t].sel], config'.reuse)
    <3>1. CASE t = s
      <4>1. store'.alloc[c] \ {t} = {} /\ store'.uses[c] = 0 /\ Cardinality({}) = 0
        BY <1>1, <1>2, FS_EmptySet
      <4>2. config.concurrency \in Nat /\ config.reuse \in Nat
        BY <1>1, ConfigTypes
      <4> QED
        BY <1>1, <1>9, <2>1, <3>1, <4>1, <4>2 DEF Below
    <3>2. CASE t # s
      BY <1>1, <1>9, <2>1, <3>2 DEF Inv, StillUsable
    <3> QED
      BY <3>1, <3>2
  <2> QED
    BY <2>1 DEF StillUsable
<1>13. ServedFinite'
  BY <1>1 DEF Inv, ServedFinite
<1>14. UsesCounted'
  <2>1. ASSUME NEW d \in Containers
        PROVE  /\ store'.uses[d] <= Cardinality(Counted(d)')
               /\ Counts' /\ cont'[d].life \in Exists => Cardinality(Counted(d)') <= store'.uses[d]
    <3>1. CASE d = c
      <4>1. Counted(c)' = {} /\ Cardinality({}) = 0
        BY <1>1, <1>2, FS_EmptySet DEF Counted
      <4> QED
        BY <1>1, <1>2, <3>1, <4>1
    <3>2. CASE d # c
      <4>1. sess[s].sel # d /\ sess'[s].sel # d
        BY <1>4, <3>2, ConfigsAssumption
      <4>2. Counted(d)' = Counted(d)
        BY <1>1, <1>4, <4>1 DEF Counted
      <4> QED
        BY <1>1, <1>3, <3>2, <4>2 DEF Inv, UsesCounted
    <3> QED
      BY <3>1, <3>2
  <2> QED
    BY <2>1 DEF UsesCounted
<1>15. Cleaning'
  <2>1. ASSUME NEW w \in Workers
        PROVE  /\ cleaner'[w].step # "check" => cleaner'[w].victim \in Containers
               /\ cleaner'[w].step = "forget" /\ Deletes' => cont'[cleaner'[w].victim].life = "gone"
               /\ cleaner'[w].step = "delete" /\ cleaner'[w].pc = "reuse" =>
                     config'.reuse <= Cardinality(served'[cleaner'[w].victim])
    <3>1. \A d \in Containers : d = cleaner[w].victim => cont'[d] = cont[d]
      BY <1>3 DEF Inv, NamesKnown
    <3> QED
      BY <1>1, <3>1 DEF Inv, Cleaning
  <2> QED
    BY <2>1 DEF Cleaning
<1>16. UseIsRecorded'
  <2> SUFFICES ASSUME Deletes', NEW d \in Containers, cont'[d].life \in Exists, NEW t \in Sessions, t \in Users(d)'
               PROVE  t \in store'.alloc[d]
    BY <1>1, UsersWillBe DEF UseIsRecorded
  <2>1. Using(t, d)'
    BY <1>1, UsersWillBe
  <2>2. Using(t, d)
    <3>1. CASE t # s
      BY <1>1, <1>4, <2>1, <3>1 DEF Using
    <3>2. CASE t = s
      BY <1>1, <1>4, <2>1, <3>2 DEF Using, Ended
    <3> QED
      BY <3>1, <3>2
  <2>3. d # c
    BY <1>6, <2>2 DEF Using
  <2> QED
    BY <1>1, <1>3, <2>2, <2>3, UsersAre DEF Inv, UseIsRecorded
<1> QED
  BY <1>1, <1>7, <1>8, <1>10, <1>11, <1>12, <1>13, <1>14, <1>15, <1>16 DEF Inv

-----------------------------------------------------------------------------
\* The invariant holds initially and is preserved by every step.
LEMMA InitInv == Init => Inv
<1> SUFFICES ASSUME Init PROVE Inv
  OBVIOUS
<1>1. TypeOK
  BY InitTypes
<1>2. /\ \A s \in Sessions : sess[s] = NoSession
      /\ \A c \in Containers : cont[c].life = "none" /\ served[c] = {} /\ store.alloc[c] = {} /\ store.uses[c] = 0
      /\ \A w \in Workers : cleaner[w] = NoCleaning /\ cache[w].pods = {}
  BY DEF Init, EmptyStore
<1>3. \A s \in Sessions : /\ sess[s].pc = "idle" /\ sess[s].mine = {} /\ sess[s].excl = {}
                          /\ sess[s].cands = {} /\ sess[s].sel = NoOne
  BY <1>2 DEF NoSession
<1>4. \A w \in Workers : cleaner[w].todo = {} /\ cleaner[w].victim = NoOne /\ cleaner[w].step = "check"
  BY <1>2 DEF NoCleaning
<1>5. NamesKnown
  BY <1>2, <1>3, <1>4, ConfigsAssumption DEF NamesKnown
<1>6. Stages
  BY <1>2, <1>3 DEF Stages, Choosing
<1>7. LockHeld /\ OneChooser /\ StillUsable /\ Cleaning
  BY <1>3, <1>4 DEF LockHeld, OneChooser, StillUsable, Cleaning, Choosing
<1>8. ServedFinite
  BY <1>2, FS_EmptySet DEF ServedFinite
<1>9. UsesCounted
  <2>1. \A c \in Containers : Counted(c) = {}
    BY <1>2 DEF Counted
  <2> QED
    BY <1>2, <2>1, FS_EmptySet DEF UsesCounted
<1>10. UseIsRecorded
  <2>1. \A c \in Containers : cont[c].life \notin Exists
    BY <1>2 DEF Exists
  <2> QED
    BY <2>1 DEF UseIsRecorded
<1> QED
  BY <1>1, <1>5, <1>6, <1>7, <1>8, <1>9, <1>10 DEF Inv

\* Nothing happens.
LEMMA StutterInv ==
    ASSUME Inv, UNCHANGED vars
    PROVE  Quiet /\ Inv'
<1>1. TypeOK /\ TypeOK'
  BY DEF Inv, TypeOK, vars
<1>2. \A t \in Sessions : QuietSession(t)
  BY QuietStay DEF vars
<1>3. Quiet
  BY <1>1, <1>2, SameContainers, SameFaults, SameStore, SameWorkers DEF Quiet, vars
<1> QED
  BY <1>3, QuietInv DEF vars

\* Every action.
LEMMA NextInv ==
    ASSUME Inv, [Next]_vars
    PROVE  Inv'
<1>1. ASSUME NEW s \in Sessions, NEW w \in Workers, StartSession(s, w) PROVE Inv'
  BY <1>1, StartQuiet
<1>2. ASSUME NEW s \in Sessions, StartStep(s) PROVE Inv'
  BY <1>2, CreateStep, CreateInv, CreateFailsQuiet, IdentifyQuiet, LockQuiet, SelectInv, AllocateStepInv,
     CountInv, StoreSessionQuiet, WaitQuiet DEF StartStep
<1>3. ASSUME NEW s \in Sessions, PassOverDeleting(s) \/ EndSession(s) \/ EndStep(s) \/ Expire(s) PROVE Inv'
  BY <1>3, WaitQuiet, ReleaseSharedQuiet, DeleteExclusiveQuiet, DropQuiet, ExpireQuiet DEF EndStep
<1>4. ASSUME NEW w \in Workers, CleanStep(w) \/ Crash(w) PROVE Inv'
  BY <1>4, CleanQuiet, CrashQuiet
<1>5. CASE \/ \E c \in Containers : ContainerReady(c) \/ ContainerFails(c)
           \/ \E w \in Workers : WatchPods(w)
           \/ BackgroundExpires
  BY <1>5, WorldQuiet
<1>6. CASE UNCHANGED vars
  BY <1>6, StutterInv
<1> QED
  BY <1>1, <1>2, <1>3, <1>4, <1>5, <1>6 DEF Next

\* Types, references, locks, limits and counters of the environments are
\* consistent in every reachable state, for every deployment and any number of
\* workers, sessions and containers (docker.py, k8s.py, state/*.py).
THEOREM InvAlways == Spec => []Inv
<1>1. Inv /\ [Next]_vars => Inv'
  BY NextInv
<1> QED
  BY InitInv, <1>1, PTL DEF Spec

\* A session that uses a container that runs has its allocation recorded, so
\* that the cleaners and the other sessions see it (docker.py:170-190,
\* :529-575; state/_base.py:33-63): whatever the interleaving of workers,
\* cleaners, expiries and crashes, as long as docker has not failed to delete.
\* For k8s there is no such condition.
THEOREM RecordNeverBehind == Spec => []UseIsRecorded
<1>1. Inv => UseIsRecorded
  BY DEF Inv
<1> QED
  BY InvAlways, <1>1, PTL

\* A deletion for reuse, of a victim that was found worn out.
LEMMA UsefulStep ==
    ASSUME Inv
    PROVE  \A w \in Workers, c \in Containers :
              /\ CleanDelete(w) /\ cleaner[w].victim = c /\ cleaner[w].pc = "reuse"
              /\ cont[c].life = "up"
              => Cardinality(served[c]) >= config.reuse
<1> SUFFICES ASSUME NEW w \in Workers, NEW c \in Containers,
                    cleaner[w].step = "delete", cleaner[w].victim = c, cleaner[w].pc = "reuse"
             PROVE  Cardinality(served[c]) >= config.reuse
  BY DEF CleanDelete
<1>1. config.reuse <= Cardinality(served[c])
  BY DEF Inv, Cleaning
<1>2. config.reuse \in Nat /\ Cardinality(served[c]) \in Nat
  BY ConfigTypes, FS_CardinalityType DEF Inv, ServedFinite
<1> QED
  BY <1>1, <1>2

\* A cleaner deletes a healthy shared container only after as many sessions
\* as allowed, although it asks for the allocations and for the uses in two
\* calls to the store (docker.py:561-575); without any condition.
THEOREM UsefulContainersKept == Spec => UsefulKept
<1>1. Inv => [\A w \in Workers, c \in Containers :
                 /\ CleanDelete(w) /\ cleaner[w].victim = c /\ cleaner[w].pc = "reuse"
                 /\ cont[c].life = "up"
                 => Cardinality(served[c]) >= config.reuse]_vars
  BY UsefulStep
<1> QED
  BY InvAlways, <1>1, PTL DEF UsefulKept

-----------------------------------------------------------------------------
(* The refinement, one step of Environments after the other.               *)

\* No container is there, nobody uses one.
LEMMA InitRefines == Init => Pool!Init
<1> SUFFICES ASSUME Init PROVE Pool!Init
  OBVIOUS
<1>1. /\ \A s \in Sessions : sess[s] = NoSession
      /\ \A c \in Containers : cont[c].life = "none" /\ served[c] = {}
      /\ store.live = {}
  BY DEF Init, EmptyStore
<1>2. PoolLimits \in [concurrency : Nat, reuse : Nat]
  BY InitTypes, ConfigTypes DEF PoolLimits
<1>3. PoolLife = [c \in Containers |-> "none"]
  BY <1>1 DEF PoolLife, Exists
<1>4. PoolUsers = [c \in Containers |-> {}]
  BY <1>1 DEF PoolUsers, Users
<1>5. PoolServed = [c \in Containers |-> {}]
  BY <1>1 DEF PoolServed
<1> QED
  BY <1>2, <1>3, <1>4, <1>5 DEF Pool!Init, PoolLimits, PoolLife, PoolUsers, PoolServed

\* A container that is created is new to the pool, and nobody uses it.
LEMMA CreateRefines ==
    ASSUME Inv, NEW s \in Sessions, NEW c \in Containers, Creating(s, c)
    PROVE  Refines
<1>1. /\ TypeOK /\ TypeOK' /\ UNCHANGED <<config, store, served>>
      /\ cont[c].life = "none" /\ cont'[c].life = "new"
      /\ \A d \in Containers \ {c} : cont'[d] = cont[d]
  BY DEF Inv, Creating
<1>2. /\ \A t \in Sessions : t # s => sess'[t] = sess[t]
      /\ sess'[s].mine = sess[s].mine
      /\ sess[s].pc \in {"create", "grow"} /\ sess'[s].pc \in {"allocate", "lock"}
  BY DEF Creating, Moves
<1>3. \A t \in Sessions, d \in Containers : Using(t, d)' <=> Using(t, d)
  <2>1. \A d \in Containers : Using(s, d)' <=> Using(s, d)
    BY <1>1, <1>2 DEF Using, Ended
  <2>2. \A t \in Sessions, d \in Containers : t # s => (Using(t, d)' <=> Using(t, d))
    BY <1>1, <1>2 DEF Using
  <2> QED
    BY <2>1, <2>2
<1>4. \A d \in Containers : Users(d)' = Users(d)
  BY <1>1, <1>3, UsersAre, UsersWillBe
<1>5. \A d \in Containers : Uncounted(d)' = Uncounted(d)
  <2>1. \A t \in Sessions, d \in Containers : t \in Uncounted(d)' <=> t \in Uncounted(d)
    BY <1>1, <1>2 DEF Uncounted
  <2> QED
    BY <2>1 DEF Uncounted
<1>6. PoolUsers' = PoolUsers /\ PoolServed' = PoolServed
  BY <1>1, <1>4, <1>5 DEF PoolUsers, PoolServed
<1>7. PoolLife[c] = "none" /\ PoolLife'[c] = "up" /\ \A d \in Containers : d # c => PoolLife'[d] = PoolLife[d]
  BY <1>1 DEF PoolLife, Exists
<1>8. PoolLife' = [PoolLife EXCEPT ![c] = "up"]
  BY <1>7 DEF PoolLife
<1>9. Pool!Create(c)
  BY <1>1, <1>6, <1>7, <1>8 DEF Pool!Create, PoolLife, PoolUsers, PoolServed
<1> QED
  BY <1>9 DEF Refines, Pool!Next

\* A quiet step that leaves the containers alone.
LEMMA SameContainersRefine ==
    ASSUME Inv, Quiet, cont' = cont
    PROVE  Refines
BY QuietLeaves

\* end_session deletes the session's own containers.
LEMMA DeleteExclusiveRefines ==
    ASSUME Inv, NEW s \in Sessions, DeleteExclusive(s)
    PROVE  Refines
<1>1. TypeOK /\ Quiet /\ UNCHANGED <<config, cleaner, served>>
  BY DeleteExclusiveQuiet DEF Inv, DeleteExclusive
<1>2. ASSUME NEW c \in sess[s].excl, Delete(sess[s].at, c), sess' = [sess EXCEPT ![s].excl = @ \ {c}]
      PROVE  Refines
  <2>1. c \in Containers /\ Made(c) /\ sess[s].at \in Workers \cup {NoOne}
    BY <1>1, FieldTypes DEF Inv, NamesKnown
  <2>2. store'.live = store.live /\ (cont' = cont \/ cont' = [cont EXCEPT ![c].life = "gone"])
    BY <1>1, <1>2, <2>1, DeleteQuiet
  <2>3. Moves(s, sess[s].pc, sess[s].cands, sess[s].sel, sess[s].mine)
    BY <1>1, <1>2, MoveExcl
  <2>4. \A t \in Sessions : /\ sess'[t].pc = sess[t].pc /\ sess'[t].mine = sess[t].mine
                            /\ sess'[t].sel = sess[t].sel
    BY <2>3 DEF Moves
  <2>5. PoolUsers' = PoolUsers /\ PoolServed' = PoolServed
    BY <1>1, <2>2, <2>4, SamePoolUse
  <2> QED
    BY <1>1, <2>1, <2>2, <2>5, GoneRefines
<1>3. CASE cont' = cont
  BY <1>1, <1>3, SameContainersRefine
<1> QED
  BY <1>2, <1>3 DEF DeleteExclusive

\* The cleaners delete their victim; the rest of what they do is not seen.
LEMMA CleanRefines ==
    ASSUME Inv, NEW w \in Workers, CleanStep(w)
    PROVE  Refines
<1>1. TypeOK /\ Quiet
  BY CleanQuiet DEF Inv
<1>2. CASE CleanDelete(w)
  <2>1. PICK c \in Containers : c = cleaner[w].victim
    BY <1>2 DEF Inv, Cleaning, CleanDelete
  <2>2. Made(c)
    BY <2>1 DEF Inv, NamesKnown
  <2>3. UNCHANGED <<store, sess, served>> /\ (cont' = cont \/ cont' = [cont EXCEPT ![c].life = "gone"])
    BY <1>2, <2>1 DEF CleanDelete
  <2>4. PoolUsers' = PoolUsers /\ PoolServed' = PoolServed
    BY <1>1, <2>3, SamePoolUse
  <2> QED
    BY <1>1, <2>2, <2>3, <2>4, GoneRefines
<1>3. CASE cont' = cont
  BY <1>1, <1>3, SameContainersRefine
<1> QED
  BY <1>2, <1>3 DEF CleanStep, CleanBegin, CleanCheck, CleanUses, CleanForget, CleanNext

\* A container that becomes healthy or unhealthy is there before and after; one
\* that disappears is destroyed.
LEMMA WorldRefines ==
    ASSUME Inv,
           \/ \E c \in Containers : ContainerReady(c) \/ ContainerFails(c)
           \/ \E w \in Workers : WatchPods(w)
           \/ BackgroundExpires
    PROVE  Refines
<1>1. TypeOK /\ Quiet
  BY WorldQuiet DEF Inv
<1>2. ASSUME NEW c \in Containers, NEW life \in {"up", "bad"}, cont[c].life \in {"new", "up"},
             cont' = [cont EXCEPT ![c].life = life]
      PROVE  Refines
  <2>1. \A d \in Containers : cont'[d].life \in Exists <=> cont[d].life \in Exists
    BY <1>1, <1>2 DEF TypeOK, ContainerRecord, Exists
  <2> QED
    BY <1>1, <2>1, QuietLeaves
<1>3. ASSUME NEW c \in Containers, cont[c].life \in {"new", "up"},
             cont' = [cont EXCEPT ![c].life = "gone"], UNCHANGED <<store, sess, served>>
      PROVE  Refines
  <2>1. PoolUsers' = PoolUsers /\ PoolServed' = PoolServed
    BY <1>1, <1>3, SamePoolUse
  <2>2. Made(c)
    BY <1>3 DEF Made
  <2> QED
    BY <1>1, <1>3, <2>1, <2>2, GoneRefines
<1>4. ASSUME NEW c \in Containers, ContainerReady(c) PROVE Refines
  BY <1>2, <1>4 DEF ContainerReady
<1>5. ASSUME NEW c \in Containers, ContainerFails(c) PROVE Refines
  BY <1>2, <1>3, <1>5 DEF ContainerFails
<1>6. CASE cont' = cont
  BY <1>1, <1>6, SameContainersRefine
<1> QED
  BY <1>4, <1>5, <1>6 DEF WatchPods, BackgroundExpires

\* Every step is one of the pool or a stutter.
LEMMA NextRefines ==
    ASSUME Inv, [Next]_vars
    PROVE  Refines
<1>1. ASSUME NEW s \in Sessions, NEW w \in Workers, StartSession(s, w) PROVE Refines
  BY <1>1, StartQuiet, SameContainersRefine DEF StartSession
<1>2. ASSUME NEW s \in Sessions, CreateFails(s) \/ Identify(s) \/ Lock(s) \/ StoreSession(s) \/ WaitForHealth(s)
      PROVE  Refines
  <2>1. cont' = cont
    BY <1>2 DEF CreateFails, Identify, Lock, StoreSession, WaitForHealth
  <2>2. Quiet
    BY <1>2, CreateFailsQuiet, IdentifyQuiet, LockQuiet, StoreSessionQuiet, WaitQuiet
  <2> QED
    BY <2>1, <2>2, SameContainersRefine
<1>3. ASSUME NEW s \in Sessions, StartStep(s) PROVE Refines
  BY <1>2, <1>3, CreateStep, CreateRefines, SelectInv, AllocateStepInv, CountInv DEF StartStep
<1>4. ASSUME NEW s \in Sessions,
             PassOverDeleting(s) \/ EndSession(s) \/ ReleaseShared(s) \/ DropSession(s) \/ Expire(s)
      PROVE  Refines
  <2>1. cont' = cont
    BY <1>4 DEF PassOverDeleting, EndSession, ReleaseShared, DropSession, Expire
  <2>2. Quiet
    BY <1>4, WaitQuiet, ReleaseSharedQuiet, DropQuiet, ExpireQuiet
  <2> QED
    BY <2>1, <2>2, SameContainersRefine
<1>5. ASSUME NEW s \in Sessions, EndStep(s) PROVE Refines
  BY <1>4, <1>5, DeleteExclusiveRefines DEF EndStep
<1>6. ASSUME NEW w \in Workers, Crash(w) PROVE Refines
  BY <1>6, CrashQuiet, SameContainersRefine DEF Crash
<1>7. CASE UNCHANGED vars
  BY <1>7, StutterInv, SameContainersRefine DEF vars
<1> QED
  BY <1>1, <1>3, <1>4, <1>5, <1>6, <1>7, CleanRefines, WorldRefines DEF Next

\* The environments implement ContainerPool while the counts can be relied
\* upon: never more sessions at a time on a container that runs, nor more in
\* all, than the delegation allows (docker.py:158-175, k8s.py:217-246), and
\* containers are created and destroyed once.
THEOREM PoolRefined == Spec /\ []Counts => PoolSpec
<1>1. Inv /\ [Next]_vars /\ Counts => [Pool!Next]_(Pool!vars)
  BY NextRefines DEF Refines
<1> QED
  BY InitRefines, InvAlways, <1>1, PTL DEF Spec, PoolSpec, Pool!Spec

-----------------------------------------------------------------------------
(* The deployments whose counts can be relied upon: with docker nothing     *)
(* fails to be deleted, and a worker that keeps the record in its own       *)
(* memory is not killed.                                                    *)

\* The counts can be relied upon in every behaviour of such a deployment.
\* Every deployment with k8s and a store outside the workers is one.
Reliable == (Docker => config.faults["delete"] = 0) /\ (Local => config.faults["crash"] = 0)
WithinFaults == \A kind \in FaultKinds : faults[kind] <= config.faults[kind]

\* The deployment does not change.
LEMMA ConfigStays == [Next]_vars => config' = config
BY DEF Next, vars, StartSession, StartStep, Create, CreateFails, Identify, Lock, Select, Allocate, Count,
   StoreSession, WaitForHealth, PassOverDeleting, EndSession, EndStep, ReleaseShared, DeleteExclusive,
   DropSession, Expire, CleanStep, CleanBegin, CleanCheck, CleanUses, CleanDelete, CleanForget, CleanNext,
   WatchPods, Crash, ContainerReady, ContainerFails, BackgroundExpires

\* No more failures than the deployment has to stand.
LEMMA FaultsStay ==
    ASSUME TypeOK, WithinFaults, config' = config,
           \/ faults' = faults
           \/ \E kind \in FaultKinds, n \in {1, 2} : Failures(kind, n)
    PROVE  WithinFaults'
<1>1. faults \in [FaultKinds -> Nat] /\ config.faults \in [FaultKinds -> Nat]
  BY ConfigTypes DEF TypeOK
<1>2. ASSUME NEW kind \in FaultKinds, NEW n \in {1, 2}, Failures(kind, n), NEW k \in FaultKinds
      PROVE  faults'[k] <= config.faults[k]
  BY <1>1, <1>2 DEF Failures, WithinFaults
<1> QED
  BY <1>2 DEF WithinFaults

\* A step has no failure, or one or two of a kind.
LEMMA FaultsNext ==
    ASSUME TypeOK, [Next]_vars
    PROVE  faults' = faults \/ \E kind \in FaultKinds, n \in {1, 2} : Failures(kind, n)
<1> DEFINE Goal == faults' = faults \/ \E kind \in FaultKinds, n \in {1, 2} : Failures(kind, n)
<1>1. {"crash", "create", "delete", "health"} \subseteq FaultKinds
  BY DEF FaultKinds
<1>2. DeleteFails => Goal
  BY <1>1 DEF DeleteFails, DockerCallFails, ApiCallFails
<1> HIDE DEF Goal
<1>3. ASSUME NEW s \in Sessions, CreateFails(s) PROVE Goal
  BY <1>1, <1>3 DEF CreateFails, DockerCallFails, ApiCallFails, Goal
<1>4. ASSUME NEW s \in Sessions, DeleteExclusive(s) PROVE Goal
  <2>1. ASSUME NEW c, Delete(sess[s].at, c) PROVE Goal
    <3>1. faults' = faults => Goal
      BY DEF Goal
    <3> QED
      BY <1>2, <2>1, <3>1 DEF Delete
  <2> QED
    BY <1>4, <2>1 DEF DeleteExclusive, Goal
<1>5. ASSUME NEW w \in Workers, CleanDelete(w) PROVE Goal
  BY <1>2, <1>5 DEF CleanDelete, Goal
<1>6. ASSUME NEW w \in Workers, Crash(w) PROVE Goal
  BY <1>1, <1>6 DEF Crash, Goal
<1>7. ASSUME NEW c \in Containers, ContainerFails(c) PROVE Goal
  BY <1>1, <1>7 DEF ContainerFails, Goal
<1>8. CASE faults' = faults
  BY <1>8 DEF Goal
<1> QED
  BY <1>3, <1>4, <1>5, <1>6, <1>7, <1>8 DEF Next, vars, StartSession, StartStep, Create, Identify, Lock, Select,
     Allocate, Count, StoreSession, WaitForHealth, PassOverDeleting, EndSession, EndStep, ReleaseShared,
     DropSession, Expire, CleanStep, CleanBegin, CleanCheck, CleanUses, CleanForget, CleanNext, WatchPods,
     ContainerReady, BackgroundExpires, Goal

\* A deployment in which docker deletes what it is asked to delete, and no
\* worker with a local record is killed, implements ContainerPool
\* (docker.py:158-175, k8s.py:217-246).
THEOREM ReliablePool == Spec /\ Reliable => PoolSpec
<1> DEFINE I == Reliable /\ WithinFaults
<1>1. Init /\ Reliable => I
  <2> SUFFICES ASSUME Init PROVE WithinFaults
    OBVIOUS
  <2>1. config.faults \in [FaultKinds -> Nat] /\ \A kind \in FaultKinds : faults[kind] = 0
    BY InitTypes, ConfigTypes DEF Init
  <2> QED
    BY <2>1 DEF WithinFaults
<1>2. Inv /\ I /\ [Next]_vars => I'
  <2> SUFFICES ASSUME Inv, Reliable, WithinFaults, [Next]_vars PROVE Reliable' /\ WithinFaults'
    OBVIOUS
  <2>1. config' = config /\ TypeOK
    BY ConfigStays DEF Inv
  <2> QED
    BY <2>1, FaultsNext, FaultsStay DEF Reliable, Docker, Local
<1>3. Inv /\ I => Counts
  <2> SUFFICES ASSUME Inv, Reliable, WithinFaults PROVE Counts
    OBVIOUS
  <2>1. /\ faults \in [FaultKinds -> Nat] /\ {"crash", "delete"} \subseteq FaultKinds
        /\ faults["delete"] <= config.faults["delete"] /\ faults["crash"] <= config.faults["crash"]
    BY DEF Inv, TypeOK, WithinFaults, FaultKinds
  <2>2. faults["delete"] \in Nat /\ faults["crash"] \in Nat
    BY <2>1
  <2> QED
    BY <2>1, <2>2 DEF Reliable, Counts, Deletes
<1> HIDE DEF I
<1> QED
  BY InvAlways, PoolRefined, <1>1, <1>2, <1>3, PTL DEF Spec

=============================================================================
