--------------------------- MODULE StateProviders ---------------------------
(***************************************************************************)
(* The state providers of the worker environments                          *)
(* (worker/environment/state): the shared store in which the workers of a  *)
(* task record the sessions that use a container, how many sessions have   *)
(* used it, the data of each session and the lock on allocation.           *)
(*                                                                         *)
(* A store is a record                                                     *)
(*   alloc  : container -> sessions with an allocation key                 *)
(*   uses   : container -> total number of uses                            *)
(*   data   : session -> containers of the session, or NoData              *)
(*   live   : sessions whose lease (consul session, etcd lease) or keys    *)
(*            (redis) have not expired                                     *)
(*   lock   : session that holds the lock `allocation:subtype`, or NoOne   *)
(* and each operation of a provider gives the next store.  Two rules tell  *)
(* the providers apart: whether an operation can be refused (the lease it  *)
(* names is gone) and what goes with a session when it is deleted.         *)
(***************************************************************************)
EXTENDS Naturals

CONSTANTS
    NoOne,          \* no holder of a lock
    NoData          \* no stored session

Providers == {"local", "redis", "consul", "etcd"}

EmptyStore(C, S) ==
    [alloc |-> [c \in C |-> {}], uses |-> [c \in C |-> 0],
     data |-> [s \in S |-> NoData], live |-> {}, lock |-> NoOne]

-----------------------------------------------------------------------------
(* Parts shared by the providers.                                          *)

AddAllocation(st, c, s) == [st EXCEPT !.alloc[c] = @ \cup {s}]
AddUse(st, c) == [st EXCEPT !.uses[c] = @ + 1]

\* Everything kept under the lease of a session goes with the lease.
WithoutLease(st, s) ==
    [st EXCEPT !.live = @ \ {s},
               !.data[s] = NoData,
               !.alloc = [c \in DOMAIN @ |-> @[c] \ {s}],
               !.lock = IF @ = s THEN NoOne ELSE @]

Forget(st, c) == [st EXCEPT !.alloc[c] = {}, !.uses[c] = 0]

-----------------------------------------------------------------------------
(* local.py: the memory of one process; no lock, nothing expires.          *)

LocalAcquire(st, s) == [st EXCEPT !.lock = NoOne]
LocalAllocate(st, c, s) == AddUse(AddAllocation(st, c, s), c)
LocalRemove(st, c) == Forget(st, c)
LocalStore(st, s, d) == [st EXCEPT !.data[s] = d]
LocalDelete(st, s) == [st EXCEPT !.data[s] = NoData]

-----------------------------------------------------------------------------
(* redis.py: keys that expire one by one.  The lock is taken if it is free *)
(* or already held by the same client.                                     *)

RedisAcquire(st, s) == [st EXCEPT !.lock = IF @ = NoOne THEN s ELSE @]
RedisRelease(st, s) == [st EXCEPT !.lock = IF @ = s THEN NoOne ELSE @]
RedisAllocate(st, c, s) == AddAllocation(st, c, s)
RedisRemove(st, c) == Forget(st, c)
RedisStore(st, s, d) == [st EXCEPT !.data[s] = d]
RedisDelete(st, s) == [st EXCEPT !.data[s] = NoData]

-----------------------------------------------------------------------------
(* consul.py: a key belongs to the consul session that acquired it and is  *)
(* deleted with it; a request that names a session that is gone is an      *)
(* error, and leaves the store as it is.                                   *)

ConsulAcquire(st, s) == [st EXCEPT !.lock = IF @ = NoOne /\ s \in st.live THEN s ELSE @]
ConsulRelease(st, s) == [st EXCEPT !.lock = IF @ = s THEN NoOne ELSE @]
ConsulAllocate(st, c, s) == IF s \in st.live THEN AddAllocation(st, c, s) ELSE st
ConsulRemove(st, c) == Forget(st, c)
ConsulStore(st, s, d) == IF s \in st.live THEN [st EXCEPT !.data[s] = d] ELSE st
ConsulDelete(st, s) == WithoutLease(st, s)

-----------------------------------------------------------------------------
(* etcd.py: a key is attached to the lease of its session, and goes when   *)
(* the lease is revoked or expires.                                        *)

EtcdAcquire(st, s) == [st EXCEPT !.lock = IF @ = NoOne /\ s \in st.live THEN s ELSE @]
EtcdRelease(st, s) == [st EXCEPT !.lock = IF @ = s THEN NoOne ELSE @]
EtcdAllocate(st, c, s) == IF s \in st.live THEN AddAllocation(st, c, s) ELSE st
EtcdRemove(st, c) == Forget(st, c)
EtcdStore(st, s, d) == IF s \in st.live THEN [st EXCEPT !.data[s] = d] ELSE st
EtcdDelete(st, s) == WithoutLease(st, s)
=============================================================================
