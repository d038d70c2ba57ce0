--------------------------- MODULE ContainerPool ----------------------------
(***************************************************************************)
(* What the environments promise of their containers, without saying how:  *)
(* a container is created once and destroyed once, and while it runs it    *)
(* never has more sessions at a time, nor more sessions in all, than the   *)
(* delegation allows (get_concurrency_limit and get_reuse_limit; 0 stands  *)
(* for no limit).  Environments is shown to implement this specification.  *)
(***************************************************************************)
EXTENDS Naturals, FiniteSets

CONSTANTS Containers, Sessions

VARIABLES
    limits,     \* [concurrency, reuse], fixed
    life,       \* of each container: "none", "up" or "gone"
    users,      \* sessions that use the container
    served      \* sessions that have used it and were counted

vars == <<limits, life, users, served>>

Init ==
    /\ limits \in [concurrency : Nat, reuse : Nat]
    /\ life = [c \in Containers |-> "none"]
    /\ users = [c \in Containers |-> {}]
    /\ served = [c \in Containers |-> {}]

Below(n, limit) == limit = 0 \/ n < limit

\* A session is given a container.  One that has just been destroyed may
\* still be given out: its session finds that it is gone.  A session whose
\* record has expired meanwhile is counted, and is no user.
Assign(c, s) ==
    /\ life[c] # "none"
    /\ life[c] = "up" => /\ Below(Cardinality(users[c]), limits.concurrency)
                         /\ Below(Cardinality(served[c]), limits.reuse)
    /\ users' = [users EXCEPT ![c] = @ \cup {s}] \/ users' = users
    /\ served' = [served EXCEPT ![c] = @ \cup {s}]
    /\ UNCHANGED <<limits, life>>

\* Sessions leave, by their own end or because they died; one that died
\* before it was counted has not used the container.
Leave ==
    /\ \A c \in Containers : users'[c] \subseteq users[c] /\ served'[c] \subseteq served[c]
    /\ \A c \in Containers : served[c] \ served'[c] \subseteq users[c] \ users'[c]
    /\ UNCHANGED <<limits, life>>

Create(c) ==
    /\ life[c] = "none"
    /\ life' = [life EXCEPT ![c] = "up"]
    /\ UNCHANGED <<limits, users, served>>

Destroy(c) ==
    /\ life[c] = "up"
    /\ life' = [life EXCEPT ![c] = "gone"]
    /\ UNCHANGED <<limits, users, served>>

Next ==
    \/ \E c \in Containers, s \in Sessions : Assign(c, s)
    \/ \E c \in Containers : Create(c) \/ Destroy(c)
    \/ Leave

Spec == Init /\ [][Next]_vars
=============================================================================
