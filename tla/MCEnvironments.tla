--------------------------- MODULE MCEnvironments ---------------------------
(* Deployments of the environments, for TLC.                               *)
EXTENDS Environments

CONSTANTS w1, w2

NoFaults == [kind \in FaultKinds |-> 0]

Shared12 ==     \* one session at a time, two in all
    [driver |-> "docker", provider |-> "redis", concurrency |-> 1, reuse |-> 2,
     immutable |-> TRUE, homepage |-> FALSE, clients |-> {1, 2}, workers |-> {w1},
     cleaning |-> TRUE, faults |-> NoFaults]
Exclusive ==    \* a container and a homepage per session
    [Shared12 EXCEPT !.reuse = 1, !.homepage = TRUE]

MCConfigs == {
    Shared12,
    [Shared12 EXCEPT !.homepage = TRUE, !.clients = {1}],
    [Shared12 EXCEPT !.provider = "local", !.concurrency = 0, !.clients = {1, 2, 3},
                     !.cleaning = FALSE, !.faults = [NoFaults EXCEPT !["create"] = 1]],
    [Shared12 EXCEPT !.driver = "k8s", !.provider = "etcd", !.workers = {w1, w2},
                     !.cleaning = FALSE],
    [Shared12 EXCEPT !.driver = "k8s", !.provider = "etcd", !.clients = {1},
                     !.faults = [NoFaults EXCEPT !["health"] = 1]],
    [Exclusive EXCEPT !.provider = "consul", !.workers = {w1, w2}, !.clients = {1},
                      !.faults = [NoFaults EXCEPT !["crash"] = 1, !["health"] = 1]],
    [Exclusive EXCEPT !.driver = "k8s", !.homepage = FALSE, !.clients = {1},
                      !.workers = {w1, w2}, !.faults = [NoFaults EXCEPT !["delete"] = 2]],
    [Exclusive EXCEPT !.clients = {1}, !.faults = [NoFaults EXCEPT !["delete"] = 1]]
    }
=============================================================================
