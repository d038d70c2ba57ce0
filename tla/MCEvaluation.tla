---------------------------- MODULE MCEvaluation ----------------------------
(* Options and failures of evaluations, for TLC.                           *)
EXTENDS Evaluation

CONSTANTS w1, w2

NoFaults == [kind \in FaultKinds |-> 0]
Plain == [renew |-> FALSE, startOnly |-> FALSE, faults |-> NoFaults]

MCSpecs == {<<1, 1>>, <<2, 1>>}

MCConfigs == {
    [Plain EXCEPT !.faults = [NoFaults EXCEPT !["start"] = 1, !["query"] = 1, !["interact"] = 1]],
    [Plain EXCEPT !.renew = TRUE, !.faults = [NoFaults EXCEPT !["renew"] = 1, !["record"] = 1]],
    [Plain EXCEPT !.renew = TRUE, !.faults = [NoFaults EXCEPT !["quit"] = 1, !["cancel"] = 1]],
    [Plain EXCEPT !.faults = [NoFaults EXCEPT !["save"] = 1, !["crash"] = 1]],
    [Plain EXCEPT !.startOnly = TRUE, !.faults = [NoFaults EXCEPT !["crash"] = 1]]}
=============================================================================
