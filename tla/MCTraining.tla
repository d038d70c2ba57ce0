----------------------------- MODULE MCTraining -----------------------------
(***************************************************************************)
(* An instance of Training, with its transfers of weights, for TLC.        *)
(***************************************************************************)
EXTENDS Training

Transfers == 1..Rounds
\* Parameters that fit into a bucket by twos, and one that fills a bucket alone.
Sizes == <<1, 1, 3, 1>>
=============================================================================
