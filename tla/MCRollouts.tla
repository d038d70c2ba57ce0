----------------------------- MODULE MCRollouts -----------------------------
(***************************************************************************)
(* Instances of Rollouts for TLC.                                          *)
(***************************************************************************)
EXTENDS Rollouts

\* Two data sets of one group each, interleaved, and replayed once: a group left
\* incomplete by a failure meets the items of the next pass with its group_id.
Replayed == <<"a", "b", "a", "b", "a", "b", "a", "b">>
=============================================================================
