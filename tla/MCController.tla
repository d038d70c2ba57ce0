---------------------------- MODULE MCController ----------------------------
(***************************************************************************)
(* Instances of Controller for TLC.                                        *)
(***************************************************************************)
EXTENDS Controller, TLC

SymmetricPools == Permutations(Objs) \cup Permutations(Workers)
                    \cup Permutations(Requests) \cup Permutations(Syncs)
=============================================================================
