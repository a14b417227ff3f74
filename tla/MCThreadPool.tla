---------------------------- MODULE MCThreadPool ----------------------------
(***************************************************************************)
(* Small pools for TLC.  Slots are ordered (the manager starts the lowest  *)
(* empty one), so there is no symmetry among them; tasks are alike, but    *)
(* the liveness runs may not use that.                                     *)
(***************************************************************************)
EXTENDS ThreadPool, TLC

TaskSymmetry == Permutations(Tasks)
=============================================================================
