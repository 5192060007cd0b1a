------------------------------- MODULE MCBudget -------------------------------
(* Instances of Budget for TLC; runs are interchangeable. *)
EXTENDS Budget, TLC

RunSymmetry == Permutations(Runs)
=============================================================================
