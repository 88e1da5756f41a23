-------------------------- MODULE MCTaskCompletion --------------------------
(* The instance of TaskCompletion that TLC checks.                           *)
EXTENDS TaskCompletion, TLC

Symmetry == Permutations(Existing) \cup Permutations(Tasks \ Existing) \cup Permutations(Requests)
=============================================================================
