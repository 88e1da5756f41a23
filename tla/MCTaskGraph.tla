---------------------------- MODULE MCTaskGraph ----------------------------
(* The instance of TaskGraph that TLC checks.                                *)
EXTENDS TaskGraph, TLC

Symmetry == Permutations(Tasks) \cup Permutations(Requests)
=============================================================================
