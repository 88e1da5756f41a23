------------------------------ MODULE MCSnooze ------------------------------
(* A thread of two messages; callers are interchangeable.                    *)
EXTENDS Snooze, TLC

Symmetry == Permutations(Callers)
=============================================================================
