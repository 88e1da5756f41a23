-------------------------- MODULE MCScheduledSend --------------------------
(* Model values and symmetry for the runs of ScheduledSend.                  *)
EXTENDS ScheduledSend, TLC

Symmetry == Permutations(Rows) \cup Permutations(Procs)
=============================================================================
