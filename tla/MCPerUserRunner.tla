-------------------------- MODULE MCPerUserRunner --------------------------
(* The instance of PerUserRunner that TLC checks.                            *)
EXTENDS PerUserRunner, TLC
=============================================================================
