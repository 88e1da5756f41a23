----------------------------- MODULE MCMailSync -----------------------------
(* The instance of MailSync that TLC checks.                                 *)
EXTENDS MailSync, TLC
=============================================================================
