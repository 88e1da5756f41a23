------------------------------ MODULE MCDrafts ------------------------------
(* One account with a few drafts.                                            *)
EXTENDS Drafts
=============================================================================
