--------------------------- MODULE MCGoogleGrant ---------------------------
(* One account, its two syncs and its owner.                                 *)
EXTENDS GoogleGrant
=============================================================================
