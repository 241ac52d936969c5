----------------------------- MODULE MCLsaLife -----------------------------
(* TLC instances of LsaLife. *)
EXTENDS LsaLife
=============================================================================
