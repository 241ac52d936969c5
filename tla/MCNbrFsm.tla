------------------------------ MODULE MCNbrFsm ------------------------------
(* TLC instances of NbrFsm.                                                *)
EXTENDS NbrFsm, TLC

CONSTANTS n1, n2, n3, lan, pp

\* Two neighbours on a LAN and one over a point-to-point link.
MixedIfc == (n1 :> lan) @@ (n2 :> lan) @@ (n3 :> pp)
=============================================================================
