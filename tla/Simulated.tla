----------------------------- MODULE Simulated -----------------------------
(* The routers of a simulation.                                            *)
CONSTANTS
  Router,      \* router IDs
  NULL         \* none
=============================================================================
