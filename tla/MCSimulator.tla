---------------------------- MODULE MCSimulator ----------------------------
(***************************************************************************)
(* The simulator: how its configuration is read and handed out, or how it  *)
(* keeps its routers in step; a behavior is about one of the two, chosen   *)
(* in its initial state.                                                   *)
(***************************************************************************)
EXTENDS Simulator, SimConfig

CONSTANT Which                         \* the parts this run is about

VARIABLE which

\* All the routers are on one network; two link delays make a tick.
MCOwners == <<<<"net", "r1">>, <<"net", "r2">>>>
MCDb == {"d1", "d2"}

MCInit == which \in Which /\ ConfigInit /\ Init

Config == which = "config" /\ ConfigNext /\ UNCHANGED <<which, simVars>>

Lockstep == which = "lockstep" /\ Next /\ UNCHANGED <<which, configVars>>

MCNext == Config \/ Lockstep

MCSpec == MCInit /\ [][MCNext]_<<which, configVars, simVars>> /\ (which = "lockstep" => Fairness)

-----------------------------------------------------------------------------
(* The time goes on, whoever crashes or joins.                             *)
TimeGoesOn == which = "lockstep" => ClockAdvances
=============================================================================
