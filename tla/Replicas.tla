------------------------------ MODULE Replicas ------------------------------
(***************************************************************************)
(* What flooding promises for one LSA: every router holds an instance of   *)
(* it, which only ever gets newer, and the routers that are alive come to  *)
(* hold the same one.  There are no packets, adjacencies or lists here; a  *)
(* router learns of an instance from nowhere in particular.                *)
(***************************************************************************)
EXTENDS Naturals

CONSTANTS
  Router,
  Origin     \* the router that originates the LSA

VARIABLES
  held,      \* the instance each router holds
  newest,    \* the last one originated
  alive      \* the routers that work

vars == <<held, newest, alive>>

Init ==
  /\ held = [r \in Router |-> 0]
  /\ newest = 0
  /\ alive \subseteq Router

Originate ==
  /\ Origin \in alive
  /\ newest' = newest + 1
  /\ held' = [held EXCEPT ![Origin] = newest']
  /\ UNCHANGED alive

Learn(r) ==
  /\ r \in alive
  /\ \E i \in (held[r] + 1)..newest : held' = [held EXCEPT ![r] = i]
  /\ UNCHANGED <<newest, alive>>

(* What a router held is gone with it. *)
Fail(r) ==
  /\ r \in alive
  /\ alive' = alive \ {r}
  /\ held' = [held EXCEPT ![r] = 0]
  /\ UNCHANGED newest

Next == Originate \/ \E r \in Router : Learn(r) \/ Fail(r)

(* While another router that is alive holds a newer instance, r is due to  *)
(* learn of one.                                                           *)
CatchUp(r) ==
  /\ \E q \in alive : held[q] > held[r]
  /\ Learn(r)

Spec ==
  /\ Init /\ [][Next]_vars
  /\ \A r \in Router : WF_vars(CatchUp(r))
=============================================================================
