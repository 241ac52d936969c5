----------------------------- MODULE Membership -----------------------------
(***************************************************************************)
(* The references that the interfaces hold: to the physical interface they *)
(* run on (phy_attach, phy_detach) and to the multicast groups joined on   *)
(* it (app_join, app_leave), counted in phyint.C.  Several interfaces may  *)
(* be on one physical interface.                                           *)
(*                                                                         *)
(* "o" holds the interfaces and the counts; an event runs to completion,   *)
(* so operators map the record before a call to the record after it.       *)
(*                                                                         *)
(* Abstracted: how an election ends (module IfcFsm), and sys->join() and   *)
(* the like, which succeed.  The kernel's flag of a physical interface     *)
(* changes in the step that tells the daemon, as in set_flags().           *)
(*                                                                         *)
(* Init, Next and the like have names of their own here, so that this      *)
(* module can be extended along with others.                               *)
(***************************************************************************)
EXTENDS Integers, FiniteSets, FiniteSetsExt

CONSTANTS
  Ifc,         \* the interfaces that may be configured
  Phyint,      \* the physical interfaces
  if_phyint,   \* where each interface is
  Broadcast,   \* the interfaces that elect; the others are point-to-point
  MaxRef       \* bound on the references to a physical interface

ASSUME MembershipAssumption ==
  /\ IsFiniteSet(Ifc) /\ Broadcast \subseteq Ifc
  /\ if_phyint \in [Ifc -> Phyint]
  /\ MaxRef \in Nat

VARIABLES
  o,           \* interfaces, reference counts, and what the system was asked for
  running      \* the physical interfaces whose flag says up

phyVars == <<o, running>>

AllSPFRouters == "224.0.0.5"
AllDRouters == "224.0.0.6"
Group == {AllSPFRouters, AllDRouters}

GroupsInit ==
  /\ o = [state |-> [i \in Ifc |-> "None"], phyrefs |-> [p \in Phyint |-> 0], open |-> {},
          members |-> [m \in Phyint \X Group |-> 0], joined |-> {}]
  /\ running \in SUBSET Phyint

On(p) == {i \in Ifc : if_phyint[i] = p /\ o.state[i] # "None"}

-----------------------------------------------------------------------------
phy_attach(s, p) == [s EXCEPT !.phyrefs[p] = @ + 1, !.open = @ \cup {p}]

phy_detach(s, p) ==
  IF s.phyrefs[p] = 0 THEN s
  ELSE [s EXCEPT !.phyrefs[p] = @ - 1, !.open = IF s.phyrefs[p] = 1 THEN @ \ {p} ELSE @]

app_join(s, p, g) == [s EXCEPT !.members[<<p, g>>] = @ + 1, !.joined = @ \cup {<<p, g>>}]

app_leave(s, p, g) ==
  LET n == s.members[<<p, g>>]
  IN  IF n = 0 THEN s
      ELSE [s EXCEPT !.members[<<p, g>>] = n - 1,
                     !.joined = IF n = 1 THEN @ \ {<<p, g>>} ELSE @]

Leads(state) == state \in {"Backup", "DR"}

EndFsm_DownForgets(s, i, os) ==
  LET ns == s.state[i]
  IN  IF Leads(ns) /\ ~Leads(os) THEN app_join(s, if_phyint[i], AllDRouters)
      ELSE IF Leads(os) /\ ~Leads(ns) /\ ns # "Down"
           THEN app_leave(s, if_phyint[i], AllDRouters)
      ELSE s

\* The end of run_fsm(): the group of the designated routers.
EndFsm(s, i, os) ==
  LET ns == s.state[i]
  IN  IF Leads(ns) /\ ~Leads(os) THEN app_join(s, if_phyint[i], AllDRouters)
      ELSE IF Leads(os) /\ ~Leads(ns) THEN app_leave(s, if_phyint[i], AllDRouters)
      ELSE s

\* IFE_UP: ifa_start() of an interface that is down, with or without a
\* priority of zero.
Start(s, i, eligible) ==
  IF s.state[i] # "Down" THEN s
  ELSE LET first == IF i \notin Broadcast THEN "PP" ELSE IF eligible THEN "Wait" ELSE "Other"
       IN  EndFsm([app_join(phy_attach(s, if_phyint[i]), if_phyint[i], AllSPFRouters)
                     EXCEPT !.state[i] = first], i, "Down")

\* IFE_DOWN: ifa_reset(), in every state.
Down(s, i) ==
  EndFsm([app_leave(s, if_phyint[i], AllSPFRouters) EXCEPT !.state[i] = "Down"], i, s.state[i])

StartIfRunning(s, i, eligible) == IF if_phyint[i] \in running THEN Start(s, i, eligible) ELSE s

-----------------------------------------------------------------------------
\* cfgIfc() of an interface that is not there yet.
cfgIfc(i) ==
  /\ o.state[i] = "None"
  /\ \E e \in BOOLEAN : o' = StartIfRunning([o EXCEPT !.state[i] = "Down"], i, e)
  /\ UNCHANGED running

\* ~SpfIfc()
DeleteIfc(i) ==
  /\ o.state[i] # "None"
  /\ o' = phy_detach([Down(o, i) EXCEPT !.state[i] = "None"], if_phyint[i])
  /\ UNCHANGED running

\* restart(), which a move to another area and reinitialize() do too.
restart(i) ==
  /\ o.state[i] # "None"
  /\ \E e \in BOOLEAN : o' = StartIfRunning(Down(o, i), i, e)
  /\ UNCHANGED running

\* IFA_ELECT
ifa_elect(i) ==
  /\ i \in Broadcast /\ o.state[i] \notin {"None", "Down"}
  /\ \E ns \in {"Other", "Backup", "DR"} \ {o.state[i]} :
       o' = EndFsm([o EXCEPT !.state[i] = ns], i, o.state[i])
  /\ UNCHANGED running

phy_down(p) ==
  /\ p \in running
  /\ running' = running \ {p}
  /\ o' = FoldSet(LAMBDA i, s : Down(s, i), o, On(p))

phy_up(p) ==
  /\ p \notin running
  /\ running' = running \cup {p}
  /\ \E e \in [On(p) -> BOOLEAN] : o' = FoldSet(LAMBDA i, s : Start(s, i, e[i]), o, On(p))

Bounded == \A p \in Phyint : o'.phyrefs[p] <= MaxRef

GroupsNext ==
  /\ \/ \E i \in Ifc : cfgIfc(i) \/ DeleteIfc(i) \/ restart(i) \/ ifa_elect(i)
     \/ \E p \in Phyint : phy_down(p) \/ phy_up(p)
  /\ Bounded

GroupsSpec == GroupsInit /\ [][GroupsNext]_phyVars

-----------------------------------------------------------------------------
Up(p) == {i \in On(p) : o.state[i] # "Down"}

(* After interfaces came and went, on the same physical interface too, the *)
(* router listens to AllSPFRouters exactly where one of them is up and to  *)
(* AllDRouters exactly where one of them is DR or Backup, and the physical *)
(* interface of every interface that is up is open.  A leave too many of   *)
(* one of them would deafen the others.                                    *)
MembershipExact ==
  \A p \in Phyint :
    /\ o.members[<<p, AllSPFRouters>>] = Cardinality(Up(p))
    /\ o.members[<<p, AllDRouters>>] = Cardinality({i \in Up(p) : Leads(o.state[i])})
    /\ \A g \in Group : <<p, g>> \in o.joined <=> o.members[<<p, g>>] > 0
    /\ p \in o.open <=> o.phyrefs[p] > 0
    /\ Up(p) # {} => p \in o.open
=============================================================================
