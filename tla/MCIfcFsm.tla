------------------------------ MODULE MCIfcFsm ------------------------------
(***************************************************************************)
(* IfcFsm for TLC, with two routers and every disturbance (lan = "two"),   *)
(* and beside it three routers that have elected a DR and a Backup and     *)
(* lose one of them (lan = "three").  One of the two is idle.              *)
(***************************************************************************)
EXTENDS IfcFsm

VARIABLES lan, ifc3, net3, downs3, repris3

MCvars == <<vars, lan, ifc3, net3, downs3, repris3>>

MCInitPri == [r \in Router |-> 1]

Three == INSTANCE IfcFsm WITH
           Router <- {1, 2, 3}, Pris <- {0, 1}, InitPri <- [r \in {1, 2, 3} |-> 1],
           MaxDowns <- 1, MaxInFlight <- 1, MaxRepris <- 0,
           FreedReads <- {FALSE}, Timely <- TRUE,
           ifc <- ifc3, net <- net3, downs <- downs3, repris <- repris3

ASSUME ThreeAssumption == Three!RouterAssumption /\ Three!IfcAssumption

\* A LAN that has settled on DR 1 and Backup 2: router 1 came up first, so
\* it keeps its role from router 3, whose ID is the highest.
SettledIfc(r) ==
    [me |-> r, state |-> CASE r = 1 -> "DR" [] r = 2 -> "Backup" [] r = 3 -> "Other",
     drpri |-> 1, dr |-> 1, bdr |-> 2, dr_p |-> IF r = 1 THEN Three!None ELSE 1,
     nbr |-> [q \in Three!Others(r) |-> [state |-> "2Way", pri |-> 1, dr |-> 1, bdr |-> 2]]]

Settled ==
    /\ ifc3 = [r \in 1..3 |-> SettledIfc(r)]
    /\ net3 = [r \in 1..3 |-> [q \in Three!Others(r) |-> Three!NoHello]]
    /\ downs3 = 0 /\ repris3 = 0

MCInit == lan \in {"two", "three"} /\ Init /\ Settled

MCNext ==
    \/ lan = "two" /\ Next /\ UNCHANGED <<lan, ifc3, net3, downs3, repris3>>
    \/ lan = "three" /\ Three!Next /\ UNCHANGED <<lan, vars>>

\* Timers and Hellos go on among the three routers (IfcFsm!Fairness).
MCFairness ==
    \A r \in 1..3 :
        /\ []<>(lan = "two" \/ Three!WaitEnds(r))
        /\ \A q \in (1..3) \ {r} :
               /\ []<>(lan = "two" \/ Three!HelloSent(r, q))
               /\ []<>(lan = "two" \/ Three!HelloArrives(r, q))
               /\ []<>(lan = "two" \/ Three!DeletedUnlinked(r, q))
               /\ []<>(lan = "two" \/ Three!SilenceNoticed(r, q))

MCSpec == MCInit /\ [][MCNext]_MCvars /\ MCFairness

-----------------------------------------------------------------------------
(* Once failures are over the three come to agree on one DR and one        *)
(* Backup, for good.                                                       *)
AgreementOfThree == <>[](lan = "two" \/ Three!Agreed)
=============================================================================
