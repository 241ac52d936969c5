---------------------------- MODULE MCDRElection ----------------------------
(* Every input of the election's loops with a few routers and priorities.  *)
EXTENDS DRElection

CONSTANTS
    OwnId,     \* the router that elects
    MaxPri     \* bound: priorities

ASSUME ElectAssumption == OwnId \in Router /\ MaxPri \in Nat

VARIABLES
    own,       \* what it knows of itself
    nbrlist    \* and of its neighbours, in the order of its list

electVars == <<own, nbrlist>>

Nbrs == Router \ {OwnId}

ElectInit ==
    /\ own \in [id : {OwnId}, pri : 0..MaxPri, is_dr : BOOLEAN, is_bdr : BOOLEAN]
    /\ nbrlist \in {s \in [1..Cardinality(Nbrs) ->
                             [id : Nbrs, pri : 0..MaxPri, is_dr : BOOLEAN, is_bdr : BOOLEAN]] :
                      \A j, k \in DOMAIN s : j < k => s[j].id < s[k].id}

\* Two neighbours that are next to each other in the list change places.
SwapNbrs ==
    /\ \E k \in 1..(Len(nbrlist) - 1) :
           nbrlist' = [nbrlist EXCEPT ![k] = nbrlist[k + 1], ![k + 1] = nbrlist[k]]
    /\ UNCHANGED own

ElectSpec == ElectInit /\ [][SwapNbrs]_electVars

NbrSet == {nbrlist[k] : k \in DOMAIN nbrlist}

(* The loops of ifa_elect() compute the Backup and the DR that the choice  *)
(* by priority and ID defines, whatever the order in which neighbours were *)
(* linked into the interface's list: two routers that hold the same        *)
(* neighbour data elect the same two.                                      *)
LoopsElectChoice ==
    /\ BdrLoop(own, nbrlist).win = BdrChoice(own, NbrSet)
    /\ DrLoop(own, nbrlist).win = DrChoice(own, NbrSet)
=============================================================================
