----------------------------- MODULE DRElection -----------------------------
(***************************************************************************)
(* The two loops of SpfIfc::ifa_elect() (ifcfsm.C), which elect the Backup *)
(* Designated Router and the Designated Router of a LAN.                   *)
(*                                                                         *)
(* Each loop walks the interface's neighbours in the order of its linked   *)
(* list, keeping the best candidate so far.  The walk's result is claimed  *)
(* not to depend on that order: it is the choice of the highest priority,  *)
(* then the highest router ID, among the candidates of the right kind.     *)
(* Module IfcFsm is written with the choice; this module checks that the   *)
(* loops compute it.                                                       *)
(*                                                                         *)
(* A neighbour that is not bidirectional is skipped by both loops and is   *)
(* not in "nbrs".  A router's address stands for its router ID.            *)
(***************************************************************************)
EXTENDS Integers, Sequences, FiniteSets

CONSTANT Router    \* the routers of the LAN: their IDs, positive numbers

ASSUME RouterAssumption == Router \subseteq Nat \ {0} /\ IsFiniteSet(Router)

None == 0    \* UnknownAddr

\* What the election knows of a neighbour or of the router itself.
Candidate == [id : Router, pri : Nat, is_dr : BOOLEAN, is_bdr : BOOLEAN]

Better(a, b) == a.pri > b.pri \/ (a.pri = b.pri /\ a.id >= b.id)

\* The best of a set of candidates, which differ in their IDs.
Best(S) == IF S = {} THEN None ELSE (CHOOSE a \in S : \A b \in S : Better(a, b)).id

-----------------------------------------------------------------------------
(* The choices.                                                            *)

\* Routers that declare themselves DR cannot be Backup.  Those that declare
\* themselves Backup go before those that do not.
BdrChoice(me, nbrs) ==
    LET all == {c \in nbrs \cup {me} : c.pri > 0 /\ ~c.is_dr}
        declared == {c \in all : c.is_bdr}
    IN  Best(IF declared # {} THEN declared ELSE all)

DrChoice_Preempt(me, nbrs) ==
    IF \E c \in nbrs \cup {me} : c.is_dr /\ c.pri > 0
    THEN Best({c \in nbrs \cup {me} : c.pri > 0})
    ELSE None

\* Only routers that declare themselves DR are candidates.
DrChoice(me, nbrs) == Best({c \in nbrs \cup {me} : c.is_dr /\ c.pri > 0})

-----------------------------------------------------------------------------
(* The loops.  A walk's state is the current winner ("declared", "c_pri",  *)
(* "c_id" and if_bdr or if_dr, here "win").                                *)

Beaten(np, acc) == np.pri < acc.c_pri \/ (np.pri = acc.c_pri /\ np.id < acc.c_id)

BdrStart(me) ==
    IF ~me.is_dr /\ me.pri # 0
    THEN [win |-> me.id, declared |-> me.is_bdr, c_pri |-> me.pri, c_id |-> me.id]
    ELSE [win |-> None, declared |-> FALSE, c_pri |-> 0, c_id |-> 0]

BdrSkips_Undeclared(np, acc) ==
    \/ np.pri = 0
    \/ np.is_dr
    \/ Beaten(np, acc)

\* The loop's "continue" statements.
BdrSkips(np, acc) ==
    \/ np.pri = 0
    \/ np.is_dr
    \/ acc.declared /\ (~np.is_bdr \/ Beaten(np, acc))
    \/ ~acc.declared /\ ~np.is_bdr /\ Beaten(np, acc)

BdrStep(acc, np) ==
    IF BdrSkips(np, acc)
    THEN acc
    ELSE [win |-> np.id, declared |-> np.is_bdr, c_pri |-> np.pri, c_id |-> np.id]

BdrLoop(me, list) ==
    LET walk[k \in 0..Len(list)] ==
            IF k = 0 THEN BdrStart(me) ELSE BdrStep(walk[k - 1], list[k])
    IN  walk[Len(list)]

\* c_id is not reset between the loops: "left" is what the first one left.
DrStart(me, left) ==
    IF me.is_dr /\ me.pri # 0
    THEN [win |-> me.id, c_pri |-> me.pri, c_id |-> me.id]
    ELSE [win |-> None, c_pri |-> 0, c_id |-> left]

DrSkips_TieGoesToFirst(np, acc) ==
    np.pri = 0 \/ ~np.is_dr \/ np.pri <= acc.c_pri

DrSkips(np, acc) == np.pri = 0 \/ ~np.is_dr \/ Beaten(np, acc)

DrStep(acc, np) ==
    IF DrSkips(np, acc)
    THEN acc
    ELSE [win |-> np.id, c_pri |-> np.pri, c_id |-> np.id]

DrLoop(me, list) ==
    LET walk[k \in 0..Len(list)] ==
            IF k = 0 THEN DrStart(me, BdrLoop(me, list).c_id)
                     ELSE DrStep(walk[k - 1], list[k])
    IN  walk[Len(list)]
=============================================================================
