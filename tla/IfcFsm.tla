------------------------------- MODULE IfcFsm -------------------------------
(***************************************************************************)
(* The broadcast interfaces of the routers of one LAN: the interface state *)
(* machine with its Designated Router election (ifcfsm.C), the Hellos the  *)
(* routers multicast to each other (spfhello.C) and the part of the        *)
(* neighbour records the election reads.                                   *)
(*                                                                         *)
(* "ifc" holds the SpfIfc of each router.  A handler runs to completion in *)
(* one router, so it is one action; the functions it calls are operators   *)
(* from the interface before the call to the interface after it.           *)
(*                                                                         *)
(* A multicast Hello is one copy for each receiver.  A copy is in flight    *)
(* until it is received, or until the sender's next one overtakes it: then *)
(* it was lost.                                                            *)
(*                                                                         *)
(* Abstracted: a neighbour that is 2-Way or beyond is "2Way" (module       *)
(* NbrFsm has the rest, and the EVAL loop that follows an election), the   *)
(* LSAs originated, looped interfaces (no code raises IFE_LOOP) and helper *)
(* mode (its timer is never started).  The loops of ifa_elect() are those  *)
(* of module DRElection.                                                   *)
(***************************************************************************)
EXTENDS DRElection

CONSTANTS
    Pris,        \* the priorities that can be configured
    InitPri,     \* if_drpri of each router at first
    MaxDowns,    \* how often interfaces go down, in all
    MaxInFlight, \* Hellos in flight at a time
    MaxRepris,   \* how often priorities are reconfigured, in all
    FreedReads,  \* what we_are_helping() may return of a freed neighbour
    Timely       \* only a silent neighbour is declared inactive

ASSUME IfcAssumption ==
    /\ Pris \subseteq Nat
    /\ InitPri \in [Router -> Pris]
    /\ MaxDowns \in Nat /\ MaxRepris \in Nat /\ MaxInFlight \in Nat \ {0}
    /\ FreedReads \subseteq BOOLEAN /\ FreedReads # {}
    /\ Timely \in BOOLEAN

Freed == -1    \* if_dr_p points to a neighbour that has been deleted

VARIABLES
    ifc,    \* the interface of each router
    net,    \* the Hello in flight from one router to another
    downs,  \* interfaces that have gone down
    repris  \* priorities reconfigured

vars == <<ifc, net, downs, repris>>

Others(r) == Router \ {r}
NoNbr == [state |-> "None", pri |-> 0, dr |-> None, bdr |-> None]
NoHello == [pri |-> 0, dr |-> None, bdr |-> None, heard |-> FALSE, sent |-> FALSE]
Multi == {"Other", "Backup", "DR"}

Init ==
    /\ ifc = [r \in Router |->
                 [me |-> r, state |-> "Down", drpri |-> InitPri[r],
                  dr |-> None, bdr |-> None, dr_p |-> None,
                  nbr |-> [q \in Others(r) |-> NoNbr]]]
    /\ net = [r \in Router |-> [q \in Others(r) |-> NoHello]]
    /\ downs = 0 /\ repris = 0

-----------------------------------------------------------------------------
(* ifa_elect().                                                            *)

declared_dr(f, q) == f.nbr[q].dr = q
declared_bdr(f, q) == f.nbr[q].bdr = q

Bidirectional(f) == {q \in DOMAIN f.nbr : f.nbr[q].state = "2Way"}

Self(f) == [id |-> f.me, pri |-> f.drpri, is_dr |-> f.dr = f.me, is_bdr |-> f.bdr = f.me]

Candidates(f) ==
    {[id |-> q, pri |-> f.nbr[q].pri, is_dr |-> declared_dr(f, q),
      is_bdr |-> declared_bdr(f, q)] : q \in Bidirectional(f)}

\* The pointer that goes with an elected address.
NbrPtr(f, a) == IF a \in DOMAIN f.nbr THEN a ELSE None

\* One pass.  "helping" is what we_are_helping() returns when if_dr_p
\* points to freed memory; of a live neighbour it is always false.
ElectPass(f, helping) ==
    LET bdr == BdrChoice(Self(f), Candidates(f))
        elected == DrChoice(Self(f), Candidates(f))
        dr == IF elected = None THEN bdr ELSE elected
    IN  IF f.dr_p = Freed /\ helping
        THEN [f EXCEPT !.bdr = bdr]
        ELSE [f EXCEPT !.bdr = bdr, !.dr = dr, !.dr_p = NbrPtr(f, dr)]

\* A second pass when the first changes the DR or the Backup and that
\* involves this router.  The break in a helping pass ends the loop.
PassRepeats(f, g) ==
    /\ g.dr_p # Freed
    /\ \/ g.dr # f.dr /\ f.me \in {g.dr, f.dr}
       \/ g.bdr # f.bdr /\ f.me \in {g.bdr, f.bdr}

Role(f) == IF f.dr = f.me THEN "DR" ELSE IF f.bdr = f.me THEN "Backup" ELSE "Other"

ifa_elect(f, helping) ==
    LET g == ElectPass(f, helping)
        h == IF PassRepeats(f, g) THEN ElectPass(g, helping) ELSE g
    IN  [h EXCEPT !.state = Role(h)]

NeighborChange_NotInBackup(f, helping) ==
    IF f.state \in {"Other", "DR"} THEN ifa_elect(f, helping) ELSE f

\* run_fsm(IFE_NCHG)
NeighborChange(f, helping) == IF f.state \in Multi THEN ifa_elect(f, helping) ELSE f

\* run_fsm(IFE_BSEEN) and run_fsm(IFE_WTIM)
WaitOver(f, helping) == IF f.state = "Wait" THEN ifa_elect(f, helping) ELSE f

NbrMoves_OnlyUp(f, q, np, helping) ==
    LET g == [f EXCEPT !.nbr[q] = np]
    IN  IF np.state = "2Way" /\ f.nbr[q].state # "2Way"
        THEN NeighborChange(g, helping)
        ELSE g

\* nbr_fsm() moves q to ns; NeighborChange when that crosses 2-Way.
NbrMoves(f, q, np, helping) ==
    LET g == [f EXCEPT !.nbr[q] = np]
    IN  IF (np.state = "2Way") # (f.nbr[q].state = "2Way")
        THEN NeighborChange(g, helping)
        ELSE g

-----------------------------------------------------------------------------
(* Handlers.                                                               *)

\* recv_hello() when the sender does not list this router: NBE_1WAY.
Recv1Way(f, q, h, helping) ==
    NbrMoves(f, q, [state |-> "Init", pri |-> h.pri, dr |-> h.dr, bdr |-> h.bdr], helping)

Recv2Way_IgnoresClaims(f, q, h, helping, garbage) ==
    LET g == NbrMoves(f, q, [state |-> "2Way", pri |-> h.pri, dr |-> h.dr, bdr |-> h.bdr], helping)
    IN  IF g.state = "Wait" /\ h.bdr = q THEN WaitOver(g, helping)
        ELSE IF f.nbr[q].pri # h.pri THEN NeighborChange(g, helping)
        ELSE g

\* recv_hello() when it does.  The constructor leaves n_pri unset: whether
\* a new neighbour's priority differs from it is any "garbage".
Recv2Way(f, q, h, helping, garbage) ==
    LET was == f.nbr[q]
        g == NbrMoves(f, q, [state |-> "2Way", pri |-> h.pri, dr |-> h.dr, bdr |-> h.bdr], helping)
        nbr_change == \/ IF was.state = "None" THEN garbage ELSE was.pri # h.pri
                      \/ declared_dr(f, q) # (h.dr = q)
                      \/ declared_bdr(f, q) # (h.bdr = q)
        backup_seen == \/ h.dr = q /\ h.bdr = None
                       \/ h.bdr = q
    IN  IF g.state = "Wait" /\ backup_seen THEN WaitOver(g, helping)
        ELSE IF nbr_change THEN NeighborChange(g, helping)
        ELSE g

InFlight == {e \in Router \X Router : e[1] # e[2] /\ net[e[1]][e[2]].sent}

SendHello(r, q) ==
    /\ ifc[r].state # "Down"
    /\ Cardinality(InFlight \ {<<r, q>>}) < MaxInFlight
    /\ net' = [net EXCEPT ![r][q] =
                  [pri |-> ifc[r].drpri, dr |-> ifc[r].dr, bdr |-> ifc[r].bdr,
                   heard |-> ifc[r].nbr[q].state \in {"Init", "2Way"}, sent |-> TRUE]]
    /\ UNCHANGED <<ifc, downs, repris>>

RecvHello(r, q) ==
    /\ net[q][r].sent
    /\ net' = [net EXCEPT ![q][r] = NoHello]
    /\ IF ifc[r].state = "Down"
       THEN UNCHANGED ifc
       ELSE \E helping \in FreedReads, garbage \in BOOLEAN :
                ifc' = [ifc EXCEPT ![r] =
                           IF net[q][r].heard
                           THEN Recv2Way(@, q, net[q][r], helping, garbage)
                           ELSE Recv1Way(@, q, net[q][r], helping)]
    /\ UNCHANGED <<downs, repris>>

\* IFE_UP
IfcUp(r) ==
    /\ ifc[r].state = "Down"
    /\ ifc' = [ifc EXCEPT ![r].state = IF ifc[r].drpri = 0 THEN "Other" ELSE "Wait"]
    /\ UNCHANGED <<net, downs, repris>>

WaitTimer(r) ==
    /\ ifc[r].state = "Wait"
    /\ \E helping \in FreedReads : ifc' = [ifc EXCEPT ![r] = WaitOver(@, helping)]
    /\ UNCHANGED <<net, downs, repris>>

\* nba_delete(): the neighbour stays linked until the next DBageTimer tick.
Deleted(np) ==
    IF np.state = "None" THEN np ELSE [np EXCEPT !.state = "Down", !.dr = None, !.bdr = None]

ResetIfc_KeepsDR(f) ==
    [f EXCEPT !.state = "Down", !.bdr = None,
              !.nbr = [q \in DOMAIN f.nbr |-> Deleted(f.nbr[q])]]

\* run_fsm(IFE_DOWN), ifa_reset()
ResetIfc(f) ==
    [f EXCEPT !.state = "Down", !.dr = None, !.bdr = None,
              !.nbr = [q \in DOMAIN f.nbr |-> Deleted(f.nbr[q])]]

IfcDown(r) ==
    /\ downs < MaxDowns
    /\ ifc[r].state # "Down"
    /\ ifc' = [ifc EXCEPT ![r] = ResetIfc(@)]
    /\ downs' = downs + 1
    /\ UNCHANGED <<net, repris>>

Silent(q, r) == ifc[q].state = "Down" /\ ~net[q][r].sent

NbrInactive(r, q) ==
    /\ ifc[r].nbr[q].state \in {"Init", "2Way"}
    /\ Timely => Silent(q, r)
    /\ \E helping \in FreedReads :
           ifc' = [ifc EXCEPT ![r] = NbrMoves(@, q, Deleted(@.nbr[q]), helping)]
    /\ UNCHANGED <<net, downs, repris>>

\* delete_down_neighbors()
FreeDownNbrs(f) ==
    LET down == {q \in DOMAIN f.nbr : f.nbr[q].state = "Down"}
    IN  [f EXCEPT !.nbr = [q \in DOMAIN f.nbr |-> IF q \in down THEN NoNbr ELSE f.nbr[q]],
                  !.dr_p = IF @ \in down THEN Freed ELSE @]

Tick(r) ==
    /\ \E q \in Others(r) : ifc[r].nbr[q].state = "Down"
    /\ ifc' = [ifc EXCEPT ![r] = FreeDownNbrs(@)]
    /\ UNCHANGED <<net, downs, repris>>

\* cfgIfc() with a new priority
SetPri(f, p, helping) == NeighborChange([f EXCEPT !.drpri = p], helping)

CfgPri(r) ==
    /\ repris < MaxRepris
    /\ \E p \in Pris \ {ifc[r].drpri}, helping \in FreedReads :
           ifc' = [ifc EXCEPT ![r] = SetPri(@, p, helping)]
    /\ repris' = repris + 1
    /\ UNCHANGED <<net, downs>>

Next ==
    \E r \in Router :
        \/ \E q \in Others(r) : SendHello(r, q)
        \/ \E q \in Others(r) : RecvHello(r, q)
        \/ \E q \in Others(r) : NbrInactive(r, q)
        \/ IfcUp(r)
        \/ WaitTimer(r)
        \/ IfcDown(r)
        \/ Tick(r)
        \/ CfgPri(r)

Spec == Init /\ [][Next]_vars

(***************************************************************************)
(* No timer runs for ever: the Hello timer sends again and again while the *)
(* interface is up, the wait timer ends Waiting, the inactivity timer ends *)
(* a silent neighbour and the tick unlinks a deleted one.  A Hello in      *)
(* flight is received at last: one of those that overtake it is.  Each     *)
(* conjunct is the fairness of one action, written with the condition that *)
(* its occurrence makes true.  Interfaces come up, fail and are            *)
(* reconfigured at will.                                                   *)
(***************************************************************************)
WaitEnds(r) == ifc[r].state # "Wait"
HelloSent(r, q) == ifc[r].state = "Down" \/ net[r][q].sent
HelloArrives(r, q) == ~net[r][q].sent
DeletedUnlinked(r, q) == ifc[r].nbr[q].state # "Down"
SilenceNoticed(r, q) == ifc[r].nbr[q].state = "None" \/ ~Silent(q, r)

Fairness ==
    \A r \in Router :
        /\ []<>WaitEnds(r)
        /\ \A q \in Others(r) :
               /\ []<>HelloSent(r, q) /\ []<>HelloArrives(r, q)
               /\ []<>DeletedUnlinked(r, q) /\ []<>SilenceNoticed(r, q)

FairSpec == Spec /\ Fairness

-----------------------------------------------------------------------------
NbrRecord ==
    [state : {"None", "Down", "Init", "2Way"}, pri : Pris \cup {0},
     dr : Router \cup {None}, bdr : Router \cup {None}]

IfcRecord(r) ==
    [me : {r}, state : {"Down", "Wait"} \cup Multi, drpri : Pris,
     dr : Router \cup {None}, bdr : Router \cup {None},
     dr_p : Others(r) \cup {None, Freed}, nbr : [Others(r) -> NbrRecord]]

\* The variables' types.
TypeOK ==
    /\ DOMAIN ifc = Router /\ DOMAIN net = Router
    /\ \A r \in Router :
           /\ ifc[r] \in IfcRecord(r)
           /\ net[r] \in [Others(r) -> [pri : Pris \cup {0}, dr : Router \cup {None},
                                        bdr : Router \cup {None}, heard : BOOLEAN,
                                        sent : BOOLEAN]]
    /\ downs \in 0..MaxDowns /\ repris \in 0..MaxRepris

\* The interface state, which adjacency_wanted() and the LSA originators
\* read, says what if_dr and if_bdr, which the Hellos carry, say.
StateMatchesRole ==
    \A r \in Router :
        /\ ifc[r].state \in {"Down", "Wait"} => ifc[r].dr = None /\ ifc[r].bdr = None
        /\ ifc[r].state \in Multi => ifc[r].state = Role(ifc[r])

\* The DR and the Backup a router has elected are routers it has 2-Way
\* communication with: none of them outlives its neighbour record.
LeadersAreNeighbors ==
    \A r \in Router :
        ifc[r].state \in Multi =>
            {ifc[r].dr, ifc[r].bdr} \subseteq Bidirectional(ifc[r]) \cup {r, None}

\* if_dr_p is the record of the neighbour if_dr names, which the router-LSA
\* and the helper code follow.
PointerMatchesDR ==
    \A r \in Router : ifc[r].dr # None => ifc[r].dr_p = IF ifc[r].dr = r THEN None ELSE ifc[r].dr

\* State, addresses and pointer agree on the router's role and on the DR,
\* which is a router it hears.
RolesCoherent == TypeOK /\ StateMatchesRole /\ LeadersAreNeighbors /\ PointerMatchesDR

\* A DR keeps its role against any newcomer: it gives way only when it
\* goes down, becomes ineligible, or hears a better router (by what the
\* priorities are after the step) that is DR too.
DRStays ==
    \A r \in Router :
        ifc[r].state = "DR" /\ ifc'[r].state # "DR" =>
            \/ ifc'[r].state = "Down"
            \/ ifc'[r].drpri = 0
            \/ \E c \in Candidates(ifc'[r]) :
                   c.is_dr /\ Better(c, Self(ifc'[r]))

\* When the Backup loses the DR it is the DR in the same step, unless a
\* neighbour claims one of the roles.
BackupFollows ==
    \A r \in Router :
        /\ ifc[r].state = "Backup"
        /\ ifc[r].dr \in Bidirectional(ifc[r]) \ Bidirectional(ifc'[r])
        /\ ifc'[r].state # "Down"
        /\ ~\E c \in Candidates(ifc'[r]) : c.is_dr \/ c.is_bdr
        => ifc'[r].state = "DR"

\* The role passes on in order: a DR is not deposed by a newcomer, and is
\* followed by the Backup.
Succession == [][DRStays /\ BackupFollows]_vars

Up == {r \in Router : ifc[r].state # "Down"}

\* Every router of the LAN has the same DR, and it knows.
Agreed ==
    /\ \A r \in Up : ifc[r].state \in Multi
    /\ \A r, s \in Up : ifc[r].dr = ifc[s].dr /\ ifc[r].bdr = ifc[s].bdr
    /\ \A r \in Up : ifc[r].dr \in Up \/ \A s \in Up : ifc[s].drpri = 0

\* Once failures and reconfigurations are over the LAN comes to agree on one
\* DR and one Backup, for good, however its routers started.
Agreement == <>[]Agreed
=============================================================================
