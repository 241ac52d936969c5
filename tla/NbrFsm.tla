------------------------------- MODULE NbrFsm -------------------------------
(***************************************************************************)
(* The neighbour state machine of one router (nbrfsm.C), and the throttle  *)
(* that lets only max_dds database exchanges of each kind run at a time.   *)
(*                                                                         *)
(* A neighbour that should become adjacent takes a slot: a local one when  *)
(* this router starts the exchange (nba_eval1), a remote one when the      *)
(* neighbour does (nba_eval2).  When there is none it waits on the pending *)
(* adjacency list, which the one-second DBageTimer serves from its head.   *)
(*                                                                         *)
(* The program is single threaded: an event runs nbr_fsm() to completion,  *)
(* with the calls nested in it.  An action is one dispatch of nbr_fsm; the *)
(* calls it leads to (the DR election after a neighbour crosses 2-Way, and *)
(* the loop that hands an event to every neighbour of an interface) are    *)
(* the actions that "nchg", "loop" and "ticking" force to come next.       *)
(*                                                                         *)
(* An operator whose name ends in _Something is the neighbouring operator   *)
(* with a bug planted in it, used to see that a property notices.          *)
(*                                                                         *)
(* Abstracted: the packets behind the events (module DDExchange), how the  *)
(* election picks the DR and Backup (module IfcFsm), the LSAs originated,  *)
(* the hello timers, PPAdjLimit (module PPAdj), and helper mode, whose     *)
(* timer this code never starts.  cfgIfc() creates only broadcast and      *)
(* point-to-point interfaces, so state Attempt does not occur.             *)
(***************************************************************************)
EXTENDS Integers, Sequences, FiniteSets

CONSTANTS
    Nbr,       \* the possible neighbours
    Ifc,       \* the router's interfaces
    NbrIfc,    \* n_ifp: the interface of each neighbour
    DRIfc,     \* the broadcast interfaces; the others are point-to-point
    NoIfc,     \* not an interface
    max_dds    \* simultaneous database exchanges of each kind

ASSUME ConstAssumption ==
    /\ IsFiniteSet(Nbr)
    /\ NbrIfc \in [Nbr -> Ifc]
    /\ DRIfc \subseteq Ifc
    /\ NoIfc \notin Ifc
    /\ max_dds \in Nat

NBS_DOWN == 1
NBS_INIT == 4
NBS_2WAY == 8
NBS_EXST == 16
NBS_EXCH == 32
NBS_LOAD == 64
NBS_FULL == 128

NbrState == {NBS_DOWN, NBS_INIT, NBS_2WAY, NBS_EXST, NBS_EXCH, NBS_LOAD, NBS_FULL}
DbxState == {NBS_EXST, NBS_EXCH, NBS_LOAD}
FloodState == {NBS_EXCH, NBS_LOAD, NBS_FULL}
AdjForm == DbxState \cup {NBS_FULL}
Bidir == AdjForm \cup {NBS_2WAY}

VARIABLES
    n_state,      \* state of each neighbour
    n_rmt_init,   \* the exchange was started by the neighbour
    n_adj_pend,   \* the neighbour is on the pending adjacency list
    n_progtim,    \* the progress timer is running
    pend,         \* the pending adjacency list, g_adj_head to g_adj_tail
    n_lcl_inits,  \* exchanges started locally
    n_rmt_inits,  \* exchanges started by a neighbour
    n_dbx_nbrs,   \* neighbours in Exchange or Loading
    if_nfull,     \* fully adjacent neighbours of each interface
    if_state,     \* "Down", "Wait", "PP" or "Multi" (DR, Backup, DROther)
    self_dr,      \* the router is the interface's DR or Backup
    drs,          \* the neighbours that are the interface's DR or Backup
    nchg,         \* interface whose IFE_NCHG this event still has to run
    loop,         \* neighbours ifa_allnbrs_event() has still to visit
    ticking       \* DBageTimer is serving the pending list

nbrVars == <<n_state, n_rmt_init, n_adj_pend, n_progtim, pend>>
countVars == <<n_lcl_inits, n_rmt_inits, n_dbx_nbrs, if_nfull>>
ifcVars == <<if_state, self_dr, drs>>
vars == <<nbrVars, countVars, ifcVars, nchg, loop, ticking>>

NbrsOf(i) == {n \in Nbr : NbrIfc[n] = i}
NoLoop == [event |-> "none", left |-> {}]
Idle == nchg = NoIfc /\ loop = NoLoop /\ ~ticking
IfcUpNow(n) == if_state[NbrIfc[n]] # "Down"

\* A 0/1 weight for the counters.
One(b) == IF b THEN 1 ELSE 0

Init ==
    /\ n_state = [n \in Nbr |-> NBS_DOWN]
    /\ n_rmt_init = [n \in Nbr |-> FALSE]
    /\ n_adj_pend = [n \in Nbr |-> FALSE]
    /\ n_progtim = [n \in Nbr |-> FALSE]
    /\ pend = <<>>
    /\ n_lcl_inits = 0 /\ n_rmt_inits = 0 /\ n_dbx_nbrs = 0
    /\ if_nfull = [i \in Ifc |-> 0]
    /\ if_state = [i \in Ifc |-> "Down"]
    /\ self_dr = [i \in Ifc |-> FALSE]
    /\ drs = [i \in Ifc |-> {}]
    /\ nchg = NoIfc /\ loop = NoLoop /\ ticking = FALSE

-----------------------------------------------------------------------------
(* The helpers of nbr_fsm().                                               *)

adjacency_wanted(n) ==
    \/ NbrIfc[n] \notin DRIfc
    \/ self_dr[NbrIfc[n]]
    \/ n \in drs[NbrIfc[n]]

AddPendAdj_AtHead(n) ==
    /\ n_adj_pend' = [n_adj_pend EXCEPT ![n] = TRUE]
    /\ pend' = IF n_adj_pend[n] THEN pend ELSE <<n>> \o pend

\* AddPendAdj() and DelPendAdj() are no-ops on n_adj_pend and its negation.
AddPendAdj(n) ==
    /\ n_adj_pend' = [n_adj_pend EXCEPT ![n] = TRUE]
    /\ pend' = IF n_adj_pend[n] THEN pend ELSE Append(pend, n)

\* The list without the first cell that holds n.
Unlink(s, n) ==
    LET k == CHOOSE j \in DOMAIN s : s[j] = n /\ \A m \in 1..(j - 1) : s[m] # n
    IN  [j \in 1..(Len(s) - 1) |-> IF j < k THEN s[j] ELSE s[j + 1]]

DelPendAdj(n) ==
    /\ n_adj_pend' = [n_adj_pend EXCEPT ![n] = FALSE]
    /\ pend' = IF n_adj_pend[n] THEN Unlink(pend, n) ELSE pend

KeepPend == UNCHANGED <<n_adj_pend, pend>>

ClrThenPend_AtHead(n) ==
    /\ n_adj_pend' = [n_adj_pend EXCEPT ![n] = TRUE]
    /\ pend' = <<n>> \o (IF n_adj_pend[n] THEN Unlink(pend, n) ELSE pend)

\* nba_clr_lists() ends with DelPendAdj() and the timers stopped, so
\* AddPendAdj() after it finds the neighbour off the list.
ClrThenPend(n) ==
    /\ n_adj_pend' = [n_adj_pend EXCEPT ![n] = TRUE]
    /\ pend' = Append(IF n_adj_pend[n] THEN Unlink(pend, n) ELSE pend, n)

(***************************************************************************)
(* What the end of nbr_fsm() sees in a move from state os to state ns.     *)
(***************************************************************************)
BecomesFull(os, ns) == os # ns /\ ns = NBS_FULL
Begins(os, ns) == os <= NBS_EXST /\ ns > NBS_EXST /\ ns # NBS_FULL
LeavesFull_ToDown(os, ns) == os = NBS_FULL /\ ns < NBS_2WAY
LeavesFull(os, ns) == os = NBS_FULL /\ os # ns
FallsBack(os, ns) == os # NBS_FULL /\ os >= NBS_EXST /\ ns <= NBS_2WAY
ExitsDbxchg(os, ns) == BecomesFull(os, ns) \/ FallsBack(os, ns)
AbandonsDbx(os, ns) == FallsBack(os, ns) /\ os > NBS_EXST
Crosses2Way(os, ns) == (ns >= NBS_2WAY) # (os >= NBS_2WAY)

\* exit_dbxchg() forgets who started the exchange.
RmtInitAfter_Kept(was, slot, exits) == was \/ slot = "rmt"
RmtInitAfter(was, slot, exits) == (was \/ slot = "rmt") /\ ~exits

\* The progress timer: started with the exchange, stopped by
\* nba_clr_lists() and on reaching Full.
ProgAfter_RunsInFull(was, prog, full) == (was \/ prog = "start") /\ prog # "stop"
ProgAfter_NeverRuns(was, prog, full) == FALSE
ProgAfter(was, prog, full) == (was \/ prog = "start") /\ prog # "stop" /\ ~full

(***************************************************************************)
(* The end of nbr_fsm(): the bookkeeping of the move of n to state ns.     *)
(* "slot" says which slot the action routine has just taken, and "prog"    *)
(* what it did to the progress timer ("start", "stop" or "keep").  The     *)
(* last statement runs the interface machine with NeighborChange, which    *)
(* elects a DR when the interface takes part in elections and is not       *)
(* waiting.                                                                *)
(***************************************************************************)
Enter(n, ns, slot, prog) ==
    LET os == n_state[n]
        i == NbrIfc[n]
        full == BecomesFull(os, ns)
        exits == ExitsDbxchg(os, ns)
    IN  /\ n_state' = [n_state EXCEPT ![n] = ns]
        /\ n_dbx_nbrs' = n_dbx_nbrs + One(Begins(os, ns)) - One(full)
                                    - One(AbandonsDbx(os, ns))
        /\ if_nfull' = [if_nfull EXCEPT ![i] = @ + One(full) - One(LeavesFull(os, ns))]
        /\ n_lcl_inits' = n_lcl_inits + One(slot = "lcl") - One(exits /\ ~n_rmt_init[n])
        /\ n_rmt_inits' = n_rmt_inits + One(slot = "rmt") - One(exits /\ n_rmt_init[n])
        /\ n_rmt_init' = [n_rmt_init EXCEPT ![n] = RmtInitAfter(@, slot, exits)]
        /\ n_progtim' = [n_progtim EXCEPT ![n] = ProgAfter(@, prog, full)]
        /\ nchg' = IF Crosses2Way(os, ns) /\ if_state[i] = "Multi" THEN i ELSE NoIfc

\* Is there a slot for one more exchange?
LclSlotFree == n_lcl_inits < max_dds
RmtSlotFree == n_rmt_inits < max_dds

\* nba_eval1(): the neighbour is 2-Way, should we start an exchange?
nba_eval1(n) ==
    \/ /\ ~adjacency_wanted(n)
       /\ DelPendAdj(n)
       /\ Enter(n, NBS_2WAY, "none", "keep")
    \/ /\ adjacency_wanted(n)
       /\ LclSlotFree
       /\ DelPendAdj(n)
       /\ Enter(n, NBS_EXST, "lcl", "start")
    \/ /\ adjacency_wanted(n)
       /\ ~LclSlotFree
       /\ AddPendAdj(n)
       /\ Enter(n, NBS_2WAY, "none", "keep")

\* nba_eval2(): the neighbour has sent us a DD packet.
nba_eval2(n) ==
    \/ /\ ~adjacency_wanted(n)
       /\ KeepPend
       /\ Enter(n, NBS_2WAY, "none", "keep")
    \/ /\ adjacency_wanted(n)
       /\ RmtSlotFree
       /\ DelPendAdj(n)
       /\ Enter(n, NBS_EXST, "rmt", "start")
    \/ /\ adjacency_wanted(n)
       /\ ~RmtSlotFree
       /\ AddPendAdj(n)
       /\ Enter(n, NBS_2WAY, "none", "keep")

NothingChanges == UNCHANGED <<nbrVars, countVars>> /\ nchg' = NoIfc

nba_reeval_Never(n) == ~adjacency_wanted(n) /\ NothingChanges

\* nba_reeval(): drop an adjacency that is no longer wanted.
nba_reeval(n) ==
    /\ ~adjacency_wanted(n)
    /\ DelPendAdj(n)
    /\ Enter(n, NBS_2WAY, "none", "stop")

\* nbr_fsm(NBE_EVAL), as every caller of it finds the neighbour.
DoEval(n) ==
    \/ n_state[n] = NBS_2WAY /\ nba_eval1(n)
    \/ n_state[n] \in AdjForm /\ nba_reeval(n)
    \/ /\ n_state[n] \notin Bidir \/ (n_state[n] \in AdjForm /\ adjacency_wanted(n))
       /\ NothingChanges

nba_delete_StillPending(n) ==
    /\ KeepPend
    /\ Enter(n, NBS_DOWN, "none", "stop")

\* nbr_fsm(NBE_DESTROY), NBE_LLDOWN and NBE_INACTIVE all run nba_delete().
nba_delete(n) ==
    /\ DelPendAdj(n)
    /\ Enter(n, NBS_DOWN, "none", "stop")

-----------------------------------------------------------------------------
(* Events of the neighbour machine.                                        *)

\* NBE_HELLO in state Down: the neighbour exists, 1-Way.
HelloReceived(n) ==
    /\ Idle /\ IfcUpNow(n)
    /\ n_state[n] = NBS_DOWN
    /\ KeepPend
    /\ Enter(n, NBS_INIT, "none", "keep")
    /\ UNCHANGED <<ifcVars, loop, ticking>>

\* NBE_2WAY in state Init: the neighbour lists us in its Hello.
TwoWayReceived(n) ==
    /\ Idle
    /\ n_state[n] = NBS_INIT
    /\ nba_eval1(n)
    /\ UNCHANGED <<ifcVars, loop, ticking>>

\* NBE_1WAY: the neighbour no longer hears us.
OneWayReceived(n) ==
    /\ Idle
    /\ n_state[n] \in Bidir
    /\ DelPendAdj(n)
    /\ Enter(n, NBS_INIT, "none", "stop")
    /\ UNCHANGED <<ifcVars, loop, ticking>>

\* NBE_DDRCVD: the neighbour starts the exchange.
DDReceived(n) ==
    /\ Idle
    /\ n_state[n] \in {NBS_INIT, NBS_2WAY}
    /\ nba_eval2(n)
    /\ UNCHANGED <<ifcVars, loop, ticking>>

NegotiationDone(n) ==
    /\ Idle
    /\ n_state[n] = NBS_EXST
    /\ KeepPend
    /\ Enter(n, NBS_EXCH, "none", "keep")
    /\ UNCHANGED <<ifcVars, loop, ticking>>

ExchangeDone_NoNewState(n) ==
    /\ Idle
    /\ n_state[n] = NBS_EXCH
    /\ KeepPend
    /\ Enter(n, 0, "none", "keep")
    /\ UNCHANGED <<ifcVars, loop, ticking>>

\* NBE_EXCHDONE: Full at once when no request is outstanding.
ExchangeDone(n) ==
    /\ Idle
    /\ n_state[n] = NBS_EXCH
    /\ KeepPend
    /\ \E ns \in {NBS_LOAD, NBS_FULL} : Enter(n, ns, "none", "keep")
    /\ UNCHANGED <<ifcVars, loop, ticking>>

LoadingDone(n) ==
    /\ Idle
    /\ n_state[n] = NBS_LOAD
    /\ KeepPend
    /\ Enter(n, NBS_FULL, "none", "keep")
    /\ UNCHANGED <<ifcVars, loop, ticking>>

\* NBE_DDSEQNO or NBE_BADLSREQ: NBA_RESTART_DD.
BadSeqNoOrRequest(n) ==
    /\ Idle
    /\ n_state[n] \in FloodState
    /\ ClrThenPend(n)
    /\ Enter(n, NBS_2WAY, "none", "stop")
    /\ UNCHANGED <<ifcVars, loop, ticking>>

\* The progress timer fires: NBE_ADJTMO.
AdjacencyTimeout(n) ==
    /\ Idle
    /\ n_progtim[n]
    /\ \/ /\ n_state[n] \in AdjForm
          /\ ClrThenPend(n)
          /\ Enter(n, NBS_2WAY, "none", "stop")
       \/ /\ n_state[n] \notin AdjForm
          /\ n_progtim' = [n_progtim EXCEPT ![n] = FALSE]
          /\ nchg' = NoIfc
          /\ UNCHANGED <<n_state, n_rmt_init, n_adj_pend, pend, countVars>>
    /\ UNCHANGED <<ifcVars, loop, ticking>>

\* A Hello that changes the neighbour's priority raises NBE_EVAL.
Reevaluate(n) ==
    /\ Idle /\ IfcUpNow(n)
    /\ DoEval(n)
    /\ UNCHANGED <<ifcVars, loop, ticking>>

\* The inactivity timer, or a destroy directive.
NbrDown(n) ==
    /\ Idle
    /\ n_state[n] # NBS_DOWN
    /\ nba_delete(n)
    /\ UNCHANGED <<ifcVars, loop, ticking>>

-----------------------------------------------------------------------------
(* Events of the interface machine.                                        *)

IfcUp(i) ==
    /\ Idle
    /\ if_state[i] = "Down"
    /\ \E s \in (IF i \in DRIfc THEN {"Wait", "Multi"} ELSE {"PP"}) :
           if_state' = [if_state EXCEPT ![i] = s]
    /\ UNCHANGED <<nbrVars, countVars, self_dr, drs, nchg, loop, ticking>>

\* ifa_reset(): the interface is Down before its neighbours are destroyed.
IfcDown(i) ==
    /\ Idle
    /\ if_state[i] # "Down"
    /\ if_state' = [if_state EXCEPT ![i] = "Down"]
    /\ self_dr' = [self_dr EXCEPT ![i] = FALSE]
    /\ drs' = [drs EXCEPT ![i] = {}]
    /\ loop' = IF NbrsOf(i) = {} THEN NoLoop ELSE [event |-> "DESTROY", left |-> NbrsOf(i)]
    /\ UNCHANGED <<nbrVars, countVars, nchg, ticking>>

\* IFE_NCHG raised by a Hello that changes what its sender declares, and
\* IFE_BSEEN or IFE_WTIM while waiting.
ElectionDue(i) ==
    /\ Idle
    /\ if_state[i] \in {"Wait", "Multi"}
    /\ nchg' = i
    /\ UNCHANGED <<nbrVars, countVars, ifcVars, loop, ticking>>

\* ifa_elect() chooses at most one DR and one Backup among the router and
\* its bidirectional neighbours, and re-evaluates every neighbour when
\* either of them is not what it was.
ifa_elect(i) ==
    /\ nchg = i
    /\ nchg' = NoIfc
    /\ if_state' = [if_state EXCEPT ![i] = "Multi"]
    /\ \E self \in BOOLEAN, D \in SUBSET {n \in NbrsOf(i) : n_state[n] >= NBS_2WAY} :
           /\ Cardinality(D) + One(self) <= 2
           /\ self_dr' = [self_dr EXCEPT ![i] = self]
           /\ drs' = [drs EXCEPT ![i] = D]
           /\ \/ self = self_dr[i] /\ D = drs[i] /\ UNCHANGED loop
              \/ NbrsOf(i) = {} /\ UNCHANGED loop
              \/ NbrsOf(i) # {} /\ loop' = [event |-> "EVAL", left |-> NbrsOf(i)]
    /\ UNCHANGED <<nbrVars, countVars, ticking>>

\* One iteration of ifa_allnbrs_event().
VisitNbr(n) ==
    /\ nchg = NoIfc
    /\ n \in loop.left
    /\ \/ loop.event = "EVAL" /\ DoEval(n)
       \/ loop.event = "DESTROY" /\ nba_delete(n)
    /\ loop' = IF loop.left = {n} THEN NoLoop ELSE [loop EXCEPT !.left = @ \ {n}]
    /\ UNCHANGED <<ifcVars, ticking>>

-----------------------------------------------------------------------------
(* The once-a-second DBageTimer.                                           *)

TickStart ==
    /\ Idle
    /\ ticking' = TRUE
    /\ UNCHANGED <<nbrVars, countVars, ifcVars, nchg, loop>>

CanServe == LclSlotFree /\ pend # <<>>

\* GetNextAdj() pops the head and NBE_EVAL follows.  The neighbour is
\* 2-Way, wanted or not, and there is a slot: it never returns to the list.
TickServe ==
    /\ ticking /\ CanServe
    /\ LET n == Head(pend)
           popped == [n_adj_pend EXCEPT ![n] = FALSE]
       IN  /\ pend' = Tail(pend)
           /\ n_adj_pend' = popped
           /\ \/ /\ n_state[n] = NBS_2WAY /\ adjacency_wanted(n)
                 /\ Enter(n, NBS_EXST, "lcl", "start")
              \/ /\ n_state[n] \in AdjForm /\ ~adjacency_wanted(n)
                 /\ Enter(n, NBS_2WAY, "none", "stop")
              \/ /\ \/ n_state[n] = NBS_2WAY /\ ~adjacency_wanted(n)
                    \/ n_state[n] \in AdjForm /\ adjacency_wanted(n)
                    \/ n_state[n] \notin Bidir
                 /\ nchg' = NoIfc
                 /\ UNCHANGED <<n_state, n_rmt_init, n_progtim, countVars>>
    /\ UNCHANGED <<ifcVars, loop, ticking>>

TickEnd ==
    /\ ticking /\ ~CanServe
    /\ ticking' = FALSE
    /\ UNCHANGED <<nbrVars, countVars, ifcVars, nchg, loop>>

Tick == TickStart \/ TickServe \/ TickEnd

-----------------------------------------------------------------------------
Next ==
    \/ \E n \in Nbr :
           \/ HelloReceived(n)
           \/ TwoWayReceived(n)
           \/ OneWayReceived(n)
           \/ DDReceived(n)
           \/ NegotiationDone(n)
           \/ ExchangeDone(n)
           \/ LoadingDone(n)
           \/ BadSeqNoOrRequest(n)
           \/ AdjacencyTimeout(n)
           \/ Reevaluate(n)
           \/ NbrDown(n)
           \/ VisitNbr(n)
    \/ \E i \in Ifc :
           \/ IfcUp(i)
           \/ IfcDown(i)
           \/ ElectionDue(i)
           \/ ifa_elect(i)
    \/ TickStart
    \/ TickServe
    \/ TickEnd

Spec == Init /\ [][Next]_vars

(***************************************************************************)
(* A call that has begun runs to its end.  A running timer fires whatever  *)
(* else happens: main's loop calls tick() on every pass and the timer heap *)
(* is ordered by expiry, so later timers cannot hold an earlier one back.  *)
(* Nothing is assumed of the neighbours or of the interfaces.              *)
(***************************************************************************)
Fairness ==
    /\ WF_vars(\E i \in Ifc : ifa_elect(i))
    /\ WF_vars(\E n \in Nbr : VisitNbr(n))
    /\ WF_vars(TickServe \/ TickEnd)
    /\ SF_vars(TickStart)
    /\ \A n \in Nbr : SF_vars(AdjacencyTimeout(n))

FairSpec == Spec /\ Fairness

-----------------------------------------------------------------------------
(* The variables' types.                                                   *)
TypeOK ==
    /\ n_state \in [Nbr -> NbrState]
    /\ n_rmt_init \in [Nbr -> BOOLEAN]
    /\ n_adj_pend \in [Nbr -> BOOLEAN]
    /\ n_progtim \in [Nbr -> BOOLEAN]
    /\ pend \in Seq(Nbr)
    /\ n_lcl_inits \in Int /\ n_rmt_inits \in Int /\ n_dbx_nbrs \in Int
    /\ if_nfull \in [Ifc -> Int]
    /\ if_state \in [Ifc -> {"Down", "Wait", "PP", "Multi"}]
    /\ self_dr \in [Ifc -> BOOLEAN]
    /\ drs \in [Ifc -> SUBSET Nbr]
    /\ nchg \in Ifc \cup {NoIfc}
    /\ loop \in [event : {"none", "EVAL", "DESTROY"}, left : SUBSET Nbr]
    /\ ticking \in BOOLEAN

\* The neighbours that hold a slot of each kind.
LclHolders == {n \in Nbr : n_state[n] \in DbxState /\ ~n_rmt_init[n]}
RmtHolders == {n \in Nbr : n_state[n] \in DbxState /\ n_rmt_init[n]}

\* Every slot that is taken has a holder and every holder a slot: whatever
\* ends an exchange (success, a timeout, a bad packet, a lost neighbour, a
\* failed interface) gives back the slot of the kind it took, exactly once.
\* A leak in exit_dbxchg()'s callers would stop adjacencies for good.
SlotsAccounted ==
    /\ n_lcl_inits = Cardinality(LclHolders)
    /\ n_rmt_inits = Cardinality(RmtHolders)
    /\ \A n \in Nbr : n_rmt_init[n] => n_state[n] \in DbxState

\* The throttle: no more than max_dds exchanges of each kind at a time.
SlotLimit == n_lcl_inits <= max_dds /\ n_rmt_inits <= max_dds

\* Together: each slot has one holder, and no more than max_dds are out.
SlotsRespected == SlotsAccounted /\ SlotLimit

\* n_dbx_nbrs counts the neighbours in Exchange or Loading: maxage_free()
\* keeps MaxAge LSAs in the database while it is not zero.
DbxCounted ==
    n_dbx_nbrs = Cardinality({n \in Nbr : n_state[n] \in {NBS_EXCH, NBS_LOAD}})

\* if_nfull counts the interface's Full neighbours: it decides whether the
\* network-LSA exists and how large its buffer is (nl_raw_orig()).
FullCounted ==
    \A i \in Ifc : if_nfull[i] = Cardinality({n \in NbrsOf(i) : n_state[n] = NBS_FULL})

\* nbr_fsm() keeps both counts by comparing the state before an event with
\* the state after it, over every pair of states.
CountsExact == DbxCounted /\ FullCounted

\* The linked list of pending adjacencies names each neighbour once, has
\* exactly those flagged n_adj_pend, and none that left 2-Way: a neighbour
\* freed by delete_down_neighbors() is not on it.
PendingListSound ==
    /\ \A j, k \in DOMAIN pend : pend[j] = pend[k] => j = k
    /\ \A n \in Nbr : n_adj_pend[n] <=> \E k \in DOMAIN pend : pend[k] = n
    /\ \A n \in Nbr : n_adj_pend[n] => n_state[n] = NBS_2WAY

\* A neighbour is in an exchange exactly when its progress timer runs: no
\* slot is held without the timer that will take it back, and the timer
\* never tears down an adjacency that is Full.
ExchangeIsTimed == \A n \in Nbr : n_progtim[n] <=> n_state[n] \in DbxState

\* No neighbour that should be adjacent is forgotten in 2-Way: it waits on
\* the pending list.  The exceptions are those that the EVAL loop of an
\* election that has just changed the DR or Backup has still to visit.
NotStranded ==
    \A n \in Nbr \ loop.left :
        n_state[n] = NBS_2WAY /\ adjacency_wanted(n) => n_adj_pend[n]

\* Nor does an adjacency outlive the election that wanted it: past the
\* loop, only the DR and the Backup have exchanges or adjacencies with a
\* router that is neither.
AdjacencyJustified ==
    \A n \in Nbr \ loop.left : n_state[n] \in AdjForm => adjacency_wanted(n)

\* The neighbours have settled as the last election wants them: those that
\* should be adjacent are or wait, and the others are not.
AsElected == NotStranded /\ AdjacencyJustified

Before(s, a, b) == \E j, k \in DOMAIN s : j < k /\ s[j] = a /\ s[k] = b

\* The pending list is a queue: a neighbour that stays on it stays ahead of
\* those that were behind it and of those that join, whatever the call does.
PendingIsFIFO ==
    [][\A a, b \in Nbr :
           /\ n_adj_pend[a] /\ n_adj_pend'[a] /\ n_adj_pend'[b]
           /\ a # b
           /\ n_adj_pend[b] => Before(pend, a, b)
           => Before(pend', a, b)]_vars

\* No exchange holds its slot for ever.
SlotReleased == \A n \in Nbr : n_state[n] \in DbxState ~> n_state[n] \notin DbxState

\* The events a neighbour or an interface may raise at will.
Churn ==
    \/ \E n \in Nbr : TwoWayReceived(n) \/ OneWayReceived(n) \/ Reevaluate(n) \/ NbrDown(n)
    \/ \E i \in Ifc : IfcDown(i) \/ ElectionDue(i)

\* Once Hellos and interfaces are quiet, the pending list is served: every
\* neighbour on it gets its turn, even when all the others keep timing out.
PendingServed ==
    <>[][~Churn]_vars => \A n \in Nbr : n_adj_pend[n] ~> ~n_adj_pend[n]
=============================================================================
