------------------------------- MODULE PPAdj -------------------------------
(***************************************************************************)
(* The parallel point-to-point links of a router to one neighbour, and the *)
(* aggregate PPAdjAggr by which spfarea.C limits the adjacencies that are  *)
(* formed over them and still forwards over all of them.                   *)
(*                                                                         *)
(* "pp" holds what the handlers work on.  An event of one link runs        *)
(* nbr_fsm() to completion, with adj_change() in it, which looks at the    *)
(* other links too; so operators map the record before a call to the       *)
(* record after it.                                                        *)
(*                                                                         *)
(* Abstracted: Exchange and Loading are "Exst", as adj_change() does not   *)
(* tell them apart; the order of the pending list (module NbrFsm); other   *)
(* neighbours only take and give back local slots; a router-LSA is rebuilt *)
(* when rl_orig() is called (module LsaLife defers it); and of its         *)
(* contents there are only the links to this neighbour.                    *)
(*                                                                         *)
(* Init, Next and the like have names of their own here, so that this      *)
(* module can be extended along with others.                               *)
(***************************************************************************)
EXTENDS Integers, FiniteSets, FiniteSetsExt

CONSTANTS
  Links,       \* the number of links, counted in the order of a_ifcs
  Costs,       \* if_cost
  PPAdjLimit,
  max_dds      \* simultaneous database exchanges of each kind

Link == 1..Links
NoLink == 0

ASSUME PPAdjAssumption ==
  /\ Links \in Nat /\ PPAdjLimit \in Nat /\ max_dds \in Nat
  /\ Costs \subseteq Nat \ {0}

VARIABLES
  pp,          \* the links, the aggregate and the router-LSA
  decides      \* my_id() is the higher of the two router IDs

linkVars == <<pp, decides>>

Rank == [Down |-> 1, Init |-> 4, TwoWay |-> 8, Exst |-> 16, Full |-> 128]

LinksInit ==
  /\ decides \in BOOLEAN
  /\ \E c \in [Link -> Costs] :
       pp = [st |-> [l \in Link |-> "Down"], cost |-> c,
             pend |-> {}, rmt_init |-> {}, lcl |-> 0, rmt |-> 0, others |-> 0,
             aggr |-> [n_adjs |-> 0, cost |-> 0, first |-> NoLink, mpath |-> {}],
             lsa |-> {}, repriced |-> FALSE]

-----------------------------------------------------------------------------
AtLeast(r, s) == {l \in Link : Rank[r.st[l]] >= Rank[s]}

\* PPIfc::rl_insert(): the links the router-LSA has, with their costs.
LinksOf(r) ==
  LET full == AtLeast(r, "Full")
  IN  IF r.aggr.first = NoLink THEN {<<l, r.cost[l]>> : l \in full}
      ELSE {<<l, r.aggr.cost>> : l \in full \cap {r.aggr.first}}

rl_orig(r) == [r EXCEPT !.lsa = LinksOf(r)]

\* What the scan in adj_change() finds: the best cost of a bidirectional
\* link, the first full link, and the links of the best cost.
Scan(r, n) ==
  LET bidir == AtLeast(r, "TwoWay")
      full  == AtLeast(r, "Full")
      best  == IF bidir = {} THEN 0 ELSE Min({r.cost[l] : l \in bidir})
  IN  [n_adjs |-> n, cost |-> best, first |-> IF full = {} THEN NoLink ELSE Min(full),
       mpath |-> {l \in bidir : r.cost[l] = best}]

Crosses(os, ns, s) == (Rank[os] >= Rank[s]) # (Rank[ns] >= Rank[s])

NeedsScan_OnlyUp(os, ns) == (Crosses(os, ns, "TwoWay") /\ ns # "Down") \/ ns = "Full"

\* The moves between states that make adj_change() look at all the links.
NeedsScan(os, ns) == Crosses(os, ns, "TwoWay") \/ "Full" \in {os, ns}

adj_change(r, os, ns) ==
  LET n    == r.aggr.n_adjs + (IF ~Crosses(os, ns, "Exst") THEN 0
                               ELSE IF Rank[ns] >= Rank["Exst"] THEN 1 ELSE -1)
      more == decides /\ n < PPAdjLimit
      a    == Scan(r, n)
      two  == AtLeast(r, "TwoWay") \ AtLeast(r, "Exst")
      scanned == [r EXCEPT !.aggr = a, !.repriced = FALSE,
                           !.pend = IF more THEN @ \cup two ELSE @ \ two]
  IN  IF os = ns \/ PPAdjLimit = 0 THEN r
      ELSE IF ~NeedsScan(os, ns) /\ ~more THEN [r EXCEPT !.aggr.n_adjs = n]
      ELSE IF a.cost # r.aggr.cost \/ a.first # r.aggr.first THEN rl_orig(scanned)
      ELSE scanned

exit_dbxchg(r, l) ==
  IF l \in r.rmt_init
  THEN [r EXCEPT !.rmt = @ - 1, !.rmt_init = @ \ {l}]
  ELSE [r EXCEPT !.lcl = @ - 1]

\* The end of nbr_fsm(), after an action routine has chosen the state ns.
Enter(r, l, ns) ==
  LET os == r.st[l]
      c  == adj_change([r EXCEPT !.st[l] = ns], os, ns)
  IN  IF os = ns THEN c
      ELSE IF ns = "Full" THEN rl_orig(exit_dbxchg(c, l))
      ELSE IF os = "Full" THEN rl_orig(c)
      ELSE IF os = "Exst" THEN exit_dbxchg(c, l)
      ELSE c

AddPendAdj(r, l) == [r EXCEPT !.pend = @ \cup {l}]
DelPendAdj(r, l) == [r EXCEPT !.pend = @ \ {l}]

\* The first Hello on a link has made the aggregate, so it is found.
more_adjacencies_needed(r) ==
  PPAdjLimit = 0 \/ (decides /\ r.aggr.n_adjs < PPAdjLimit)

nba_eval1(r, l) ==
  IF ~more_adjacencies_needed(r) THEN Enter(DelPendAdj(r, l), l, "TwoWay")
  ELSE IF r.lcl < max_dds
       THEN Enter([DelPendAdj(r, l) EXCEPT !.lcl = @ + 1], l, "Exst")
       ELSE Enter(AddPendAdj(r, l), l, "TwoWay")

\* The neighbour has begun the exchange: the limit is not asked.
nba_eval2(r, l) ==
  IF r.rmt < max_dds
  THEN Enter([DelPendAdj(r, l) EXCEPT !.rmt = @ + 1, !.rmt_init = @ \cup {l}], l, "Exst")
  ELSE Enter(AddPendAdj(r, l), l, "TwoWay")

-----------------------------------------------------------------------------
HelloReceived(l) == pp.st[l] = "Down" /\ pp' = Enter(pp, l, "Init")

TwoWayReceived(l) == pp.st[l] = "Init" /\ pp' = nba_eval1(pp, l)

OneWayReceived(l) == l \in AtLeast(pp, "TwoWay") /\ pp' = Enter(DelPendAdj(pp, l), l, "Init")

DDReceived(l) == pp.st[l] \in {"Init", "TwoWay"} /\ pp' = nba_eval2(pp, l)

LoadingDone(l) == pp.st[l] = "Exst" /\ pp' = Enter(pp, l, "Full")

\* The progress timer fires, or a packet of the exchange is wrong.
Restarts(l) == l \in AtLeast(pp, "Exst") /\ pp' = Enter(AddPendAdj(pp, l), l, "TwoWay")

\* The neighbour is silent or the interface goes down.
Deleted(l) == pp.st[l] # "Down" /\ pp' = Enter(DelPendAdj(pp, l), l, "Down")

\* DBageTimer hands a pending neighbour the event NBE_EVAL.
Tick(l) ==
  /\ l \in pp.pend /\ pp.lcl < max_dds
  /\ pp' = IF pp.st[l] = "TwoWay" THEN nba_eval1(DelPendAdj(pp, l), l)
           ELSE DelPendAdj(pp, l)

\* An exchange with a neighbour elsewhere begins or ends.
OtherBegins == pp.lcl < max_dds /\ pp' = [pp EXCEPT !.others = @ + 1, !.lcl = @ + 1]
OtherEnds == pp.others > 0 /\ pp' = [pp EXCEPT !.others = @ - 1, !.lcl = @ - 1]

\* cfgIfc() with a new cost, which the aggregate does not learn of.
CfgCost(l) ==
  \E c \in Costs \ {pp.cost[l]} :
    pp' = rl_orig([pp EXCEPT !.cost[l] = c, !.repriced = TRUE])

LinksNext ==
  /\ \/ \E l \in Link :
          \/ HelloReceived(l) \/ TwoWayReceived(l) \/ OneWayReceived(l)
          \/ DDReceived(l) \/ LoadingDone(l) \/ Restarts(l)
          \/ Deleted(l) \/ Tick(l) \/ CfgCost(l)
     \/ OtherBegins
     \/ OtherEnds
  /\ UNCHANGED decides

LinksSpec == LinksInit /\ [][LinksNext]_linkVars

-----------------------------------------------------------------------------
(* The aggregate, which only some moves refresh, is what its declaration   *)
(* says (spfarea.h:176): n_adjs counts the links in ExStart or beyond, and *)
(* first_full is one of the full ones; so are the best cost and the links  *)
(* of that cost, and the router-LSA has one link of that cost exactly when *)
(* there is a full one, unless a cost was reconfigured after the last      *)
(* scan.                                                                   *)
AggregateExact ==
  LET n == Cardinality(AtLeast(pp, "Exst"))
      s == Scan(pp, n)
  IN  PPAdjLimit # 0 =>
        /\ pp.aggr.n_adjs = n
        /\ pp.aggr.first = s.first
        /\ ~pp.repriced => pp.aggr = s
        /\ pp.lsa = IF s.first = NoLink THEN {} ELSE {<<s.first, pp.aggr.cost>>}

(* The end that decides leaves no link behind: while more adjacencies are  *)
(* wanted, every link that is 2-Way waits on the pending list.             *)
NoneStranded ==
  decides /\ Cardinality(AtLeast(pp, "Exst")) < PPAdjLimit =>
    AtLeast(pp, "TwoWay") \ AtLeast(pp, "Exst") \subseteq pp.pend

(* The links' own exchanges and those elsewhere make up the counters.      *)
SlotsExact ==
  LET busy == AtLeast(pp, "Exst") \ AtLeast(pp, "Full")
  IN  /\ pp.rmt_init \subseteq busy /\ pp.rmt = Cardinality(pp.rmt_init)
      /\ pp.lcl = pp.others + Cardinality(busy \ pp.rmt_init)

LinksAggregated == AggregateExact /\ NoneStranded /\ SlotsExact
=============================================================================
