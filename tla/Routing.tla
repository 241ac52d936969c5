------------------------------ MODULE Routing ------------------------------
(***************************************************************************)
(* The routing calculation of one area (spfcalc.C, rte.C, rtrlsa.C,         *)
(* netlsa.C, summlsa.C), from the LSAs of the database to the entries it    *)
(* puts into the Linux kernel (linux/system.C, linux/ospfd_linux.C).        *)
(*                                                                          *)
(* Parsed router- and network-LSAs keep pointers to each other; every       *)
(* change of one of them schedules the full calculation, which the one      *)
(* second tick runs: Dijkstra, then the scan of the routing table that      *)
(* adds the inter-area routes and tells the kernel what changed.  A changed *)
(* summary-LSA is handled at once when no full calculation waits.  Beside   *)
(* that, physical interfaces come and go, an interface may be deleted by a  *)
(* new configuration, this router's own LSA may lag 5 seconds behind its    *)
(* interfaces, and the kernel drops routes by itself.                       *)
(*                                                                          *)
(* The area is the backbone and the only one, so that this router           *)
(* originates no summary-LSA and never rejects one of its own; host mode,   *)
(* ranges and transit areas are left out.                                   *)
(***************************************************************************)
EXTENDS Integers, SequencesExt

CONSTANTS
  Self, Routers, Nets,  \* this router, all routers, transit networks
  NetDest, NetHosts,    \* a network's prefix; the addresses inside it
  Bodies,               \* the links another node's LSA may carry
  Ifcs, Ifc,            \* interfaces by address; their configuration
  States,               \* the states each interface may take
  Start,                \* adjacencies formed before the first tick
  Dests, Abrs,          \* prefixes; routers that originate summaries
  Adverts,              \* the costs a summary of a prefix may advertise
  MaxPath,              \* MAXPATH
  Lags,                 \* may the router-LSA outlive a deleted interface?
  Remnants,             \* prefixes an earlier run may have left in the kernel
  Fragile,              \* prefixes whose kernel entry may vanish
  MaxPending,           \* bound on the changes between two ticks
  LSInfinity, NULL

VARIABLES
  ifc,         \* interface -> "down", "alone", "full" or "gone"
  deferring,   \* reorigination of the router-LSA waits for MinLSInterval
  ifmap,       \* interface of each link of the router-LSA, NULL if deleted
  lsdb,        \* node -> links of its parsed LSA, or NULL
  summs,       \* prefix -> router -> cost of its summary-LSA, or NULL
  rte, abr,    \* routing table entries of prefixes and of routers
  full_sched,  \* full calculation scheduled
  kernel,      \* prefix -> forwarding entry in the kernel, or NULL
  krtdeletes,  \* deletions by the kernel waiting to be undone
  notices,     \* deletions the kernel reports but we have not read yet
  need_remnants, replies, \* dump of the kernel's routes: wanted, on its way
  pending      \* changes since the last tick

routes == <<rte, abr>>
krt == <<kernel, krtdeletes>>
dump == <<need_remnants, replies>>
vars == <<ifc, deferring, ifmap, lsdb, summs, rte, abr, full_sched, kernel,
          krtdeletes, notices, need_remnants, replies, pending>>

Nodes == Routers \cup Nets

(***************************************************************************)
(* Links.  A transit link points to a router or to a network and holds the  *)
(* neighbor's LSA (nbr) when that LSA points back; l_data is the            *)
(* advertiser's own address on the link.                                    *)
(***************************************************************************)
LT_TR(id, cost, data) ==
  [l_ltype |-> "transit", l_id |-> id, l_fwdcst |-> cost, l_data |-> data,
   tl_nbr |-> NULL]
LT_STUB(d, cost) ==
  [l_ltype |-> "stub", l_id |-> d, l_fwdcst |-> cost, l_data |-> 0,
   tl_nbr |-> NULL]

(* netLSA::parse(): the attached routers, at no cost. *)
NetLinks(ids) == [k \in DOMAIN ids |-> LT_TR(ids[k], 0, 0)]

LinksOf(db, n) == IF db[n] = NULL THEN <<>> ELSE db[n]
Transits(db, n) ==
  {k \in DOMAIN LinksOf(db, n) : db[n][k].l_ltype = "transit"}
PointsTo(l, n) == l.l_ltype = "transit" /\ l.l_id = n
SetBack(links, n, p) ==
  [k \in DOMAIN links |->
     IF PointsTo(links[k], n) THEN [links[k] EXCEPT !.tl_nbr = p]
                              ELSE links[k]]

(* TNode::unlink(): every neighbor forgets n. *)
unlink(db, n) ==
  LET linked == {db[n][k].tl_nbr : k \in Transits(db, n)}
  IN  [m \in Nodes |->
         IF m \in linked THEN SetBack(db[m], n, NULL) ELSE db[m]]

UnParseLSA(db, n) == [unlink(db, n) EXCEPT ![n] = NULL]

(* TNode::tlp_link(): does the LSA at the other end point back to n? *)
Mutual(db, l, n) ==
  /\ l.l_ltype = "transit"
  /\ \E k \in DOMAIN LinksOf(db, l.l_id) : PointsTo(db[l.l_id][k], n)

(* rtrLSA::parse() and netLSA::parse(), both with tlp_link(). *)
ParseLSA(db, n, body) ==
  LET linked == {body[k].l_id : k \in {j \in DOMAIN body :
                                         Mutual(db, body[j], n)}}
  IN  [m \in Nodes |->
         CASE m = n -> [k \in DOMAIN body |->
                          IF Mutual(db, body[k], n)
                          THEN [body[k] EXCEPT !.tl_nbr = body[k].l_id]
                          ELSE body[k]]
           [] m \in linked -> SetBack(db[m], n, n)
           [] OTHER -> db[m]]

(* The contents of an LSA, as compared by cmp_contents(). *)
Contents(links) ==
  IF links = NULL THEN NULL
  ELSE [k \in DOMAIN links |-> [links[k] EXCEPT !.tl_nbr = NULL]]

Install(db, n, body) ==
  IF body = NULL THEN UnParseLSA(db, n)
  ELSE ParseLSA(UnParseLSA(db, n), n, body)

(***************************************************************************)
(* This router's own LSA: SpfArea::rl_orig() appends what each interface    *)
(* advertises (DRIfc::rl_insert() and PPIfc::rl_insert()) and records the   *)
(* interface of each link in ifmap.                                         *)
(***************************************************************************)
rl_insert(i, state) ==
  LET cf == Ifc[i]
      full == LT_TR(cf.nbr, cf.cost, cf.addr)
      stub == IF cf.subnet = NULL THEN <<>>
              ELSE <<LT_STUB(cf.subnet, cf.cost)>>
  IN  CASE state \in {"down", "gone"} -> <<>>
        [] state = "full" -> IF cf.kind = "dr" THEN <<full>>
                             ELSE <<full>> \o stub
        [] OTHER -> stub

IfcList == SetToSortSeq(Ifcs, <)
Body(states) ==
  FoldLeft(LAMBDA acc, i : acc \o rl_insert(i, states[i]), <<>>, IfcList)
IfMap(states) ==
  FoldLeft(LAMBDA acc, i : acc \o [k \in DOMAIN rl_insert(i, states[i]) |-> i],
           <<>>, IfcList)

(* Unchanged contents are not originated again, but do schedule the        *)
(* calculation; changed ones do so in OSPF::rtsched().                      *)
NewOwn(states) ==
  IF Contents(lsdb[Self]) = Body(states) THEN lsdb
  ELSE Install(lsdb, Self, Body(states))

rl_orig(states) ==
  /\ ifmap' = IfMap(states)
  /\ lsdb' = NewOwn(states)
  /\ deferring' = FALSE

(* OSPF::ospf_get_seqno() refuses within MinLSInterval of the last time. *)
Deferred ==
  /\ deferring' = TRUE
  /\ UNCHANGED <<lsdb>>

(* OSPF::delete_from_ifmap() *)
delete_from_ifmap(map, i) ==
  [k \in DOMAIN map |-> IF map[k] = i THEN NULL ELSE map[k]]

(***************************************************************************)
(* Sets of next hops <<interface, gateway>>, gateway 0 for a destination on *)
(* the interface's own network.  MPath keeps them sorted.                   *)
(***************************************************************************)
Before(g, h) == g[1] < h[1] \/ (g[1] = h[1] /\ g[2] < h[2])
FirstPaths(hops) ==
  {h \in hops : Cardinality({g \in hops : Before(g, h)}) < MaxPath}

merge(mp1, mp2) ==
  CASE mp1 = {} -> mp2
    [] mp2 = {} -> mp1
    [] Cardinality(mp1) = MaxPath -> mp1
    [] Cardinality(mp2) = MaxPath -> mp2
    [] OTHER -> FirstPaths(mp1 \cup mp2)

(* MPath::addgw(): hops that end on the network of gw now pass through it   *)
(* (hops that pass through another address of it already, of a neighbor     *)
(* attached twice, do not occur here).                                      *)
addgw(mp, gw) ==
  {IF gw \in Ifc[h[1]].hosts /\ h[2] = 0 THEN <<h[1], gw>> ELSE h : h \in mp}

prune_phyint(mp, p) == {h \in mp : h[1] # p}

(* TNode::ospf_find_gw(): W's own address on a link back to V, on the       *)
(* given network if there is one, the last link's otherwise.                *)
ospf_find_gw(db, W, V, hosts) ==
  LET back == {k \in Transits(db, W) : db[W][k].tl_nbr = V}
      on == {k \in back : db[W][k].l_data \in hosts}
  IN  CASE back = {} -> 0
        [] on # {} -> db[W][Min(on)].l_data
        [] OTHER -> db[W][Max(back)].l_data

(***************************************************************************)
(* Routing table entries.  seen says dijk_run equals the parity of          *)
(* n_dijkstras; it and the saved values are read only within a calculation  *)
(* and are cleared at its end.                                              *)
(***************************************************************************)
NoRoute ==
  [r_type |-> "none", cost |-> LSInfinity, mp |-> {}, seen |-> FALSE,
   changed |-> FALSE, r_ospf |-> FALSE, old_mpath |-> {}, old_cost |-> 0]

intra_AS(r) == r.r_type \in {"spf", "ia"}

declare_unreachable(r) ==
  [r EXCEPT !.r_type = "none", !.r_ospf = FALSE, !.cost = LSInfinity,
            !.mp = {}]

save_state(r) ==
  IF intra_AS(r) /\ r.r_ospf
  THEN [r EXCEPT !.old_mpath = r.mp, !.old_cost = r.cost] ELSE r

state_changed(r) ==
  r.r_ospf /\ (r.mp # r.old_mpath \/ r.cost # r.old_cost)

(* RTE::new_intra(); root says that V is this router itself, which has no   *)
(* next hop of its own.                                                     *)
new_intra(r, total, nh, root) ==
  LET first == r.r_type # "spf" \/ ~r.seen
      r1 == CASE r.r_type # "spf" -> [r EXCEPT !.changed = TRUE]
              [] ~r.seen -> save_state(r)
              [] OTHER -> r
      r2 == [r1 EXCEPT !.seen = TRUE, !.r_type = "spf", !.cost = total,
                       !.r_ospf = TRUE]
  IN  CASE ~first /\ total > r.cost -> r
        [] root -> r2
        [] ~first /\ total = r.cost -> [r2 EXCEPT !.mp = merge(nh, r.mp)]
        [] OTHER -> [r2 EXCEPT !.mp = nh]

(***************************************************************************)
(* Dijkstra.  D holds the candidates, the tree, and for every node its cost *)
(* and next hops and whether it is direct, that is on a shortest path of    *)
(* one link from this router.                                               *)
(***************************************************************************)
Pick_AnyOrder(D) ==
  CHOOSE v \in D.cand : \A w \in D.cand : D.cost0[v] <= D.cost0[w]
(* The cheapest candidate, a network before a router of the same cost. *)
Pick(D) ==
  CHOOSE v \in D.cand : \A w \in D.cand :
    \/ D.cost0[v] < D.cost0[w]
    \/ /\ D.cost0[v] = D.cost0[w]
       /\ v \in Nets \/ w \notin Nets

(* TNode::add_next_hop() for W reached over link k of V. *)
NextHop(D, V, k, W) ==
  CASE V = Self ->
         LET i == D.map[k]
         IN  IF i = NULL THEN {}
             ELSE {<<i, IF W \in Nets THEN 0
                        ELSE ospf_find_gw(D.db, W, V, Ifc[i].hosts)>>}
    [] V # Self /\ D.direct[V] /\ V \in Nets ->
         addgw(D.mpath[V], ospf_find_gw(D.db, W, V, NetHosts[V]))
    [] OTHER -> D.mpath[V]

(* A transit link whose other end points back and is not on the tree yet. *)
Relax(D, V, k) ==
  LET W == D.db[V][k].tl_nbr
      new_cost == D.cost0[V] + D.db[V][k].l_fwdcst
      better == W \notin D.cand \/ new_cost < D.cost0[W]
      equal == W \in D.cand /\ new_cost = D.cost0[W]
      nh == NextHop(D, V, k, W)
  IN  IF W = NULL \/ W \in D.tree THEN D
      ELSE CASE better -> [D EXCEPT !.cand = @ \cup {W}, !.cost0[W] = new_cost,
                                    !.direct[W] = (V = Self), !.mpath[W] = nh]
             [] equal -> [D EXCEPT !.direct[W] = @ \/ V = Self,
                                   !.mpath[W] = merge(@, nh)]
             [] OTHER -> D

Stub(D, V, k) ==
  LET l == D.db[V][k]
      nh == IF V # Self THEN D.mpath[V]
            ELSE IF D.map[k] = NULL THEN {} ELSE {<<D.map[k], 0>>}
  IN  [D EXCEPT !.rte[l.l_id] =
                  new_intra(@, D.cost0[V] + l.l_fwdcst, nh, FALSE)]

ScanLinks(D, V) ==
  FoldLeftDomain(LAMBDA acc, k : IF D.db[V][k].l_ltype = "stub"
                                 THEN Stub(acc, V, k) ELSE Relax(acc, V, k),
                 D, D.db[V])

OntoTree(D, V) ==
  LET T == [D EXCEPT !.cand = @ \ {V}, !.tree = @ \cup {V}]
  IN  IF V \in Nets
      THEN [T EXCEPT !.rte[NetDest[V]] =
                       new_intra(@, D.cost0[V], D.mpath[V], FALSE)]
      ELSE [T EXCEPT !.abr[V] =
                       new_intra(@, D.cost0[V], D.mpath[V], V = Self)]

RECURSIVE Spf(_)
Spf(D) ==
  IF D.cand = {} THEN D
  ELSE LET V == Pick(D) IN Spf(ScanLinks(OntoTree(D, V), V))

(* OSPF::dijk_init(): our own router-LSA is the only candidate.  The first  *)
(* step of OSPF::dijkstra() flips the parity every entry is compared with.  *)
Flip(table) == [d \in DOMAIN table |-> [table[d] EXCEPT !.seen = ~@]]

dijkstra(map, db) ==
  Spf([map |-> map, db |-> db, tree |-> {},
       cand |-> IF db[Self] = NULL THEN {} ELSE {Self},
       cost0 |-> [n \in Nodes |-> 0], mpath |-> [n \in Nodes |-> {}],
       direct |-> [n \in Nodes |-> FALSE],
       rte |-> Flip(rte), abr |-> Flip(abr)])

Unseen(r) == r.r_type = "spf" /\ ~r.seen

(* OSPF::update_brs() *)
update_brs(table) ==
  [a \in Routers |->
     LET r == table[a]
         dead == IF Unseen(r) THEN declare_unreachable(r) ELSE r
     IN  [dead EXCEPT !.changed = FALSE, !.old_mpath = {}, !.old_cost = 0,
                      !.seen = dead.r_type = "spf"]]

(* INrte::run_inter_area(): the cheapest of the summaries whose advertiser  *)
(* is reachable.                                                            *)
run_inter_area(r, sums, brs) ==
  LET usable == {a \in Abrs : /\ sums[a] \notin {NULL, LSInfinity}
                              /\ brs[a].r_type = "spf"}
      total(a) == sums[a] + brs[a].cost
      best == {a \in usable : \A b \in usable : total(a) <= total(b)}
      s == IF r.r_type = "ia" THEN save_state(r) ELSE r
  IN  CASE r.r_type = "spf" -> r
        [] r.r_type # "spf" /\ usable = {} ->
             IF r.r_type = "ia"
             THEN [declare_unreachable(s) EXCEPT !.changed = TRUE]
             ELSE [s EXCEPT !.cost = LSInfinity]
        [] OTHER ->
             [s EXCEPT !.r_type = "ia", !.r_ospf = TRUE,
                       !.cost = total(CHOOSE a \in best : TRUE),
                       !.mp = FoldSet(LAMBDA a, acc : merge(acc, brs[a].mp),
                                      {}, best),
                       !.changed = @ \/ r.r_type # "ia"]

Unresolved(r) ==
  IF intra_AS(r) /\ r.mp = {} THEN declare_unreachable(r) ELSE r

(* OSPF::rt_scan(), one entry: lost routes, summaries, unresolved hops. *)
Scanned(r, sums, brs) ==
  LET old == IF Unseen(r)
             THEN [declare_unreachable(r) EXCEPT !.changed = TRUE] ELSE r
      inter == IF old.r_type = "ia" \/ \E a \in Abrs : sums[a] # NULL
               THEN run_inter_area(old, sums, brs) ELSE old
  IN  Unresolved(inter)

Differs_Unflagged(r) == state_changed(r)
Differs(r) == r.changed \/ state_changed(r)

Settled(r) ==
  [r EXCEPT !.changed = FALSE, !.old_mpath = {}, !.old_cost = 0,
            !.seen = (r.r_type = "spf")]

(***************************************************************************)
(* The kernel.  Only the first next hop is installed, by interface on a     *)
(* point-to-point link and by gateway elsewhere; prefixes that are directly *)
(* attached are the kernel's own.                                           *)
(***************************************************************************)
Operational(i, state) == state[i] # "down"
Directs(state) ==
  {Ifc[i].subnet : i \in {j \in Ifcs : Operational(j, state)}} \ {NULL}

Forwarding(mp) ==
  LET h == CHOOSE g \in mp : \A f \in mp : ~Before(f, g)
  IN  IF Ifc[h[1]].kind = "pp" THEN <<"oif", h[1]>> ELSE <<"gw", h[2]>>

(* LinuxOspfd::rtadd(); without next hops, or for a direct prefix, rtdel(). *)
rtadd(d, mp, direct) ==
  IF mp = {} \/ d \in direct THEN NULL ELSE Forwarding(mp)

(* INrte::sys_install() of the prefixes in ds, whose new entries are table. *)
Installed(k, table, ds, direct) ==
  [d \in Dests |-> IF d \in ds THEN rtadd(d, table[d].mp, direct) ELSE k[d]]

(* OSPF::krt_sync(): old are the deletions of at least 5 seconds ago. *)
krt_sync(k, table, old, direct) ==
  Installed(k, table, {d \in old : table[d].r_type # "none"}, direct)

(***************************************************************************)
(* Actions.                                                                 *)
(***************************************************************************)
(* A router- or network-LSA of another node arrives, or is flushed. *)
AddLSA(n, body) ==
  /\ pending < MaxPending
  /\ body # Contents(lsdb[n])
  /\ lsdb' = Install(lsdb, n, body)
  /\ full_sched' = TRUE
  /\ pending' = pending + 1
  /\ UNCHANGED <<ifc, deferring, ifmap, summs, routes, krt, notices, dump>>

(* INrte::incremental_summary() *)
incremental_summary(d, sums) ==
  IF ~intra_AS(rte[d]) /\ \E a \in Abrs : sums[a] # NULL
  THEN /\ full_sched' = TRUE
       /\ UNCHANGED <<rte, krt>>
  ELSE LET old == rte[d]
           new == Unresolved(run_inter_area(save_state(old), sums, abr))
           act == state_changed(new) \/ old.r_type # new.r_type
       IN  /\ rte' = [rte EXCEPT ![d] = IF act THEN Settled(new)
                                        ELSE [Settled(new) EXCEPT
                                                !.changed = new.changed]]
           /\ kernel' = Installed(kernel, rte', IF act THEN {d} ELSE {},
                                  Directs(ifc))
           /\ krtdeletes' = IF act THEN krtdeletes \ {d} ELSE krtdeletes
           /\ UNCHANGED full_sched

(* A summary-LSA arrives, or is flushed. *)
AddSummary(d, a, cost) ==
  /\ pending < MaxPending
  /\ cost # summs[d][a]
  /\ summs' = [summs EXCEPT ![d][a] = cost]
  /\ pending' = pending + 1
  /\ IF full_sched THEN UNCHANGED <<full_sched, rte, krt>>
     ELSE incremental_summary(d, summs'[d])
  /\ UNCHANGED <<ifc, deferring, ifmap, lsdb, abr, notices, dump>>

(* An adjacency becomes full or is lost. *)
AdjacencyChange(i, state) ==
  /\ pending < MaxPending
  /\ ifc[i] \in {"alone", "full"} /\ state \in {"alone", "full"} \ {ifc[i]}
  /\ ifc' = [ifc EXCEPT ![i] = state]
  /\ \/ rl_orig(ifc') /\ full_sched' = TRUE
     \/ Deferred /\ UNCHANGED <<ifmap, full_sched>>
  /\ pending' = pending + 1
  /\ UNCHANGED <<summs, routes, krt, notices, dump>>

(* The destructor of an interface: down, then out of the interface map. *)
DeleteIfc(i) ==
  /\ pending < MaxPending
  /\ ifc[i] \in {"alone", "full"}
  /\ ifc' = [ifc EXCEPT ![i] = "gone"]
  /\ \E late \in {FALSE, Lags} :
       IF late
       THEN /\ Deferred
            /\ ifmap' = delete_from_ifmap(ifmap, i)
            /\ UNCHANGED full_sched
       ELSE rl_orig(ifc') /\ full_sched' = TRUE
  /\ pending' = pending + 1
  /\ UNCHANGED <<summs, routes, krt, notices, dump>>

(* OSPF::phy_down() within read_kernel_interfaces(), which then no longer   *)
(* counts the subnet as direct and has its route put back.                  *)
phy_down(i) ==
  LET new == [d \in Dests |->
                LET r == rte[d]
                    mp == prune_phyint(r.mp, i)
                    cut == [r EXCEPT !.mp = mp, !.changed = TRUE]
                IN  CASE mp = r.mp -> r
                      [] mp = {} -> declare_unreachable(cut)
                      [] OTHER -> cut]
      hit == {d \in Dests : new[d] # rte[d]}
      freed == Directs(ifc) \ Directs(ifc')
  IN  /\ pending < MaxPending
      /\ ifc[i] \in {"alone", "full"}
      /\ ifc' = [ifc EXCEPT ![i] = "down"]
      /\ \/ rl_orig(ifc') /\ full_sched' = TRUE
         \/ Deferred /\ UNCHANGED <<ifmap, full_sched>>
      /\ rte' = new
      /\ kernel' = Installed(kernel, new, hit, Directs(ifc))
      /\ krtdeletes' = (krtdeletes \ hit) \cup
                       {d \in freed : new[d].r_type # "none"}
      /\ pending' = pending + 1
      /\ UNCHANGED <<summs, abr, notices, dump>>

(* OSPF::phy_up(); the routes of prefixes that are direct again are removed. *)
phy_up(i) ==
  /\ ifc[i] = "down"
  /\ ifc' = [ifc EXCEPT ![i] = "alone"]
  /\ \/ rl_orig(ifc') /\ full_sched' = TRUE
     \/ Deferred /\ UNCHANGED ifmap /\ full_sched' = TRUE
  /\ kernel' = [d \in Dests |-> IF d \in Directs(ifc') THEN NULL
                                ELSE kernel[d]]
  /\ UNCHANGED <<summs, routes, krtdeletes, notices, dump, pending>>

(* OSPF::full_calculation() *)
full_calculation(map, db) ==
  LET D == dijkstra(map, db)
      brs == update_brs(D.abr)
      new == [d \in Dests |-> Scanned(D.rte[d], summs[d], brs)]
      ds == {d \in Dests : Differs(new[d])}
  IN  /\ rte' = [d \in Dests |-> Settled(new[d])]
      /\ abr' = brs
      /\ full_sched' = FALSE
      /\ \E old \in SUBSET (krtdeletes \ ds) :
           /\ krtdeletes' = (krtdeletes \ ds) \ old
           /\ kernel' = krt_sync(Installed(kernel, new, ds, Directs(ifc)),
                                 new, old, Directs(ifc))

(* DBageTimer::action(), what it does beside aging: deferred_lsas() once    *)
(* the router-LSA has reached MinLSInterval (due), the calculation when it  *)
(* is scheduled, krt_sync(), and the upload of what an earlier run left (of *)
(* which only the lines about Remnants are followed).                       *)
Tick ==
  /\ \E due \in {FALSE, deferring} :
       /\ IF due THEN rl_orig(ifc)
          ELSE UNCHANGED <<deferring, ifmap, lsdb>>
       /\ IF full_sched \/ due
          THEN full_calculation(IF due THEN IfMap(ifc) ELSE ifmap,
                                IF due THEN NewOwn(ifc) ELSE lsdb)
          ELSE \E old \in SUBSET krtdeletes :
                 /\ krtdeletes' = krtdeletes \ old
                 /\ kernel' = krt_sync(kernel, rte, old, Directs(ifc))
                 /\ UNCHANGED <<rte, abr, full_sched>>
  /\ pending' = 0
  /\ need_remnants' = FALSE
  /\ replies' = IF need_remnants
                THEN replies \cup {d \in Remnants : kernel'[d] # NULL}
                ELSE replies
  /\ UNCHANGED <<ifc, summs, notices>>

(* OSPF::krt_delete_notification(), read from the routing socket. *)
krt_delete_notification(d) ==
  /\ d \in notices
  /\ notices' = notices \ {d}
  /\ krtdeletes' = IF rte[d].r_type = "none" THEN krtdeletes
                   ELSE krtdeletes \cup {d}
  /\ UNCHANGED <<ifc, deferring, ifmap, lsdb, summs, routes, full_sched,
                 kernel, dump, pending>>

(* OSPF::remnant_notification(), one line of the kernel's dump. *)
remnant_notification(d) ==
  /\ d \in replies
  /\ replies' = replies \ {d}
  /\ kernel' = IF rte[d].r_type = "none" THEN [kernel EXCEPT ![d] = NULL]
               ELSE kernel
  /\ UNCHANGED <<ifc, deferring, ifmap, lsdb, summs, routes, full_sched,
                 krtdeletes, notices, need_remnants, pending>>

(* The kernel drops a route by itself and says so; at most one such matter  *)
(* at a time (bound).                                                       *)
KernelDeletes(d) ==
  /\ kernel[d] # NULL
  /\ notices \cup krtdeletes \cup replies = {}
  /\ ~need_remnants
  /\ kernel' = [kernel EXCEPT ![d] = NULL]
  /\ notices' = notices \cup {d}
  /\ UNCHANGED <<ifc, deferring, ifmap, lsdb, summs, routes, full_sched,
                 krtdeletes, dump, pending>>

(* The interfaces are up and in the router-LSA, before the first tick,      *)
(* whose calculation that LSA has scheduled.  Neighbors may already be      *)
(* adjacent, with their LSAs received, and the kernel may hold routes of an *)
(* earlier run of the daemon.                                               *)
Init ==
  /\ ifc = [i \in Ifcs |-> IF i \in Start THEN "full" ELSE "alone"]
  /\ deferring = FALSE
  /\ ifmap = IfMap(ifc)
  /\ lsdb = FoldSet(LAMBDA n, db : Install(db, n, CHOOSE b \in Bodies[n] : TRUE),
                    [n \in Nodes |-> IF n = Self THEN Body(ifc) ELSE NULL],
                    {Ifc[i].nbr : i \in Start})
  /\ summs = [d \in Dests |-> [a \in Abrs |-> NULL]]
  /\ rte = [d \in Dests |-> NoRoute]
  /\ abr = [r \in Routers |-> NoRoute]
  /\ full_sched = TRUE
  /\ kernel \in [Dests -> {NULL, <<"remnant">>}]
  /\ \A d \in Dests : kernel[d] # NULL => d \in Remnants
  /\ krtdeletes = {} /\ notices = {}
  /\ need_remnants = TRUE /\ replies = {}
  /\ pending = 0

Next ==
  \/ \E n \in DOMAIN Bodies : \E body \in Bodies[n] : AddLSA(n, body)
  \/ \E d \in DOMAIN Adverts : \E a \in DOMAIN Adverts[d] :
       \E cost \in Adverts[d][a] : AddSummary(d, a, cost)
  \/ \E i \in Ifcs : \/ \E s \in States[i] : AdjacencyChange(i, s)
                     \/ "down" \in States[i] /\ (phy_down(i) \/ phy_up(i))
                     \/ "gone" \in States[i] /\ DeleteIfc(i)
  \/ Tick
  \/ \E d \in Dests : krt_delete_notification(d) \/ remnant_notification(d)
  \/ \E d \in Fragile : KernelDeletes(d)

Spec == Init /\ [][Next]_vars

-----------------------------------------------------------------------------
(***************************************************************************)
(* What the routes should be, defined on the LSAs alone: over links that    *)
(* both ends advertise, distances by relaxation, and next hops from the     *)
(* first link (or, across a transit network, the first two links) of some   *)
(* shortest path.                                                           *)
(***************************************************************************)
Edges ==
  UNION {{<<n, k>> : k \in {j \in DOMAIN LinksOf(lsdb, n) :
                              Mutual(lsdb, lsdb[n][j], n)}} : n \in Nodes}
To(e) == lsdb[e[1]][e[2]].l_id
Cost(e) == lsdb[e[1]][e[2]].l_fwdcst

(* The cost from any node to any other, LSInfinity when there is no path.   *)
Least(S) == IF S = {} THEN LSInfinity ELSE Min(S)
Shorter(edges, d) ==
  [p \in Nodes \X Nodes |->
     Min({d[p]} \cup {Min({LSInfinity, Cost(e) + d[<<To(e), p[2]>>]}) :
                        e \in {f \in edges : f[1] = p[1]}})]
Graph ==
  LET edges == Edges
      none == [p \in Nodes \X Nodes |-> IF p[1] = p[2] THEN 0 ELSE LSInfinity]
  IN  [edges |-> edges,
       dist |-> FoldLeft(LAMBDA d, h : Shorter(edges, d), none,
                         [h \in 1..Cardinality(Nodes) |-> h])]

(* A node's own addresses on its links to m. *)
Addresses(n, m, hosts) ==
  LET all == {lsdb[n][k].l_data : k \in {j \in Transits(lsdb, n) :
                                           PointsTo(lsdb[n][j], m)}}
  IN  IF all \cap hosts = {} THEN all ELSE all \cap hosts

(* Hops towards node n: W begins a path of the graph g. *)
HopsTo(n, g) ==
  UNION {
    LET W == To(e)
        i == ifmap[e[2]]
        left == g.dist[<<Self, n>>] - Cost(e)
    IN  IF W \in Routers
        THEN IF g.dist[<<W, n>>] # left THEN {}
             ELSE {<<i, a>> : a \in Addresses(W, Self, Ifc[i].hosts)}
        ELSE (IF W = n /\ left = 0 THEN {<<i, 0>>} ELSE {}) \cup
             {<<i, a>> : a \in UNION {
                Addresses(To(f), W, NetHosts[W]) :
                  f \in {h \in g.edges : /\ h[1] = W /\ To(h) # Self
                                         /\ g.dist[<<To(h), n>>] = left}}}
    : e \in {f \in g.edges : f[1] = Self}}

(* Nodes with the prefix d, with the cost they add, and our own stubs. *)
Origins(d) ==
  {<<n, 0>> : n \in {m \in Nets : lsdb[m] # NULL /\ NetDest[m] = d}} \cup
  UNION {{<<n, lsdb[n][k].l_fwdcst>> :
            k \in {j \in DOMAIN LinksOf(lsdb, n) :
                     /\ lsdb[n][j].l_ltype = "stub"
                     /\ lsdb[n][j].l_id = d}} : n \in Nodes}
OwnStubs(d, cost) ==
  {<<ifmap[k], 0>> : k \in {j \in DOMAIN LinksOf(lsdb, Self) :
                              /\ lsdb[Self][j].l_ltype = "stub"
                              /\ lsdb[Self][j].l_id = d
                              /\ lsdb[Self][j].l_fwdcst = cost}}

Intra(d, g) ==
  LET total(o) == g.dist[<<Self, o[1]>>] + o[2]
      live == {o \in Origins(d) : g.dist[<<Self, o[1]>>] < LSInfinity}
      best == Least({total(o) : o \in live})
  IN  [cost |-> best,
       hops |-> UNION {IF o[1] = Self THEN OwnStubs(d, best)
                       ELSE HopsTo(o[1], g) :
                         o \in {p \in live : total(p) = best}}]
Inter(d, g) ==
  LET live == {a \in Abrs : /\ summs[d][a] \notin {NULL, LSInfinity}
                            /\ g.dist[<<Self, a>>] < LSInfinity}
      total(a) == g.dist[<<Self, a>>] + summs[d][a]
      best == Least({total(a) : a \in live})
  IN  [cost |-> best,
       hops |-> UNION {HopsTo(a, g) : a \in {b \in live : total(b) = best}}]
Wanted(d, g) ==
  LET intra == Intra(d, g)
  IN  IF intra.hops # {} THEN intra ELSE Inter(d, g)

(* Of an unnumbered link only the interface counts. *)
Vias(hops) ==
  {IF Ifc[h[1]].hosts = {} THEN <<h[1], 0>> ELSE h : h \in hops}
Broken(hops) == {h \in hops : ifc[h[1]] = "down"}

(* Whenever no calculation is due, every route has the least cost and the   *)
(* next hops of all shortest paths (MAXPATH of them when there are more),   *)
(* short only of hops over a physical interface that is down, and an        *)
(* inter-area route stands only where there is no intra-area one: no LSA    *)
(* pointer is left behind by a changed or flushed neighbor and no changed   *)
(* summary was overlooked.                                                  *)
RoutesExact ==
  ~full_sched =>
    LET g == Graph
    IN  \A d \in Dests :
          LET w == Wanted(d, g)
              hops == Vias(w.hops)
              got == Vias(rte[d].mp)
          IN  /\ got \subseteq hops
              /\ IF Cardinality(hops) <= MaxPath
                 THEN hops \ Broken(hops) \subseteq got
                 ELSE Broken(hops) = {} => Cardinality(got) = MaxPath
              /\ intra_AS(rte[d]) <=> got # {}
              /\ intra_AS(rte[d]) => rte[d].cost = w.cost

(* The kernel forwards each prefix as the routing table says, unless the    *)
(* kernel's own deletion of it is still to be read or undone, or the route  *)
(* is left from an earlier run and the dump of them is not over; a prefix   *)
(* that is directly attached has no entry of ours.                          *)
KernelFollows ==
  \A d \in Dests :
    \/ kernel[d] = rtadd(d, rte[d].mp, Directs(ifc))
    \/ kernel[d] = NULL /\ d \in krtdeletes \cup notices
    \/ kernel[d] = <<"remnant">> /\ (need_remnants \/ d \in replies)
=============================================================================
