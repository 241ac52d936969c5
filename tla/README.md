# A verification of the OSPFv2 stack

This directory holds TLA+ models of the OSPF routing daemon under `ospfd/src`,
the TLC configurations that check them on small instances, and TLAPS proofs
about them.  Line numbers below are those of `ospfd/src` unless a path is given;
`linux/` and `ospf_sim/` stand for `ospfd/linux` and `ospfd/ospf_sim`.

## The system

One `OSPF` object runs the protocol.  It is single-threaded: the Linux port
(`ospfd/linux/ospfd_linux.C`) waits for a packet or for the first timer and calls
`OSPF::rxpkt()` or `OSPF::tick()`; each handler runs to completion.  What is
concurrent is the network: the routers run side by side, and packets between
them are delayed and lost.  Inside a router the difficulty is reentrancy: an
event of a neighbour's state machine runs the interface's machine, which runs
an election, which raises an event at every neighbour, the first one included.
Around the daemon there are programs that do run beside it: monitoring clients
that walk its tables over TCP, the kernel, whose routing table changes by itself,
and a simulator that runs many daemons in lock step.

| Component | State | Operations | Interacts with |
|---|---|---|---|
| Neighbour machine (`nbrfsm.C`, `spfnbr.C`) | `n_state`, `n_rmt_init`, pending flag and list, timers, lists of headers, requests and retransmissions | `nbr_fsm(event)` | Hello, DD and Update handlers raise events; it runs the interface machine when a neighbour crosses 2-Way and re-originates LSAs when one becomes or ceases to be Full |
| Adjacency throttle (`nbrfsm.C`, `dbage.C`) | `n_lcl_inits`, `n_rmt_inits`, the pending list | `nba_eval1/2`, `AddPendAdj`, `DelPendAdj`, `GetNextAdj`, `exit_dbxchg` | the one-second tick starts pending exchanges |
| Interface machine (`ifcfsm.C`, `spfifc.C`) | `if_state`, `if_dr`, `if_bdr`, `if_dr_p`, `if_drpri` | `run_fsm(event)`, `ifa_elect` | reads neighbours, raises EVAL at them, originates router- and network-LSAs |
| Hello (`spfhello.C`) | per neighbour: priority, DR and Backup it declares, inactivity timer | `recv_hello`, `send_hello` | both machines |
| Database exchange (`spfdd.C`) | DD sequence number, kept packet, header and request lists | `recv_dd`, `send_dd`, `recv_req`, `send_req`, timers | the neighbour machine, the database |
| Flooding (`spflood.C`, `spfack.C`) | three retransmission lists and their count per neighbour, `lsa_rxmt` per LSA | `recv_update`, `flood`, `recv_ack`, `LsaRxmtTimer` | the database, all neighbours |
| Database and aging (`lsdb.C`, `dbage.C`, `lsa.C`) | LSAs in trees and age bins, lists of MaxAge LSAs | `AddLSA`, `DeleteLSA`, `DBageTimer` | flooding, origination, routing |
| Origination (`spforig.C`, `rtrlsa.C`, `netlsa.C`, `summlsa.C`) | sequence numbers, rollover and deferral marks | `lsa_reorig`, `self_originated`, `age_prematurely` | flooding, aging |
| Routing (`spfcalc.C`, `rte.C`) | parsed LSAs linked to each other, costs, parents, next hops; deletions of the kernel to be undone | `dijkstra`, `rt_scan`, `rtrsumms`, `krt_sync` | database, kernel |
| Areas (`spfarea.C`) | `PPAdjAggr`: adjacencies over parallel links to one neighbour; the interface map of the router-LSA | `adj_change`, `RemoveIfc` | neighbour machine, origination, routing |
| Timers (`timer.C`, `priq.C`) | a priority queue of deadlines | `start`, `stop`, `restart`, `fire` | everything |
| Physical interfaces (`phyint.C`, `ospf.C`) | reference counts of attachments and group memberships | `phy_attach`, `phy_detach`, `app_join`, `app_leave`, `phy_up`, `phy_down` | interface machine, routing |
| Containers (`avl.C`, `pat.C`) | threaded balanced trees, Patricia trees, iterators over them | `add`, `remove`, `find`, `next`, `seek` | every table |
| Monitoring (`monitor.C`, `linux/ospfd_mon.C`, `linux/ospfd_browser.C`) | the client's last answer | get-next requests | areas, interfaces, neighbours, LSAs, routes |
| Linux port (`linux/`) | the message stream, the kernel's routes as the daemon knows them | `rtadd`, `rtdel`, `netlink_receive`, `sendpkt`, `receive` | kernel, clients |
| Simulator (`ospf_sim/`) | the controller's clock, nodes, address maps; each process's clock and datagrams | `tick`, `simnode_handler_read`, `recv_ctl_command`, `process_uni_fd` | the daemons in it |
| Shutdown (`ospf.C`) | phase and deadline | `shutdown`, `shutdown_continue` | origination, flooding |

What can go wrong where is listed, line by line, under "hazards" in
`PROJECT.json`, each with the properties that cover it.

## The modules

### NbrFsm: the neighbour machine and the throttle

One router with any set of neighbours.  A state of the C++ variables between two
calls of `nbr_fsm()` is a state of the model; the reentrant chain is cut where
the code can be observed by another event's handler: `nchg` holds the
interface whose machine is due to run (`nbr_fsm()` line 260), `loop` the
neighbours `ifa_allnbrs_event()` has still to visit, `ticking` the service of
the pending list by `DBageTimer`.  While one of them is set only the action that
continues the call is enabled.  `Enter` is the tail of `nbr_fsm()`: it
compares the state before with the state after and adjusts the four counters.
What a LAN interface elects is a set chosen by `ifa_elect` at will (any set of
neighbours that declare themselves or are elected): module IfcFsm has the
election proper.

*Checked* (`nbr`: two LAN neighbours and a point-to-point one, one slot of each
kind).  One slot and three neighbours are the smallest instance where one
neighbour holds the slot, one waits, and one overtakes or dies; both kinds of
interface are there because only LANs elect.
- `SlotsRespected`: each slot taken has one holder, and at most `max_dds` of each kind are out.
- `CountsExact`: the counts that aging and origination read are exact.
- `PendingListSound`, `PendingIsFIFO`: list and flags agree, and no neighbour
  is overtaken on the list.
- `ExchangeIsTimed`: a slot is never held without the progress timer.
- `AsElected`: what an election wants is what the neighbours do (`NotStranded`: none that
  should be adjacent is forgotten; `AdjacencyJustified`: no other is).
- `SlotReleased`, `PendingServed` (liveness): the fairness is that the tick and the
  progress timer happen and that a call in progress continues; nothing is
  assumed of neighbours.  `PendingServed` needs that Hellos and interfaces
  stop changing: `nba_eval1()` gives a free slot to a newcomer without looking
  at the list (line 283), so steady newcomers could starve it.

*Proved* (`NbrFsmProofs`), for every finite set of neighbours, every set of
interfaces and every `max_dds`: all safety properties above.  The inductive invariant `IInv` is the
conjunction of the state properties: counting the slots needs to know that a neighbour off the list
is not pending, and that the timer runs only while a slot is held, and the
election loop needs `NotStranded` only for the neighbours it has passed.  Each
action reduces to one lemma about `Enter`, stated for any pair of states, and to
lemmas on the cardinality of the holders' sets when one neighbour moves.
`PendingIsFIFO` is a property of steps and follows from it: each operation on the list
keeps the order of those that stay (`UnlinkKeepsOrder`, `AppendKeepsOrder`), and the order
of the calls in `nba_clr_lists()` does no harm, as a neighbour that has left 2-Way is not on the list.

### DRElection and IfcFsm: a LAN elects its Designated Router

`DRElection` has the two loops of `ifa_elect()` as they walk the neighbour list, and
the choice they amount to.  `LoopsElectChoice` (run `structures`) compares the two over
all priorities, all declarations and all orders of three neighbours: the tie rules, the
declarations and `c_id`, which the second loop does not reset, all occur with two
candidates; three make the order matter.

`IfcFsm` is a LAN of routers, each with its interface record, its records of the
others and the Hellos in flight.  Handlers are operators on one router's
record, composed as the calls nest: `RecvHello` runs the neighbour event, which
may elect, then possibly a second election.  A Hello in flight can be overtaken
by the sender's next, which is a loss.  `garbage` is the comparison with `n_pri`,
which the constructor of `SpfNbr` leaves unset; `FreedReads` is what
`we_are_helping()` may answer when `if_dr_p` dangles: `ifa_reset()` (ifcfsm.C:368) "resets
all interface variables" but leaves that pointer at a neighbour that the next tick
deletes.

*Checked* (`ifc`, two instances told apart by `lan`): two routers with two failures, one
reconfigured priority and every value of the undefined reads; and three routers that
are settled and lose one (three, because a Backup takes over and a third is promoted).
- `RolesCoherent`: the state DR, Backup or DROther is what `if_dr` and `if_bdr` say, and
  `if_dr_p`, where it is used, is the neighbour `if_dr` names; nobody keeps a DR that is
  not a neighbour any more.
- `Succession`: a newcomer of a higher priority does not depose a DR, and when the DR goes
  the Backup is the next, in the same election.
- `AgreementOfThree` is the protocol's promise: one DR, one Backup, the same
  for all, for good.  Its fairness says that Hellos keep being sent and some arrive, and
  that the wait, inactivity and tick timers fire; it is written as conditions that
  recur (each is what one action makes true).

`Timely` restricts inactivity to routers that are down: RouterDeadInterval is four
Hello intervals, and without it agreement could be undone for ever.

*Proved* (`IfcFsmProofs`), for any finite set of routers, any priorities and bounds:
- `RolesCoherent` and `Succession`.  `IfcInv` is `RolesCoherent` router by router, and it is
  inductive.  A handler is a chain of record operators, so the work is in one lemma about the
  election (`ElectionDecides`: what `ifa_elect()` and its second pass leave agrees, keeps an
  unchallenged DR, and promotes the Backup); each handler is shown to keep to it (`Handled`),
  and each action to change one router by a handler.
- `LoopsComputeChoice`: the loops of `DRElection` elect what `BdrChoice` and `DrChoice` define,
  for any number of neighbours in any order.  The invariant of the first loop (`BdrBest`) says
  that the winner is the best of those that declare themselves Backup, if one has been seen,
  and of all eligible ones otherwise, and that `c_pri` and `c_id` are the winner's.  The second
  loop starts with the `c_id` that the first one leaves, which does no harm because `c_pri` is
  reset and a DR of priority 0 is not a candidate.  `LoopsElectChoice` follows for the list in any order its neighbours are brought into
  (`MCDRElection`): no two of them ever have one ID (`ElectInvariant`).

`DRStays` has two exceptions that the proof brought out: a better router that *declares* itself
DR, as two DRs meet when a divided LAN is joined; and a new priority of the router itself,
which is compared as it is after the step.

### DDExchange: two routers synchronise their databases

Both routers of an adjacency, with all handlers of `spfdd.C` and the parts of
`spflood.C` and `spfack.C` that touch the same lists.  A handler maps a neighbour record
to the next one and collects what it sends.  An LSA is a name with an instance
number; DD packets and requests hold one entry, so that an exchange takes
several packets; the channel holds two or three packets and drops the rest.

*Checked*: `dd` (one lost packet, one timer that fires early, one change, one
abandoned exchange; each of these once is enough for a handler to meet a
packet of an exchange it has left behind).
- `SequenceInStep`: the two sequence numbers never drift apart by more than a packet.
- `FullMeansInStep` is what Full means: where the databases differ, the newer LSA
  is being retransmitted.
- `Synchronized` is the liveness of it.  Timers have strong fairness: a periodic
  timer that is not stopped fires, though packets come and go in between.

*Proved* (`DDExchangeProofs`), for any databases, packet sizes, channel size and bounds on
losses, early timers, changes and abandoned exchanges: `SequenceInStep`.  It is not inductive:
a stale echo could move the master on.  `DDInvariant` adds
- what a state leaves in a neighbour record (`Good`): empty lists before Exchange, no requests
  when Full, and a kept packet that carries the present number;
- the numbers on the way (`Numbers`): those to the slave do not decrease, and none is below
  what the slave has echoed, since router 2 is master, begins each exchange with a number
  higher than the last one's and the network does not reorder.

Each handler is a step that keeps the number, begins an exchange, or accepts a packet in
sequence (`Calm`, `Begins`, `Accepts`), and one lemma each for the slave and the master
(`SlaveMoves`, `MasterMoves`) shows that such a step keeps `Numbers`.

`FullMeansInStep` is not a theorem.  It fails when timers fire before an answer could be back
and more goes wrong beside: one early timer and one abandoned exchange are enough for TLC, with
two losses, or with one loss and two changes.  Typically the first DD packet of the master, sent
twice, makes the slave start over under the sequence number it already had, with a new
snapshot; the echo of the attempt it has left is still under way, and the master takes its
header list for the new one (`InSequence` compares numbers only).  This needs a round trip
longer than RxmtInterval, five seconds.  The runs therefore bound early timers by `MaxEarly`.
With none (a timer fires when nothing is in flight) the property holds with two losses, two
abandoned exchanges and two changes, and with four losses.

### PriQ, TimerQ and Alarms: the timers

`PriQ` is the linked heap of `priq.C` as operators on a record of pointers:
`priq_add` descends by the bits of the new size, `priq_delete` cuts the last node, puts
it in the place of the deleted one, and moves it down or up.  `TimerQ` has the timers
on it: `start`, `stop`, `restart` at any moment, the loop of `tick()` one turn at a
time, and time.  Deadlines are relative to the present; `Delays` is what the
random part of an interval can make of it.  `Alarms` is what a caller expects of
timers: a partial function from alarms to deadlines, without a queue.

*Checked* (`structures`: four single-shot and two interval timers, the timers of a kind
interchangeable).  Six are needed: with fewer, a deletion in the middle never has to
move the replacement *up*, since the last node is then below the deleted one.  A delay
of 2 is enough for three different deadlines with the lateness of one.
- `HeapSound`: the links are those of the complete tree of `nelts` nodes, every node is
  due no later than those below it, and the flag `active`, which `priq_delete()` trusts,
  says which timers are queued.
- `KeepsAlarms`: `TimerQ` implements `Alarms` (the earliest alarm goes off, none early,
  none after `stop()`, each that is due in the end).  The fairness `TickReturns` says that
  the loop of `tick()` ends again and again, which is how it returns to the main loop
  (ospf.C:483); with it the head's being due cannot last.

### LsaRxmt: the retransmission lists

One router, its neighbours, and the objects of its LSAs.  A list entry is an
*object*: `AddLSA()` overwrites an object nothing points at and makes a new one
otherwise (lsdb.C:151), and the stale one stays on the lists until they are
cleaned.  So the counts (`rxmt_count` of a neighbour, `lsa_rxmt` of an LSA) and the lists
change at different times.  `rxmt_updates` is the loop over the window's packets; a
recursive function has one element for each turn.

*Checked* (`rxmt`, together with `Flooding`: two neighbours, two LSAs with two objects each, two instances, one
LSA to a packet: two neighbours for the count in an LSA to differ from one list's).
- `ListsConsistent`: three accounts of the same thing agree: the three lists of a
  neighbour, on which no object is twice, its `rxmt_count`, and the LSA's `lsa_rxmt`; and
  the timer runs while something waits.
- `FlushedEverywhere`: a MaxAge LSA leaves the database only when no neighbour has to hear of it.
- `Retransmitted` (liveness): each LSA that waits is sent again.  The fairness is that the
  retransmission timer fires if firing it would change something, and that time passes.

*Proved* (second part of `FloodingProofs`), for any finite sets of neighbours and LSAs, any size
of packets and windows: `ListsConsistent` and `FlushedEverywhere`.  `ListsInvariant` is
`ListsConsistent` neighbour by neighbour, and what it needs beside:
- an object of the database that is on the list of a description (`ddlst`) is not on the
  retransmission lists, otherwise `send_dd()` would list a MaxAge LSA twice;
- below Exchange the lists are empty, and `ddlst` is empty but in Exchange.  With that
  `free_maxage_lsas()`, which asks for `lsa_rxmt` and for the states only, frees nothing
  that somebody has still to hear of.

Each operation on the lists keeps a neighbour `Sound` (nothing twice, `rxmt_count` exact) and what
it drops is invalid (`KeepsLive`), so that `lsa_rxmt`, which is not adjusted when invalid objects
are dropped, stays exact for those in the database.  For `rxmt_updates` that is an induction
over the turns of its loop.  Actions that change several objects go through `UpdateKeeps`.

### Flooding and Replicas: an LSA among several routers

`Flooding` has the routers side by side: `recv_update` with its four outcomes, `flood` over
all interfaces, acknowledgments that are held back (`if_dack`), sent at once or implied,
retransmissions, packets that are lost for one of their receivers or overtake each other,
and a router that stops and is noticed by each of the others in its own time.  A wiring says
who is attached to which network or point-to-point link and who has been elected DR and
Backup.  The state of a router is the instance it holds, the neighbours that have it on their
retransmission lists (one set; `LsaRxmt` has the lists), what it holds back, and
`sent_reply`.  A handler maps a router's record to the next one and collects what it sends.

`Replicas` is what flooding promises: routers that hold instances, which only get newer, and
come to hold the same one.  There is nothing in it of packets, lists or adjacencies.

*Checked* (`rxmt`), with two instances, one packet lost and one router that stops, in three
wirings of routers 1 to 4; 4 originates:
- a chain 4 - 1 - 3, where the second instance is originated while the first one is still
  under way (`late`), so that old instances and old acknowledgments arrive late;
- a network of all four, whose DR, Backup or originator stops (`mayfail`);
- a network of three with the originator behind the one that is neither DR nor Backup, so
  that the LSA enters the network from aside, and the DR sends it back to whence it came.

The properties:
- `NoneForgotten`: while a router holds a newer instance than an adjacent neighbour, the
  neighbour is on its list.
- `ReachesAll`: one round of flooding reaches everyone, before any retransmission, when
  nothing is lost and nobody stops.
- `Replicates`: `Flooding` implements `Replicas`, its liveness included.
- `FloodingEnds` (liveness): in the end nothing is under way, held back or listed.

The fairness: packets arrive or are lost, and only `MaxLoss` are; every timer fires, that of
retransmissions (which is started again and again, strong fairness) though packets come
and go.

Bounds and simplifications: all adjacencies are Full and the wiring's others have priority
0, so that no new Backup has to be brought up (`DDExchange` and `IfcFsm` do that).  A
retransmission happens when nothing else is under way: RxmtInterval is five seconds, an
acknowledgment is held back for one.  One LSA has no packing: several LSAs to a packet
only make that some interfaces get one they need not (spflood.C:398).  A router that stops
does not come back: coming back is a matter of `DDExchange` and `LsaLife`.  `MinArrival` drops
an instance that will be retransmitted, like a loss.

*Proved* (`FloodingProofs`), for any routers, links, wirings and bounds: `NoneForgotten`, and that
every step is one of `Replicas` or changes nothing there (`Refinement`; its liveness is
checked only).  `NoneForgotten` is inductive as it stands, because it has three parts: that a
neighbour may leave the list rests on `NothingInvented` (what is under way or held back is not
newer than what its sender holds, if that still works), and this on the types.  What a
handler does to a record is bounded by `MayBecome`, and one lemma (`HandlerKeeps`) shows
that such a step keeps the invariant; each handler is then shown to keep to `MayBecome`.

### LsaLife: an LSA from its origination to its flush

The network-LSA of this router, the smallest of the LSAs it originates that can
be withdrawn.  `db` is the database's copy with its age and marks; `want` is what
`nl_raw_orig()` would build; `adj` and `dbx` say whether some neighbour is to be flooded
to and whether one is describing its database (`n_dbx_nbrs`); `net` is what instances
other routers may still hold, and may send back.  The functions of `spforig.C`,
`lsdb.C` and `dbage.C` are operators from copy to copy, so that a tick is one action
with the nested calls it makes: age bins, deferral, refresh, MaxAge list, rollover,
the phases of the shutdown.

*Checked*: `lsa_life` (three sequence numbers, three changes of the contents, two
instances that come back, one restart; MinLSInterval 1, LSRefreshTime 3, MaxAge 5: the
order of the code's 5, 1800 and 3600, and the values between which the bins differ).
Three sequence numbers are enough to reach the largest by changes, by refreshes and
by an instance of before the restart.
- `InstancesGetNewer`: what the database holds gets more recent in the sense of
  `cmp_instance()`, until the largest sequence number has been flushed.
- `FlushIsFinished`: what waits for a flush does not go on before it: the mark of a
  rollover, which survives the object it was set on, is on a copy that is being flushed
  and on no other, and the process does not stop with its LSA unflushed.
- `Advertised`: if the contents stay, the database says so again and again.  The
  fairness is the tick's, while no neighbour is in Exchange or Loading now and
  then (the throttle's `SlotReleased` says that exchanges end), and that neighbours
  acknowledge.

The model takes `net` to be empty when a flush ends: everyone adjacent has
acknowledged the MaxAge instance, and they too flood before they acknowledge.
`Advertised` is stated for runs without a restart, because after one a copy of before
it may be taken over with an age beyond LSRefreshTime: `self_originated()` leaves one
with equal contents alone (spflood.C:128), `refresh_lsas()` looks only at the bin of
LSRefreshTime, and the copy is flushed at MaxAge without being originated again.
The second chance `MinArrival` gives a received LSA (spflood.C:116) only drops an
instance that will be sent again; here it is an instance that has not arrived yet.
`random_refresh` is off, its default (ospf.C:48), so that a refresh is immediate.

A copy may also stay in the database for good: a flushed one marked for a rollover
is taken off the MaxAge list (dbage.C:352-356), and if nothing is to be originated then
it is neither freed nor put on the list again.  It does no harm to the properties
above, since `InvalidLSSeq` makes the next origination start anew.

*Proved* (`LsaLifeProofs`), for any contents, ages, number of sequence numbers and bounds:
`FlushIsFinished` and `InstancesGetNewer`.  `LifeInv` adds to the first one that the mark of a
rollover is on a listed MaxAge copy of the largest number only, that no acknowledgment is
waited for without an adjacency, and that in the last phases of a shutdown what is left has
been flushed.  The functions that change a copy are shown to keep to one relation
(`Succeeds`), which both properties follow from.  A restart and an instance that comes back
are the steps that need more: there the copy is replaced by a received one.

### Routing: from the LSAs to the kernel

The routing calculation of one area, with what feeds it and what follows from it.  Parsed
LSAs keep pointers to each other (`ParseLSA`, `unlink`); any change of one of them sets
`full_sched`, and the tick runs `full_calculation`: `dijkstra()` with its candidate list,
parents and merged next hops, then the scan of the routing table, the summaries, and what
the kernel is told.  A changed summary is handled at once by `rtrsumms` when no full
calculation waits.  In between physical interfaces go down and up (`phy_down` prunes next
hops from the table by itself), an interface is deleted by a new configuration, adjacencies
form and break, and the kernel drops entries by itself and reports it (`netlink_receive`,
`krt_sync`).  After a restart the kernel may still hold routes of the earlier run.

*Checked* (`routing`): a router with an interface on a transit network and two parallel
links to another router, one of them unnumbered; four prefixes, one of them of another area
with two border routers.  Equal-cost paths through a network and over parallel links, a
prefix with both an intra-area and an inter-area route, and a network-LSA that misses a
router all occur.
- `RoutesExact`: whenever no calculation is due the routes are those of a definition by
  shortest paths.  The definition (`Wanted`) knows neither candidates nor parents.  Next
  hops over a physical interface that is down may be missing.
- `KernelFollows`: the kernel forwards as the routing table says, unless its own deletion
  has still to be read or undone.

Bounds and simplifications: one change between two ticks (`MaxPending`), since each is
followed by every other in a later tick; at least one interface stays up; one disturbance
by the kernel at a time; the LSAs of others come from small sets; `MaxPath` is 3 where the
code has 4, so that it can be exceeded; costs are at least 1, as `cfgIfc()` sees to.  The
router is no area border router.  Host mode, address ranges, transit areas, virtual links
and external routes are left out.  Only the first next hop reaches the kernel, which is
what `rtadd()` does.

`stale_route` is a finding, below.

### PPAdj: parallel point-to-point links

The links of one router to one neighbour, the `PPAdjAggr` about them, and what
`PPIfc::rl_insert()` makes of it in the router-LSA.  `Enter` is the tail of `nbr_fsm()` with
`adj_change()`, which looks at all links when one moves; `others` takes slots of the throttle away.

*Checked* (`structures`: three links, a limit of two, costs 1 and 2, one slot of each kind, at
either end): `LinksAggregated`, which is
- `AggregateExact`: the aggregate, refreshed by some moves only, is what a scan would find
  now, and the router-LSA has one link of the best cost exactly when a link is full;
- `NoneStranded`: at the end that decides, a link at 2-Way is on the pending list while more
  adjacencies are wanted;
- `SlotsExact`: the throttle's counters are those of the links and of the others.

A new cost is the exception (`repriced`): `cfgIfc()` reoriginates the router-LSA (spfifc.C:139)
without a scan, so that the LSA advertises the cost of before until some link moves.
And `n_adjs` can exceed PPAdjLimit, though spfarea.h:184 says "limited by PPAdjLimit":
`nba_eval2()`, the end that is spoken to, does not ask `more_adjacencies_needed()`.

*Proved* (`StructuresProofs`), for any number of links, costs, limits and slots: `LinksAggregated`.
`LinksInvariant` is the
three parts with the types.  The first one carries the others: that a move needs no search
(`NeedsScan`) rests on the aggregate's being exact before it, and that every link is pended
while more adjacencies are wanted on its `n_adjs`.  The work is in `AdjChangeSound`, a case for each
way across the ranks of Full and Exchange, and in `EnterKeeps`, which says for any
record what the tail of `nbr_fsm()` leaves of all three; each handler is then one or two moves
of one link (`Eval1Keeps`, `Eval2Keeps`).

### Membership: physical interfaces and groups

Interfaces, several of them on one physical interface, with the reference counts of
`phy_attach`, `phy_detach`, `app_join` and `app_leave`.  The end of an election is a choice here.

*Checked* (`structures`: two broadcast interfaces on one physical interface and a serial line
on another): `MembershipExact`: AllSPFRouters is joined exactly where an interface is up,
AllDRouters exactly where one is DR or Backup, with one reference for each, and what is used
is open.  `ifa_reset()` leaves a group without having joined it when the interface is down
already; that does no harm because all interfaces of a physical interface are then down.
The references to physical interfaces do *not* come out even: `phy_attach()` runs whenever an
interface comes up and `phy_detach()` once in its life, so that one which has bounced is never
closed.  `MaxRef` bounds these.

*Proved* (`StructuresProofs`), for any finite set of interfaces on any physical interfaces:
`MembershipExact`.  `GroupsInvariant` adds that all interfaces of a physical interface that is
running are up, with a reference each at least, and none of one that is not.  That is what makes the
second `app_leave()` of `ifa_reset()` harmless: it reaches an interface that is down already only
when nobody is left to miss the group.  `phy_up()` and `phy_down()` go through all interfaces; `AllUp`
and `AllDown` are inductions over the set of those still to visit (`FoldExists`).

### AvlTree, PatTree, PrefixTable: the tables

`AvlTree` is `avl.C` pointer by pointer: adding, replacing, removing, the four rotations, the
list that threads the items, and `AVLsearch`, which looks its place up again if the item it
stands on was removed.  `PatTree` is `pat.C` likewise.  `PrefixTable` is `INtbl`, whose entries
point at the longest prefix that contains them.

*Checked* (`structures`):
- `TreeSound`: the tree is ordered, threaded and balanced, and an iterator over a tree that
  changes meets each item once and misses none that stays.  Twelve keys: that many are
  needed for a removal that rotates at two levels.  Iteration is checked over three items.
- `LookupExact`: a key is found in the Patricia tree exactly when it is there, for keys of one
  length; `best_match()` returns the longest valid prefix.

Keys of different lengths are outside `LookupExact`, since there the tree fails: an entry
whose key is the beginning of another's hides it (pat.C:116 looks for the first bit at which
the two differ, and pat.h:12-24 supplies bits of the length behind the key).  The
browser's value pairs `area_id0` and `area_id` (linux/ospfd_browser.C:427) are such keys.

### Monitor and TcpPkt: the monitoring protocol

`Monitor` has the get-next requests for areas, interfaces, neighbours, routes and LSAs and the
loops of the two client programs; the table changes between two requests.  `TcpPkt` is the
framing of messages on the stream, with `sendpkt()` called for as many bytes as the socket
takes.

*Checked* (`structures`):
- `ListingComplete`: a listing has each entry that was there all the time, once, in order, and
  none of another area.  Three changes during a listing can remove the last key seen, add
  one before it and one after it.
- `MessagesIntact`: what is received are the messages sent, each whole and once.

*Proved* (`StructuresProofs`):
- `ListingComplete`, for any finite tables of keys.  The walks over areas, interfaces, neighbours
  and the two steps of `NextLSA()` are all the first key behind the one that was asked for
  (`AnswerIs`).  `MonInvariant` says where a listing stands: at its last entry, with everything that
  was there all the time either listed or behind it.  That entry may have been removed since;
  nothing asks for it again.  `MonitorAssumption` has what the clients rely on: no interface and no
  neighbour is numbered `<<0, 0>>`, where those listings start.
- `MessagesIntact`, for any header, lengths and number of messages, where `send()` takes all it is
  given (`~Partial`).  `StreamInvariant` is about `Flow`, the bytes received but not yet delivered
  followed by those on their way: whole messages in a row, each byte once, cut at most at the front
  by what was delivered and at the end behind the header of the message that is being sent.
  A message that is not in the queue is in that row or delivered, never both (`Accounted`).
  So `sendpkt_suspend()`, which refuses between header and body only, may overtake the queue.

In `structures` `send()` takes all of a header or body (`Partial = FALSE`); `tcp_partial` lets it take a
part and is a finding, below.

### SimConfig and Simulator: the simulator

`SimConfig` is `main()` of `sim.C`, which reads the configuration file into tables and starts
the routers, with the timer's signal that serves the routers that call in.  A router knows an
interface by address and port (`Same`, the search of `find_ifc()`), so the last line about an
interface decides whether it runs OSPF.  `Simulator` is the lock
step: the controller sends a tick when all routers have answered the last one; each process
runs ahead with datagrams stamped in link delays; processes are started, crash and come back
on another port.  `Simulated` holds the two constants both modules share.

*Checked* (`simulator`: every file of five lines for two routers; two ticks, three packets, three
starts, so that a router can crash and come back while the other one is in the middle of
a tick):
- `ConfigDelivered`: when `main()` is through its loops, each router was started once, each
  address leads to its owner and each port to the routers on one link; and a router that has called in
  has its areas, each once, its interfaces on ports that lead to it, and its hosts.
- `InLockstep`: the time of a router is the controller's or the one before, and a packet waits
  for a bounded time.
- `MapsAgree`: the address maps that were built in increments are what they would be if built
  anew, and statistics are counted once for each node.
- `TimeGoesOn` (liveness): the clock goes on whoever crashes or joins.  The fairness is that the
  controller's timer goes off and that processes read what they are sent: `sim.C` and
  `ospfd_sim.C` block in `select()` over all of these.

The controller's clock ticks also when no router is connected, as `tick()` does when all nodes
of its tree, none, have answered.

*Proved* (`SimulatorProofs`), for any routers, wiring, number of link delays to a tick and bounds:
`InLockstep` and, for finitely many routers, `MapsAgree`.  The invariant of the first relates the two ends of each connection (`Phase`): an answer or a tick is
under way exactly while `got_tick` is not set, never both, at most one of each; a router that has
not had its first tick has it in its queue, before any other; one whose tick is under way is a
tick behind, and otherwise it is not.  `Stamped` bounds the stamps of packets by the tick in
which they can have been sent.  That a process which comes back finds nothing of its earlier
life rests on the node's being deleted first.

`MapsAgree` speaks of a router whose queue is empty; its invariant, `AgreeInvariant`, says for any
queue and each address what the router will know when it has read the queue: the last message that
mentions the address and its owner decides, or the map it has if there is none (`RightFor`).  It
depends on two things that are easily broken.  A withdrawal is sent as an address with port 0, so
that no router that is there may have port 0 (`Merge`, as the code, drops such entries); and a process
that the controller has no node for must have an empty map, as `send_addrmap()` of an empty table
sends nothing.  The counts of statistics follow node by node; that a new node has `NULL`, which
is no statistic (an assumption on the constants), is the null pointer of `SimNode`'s constructor.

`ConfigDelivered` is proved for any file, any routers and networks, finitely many areas, and routers
that call in at any moment between two uses of `args` (`~Preempt`).  It speaks of the end only;
`ConfigInvariant` says where it comes from.  One half is about the tables and the lines read so far
(`TablesSound`): a router's row of areas has each of its areas once, then free places, of which
there is always one left (`AreasSound`: the search for a place and the end of the row need it); of the
entries about one interface the last says whether it is on (`IfcsSound`); and a port belongs to one
network or to one link, with exactly the routers on it (`PortsSound`).  The other half is about
`main()`: what is started and stored is what the rows before the present one say
(`StartedSoFar`, `MappedSoFar`), and what `args` has is the beginning of the present row (`MainOK`).
The last is what the handler breaks when it comes between, which is the finding `sim_args`.
That the tables no longer change when the first router is started makes what was sent
(`NodesServed`) right at the end as well.

`sim_args` is a finding, below.

### Selection and Recursion: lists

`Keep` of `Selection` is `SelectSeq` with a set for the test, for the loops that drop entries of a
list.  It is written as a recursive function, and `Recursion` proves about it, once, that the
result is a sequence of elements of both (`KeepIsSequence`), and how it is put together element by
element (`KeepUnrolled`).  The library's induction theorems take an operator as parameter, which the provers cannot instantiate; `SetInduction` says the same of
a *set* of numbers, and follows from well-foundedness.  `IterationExists` and `AllValues` are what
follows for functions defined by recursion: there is one, and what each of its steps keeps holds of
all its values; `SubsetInduction` and `FoldExists` are the same for finite sets and folds over
them.  Induction over data is therefore in reach where the loop has a state of
its own, as in `LoopsComputeChoice`.

### MCIfcFsm, MCSimulator, MCLsaRxmt, MCStructures: several instances in one run

These modules check several independent models, and a variable (`lan`, `which`, `part`) that
is chosen in the initial state says which one a behavior is about; the others do not
move.  They extend the modules whose theorems are proved (`IfcFsm`, `Simulator`, `SimConfig`, `Flooding` and
`LsaRxmt`, `PPAdj`, `Membership`, `TcpPkt`, `Monitor` and `MCDRElection`) and instantiate the others, so that
what is checked is the very formula that is proved; where several are extended, their `Init`, `Next` and
`Spec` have names of their own (`ListsInit`, `LinksInit`, `GroupsInit`, `StreamInit`, `MonInit`, `ElectInit`,
`ConfigInit`).  A
property of an instance holds vacuously in the behaviors of the others.

## Findings

- `life_deferral`: a change put off within MinLSInterval is marked on the database's copy
  (`deferring`).  If an instance of before a restart arrives, more recent and with that
  copy's contents, it takes the copy's place without the mark (spflood.C:128, lsdb.C:159),
  and the change waits for the next refresh instead of five seconds.
- `tcp_partial`: when `send()` took a part of a body, linux/tcppkt.C:194 continues before the body
  instead of inside it.
- `sim_args`: the signal handler and `main()` of the simulator share the global `args`
  (ospf_sim/sim.C:1252): a router is started twice, another not at all.
- `stale_route`: when a deleted interface takes a route's last next hop away before the
  router-LSA is reoriginated, the scan (spfcalc.C:536) declares the entry unreachable without
  saying that it changed, and the kernel keeps the route for ever.

Also met while reading, and outside what the runs check:

- `masks[29]` is 0x80000000 in linux/linux.C and ospf_sim/sim.C:1123: a /29 prefix is taken for a /1.
- `process_mon_io()` uses a connection after it was closed; `sendpkt_suspend()` overtakes messages
  that are queued.
- `NextLSA()` for link-local LSAs never advances its interface; `vl_stats` zeroes what it looks up;
  `opq_stats` reads `success` before it is set.
- `AVLtree::remove()` of an item that is not in the tree, but whose key is, does not end: the
  simulator meets it when two processes have one router ID.
- The Backup, to which the DR sends an LSA that it has on its list for the DR, takes it for an
  implied acknowledgment and sends none (spflood.C:138; RFC 2328, table 19, would have it
  acknowledge the DR).  If the acknowledgment it held back for the copy it had first, which is
  multicast, reaches the DR before the LSA does, the DR has to retransmit.
- `phy_down()` prunes routes, but a calculation before the router-LSA is reoriginated puts them
  back (hence the exception in `RoutesExact`).
- The simulator's file reader drops a last line without newline and does not bound its tables.

## What is proved, and what is only model-checked

| Theorem | Of | Rests on |
|---|---|---|
| `TypeCorrect`, `Throttle`, `CountersExact`, `PendingSound`, `Timed`, `ElectionHonoured` | NbrFsm | `IInv`, the conjunction of the properties |
| `QueueIsFIFO` | NbrFsm | `IInv`, and what the list operations do to the order |
| `RolesAlwaysCoherent`, `RolesPassOnInOrder` | IfcFsm | `IfcInv`, and `ElectionDecides` about `ifa_elect()` |
| `LoopsComputeChoice`, `LoopsAlwaysElectChoice` | DRElection, MCDRElection | loop invariants, by induction over the list |
| `NumbersStayInStep` | DDExchange | `DDInvariant`: the order of the numbers in both channels |
| `NobodyForgotten`, `Refinement` | Flooding, Replicas | `NothingInvented` |
| `ListsAreConsistent`, `FreedWhenFlushed` | LsaRxmt | `ListsInvariant`: three accounts and what is described |
| `FlushIsAlwaysFinished`, `InstancesAlwaysGetNewer` | LsaLife | `LifeInv`, and the relation `Succeeds` |
| `RoutersKeepStep` | Simulator | `SimInvariant`: the phases of each connection |
| `MapsAlwaysAgree` | Simulator | `SimInvariant`, and `AgreeInvariant`: what the queues will tell |
| `ConfigAlwaysDelivered` | SimConfig, if the signal does not come between `args` and their use | `ConfigInvariant`: what the tables have of the lines read, and how far `main()` is |
| `LinksStayAggregated` | PPAdj | `LinksInvariant`: aggregate, pending links and slots together |
| `MembershipStaysExact` | Membership | `GroupsInvariant`: what runs is up, what does not is down |
| `MessagesArriveIntact` | TcpPkt, if `send()` takes all | `StreamInvariant`: the bytes under way are whole messages in a row |
| `ListingAlwaysComplete` | Monitor | `MonInvariant`: what stays is listed or behind the last key |

The assumptions are those on the constants, which TLC evaluates for each run: finite sets, and
natural numbers in the order the code's constants have.  None of the proofs uses fairness.

Liveness (`SlotReleased`, `PendingServed`, `AgreementOfThree`, `Synchronized`, `Retransmitted`,
`Advertised`, `TimeGoesOn`, `FloodingEnds`, the liveness halves of `KeepsAlarms` and `Replicates`) is
beyond the prover: it rests on fairness and `ENABLED`.  Of the safety properties these are
model-checked only:
- `FullMeansInStep`, which is not true for all bounds (see DDExchange).
- `ReachesAll`, which is not true of all wirings either: if the second instance is originated
  late on a LAN, the Backup's direct reply can bring the DR an instance that it then does not
  flood back, and a retransmission has to mend it.  It is a statement about the wirings of the run.
- `ConfigDelivered` where the signal may come at any moment, and `MessagesIntact` where `send()` may
  take a part, are no theorems but the findings `sim_args` and `tcp_partial`.
- `HeapSound`, `TreeSound`, `LookupExact`, `RoutesExact`, `KernelFollows`: the heap, the trees and Dijkstra's
  loop would need induction over a shape, and `Spf` of Routing is a `RECURSIVE` operator, in whose
  presence the prover has no SMT backend.

## Not modelled

- Hitless restart helper: `we_are_helping()` is never true in this version.
- NBMA and Point-to-MultiPoint interfaces: `cfgIfc()` cannot make one.
- Virtual links and transit areas, host mode (`hostmode.C`), address ranges, the origination
  of summary-LSAs: the routing model has one area.
- Demand circuits and DoNotAge, opaque and AS-external LSAs: the database has
  router-, network- and summary-LSAs only.
- Packets' bytes: authentication, checksums, lengths, and the packing of LSAs into packets.
- The IGMP querier and multicast routing.
- Printing LSAs and pages, Tcl, drawing, ping and traceroute: input and output.
- `tlv.C`, `stack.h`, `config.C`: packing and static tables.  `contrib/`: vendored MD5.

## Plan

An area border router in `Routing`: `sl_orig` with ranges, and a second area.

The runs are one for each question.  A further module joins the run that asks the same
question of it, as the tables did in `structures`.
