----------------------------- MODULE Simulator -----------------------------
(***************************************************************************)
(* The OSPF simulator: a controller (sim.C) gives the time to the routers, *)
(* each a process of its own (ospfd_sim.C, sim_system.C), over a TCP       *)
(* connection; the routers send each other datagrams.  The controller      *)
(* sends a new tick when all the routers have answered the last one.       *)
(*                                                                         *)
(* The stamps on packets count in link delays, Units of them to a tick.    *)
(* What OSPF does with a packet or a tick is a choice: it may send one     *)
(* packet.  Configuration messages are in SimConfig; pings, traceroutes,   *)
(* logging and drawing are left out.  That the user stops the time is that *)
(* tick is not taken for a while.                                          *)
(***************************************************************************)
EXTENDS Integers, FiniteSets, SequencesExt, Selection, Simulated

CONSTANTS
  Owners,      \* <<address or port, router>>: what main() stores, in order
  Db,          \* statistics of a router's database
  Units,       \* link delays in a tick
  MaxTicks, MaxPkts, MaxStarts      \* bounds

SimulatorAssumption ==
  /\ IsFiniteSet(Router) /\ Owners \in Seq(STRING \X Router)
  /\ NULL \notin Db
  /\ Units \in Nat \ {0} /\ MaxTicks \in Nat /\ MaxPkts \in Nat /\ MaxStarts \in Nat

ASSUME SimulatorAssumption

VARIABLES
  n_ticks,            \* the controller's time
  ifmaps,             \* Owners stored so far
  node,               \* the controller's SimNode for each router
  stats,              \* statistics, with the number of nodes that have them
  process,            \* the router's process
  toNode, toCtl,      \* the connections of each router, both ways
  uni_fd,             \* the datagrams in each router's socket
  starts, sent        \* routers started, packets sent

simVars == <<n_ticks, ifmaps, node, stats, process, toNode, toCtl, uni_fd, starts, sent>>

Addrs == {o[1] : o \in ToSet(Owners)}
NoNode == [up |-> FALSE, got_tick |-> TRUE, dbstats |-> NULL, port |-> 0]
NoProcess == [alive |-> FALSE, ospf |-> FALSE, ticks |-> 0, address_map |-> {}, rcvq |-> <<>>, port |-> 0]

Up == {r \in Router : node[r].up}

Put(chan, rs, msg) == [r \in Router |-> IF r \in rs THEN Append(chan[r], msg) ELSE chan[r]]

-----------------------------------------------------------------------------
(* The controller.                                                         *)

MapsOf(owners, nodes) ==
  {[addr |-> o[1], home |-> o[2], port |-> nodes[o[2]].port] : o \in {p \in owners : nodes[p[2]].up}}

send_addrmap(chan, nodes, r) ==
  IF ifmaps = {} THEN chan ELSE Put(chan, {r}, [type |-> "addrmap", maps |-> MapsOf(ifmaps, nodes)])

\* A router's addresses, to the others.
send_addrmap_increment(chan, nodes, r) ==
  IF ifmaps = {} THEN chan
  ELSE Put(chan, {q \in Router \ {r} : nodes[q].up},
           [type |-> "addrmap", maps |-> MapsOf({o \in ifmaps : o[2] = r}, nodes)])

(* One statistic less: it goes with the last node that has it.             *)
Deref(s, d) ==
  IF d = NULL THEN s
  ELSE [e \in {x \in DOMAIN s : x # d \/ s[d] > 1} |-> IF e = d THEN s[e] - 1 ELSE s[e]]

AddRef(s, d) ==
  [e \in DOMAIN s \cup {d} |-> IF e \notin DOMAIN s THEN 1 ELSE IF e = d THEN s[e] + 1 ELSE s[e]]

\* "Give it the benefit of the doubt on the first tick" (sim.C:648).
NewNode_Doubted(port) == [NoNode EXCEPT !.up = TRUE, !.port = port, !.got_tick = FALSE]
NewNode(port) == [NoNode EXCEPT !.up = TRUE, !.port = port]

restart_node(r, m) ==
  LET nodes == [node EXCEPT ![r] = NewNode(m.myport)]
      c1 == Put(toNode, {r}, [type |-> "first_tick", tick |-> n_ticks])
  IN  /\ node' = nodes
      /\ toNode' = send_addrmap_increment(send_addrmap(c1, nodes, r), nodes, r)
      /\ UNCHANGED stats

tick_response(r, m) ==
  /\ node' = [node EXCEPT ![r].got_tick = TRUE, ![r].dbstats = m.db]
  /\ stats' = IF node[r].dbstats = m.db THEN stats ELSE AddRef(Deref(stats, node[r].dbstats), m.db)
  /\ UNCHANGED toNode

simnode_handler_read(r) ==
  /\ toCtl[r] # <<>>
  /\ LET m == Head(toCtl[r])
     IN  IF m.type = "hello" THEN restart_node(r, m) ELSE tick_response(r, m)
  /\ toCtl' = [toCtl EXCEPT ![r] = Tail(@)]
  /\ UNCHANGED <<n_ticks, ifmaps, process, uni_fd, starts, sent>>

(* A connection that has ended is noticed by a read, when there is nothing *)
(* left to read, or by a failed write.                                     *)
Withdraw_Quietly(chan, r) == chan
Withdraw(chan, r) == send_addrmap_increment(chan, [node EXCEPT ![r].port = 0], r)

delete_router(r) ==
  /\ node[r].up /\ ~process[r].alive
  /\ toCtl[r] = <<>> \/ toNode[r] # <<>>
  /\ toNode' = [Withdraw(toNode, r) EXCEPT ![r] = <<>>]
  /\ toCtl' = [toCtl EXCEPT ![r] = <<>>]
  /\ stats' = Deref(stats, node[r].dbstats)
  /\ node' = [node EXCEPT ![r] = NoNode]
  /\ UNCHANGED <<n_ticks, ifmaps, process, uni_fd, starts, sent>>

TickSent_KeepsAnswer(nodes) == nodes
TickSent(nodes) == [r \in Router |-> IF nodes[r].up THEN [nodes[r] EXCEPT !.got_tick = FALSE] ELSE nodes[r]]

(* The rest of tick(), once the routers' messages are read.                *)
tick ==
  /\ n_ticks < MaxTicks
  /\ \A r \in Up : node[r].got_tick
  /\ n_ticks' = n_ticks + 1
  /\ node' = TickSent(node)
  /\ toNode' = Put(toNode, Up, [type |-> "tick", tick |-> n_ticks + 1])
  /\ UNCHANGED <<ifmaps, stats, process, toCtl, uni_fd, starts, sent>>

\* To all the routers, the owner among them; not known yet, it is left out.
store_mapping ==
  LET n == Cardinality(ifmaps) + 1
      o == Owners[n]
  IN
    /\ n <= Len(Owners)
    /\ ifmaps' = ifmaps \cup {o}
    /\ toNode' = Put(toNode, Up, [type |-> "addrmap", maps |-> MapsOf({o}, node)])
    /\ UNCHANGED <<n_ticks, node, stats, process, toCtl, uni_fd, starts, sent>>

-----------------------------------------------------------------------------
(* A router's process.  It is started again only when the controller has   *)
(* seen its end: the controller knows it by its ID alone.                  *)
Start(r) ==
  /\ ~process[r].alive /\ ~node[r].up /\ toCtl[r] = <<>>
  /\ starts < MaxStarts /\ starts' = starts + 1
  /\ process' = [process EXCEPT ![r] = [NoProcess EXCEPT !.alive = TRUE, !.port = starts + 1]]
  /\ toCtl' = Put(toCtl, {r}, [type |-> "hello", myport |-> starts + 1])
  /\ UNCHANGED <<n_ticks, ifmaps, node, stats, toNode, uni_fd, sent>>

\* halt(), or a fault; what it had sent to the controller may still arrive.
Crash(r) ==
  /\ process[r].alive /\ node[r].up
  /\ process' = [process EXCEPT ![r] = NoProcess]
  /\ uni_fd' = [uni_fd EXCEPT ![r] = <<>>]
  /\ UNCHANGED <<n_ticks, ifmaps, node, stats, toNode, toCtl, starts, sent>>

(* A packet to an address, or to all the routers on a port, by the         *)
(* sender's map.                                                           *)
sendpkt(socks, r, addr, stamp) ==
  LET ports == {e.port : e \in {x \in process[r].address_map : x.addr = addr /\ x.home # r}}
  IN  Put(socks, {q \in Router : process[q].alive /\ process[q].port \in ports}, stamp)

Later(ts, tk) == ts >= Units * (tk + 1)

(* The packets are handled one after the other; an answer carries the      *)
(* stamp of its packet.                                                    *)
Answers(socks, r, stamps, addrs) ==
  LET after[k \in 0..Len(stamps)] ==
        IF k = 0 THEN socks
        ELSE IF addrs[k] = NULL THEN after[k - 1]
        ELSE sendpkt(after[k - 1], r, addrs[k], stamps[k])
  IN  after[Len(stamps)]

CountSent(addrs) == Cardinality({i \in DOMAIN addrs : addrs[i] # NULL})

\* A router whose OSPF is not there sends nothing.
Sends(r, n) ==
  {f \in [1..n -> Addrs \cup {NULL}] : /\ sent + CountSent(f) <= MaxPkts
                                       /\ CountSent(f) > 0 => process[r].ospf}

process_uni_fd(r) ==
  /\ process[r].alive /\ uni_fd[r] # <<>>
  /\ LET ts == Head(uni_fd[r]) + 1
         rest == [uni_fd EXCEPT ![r] = Tail(@)]
     IN  IF Later(ts, process[r].ticks)
         THEN /\ process' = [process EXCEPT ![r].rcvq = Append(@, ts)]
              /\ uni_fd' = rest
              /\ UNCHANGED sent
         ELSE \E f \in Sends(r, 1) :
                /\ uni_fd' = Answers(rest, r, <<ts>>, f)
                /\ sent' = sent + CountSent(f)
                /\ UNCHANGED process
  /\ UNCHANGED <<n_ticks, ifmaps, node, stats, toNode, toCtl, starts>>

Merge(map, news) ==
  {e \in map : \A n \in news : <<n.addr, n.home>> # <<e.addr, e.home>>}
  \cup {n \in news : n.port # 0}

\* OSPF's own timers may send with the time of the tick.
SimTick(r, m) ==
  LET q     == process[r].rcvq
      later == {ts \in ToSet(q) : Later(ts, m.tick)}
      due   == Keep(q, ToSet(q) \ later)
  IN  \E f \in Sends(r, Len(due) + 1) :
        /\ uni_fd' = Answers(uni_fd, r, <<Units * m.tick>> \o due, f)
        /\ sent' = sent + CountSent(f)
        /\ process' = [process EXCEPT ![r].ticks = m.tick,
                                      ![r].rcvq = Keep(q, later)]
        /\ \E db \in Db : toCtl' = Put(toCtl, {r}, [type |-> "tick_response", db |-> db])

\* A command of the controller is read when there is no datagram.
recv_ctl_command(r) ==
  /\ process[r].alive /\ uni_fd[r] = <<>> /\ toNode[r] # <<>>
  /\ LET m == Head(toNode[r])
     IN  CASE m.type = "first_tick" ->
                /\ process' = [process EXCEPT ![r].ticks = m.tick, ![r].ospf = TRUE]
                /\ UNCHANGED <<uni_fd, sent, toCtl>>
           [] m.type = "tick" -> SimTick(r, m)
           [] m.type = "addrmap" ->
                /\ process' = [process EXCEPT ![r].address_map = Merge(@, m.maps)]
                /\ UNCHANGED <<uni_fd, sent, toCtl>>
  /\ toNode' = [toNode EXCEPT ![r] = Tail(@)]
  /\ UNCHANGED <<n_ticks, ifmaps, node, stats, starts>>

-----------------------------------------------------------------------------
Init ==
  /\ n_ticks = 0
  /\ ifmaps = {} /\ stats = [d \in {} |-> 0]
  /\ node = [r \in Router |-> NoNode]
  /\ process = [r \in Router |-> NoProcess]
  /\ toNode = [r \in Router |-> <<>>]
  /\ toCtl = [r \in Router |-> <<>>]
  /\ uni_fd = [r \in Router |-> <<>>]
  /\ starts = 0 /\ sent = 0

Next ==
  \/ tick \/ store_mapping
  \/ \E r \in Router :
       \/ simnode_handler_read(r) \/ delete_router(r)
       \/ Start(r) \/ Crash(r)
       \/ process_uni_fd(r) \/ recv_ctl_command(r)

(* The controller's timer goes off again and again; the processes run.     *)
Fairness ==
  /\ WF_simVars(tick)
  /\ \A r \in Router :
       /\ WF_simVars(simnode_handler_read(r))
       /\ WF_simVars(delete_router(r))
       /\ WF_simVars(process_uni_fd(r))
       /\ WF_simVars(recv_ctl_command(r))

Spec == Init /\ [][Next]_simVars

-----------------------------------------------------------------------------
(* The routers keep step: the time of a router that runs is the            *)
(* controller's or the tick before, and no packet waits for longer than    *)
(* the next tick but one, however the packets run ahead of the ticks.      *)
InLockstep ==
  \A r \in Up :
    process[r].ospf =>
      /\ n_ticks - 1 <= process[r].ticks /\ process[r].ticks <= n_ticks
      /\ \A i \in DOMAIN process[r].rcvq : process[r].rcvq[i] <= Units * (process[r].ticks + 2)

(* "Send address to port maps" (sim.C:524): when a router has read what    *)
(* the controller sent it, its map has the addresses of the routers that   *)
(* are there, with their present ports, and no other, whatever routers     *)
(* came and went; and every statistic is counted once for each node.       *)
MapsAgree ==
  /\ \A r \in Up :
       process[r].alive /\ toNode[r] = <<>> => process[r].address_map = MapsOf(ifmaps, node)
  /\ \A d \in Db : (IF d \in DOMAIN stats THEN stats[d] ELSE 0)
                     = Cardinality({r \in Up : node[r].dbstats = d})
  /\ \A d \in DOMAIN stats : stats[d] > 0

(* The clock goes on while routers run, crash and join:                    *)
(* "simply send timer ticks to each simulated OSPF router and     *)
(* wait for their replies" (sim.C:166).                                    *)
ClockAdvances == <>(n_ticks = MaxTicks)
=============================================================================
