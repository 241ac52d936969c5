------------------------------ MODULE Flooding ------------------------------
(***************************************************************************)
(* Reliable flooding of one LSA among several routers: recv_update() and   *)
(* flood() of spflood.C, recv_ack() and the timers of spfack.C, as each    *)
(* router runs them on its interfaces, while packets are lost and          *)
(* overtaken and a router stops working.                                   *)
(*                                                                         *)
(* On a LAN only the DR and the Backup are adjacent to everyone.  An       *)
(* instance that another router sends to the two is sent on by the DR, to  *)
(* all; every router keeps it on the list of each neighbour that has not   *)
(* shown that it has it.  All adjacencies are Full.  The lists are one set *)
(* here (LsaRxmt has the three of them, their window and their timer).     *)
(***************************************************************************)
EXTENDS Naturals, FiniteSets

CONSTANTS
  Router,
  Link,        \* networks and point-to-point links
  Wirings,     \* what may be connected to what, see below
  Origin,      \* the router that originates the LSA
  None,        \* no router, no neighbour
  MaxInst,     \* bound: instances originated
  MaxLoss,     \* bound: packets lost, for one receiver each
  MaxFail      \* bound: routers that stop working

(* A wiring: the routers on each link and, of a network, which of them has *)
(* been elected DR and which Backup, if any; no DR on a point-to-point     *)
(* link.  The others have priority 0: when the DR stops the Backup takes   *)
(* over and there is no new Backup, which would need new adjacencies       *)
(* (IfcFsm, DDExchange).  Two bounds: the routers that may stop, and how   *)
(* much may be under way when the next instance is originated.             *)
Wiring == [attached : [Link -> SUBSET Router],
           dr : [Link -> Router \cup {None}], bdr : [Link -> Router \cup {None}],
           mayfail : SUBSET Router, late : Nat]

ASSUME FloodingAssumption ==
  /\ Origin \in Router /\ None \notin Router \cup (Link \X Router)
  /\ Wirings \subseteq Wiring
  /\ {MaxInst, MaxLoss, MaxFail} \subseteq Nat

VARIABLES
  wiring,  \* which of them it is
  rtr,     \* the routers
  net,     \* packets under way
  working, \* the routers that work
  newest,  \* instances originated
  losses   \* packets lost

vars == <<wiring, rtr, net, working, newest, losses>>

RouterRecord == [
  db    : Nat,                       \* the instance in the database, 0 if none
  rxlst : SUBSET (Link \X Router),   \* neighbours that have it on their list
  dack  : SUBSET (Link \X Nat),      \* if_dack: acknowledgments held back
  sent_reply : BOOLEAN,              \* LSA::sent_reply
  nbrs  : SUBSET Router]             \* neighbours that are not Down

Packet == [type : {"update", "ack"}, inst : Nat, link : Link, from : Router, to : Router]

TypeOK ==
  /\ wiring \in Wirings
  /\ rtr \in [Router -> RouterRecord]
  /\ net \subseteq Packet
  /\ working \subseteq Router
  /\ newest \in Nat

Attached(l) == wiring.attached[l]
PointToPoint(l) == wiring.dr[l] = None
Leaders(l) == {wiring.dr[l], wiring.bdr[l]}

NewRouter(r) ==
  [db |-> 0, rxlst |-> {}, dack |-> {}, sent_reply |-> FALSE, nbrs |-> Router \ {r}]

Init ==
  /\ wiring \in Wirings
  /\ rtr = [r \in Router |-> NewRouter(r)]
  /\ net = {} /\ newest = 0 /\ losses = 0
  /\ working = UNION {Attached(l) : l \in Link}

-----------------------------------------------------------------------------
(* Who is Backup or DR of a network as r sees it: once r has noticed that  *)
(* the DR is gone the Backup is DR.                                        *)
Noticed(r, q) == q # r /\ q \notin rtr[r].nbrs

is_bdr(r, l, q) == q = wiring.bdr[l] /\ ~Noticed(r, wiring.dr[l])

is_dr(r, l, q) ==
  \/ q = wiring.dr[l]
  \/ q = wiring.bdr[l] /\ Noticed(r, wiring.dr[l])

(* Neighbours of r, with the link, that are at least in Exchange. *)
Adjacent(r) ==
  {a \in Link \X rtr[r].nbrs :
     /\ {r, a[2]} \subseteq Attached(a[1])
     /\ PointToPoint(a[1]) \/ {r, a[2]} \cap Leaders(a[1]) # {}}

(* if_faddr is AllSPFRouters, or, of a router that is neither DR nor       *)
(* Backup, AllDRouters; each reaches whoever has joined the group.         *)
Receivers(r, l) ==
  {q \in Attached(l) \ {r} : PointToPoint(l) \/ {r, q} \cap Leaders(l) # {}}

Pkt(type, i, r, l, q) == [type |-> type, inst |-> i, link |-> l, from |-> r, to |-> q]

if_send(type, i, r, l) == {Pkt(type, i, r, l, q) : q \in Receivers(r, l)}

nbr_send(type, i, r, a) == {Pkt(type, i, r, a[1], a[2])}

(* The network: what a handler sends is under way, but for what is lost    *)
(* and for what is sent to a router that does not work.                    *)
Send(out, rest) ==
  \E lost \in SUBSET {p \in out : p.to \in working} :
    /\ losses + Cardinality(lost) <= MaxLoss
    /\ losses' = losses + Cardinality(lost)
    /\ net' = rest \cup ({p \in out : p.to \in working} \ lost)

-----------------------------------------------------------------------------
(* flood(): instance i, which r got from the neighbour and over the link   *)
(* in from, or originated (None), goes on the list of every other adjacent *)
(* neighbour and out of every interface that has one; back out of the      *)
(* interface it came in by only from the DR, unless the Backup sent it.    *)
FloodsBack_FromBackup(r, from, to) ==
  /\ is_dr(r, from[1], r)
  /\ is_bdr(r, from[1], from[2])
  /\ \E a \in to : a[1] = from[1]

FloodsBack(r, from, to) ==
  /\ is_dr(r, from[1], r)
  /\ ~is_bdr(r, from[1], from[2])
  /\ \E a \in to : a[1] = from[1]

GoesOut(r, from, to) ==
  {a[1] : a \in {b \in to : \/ from = None
                            \/ b[1] # from[1]
                            \/ FloodsBack(r, from, to)}}

Listed_LeftToDR(r, from) ==
  {a \in Adjacent(r) \ {from} :
     from = None \/ a[1] # from[1] \/ is_dr(r, a[1], r)}

Listed(r, from) == Adjacent(r) \ {from}

Flooded(r, i, from) ==
  LET to  == Listed(r, from)
      ack == IF from = None \/ FloodsBack(r, from, to) THEN {} ELSE {<<from[1], i>>}
  IN  [rtr |-> [db |-> i, rxlst |-> to, dack |-> rtr[r].dack \cup ack,
                sent_reply |-> FALSE, nbrs |-> rtr[r].nbrs],
       out |-> UNION {if_send("update", i, r, l) : l \in GoesOut(r, from, to)}]

(* Packets and acknowledgments that have not reached their receivers yet. *)
Unsettled == Cardinality(net) + Cardinality(UNION {{r} \X rtr[r].dack : r \in Router})

Originate ==
  /\ Origin \in working
  /\ newest < MaxInst
  /\ Unsettled <= wiring.late
  /\ newest' = newest + 1
  /\ rtr' = [rtr EXCEPT ![Origin] = Flooded(Origin, newest + 1, None).rtr]
  /\ Send(Flooded(Origin, newest + 1, None).out, net)
  /\ UNCHANGED <<wiring, working>>

(* The LSA received is the database's: it acknowledges it, or, if no       *)
(* acknowledgment is due, is acknowledged at once.                         *)
ReceivedSame_NoAck(r, from) ==
  [rtr |-> [rtr[r] EXCEPT !.rxlst = @ \ {from}], out |-> {}]

ReceivedSame(r, from) ==
  [rtr |-> [rtr[r] EXCEPT !.rxlst = @ \ {from}],
   out |-> IF from \in rtr[r].rxlst THEN {} ELSE nbr_send("ack", rtr[r].db, r, from)]

(* It is older: the database's is sent back, once in a second. *)
ReceivedOlder(r, from) ==
  [rtr |-> [rtr[r] EXCEPT !.sent_reply = TRUE],
   out |-> IF rtr[r].sent_reply THEN {} ELSE nbr_send("update", rtr[r].db, r, from)]

Received_AnyOther(r, i, from) ==
  IF from \notin Adjacent(r) THEN [rtr |-> rtr[r], out |-> {}]
  ELSE IF i = rtr[r].db THEN ReceivedSame(r, from)
  ELSE Flooded(r, i, from)

Received(r, i, from) ==
  IF from \notin Adjacent(r) THEN [rtr |-> rtr[r], out |-> {}]
  ELSE IF i > rtr[r].db THEN Flooded(r, i, from)
  ELSE IF i = rtr[r].db THEN ReceivedSame(r, from)
  ELSE ReceivedOlder(r, from)

recv_update(p) ==
  LET got == Received(p.to, p.inst, <<p.link, p.from>>)
  IN  /\ p.type = "update"
      /\ rtr' = [rtr EXCEPT ![p.to] = got.rtr]
      /\ Send(got.out, net \ {p})
      /\ UNCHANGED <<wiring, working, newest>>

(* Only an acknowledgment of the database's instance counts. *)
Acknowledges_AnyInstance(p) == <<p.link, p.from>> \in Adjacent(p.to)

Acknowledges(p) == p.inst = rtr[p.to].db /\ <<p.link, p.from>> \in Adjacent(p.to)

recv_ack(p) ==
  /\ p.type = "ack"
  /\ rtr' = [rtr EXCEPT ![p.to].rxlst =
               IF Acknowledges(p) THEN @ \ {<<p.link, p.from>>} ELSE @]
  /\ net' = net \ {p}
  /\ UNCHANGED <<wiring, working, newest, losses>>

(* DAckTimer: the acknowledgments held back for an interface are sent. *)
DAckTimer(r, l) ==
  LET held == {a \in rtr[r].dack : a[1] = l}
  IN  /\ held # {}
      /\ rtr' = [rtr EXCEPT ![r].dack = @ \ held]
      /\ Send(UNION {if_send("ack", a[2], r, l) : a \in held}, net)
      /\ UNCHANGED <<wiring, working, newest>>

(* LsaRxmtTimer: the LSA is sent again to a neighbour that has it on its   *)
(* list.  RxmtInterval is five seconds, an acknowledgment is held back for *)
(* one: what was sent before has arrived, been lost or been answered.      *)
Retransmit(r, a) ==
  /\ r \in working
  /\ a \in rtr[r].rxlst /\ a[2] \in working
  /\ Unsettled = 0
  /\ Send(nbr_send("update", rtr[r].db, r, a), net)
  /\ UNCHANGED <<wiring, rtr, working, newest>>

(* DBageTimer clears the reply flags. *)
Tick(r) ==
  /\ rtr[r].sent_reply
  /\ rtr' = [rtr EXCEPT ![r].sent_reply = FALSE]
  /\ UNCHANGED <<wiring, net, working, newest, losses>>

(* A router stops working. *)
Fail(r) ==
  /\ r \in working \cap wiring.mayfail
  /\ Cardinality(UNION {Attached(l) : l \in Link} \ working) < MaxFail
  /\ working' = working \ {r}
  /\ rtr' = [rtr EXCEPT ![r] = [NewRouter(r) EXCEPT !.nbrs = {}]]
  /\ net' = {p \in net : p.to # r}
  /\ UNCHANGED <<wiring, newest, losses>>

(* InactTimer, at one of the others: the neighbour's lists are cleared and *)
(* the interface elects, after which the Backup may be DR.                 *)
InactTimer(r, q) ==
  /\ q \in rtr[r].nbrs \ working
  /\ rtr' = [rtr EXCEPT ![r].nbrs = @ \ {q},
                        ![r].rxlst = {a \in @ : a[2] # q}]
  /\ UNCHANGED <<wiring, net, working, newest, losses>>

Arrival == \E p \in net : recv_update(p) \/ recv_ack(p)

Rxmt(r) == \E a \in Link \X Router : Retransmit(r, a)

Timer(r) ==
  \/ Tick(r)
  \/ \E l \in Link : DAckTimer(r, l)
  \/ \E q \in Router : InactTimer(r, q)

Next ==
  \/ Originate
  \/ Arrival
  \/ \E r \in Router : Rxmt(r) \/ Timer(r) \/ Fail(r)

(* Packets arrive or are lost, and every timer fires: that of the          *)
(* retransmissions is started again and again, though packets come and go. *)
Fairness ==
  /\ WF_vars(Arrival)
  /\ \A r \in Router : SF_vars(Rxmt(r)) /\ WF_vars(Timer(r))

Spec == Init /\ [][Next]_vars /\ Fairness

-----------------------------------------------------------------------------
(* While an adjacent router that works holds an older instance, the newer  *)
(* one is on its list.                                                     *)
NewerIsListed ==
  \A r \in working : \A a \in Adjacent(r) :
    a[2] \in working /\ rtr[a[2]].db < rtr[r].db => a \in rtr[r].rxlst

(* What is under way and held back is not ahead of its sender's database,  *)
(* nor is any database ahead of what was originated.                       *)
NothingInvented ==
  /\ \A r \in Router : rtr[r].db <= newest
  /\ \A r \in Router : \A a \in rtr[r].dack : a[2] <= rtr[r].db
  /\ \A p \in net :
       /\ p.to \in working
       /\ p.inst <= newest
       /\ p.from \in working => p.inst <= rtr[p.from].db

(* No router forgets a neighbour that is behind, whatever was lost, came   *)
(* late, was acknowledged for another instance or left to the DR.          *)
NoneForgotten == TypeOK /\ NothingInvented /\ NewerIsListed

(* One round is enough: if nothing is lost and nobody fails every router   *)
(* has the last instance as soon as nothing is under way, before any       *)
(* retransmission, though each router sends it out of some of its          *)
(* interfaces only.                                                        *)
ReachesAll ==
  losses = 0 /\ working = UNION {Attached(l) : l \in Link} /\ Unsettled = 0 =>
    \A r \in working : rtr[r].db = newest

(* Flooding implements replicas that only get newer and become equal.      *)
R == INSTANCE Replicas WITH
       held  <- [r \in Router |-> rtr[r].db],
       alive <- working

Replicates == R!Spec

(* The part of it that does not need fairness. *)
ReplicatesSafely == R!Init /\ [][R!Next]_(R!vars)

(* Flooding comes to an end: acknowledgments, explicit or implied, empty   *)
(* every list, and nothing is sent any more.                               *)
FloodingEnds ==
  <>[](net = {} /\ \A r \in working : rtr[r].rxlst = {} /\ rtr[r].dack = {})
=============================================================================
