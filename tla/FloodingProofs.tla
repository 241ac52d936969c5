--------------------------- MODULE FloodingProofs ---------------------------
(***************************************************************************)
(* Proofs about Flooding, for any routers, links, wirings and bounds: no   *)
(* router forgets a neighbour that is behind, and every step is one that   *)
(* the abstract replicas can take; and about LsaRxmt, whose lists Flooding *)
(* has as sets (second part).                                              *)
(*                                                                         *)
(* What an action of Flooding does is one of two things: a handler of one  *)
(* router gives it a new record and sends packets (lemma HandlerKeeps), or *)
(* packets, neighbours and routers disappear.                              *)
(***************************************************************************)
EXTENDS Flooding, LsaRxmt, Recursion, FiniteSetTheorems, TLAPS

(* A packet that router r may send when the instance in its database is i. *)
MaySend(r, i) == {p \in Packet : p.from = r /\ p.inst <= i}

(* What a handler of router r may make of its record, with packets out.    *)
MayBecome(r, rec, out) ==
  /\ rec \in RouterRecord
  /\ rec.nbrs = rtr[r].nbrs
  /\ rtr[r].db <= rec.db
  /\ \A a \in rec.dack : a[2] <= rec.db
  /\ out \subseteq MaySend(r, rec.db)
  /\ r \in working =>
       \A a \in Adjacent(r) :
         a[2] \in working /\ rtr[a[2]].db < rec.db => a \in rec.rxlst

(* It does so, and nothing else happens but that packets of net disappear. *)
Handles(r, rec, out) ==
  /\ MayBecome(r, rec, out)
  /\ newest' \in Nat /\ newest <= newest' /\ rec.db <= newest'
  /\ rtr' = [rtr EXCEPT ![r] = rec]
  /\ net' \subseteq net \cup {p \in out : p.to \in working}
  /\ UNCHANGED <<wiring, working>>

-----------------------------------------------------------------------------
LEMMA WiringType ==
  ASSUME TypeOK
  PROVE  /\ wiring \in Wiring
         /\ \A l \in Link : Attached(l) \subseteq Router
         /\ wiring.late \in Nat /\ wiring.mayfail \subseteq Router
BY FloodingAssumption DEF TypeOK, Wiring, Attached

LEMMA RecordType ==
  ASSUME TypeOK, NEW r \in Router
  PROVE  /\ rtr[r] \in RouterRecord
         /\ rtr[r].db \in Nat
         /\ rtr[r].rxlst \subseteq Link \X Router
         /\ rtr[r].dack \subseteq Link \X Nat
         /\ rtr[r].sent_reply \in BOOLEAN
         /\ rtr[r].nbrs \subseteq Router
BY DEF TypeOK, RouterRecord

(* A record is what its fields are. *)
LEMMA FiveFields ==
  ASSUME NEW inst \in Nat, NEW rxlst \in SUBSET (Link \X Router),
         NEW dack \in SUBSET (Link \X Nat), NEW reply \in BOOLEAN,
         NEW nbrs \in SUBSET Router
  PROVE  [db |-> inst, rxlst |-> rxlst, dack |-> dack, sent_reply |-> reply,
          nbrs |-> nbrs] \in RouterRecord
BY DEF RouterRecord

LEMMA AdjacentType ==
  ASSUME TypeOK, NEW r \in Router
  PROVE  Adjacent(r) \subseteq Link \X Router
BY RecordType DEF Adjacent

LEMMA ReplyField ==
  ASSUME NEW x \in RouterRecord, NEW reply \in BOOLEAN
  PROVE  LET y == [x EXCEPT !.sent_reply = reply]
         IN  /\ y \in RouterRecord
             /\ y.db = x.db /\ y.rxlst = x.rxlst /\ y.dack = x.dack /\ y.nbrs = x.nbrs
<1> DEFINE y == [x EXCEPT !.sent_reply = reply]
<1>1. y = [db |-> x.db, rxlst |-> x.rxlst, dack |-> x.dack, sent_reply |-> reply,
           nbrs |-> x.nbrs]
  BY DEF RouterRecord
<1>2. /\ x.db \in Nat /\ x.rxlst \in SUBSET (Link \X Router)
      /\ x.dack \in SUBSET (Link \X Nat) /\ x.nbrs \in SUBSET Router
  BY DEF RouterRecord
<1>3. y \in RouterRecord
  BY <1>1, <1>2, FiveFields
<1> QED  BY <1>1, <1>3

(* Whatever is sent comes from the sender, with the instance given. *)
LEMMA NbrSendType ==
  ASSUME NEW r \in Router, NEW i \in Nat, NEW a \in Link \X Router,
         NEW type \in {"update", "ack"}
  PROVE  nbr_send(type, i, r, a) \subseteq MaySend(r, i)
BY DEF nbr_send, Pkt, MaySend, Packet

LEMMA IfSendType ==
  ASSUME TypeOK, NEW r \in Router, NEW i \in Nat, NEW l \in Link,
         NEW type \in {"update", "ack"}
  PROVE  if_send(type, i, r, l) \subseteq MaySend(r, i)
<1>1. Receivers(r, l) \subseteq Router
  BY WiringType DEF Receivers
<1> QED  BY <1>1 DEF if_send, Pkt, MaySend, Packet

-----------------------------------------------------------------------------
(* Sending adds packets for routers that work.                             *)
LEMMA SentArrivesOrNot ==
  ASSUME NEW out, NEW rest \in SUBSET net, Send(out, rest)
  PROVE  net' \subseteq net \cup {p \in out : p.to \in working}
BY DEF Send

(* A handler keeps the invariant.                                          *)
LEMMA HandlerKeeps ==
  ASSUME NoneForgotten, NEW r \in Router, NEW rec, NEW out, Handles(r, rec, out)
  PROVE  NoneForgotten'
<1> USE DEF NoneForgotten, MayBecome, Handles
<1>1. rtr' \in [Router -> RouterRecord] /\ rtr'[r] = rec
  BY DEF TypeOK
<1>2. \A s \in Router \ {r} : rtr'[s] = rtr[s]
  BY DEF TypeOK
<1>3. /\ rec.db \in Nat /\ newest \in Nat
      /\ \A s \in Router : rtr[s].db \in Nat
  BY DEF RouterRecord, TypeOK
<1>4. \A s \in Router : rtr[s].db <= rtr'[s].db
  BY <1>1, <1>2, <1>3
<1>5. \A p \in net' : p \in net \/ (p \in out /\ p.to \in working)
  OBVIOUS
<1>6. TypeOK'
  <2>1. net' \subseteq Packet
    BY <1>5 DEF MaySend, TypeOK
  <2> QED  BY <1>1, <2>1 DEF TypeOK
<1>7. NothingInvented'
  <2>1. \A s \in Router : rtr'[s].db <= newest'
    <3> TAKE s \in Router
    <3>1. CASE s = r
      BY <1>1, <3>1
    <3>2. CASE s # r
      <4>1. rtr'[s].db = rtr[s].db /\ rtr[s].db <= newest
        BY <1>2, <3>2 DEF NothingInvented
      <4> QED  BY <4>1, <1>3
    <3> QED  BY <3>1, <3>2
  <2>2. \A s \in Router : \A a \in rtr'[s].dack : a[2] <= rtr'[s].db
    <3> TAKE s \in Router
    <3>1. CASE s = r
      BY <1>1, <3>1
    <3>2. CASE s # r
      BY <1>2, <3>2 DEF NothingInvented
    <3> QED  BY <3>1, <3>2
  <2>3. ASSUME NEW p \in net'
        PROVE  /\ p.to \in working'
               /\ p.inst <= newest'
               /\ p.from \in working' => p.inst <= rtr'[p.from].db
    <3>1. p.inst \in Nat /\ p.from \in Router
      BY <1>6 DEF TypeOK, Packet
    <3>2. CASE p \in net
      <4>1. /\ p.to \in working /\ p.inst <= newest
            /\ p.from \in working => p.inst <= rtr[p.from].db
        BY <3>2 DEF NothingInvented
      <4>2. rtr'[p.from].db \in Nat
        BY <1>1, <3>1 DEF RouterRecord
      <4> QED  BY <4>1, <4>2, <3>1, <1>3, <1>4
    <3>3. CASE p \in out /\ p.to \in working
      <4>1. p.from = r /\ p.inst <= rec.db
        BY <3>3 DEF MaySend
      <4> QED  BY <4>1, <3>1, <3>3, <1>1, <1>3
    <3> QED  BY <1>5, <3>2, <3>3
  <2> QED  BY <2>1, <2>2, <2>3 DEF NothingInvented
<1>8. NewerIsListed'
  <2>1. \A s \in Router : Adjacent(s)' = Adjacent(s)
    BY <1>1, <1>2 DEF Adjacent, Attached, PointToPoint, Leaders
  <2>2. ASSUME NEW s \in working, NEW a \in Adjacent(s),
               a[2] \in working, rtr'[a[2]].db < rtr'[s].db
        PROVE  a \in rtr'[s].rxlst
    <3>1. s \in Router /\ a[2] \in Router
      BY <2>2, AdjacentType DEF TypeOK
    <3>2. rtr'[a[2]].db \in Nat /\ rtr'[s].db \in Nat
      BY <1>1, <3>1 DEF RouterRecord
    <3>3. rtr[a[2]].db < rtr'[s].db
      BY <1>3, <1>4, <2>2, <3>1, <3>2
    <3>4. CASE s = r
      BY <1>1, <2>2, <3>3, <3>4
    <3>5. CASE s # r
      BY <1>2, <2>2, <3>1, <3>3, <3>5 DEF NewerIsListed
    <3> QED  BY <3>4, <3>5
  <2>3. working \subseteq Router
    BY DEF TypeOK
  <2> QED  BY <2>1, <2>2, <2>3 DEF NewerIsListed
<1> QED  BY <1>6, <1>7, <1>8

-----------------------------------------------------------------------------
(* The handlers keep to MayBecome.                                         *)

(* A record that stays as it is. *)
LEMMA SameMayBecome ==
  ASSUME NoneForgotten, NEW r \in Router, NEW out \in SUBSET MaySend(r, rtr[r].db)
  PROVE  MayBecome(r, rtr[r], out)
<1>1. rtr[r].db <= rtr[r].db
  BY RecordType DEF NoneForgotten
<1>2. \A a \in rtr[r].dack : a[2] <= rtr[r].db
  BY DEF NoneForgotten, NothingInvented
<1> QED  BY <1>1, <1>2, RecordType DEF MayBecome, NoneForgotten, NewerIsListed

(* flood(): everyone who may be behind is listed, but for the neighbour    *)
(* the instance came from, which has it.                                   *)
LEMMA FloodedMayBecome ==
  ASSUME NoneForgotten, NEW r \in Router, NEW i \in Nat, rtr[r].db <= i,
         NEW from \in (Link \X Router) \cup {None},
         from # None /\ from[2] \in working => i <= rtr[from[2]].db
  PROVE  MayBecome(r, Flooded(r, i, from).rtr, Flooded(r, i, from).out)
<1> DEFINE to   == Listed(r, from)
           ack  == IF from = None \/ FloodsBack(r, from, to) THEN {} ELSE {<<from[1], i>>}
           dack == rtr[r].dack \cup ack
           rec  == [db |-> i, rxlst |-> to, dack |-> dack, sent_reply |-> FALSE,
                    nbrs |-> rtr[r].nbrs]
           out  == UNION {if_send("update", i, r, l) : l \in GoesOut(r, from, to)}
<1>1. TypeOK
  BY DEF NoneForgotten
<1>2. to \subseteq Link \X Router
  BY <1>1, AdjacentType DEF Listed
<1>3. dack \subseteq Link \X Nat /\ \A a \in dack : a[2] <= i
  <2>1. \A a \in ack : a \in Link \X Nat /\ a[2] <= i
    OBVIOUS
  <2>2. \A a \in rtr[r].dack : a \in Link \X Nat /\ a[2] <= rtr[r].db
    BY <1>1, RecordType DEF NoneForgotten, NothingInvented
  <2>3. \A a \in rtr[r].dack : a[2] <= i
    BY <2>2, <1>1, RecordType
  <2> QED  BY <2>1, <2>2, <2>3
<1>4. rec \in RouterRecord
  BY <1>1, <1>2, <1>3, RecordType, FiveFields
<1>5. out \subseteq MaySend(r, i)
  <2>1. GoesOut(r, from, to) \subseteq Link
    BY <1>2 DEF GoesOut
  <2>2. \A l \in Link : if_send("update", i, r, l) \subseteq MaySend(r, i)
    BY <1>1, IfSendType
  <2> QED  BY <2>1, <2>2
<1>6. ASSUME NEW a \in Adjacent(r), a[2] \in working, rtr[a[2]].db < i
      PROVE  a \in to
  <2>1. a # from
    <3>1. a \in Link \X Router /\ rtr[a[2]].db \in Nat
      BY <1>1, AdjacentType, RecordType
    <3> QED  BY <3>1, <1>6, FloodingAssumption
  <2> QED  BY <2>1 DEF Listed
<1>7. Flooded(r, i, from).rtr = rec /\ Flooded(r, i, from).out = out
  BY DEF Flooded
<1>8. MayBecome(r, rec, out)
  <2> HIDE DEF out, to, dack
  <2> QED  BY <1>3, <1>4, <1>5, <1>6 DEF MayBecome
<1> QED  BY <1>7, <1>8

(* An LSA received: the neighbour that sent the database's instance has    *)
(* it, and may leave the list.                                             *)
LEMMA ReceivedMayBecome ==
  ASSUME NoneForgotten, NEW p \in net
  PROVE  LET got == Received(p.to, p.inst, <<p.link, p.from>>)
         IN  /\ MayBecome(p.to, got.rtr, got.out)
             /\ got.rtr.db <= newest
<1> DEFINE r    == p.to
           i    == p.inst
           from == <<p.link, p.from>>
           got  == Received(r, i, from)
<1>1. /\ TypeOK /\ r \in Router /\ i \in Nat /\ from \in Link \X Router
      /\ newest \in Nat
  BY DEF NoneForgotten, TypeOK, Packet
<1>2. i <= newest /\ (from[2] \in working => i <= rtr[from[2]].db)
  BY DEF NoneForgotten, NothingInvented
<1>3. /\ rtr[r].db \in Nat /\ rtr[r].db <= newest
      /\ rtr[from[2]].db \in Nat
  BY <1>1, RecordType DEF NoneForgotten, NothingInvented
<1>4. CASE from \notin Adjacent(r)
  <2>1. got.rtr = rtr[r] /\ got.out = {}
    BY <1>4 DEF Received
  <2> QED  BY <2>1, <1>1, <1>3, SameMayBecome
<1>5. CASE from \in Adjacent(r) /\ i > rtr[r].db
  <2>1. got = Flooded(r, i, from)
    BY <1>5 DEF Received
  <2>2. MayBecome(r, Flooded(r, i, from).rtr, Flooded(r, i, from).out)
    BY <1>1, <1>2, <1>3, <1>5, FloodedMayBecome
  <2>3. Flooded(r, i, from).rtr.db = i
    BY DEF Flooded
  <2> QED  BY <2>1, <2>2, <2>3, <1>2
<1>6. CASE from \in Adjacent(r) /\ i = rtr[r].db
  <2> DEFINE rec == [rtr[r] EXCEPT !.rxlst = @ \ {from}]
  <2>1. got.rtr = rec /\ got.out \subseteq nbr_send("ack", rtr[r].db, r, from)
    BY <1>3, <1>6 DEF Received, ReceivedSame
  <2>2. got.out \subseteq MaySend(r, rtr[r].db)
    BY <2>1, <1>1, <1>3, NbrSendType
  <2>3. MayBecome(r, rtr[r], got.out)
    BY <1>1, <2>2, SameMayBecome
  <2>4. rec \in RouterRecord /\ rec.db = rtr[r].db /\ rec.nbrs = rtr[r].nbrs
        /\ rec.dack = rtr[r].dack /\ rec.rxlst = rtr[r].rxlst \ {from}
    BY <1>1, RecordType DEF RouterRecord
  <2>5. \A a \in Adjacent(r) :
          a[2] \in working /\ rtr[a[2]].db < rec.db => a # from
    BY <1>2, <1>3, <1>6, <2>4
  <2>6. MayBecome(r, rec, got.out)
    <3> HIDE DEF rec, got
    <3> QED  BY <2>3, <2>4, <2>5 DEF MayBecome
  <2> QED  BY <2>1, <2>4, <2>6, <1>3
<1>7. CASE from \in Adjacent(r) /\ i < rtr[r].db
  <2> DEFINE rec == [rtr[r] EXCEPT !.sent_reply = TRUE]
  <2>1. got.rtr = rec /\ got.out \subseteq nbr_send("update", rtr[r].db, r, from)
    BY <1>1, <1>3, <1>7 DEF Received, ReceivedOlder
  <2>2. MayBecome(r, rtr[r], got.out)
    BY <2>1, <1>1, <1>3, NbrSendType, SameMayBecome
  <2>3. rec \in RouterRecord /\ rec.db = rtr[r].db /\ rec.nbrs = rtr[r].nbrs
        /\ rec.dack = rtr[r].dack /\ rec.rxlst = rtr[r].rxlst
    BY <1>1, RecordType, ReplyField
  <2>4. MayBecome(r, rec, got.out)
    <3> HIDE DEF rec, got
    <3> QED  BY <2>2, <2>3 DEF MayBecome
  <2> QED  BY <2>1, <2>3, <2>4, <1>3
<1> QED  BY <1>1, <1>3, <1>4, <1>5, <1>6, <1>7

(* A record that loses nothing but what is listed in vain, or what is      *)
(* acknowledged.                                                           *)
LEMMA FewerListed ==
  ASSUME NoneForgotten, NEW r \in Router, NEW gone,
         r \in working => \A a \in Adjacent(r) \cap gone :
                            ~(a[2] \in working /\ rtr[a[2]].db < rtr[r].db)
  PROVE  MayBecome(r, [rtr[r] EXCEPT !.rxlst = @ \ gone], {})
<1> DEFINE rec == [rtr[r] EXCEPT !.rxlst = @ \ gone]
<1>1. /\ rec \in RouterRecord /\ rec.db = rtr[r].db /\ rec.nbrs = rtr[r].nbrs
      /\ rec.dack = rtr[r].dack /\ rec.rxlst = rtr[r].rxlst \ gone
  BY RecordType DEF NoneForgotten, RouterRecord
<1>2. MayBecome(r, rtr[r], {})
  BY SameMayBecome
<1>3. MayBecome(r, rec, {})
  <2> HIDE DEF rec
  <2> QED  BY <1>1, <1>2 DEF MayBecome, MaySend
<1> QED  BY <1>3

LEMMA FewerHeldBack ==
  ASSUME NoneForgotten, NEW r \in Router, NEW held \in SUBSET rtr[r].dack,
         NEW out \in SUBSET MaySend(r, rtr[r].db)
  PROVE  MayBecome(r, [rtr[r] EXCEPT !.dack = @ \ held], out)
<1> DEFINE rec == [rtr[r] EXCEPT !.dack = @ \ held]
<1>1. /\ rec \in RouterRecord /\ rec.db = rtr[r].db /\ rec.nbrs = rtr[r].nbrs
      /\ rec.dack = rtr[r].dack \ held /\ rec.rxlst = rtr[r].rxlst
  BY RecordType DEF NoneForgotten, RouterRecord
<1>2. MayBecome(r, rtr[r], out)
  BY SameMayBecome
<1>3. MayBecome(r, rec, out)
  <2> HIDE DEF rec
  <2> QED  BY <1>1, <1>2 DEF MayBecome
<1> QED  BY <1>3

-----------------------------------------------------------------------------
(* The actions keep the invariant.                                         *)
LEMMA NewestType == NoneForgotten => newest \in Nat /\ working \subseteq Router
BY DEF NoneForgotten, TypeOK

LEMMA OriginateKeeps == NoneForgotten /\ Originate => NoneForgotten'
<1> SUFFICES ASSUME NoneForgotten, Originate PROVE NoneForgotten'
  OBVIOUS
<1> DEFINE f == Flooded(Origin, newest + 1, None)
<1>1. Origin \in Router /\ newest \in Nat
  BY NewestType, FloodingAssumption
<1>2. rtr[Origin].db \in Nat /\ rtr[Origin].db <= newest
  BY <1>1, RecordType DEF NoneForgotten, NothingInvented
<1>3. MayBecome(Origin, f.rtr, f.out)
  BY <1>1, <1>2, FloodedMayBecome
<1>4. f.rtr.db = newest + 1
  BY DEF Flooded
<1>5. net' \subseteq net \cup {p \in f.out : p.to \in working}
  BY SentArrivesOrNot DEF Originate
<1>6. /\ newest' = newest + 1 /\ rtr' = [rtr EXCEPT ![Origin] = f.rtr]
      /\ UNCHANGED <<wiring, working>>
  BY DEF Originate
<1> HIDE DEF f
<1>7. Handles(Origin, f.rtr, f.out)
  BY <1>1, <1>3, <1>4, <1>5, <1>6 DEF Handles
<1> QED  BY <1>1, <1>7, HandlerKeeps

LEMMA RecvUpdateKeeps ==
  ASSUME NoneForgotten, NEW p \in net, recv_update(p)
  PROVE  NoneForgotten'
<1> DEFINE got == Received(p.to, p.inst, <<p.link, p.from>>)
<1>1. p.to \in Router /\ newest \in Nat
  BY DEF NoneForgotten, TypeOK, Packet
<1>2. MayBecome(p.to, got.rtr, got.out) /\ got.rtr.db <= newest
  BY ReceivedMayBecome
<1>3. net' \subseteq net \cup {q \in got.out : q.to \in working}
  BY SentArrivesOrNot DEF recv_update
<1>4. rtr' = [rtr EXCEPT ![p.to] = got.rtr] /\ UNCHANGED <<wiring, working, newest>>
  BY DEF recv_update
<1> HIDE DEF got
<1>5. Handles(p.to, got.rtr, got.out)
  BY <1>1, <1>2, <1>3, <1>4 DEF Handles
<1> QED  BY <1>1, <1>5, HandlerKeeps

(* The database's instance acknowledged, the sender has it.                *)
LEMMA RecvAckKeeps ==
  ASSUME NoneForgotten, NEW p \in net, recv_ack(p)
  PROVE  NoneForgotten'
<1> DEFINE r    == p.to
           gone == IF Acknowledges(p) THEN {<<p.link, p.from>>} ELSE {}
           rec  == [rtr[r] EXCEPT !.rxlst = @ \ gone]
<1>1. /\ r \in Router /\ p.from \in Router /\ p.inst \in Nat /\ newest \in Nat
      /\ TypeOK
  BY DEF NoneForgotten, TypeOK, Packet
<1>2. p.from \in working => p.inst <= rtr[p.from].db
  BY DEF NoneForgotten, NothingInvented
<1>3. /\ rtr[r].db \in Nat /\ rtr[p.from].db \in Nat /\ rtr[r].db <= newest
      /\ rtr[r] \in RouterRecord
  BY <1>1, RecordType DEF NoneForgotten, NothingInvented
<1>4. MayBecome(r, rec, {})
  <2>1. ASSUME NEW a \in gone, a[2] \in working
        PROVE  ~(rtr[a[2]].db < rtr[r].db)
    <3>1. a = <<p.link, p.from>> /\ p.inst = rtr[r].db
      BY <2>1 DEF Acknowledges
    <3> QED  BY <3>1, <2>1, <1>1, <1>2, <1>3
  <2> HIDE DEF gone, r
  <2> QED  BY <2>1, <1>1, FewerListed
<1>5. rec.db = rtr[r].db
  BY <1>3 DEF RouterRecord
<1>6. rtr' = [rtr EXCEPT ![r] = rec]
  BY <1>1 DEF recv_ack, TypeOK
<1>7. net' \subseteq net \cup {q \in {} : q.to \in working} /\ UNCHANGED <<wiring, working, newest>>
  BY DEF recv_ack
<1> HIDE DEF rec, r
<1>8. Handles(r, rec, {})
  BY <1>1, <1>3, <1>4, <1>5, <1>6, <1>7 DEF Handles
<1> QED  BY <1>1, <1>8, HandlerKeeps

LEMMA DAckTimerKeeps ==
  ASSUME NoneForgotten, NEW r \in Router, NEW l \in Link, DAckTimer(r, l)
  PROVE  NoneForgotten'
<1> DEFINE held == {a \in rtr[r].dack : a[1] = l}
           out  == UNION {if_send("ack", a[2], r, l) : a \in held}
           rec  == [rtr[r] EXCEPT !.dack = @ \ held]
<1>1. /\ TypeOK /\ newest \in Nat /\ rtr[r] \in RouterRecord
      /\ rtr[r].db \in Nat /\ rtr[r].db <= newest
  BY RecordType, NewestType DEF NoneForgotten, NothingInvented
<1>2. out \subseteq MaySend(r, rtr[r].db)
  <2>1. ASSUME NEW a \in held
        PROVE  if_send("ack", a[2], r, l) \subseteq MaySend(r, rtr[r].db)
    <3>1. a[2] \in Nat /\ a[2] <= rtr[r].db
      BY <1>1, RecordType DEF NoneForgotten, NothingInvented
    <3>2. if_send("ack", a[2], r, l) \subseteq MaySend(r, a[2])
      BY <1>1, <3>1, IfSendType
    <3> QED  BY <1>1, <3>1, <3>2 DEF MaySend, Packet
  <2> QED  BY <2>1
<1>3. MayBecome(r, rec, out)
  BY <1>2, FewerHeldBack
<1>4. rec.db = rtr[r].db
  BY <1>1 DEF RouterRecord
<1>5. net' \subseteq net \cup {p \in out : p.to \in working}
  BY SentArrivesOrNot DEF DAckTimer
<1>6. rtr' = [rtr EXCEPT ![r] = rec] /\ UNCHANGED <<wiring, working, newest>>
  BY <1>1 DEF DAckTimer, TypeOK
<1> HIDE DEF rec, out
<1>7. Handles(r, rec, out)
  BY <1>1, <1>3, <1>4, <1>5, <1>6 DEF Handles
<1> QED  BY <1>1, <1>7, HandlerKeeps

LEMMA RetransmitKeeps ==
  ASSUME NoneForgotten, NEW r \in Router, NEW a \in Link \X Router, Retransmit(r, a)
  PROVE  NoneForgotten'
<1> DEFINE out == nbr_send("update", rtr[r].db, r, a)
<1>1. /\ newest \in Nat /\ rtr[r].db \in Nat /\ rtr[r].db <= newest
  BY RecordType, NewestType DEF NoneForgotten, NothingInvented
<1>2. MayBecome(r, rtr[r], out)
  BY <1>1, NbrSendType, SameMayBecome
<1>3. net' \subseteq net \cup {p \in out : p.to \in working}
  BY SentArrivesOrNot DEF Retransmit
<1>4. rtr' = [rtr EXCEPT ![r] = rtr[r]] /\ UNCHANGED <<wiring, working, newest>>
  BY DEF Retransmit, NoneForgotten, TypeOK
<1> HIDE DEF out
<1>5. Handles(r, rtr[r], out)
  BY <1>1, <1>2, <1>3, <1>4 DEF Handles
<1> QED  BY <1>5, HandlerKeeps

LEMMA TickKeeps ==
  ASSUME NoneForgotten, NEW r \in Router, Tick(r)
  PROVE  NoneForgotten'
<1> DEFINE rec == [rtr[r] EXCEPT !.sent_reply = FALSE]
<1>1. /\ newest \in Nat /\ rtr[r].db \in Nat /\ rtr[r].db <= newest
  BY RecordType, NewestType DEF NoneForgotten, NothingInvented
<1>2. /\ rec \in RouterRecord /\ rec.db = rtr[r].db /\ rec.nbrs = rtr[r].nbrs
      /\ rec.dack = rtr[r].dack /\ rec.rxlst = rtr[r].rxlst
  BY RecordType, ReplyField DEF NoneForgotten
<1>3. rtr' = [rtr EXCEPT ![r] = rec] /\ UNCHANGED <<wiring, net, working, newest>>
  BY DEF Tick, NoneForgotten, TypeOK
<1> HIDE DEF rec
<1>4. MayBecome(r, rec, {})
  BY <1>2, SameMayBecome DEF MayBecome, MaySend
<1>5. Handles(r, rec, {})
  BY <1>1, <1>2, <1>3, <1>4 DEF Handles
<1> QED  BY <1>5, HandlerKeeps

(* A neighbour that is gone is not adjacent any more.                      *)
LEMMA InactTimerKeeps ==
  ASSUME NoneForgotten, NEW r \in Router, NEW q \in Router, InactTimer(r, q)
  PROVE  NoneForgotten'
<1> DEFINE left == {a \in rtr[r].rxlst : a[2] # q}
           z    == [rtr[r] EXCEPT !.nbrs = @ \ {q}]
           rec  == [z EXCEPT !.rxlst = left]
<1>1. /\ rec \in RouterRecord /\ rec.db = rtr[r].db /\ rec.dack = rtr[r].dack
      /\ rec.nbrs = rtr[r].nbrs \ {q} /\ rec.rxlst = left
  <2>1. left \in SUBSET (Link \X Router)
    BY RecordType DEF NoneForgotten
  <2>2. /\ z \in RouterRecord /\ z.db = rtr[r].db /\ z.dack = rtr[r].dack
        /\ z.nbrs = rtr[r].nbrs \ {q}
    BY RecordType DEF NoneForgotten, RouterRecord
  <2> HIDE DEF left, z
  <2> QED  BY <2>1, <2>2 DEF RouterRecord
<1>2. rtr' = [rtr EXCEPT ![r] = rec] /\ q \notin working
  <2>1. [rtr[r] EXCEPT !.nbrs = @ \ {q}, !.rxlst = {a \in @ : a[2] # q}] = rec
    OBVIOUS
  <2>2. rtr' = [rtr EXCEPT ![r].nbrs = @ \ {q}, ![r].rxlst = {a \in @ : a[2] # q}]
    BY DEF InactTimer
  <2> QED  BY <2>1, <2>2 DEF InactTimer, NoneForgotten, TypeOK
<1> HIDE DEF rec
<1>3. /\ rtr' \in [Router -> RouterRecord]
      /\ \A s \in Router : /\ rtr'[s].db = rtr[s].db /\ rtr'[s].dack = rtr[s].dack
                           /\ rtr'[s].nbrs \subseteq rtr[s].nbrs
  BY <1>1, <1>2 DEF NoneForgotten, TypeOK
<1>4. \A s \in Router : \A a \in Link \X Router :
        a \in rtr[s].rxlst /\ a[2] \in working => a \in rtr'[s].rxlst
  BY <1>1, <1>2 DEF NoneForgotten, TypeOK
<1>5. UNCHANGED <<wiring, net, working, newest>>
  BY DEF InactTimer
<1>6. TypeOK'
  BY <1>3, <1>5 DEF NoneForgotten, TypeOK
<1>7. NothingInvented'
  BY <1>3, <1>5 DEF NoneForgotten, NothingInvented, TypeOK, Packet
<1>8. NewerIsListed'
  <2>1. \A s \in Router : Adjacent(s)' \subseteq Adjacent(s)
    BY <1>3, <1>5 DEF Adjacent, Attached, PointToPoint, Leaders
  <2>2. working \subseteq Router
    BY NewestType
  <2>3. ASSUME NEW s \in working, NEW a \in Adjacent(s),
               a[2] \in working, rtr'[a[2]].db < rtr'[s].db
        PROVE  a \in rtr'[s].rxlst
    <3>1. a \in Link \X Router
      BY <2>2, AdjacentType DEF NoneForgotten
    <3>2. a \in rtr[s].rxlst
      BY <2>2, <2>3, <3>1, <1>3 DEF NoneForgotten, NewerIsListed
    <3> QED  BY <1>4, <2>2, <2>3, <3>1, <3>2
  <2> QED  BY <2>1, <2>2, <2>3, <1>5 DEF NewerIsListed
<1> QED  BY <1>6, <1>7, <1>8 DEF NoneForgotten

LEMMA FailKeeps ==
  ASSUME NoneForgotten, NEW r \in Router, Fail(r)
  PROVE  NoneForgotten'
<1> DEFINE rec == [NewRouter(r) EXCEPT !.nbrs = {}]
<1>1. /\ rec \in RouterRecord /\ rec.db = 0 /\ rec.dack = {}
  BY DEF NewRouter, RouterRecord
<1>2. /\ rtr' \in [Router -> RouterRecord] /\ rtr'[r] = rec
      /\ \A s \in Router \ {r} : rtr'[s] = rtr[s]
  BY <1>1 DEF Fail, NoneForgotten, TypeOK
<1>3. /\ UNCHANGED <<wiring, newest>>
      /\ working' = working \ {r} /\ net' = {p \in net : p.to # r}
  BY DEF Fail
<1> HIDE DEF rec
<1>4. TypeOK'
  BY <1>2, <1>3 DEF NoneForgotten, TypeOK
<1>5. NothingInvented'
  <2>1. \A s \in Router : rtr'[s].db <= newest'
    BY <1>1, <1>2, <1>3, NewestType DEF NoneForgotten, NothingInvented
  <2>2. \A s \in Router : \A a \in rtr'[s].dack : a[2] <= rtr'[s].db
    BY <1>1, <1>2 DEF NoneForgotten, NothingInvented
  <2>3. ASSUME NEW p \in net'
        PROVE  /\ p.to \in working'
               /\ p.inst <= newest'
               /\ p.from \in working' => p.inst <= rtr'[p.from].db
    BY <1>2, <1>3 DEF NoneForgotten, NothingInvented, TypeOK, Packet
  <2> QED  BY <2>1, <2>2, <2>3 DEF NothingInvented
<1>6. NewerIsListed'
  <2>1. \A s \in Router \ {r} : Adjacent(s)' = Adjacent(s)
    BY <1>2, <1>3 DEF Adjacent, Attached, PointToPoint, Leaders
  <2>2. working' \subseteq working \cap (Router \ {r})
    BY <1>3, NewestType
  <2>3. \A s \in working' : \A a \in Adjacent(s) :
          a[2] \in working' => rtr'[a[2]] = rtr[a[2]] /\ rtr'[s] = rtr[s]
    BY <1>2, <2>2
  <2> QED  BY <2>1, <2>2, <2>3 DEF NoneForgotten, NewerIsListed
<1> QED  BY <1>4, <1>5, <1>6 DEF NoneForgotten

-----------------------------------------------------------------------------
LEMMA InitNoneForgotten == Init => NoneForgotten
<1> SUFFICES ASSUME Init PROVE NoneForgotten
  OBVIOUS
<1>1. /\ wiring \in Wirings /\ net = {} /\ newest = 0
      /\ rtr = [r \in Router |-> NewRouter(r)]
      /\ working = UNION {Attached(l) : l \in Link}
  BY DEF Init
<1>2. \A r \in Router : NewRouter(r) \in RouterRecord
  BY FiveFields DEF NewRouter
<1>3. \A r \in Router : rtr[r].db = 0 /\ rtr[r].dack = {}
  BY <1>1 DEF NewRouter
<1>4. working \subseteq Router
  BY <1>1, FloodingAssumption DEF Wiring, Attached
<1>5. TypeOK
  BY <1>1, <1>2, <1>4 DEF TypeOK
<1>6. NothingInvented
  BY <1>1, <1>3 DEF NothingInvented
<1>7. NewerIsListed
  BY <1>3, <1>4, <1>5, AdjacentType DEF NewerIsListed
<1> QED  BY <1>5, <1>6, <1>7 DEF NoneForgotten

LEMMA StepNoneForgotten == NoneForgotten /\ [Next]_vars => NoneForgotten'
<1> SUFFICES ASSUME NoneForgotten, [Next]_vars PROVE NoneForgotten'
  OBVIOUS
<1>1. CASE Originate
  BY <1>1, OriginateKeeps
<1>2. CASE Arrival
  BY <1>2, RecvUpdateKeeps, RecvAckKeeps DEF Arrival
<1>3. ASSUME NEW r \in Router, Rxmt(r) PROVE NoneForgotten'
  BY <1>3, RetransmitKeeps DEF Rxmt
<1>4. ASSUME NEW r \in Router, Timer(r) PROVE NoneForgotten'
  BY <1>4, TickKeeps, DAckTimerKeeps, InactTimerKeeps DEF Timer
<1>5. ASSUME NEW r \in Router, Fail(r) PROVE NoneForgotten'
  BY <1>5, FailKeeps
<1>6. CASE UNCHANGED vars
  BY <1>6 DEF vars, NoneForgotten, TypeOK, NothingInvented, NewerIsListed, Adjacent,
              Attached, PointToPoint, Leaders
<1> QED  BY <1>1, <1>2, <1>3, <1>4, <1>5, <1>6 DEF Next

(* Whatever is lost, comes late or is acknowledged for another instance,   *)
(* and whoever stops: a neighbour that is behind is on the list, for any   *)
(* routers and wirings.                                                    *)
THEOREM NobodyForgotten == Spec => []NoneForgotten
<1> QED  BY InitNoneForgotten, StepNoneForgotten, PTL DEF Spec

-----------------------------------------------------------------------------
(* The steps as the abstract replicas see them.                            *)
LEMMA HeldStays ==
  ASSUME UNCHANGED <<working, newest>>, \A s \in Router : rtr'[s].db = rtr[s].db
  PROVE  UNCHANGED R!vars
BY DEF R!vars

LEMMA OriginateRefines == NoneForgotten /\ Originate => R!Originate
<1> SUFFICES ASSUME NoneForgotten, Originate PROVE R!Originate
  OBVIOUS
<1>1. /\ Origin \in working /\ newest' = newest + 1 /\ working' = working
      /\ rtr' = [rtr EXCEPT ![Origin] = Flooded(Origin, newest + 1, None).rtr]
  BY DEF Originate
<1>2. Flooded(Origin, newest + 1, None).rtr.db = newest'
  BY <1>1 DEF Flooded
<1>3. \A s \in Router : rtr'[s].db = IF s = Origin THEN newest' ELSE rtr[s].db
  BY <1>1, <1>2 DEF NoneForgotten, TypeOK
<1> QED  BY <1>1, <1>3 DEF R!Originate

LEMMA RecvUpdateRefines ==
  ASSUME NoneForgotten, NEW p \in net, recv_update(p)
  PROVE  R!Learn(p.to) \/ UNCHANGED R!vars
<1> DEFINE got == Received(p.to, p.inst, <<p.link, p.from>>)
<1>1. p.to \in Router /\ p.to \in working /\ newest \in Nat
  BY DEF NoneForgotten, TypeOK, NothingInvented, Packet
<1>2. /\ got.rtr.db \in Nat /\ rtr[p.to].db <= got.rtr.db /\ got.rtr.db <= newest
      /\ rtr[p.to].db \in Nat
  BY <1>1, ReceivedMayBecome, RecordType DEF MayBecome, RouterRecord, NoneForgotten
<1>3. rtr' = [rtr EXCEPT ![p.to] = got.rtr] /\ UNCHANGED <<working, newest>>
  BY DEF recv_update
<1> HIDE DEF got
<1>4. \A s \in Router : rtr'[s].db = IF s = p.to THEN got.rtr.db ELSE rtr[s].db
  BY <1>1, <1>3 DEF NoneForgotten, TypeOK
<1>5. CASE got.rtr.db = rtr[p.to].db
  BY <1>3, <1>4, <1>5, HeldStays
<1>6. CASE got.rtr.db > rtr[p.to].db
  <2>1. got.rtr.db \in (rtr[p.to].db + 1)..newest
    BY <1>1, <1>2, <1>6
  <2> QED  BY <1>1, <1>3, <1>4, <2>1 DEF R!Learn
<1> QED  BY <1>2, <1>5, <1>6

LEMMA FailRefines ==
  ASSUME NoneForgotten, NEW r \in Router, Fail(r)
  PROVE  R!Fail(r)
<1>1. \A s \in Router : rtr'[s].db = IF s = r THEN 0 ELSE rtr[s].db
  BY DEF Fail, NewRouter, NoneForgotten, TypeOK
<1> QED  BY <1>1 DEF Fail, R!Fail

LEMMA StepRefines == NoneForgotten /\ [Next]_vars => [R!Next]_(R!vars)
<1> SUFFICES ASSUME NoneForgotten, [Next]_vars PROVE R!Next \/ UNCHANGED R!vars
  OBVIOUS
<1>1. rtr \in [Router -> RouterRecord] /\ net \subseteq Packet
  BY DEF NoneForgotten, TypeOK
<1>2. CASE Originate
  BY <1>2, OriginateRefines DEF R!Next
<1>3. ASSUME NEW p \in net, recv_update(p) PROVE R!Next \/ UNCHANGED R!vars
  BY <1>1, <1>3, RecvUpdateRefines DEF R!Next, Packet
<1>4. ASSUME NEW p \in net, recv_ack(p) PROVE UNCHANGED R!vars
  BY <1>1, <1>4, HeldStays DEF recv_ack, RouterRecord
<1>5. ASSUME NEW r \in Router, Rxmt(r) PROVE UNCHANGED R!vars
  BY <1>5, HeldStays DEF Rxmt, Retransmit
<1>6. ASSUME NEW r \in Router, Timer(r) PROVE UNCHANGED R!vars
  <2>1. UNCHANGED <<working, newest>>
    BY <1>6 DEF Timer, Tick, DAckTimer, InactTimer
  <2>2. \A s \in Router : rtr'[s].db = rtr[s].db
    <3>1. CASE Tick(r)
      BY <1>1, <3>1 DEF Tick, RouterRecord
    <3>2. ASSUME NEW l \in Link, DAckTimer(r, l)
          PROVE  \A s \in Router : rtr'[s].db = rtr[s].db
      BY <1>1, <3>2 DEF DAckTimer, RouterRecord
    <3>3. ASSUME NEW q \in Router, InactTimer(r, q)
          PROVE  \A s \in Router : rtr'[s].db = rtr[s].db
      BY <1>1, <3>3 DEF InactTimer, RouterRecord
    <3> QED  BY <1>6, <3>1, <3>2, <3>3 DEF Timer
  <2> QED  BY <2>1, <2>2, HeldStays
<1>7. ASSUME NEW r \in Router, Fail(r) PROVE R!Next
  BY <1>7, FailRefines DEF R!Next
<1>8. CASE UNCHANGED vars
  BY <1>8, HeldStays DEF vars
<1> QED  BY <1>2, <1>3, <1>4, <1>5, <1>6, <1>7, <1>8 DEF Next, Arrival

LEMMA InitRefines == Init => R!Init
<1> SUFFICES ASSUME Init PROVE R!Init
  OBVIOUS
<1>1. \A r \in Router : rtr[r].db = 0
  BY DEF Init, NewRouter
<1>2. working \subseteq Router
  BY InitNoneForgotten DEF NoneForgotten, TypeOK
<1> QED  BY <1>1, <1>2 DEF Init, R!Init

(* Flooding implements the replicas, liveness apart: no step makes what a  *)
(* router holds older, or newer than what was originated.                  *)
THEOREM Refinement == Spec => ReplicatesSafely
<1> QED  BY InitRefines, NobodyForgotten, StepRefines, PTL DEF Spec, ReplicatesSafely

-----------------------------------------------------------------------------
(***************************************************************************)
(* Retransmission lists, for any neighbours, LSAs, packet sizes, windows   *)
(* and bounds: the three accounts of what is to be acknowledged agree, and *)
(* a MaxAge LSA is freed only when nobody has still to hear of it.         *)
(*                                                                         *)
(* The handlers are chains of operators on a neighbour's record, so each   *)
(* operator is shown to leave a record Sound, and to drop nothing from its *)
(* lists that is still in the database (KeepsLive).                        *)
(***************************************************************************)

(* No object is on two of a neighbour's lists, or twice on one. *)
Once(b) ==
  /\ IsInjective(b.rxlst) /\ IsInjective(b.pend) /\ IsInjective(b.failed)
  /\ ToSet(b.rxlst) \cap ToSet(b.pend) = {}
  /\ ToSet(b.rxlst) \cap ToSet(b.failed) = {}
  /\ ToSet(b.pend) \cap ToSet(b.failed) = {}

Entries(b) == Len(b.rxlst) + Len(b.pend) + Len(b.failed)

(* rxmt_count is the length of the lists and "extra" more: in the middle   *)
(* of remove_from_rxlist() the object is off its list and still counted.   *)
Sound(b, extra) == b \in NbrRecord /\ Once(b) /\ b.rxmt_count = Entries(b) + extra

(* From b to c only invalid objects have left the lists. *)
KeepsLive(b, c) ==
  /\ c.state = b.state /\ c.ddlst = b.ddlst
  /\ OnLists(c) \subseteq OnLists(b)
  /\ \A o \in OnLists(b) : valid(o) => o \in OnLists(c)

(* What holds of each neighbour between two events.  A description of the  *)
(* database is taken when the lists are empty, and an object that is new   *)
(* to the database is neither described nor on a list.                     *)
NbrInv(b) ==
  /\ Sound(b, 0)
  /\ OnLists(b) # {} => b.timer
  /\ b.ddlst \cap OnLists(b) = {}
  /\ b.state = "Below" => OnLists(b) = {}
  /\ b.state # "Exchange" => b.ddlst = {}

DbType ==
  /\ nbr \in [Nbr -> NbrRecord]
  /\ db \in [Id -> Object \cup {NULL}]
  /\ \A i \in Id : db[i] # NULL => db[i][1] = i
  /\ lsa_rxmt \in [Object -> 0..Cardinality(Nbr)]
  /\ maxage \subseteq Object /\ ripe \subseteq Object
  /\ installs \in 0..MaxInstalls

ListsInvariant ==
  /\ DbType
  /\ \A n \in Nbr : NbrInv(nbr[n])
  /\ RxmtIsExact

-----------------------------------------------------------------------------
(* Sequences without repetition. *)

LEMMA SeqBasics ==
  ASSUME NEW X, NEW s \in Seq(X)
  PROVE  /\ Len(s) \in Nat /\ DOMAIN s = 1..Len(s)
         /\ ToSet(s) \subseteq X
         /\ ToSet(s) = {s[i] : i \in 1..Len(s)}
         /\ s = <<>> <=> Len(s) = 0
         /\ s = <<>> <=> ToSet(s) = {}
<1>1. Len(s) \in Nat /\ DOMAIN s = 1..Len(s) /\ \A i \in 1..Len(s) : s[i] \in X
  OBVIOUS
<1>2. s = <<>> <=> Len(s) = 0
  OBVIOUS
<1>3. ToSet(s) = {s[i] : i \in 1..Len(s)}
  BY <1>1 DEF ToSet
<1>4. Len(s) = 0 => ToSet(s) = {}
  BY <1>3
<1>5. Len(s) # 0 => s[1] \in ToSet(s)
  BY <1>1, <1>3
<1> QED
  BY <1>1, <1>2, <1>3, <1>4, <1>5

LEMMA AppendOnce ==
  ASSUME NEW X, NEW s \in Seq(X), NEW e \in X
  PROVE  /\ Append(s, e) \in Seq(X) /\ Len(Append(s, e)) = Len(s) + 1
         /\ ToSet(Append(s, e)) = ToSet(s) \cup {e}
         /\ IsInjective(s) /\ e \notin ToSet(s) => IsInjective(Append(s, e))
<1> DEFINE a == Append(s, e)
<1>1. a \in Seq(X) /\ Len(a) = Len(s) + 1 /\ a[Len(s) + 1] = e
  OBVIOUS
<1>2. \A i \in 1..Len(s) : a[i] = s[i]
  OBVIOUS
<1>3. Len(s) \in Nat /\ DOMAIN s = 1..Len(s) /\ DOMAIN a = 1..(Len(s) + 1)
  BY <1>1
<1> HIDE DEF a
<1>4. ToSet(a) = ToSet(s) \cup {e}
  <2>1. ToSet(a) = {a[i] : i \in 1..(Len(s) + 1)} /\ ToSet(s) = {s[i] : i \in 1..Len(s)}
    BY <1>3 DEF ToSet
  <2>2. \A i \in 1..(Len(s) + 1) : i \in 1..Len(s) \/ i = Len(s) + 1
    BY <1>3
  <2>3. 1..Len(s) \subseteq 1..(Len(s) + 1) /\ Len(s) + 1 \in 1..(Len(s) + 1)
    BY <1>3
  <2> QED
    BY <1>1, <1>2, <2>1, <2>2, <2>3
<1>5. IsInjective(s) /\ e \notin ToSet(s) => IsInjective(a)
  <2> SUFFICES ASSUME IsInjective(s), e \notin ToSet(s), NEW i \in DOMAIN a, NEW j \in DOMAIN a,
                      a[i] = a[j]
               PROVE  i = j
    BY DEF IsInjective
  <2>1. \A k \in 1..Len(s) : a[k] # e
    BY <1>2, <1>3 DEF ToSet
  <2>2. i \in 1..Len(s) /\ j \in 1..Len(s) => i = j
    BY <1>2, <1>3 DEF IsInjective
  <2> QED
    BY <1>1, <1>3, <2>1, <2>2
<1> QED
  BY <1>1, <1>4, <1>5 DEF a

LEMMA ConcatOnce ==
  ASSUME NEW X, NEW s \in Seq(X), NEW t \in Seq(X)
  PROVE  /\ s \o t \in Seq(X) /\ Len(s \o t) = Len(s) + Len(t)
         /\ ToSet(s \o t) = ToSet(s) \cup ToSet(t)
         /\ IsInjective(s) /\ IsInjective(t) /\ ToSet(s) \cap ToSet(t) = {} => IsInjective(s \o t)
<1> DEFINE c == s \o t
<1>1. c \in Seq(X) /\ Len(c) = Len(s) + Len(t)
  OBVIOUS
<1>2. /\ \A i \in 1..Len(s) : c[i] = s[i]
      /\ \A i \in 1..Len(t) : c[Len(s) + i] = t[i]
  OBVIOUS
<1>3. /\ Len(s) \in Nat /\ DOMAIN s = 1..Len(s)
      /\ Len(t) \in Nat /\ DOMAIN t = 1..Len(t)
      /\ DOMAIN c = 1..(Len(s) + Len(t))
  BY <1>1
<1> HIDE DEF c
<1>4. \A i \in 1..(Len(s) + Len(t)) :
        i \in 1..Len(s) \/ (i - Len(s) \in 1..Len(t) /\ i = Len(s) + (i - Len(s)))
  BY <1>3
<1>5. /\ \A i \in 1..Len(s) : i \in 1..(Len(s) + Len(t))
      /\ \A i \in 1..Len(t) : Len(s) + i \in 1..(Len(s) + Len(t))
  BY <1>3
<1>6. ToSet(c) = ToSet(s) \cup ToSet(t)
  <2>1. /\ ToSet(c) = {c[i] : i \in 1..(Len(s) + Len(t))}
        /\ ToSet(s) = {s[i] : i \in 1..Len(s)}
        /\ ToSet(t) = {t[i] : i \in 1..Len(t)}
    BY <1>3 DEF ToSet
  <2>2. ASSUME NEW i \in 1..(Len(s) + Len(t)) PROVE c[i] \in ToSet(s) \cup ToSet(t)
    <3>1. CASE i \in 1..Len(s)
      BY <1>2, <2>1, <3>1
    <3>2. CASE i - Len(s) \in 1..Len(t) /\ i = Len(s) + (i - Len(s))
      <4>1. c[i] = t[i - Len(s)]
        BY <1>2, <3>2
      <4> QED
        BY <2>1, <3>2, <4>1
    <3> QED
      BY <1>4, <3>1, <3>2
  <2>3. ToSet(s) \cup ToSet(t) \subseteq ToSet(c)
    BY <1>2, <1>5, <2>1
  <2> QED
    BY <2>1, <2>2, <2>3
<1>7. IsInjective(s) /\ IsInjective(t) /\ ToSet(s) \cap ToSet(t) = {} => IsInjective(c)
  <2> SUFFICES ASSUME IsInjective(s), IsInjective(t), ToSet(s) \cap ToSet(t) = {},
                      NEW i \in DOMAIN c, NEW j \in DOMAIN c, c[i] = c[j]
               PROVE  i = j
    BY DEF IsInjective
  <2>1. i \in 1..Len(s) /\ j \in 1..Len(s) => i = j
    BY <1>2, <1>3 DEF IsInjective
  <2>2. \A k \in 1..(Len(s) + Len(t)) :
          k \notin 1..Len(s) => k - Len(s) \in DOMAIN t /\ c[k] = t[k - Len(s)]
    BY <1>2, <1>3, <1>4
  <2>3. i \notin 1..Len(s) /\ j \notin 1..Len(s) => i - Len(s) = j - Len(s)
    BY <1>3, <2>2 DEF IsInjective
  <2>4. \A k \in 1..Len(s) : c[k] \in ToSet(s)
    BY <1>2, <1>3 DEF ToSet
  <2>5. \A k \in 1..(Len(s) + Len(t)) : k \notin 1..Len(s) => c[k] \in ToSet(t)
    BY <2>2 DEF ToSet
  <2> QED
    BY <1>3, <2>1, <2>3, <2>4, <2>5
<1> QED
  BY <1>1, <1>6, <1>7 DEF c

(* The end of a sequence from position i on. *)
LEMMA SuffixOnce ==
  ASSUME NEW X, NEW s \in Seq(X), NEW i \in 1..Len(s)
  PROVE  LET t == SubSeq(s, i, Len(s))
         IN  /\ t \in Seq(X) /\ t # <<>> /\ Head(t) = s[i]
             /\ ToSet(t) = {s[j] : j \in i..Len(s)}
             /\ IsInjective(s) => IsInjective(t)
<1> DEFINE t == SubSeq(s, i, Len(s))
           m == Len(s) - i + 1
<1>1. /\ t \in Seq(X) /\ Len(t) = m /\ m \in Nat /\ m > 0
      /\ \A k \in 1..m : t[k] = s[i + k - 1]
  OBVIOUS
<1>2. t # <<>> /\ Head(t) = s[i]
  <2>1. 1 \in 1..m /\ t[1] = s[i]
    BY <1>1
  <2> HIDE DEF t
  <2> QED
    BY <1>1, <2>1
<1>3. DOMAIN t = 1..m /\ DOMAIN s = 1..Len(s) /\ Len(s) \in Nat
  BY <1>1
<1>4. /\ \A k \in 1..m : i + k - 1 \in i..Len(s) /\ i + k - 1 \in 1..Len(s)
      /\ \A j \in i..Len(s) : j - i + 1 \in 1..m /\ i + (j - i + 1) - 1 = j
  BY <1>3
<1> HIDE DEF t, m
<1>5. ToSet(t) = {s[j] : j \in i..Len(s)}
  <2>1. ToSet(t) = {t[k] : k \in 1..m}
    BY <1>3 DEF ToSet
  <2>2. ToSet(t) \subseteq {s[j] : j \in i..Len(s)}
    BY <1>1, <1>4, <2>1
  <2>3. ASSUME NEW j \in i..Len(s) PROVE s[j] \in ToSet(t)
    BY <1>1, <1>4, <2>1
  <2> QED
    BY <2>2, <2>3
<1>6. IsInjective(s) => IsInjective(t)
  <2> SUFFICES ASSUME IsInjective(s), NEW a \in 1..m, NEW b \in 1..m, t[a] = t[b]
               PROVE  a = b
    BY <1>3 DEF IsInjective
  <2>1. i + a - 1 = i + b - 1
    BY <1>1, <1>3, <1>4 DEF IsInjective
  <2> QED
    BY <1>1, <2>1
<1> QED
  BY <1>1, <1>2, <1>5, <1>6 DEF t

LEMMA KeepOnce ==
  ASSUME NEW X, NEW s \in Seq(X), NEW S
  PROVE  /\ Keep(s, S) \in Seq(X)
         /\ ToSet(Keep(s, S)) = ToSet(s) \cap S
         /\ IsInjective(s) => IsInjective(Keep(s, S))
<1>0. PICK v : Keeping(s, S, X, v)
  BY KeepUnrolled
<1> DEFINE N == Len(s)
           Kept(k) == {s[i] : i \in 1..k} \cap S
<1>1. /\ v[0] = <<>>
      /\ \A k \in 1..N : v[k] = IF s[k] \in S THEN Append(v[k - 1], s[k]) ELSE v[k - 1]
      /\ \A k \in 0..N : v[k] \in Seq(X \cap S)
      /\ Keep(s, S) = v[N]
  BY <1>0 DEF Keeping
<1>2. /\ N \in Nat /\ DOMAIN s = 1..N /\ \A i \in 1..N : s[i] \in X
      /\ ToSet(s) = {s[i] : i \in 1..N}
  BY SeqBasics
<1> DEFINE Holds(k) == ToSet(v[k]) = Kept(k) /\ (IsInjective(s) => IsInjective(v[k]))
           T == {k \in Nat : k <= N => Holds(k)}
<1> HIDE DEF N
<1>3. 0 \in T
  <2>1. Kept(0) = {} /\ ToSet(<<>>) = {} /\ IsInjective(<<>>)
    BY DEF ToSet, IsInjective
  <2> HIDE DEF Kept
  <2> QED
    BY <1>1, <2>1
<1>4. ASSUME NEW k \in Nat, k \in T
      PROVE  k + 1 \in T
  <2> SUFFICES ASSUME k + 1 <= N
               PROVE  Holds(k + 1)
    OBVIOUS
  <2>1. k \in 0..N /\ k + 1 \in 1..N /\ (k + 1) - 1 = k /\ Holds(k)
    BY <1>2, <1>4
  <2>2. /\ v[k] \in Seq(X \cap S)
        /\ v[k + 1] = IF s[k + 1] \in S THEN Append(v[k], s[k + 1]) ELSE v[k]
    BY <1>1, <2>1
  <2>3. \A i \in 1..(k + 1) : i \in 1..k \/ i = k + 1
    BY <2>1
  <2>4. 1..k \subseteq 1..(k + 1) /\ k + 1 \in 1..(k + 1)
    BY <2>1
  <2>5. Kept(k + 1) = IF s[k + 1] \in S THEN Kept(k) \cup {s[k + 1]} ELSE Kept(k)
    BY <2>3, <2>4
  <2>6. CASE s[k + 1] \in S
    <3>1. s[k + 1] \in X \cap S
      BY <1>2, <2>1, <2>6
    <3>2. /\ ToSet(Append(v[k], s[k + 1])) = ToSet(v[k]) \cup {s[k + 1]}
          /\ IsInjective(v[k]) /\ s[k + 1] \notin ToSet(v[k]) => IsInjective(Append(v[k], s[k + 1]))
      BY <2>2, <3>1, AppendOnce
    <3>3. IsInjective(s) => s[k + 1] \notin Kept(k)
      <4>1. \A i \in 1..k : i \in 1..N /\ i # k + 1
        BY <1>2, <2>1
      <4> QED
        BY <1>2, <2>1, <4>1 DEF IsInjective
    <3> HIDE DEF Kept
    <3> QED
      BY <2>1, <2>2, <2>5, <2>6, <3>2, <3>3
  <2>7. CASE s[k + 1] \notin S
    <3> HIDE DEF Kept
    <3> QED
      BY <2>1, <2>2, <2>5, <2>7
  <2> QED
    BY <2>6, <2>7
<1>5. N \in T
  <2> HIDE DEF T
  <2> QED
    BY <1>2, <1>3, <1>4, SetInduction
<1>6. Holds(N)
  BY <1>2, <1>5
<1>7. N \in 0..N
  BY <1>2
<1>8. v[N] \in Seq(X)
  BY <1>1, <1>7
<1>9. Kept(N) = ToSet(s) \cap S
  BY <1>2
<1> QED
  BY <1>1, <1>6, <1>8, <1>9

LEMMA CountOnce ==
  ASSUME NEW X, NEW s \in Seq(X)
  PROVE  /\ IsFiniteSet(ToSet(s))
         /\ IsInjective(s) => Cardinality(ToSet(s)) = Len(s)
<1>1. /\ Len(s) \in Nat /\ DOMAIN s = 1..Len(s)
      /\ ToSet(s) = {s[i] : i \in 1..Len(s)}
      /\ s = [i \in 1..Len(s) |-> s[i]]
  BY SeqBasics
<1>2. IsFiniteSet(1..Len(s)) /\ Cardinality(1..Len(s)) = Len(s)
  <2>1. 1 \in Int /\ Len(s) \in Int /\ (Len(s) < 1 => Len(s) = 0)
    BY <1>1
  <2>2. /\ IsFiniteSet(1..Len(s))
        /\ Cardinality(1..Len(s)) = IF 1 > Len(s) THEN 0 ELSE Len(s) - 1 + 1
    BY <2>1, FS_Interval
  <2> QED
    BY <2>1, <2>2
<1>3. s \in [1..Len(s) -> ToSet(s)]
  BY <1>1
<1>4. s \in Surjection(1..Len(s), ToSet(s))
  BY <1>1, <1>3 DEF Surjection
<1>5. IsInjective(s) => s \in Injection(1..Len(s), ToSet(s))
  BY <1>3 DEF Injection
<1> QED
  BY <1>2, <1>4, <1>5, FS_Surjection

\* Of a set of numbers that has some up to n, there is a first.
LEMMA FirstExists ==
  ASSUME NEW S, NEW n \in Nat, n \in S
  PROVE  \E i \in Nat : i \in S /\ i <= n /\ \A k \in 0..(i - 1) : k \notin S
<1> SUFFICES ASSUME \A i \in 0..n : i \in S => \E k \in 0..(i - 1) : k \in S
             PROVE  FALSE
  OBVIOUS
<1> DEFINE T == {m \in Nat : m <= n => \A i \in 0..m : i \notin S}
<1>1. 0 \in T
  OBVIOUS
<1>2. ASSUME NEW m \in Nat, m \in T
      PROVE  m + 1 \in T
  <2> SUFFICES ASSUME m + 1 <= n, NEW i \in 0..(m + 1), i \in S
               PROVE  FALSE
    OBVIOUS
  <2>1. \A k \in 0..m : k \notin S
    BY <1>2
  <2>2. i \in 0..n /\ \A k \in 0..(i - 1) : k \in 0..m
    OBVIOUS
  <2> QED
    BY <2>1, <2>2
<1>3. n \in T
  <2> HIDE DEF T
  <2> QED
    BY <1>1, <1>2, SetInduction
<1> QED
  BY <1>3

-----------------------------------------------------------------------------
(* A neighbour's record. *)

LEMMA FieldTypes ==
  ASSUME NEW b \in NbrRecord
  PROVE  /\ b.state \in {"Below", "Exchange", "Full"} /\ b.ddlst \subseteq Object
         /\ b.rxlst \in Seq(Object) /\ b.pend \in Seq(Object) /\ b.failed \in Seq(Object)
         /\ Len(b.rxlst) \in Nat /\ Len(b.pend) \in Nat /\ Len(b.failed) \in Nat
         /\ b.rxmt_count \in Nat /\ b.window \in 1..MaxWindow /\ b.timer \in BOOLEAN
         /\ OnLists(b) \subseteq Object
<1>1. /\ b.state \in {"Below", "Exchange", "Full"} /\ b.ddlst \subseteq Object
      /\ b.rxlst \in Seq(Object) /\ b.pend \in Seq(Object) /\ b.failed \in Seq(Object)
      /\ b.rxmt_count \in Nat /\ b.window \in 1..MaxWindow /\ b.timer \in BOOLEAN
  BY DEF NbrRecord
<1>2. /\ Len(b.rxlst) \in Nat /\ Len(b.pend) \in Nat /\ Len(b.failed) \in Nat
      /\ ToSet(b.rxlst) \subseteq Object /\ ToSet(b.pend) \subseteq Object
      /\ ToSet(b.failed) \subseteq Object
  BY <1>1, SeqBasics
<1> QED
  BY <1>1, <1>2 DEF OnLists

(* A list that some invalid objects have left, the others in their order.  *)
Cleaned(s, t) ==
  /\ t \in Seq(Object)
  /\ ToSet(t) \subseteq ToSet(s)
  /\ \A o \in ToSet(s) : valid(o) => o \in ToSet(t)
  /\ IsInjective(s) => IsInjective(t)

LEMMA FromFirstValidCleans ==
  ASSUME NEW s \in Seq(Object)
  PROVE  Cleaned(s, FromFirstValid(s))
<1> DEFINE First(j) == valid(s[j]) /\ \A k \in 1..(j - 1) : ~valid(s[k])
           i == CHOOSE j \in DOMAIN s : First(j)
<1>1. Len(s) \in Nat /\ DOMAIN s = 1..Len(s) /\ ToSet(s) = {s[j] : j \in 1..Len(s)}
  BY SeqBasics
<1>2. CASE \E j \in DOMAIN s : valid(s[j])
  <2>1. \E j \in DOMAIN s : First(j)
    <3> DEFINE V == {j \in DOMAIN s : valid(s[j])}
    <3>1. PICK m \in Nat : m \in V
      BY <1>1, <1>2
    <3>2. PICK j \in Nat : j \in V /\ j <= m /\ \A k \in 0..(j - 1) : k \notin V
      <4> HIDE DEF V
      <4> QED
        BY <3>1, FirstExists
    <3>3. \A k \in 1..(j - 1) : k \in DOMAIN s /\ k \in 0..(j - 1)
      BY <1>1, <3>2
    <3> QED
      BY <3>2, <3>3
  <2>2. i \in 1..Len(s) /\ First(i)
    <3> HIDE DEF First
    <3> QED
      BY <1>1, <2>1
  <2> DEFINE t == SubSeq(s, i, Len(s))
  <2>3. FromFirstValid(s) = t
    BY <1>2 DEF FromFirstValid
  <2> HIDE DEF i
  <2>4. t \in Seq(Object) /\ ToSet(t) = {s[j] : j \in i..Len(s)} /\ (IsInjective(s) => IsInjective(t))
    BY <2>2, SuffixOnce
  <2> HIDE DEF t
  <2>5. \A j \in i..Len(s) : j \in 1..Len(s)
    BY <1>1, <2>2
  <2>6. ASSUME NEW j \in 1..Len(s), valid(s[j]) PROVE s[j] \in ToSet(t)
    <3>1. ~(j \in 1..(i - 1))
      BY <2>2, <2>6
    <3>2. j \in i..Len(s)
      BY <1>1, <2>2, <3>1
    <3> QED
      BY <2>4, <3>2
  <2> QED
    BY <1>1, <2>3, <2>4, <2>5, <2>6 DEF Cleaned
<1>3. CASE ~\E j \in DOMAIN s : valid(s[j])
  <2>1. FromFirstValid(s) = <<>>
    BY <1>3 DEF FromFirstValid
  <2>2. <<>> \in Seq(Object) /\ ToSet(<<>>) = {} /\ IsInjective(<<>>)
    BY DEF ToSet, IsInjective
  <2> QED
    BY <1>1, <1>3, <2>1, <2>2 DEF Cleaned
<1> QED
  BY <1>2, <1>3

LEMMA GarbageCollectCleans ==
  ASSUME NEW s \in Seq(Object)
  PROVE  Cleaned(s, garbage_collect(s))
<1> DEFINE S == {o \in ToSet(s) : valid(o)}
<1>1. garbage_collect(s) = Keep(s, S)
  BY DEF garbage_collect
<1>2. /\ Keep(s, S) \in Seq(Object) /\ ToSet(Keep(s, S)) = ToSet(s) \cap S
      /\ IsInjective(s) => IsInjective(Keep(s, S))
  <2> HIDE DEF S
  <2> QED
    BY KeepOnce
<1> QED
  BY <1>1, <1>2 DEF Cleaned

LEMMA WithoutTakesOut ==
  ASSUME NEW s \in Seq(Object), IsInjective(s), NEW o
  PROVE  /\ Without(s, o) \in Seq(Object) /\ IsInjective(Without(s, o))
         /\ ToSet(Without(s, o)) = ToSet(s) \ {o}
<1> DEFINE S == ToSet(s) \ {o}
<1>1. Without(s, o) = Keep(s, S)
  BY DEF Without
<1>2. /\ Keep(s, S) \in Seq(Object) /\ ToSet(Keep(s, S)) = ToSet(s) \cap S
      /\ IsInjective(Keep(s, S))
  <2> HIDE DEF S
  <2> QED
    BY KeepOnce
<1> QED
  BY <1>1, <1>2

(* A list is replaced by what is left of it, and the count corrected. *)
LEMMA WithRxlstSound ==
  ASSUME NEW x \in Nat, NEW b, Sound(b, x), NEW s, Cleaned(b.rxlst, s)
  PROVE  LET c == WithRxlst(b, s)
         IN  /\ Sound(c, x) /\ KeepsLive(b, c)
             /\ c.rxlst = s /\ c.pend = b.pend /\ c.failed = b.failed
             /\ c.timer = b.timer /\ c.window = b.window
<1> DEFINE n == b.rxmt_count - (Len(b.rxlst) - Len(s))
           c == WithRxlst(b, s)
<1>1. b \in NbrRecord /\ Once(b) /\ b.rxmt_count = Entries(b) + x
  BY DEF Sound
<1>3. s \in Seq(Object) /\ IsInjective(s) /\ ToSet(s) \subseteq ToSet(b.rxlst)
  BY <1>1 DEF Cleaned, Once
<1>4. Len(s) \in Nat
  BY <1>3
<1>5. n = Len(s) + Len(b.pend) + Len(b.failed) + x /\ n \in Nat
  <2> DEFINE r == b.rxlst
             p == b.pend
             f == b.failed
  <2>1. b.rxmt_count = Len(r) + Len(p) + Len(f) + x
    BY <1>1 DEF Entries
  <2>2. Len(r) \in Nat /\ Len(p) \in Nat /\ Len(f) \in Nat
    BY <1>1, FieldTypes
  <2>3. n = b.rxmt_count - (Len(r) - Len(s))
    OBVIOUS
  <2>4. n = Len(s) + Len(p) + Len(f) + x /\ n \in Nat
    <3> HIDE DEF r, p, f, n
    <3> QED
      BY <1>4, <2>1, <2>2, <2>3
  <2> QED
    BY <2>4
<1>6. c = [b EXCEPT !.rxlst = s, !.rxmt_count = n]
  BY DEF WithRxlst
<1> HIDE DEF n, c
<1>7. c \in NbrRecord
  BY <1>1, <1>3, <1>5, <1>6 DEF NbrRecord
<1>8. /\ c.rxlst = s /\ c.pend = b.pend /\ c.failed = b.failed /\ c.timer = b.timer
      /\ c.window = b.window /\ c.state = b.state /\ c.ddlst = b.ddlst /\ c.rxmt_count = n
  BY <1>1, <1>6 DEF NbrRecord
<1>9. Once(c)
  BY <1>1, <1>3, <1>8 DEF Once
<1>10. Sound(c, x)
  BY <1>5, <1>7, <1>8, <1>9 DEF Sound, Entries
<1>11. KeepsLive(b, c)
  BY <1>3, <1>8 DEF KeepsLive, OnLists, Cleaned
<1> QED
  BY <1>8, <1>10, <1>11 DEF c

LEMMA WithFailedSound ==
  ASSUME NEW x \in Nat, NEW b, Sound(b, x), NEW s, Cleaned(b.failed, s)
  PROVE  LET c == WithFailed(b, s)
         IN  /\ Sound(c, x) /\ KeepsLive(b, c)
             /\ c.rxlst = b.rxlst /\ c.pend = b.pend /\ c.failed = s
             /\ c.timer = b.timer /\ c.window = b.window
<1> DEFINE n == b.rxmt_count - (Len(b.failed) - Len(s))
           c == WithFailed(b, s)
<1>1. b \in NbrRecord /\ Once(b) /\ b.rxmt_count = Entries(b) + x
  BY DEF Sound
<1>3. s \in Seq(Object) /\ IsInjective(s) /\ ToSet(s) \subseteq ToSet(b.failed)
  BY <1>1 DEF Cleaned, Once
<1>4. Len(s) \in Nat
  BY <1>3
<1>5. n = Len(b.rxlst) + Len(b.pend) + Len(s) + x /\ n \in Nat
  <2> DEFINE r == b.rxlst
             p == b.pend
             f == b.failed
  <2>1. b.rxmt_count = Len(r) + Len(p) + Len(f) + x
    BY <1>1 DEF Entries
  <2>2. Len(r) \in Nat /\ Len(p) \in Nat /\ Len(f) \in Nat
    BY <1>1, FieldTypes
  <2>3. n = b.rxmt_count - (Len(f) - Len(s))
    OBVIOUS
  <2>4. n = Len(r) + Len(p) + Len(s) + x /\ n \in Nat
    <3> HIDE DEF r, p, f, n
    <3> QED
      BY <1>4, <2>1, <2>2, <2>3
  <2> QED
    BY <2>4
<1>6. c = [b EXCEPT !.failed = s, !.rxmt_count = n]
  BY DEF WithFailed
<1> HIDE DEF n, c
<1>7. c \in NbrRecord
  BY <1>1, <1>3, <1>5, <1>6 DEF NbrRecord
<1>8. /\ c.rxlst = b.rxlst /\ c.pend = b.pend /\ c.failed = s /\ c.timer = b.timer
      /\ c.window = b.window /\ c.state = b.state /\ c.ddlst = b.ddlst /\ c.rxmt_count = n
  BY <1>1, <1>6 DEF NbrRecord
<1>9. Once(c)
  BY <1>1, <1>3, <1>8 DEF Once
<1>10. Sound(c, x)
  BY <1>5, <1>7, <1>8, <1>9 DEF Sound, Entries
<1>11. KeepsLive(b, c)
  BY <1>3, <1>8 DEF KeepsLive, OnLists, Cleaned
<1> QED
  BY <1>8, <1>10, <1>11 DEF c

LEMMA DisjointUnion ==
  ASSUME NEW S, IsFiniteSet(S), NEW T, IsFiniteSet(T), S \cap T = {}
  PROVE  IsFiniteSet(S \cup T) /\ Cardinality(S \cup T) = Cardinality(S) + Cardinality(T)
<1>1. /\ IsFiniteSet(S \cup T)
      /\ Cardinality(S \cup T) = Cardinality(S) + Cardinality(T) - Cardinality(S \cap T)
  BY FS_Union
<1>2. Cardinality(S \cap T) = 0
  BY FS_EmptySet
<1>3. Cardinality(S) \in Nat /\ Cardinality(T) \in Nat
  BY FS_CardinalityType
<1> QED
  BY <1>1, <1>2, <1>3

(* The lists together are as long as the set of their objects is large. *)
LEMMA EntriesCount ==
  ASSUME NEW b \in NbrRecord, Once(b)
  PROVE  /\ IsFiniteSet(OnLists(b))
         /\ Entries(b) = Cardinality(OnLists(b)) /\ Entries(b) \in Nat
<1> DEFINE r == b.rxlst
           p == b.pend
           f == b.failed
<1>1. r \in Seq(Object) /\ p \in Seq(Object) /\ f \in Seq(Object)
  BY FieldTypes
<1>2. /\ IsInjective(r) /\ IsInjective(p) /\ IsInjective(f)
      /\ ToSet(r) \cap ToSet(p) = {} /\ (ToSet(r) \cup ToSet(p)) \cap ToSet(f) = {}
  BY DEF Once
<1>3. Entries(b) = Len(r) + Len(p) + Len(f) /\ OnLists(b) = (ToSet(r) \cup ToSet(p)) \cup ToSet(f)
  BY DEF Entries, OnLists
<1> HIDE DEF r, p, f
<1>4. /\ IsFiniteSet(ToSet(r)) /\ Cardinality(ToSet(r)) = Len(r) /\ Len(r) \in Nat
      /\ IsFiniteSet(ToSet(p)) /\ Cardinality(ToSet(p)) = Len(p) /\ Len(p) \in Nat
      /\ IsFiniteSet(ToSet(f)) /\ Cardinality(ToSet(f)) = Len(f) /\ Len(f) \in Nat
  BY <1>1, <1>2, CountOnce, SeqBasics
<1> DEFINE rp == ToSet(r) \cup ToSet(p)
<1>6. IsFiniteSet(rp) /\ Cardinality(rp) = Len(r) + Len(p)
  <2>1. IsFiniteSet(rp) /\ Cardinality(rp) = Cardinality(ToSet(r)) + Cardinality(ToSet(p))
    BY <1>2, <1>4, DisjointUnion
  <2> QED
    BY <1>4, <2>1
<1> HIDE DEF rp
<1>7. rp \cap ToSet(f) = {}
  BY <1>2 DEF rp
<1>8. IsFiniteSet(rp \cup ToSet(f)) /\ Cardinality(rp \cup ToSet(f)) = Len(r) + Len(p) + Len(f)
  BY <1>4, <1>6, <1>7, DisjointUnion
<1> QED
  BY <1>3, <1>4, <1>8 DEF rp

(* Which LSA is next, and what is left of the lists that were looked into. *)
LEMMA GetNextSound ==
  ASSUME NEW x \in Nat, NEW b, Sound(b, x)
  PROVE  LET g == get_next_rxmt(b)
         IN  /\ Sound(g.nbr, x) /\ KeepsLive(b, g.nbr)
             /\ g.nbr.pend = b.pend /\ g.nbr.timer = b.timer /\ g.nbr.window = b.window
             /\ g.wait \in BOOLEAN
             /\ g.lsa # NULL => g.lsa \in ToSet(g.nbr.rxlst) \cup ToSet(g.nbr.failed)
             /\ g.lsa = NULL /\ ~g.wait => g.nbr.rxlst = <<>> /\ g.nbr.failed = <<>>
<1> DEFINE b1    == WithRxlst(b, FromFirstValid(b.rxlst))
           ready == b1.rxlst # <<>> /\ Head(b1.rxlst) \in ripe
           bf    == WithFailed(b1, FromFirstValid(b1.failed))
           b2    == IF ready THEN b1 ELSE bf
           lsa   == IF ready THEN Head(b2.rxlst)
                    ELSE IF b2.failed # <<>> THEN Head(b2.failed) ELSE NULL
           wait  == b1.rxlst # <<>> /\ ~ready
<1>1. get_next_rxmt(b) = [nbr |-> b2, wait |-> wait, lsa |-> lsa]
  BY DEF get_next_rxmt
<1>2. b \in NbrRecord /\ b.rxlst \in Seq(Object)
  BY FieldTypes DEF Sound
<1>3. Cleaned(b.rxlst, FromFirstValid(b.rxlst))
  BY <1>2, FromFirstValidCleans
<1>4. /\ Sound(b1, x) /\ KeepsLive(b, b1)
      /\ b1.pend = b.pend /\ b1.timer = b.timer /\ b1.window = b.window
  BY <1>3, WithRxlstSound
<1> HIDE DEF b1
<1>5. b1 \in NbrRecord /\ b1.rxlst \in Seq(Object) /\ b1.failed \in Seq(Object)
  BY <1>4, FieldTypes DEF Sound
<1>6. Cleaned(b1.failed, FromFirstValid(b1.failed))
  BY <1>5, FromFirstValidCleans
<1>7. /\ Sound(bf, x) /\ KeepsLive(b1, bf)
      /\ bf.rxlst = b1.rxlst
      /\ bf.pend = b1.pend /\ bf.timer = b1.timer /\ bf.window = b1.window
  BY <1>4, <1>6, WithFailedSound
<1> HIDE DEF bf
<1>8. bf.failed \in Seq(Object)
  BY <1>7, FieldTypes DEF Sound
<1>9. KeepsLive(b, bf)
  BY <1>4, <1>7 DEF KeepsLive
<1>10. /\ Sound(b2, x) /\ KeepsLive(b, b2)
       /\ b2.pend = b.pend /\ b2.timer = b.timer /\ b2.window = b.window
       /\ b2.rxlst = b1.rxlst
  BY <1>4, <1>7, <1>9
<1>11. \A s \in Seq(Object) : s # <<>> => Head(s) \in ToSet(s)
  <2> TAKE s \in Seq(Object)
  <2>1. s # <<>> => Head(s) = s[1] /\ 1 \in DOMAIN s
    OBVIOUS
  <2> QED
    BY <2>1 DEF ToSet
<1> DEFINE g == get_next_rxmt(b)
<1>12. g.nbr = b2 /\ g.wait = wait /\ g.lsa = lsa
  BY <1>1
<1>13. CASE ready
  <2>1. b2 = b1 /\ lsa = Head(b1.rxlst) /\ wait = FALSE /\ b1.rxlst # <<>>
    BY <1>13
  <2>2. lsa \in ToSet(b1.rxlst)
    BY <1>5, <1>11, <2>1
  <2>3. lsa # NULL
    BY <1>5, <2>2, SeqBasics, LsaRxmtAssumption
  <2> HIDE DEF b2, lsa, wait, ready, g
  <2>4. g.lsa # NULL /\ g.lsa \in ToSet(g.nbr.rxlst)
    BY <1>10, <1>12, <2>1, <2>2, <2>3
  <2> QED
    BY <1>10, <1>12, <2>1, <2>4 DEF g
<1>14. CASE ~ready
  <2>1. b2 = bf /\ lsa = IF bf.failed # <<>> THEN Head(bf.failed) ELSE NULL
    BY <1>14
  <2>2. wait \in BOOLEAN /\ (~wait => b1.rxlst = <<>>)
    BY <1>14
  <2>3. bf.failed # <<>> => lsa \in ToSet(bf.failed) /\ lsa # NULL
    BY <1>8, <1>11, <2>1, SeqBasics, LsaRxmtAssumption
  <2> HIDE DEF b2, lsa, wait, ready, g
  <2>4. g.lsa # NULL => g.lsa \in ToSet(g.nbr.failed)
    BY <1>12, <2>1, <2>3
  <2>5. g.lsa = NULL /\ ~g.wait => g.nbr.rxlst = <<>> /\ g.nbr.failed = <<>>
    BY <1>7, <1>12, <2>1, <2>2, <2>3
  <2> QED
    BY <1>10, <1>12, <2>2, <2>4, <2>5 DEF g
<1> QED
  BY <1>13, <1>14

(* Sound said with the set of the objects in place of the lengths. *)
LEMMA SoundCounts ==
  ASSUME NEW b, NEW x \in Nat
  PROVE  Sound(b, x) <=> /\ b \in NbrRecord /\ Once(b)
                         /\ b.rxmt_count = Cardinality(OnLists(b)) + x
BY EntriesCount DEF Sound

LEMMA ToPendingSound ==
  ASSUME NEW x \in Nat, NEW b, Sound(b, x),
         NEW o, o \in ToSet(b.rxlst) \cup ToSet(b.failed)
  PROVE  LET c == ToPending(b, o)
         IN  Sound(c, x) /\ KeepsLive(b, c) /\ c.timer = b.timer /\ c.window = b.window
<1> DEFINE r == Without(b.rxlst, o)
           f == Without(b.failed, o)
           p == Append(b.pend, o)
           c == ToPending(b, o)
<1>1. b \in NbrRecord /\ Once(b) /\ b.rxmt_count = Cardinality(OnLists(b)) + x
  BY SoundCounts
<1>2. /\ b.rxlst \in Seq(Object) /\ b.pend \in Seq(Object) /\ b.failed \in Seq(Object)
      /\ OnLists(b) \subseteq Object
  BY <1>1, FieldTypes
<1>3. o \in Object /\ o \notin ToSet(b.pend)
  BY <1>1, <1>2 DEF Once, OnLists
<1>4. r \in Seq(Object) /\ IsInjective(r) /\ ToSet(r) = ToSet(b.rxlst) \ {o}
  BY <1>1, <1>2, WithoutTakesOut DEF Once
<1>5. f \in Seq(Object) /\ IsInjective(f) /\ ToSet(f) = ToSet(b.failed) \ {o}
  BY <1>1, <1>2, WithoutTakesOut DEF Once
<1>6. p \in Seq(Object) /\ IsInjective(p) /\ ToSet(p) = ToSet(b.pend) \cup {o}
  BY <1>1, <1>2, <1>3, AppendOnce DEF Once
<1>7. c = [b EXCEPT !.rxlst = r, !.failed = f, !.pend = p]
  BY DEF ToPending
<1> HIDE DEF r, f, p, c
<1>8. c \in NbrRecord
  BY <1>1, <1>4, <1>5, <1>6, <1>7 DEF NbrRecord
<1>9. /\ c.rxlst = r /\ c.pend = p /\ c.failed = f /\ c.timer = b.timer
      /\ c.window = b.window /\ c.state = b.state /\ c.ddlst = b.ddlst
      /\ c.rxmt_count = b.rxmt_count
  BY <1>1, <1>7 DEF NbrRecord
<1>10. OnLists(c) = OnLists(b)
  BY <1>4, <1>5, <1>6, <1>9 DEF OnLists
<1>11. Once(c)
  BY <1>1, <1>4, <1>5, <1>6, <1>9 DEF Once
<1>12. Sound(c, x)
  BY <1>1, <1>8, <1>9, <1>10, <1>11, SoundCounts
<1>13. KeepsLive(b, c)
  BY <1>9, <1>10 DEF KeepsLive
<1> QED
  BY <1>9, <1>12, <1>13 DEF c

-----------------------------------------------------------------------------
(* The loop of rxmt_updates(), begun with record b.  While no packet is    *)
(* begun nothing is pending that was not, and when none was begun either   *)
(* the flooded LSAs are too young or there is nothing to send.             *)
Turn(b, x) ==
  {st \in [nbr : NbrRecord, pkts : Nat, space : Nat, wait : BOOLEAN, more : BOOLEAN] :
     /\ Sound(st.nbr, x) /\ KeepsLive(b, st.nbr) /\ st.nbr.timer = b.timer
     /\ st.pkts = 0 => st.space = 0 /\ st.nbr.pend = b.pend
     /\ st.pkts = 0 /\ ~st.more => st.wait \/ (st.nbr.rxlst = <<>> /\ st.nbr.failed = <<>>)}

LEMMA FillTurnKeeps ==
  ASSUME NEW x \in Nat, NEW b, NEW st \in Turn(b, x)
  PROVE  FillTurn(st) \in Turn(b, x) /\ (FillTurn(st).pkts = 0 => ~FillTurn(st).more)
<1> DEFINE g    == get_next_rxmt(st.nbr)
           pkts == IF st.space = 0 THEN st.pkts + 1 ELSE st.pkts
           c    == ToPending(g.nbr, g.lsa)
           sp   == (IF st.space = 0 THEN PktSize ELSE st.space) - 1
           t    == FillTurn(st)
<1>1. /\ Sound(st.nbr, x) /\ KeepsLive(b, st.nbr) /\ st.nbr.timer = b.timer
      /\ st.nbr \in NbrRecord /\ st.pkts \in Nat /\ st.space \in Nat
      /\ st.wait \in BOOLEAN /\ st.more \in BOOLEAN
      /\ st.pkts = 0 => st.space = 0 /\ st.nbr.pend = b.pend
      /\ st = [nbr |-> st.nbr, pkts |-> st.pkts, space |-> st.space, wait |-> st.wait,
               more |-> st.more]
  BY DEF Turn
<1>2. st.nbr.window \in 1..MaxWindow
  BY <1>1, FieldTypes
<1>3. /\ Sound(g.nbr, x) /\ KeepsLive(st.nbr, g.nbr)
      /\ g.nbr.pend = st.nbr.pend /\ g.nbr.timer = st.nbr.timer
      /\ g.wait \in BOOLEAN
      /\ g.lsa # NULL => g.lsa \in ToSet(g.nbr.rxlst) \cup ToSet(g.nbr.failed)
      /\ g.lsa = NULL /\ ~g.wait => g.nbr.rxlst = <<>> /\ g.nbr.failed = <<>>
  BY <1>1, GetNextSound
<1>4. g.nbr \in NbrRecord /\ KeepsLive(b, g.nbr)
  BY <1>1, <1>3 DEF Sound, KeepsLive
<1>5. pkts \in Nat /\ pkts # 0 /\ sp \in Nat
  BY <1>1, LsaRxmtAssumption
<1>6. t = IF g.lsa = NULL
          THEN [st EXCEPT !.nbr = g.nbr, !.wait = g.wait, !.more = FALSE]
          ELSE IF pkts > st.nbr.window
          THEN [st EXCEPT !.nbr = g.nbr, !.pkts = pkts, !.more = FALSE]
          ELSE [st EXCEPT !.nbr = c, !.pkts = pkts, !.space = sp]
  BY <1>1 DEF FillTurn
<1>7. g.lsa # NULL => Sound(c, x) /\ KeepsLive(b, c) /\ c.timer = b.timer /\ c \in NbrRecord
  <2>1. g.lsa # NULL => Sound(c, x) /\ KeepsLive(g.nbr, c) /\ c.timer = g.nbr.timer
    BY <1>3, ToPendingSound
  <2> HIDE DEF g, c
  <2> QED
    BY <1>1, <1>3, <1>4, <2>1 DEF Sound, KeepsLive
<1> HIDE DEF g, pkts, c, sp, t
<1>8. CASE g.lsa = NULL
  <2>1. t = [nbr |-> g.nbr, pkts |-> st.pkts, space |-> st.space, wait |-> g.wait, more |-> FALSE]
    BY <1>1, <1>6, <1>8
  <2> QED
    BY <1>1, <1>3, <1>4, <1>8, <2>1 DEF Turn, t
<1>9. CASE g.lsa # NULL /\ pkts > st.nbr.window
  <2>1. t = [nbr |-> g.nbr, pkts |-> pkts, space |-> st.space, wait |-> st.wait, more |-> FALSE]
    BY <1>1, <1>6, <1>9
  <2> QED
    BY <1>1, <1>3, <1>4, <1>5, <2>1 DEF Turn, t
<1>10. CASE g.lsa # NULL /\ ~(pkts > st.nbr.window)
  <2>1. t = [nbr |-> c, pkts |-> pkts, space |-> sp, wait |-> st.wait, more |-> st.more]
    BY <1>1, <1>6, <1>10
  <2> QED
    BY <1>1, <1>5, <1>7, <1>10, <2>1 DEF Turn, t
<1> QED
  BY <1>8, <1>9, <1>10

(* After the loop the timer runs, unless there is nothing on the lists. *)
LEMMA RxmtUpdatesSound ==
  ASSUME NEW x \in Nat, NEW b, Sound(b, x), b.pend = <<>>
  PROVE  LET c == rxmt_updates(b)
         IN  Sound(c, x) /\ KeepsLive(b, c) /\ (OnLists(c) = {} \/ c.timer)
<1> DEFINE Y == Turn(b, x)
           start == [nbr |-> b, pkts |-> 0, space |-> 0, wait |-> FALSE, more |-> TRUE]
           Step(st) == IF st.more THEN FillTurn(st) ELSE st
           N == Len(b.rxlst) + Len(b.failed) + 1
           F == [e \in Y \X (1..N) |-> Step(e[1])]
           IsTurn(w) == w = [i \in 0..N |-> IF i = 0 THEN start
                                            ELSE IF w[i - 1].more THEN FillTurn(w[i - 1])
                                            ELSE w[i - 1]]
           v == CHOOSE w : IsTurn(w)
           Result(end) == IF end.pkts > 0 \/ end.wait THEN start_timer(end.nbr) ELSE end.nbr
<1>1. b \in NbrRecord /\ N \in Nat /\ N > 0
  <2>1. b \in NbrRecord
    BY DEF Sound
  <2>2. Len(b.rxlst) \in Nat /\ Len(b.failed) \in Nat
    BY <2>1, FieldTypes
  <2>3. \A k, l \in Nat : k + l + 1 \in Nat /\ k + l + 1 > 0
    OBVIOUS
  <2> QED
    BY <2>1, <2>2, <2>3
<1>2. start \in Y
  BY <1>1 DEF Turn, KeepsLive
<1>3. \A st \in Y : Step(st) \in Y /\ (Step(st).pkts = 0 => ~Step(st).more)
  <2> HIDE DEF Y
  <2>1. \A st \in Y : FillTurn(st) \in Y /\ (FillTurn(st).pkts = 0 => ~FillTurn(st).more)
    BY FillTurnKeeps DEF Y
  <2> QED
    BY <2>1
<1>4. rxmt_updates(b) = Result(v[N])
  BY DEF rxmt_updates
<1> HIDE DEF N, Y, start
<1>5. F \in [Y \X (1..N) -> Y] /\ \A k \in 1..N : \A st \in Y : F[<<st, k>>] = Step(st)
  <2> HIDE DEF Step
  <2> QED
    BY <1>3
<1> HIDE DEF F
<1>6. PICK f \in [0..N -> Y] : Iterates(f, N, start, F)
  BY <1>1, <1>2, <1>5, IterationExists
<1>7. \A i \in 0..N : f[i] = IF i = 0 THEN start ELSE Step(f[i - 1])
  <2> SUFFICES ASSUME NEW i \in 0..N, i # 0
               PROVE  f[i] = Step(f[i - 1])
    BY <1>1, <1>6 DEF Iterates
  <2>1. i \in 1..N /\ i - 1 \in 0..N
    BY <1>1
  <2>2. f[i] = F[<<f[i - 1], i>>] /\ f[i - 1] \in Y
    BY <1>6, <2>1 DEF Iterates
  <2> QED
    BY <1>5, <2>1, <2>2
<1>8. IsTurn(v)
  <2>1. IsTurn(f)
    BY <1>7
  <2> HIDE DEF IsTurn
  <2> QED
    BY <2>1
<1> HIDE DEF v
<1>9. v[0] \in Y /\ \A i \in 1..N : v[i] = Step(v[i - 1])
  <2>1. \A i \in 0..N : v[i] = IF i = 0 THEN start
                                ELSE IF v[i - 1].more THEN FillTurn(v[i - 1]) ELSE v[i - 1]
    BY <1>8, Zenon
  <2>2. 0 \in 0..N /\ \A i \in 1..N : i \in 0..N /\ i # 0
    BY <1>1
  <2> QED
    BY <1>2, <2>1, <2>2
<1>10. \A i \in 0..N : v[i] \in Y
  <2>1. \A i \in 1..N : v[i - 1] \in Y => v[i] \in Y
    <3> HIDE DEF Step
    <3> QED
      BY <1>3, <1>9
  <2> QED
    BY <1>1, <1>9, <2>1, AllValues
<1> DEFINE end == v[N]
<1>11. end \in Y /\ (end.pkts = 0 => ~end.more)
  <2>1. N \in 1..N /\ N - 1 \in 0..N /\ N \in 0..N
    BY <1>1
  <2> HIDE DEF Step
  <2>2. v[N] = Step(v[N - 1]) /\ v[N - 1] \in Y
    BY <1>9, <1>10, <2>1
  <2> QED
    BY <1>3, <2>2
<1> HIDE DEF end
<1> DEFINE c == Result(end)
<1>12. /\ Sound(end.nbr, x) /\ KeepsLive(b, end.nbr) /\ end.nbr \in NbrRecord
       /\ end.pkts \in Nat
       /\ end.pkts = 0 => end.nbr.pend = b.pend
       /\ end.pkts = 0 => end.wait \/ (end.nbr.rxlst = <<>> /\ end.nbr.failed = <<>>)
  BY <1>11 DEF Y, Turn
<1>13. CASE end.pkts > 0 \/ end.wait
  <2>1. c = [end.nbr EXCEPT !.timer = TRUE]
    BY <1>13 DEF start_timer
  <2> HIDE DEF c
  <2>2. c \in NbrRecord
    BY <1>12, <2>1 DEF NbrRecord
  <2>3. /\ c.timer = TRUE /\ c.state = end.nbr.state /\ c.ddlst = end.nbr.ddlst
        /\ c.rxlst = end.nbr.rxlst /\ c.pend = end.nbr.pend /\ c.failed = end.nbr.failed
        /\ c.rxmt_count = end.nbr.rxmt_count
    BY <1>12, <2>1 DEF NbrRecord
  <2>4. Sound(c, x)
    BY <1>12, <2>2, <2>3 DEF Sound, Once, Entries
  <2>5. KeepsLive(b, c)
    BY <1>12, <2>3 DEF KeepsLive, OnLists
  <2> QED
    BY <1>4, <2>3, <2>4, <2>5 DEF c, end
<1>14. CASE ~(end.pkts > 0 \/ end.wait)
  <2>1. end.pkts = 0 /\ ~end.wait
    BY <1>12, <1>14
  <2>2. end.nbr.rxlst = <<>> /\ end.nbr.failed = <<>> /\ end.nbr.pend = <<>>
    BY <1>12, <2>1
  <2>3. OnLists(end.nbr) = {}
    BY <2>2 DEF OnLists, ToSet
  <2>4. c = end.nbr
    BY <1>14
  <2> QED
    BY <1>4, <1>12, <2>3, <2>4 DEF end
<1> QED
  BY <1>13, <1>14

-----------------------------------------------------------------------------
(* The operations on a neighbour's record that the actions are made of. *)

(* From b to c object o has been taken off, and invalid ones perhaps. *)
TakesOff(b, o, c) ==
  /\ c.state = b.state /\ c.ddlst = b.ddlst
  /\ OnLists(c) \subseteq OnLists(b) \ {o}
  /\ \A p \in OnLists(b) : p # o /\ valid(p) => p \in OnLists(c)

(* An object is taken off the one list it is on. *)
LEMMA TakenOffOneList ==
  ASSUME NEW b, Sound(b, 0), NEW o \in OnLists(b), NEW c \in NbrRecord,
         \/ /\ o \in ToSet(b.rxlst) /\ c.rxlst = Without(b.rxlst, o)
            /\ c.pend = b.pend /\ c.failed = b.failed
         \/ /\ o \in ToSet(b.pend) /\ c.pend = Without(b.pend, o)
            /\ c.rxlst = b.rxlst /\ c.failed = b.failed
         \/ /\ o \in ToSet(b.failed) /\ c.failed = Without(b.failed, o)
            /\ c.rxlst = b.rxlst /\ c.pend = b.pend,
         c.state = b.state, c.ddlst = b.ddlst, c.rxmt_count = b.rxmt_count
  PROVE  Sound(c, 1) /\ TakesOff(b, o, c)
<1>1. b \in NbrRecord /\ Once(b) /\ b.rxmt_count = Cardinality(OnLists(b)) + 0
  BY SoundCounts
<1>2. b.rxlst \in Seq(Object) /\ b.pend \in Seq(Object) /\ b.failed \in Seq(Object)
  BY <1>1, FieldTypes
<1>3. OnLists(c) = OnLists(b) \ {o} /\ Once(c)
  <2>1. CASE o \in ToSet(b.rxlst) /\ c.rxlst = Without(b.rxlst, o)
             /\ c.pend = b.pend /\ c.failed = b.failed
    <3>1. IsInjective(c.rxlst) /\ ToSet(c.rxlst) = ToSet(b.rxlst) \ {o}
      BY <1>1, <1>2, <2>1, WithoutTakesOut DEF Once
    <3> QED
      BY <1>1, <2>1, <3>1 DEF Once, OnLists
  <2>2. CASE o \in ToSet(b.pend) /\ c.pend = Without(b.pend, o)
             /\ c.rxlst = b.rxlst /\ c.failed = b.failed
    <3>1. IsInjective(c.pend) /\ ToSet(c.pend) = ToSet(b.pend) \ {o}
      BY <1>1, <1>2, <2>2, WithoutTakesOut DEF Once
    <3> QED
      BY <1>1, <2>2, <3>1 DEF Once, OnLists
  <2>3. CASE o \in ToSet(b.failed) /\ c.failed = Without(b.failed, o)
             /\ c.rxlst = b.rxlst /\ c.pend = b.pend
    <3>1. IsInjective(c.failed) /\ ToSet(c.failed) = ToSet(b.failed) \ {o}
      BY <1>1, <1>2, <2>3, WithoutTakesOut DEF Once
    <3> QED
      BY <1>1, <2>3, <3>1 DEF Once, OnLists
  <2> QED
    BY <2>1, <2>2, <2>3
<1>4. IsFiniteSet(OnLists(b))
  BY <1>1, EntriesCount
<1>5. Cardinality(OnLists(b)) \in Nat
  BY <1>4, FS_CardinalityType
<1>6. Cardinality(OnLists(c)) = Cardinality(OnLists(b)) - 1
  BY <1>3, <1>4, FS_RemoveElement
<1>7. c.rxmt_count = Cardinality(OnLists(c)) + 1
  BY <1>1, <1>5, <1>6
<1> QED
  BY <1>3, <1>7, SoundCounts DEF TakesOff

LEMMA AcknowledgedSound ==
  ASSUME NEW b, Sound(b, 0), OnLists(b) # {} => b.timer, NEW o \in OnLists(b)
  PROVE  LET c == remove_from_rxlist(b, o)
         IN  Sound(c, 0) /\ TakesOff(b, o, c) /\ (OnLists(c) = {} \/ c.timer)
<1> DEFINE d == IF o \in ToSet(b.rxlst) THEN [b EXCEPT !.rxlst = Without(@, o)]
                ELSE IF o \in ToSet(b.pend) THEN remove_from_pending_rxmt(b, o)
                ELSE [b EXCEPT !.failed = Without(@, o)]
           c == remove_from_rxlist(b, o)
<1>1. b \in NbrRecord /\ Once(b)
  BY DEF Sound
<1>2. /\ b.rxlst \in Seq(Object) /\ b.pend \in Seq(Object) /\ b.failed \in Seq(Object)
      /\ b.window \in 1..MaxWindow /\ b.timer = TRUE
  BY <1>1, FieldTypes
<1>3. /\ Without(b.rxlst, o) \in Seq(Object) /\ Without(b.pend, o) \in Seq(Object)
      /\ Without(b.failed, o) \in Seq(Object)
  BY <1>1, <1>2, WithoutTakesOut DEF Once
<1>4. Sound(d, 1) /\ TakesOff(b, o, d) /\ (OnLists(d) = {} \/ d.timer)
  <2>1. CASE o \in ToSet(b.rxlst)
    <3> DEFINE e == [b EXCEPT !.rxlst = Without(@, o)]
    <3>1. e \in NbrRecord
      BY <1>1, <1>3 DEF NbrRecord
    <3>2. /\ e.rxlst = Without(b.rxlst, o) /\ e.pend = b.pend /\ e.failed = b.failed
          /\ e.state = b.state /\ e.ddlst = b.ddlst /\ e.rxmt_count = b.rxmt_count
          /\ e.timer = b.timer
      BY <1>1 DEF NbrRecord
    <3> HIDE DEF e
    <3>3. Sound(e, 1) /\ TakesOff(b, o, e)
      BY <2>1, <3>1, <3>2, TakenOffOneList
    <3> QED
      BY <1>2, <2>1, <3>2, <3>3 DEF e
  <2>2. CASE o \notin ToSet(b.rxlst) /\ o \in ToSet(b.pend)
    <3> DEFINE e == [b EXCEPT !.pend = Without(@, o)]
               w == IF 2 * e.window > MaxWindow THEN MaxWindow ELSE 2 * e.window
               u == [e EXCEPT !.window = w, !.timer = FALSE]
    <3>1. e \in NbrRecord
      BY <1>1, <1>3 DEF NbrRecord
    <3>2. /\ e.pend = Without(b.pend, o) /\ e.rxlst = b.rxlst /\ e.failed = b.failed
          /\ e.state = b.state /\ e.ddlst = b.ddlst /\ e.rxmt_count = b.rxmt_count
          /\ e.timer = b.timer /\ e.window = b.window
      BY <1>1 DEF NbrRecord
    <3>3. d = IF e.pend # <<>> THEN e ELSE rxmt_updates(u)
      BY <2>2 DEF remove_from_pending_rxmt
    <3> HIDE DEF e, d
    <3>4. Sound(e, 1) /\ TakesOff(b, o, e)
      BY <2>2, <3>1, <3>2, TakenOffOneList
    <3>5. CASE e.pend # <<>>
      BY <1>2, <3>2, <3>3, <3>4, <3>5
    <3>6. CASE e.pend = <<>>
      <4>1. w \in 1..MaxWindow
        BY <1>2, <3>2, LsaRxmtAssumption
      <4> HIDE DEF w
      <4>2. u \in NbrRecord
        BY <3>1, <4>1 DEF NbrRecord
      <4>3. /\ u.pend = e.pend /\ u.rxlst = e.rxlst /\ u.failed = e.failed
            /\ u.state = e.state /\ u.ddlst = e.ddlst /\ u.rxmt_count = e.rxmt_count
        BY <3>1 DEF NbrRecord
      <4> HIDE DEF u
      <4>4. Sound(u, 1) /\ OnLists(u) = OnLists(e)
        BY <3>4, <4>2, <4>3 DEF Sound, Once, Entries, OnLists
      <4>5. d = rxmt_updates(u)
        BY <3>3, <3>6
      <4>6. Sound(d, 1) /\ KeepsLive(u, d) /\ (OnLists(d) = {} \/ d.timer)
        BY <3>6, <4>3, <4>4, <4>5, RxmtUpdatesSound
      <4>7. TakesOff(b, o, d)
        BY <3>4, <4>3, <4>4, <4>6 DEF TakesOff, KeepsLive
      <4> QED
        BY <4>6, <4>7
    <3> QED
      BY <3>5, <3>6
  <2>3. CASE o \notin ToSet(b.rxlst) /\ o \notin ToSet(b.pend)
    <3> DEFINE e == [b EXCEPT !.failed = Without(@, o)]
    <3>1. e \in NbrRecord
      BY <1>1, <1>3 DEF NbrRecord
    <3>2. /\ e.failed = Without(b.failed, o) /\ e.pend = b.pend /\ e.rxlst = b.rxlst
          /\ e.state = b.state /\ e.ddlst = b.ddlst /\ e.rxmt_count = b.rxmt_count
          /\ e.timer = b.timer
      BY <1>1 DEF NbrRecord
    <3> HIDE DEF e
    <3>3. o \in ToSet(b.failed)
      BY <2>3 DEF OnLists
    <3>4. Sound(e, 1) /\ TakesOff(b, o, e)
      BY <3>1, <3>2, <3>3, TakenOffOneList
    <3> QED
      BY <1>2, <2>3, <3>2, <3>4 DEF e
  <2> QED
    BY <2>1, <2>2, <2>3
<1>5. c = [d EXCEPT !.rxmt_count = @ - 1]
  BY DEF remove_from_rxlist
<1> HIDE DEF c, d
<1>6. d \in NbrRecord /\ Once(d) /\ d.rxmt_count = Cardinality(OnLists(d)) + 1
  BY <1>4, SoundCounts
<1>7. Cardinality(OnLists(d)) \in Nat
  BY <1>6, EntriesCount, FS_CardinalityType
<1>8. d.rxmt_count - 1 = Cardinality(OnLists(d)) /\ d.rxmt_count - 1 \in Nat
  BY <1>6, <1>7
<1>9. c \in NbrRecord
  BY <1>5, <1>6, <1>8 DEF NbrRecord
<1>10. /\ c.rxlst = d.rxlst /\ c.pend = d.pend /\ c.failed = d.failed
       /\ c.state = d.state /\ c.ddlst = d.ddlst /\ c.timer = d.timer
       /\ c.rxmt_count = d.rxmt_count - 1
  BY <1>5, <1>6 DEF NbrRecord
<1>11. OnLists(c) = OnLists(d) /\ Once(c)
  BY <1>6, <1>10 DEF OnLists, Once
<1>12. c.rxmt_count = Cardinality(OnLists(c)) + 0
  BY <1>7, <1>8, <1>10, <1>11
<1>13. Sound(c, 0)
  BY <1>9, <1>11, <1>12, SoundCounts
<1> QED
  BY <1>4, <1>10, <1>11, <1>13 DEF TakesOff, c

(* An object new to the lists; the first one starts the timer. *)
LEMMA AddedSound ==
  ASSUME NEW b, Sound(b, 0), OnLists(b) # {} => b.timer,
         NEW o \in Object, o \notin OnLists(b)
  PROVE  LET c == add_to_rxlist(b, o)
         IN  /\ Sound(c, 0) /\ OnLists(c) = OnLists(b) \cup {o} /\ c.timer
             /\ c.state = b.state /\ c.ddlst = b.ddlst
<1> DEFINE r == Append(b.rxlst, o)
           k == b.rxmt_count + 1
           d == [b EXCEPT !.rxlst = r, !.rxmt_count = k]
           c == IF k = 1 THEN [d EXCEPT !.timer = TRUE] ELSE d
<1>1. b \in NbrRecord /\ Once(b) /\ b.rxmt_count = Cardinality(OnLists(b)) + 0
  BY SoundCounts
<1>2. b.rxlst \in Seq(Object) /\ b.timer \in BOOLEAN
  BY <1>1, FieldTypes
<1>3. /\ IsFiniteSet(OnLists(b)) /\ Cardinality(OnLists(b)) \in Nat
      /\ Cardinality(OnLists(b)) = 0 <=> OnLists(b) = {}
  BY <1>1, EntriesCount, FS_CardinalityType, FS_EmptySet
<1>4. o \notin ToSet(b.rxlst) /\ o \notin ToSet(b.pend) /\ o \notin ToSet(b.failed)
  BY DEF OnLists
<1>5. r \in Seq(Object) /\ IsInjective(r) /\ ToSet(r) = ToSet(b.rxlst) \cup {o}
  BY <1>1, <1>2, <1>4, AppendOnce DEF Once
<1>6. k \in Nat /\ k = Cardinality(OnLists(b)) + 1 /\ (k = 1 <=> OnLists(b) = {})
  BY <1>1, <1>3
<1> HIDE DEF r, k
<1>7. d \in NbrRecord
  BY <1>1, <1>5, <1>6 DEF NbrRecord
<1>8. /\ d.rxlst = r /\ d.pend = b.pend /\ d.failed = b.failed /\ d.rxmt_count = k
      /\ d.state = b.state /\ d.ddlst = b.ddlst /\ d.timer = b.timer
  BY <1>1 DEF NbrRecord
<1>9. add_to_rxlist(b, o) = c
  <2>1. add_to_rxlist(b, o) = IF d.rxmt_count = 1 THEN [d EXCEPT !.timer = TRUE] ELSE d
    BY DEF add_to_rxlist, start_timer, r, k
  <2> HIDE DEF d
  <2> QED
    BY <1>8, <2>1
<1> HIDE DEF d
<1>10. c \in NbrRecord
  BY <1>7 DEF NbrRecord
<1>11. /\ c.rxlst = r /\ c.pend = b.pend /\ c.failed = b.failed /\ c.rxmt_count = k
       /\ c.state = b.state /\ c.ddlst = b.ddlst
       /\ c.timer = IF k = 1 THEN TRUE ELSE b.timer
  BY <1>7, <1>8 DEF NbrRecord
<1> HIDE DEF c
<1>12. OnLists(c) = OnLists(b) \cup {o} /\ Once(c)
  <2>1. OnLists(c) = OnLists(b) \cup {o}
    BY <1>5, <1>11 DEF OnLists
  <2>2. Once(c)
    BY <1>1, <1>4, <1>5, <1>11 DEF Once
  <2> QED
    BY <2>1, <2>2
<1>13. Cardinality(OnLists(c)) = Cardinality(OnLists(b)) + 1
  BY <1>3, <1>12, FS_AddElement
<1>14. c.rxmt_count = Cardinality(OnLists(c)) + 0
  BY <1>3, <1>6, <1>11, <1>13
<1>15. Sound(c, 0)
  BY <1>10, <1>12, <1>14, SoundCounts
<1>16. c.timer
  BY <1>6, <1>11
<1> QED
  BY <1>9, <1>11, <1>12, <1>15, <1>16

(* The timer's work: the pending LSAs become the last of the failed ones,  *)
(* and the lists end without the invalid ones.                             *)
LEMMA TimerActionSound ==
  ASSUME NEW b, Sound(b, 0)
  PROVE  LET c == TimerAction(b)
         IN  Sound(c, 0) /\ KeepsLive(b, c) /\ (OnLists(c) # {} => c.timer)
<1> DEFINE f  == b.failed \o b.pend
           b1 == [b EXCEPT !.timer = FALSE, !.failed = f, !.pend = <<>>]
           g  == get_next_rxmt(b1)
           u  == IF g.lsa = NULL THEN g.nbr ELSE [g.nbr EXCEPT !.window = 1]
           b2 == rxmt_updates(u)
           b3 == WithRxlst(b2, garbage_collect(b2.rxlst))
           c  == WithFailed(b3, garbage_collect(b3.failed))
<1>1. TimerAction(b) = c
  BY DEF TimerAction
<1>2. b \in NbrRecord /\ Once(b) /\ b.rxmt_count = Cardinality(OnLists(b)) + 0
  BY SoundCounts
<1>3. b.pend \in Seq(Object) /\ b.failed \in Seq(Object)
  BY <1>2, FieldTypes
<1>4. f \in Seq(Object) /\ IsInjective(f) /\ ToSet(f) = ToSet(b.failed) \cup ToSet(b.pend)
  BY <1>2, <1>3, ConcatOnce DEF Once
<1>5. <<>> \in Seq(Object) /\ ToSet(<<>>) = {} /\ IsInjective(<<>>)
  BY DEF ToSet, IsInjective
<1> HIDE DEF f
<1>6. b1 \in NbrRecord
  BY <1>2, <1>4, <1>5 DEF NbrRecord
<1>7. /\ b1.rxlst = b.rxlst /\ b1.pend = <<>> /\ b1.failed = f
      /\ b1.rxmt_count = b.rxmt_count /\ b1.state = b.state /\ b1.ddlst = b.ddlst
  BY <1>2 DEF NbrRecord
<1> HIDE DEF b1
<1>8. OnLists(b1) = OnLists(b)
  BY <1>4, <1>5, <1>7 DEF OnLists
<1>9. Once(b1)
  BY <1>2, <1>4, <1>5, <1>7 DEF Once
<1>10. Sound(b1, 0) /\ KeepsLive(b, b1)
  <2>1. Sound(b1, 0)
    BY <1>2, <1>6, <1>7, <1>8, <1>9, SoundCounts
  <2> QED
    BY <1>7, <1>8, <2>1 DEF KeepsLive
<1>11. Sound(g.nbr, 0) /\ KeepsLive(b1, g.nbr) /\ g.nbr.pend = <<>>
  BY <1>7, <1>10, GetNextSound
<1> HIDE DEF g
<1>12. Sound(u, 0) /\ KeepsLive(b1, u) /\ u.pend = <<>>
  <2> DEFINE w == [g.nbr EXCEPT !.window = 1]
  <2>1. g.nbr \in NbrRecord
    BY <1>11 DEF Sound
  <2>2. w \in NbrRecord
    <3>1. 1 \in 1..MaxWindow
      BY LsaRxmtAssumption
    <3> QED
      BY <2>1, <3>1 DEF NbrRecord
  <2>3. /\ w.rxlst = g.nbr.rxlst /\ w.pend = g.nbr.pend /\ w.failed = g.nbr.failed
        /\ w.rxmt_count = g.nbr.rxmt_count /\ w.state = g.nbr.state /\ w.ddlst = g.nbr.ddlst
    BY <2>1 DEF NbrRecord
  <2>4. u = IF g.lsa = NULL THEN g.nbr ELSE w
    OBVIOUS
  <2> HIDE DEF w, u
  <2>5. Sound(w, 0)
    BY <1>11, <2>2, <2>3 DEF Sound, Once, Entries
  <2>6. KeepsLive(b1, w)
    BY <1>11, <2>3 DEF KeepsLive, OnLists
  <2> QED
    BY <1>11, <2>3, <2>4, <2>5, <2>6
<1> HIDE DEF u
<1>13. Sound(b2, 0) /\ KeepsLive(u, b2) /\ (OnLists(b2) = {} \/ b2.timer)
  BY <1>12, RxmtUpdatesSound
<1> HIDE DEF b2
<1>14. Cleaned(b2.rxlst, garbage_collect(b2.rxlst))
  BY <1>13, FieldTypes, GarbageCollectCleans DEF Sound
<1>15. Sound(b3, 0) /\ KeepsLive(b2, b3) /\ b3.timer = b2.timer
  BY <1>13, <1>14, WithRxlstSound
<1> HIDE DEF b3
<1>16. Cleaned(b3.failed, garbage_collect(b3.failed))
  BY <1>15, FieldTypes, GarbageCollectCleans DEF Sound
<1>17. Sound(c, 0) /\ KeepsLive(b3, c) /\ c.timer = b3.timer
  BY <1>15, <1>16, WithFailedSound
<1> HIDE DEF c
<1>18. KeepsLive(b, c)
  <2>1. KeepsLive(b, u)
    BY <1>10, <1>12 DEF KeepsLive
  <2>2. KeepsLive(b, b2)
    BY <1>13, <2>1 DEF KeepsLive
  <2>3. KeepsLive(b, b3)
    BY <1>15, <2>2 DEF KeepsLive
  <2> QED
    BY <1>17, <2>3 DEF KeepsLive
<1>19. OnLists(c) # {} => c.timer
  BY <1>13, <1>15, <1>17 DEF KeepsLive
<1> QED
  BY <1>1, <1>17, <1>18, <1>19

LEMMA ClearedSound ==
  ASSUME NEW b \in NbrRecord
  PROVE  LET c == [clear_rxmt_list(b) EXCEPT !.state = "Below", !.ddlst = {}]
         IN  NbrInv(c) /\ OnLists(c) = {}
<1> DEFINE d == clear_rxmt_list(b)
           e == [d EXCEPT !.state = "Below", !.ddlst = {}]
<1>1. 1 \in 1..MaxWindow /\ <<>> \in Seq(Object) /\ ToSet(<<>>) = {} /\ IsInjective(<<>>)
  BY LsaRxmtAssumption DEF ToSet, IsInjective
<1>2. d \in NbrRecord
  BY <1>1 DEF clear_rxmt_list, NbrRecord
<1>3. d.rxlst = <<>> /\ d.pend = <<>> /\ d.failed = <<>> /\ d.rxmt_count = 0
  BY DEF clear_rxmt_list, NbrRecord
<1> HIDE DEF d
<1>4. e \in NbrRecord
  BY <1>2 DEF NbrRecord
<1>5. /\ e.rxlst = <<>> /\ e.pend = <<>> /\ e.failed = <<>> /\ e.rxmt_count = 0
      /\ e.state = "Below" /\ e.ddlst = {}
  BY <1>2, <1>3 DEF NbrRecord
<1> HIDE DEF e
<1>6. OnLists(e) = {} /\ Once(e)
  BY <1>1, <1>5 DEF OnLists, Once
<1>7. Len(<<>>) = 0
  OBVIOUS
<1>8. Sound(e, 0)
  BY <1>4, <1>5, <1>6, <1>7 DEF Sound, Entries
<1> QED
  BY <1>5, <1>6, <1>8 DEF NbrInv, d, e

-----------------------------------------------------------------------------
(* How many neighbours wait for an object, and what a step changes of it. *)

Waiters(N, o) == {n \in Nbr : o \in OnLists(N[n])}

LEMMA WaitersCount ==
  ASSUME NEW N, NEW o
  PROVE  IsFiniteSet(Waiters(N, o)) /\ Cardinality(Waiters(N, o)) \in 0..Cardinality(Nbr)
<1> DEFINE S == Waiters(N, o)
<1>1. S \subseteq Nbr
  BY DEF Waiters
<1> HIDE DEF S
<1>2. IsFiniteSet(Nbr)
  BY LsaRxmtAssumption
<1>3. /\ IsFiniteSet(S) /\ Cardinality(S) <= Cardinality(Nbr)
      /\ Cardinality(S) \in Nat /\ Cardinality(Nbr) \in Nat
  BY <1>1, <1>2, FS_Subset, FS_CardinalityType
<1> QED
  BY <1>3 DEF S

One(condition) == IF condition THEN 1 ELSE 0

LEMMA WaitersChange ==
  ASSUME NEW N, DOMAIN N = Nbr, NEW n \in Nbr, NEW c, NEW o
  PROVE  Cardinality(Waiters([N EXCEPT ![n] = c], o))
           = Cardinality(Waiters(N, o)) + One(o \in OnLists(c)) - One(o \in OnLists(N[n]))
<1> DEFINE P == [N EXCEPT ![n] = c]
           S == Waiters(N, o)
           T == Waiters(P, o)
<1>1. P[n] = c /\ \A m \in Nbr : m # n => P[m] = N[m]
  OBVIOUS
<1> HIDE DEF P
<1>2. IsFiniteSet(S) /\ Cardinality(S) \in Nat
  <2>1. Cardinality(Nbr) \in Nat
    BY LsaRxmtAssumption, FS_CardinalityType
  <2> QED
    BY <2>1, WaitersCount
<1>3. T = IF o \in OnLists(c) THEN S \cup {n} ELSE S \ {n}
  BY <1>1 DEF Waiters
<1>4. n \in S <=> o \in OnLists(N[n])
  BY DEF Waiters
<1> HIDE DEF S, T
<1>5. CASE o \in OnLists(c) /\ n \notin S
  <2>1. Cardinality(T) = Cardinality(S) + 1
    BY <1>2, <1>3, <1>5, FS_AddElement
  <2>2. One(o \in OnLists(c)) = 1 /\ One(o \in OnLists(N[n])) = 0
    BY <1>4, <1>5 DEF One
  <2>3. Cardinality(T) = Cardinality(S) + One(o \in OnLists(c)) - One(o \in OnLists(N[n]))
    BY <1>2, <2>1, <2>2
  <2> QED
    BY <2>3 DEF S, T, P
<1>6. CASE o \notin OnLists(c) /\ n \in S
  <2>1. Cardinality(T) = Cardinality(S) - 1
    BY <1>2, <1>3, <1>6, FS_RemoveElement
  <2>2. One(o \in OnLists(c)) = 0 /\ One(o \in OnLists(N[n])) = 1
    BY <1>4, <1>6 DEF One
  <2>3. Cardinality(T) = Cardinality(S) + One(o \in OnLists(c)) - One(o \in OnLists(N[n]))
    BY <1>2, <2>1, <2>2
  <2> QED
    BY <2>3 DEF S, T, P
<1>7. CASE o \in OnLists(c) <=> n \in S
  <2>1. T = S
    BY <1>3, <1>7
  <2>2. One(o \in OnLists(c)) = One(o \in OnLists(N[n])) /\ One(o \in OnLists(c)) \in Nat
    BY <1>4, <1>7 DEF One
  <2>3. Cardinality(T) = Cardinality(S) + One(o \in OnLists(c)) - One(o \in OnLists(N[n]))
    BY <1>2, <2>1, <2>2
  <2> QED
    BY <2>3 DEF S, T, P
<1> QED
  BY <1>5, <1>6, <1>7

-----------------------------------------------------------------------------
(* The invariant, unpacked and put together again. *)

LEMMA ListsFacts ==
  ASSUME ListsInvariant
  PROVE  /\ DOMAIN nbr = Nbr
         /\ \A n \in Nbr : NbrInv(nbr[n]) /\ Sound(nbr[n], 0) /\ nbr[n] \in NbrRecord
                           /\ (OnLists(nbr[n]) # {} => nbr[n].timer)
         /\ \A i \in Id : db[i] # NULL =>
              /\ db[i] \in Object /\ db[i][1] = i /\ valid(db[i])
              /\ lsa_rxmt[db[i]] = Cardinality(Waiters(nbr, db[i]))
<1>1. DOMAIN nbr = Nbr /\ \A n \in Nbr : NbrInv(nbr[n])
  BY DEF ListsInvariant, DbType
<1>2. \A n \in Nbr : Sound(nbr[n], 0) /\ nbr[n] \in NbrRecord
                     /\ (OnLists(nbr[n]) # {} => nbr[n].timer)
  BY <1>1 DEF NbrInv, Sound
<1>3. ASSUME NEW i \in Id, db[i] # NULL
      PROVE  /\ db[i] \in Object /\ db[i][1] = i /\ valid(db[i])
             /\ lsa_rxmt[db[i]] = Cardinality(Waiters(nbr, db[i]))
  <2>1. db[i] \in Object /\ db[i][1] = i
    BY <1>3 DEF ListsInvariant, DbType
  <2>2. valid(db[i])
    BY <2>1 DEF valid
  <2>3. {n \in Nbr : Waiting(n, i)} = Waiters(nbr, db[i])
    BY <1>3 DEF Waiting, Waiters
  <2>4. lsa_rxmt[db[i]] = Cardinality({n \in Nbr : Waiting(n, i)})
    BY <1>3 DEF ListsInvariant, RxmtIsExact
  <2> QED
    BY <2>1, <2>2, <2>3, <2>4
<1> QED
  BY <1>1, <1>2, <1>3

(* What a step has to show of the lists, the database and the counts it    *)
(* hands to Update.                                                        *)
LEMMA UpdateKeeps ==
  ASSUME NEW N, DOMAIN N = Nbr, N = [n \in Nbr |-> N[n]], \A n \in Nbr : NbrInv(N[n]),
         NEW D \in [Id -> Object \cup {NULL}], \A i \in Id : D[i] # NULL => D[i][1] = i,
         NEW X, \A i \in Id : D[i] # NULL => X[D[i]] = Cardinality(Waiters(N, D[i])),
         NEW M, M \subseteq Object, NEW Q, Q \subseteq Object,
         Update(N, D, X, M, Q), installs' \in 0..MaxInstalls
  PROVE  ListsInvariant'
<1> DEFINE live == {D[i] : i \in Id}
<1>1. /\ nbr' = N /\ db' = D
      /\ lsa_rxmt' = [o \in Object |-> IF o \in live THEN X[o] ELSE 0]
      /\ maxage' = M \cap live /\ ripe' = Q \cap live
  BY DEF Update
<1>2. nbr' \in [Nbr -> NbrRecord]
  BY <1>1 DEF NbrInv, Sound
<1>3. lsa_rxmt' \in [Object -> 0..Cardinality(Nbr)]
  <2>1. Cardinality(Nbr) \in Nat
    BY LsaRxmtAssumption, FS_CardinalityType
  <2>2. ASSUME NEW o \in Object, o \in live PROVE X[o] \in 0..Cardinality(Nbr)
    <3>1. PICK i \in Id : o = D[i]
      BY <2>2
    <3>2. D[i] # NULL
      BY <3>1, LsaRxmtAssumption
    <3>3. X[o] = Cardinality(Waiters(N, o))
      BY <3>1, <3>2
    <3> QED
      BY <3>3, WaitersCount
  <2>3. 0 \in 0..Cardinality(Nbr)
    BY <2>1
  <2> HIDE DEF live
  <2> QED
    BY <1>1, <2>2, <2>3
<1>4. DbType'
  BY <1>1, <1>2, <1>3 DEF DbType
<1>5. (\A n \in Nbr : NbrInv(nbr[n]))'
  BY <1>1 DEF NbrInv, Sound, Once, Entries, OnLists
<1>6. RxmtIsExact'
  <2> SUFFICES ASSUME NEW i \in Id, D[i] # NULL
               PROVE  lsa_rxmt'[D[i]] = Cardinality({n \in Nbr : Waiting(n, i)'})
    BY <1>1 DEF RxmtIsExact
  <2>1. D[i] \in Object /\ D[i] \in live
    OBVIOUS
  <2>2. \A n \in Nbr : Waiting(n, i)' <=> D[i] \in OnLists(N[n])
    BY <1>1 DEF Waiting, OnLists
  <2>3. {n \in Nbr : Waiting(n, i)'} = Waiters(N, D[i])
    BY <2>2 DEF Waiters
  <2> HIDE DEF live
  <2> QED
    BY <1>1, <2>1, <2>3
<1> QED
  BY <1>4, <1>5, <1>6 DEF ListsInvariant

(* The steps that change one neighbour and leave the database as it is. *)
LEMMA OneNeighbourKeeps ==
  ASSUME ListsInvariant, NEW n \in Nbr, NEW c, NbrInv(c), NEW X,
         \A i \in Id : db[i] # NULL =>
           X[db[i]] = lsa_rxmt[db[i]] + One(db[i] \in OnLists(c))
                                      - One(db[i] \in OnLists(nbr[n])),
         Update([nbr EXCEPT ![n] = c], db, X, maxage, ripe), UNCHANGED installs
  PROVE  ListsInvariant'
<1> DEFINE N == [nbr EXCEPT ![n] = c]
<1>1. DOMAIN nbr = Nbr /\ \A m \in Nbr : NbrInv(nbr[m])
  BY ListsFacts
<1>2. DOMAIN N = Nbr /\ N = [m \in Nbr |-> N[m]] /\ \A m \in Nbr : NbrInv(N[m])
  <2>1. DOMAIN N = Nbr /\ N = [m \in Nbr |-> N[m]]
    BY <1>1
  <2>2. N[n] = c /\ \A m \in Nbr : m # n => N[m] = nbr[m]
    BY <1>1
  <2> HIDE DEF N
  <2> QED
    BY <1>1, <2>1, <2>2
<1>3. /\ db \in [Id -> Object \cup {NULL}] /\ \A i \in Id : db[i] # NULL => db[i][1] = i
      /\ maxage \subseteq Object /\ ripe \subseteq Object /\ installs' \in 0..MaxInstalls
  BY DEF ListsInvariant, DbType
<1>4. \A i \in Id : db[i] # NULL => X[db[i]] = Cardinality(Waiters(N, db[i]))
  <2> SUFFICES ASSUME NEW i \in Id, db[i] # NULL
               PROVE  X[db[i]] = Cardinality(Waiters(N, db[i]))
    OBVIOUS
  <2>1. lsa_rxmt[db[i]] = Cardinality(Waiters(nbr, db[i]))
    BY ListsFacts
  <2>2. Cardinality(Waiters(N, db[i])) = Cardinality(Waiters(nbr, db[i]))
          + One(db[i] \in OnLists(c)) - One(db[i] \in OnLists(nbr[n]))
    BY <1>1, WaitersChange
  <2> HIDE DEF N
  <2> QED
    BY <2>1, <2>2
<1>5. Update(N, db, X, maxage, ripe)
  OBVIOUS
<1> HIDE DEF N
<1> QED
  BY <1>2, <1>3, <1>4, <1>5, UpdateKeeps

-----------------------------------------------------------------------------
(* One lemma per action. *)

LEMMA InstallKeeps ==
  ASSUME ListsInvariant, NEW i \in Id, NEW from, NEW old \in BOOLEAN, Install(i, from, old)
  PROVE  ListsInvariant'
<1>1. PICK o \in ObjectFor(i), has \in SUBSET {n \in Nbr : nbr[n].state = "Exchange"} :
        LET to == {n \in Nbr \ has : nbr[n].state # "Below" /\ n # from}
        IN  Update([n \in Nbr |-> IF n \in to THEN add_to_rxlist(nbr[n], o) ELSE nbr[n]],
                   [db EXCEPT ![i] = o],
                   [lsa_rxmt EXCEPT ![o] = Cardinality(to)],
                   IF old THEN maxage \cup {o} ELSE maxage \ {o},
                   ripe \ {o})
  BY DEF Install, Flood
<1> DEFINE to == {n \in Nbr \ has : nbr[n].state # "Below" /\ n # from}
           N  == [n \in Nbr |-> IF n \in to THEN add_to_rxlist(nbr[n], o) ELSE nbr[n]]
           D  == [db EXCEPT ![i] = o]
           X  == [lsa_rxmt EXCEPT ![o] = Cardinality(to)]
           M  == IF old THEN maxage \cup {o} ELSE maxage \ {o}
           Q  == ripe \ {o}
<1>2. /\ nbr \in [Nbr -> NbrRecord] /\ db \in [Id -> Object \cup {NULL}]
      /\ \A j \in Id : db[j] # NULL => db[j][1] = j
      /\ lsa_rxmt \in [Object -> 0..Cardinality(Nbr)]
      /\ maxage \subseteq Object /\ ripe \subseteq Object /\ installs \in 0..MaxInstalls
  BY DEF ListsInvariant, DbType
<1>3. o \in Object /\ o[1] = i /\ o \notin Referenced(nbr)
  <2>1. CASE db[i] # NULL /\ db[i] \notin Referenced(nbr) \cup maxage
    <3>1. o = db[i]
      BY <2>1 DEF ObjectFor
    <3> QED
      BY <1>2, <2>1, <3>1
  <2>2. CASE ~(db[i] # NULL /\ db[i] \notin Referenced(nbr) \cup maxage)
    <3>1. o \in NewObject(i, Referenced(nbr) \cup {db[i]})
      BY <2>2 DEF ObjectFor
    <3>2. PICK k \in 1..Copies : o = <<i, k>> /\ <<i, k>> \notin Referenced(nbr) \cup {db[i]}
      BY <3>1 DEF NewObject
    <3> QED
      BY <3>2 DEF Object
  <2> QED
    BY <2>1, <2>2
<1>4. \A n \in Nbr : o \notin OnLists(nbr[n]) /\ o \notin nbr[n].ddlst
  BY <1>3 DEF Referenced
<1>5. \A n \in Nbr : NbrInv(N[n]) /\ OnLists(N[n]) = IF n \in to THEN OnLists(nbr[n]) \cup {o}
                                                     ELSE OnLists(nbr[n])
  <2> SUFFICES ASSUME NEW n \in Nbr
               PROVE  /\ NbrInv(N[n])
                      /\ OnLists(N[n]) = IF n \in to THEN OnLists(nbr[n]) \cup {o}
                                         ELSE OnLists(nbr[n])
    OBVIOUS
  <2>1. NbrInv(nbr[n])
    BY ListsFacts
  <2>2. CASE n \in to
    <3> DEFINE c == add_to_rxlist(nbr[n], o)
    <3>1. /\ Sound(c, 0) /\ OnLists(c) = OnLists(nbr[n]) \cup {o} /\ c.timer
          /\ c.state = nbr[n].state /\ c.ddlst = nbr[n].ddlst
      BY <1>3, <1>4, <2>1, AddedSound DEF NbrInv
    <3>2. N[n] = c /\ nbr[n].state # "Below"
      BY <2>2
    <3> HIDE DEF c, N, to
    <3>3. NbrInv(c)
      BY <1>4, <2>1, <3>1, <3>2 DEF NbrInv
    <3> QED
      BY <2>2, <3>1, <3>2, <3>3
  <2>3. CASE n \notin to
    <3>1. N[n] = nbr[n]
      BY <2>3
    <3> HIDE DEF N, to
    <3> QED
      BY <2>1, <2>3, <3>1
  <2> QED
    BY <2>2, <2>3
<1>6. D \in [Id -> Object \cup {NULL}] /\ \A j \in Id : D[j] # NULL => D[j][1] = j
  BY <1>2, <1>3
<1>7. M \subseteq Object /\ Q \subseteq Object
  BY <1>2, <1>3
<1>8. installs' \in 0..MaxInstalls
  BY <1>2, LsaRxmtAssumption DEF Install
<1>9. Update(N, D, X, M, Q)
  BY <1>1
<1>10. DOMAIN N = Nbr /\ N = [n \in Nbr |-> N[n]]
  <2>1. DOMAIN N = Nbr
    OBVIOUS
  <2>2. N = [n \in DOMAIN N |-> N[n]]
    OBVIOUS
  <2> QED
    BY <2>1, <2>2
<1>11. to \subseteq Nbr
  OBVIOUS
<1>12. \A j \in Id : D[j] # NULL => X[D[j]] = Cardinality(Waiters(N, D[j]))
  <2> SUFFICES ASSUME NEW j \in Id, D[j] # NULL
               PROVE  X[D[j]] = Cardinality(Waiters(N, D[j]))
    OBVIOUS
  <2>1. CASE j = i
    <3>1. D[j] = o /\ X[o] = Cardinality(to)
      BY <1>2, <1>3, <2>1
    <3> HIDE DEF N, D, X, to
    <3>2. Waiters(N, o) = to
      BY <1>4, <1>5, <1>11 DEF Waiters
    <3> QED
      BY <3>1, <3>2
  <2>2. CASE j # i
    <3>1. D[j] = db[j] /\ db[j] # NULL
      BY <1>2, <2>2
    <3>2. db[j] # o /\ db[j] \in Object
      BY <1>2, <1>3, <2>2, <3>1
    <3>3. X[db[j]] = lsa_rxmt[db[j]]
      BY <1>2, <3>2
    <3>4. lsa_rxmt[db[j]] = Cardinality(Waiters(nbr, db[j]))
      BY <3>1, ListsFacts
    <3> HIDE DEF N, D, X, to
    <3>5. Waiters(N, db[j]) = Waiters(nbr, db[j])
      BY <1>5, <3>2 DEF Waiters
    <3> QED
      BY <3>1, <3>3, <3>4, <3>5
  <2> QED
    BY <2>1, <2>2
<1> HIDE DEF N, D, X, M, Q, to
<1> QED
  BY <1>5, <1>6, <1>7, <1>8, <1>9, <1>10, <1>12, UpdateKeeps

LEMMA AckKeeps ==
  ASSUME ListsInvariant, NEW n \in Nbr, NEW i \in Id, recv_ack_hdr(n, i)
  PROVE  ListsInvariant'
<1> DEFINE b == nbr[n]
           o == db[i]
           c == remove_from_rxlist(b, o)
           X == [lsa_rxmt EXCEPT ![o] = lsa_rxmt[o] - 1]
<1>1. b.state # "Below" /\ o # NULL /\ o \in OnLists(b) /\ UNCHANGED installs
  BY DEF recv_ack_hdr
<1>2. NbrInv(b) /\ Sound(b, 0) /\ (OnLists(b) # {} => b.timer)
  BY ListsFacts
<1>3. Update([nbr EXCEPT ![n] = c], db, X, maxage, ripe)
  BY DEF recv_ack_hdr
<1>4. lsa_rxmt \in [Object -> 0..Cardinality(Nbr)]
  BY DEF ListsInvariant, DbType
<1>5. \A j \in Id : db[j] # NULL => db[j] \in Object /\ db[j][1] = j /\ valid(db[j])
  BY ListsFacts
<1>6. \A j \in Id : db[j] # NULL => X[db[j]] = IF j = i THEN lsa_rxmt[db[j]] - 1
                                               ELSE lsa_rxmt[db[j]]
  BY <1>1, <1>4, <1>5
<1>7. \A j \in Id : db[j] # NULL /\ j # i => db[j] # o
  BY <1>1, <1>5
<1> HIDE DEF b, c, X, o
<1>8. Sound(c, 0) /\ TakesOff(b, o, c) /\ (OnLists(c) = {} \/ c.timer)
  BY <1>1, <1>2, AcknowledgedSound DEF c
<1>9. NbrInv(c)
  BY <1>1, <1>2, <1>8 DEF NbrInv, TakesOff
<1>10. \A j \in Id : db[j] # NULL =>
         X[db[j]] = lsa_rxmt[db[j]] + One(db[j] \in OnLists(c)) - One(db[j] \in OnLists(b))
  <2> SUFFICES ASSUME NEW j \in Id, db[j] # NULL
               PROVE  X[db[j]] = lsa_rxmt[db[j]] + One(db[j] \in OnLists(c))
                                                 - One(db[j] \in OnLists(b))
    OBVIOUS
  <2>1. lsa_rxmt[db[j]] \in 0..Cardinality(Nbr) /\ Cardinality(Nbr) \in Nat
    BY <1>4, <1>5, LsaRxmtAssumption, FS_CardinalityType
  <2>2. CASE j = i
    <3>1. db[j] = o
      BY <2>2 DEF o
    <3>2. db[j] \in OnLists(b) /\ db[j] \notin OnLists(c)
      BY <1>1, <1>8, <3>1 DEF TakesOff
    <3>3. One(db[j] \in OnLists(c)) = 0 /\ One(db[j] \in OnLists(b)) = 1
      BY <3>2 DEF One
    <3>4. X[db[j]] = lsa_rxmt[db[j]] - 1
      BY <1>6, <2>2
    <3> QED
      BY <2>1, <3>3, <3>4
  <2>3. CASE j # i
    <3>1. db[j] \in OnLists(c) <=> db[j] \in OnLists(b)
      BY <1>5, <1>7, <1>8, <2>3 DEF TakesOff
    <3>2. One(db[j] \in OnLists(c)) = One(db[j] \in OnLists(b)) /\ One(db[j] \in OnLists(b)) \in Nat
      BY <3>1 DEF One
    <3>3. X[db[j]] = lsa_rxmt[db[j]]
      BY <1>6, <2>3
    <3> QED
      BY <2>1, <3>2, <3>3
  <2> QED
    BY <2>2, <2>3
<1> QED
  BY <1>1, <1>3, <1>9, <1>10, OneNeighbourKeeps DEF b

(* A step after which the same neighbours wait for what is in the database. *)
LEMMA SameWaitersKeep ==
  ASSUME ListsInvariant, NEW n \in Nbr, NEW c, NbrInv(c),
         \A i \in Id : db[i] # NULL => (db[i] \in OnLists(c) <=> db[i] \in OnLists(nbr[n])),
         Update([nbr EXCEPT ![n] = c], db, lsa_rxmt, maxage, ripe), UNCHANGED installs
  PROVE  ListsInvariant'
<1>1. \A i \in Id : db[i] # NULL =>
        lsa_rxmt[db[i]] = lsa_rxmt[db[i]] + One(db[i] \in OnLists(c))
                                          - One(db[i] \in OnLists(nbr[n]))
  <2> SUFFICES ASSUME NEW i \in Id, db[i] # NULL
               PROVE  lsa_rxmt[db[i]] = lsa_rxmt[db[i]] + One(db[i] \in OnLists(c))
                                                        - One(db[i] \in OnLists(nbr[n]))
    OBVIOUS
  <2>1. lsa_rxmt[db[i]] \in 0..Cardinality(Nbr) /\ Cardinality(Nbr) \in Nat
    BY LsaRxmtAssumption, FS_CardinalityType DEF ListsInvariant, DbType
  <2>2. /\ One(db[i] \in OnLists(c)) = One(db[i] \in OnLists(nbr[n]))
        /\ One(db[i] \in OnLists(c)) \in Nat
    BY DEF One
  <2> QED
    BY <2>1, <2>2
<1> QED
  BY <1>1, OneNeighbourKeeps

LEMMA TimerKeeps ==
  ASSUME ListsInvariant, NEW n \in Nbr, LsaRxmtTimer(n)
  PROVE  ListsInvariant'
<1> DEFINE b == nbr[n]
           c == TimerAction(b)
<1>1. NbrInv(b) /\ Sound(b, 0)
  BY ListsFacts
<1>2. Sound(c, 0) /\ KeepsLive(b, c) /\ (OnLists(c) # {} => c.timer)
  BY <1>1, TimerActionSound
<1>3. Update([nbr EXCEPT ![n] = c], db, lsa_rxmt, maxage, ripe) /\ UNCHANGED installs
  BY DEF LsaRxmtTimer
<1> HIDE DEF c
<1>4. NbrInv(c)
  BY <1>1, <1>2 DEF NbrInv, KeepsLive
<1>5. \A i \in Id : db[i] # NULL => (db[i] \in OnLists(c) <=> db[i] \in OnLists(nbr[n]))
  BY <1>2, ListsFacts DEF KeepsLive
<1> QED
  BY <1>3, <1>4, <1>5, SameWaitersKeep

LEMMA NegotiationKeeps ==
  ASSUME ListsInvariant, NEW n \in Nbr, NegotiationDone(n)
  PROVE  ListsInvariant'
<1> DEFINE b == nbr[n]
           S == {db[i] : i \in Id} \ {NULL}
           c == [b EXCEPT !.state = "Exchange", !.ddlst = S]
<1>1. NbrInv(b) /\ b \in NbrRecord /\ b.state = "Below" /\ DOMAIN nbr = Nbr
  BY ListsFacts DEF NegotiationDone
<1>2. OnLists(b) = {} /\ Sound(b, 0)
  BY <1>1 DEF NbrInv
<1>3. S \subseteq Object
  BY ListsFacts
<1> HIDE DEF S
<1>4. c \in NbrRecord
  BY <1>1, <1>3 DEF NbrRecord
<1>5. /\ c.rxlst = b.rxlst /\ c.pend = b.pend /\ c.failed = b.failed
      /\ c.rxmt_count = b.rxmt_count /\ c.state = "Exchange" /\ c.ddlst = S
  BY <1>1 DEF NbrRecord
<1>6. [nbr EXCEPT ![n].state = "Exchange", ![n].ddlst = S] = [nbr EXCEPT ![n] = c]
  BY <1>1
<1>7. Update([nbr EXCEPT ![n] = c], db, lsa_rxmt, maxage, ripe) /\ UNCHANGED installs
  BY <1>6 DEF NegotiationDone, S
<1> HIDE DEF c
<1>8. OnLists(c) = OnLists(b)
  BY <1>5 DEF OnLists
<1>9. Sound(c, 0)
  BY <1>2, <1>4, <1>5 DEF Sound, Once, Entries
<1>10. NbrInv(c)
  BY <1>2, <1>5, <1>8, <1>9 DEF NbrInv
<1> QED
  BY <1>7, <1>8, <1>10, SameWaitersKeep

LEMMA SendDDKeeps ==
  ASSUME ListsInvariant, NEW n \in Nbr, NEW o \in nbr[n].ddlst, send_dd(n, o)
  PROVE  ListsInvariant'
<1> DEFINE r == nbr[n]
           b == [r EXCEPT !.ddlst = r.ddlst \ {o}]
           dying == valid(o) /\ o \in maxage
           c == add_to_rxlist(b, o)
           X == [lsa_rxmt EXCEPT ![o] = lsa_rxmt[o] + 1]
<1>1. NbrInv(r) /\ r \in NbrRecord /\ Sound(r, 0)
  BY ListsFacts
<1>2. o \in Object /\ o \notin OnLists(r) /\ r.state = "Exchange"
  BY <1>1, FieldTypes DEF NbrInv
<1>3. b \in NbrRecord
  BY <1>1 DEF NbrRecord
<1>4. /\ b.rxlst = r.rxlst /\ b.pend = r.pend /\ b.failed = r.failed /\ b.timer = r.timer
      /\ b.rxmt_count = r.rxmt_count /\ b.state = r.state /\ b.ddlst = r.ddlst \ {o}
  BY <1>1 DEF NbrRecord
<1>5. Update([nbr EXCEPT ![n] = IF dying THEN c ELSE b], db,
             IF dying THEN X ELSE lsa_rxmt, maxage, ripe) /\ UNCHANGED installs
  BY DEF send_dd
<1> HIDE DEF b
<1>6. OnLists(b) = OnLists(r)
  BY <1>4 DEF OnLists
<1>7. Sound(b, 0)
  BY <1>1, <1>3, <1>4 DEF Sound, Once, Entries
<1>8. NbrInv(b)
  BY <1>1, <1>4, <1>6, <1>7 DEF NbrInv
<1>9. CASE ~dying
  BY <1>5, <1>6, <1>8, <1>9, SameWaitersKeep
<1>10. CASE dying
  <2>1. /\ Sound(c, 0) /\ OnLists(c) = OnLists(r) \cup {o} /\ c.timer
        /\ c.state = r.state /\ c.ddlst = r.ddlst \ {o}
    BY <1>2, <1>4, <1>6, <1>8, AddedSound DEF NbrInv
  <2> HIDE DEF c
  <2>2. NbrInv(c)
    BY <1>1, <1>2, <2>1 DEF NbrInv
  <2>3. \A i \in Id : db[i] # NULL =>
          X[db[i]] = lsa_rxmt[db[i]] + One(db[i] \in OnLists(c)) - One(db[i] \in OnLists(r))
    <3> SUFFICES ASSUME NEW i \in Id, db[i] # NULL
                 PROVE  X[db[i]] = lsa_rxmt[db[i]] + One(db[i] \in OnLists(c))
                                                   - One(db[i] \in OnLists(r))
      OBVIOUS
    <3>1. lsa_rxmt \in [Object -> 0..Cardinality(Nbr)] /\ Cardinality(Nbr) \in Nat
      BY LsaRxmtAssumption, FS_CardinalityType DEF ListsInvariant, DbType
    <3>2. db[i] \in Object
      BY ListsFacts
    <3>3. CASE db[i] = o
      <4>1. One(db[i] \in OnLists(c)) = 1 /\ One(db[i] \in OnLists(r)) = 0
        BY <1>2, <2>1, <3>3 DEF One
      <4>2. X[db[i]] = lsa_rxmt[db[i]] + 1 /\ lsa_rxmt[db[i]] \in 0..Cardinality(Nbr)
        BY <3>1, <3>2, <3>3
      <4> QED
        BY <3>1, <4>1, <4>2
    <3>4. CASE db[i] # o
      <4>1. /\ One(db[i] \in OnLists(c)) = One(db[i] \in OnLists(r))
            /\ One(db[i] \in OnLists(r)) \in Nat
        BY <2>1, <3>4 DEF One
      <4>2. X[db[i]] = lsa_rxmt[db[i]] /\ lsa_rxmt[db[i]] \in 0..Cardinality(Nbr)
        BY <3>1, <3>2, <3>4
      <4> QED
        BY <3>1, <4>1, <4>2
    <3> QED
      BY <3>3, <3>4
  <2>4. Update([nbr EXCEPT ![n] = c], db, X, maxage, ripe) /\ UNCHANGED installs
    BY <1>5, <1>10
  <2> HIDE DEF X
  <2> QED
    BY <2>2, <2>3, <2>4, OneNeighbourKeeps
<1> QED
  BY <1>9, <1>10

LEMMA NbrDownKeeps ==
  ASSUME ListsInvariant, NEW n \in Nbr, NbrDown(n)
  PROVE  ListsInvariant'
<1> DEFINE b == nbr[n]
           c == [clear_rxmt_list(b) EXCEPT !.state = "Below", !.ddlst = {}]
           X == [o \in Object |-> IF o \in OnLists(b) THEN lsa_rxmt[o] - 1 ELSE lsa_rxmt[o]]
<1>1. b \in NbrRecord
  BY ListsFacts
<1>2. NbrInv(c) /\ OnLists(c) = {}
  BY <1>1, ClearedSound
<1>3. Update([nbr EXCEPT ![n] = c], db, X, maxage, ripe) /\ UNCHANGED installs
  BY DEF NbrDown
<1> HIDE DEF c
<1>4. \A i \in Id : db[i] # NULL =>
        X[db[i]] = lsa_rxmt[db[i]] + One(db[i] \in OnLists(c)) - One(db[i] \in OnLists(b))
  <2> SUFFICES ASSUME NEW i \in Id, db[i] # NULL
               PROVE  X[db[i]] = lsa_rxmt[db[i]] + One(db[i] \in OnLists(c))
                                                 - One(db[i] \in OnLists(b))
    OBVIOUS
  <2>1. db[i] \in Object
    BY ListsFacts
  <2>2. lsa_rxmt[db[i]] \in 0..Cardinality(Nbr) /\ Cardinality(Nbr) \in Nat
    BY <2>1, LsaRxmtAssumption, FS_CardinalityType DEF ListsInvariant, DbType
  <2>3. One(db[i] \in OnLists(c)) = 0
    BY <1>2 DEF One
  <2>4. X[db[i]] = IF db[i] \in OnLists(b) THEN lsa_rxmt[db[i]] - 1 ELSE lsa_rxmt[db[i]]
    BY <2>1
  <2>5. One(db[i] \in OnLists(b)) = IF db[i] \in OnLists(b) THEN 1 ELSE 0
    BY DEF One
  <2> HIDE DEF X, b
  <2> QED
    BY <2>2, <2>3, <2>4, <2>5
<1> HIDE DEF X
<1> QED
  BY <1>2, <1>3, <1>4, OneNeighbourKeeps

LEMMA LoadingKeeps ==
  ASSUME ListsInvariant, NEW n \in Nbr, LoadingDone(n)
  PROVE  ListsInvariant'
<1> DEFINE b == nbr[n]
           c == [b EXCEPT !.state = "Full"]
<1>1. NbrInv(b) /\ b \in NbrRecord /\ Sound(b, 0) /\ DOMAIN nbr = Nbr
  BY ListsFacts
<1>2. /\ b.state = "Exchange" /\ b.ddlst = {}
      /\ nbr' = [nbr EXCEPT ![n] = c] /\ UNCHANGED <<db, lsa_rxmt, maxage, ripe, installs>>
  BY <1>1 DEF LoadingDone
<1>3. c \in NbrRecord
  BY <1>1 DEF NbrRecord
<1>4. /\ c.rxlst = b.rxlst /\ c.pend = b.pend /\ c.failed = b.failed /\ c.timer = b.timer
      /\ c.rxmt_count = b.rxmt_count /\ c.state = "Full" /\ c.ddlst = b.ddlst
  BY <1>1 DEF NbrRecord
<1> HIDE DEF c
<1>5. OnLists(c) = OnLists(b)
  BY <1>4 DEF OnLists
<1>6. Sound(c, 0)
  BY <1>1, <1>3, <1>4 DEF Sound, Once, Entries
<1>7. NbrInv(c)
  BY <1>1, <1>2, <1>4, <1>5, <1>6 DEF NbrInv
<1>8. nbr'[n] = c /\ \A m \in Nbr : m # n => nbr'[m] = nbr[m]
  BY <1>1, <1>2
<1>9. \A m \in Nbr : OnLists(nbr'[m]) = OnLists(nbr[m])
  BY <1>5, <1>8
<1>10. DbType'
  BY <1>2, <1>3 DEF ListsInvariant, DbType
<1>11. (\A m \in Nbr : NbrInv(nbr[m]))'
  <2>1. \A m \in Nbr : NbrInv(nbr'[m])
    BY <1>7, <1>8, ListsFacts
  <2> QED
    BY <2>1 DEF NbrInv, Sound, Once, Entries, OnLists
<1>12. RxmtIsExact'
  <2>1. \A m \in Nbr : \A i \in Id : Waiting(m, i)' <=> Waiting(m, i)
    <3>1. \A m \in Nbr : OnLists(nbr[m])' = OnLists(nbr[m])
      BY <1>9 DEF OnLists
    <3> QED
      BY <1>2, <3>1 DEF Waiting
  <2>2. \A i \in Id : {m \in Nbr : Waiting(m, i)'} = {m \in Nbr : Waiting(m, i)}
    BY <2>1
  <2>3. RxmtIsExact
    BY DEF ListsInvariant
  <2> QED
    BY <1>2, <2>2, <2>3 DEF RxmtIsExact
<1> QED
  BY <1>10, <1>11, <1>12 DEF ListsInvariant

LEMMA RipenKeeps ==
  ASSUME ListsInvariant, NEW o \in Object, Ripen(o)
  PROVE  ListsInvariant'
<1>1. ripe' = ripe \cup {o} /\ UNCHANGED <<nbr, db, lsa_rxmt, maxage, installs>>
  BY DEF Ripen
<1>2. DbType'
  BY <1>1 DEF ListsInvariant, DbType
<1> QED
  BY <1>1, <1>2 DEF ListsInvariant, RxmtIsExact, Waiting, NbrInv, Sound, Once, Entries, OnLists

LEMMA FreeKeeps ==
  ASSUME ListsInvariant, NEW i \in Id, FreeMaxAge(i)
  PROVE  ListsInvariant'
<1> DEFINE D == [db EXCEPT ![i] = NULL]
<1>1. /\ nbr \in [Nbr -> NbrRecord] /\ db \in [Id -> Object \cup {NULL}]
      /\ maxage \subseteq Object /\ ripe \subseteq Object /\ installs \in 0..MaxInstalls
  BY DEF ListsInvariant, DbType
<1>2. DOMAIN nbr = Nbr /\ nbr = [n \in Nbr |-> nbr[n]] /\ \A n \in Nbr : NbrInv(nbr[n])
  BY <1>1, ListsFacts
<1>3. D \in [Id -> Object \cup {NULL}] /\ \A j \in Id : D[j] # NULL => D[j] = db[j]
  BY <1>1
<1>4. Update(nbr, D, lsa_rxmt, maxage, ripe) /\ UNCHANGED installs
  BY DEF FreeMaxAge
<1> HIDE DEF D
<1>5. \A j \in Id : D[j] # NULL => D[j][1] = j
  BY <1>3, ListsFacts
<1>6. \A j \in Id : D[j] # NULL => lsa_rxmt[D[j]] = Cardinality(Waiters(nbr, D[j]))
  BY <1>3, ListsFacts
<1> QED
  BY <1>1, <1>2, <1>3, <1>4, <1>5, <1>6, UpdateKeeps

LEMMA ListsInitially == ListsInit => ListsInvariant
<1> SUFFICES ASSUME ListsInit
             PROVE  ListsInvariant
  OBVIOUS
<1>1. /\ 1 \in 1..MaxWindow /\ <<>> \in Seq(Object) /\ 0 \in 0..MaxInstalls
      /\ Cardinality(Nbr) \in Nat /\ 0 \in 0..Cardinality(Nbr)
  <2>1. Cardinality(Nbr) \in Nat
    BY LsaRxmtAssumption, FS_CardinalityType
  <2> QED
    BY <2>1, LsaRxmtAssumption
<1>2. NewNbr \in NbrRecord
  BY <1>1 DEF NewNbr, NbrRecord
<1>3. DbType
  BY <1>1, <1>2 DEF ListsInit, DbType
<1>4. NbrInv(NewNbr)
  <2>1. ToSet(<<>>) = {} /\ IsInjective(<<>>) /\ Len(<<>>) = 0
    BY DEF ToSet, IsInjective
  <2>2. Once(NewNbr) /\ OnLists(NewNbr) = {}
    BY <2>1 DEF NewNbr, Once, OnLists
  <2>3. Sound(NewNbr, 0)
    BY <1>2, <2>1, <2>2 DEF Sound, Entries, NewNbr
  <2>4. NewNbr.state = "Below" /\ NewNbr.ddlst = {}
    BY DEF NewNbr
  <2> QED
    BY <2>2, <2>3, <2>4 DEF NbrInv
<1>5. RxmtIsExact
  BY DEF ListsInit, RxmtIsExact
<1> QED
  BY <1>3, <1>4, <1>5 DEF ListsInvariant, ListsInit

LEMMA ListsStep ==
  ListsInvariant /\ [ListsNext]_listVars => ListsInvariant'
<1> SUFFICES ASSUME ListsInvariant, [ListsNext]_listVars
             PROVE  ListsInvariant'
  OBVIOUS
<1>1. ASSUME NEW i \in Id, NEW from \in Nbr \cup {NULL}, NEW old \in BOOLEAN, Install(i, from, old)
      PROVE  ListsInvariant'
  BY <1>1, InstallKeeps
<1>2. ASSUME NEW n \in Nbr, NEW i \in Id, recv_ack_hdr(n, i)
      PROVE  ListsInvariant'
  BY <1>2, AckKeeps
<1>3. ASSUME NEW n \in Nbr, NEW o \in nbr[n].ddlst, send_dd(n, o)
      PROVE  ListsInvariant'
  BY <1>3, SendDDKeeps
<1>4. ASSUME NEW n \in Nbr, NegotiationDone(n)
      PROVE  ListsInvariant'
  BY <1>4, NegotiationKeeps
<1>5. ASSUME NEW n \in Nbr, LoadingDone(n)
      PROVE  ListsInvariant'
  BY <1>5, LoadingKeeps
<1>6. ASSUME NEW n \in Nbr, NbrDown(n)
      PROVE  ListsInvariant'
  BY <1>6, NbrDownKeeps
<1>7. ASSUME NEW n \in Nbr, LsaRxmtTimer(n)
      PROVE  ListsInvariant'
  BY <1>7, TimerKeeps
<1>8. ASSUME NEW o \in Object, Ripen(o)
      PROVE  ListsInvariant'
  BY <1>8, RipenKeeps
<1>9. ASSUME NEW i \in Id, FreeMaxAge(i)
      PROVE  ListsInvariant'
  BY <1>9, FreeKeeps
<1>10. CASE UNCHANGED listVars
  <2>1. UNCHANGED <<nbr, db, lsa_rxmt, maxage, ripe, installs>>
    BY <1>10 DEF listVars
  <2>2. DbType'
    BY <2>1 DEF ListsInvariant, DbType
  <2>3. (\A n \in Nbr : NbrInv(nbr[n]))'
    BY <2>1 DEF ListsInvariant, NbrInv, Sound, Once, Entries, OnLists
  <2>4. RxmtIsExact'
    BY <2>1 DEF ListsInvariant, RxmtIsExact, Waiting, OnLists
  <2> QED
    BY <2>2, <2>3, <2>4 DEF ListsInvariant
<1> QED
  BY <1>1, <1>2, <1>3, <1>4, <1>5, <1>6, <1>7, <1>8, <1>9, <1>10 DEF ListsNext

(* The inductive invariant of the lists, the counts and the database. *)
LEMMA ListsInvariantHolds == ListsSpec => []ListsInvariant
  BY ListsInitially, ListsStep, PTL DEF ListsSpec

-----------------------------------------------------------------------------
LEMMA ObjectsAreFinite == IsFiniteSet(Object)
<1>1. IsFiniteSet(1..Copies)
  <2>1. 1 \in Int /\ Copies \in Int
    BY LsaRxmtAssumption
  <2> QED
    BY <2>1, FS_Interval
<1>2. IsFiniteSet(Id)
  BY LsaRxmtAssumption
<1> QED
  BY <1>1, <1>2, FS_Product DEF Object

LEMMA ConsistentByInvariant == ListsInvariant => ListsConsistent
<1> SUFFICES ASSUME ListsInvariant
             PROVE  ListsConsistent
  OBVIOUS
<1>1. ASSUME NEW n \in Nbr
      PROVE  /\ nbr[n].rxmt_count = Entries(nbr[n])
             /\ Cardinality(OnLists(nbr[n])) = Entries(nbr[n])
             /\ Entries(nbr[n]) <= Cardinality(Object)
             /\ nbr[n].rxmt_count > 0 => nbr[n].timer
  <2> DEFINE b == nbr[n]
  <2>1. /\ b \in NbrRecord /\ Once(b) /\ b.rxmt_count = Cardinality(OnLists(b)) + 0
        /\ OnLists(b) # {} => b.timer
    BY ListsFacts, SoundCounts
  <2> HIDE DEF b
  <2>2. IsFiniteSet(OnLists(b)) /\ Entries(b) = Cardinality(OnLists(b)) /\ Entries(b) \in Nat
    BY <2>1, EntriesCount
  <2>3. OnLists(b) \subseteq Object
    BY <2>1, FieldTypes
  <2>4. Cardinality(OnLists(b)) <= Cardinality(Object)
    BY <2>3, ObjectsAreFinite, FS_Subset
  <2>5. b.rxmt_count = Entries(b)
    BY <2>1, <2>2
  <2>6. OnLists(b) = {} => Cardinality(OnLists(b)) = 0
    BY FS_EmptySet
  <2>7. b.rxmt_count > 0 => b.timer
    BY <2>1, <2>2, <2>5, <2>6
  <2> QED
    BY <2>2, <2>4, <2>5, <2>7 DEF b
<1>2. CountIsExact
  BY <1>1 DEF CountIsExact, Entries
<1>3. OnOneList
  BY <1>1 DEF OnOneList, Entries
<1>4. TimerRuns
  BY <1>1 DEF TimerRuns
<1>5. ListsType
  BY <1>1 DEF ListsInvariant, DbType, ListsType, Entries
<1>6. RxmtIsExact
  BY DEF ListsInvariant
<1> QED
  BY <1>2, <1>3, <1>4, <1>5, <1>6 DEF ListsConsistent

(* For any neighbours and LSAs, and whatever the packet size, the windows  *)
(* and the bounds: the lists of spfack.C, a neighbour's rxmt_count and an  *)
(* LSA's lsa_rxmt give the same account of what is to be acknowledged, no  *)
(* object is listed twice, and the timer runs while anything is listed.    *)
THEOREM ListsAreConsistent == ListsSpec => []ListsConsistent
  BY ListsInvariantHolds, ConsistentByInvariant, PTL

LEMMA FreedByNobody ==
  ASSUME ListsInvariant, [ListsNext]_listVars, NEW i \in Id, db[i] # NULL, db'[i] = NULL
  PROVE  \A n \in Nbr : ~Waiting(n, i) /\ db[i] \notin nbr[n].ddlst
<1>1. db \in [Id -> Object \cup {NULL}]
  BY DEF ListsInvariant, DbType
<1>2. PICK j \in Id : FreeMaxAge(j) /\ j = i
  <2>1. ~UNCHANGED listVars
    BY DEF listVars
  <2>2. ASSUME NEW j \in Id, NEW from, NEW old, Install(j, from, old)
        PROVE  FALSE
    <3>1. PICK o \in ObjectFor(j) : db' = [db EXCEPT ![j] = o]
      BY <2>2 DEF Install, Flood, Update
    <3>2. o # NULL
      <4>1. (db[j] # NULL /\ o = db[j]) \/ \E k \in 1..Copies : o = <<j, k>>
        BY <3>1 DEF ObjectFor, NewObject
      <4> QED
        BY <4>1, LsaRxmtAssumption DEF Object
    <3> QED
      BY <1>1, <3>1, <3>2
  <2>3. ASSUME NEW n \in Nbr, NEW k \in Id, recv_ack_hdr(n, k)
        PROVE  FALSE
    BY <2>3 DEF recv_ack_hdr, Update
  <2>4. ASSUME NEW n \in Nbr, NEW o, send_dd(n, o)
        PROVE  FALSE
    BY <2>4 DEF send_dd, Update
  <2>5. ASSUME NEW n \in Nbr, NegotiationDone(n) \/ LoadingDone(n) \/ NbrDown(n) \/ LsaRxmtTimer(n)
        PROVE  FALSE
    BY <2>5 DEF NegotiationDone, LoadingDone, NbrDown, LsaRxmtTimer, Update
  <2>6. ASSUME NEW o \in Object, Ripen(o)
        PROVE  FALSE
    BY <2>6 DEF Ripen
  <2>7. PICK j \in Id : FreeMaxAge(j)
    BY <2>1, <2>2, <2>3, <2>4, <2>5, <2>6 DEF ListsNext
  <2>8. db' = [db EXCEPT ![j] = NULL]
    BY <2>7 DEF FreeMaxAge, Update
  <2> QED
    BY <1>1, <2>7, <2>8
<1>3. lsa_rxmt[db[i]] = 0 /\ \A n \in Nbr : nbr[n].state # "Exchange"
  BY <1>2 DEF FreeMaxAge, MayFree
<1>4. Cardinality(Waiters(nbr, db[i])) = 0
  BY <1>3, ListsFacts
<1>5. Waiters(nbr, db[i]) = {}
  BY <1>4, WaitersCount, FS_EmptySet
<1>6. \A n \in Nbr : ~Waiting(n, i)
  BY <1>5 DEF Waiters, Waiting
<1>7. \A n \in Nbr : nbr[n].ddlst = {}
  BY <1>3, ListsFacts DEF NbrInv
<1> QED
  BY <1>6, <1>7

(* A MaxAge LSA is freed only when no neighbour has still to hear of it:   *)
(* free_maxage_lsas() looks at lsa_rxmt alone and at the neighbours'       *)
(* states, and those two stand for every list and every description.       *)
THEOREM FreedWhenFlushed == ListsSpec => FlushedEverywhere
<1>1. ListsInvariant /\ [ListsNext]_listVars =>
        [\A i \in Id : db[i] # NULL /\ db'[i] = NULL =>
           \A n \in Nbr : ~Waiting(n, i) /\ db[i] \notin nbr[n].ddlst]_listVars
  BY FreedByNobody
<1> QED
  BY <1>1, ListsInvariantHolds, PTL DEF ListsSpec, FlushedEverywhere
=============================================================================
