-------------------------- MODULE DDExchangeProofs --------------------------
(***************************************************************************)
(* Proof that the Database Description sequence numbers of the two routers *)
(* stay in step, however many packets are lost, timers fire early, LSAs    *)
(* change and exchanges are abandoned, for any databases and packet sizes. *)
(*                                                                         *)
(* Router 2 is master.  Each of its exchanges starts with a higher number  *)
(* than the last one's, and packets are not reordered: so the numbers on   *)
(* the way to the slave do not decrease, and none is below a number that   *)
(* the slave has echoed.                                                   *)
(***************************************************************************)
EXTENDS DDExchange, Recursion, FiniteSetTheorems, TLAPS

-----------------------------------------------------------------------------
(* Types.                                                                  *)
DDPkt  == [type : {"DD"}, init : BOOLEAN, more : BOOLEAN, master : BOOLEAN, seq : Nat,
           hdrs : Seq(Header)]
ReqPkt == [type : {"Req"}, lsas : Seq(Lsa)]
UpdPkt == [type : {"Upd"}, lsa : Lsa, inst : Nat]
AckPkt == [type : {"Ack"}, lsa : Lsa, inst : Nat]
Pkt == DDPkt \cup ReqPkt \cup UpdPkt \cup AckPkt

State == {"2WAY", "EXST", "EXCH", "LOAD", "FULL"}

NbrRec == [me : Router, st : State, ddseq : Nat, ddlst : Seq(Header), rqlst : Seq(Header),
           rq_goal : Nat, ddpkt : DDPkt \cup {NoPkt}, dbsent : BOOLEAN, more : BOOLEAN,
           rxmt : SUBSET Lsa, db : [Lsa -> Nat], out : Seq(Pkt)]

(* A router's record between the steps of a handler.                       *)
Held(n) == {l \in Lsa : n.db[l] > 0}

Lists(n) ==
  /\ n.rxmt \subseteq Held(n)
  /\ n.st \in {"2WAY", "EXST"} => n.ddlst = <<>> /\ n.rqlst = <<>> /\ n.rxmt = {} /\ ~n.dbsent
  /\ n.st = "FULL" => n.rqlst = <<>>

\* The packet kept is the last one sent, an initial one in ExStart only.
Kept(n) ==
  /\ n.st = "2WAY" => n.ddpkt = NoPkt
  /\ n.ddpkt # NoPkt => n.ddpkt.seq = n.ddseq /\ (n.ddpkt.init <=> n.st = "EXST")

\* What a handler sends has the number that it leaves.
SentNow(n) ==
  \A i \in DOMAIN n.out :
    n.out[i].type = "DD" =>
      IF n.me = 2 THEN n.out[i].seq = n.ddseq
                  ELSE ~n.out[i].init => n.out[i].seq = n.ddseq /\ n.st \in FloodStates

Good(n) == n \in NbrRec /\ Lists(n) /\ Kept(n) /\ SentNow(n)

(* What a handler does to the number and the state.                        *)
Calm(n, m) ==
  /\ m.me = n.me /\ m.ddseq = n.ddseq
  /\ m.st \in FloodStates => n.st \in FloodStates

Begins(n, m) == m.me = n.me /\ m.ddseq = n.ddseq + 1 /\ m.st = "EXST"

\* p, a DD packet in sequence, was accepted.
Accepts(n, m, p) ==
  /\ m.me = n.me /\ m.st \in FloodStates
  /\ IF n.me = 2
     THEN ~p.init /\ ~p.master /\ p.seq = n.ddseq /\ m.ddseq = n.ddseq + 1
     ELSE /\ m.ddseq = p.seq /\ p.master
          /\ n.st \in FloodStates => p.seq = n.ddseq + 1

-----------------------------------------------------------------------------
(* The numbers.  s is the slave's record, m the master's, cs and cm the    *)
(* packets on their way to them.                                           *)
DDs(c)    == {i \in DOMAIN c : c[i].type = "DD"}
Echoes(c) == {i \in DDs(c) : ~c[i].init}

Numbers(s, m, cs, cm) ==
  /\ \A i \in DDs(cs) : cs[i].seq <= m.ddseq
  /\ \A i, j \in DDs(cs) : i < j => cs[i].seq <= cs[j].seq
  /\ \A i \in Echoes(cm) : cm[i].seq <= m.ddseq
  /\ \A i \in Echoes(cm), j \in DDs(cs) : cm[i].seq <= cs[j].seq
  /\ s.st \in FloodStates => /\ s.ddseq <= m.ddseq
                             /\ \A j \in DDs(cs) : s.ddseq <= cs[j].seq
                             /\ \A i \in Echoes(cm) : cm[i].seq <= s.ddseq
  /\ m.st \in FloodStates => \A j \in DDs(cs) : m.ddseq <= cs[j].seq + 1
  /\ s.st \in FloodStates /\ m.st \in FloodStates => m.ddseq <= s.ddseq + 1

Records == \A r \in Router : nb[r].me = r /\ nb[r].out = <<>> /\ Good(nb[r])

Channels == \A r \in Router : Len(chan[r]) <= ChanSize

DDInvariant ==
  /\ nb \in [Router -> NbrRec] /\ chan \in [Router -> Seq(Pkt)]
  /\ Records /\ Channels
  /\ Numbers(nb[1], nb[2], chan[1], chan[2])

-----------------------------------------------------------------------------
(* What handlers do to a router's record.                                  *)
LEMMA PacketTypes ==
    /\ \A p \in DDPkt : p.type = "DD" /\ p.init \in BOOLEAN /\ p.more \in BOOLEAN
                        /\ p.master \in BOOLEAN /\ p.seq \in Nat /\ p.hdrs \in Seq(Header)
    /\ \A p \in ReqPkt : p.type = "Req" /\ p.lsas \in Seq(Lsa)
    /\ \A p \in UpdPkt : p.type = "Upd" /\ p.lsa \in Lsa /\ p.inst \in Nat
    /\ \A p \in AckPkt : p.type = "Ack" /\ p.lsa \in Lsa /\ p.inst \in Nat
    /\ \A p \in Pkt : (p.type = "DD" => p \in DDPkt) /\ (p.type = "Req" => p \in ReqPkt)
                      /\ (p.type = "Upd" => p \in UpdPkt) /\ (p.type = "Ack" => p \in AckPkt)
                      /\ p.type \in {"DD", "Req", "Upd", "Ack"}
    /\ NoPkt \notin DDPkt
<1>1. \A p \in DDPkt : p.type = "DD" /\ p.init \in BOOLEAN /\ p.more \in BOOLEAN
                        /\ p.master \in BOOLEAN /\ p.seq \in Nat /\ p.hdrs \in Seq(Header)
  BY DEF DDPkt
<1>2. \A p \in ReqPkt : p.type = "Req" /\ p.lsas \in Seq(Lsa)
  BY DEF ReqPkt
<1>3. \A p \in UpdPkt : p.type = "Upd" /\ p.lsa \in Lsa /\ p.inst \in Nat
  BY DEF UpdPkt
<1>4. \A p \in AckPkt : p.type = "Ack" /\ p.lsa \in Lsa /\ p.inst \in Nat
  BY DEF AckPkt
<1>5. \A p \in Pkt : (p.type = "DD" => p \in DDPkt) /\ (p.type = "Req" => p \in ReqPkt)
                      /\ (p.type = "Upd" => p \in UpdPkt) /\ (p.type = "Ack" => p \in AckPkt)
                      /\ p.type \in {"DD", "Req", "Upd", "Ack"}
  BY <1>1, <1>2, <1>3, <1>4 DEF Pkt
<1>6. NoPkt \notin DDPkt
  BY <1>1 DEF NoPkt
<1> QED
  BY <1>1, <1>2, <1>3, <1>4, <1>5, <1>6

LEMMA RecordTypes ==
    ASSUME NEW n \in NbrRec
    PROVE  /\ n.me \in Router /\ n.st \in State /\ n.ddseq \in Nat
           /\ n.ddlst \in Seq(Header) /\ n.rqlst \in Seq(Header) /\ n.rq_goal \in Nat
           /\ n.ddpkt \in DDPkt \cup {NoPkt} /\ n.dbsent \in BOOLEAN /\ n.more \in BOOLEAN
           /\ n.rxmt \in SUBSET Lsa /\ n.db \in [Lsa -> Nat] /\ n.out \in Seq(Pkt)
BY DEF NbrRec

LEMMA WhoIsMaster ==
    ASSUME NEW n \in NbrRec
    PROVE  Master(n) <=> n.me = 2
BY RecordTypes DEF Master, Peer, Router

\* What n sends has the number it leaves, p too.
Numbered(n, p) ==
  p.type = "DD" => IF n.me = 2 THEN p.seq = n.ddseq
                               ELSE ~p.init => p.seq = n.ddseq /\ n.st \in FloodStates

LEMMA SendKeeps ==
    ASSUME NEW n \in NbrRec, NEW p \in Pkt, SentNow(n), Numbered(n, p)
    PROVE  /\ Send(n, p) \in NbrRec /\ SentNow(Send(n, p))
           /\ Lists(n) => Lists(Send(n, p))
           /\ Kept(n) => Kept(Send(n, p))
           /\ Send(n, p).me = n.me /\ Send(n, p).ddseq = n.ddseq /\ Send(n, p).st = n.st
           /\ Send(n, p).rqlst = n.rqlst /\ Send(n, p).rxmt = n.rxmt /\ Send(n, p).db = n.db
           /\ Send(n, p).ddpkt = n.ddpkt /\ Send(n, p).ddlst = n.ddlst
           /\ Send(n, p).dbsent = n.dbsent /\ Send(n, p).more = n.more
           /\ Send(n, p).rq_goal = n.rq_goal /\ Send(n, p).out = Append(n.out, p)
<1> DEFINE m == Send(n, p)
<1>1. /\ m.me = n.me /\ m.ddseq = n.ddseq /\ m.st = n.st
      /\ m.rqlst = n.rqlst /\ m.rxmt = n.rxmt /\ m.db = n.db
      /\ m.ddpkt = n.ddpkt /\ m.ddlst = n.ddlst
      /\ m.dbsent = n.dbsent /\ m.more = n.more
      /\ m.rq_goal = n.rq_goal /\ m.out = Append(n.out, p)
  BY DEF Send, NbrRec
<1>2. n.out \in Seq(Pkt) /\ Append(n.out, p) \in Seq(Pkt)
  BY RecordTypes
<1>3. m \in NbrRec
  BY <1>2 DEF Send, NbrRec
<1> HIDE DEF m
<1>4. SentNow(m)
  <2>1. \A i \in DOMAIN m.out : (i \in DOMAIN n.out /\ m.out[i] = n.out[i]) \/ m.out[i] = p
    BY <1>1, <1>2
  <2> QED
    BY <1>1, <2>1 DEF SentNow, Numbered
<1>5. Lists(n) => Lists(m)
  BY <1>1 DEF Lists, Held
<1>6. Kept(n) => Kept(m)
  BY <1>1 DEF Kept
<1> QED
  BY <1>1, <1>3, <1>4, <1>5, <1>6 DEF m

LEMMA KeepHeaders ==
    ASSUME NEW s \in Seq(Header), NEW S
    PROVE  Keep(s, S) \in Seq(Header)
<1>1. Keep(s, S) \in Seq(Header \cap S)
  BY KeepIsSequence
<1>2. \A t \in Seq(Header \cap S) : t \in Seq(Header)
  OBVIOUS
<1> QED
  BY <1>1, <1>2

LEMMA DoneIsGood ==
    ASSUME NEW m, Good(m), m.st = "EXCH"
    PROVE  /\ Good(nba_exchdone(m)) /\ nba_exchdone(m).me = m.me
           /\ nba_exchdone(m).ddseq = m.ddseq /\ nba_exchdone(m).db = m.db
           /\ nba_exchdone(m).st \in FloodStates
<1> DEFINE st == IF m.rqlst = <<>> THEN "FULL" ELSE "LOAD"
           d == [m EXCEPT !.st = st]
<1>1. /\ d.me = m.me /\ d.st = st /\ d.ddseq = m.ddseq /\ d.rqlst = m.rqlst
      /\ d.rxmt = m.rxmt /\ d.db = m.db /\ d.ddpkt = m.ddpkt /\ d.out = m.out
      /\ d \in NbrRec
  BY DEF Good, NbrRec, State
<1>2. nba_exchdone(m) = d
  BY DEF nba_exchdone
<1> HIDE DEF d
<1>3. SentNow(d)
  BY <1>1 DEF Good, SentNow, FloodStates
<1>4. Lists(d)
  BY <1>1 DEF Good, Lists, Held
<1>5. Kept(d)
  BY <1>1 DEF Good, Kept
<1> QED
  BY <1>1, <1>2, <1>3, <1>4, <1>5 DEF Good, FloodStates

\* A DD packet sent while the database is described.
LEMMA DescribeIsGood ==
    ASSUME NEW n \in NbrRec, n.st = "EXCH", n.rxmt \subseteq Held(n), SentNow(n)
    PROVE  /\ Good(send_dd(n)) /\ send_dd(n).me = n.me /\ send_dd(n).ddseq = n.ddseq
           /\ send_dd(n).db = n.db /\ send_dd(n).st \in FloodStates
<1> DEFINE valid == StillValid(n)
           k == IF Len(valid) < DDSize THEN Len(valid) ELSE DDSize
           rest == SubSeq(valid, k + 1, Len(valid))
           first == SubSeq(valid, 1, k)
           p == [type |-> "DD", init |-> FALSE, more |-> rest # <<>>,
                 master |-> Master(n), seq |-> n.ddseq, hdrs |-> first]
           sent == n.dbsent \/ rest = <<>>
           c == [n EXCEPT !.ddpkt = p, !.ddlst = rest, !.dbsent = sent]
           m == Send(c, p)
<1>1. send_dd(n) = IF ~Master(n) /\ m.dbsent /\ ~n.more THEN nba_exchdone(m) ELSE m
  <2>1. c = [n EXCEPT !.ddpkt = p, !.ddlst = rest, !.dbsent = @ \/ rest = <<>>]
    OBVIOUS
  <2> QED
    BY <2>1 DEF send_dd
<1>2. first \in Seq(Header) /\ rest \in Seq(Header)
  <2>1. valid \in Seq(Header)
    BY KeepHeaders, RecordTypes DEF StillValid
  <2> HIDE DEF valid
  <2> QED
    BY <2>1, DDAssumption
<1>3. p.type = "DD" /\ ~p.init /\ p.seq = n.ddseq
  OBVIOUS
<1>4. p \in DDPkt
  <2>1. n.ddseq \in Nat /\ Master(n) \in BOOLEAN /\ (rest # <<>>) \in BOOLEAN
    BY RecordTypes DEF Master
  <2> HIDE DEF first, rest
  <2> QED
    BY <1>2, <2>1 DEF DDPkt
<1> HIDE DEF p
<1>5. /\ c.me = n.me /\ c.st = "EXCH" /\ c.ddseq = n.ddseq /\ c.rqlst = n.rqlst
      /\ c.rxmt = n.rxmt /\ c.db = n.db /\ c.ddpkt = p /\ c.out = n.out
  BY DEF NbrRec
<1>6. c \in NbrRec
  <2>1. n.dbsent \in BOOLEAN /\ sent \in BOOLEAN /\ p \in DDPkt \cup {NoPkt}
    BY <1>4, RecordTypes
  <2> HIDE DEF rest, sent
  <2> QED
    BY <1>2, <2>1 DEF NbrRec
<1> HIDE DEF c
<1>7. /\ SentNow(c) /\ Lists(c) /\ Kept(c) /\ Numbered(c, p) /\ p \in Pkt
  <2>1. SentNow(c)
    BY <1>5 DEF SentNow, FloodStates
  <2>2. Lists(c)
    BY <1>5 DEF Lists, Held
  <2>3. Kept(c)
    BY <1>3, <1>4, <1>5, PacketTypes DEF Kept
  <2> QED
    BY <1>3, <1>4, <1>5, <2>1, <2>2, <2>3 DEF Numbered, FloodStates, Pkt
<1>8. /\ m \in NbrRec /\ SentNow(m) /\ Lists(m) /\ Kept(m)
      /\ m.me = n.me /\ m.st = "EXCH" /\ m.ddseq = n.ddseq /\ m.ddpkt = p
      /\ m.db = n.db
  BY <1>5, <1>6, <1>7, SendKeeps
<1> HIDE DEF m
<1>9. CASE send_dd(n) = m
  BY <1>8, <1>9 DEF Good, FloodStates
<1>10. CASE send_dd(n) = nba_exchdone(m)
  BY <1>8, <1>10, DoneIsGood DEF Good
<1> QED
  BY <1>1, <1>9, <1>10

LEMMA RestartIsGood ==
    ASSUME NEW n \in NbrRec, n.out = <<>>
    PROVE  Good(Restart(n)) /\ Calm(n, Restart(n)) /\ Restart(n).out = <<>>
<1> DEFINE c == nba_clr_lists(n)
           m == [c EXCEPT !.st = "2WAY"]
<1>1. /\ c.me = n.me /\ c.ddseq = n.ddseq /\ c.out = n.out /\ c.ddpkt = NoPkt /\ c.rxmt = {}
      /\ c.ddlst = <<>> /\ c.rqlst = <<>> /\ c.dbsent = FALSE /\ c \in NbrRec
  <2>1. <<>> \in Seq(Header) /\ {} \in SUBSET Lsa /\ FALSE \in BOOLEAN
    OBVIOUS
  <2> QED
    BY <2>1 DEF nba_clr_lists, NbrRec
<1> HIDE DEF c
<1>2. /\ m.me = n.me /\ m.ddseq = n.ddseq /\ m.out = n.out /\ m.ddpkt = NoPkt /\ m.rxmt = {}
      /\ m.ddlst = <<>> /\ m.rqlst = <<>> /\ ~m.dbsent /\ m.st = "2WAY" /\ m \in NbrRec
  BY <1>1 DEF NbrRec, State
<1>3. Restart(n) = m
  BY DEF Restart, c
<1> HIDE DEF m
<1>4. Lists(m) /\ Kept(m) /\ SentNow(m)
  BY <1>2 DEF Lists, Held, Kept, SentNow
<1> QED
  BY <1>2, <1>3, <1>4 DEF Good, Calm, FloodStates

\* No DD packet sent yet, but for the slave's initial one.
NoneSent(n) ==
  \A i \in DOMAIN n.out : n.out[i].type = "DD" => n.me = 1 /\ n.out[i].init

LEMMA StartIsGood ==
    ASSUME NEW n \in NbrRec, n.st = "2WAY", Lists(n), n.out = <<>>
    PROVE  /\ Good(start_adjacency(n)) /\ Begins(n, start_adjacency(n))
           /\ n.me = 1 => NoneSent(start_adjacency(n))
<1> DEFINE d == n.ddseq + 1
           c == [n EXCEPT !.st = "EXST", !.ddseq = d]
           p == [type |-> "DD", init |-> TRUE, more |-> TRUE, master |-> TRUE,
                 seq |-> c.ddseq, hdrs |-> <<>>]
           e == [c EXCEPT !.ddpkt = p, !.dbsent = FALSE]
           m == Send(e, p)
<1>1. d \in Nat
  BY RecordTypes
<1>2. start_adjacency(n) = send_dd(c)
  <2>1. c = [n EXCEPT !.st = "EXST", !.ddseq = @ + 1]
    OBVIOUS
  <2> QED
    BY <2>1 DEF start_adjacency
<1>3. /\ c.me = n.me /\ c.st = "EXST" /\ c.ddseq = d /\ c.rqlst = <<>> /\ c.ddlst = <<>>
      /\ c.rxmt = {} /\ c.db = n.db /\ c.out = <<>> /\ c \in NbrRec
  <2> HIDE DEF d
  <2> QED
    BY <1>1 DEF NbrRec, State, Lists
<1>4. send_dd(c) = m
  <2> HIDE DEF c
  <2> QED
    BY <1>3 DEF send_dd
<1> HIDE DEF c, d
<1>5. p \in DDPkt /\ p.init /\ p.type = "DD" /\ p.seq = d
  <2>1. <<>> \in Seq(Header)
    OBVIOUS
  <2> QED
    BY <1>1, <1>3, <2>1 DEF DDPkt
<1> HIDE DEF p
<1>6. /\ e.me = n.me /\ e.st = "EXST" /\ e.ddseq = d /\ e.rqlst = <<>> /\ e.ddlst = <<>>
      /\ e.rxmt = {} /\ e.db = n.db /\ e.out = <<>> /\ e.ddpkt = p /\ ~e.dbsent
      /\ e \in NbrRec
  BY <1>3, <1>5 DEF NbrRec
<1> HIDE DEF e
<1>7. Lists(e) /\ Kept(e) /\ SentNow(e) /\ Numbered(e, p) /\ p \in Pkt
  BY <1>5, <1>6 DEF Lists, Held, Kept, SentNow, Numbered, Pkt
<1>8. /\ m \in NbrRec /\ SentNow(m) /\ Lists(m) /\ Kept(m)
      /\ m.me = n.me /\ m.st = "EXST" /\ m.ddseq = d /\ m.out = Append(<<>>, p)
  BY <1>6, <1>7, SendKeeps
<1> HIDE DEF m
<1>9. n.me = 1 => NoneSent(m)
  BY <1>5, <1>8 DEF NoneSent
<1> QED
  BY <1>2, <1>4, <1>8, <1>9 DEF Good, Begins, d

LEMMA RequestKeeps ==
    ASSUME NEW n \in NbrRec, SentNow(n)
    PROVE  /\ send_req(n) \in NbrRec /\ SentNow(send_req(n))
           /\ Lists(n) => Lists(send_req(n))
           /\ Kept(n) => Kept(send_req(n))
           /\ NoneSent(n) => NoneSent(send_req(n))
           /\ send_req(n).me = n.me /\ send_req(n).ddseq = n.ddseq /\ send_req(n).st = n.st
           /\ send_req(n).rqlst = n.rqlst /\ send_req(n).rxmt = n.rxmt
           /\ send_req(n).db = n.db /\ send_req(n).ddpkt = n.ddpkt
           /\ send_req(n).more = n.more /\ send_req(n).dbsent = n.dbsent
<1> DEFINE k == IF Len(n.rqlst) < ReqSize THEN Len(n.rqlst) ELSE ReqSize
           goal == Len(n.rqlst) - k
           c == [n EXCEPT !.rq_goal = goal]
           p == [type |-> "Req", lsas |-> [j \in 1..k |-> n.rqlst[j].lsa]]
           m == Send(c, p)
<1>1. CASE n.rqlst = <<>>
  BY <1>1 DEF send_req
<1>2. CASE n.rqlst # <<>>
  <2>1. send_req(n) = m
    BY <1>2 DEF send_req
  <2>2. k \in Nat /\ goal \in Nat /\ k <= Len(n.rqlst)
    BY RecordTypes, DDAssumption
  <2>3. p \in ReqPkt
    <3>1. \A j \in 1..k : n.rqlst[j].lsa \in Lsa
      <4>1. \A j \in 1..k : n.rqlst[j] \in Header
        BY <2>2, RecordTypes
      <4> QED
        BY <4>1 DEF Header
    <3> HIDE DEF k
    <3>2. [j \in 1..k |-> n.rqlst[j].lsa] \in Seq(Lsa)
      BY <2>2, <3>1
    <3> QED
      BY <3>2 DEF ReqPkt
  <2> HIDE DEF p, goal
  <2>4. /\ c \in NbrRec /\ c.me = n.me /\ c.ddseq = n.ddseq /\ c.st = n.st
        /\ c.rqlst = n.rqlst /\ c.rxmt = n.rxmt /\ c.db = n.db /\ c.ddpkt = n.ddpkt
        /\ c.more = n.more /\ c.dbsent = n.dbsent /\ c.out = n.out /\ c.ddlst = n.ddlst
    BY <2>2 DEF NbrRec
  <2> HIDE DEF c
  <2>5. SentNow(c) /\ Numbered(c, p) /\ p \in Pkt /\ p.type = "Req"
    BY <2>3, <2>4, PacketTypes DEF SentNow, Numbered, Pkt
  <2>6. (Lists(n) => Lists(c)) /\ (Kept(n) => Kept(c))
    BY <2>4 DEF Lists, Kept, Held
  <2>7. /\ m \in NbrRec /\ SentNow(m) /\ (Lists(c) => Lists(m)) /\ (Kept(c) => Kept(m))
        /\ m.me = n.me /\ m.ddseq = n.ddseq /\ m.st = n.st
        /\ m.rqlst = n.rqlst /\ m.rxmt = n.rxmt /\ m.db = n.db /\ m.ddpkt = n.ddpkt
        /\ m.more = n.more /\ m.dbsent = n.dbsent /\ m.out = Append(n.out, p)
    BY <2>4, <2>5, SendKeeps
  <2> HIDE DEF m
  <2>8. NoneSent(n) => NoneSent(m)
    <3>1. \A i \in DOMAIN m.out : (i \in DOMAIN n.out /\ m.out[i] = n.out[i]) \/ m.out[i] = p
      BY <2>7, RecordTypes
    <3> QED
      BY <2>5, <2>7, <3>1 DEF NoneSent
  <2> QED
    BY <2>1, <2>6, <2>7, <2>8
<1> QED
  BY <1>1, <1>2

\* A DD packet in sequence.
LEMMA AcceptIsGood ==
    ASSUME NEW n \in NbrRec, n.st = "EXCH", n.rxmt \subseteq Held(n), NoneSent(n),
           NEW p \in DDPkt
    PROVE  /\ Good(AcceptDD(n, p)) /\ AcceptDD(n, p).me = n.me
           /\ AcceptDD(n, p).st \in FloodStates
           /\ AcceptDD(n, p).ddseq = IF n.me = 2 THEN n.ddseq + 1 ELSE p.seq
<1> DEFINE a == [n EXCEPT !.more = p.more, !.ddpkt = NoPkt]
           wanted == Keep(p.hdrs, {h \in Header : h.inst > a.db[h.lsa]})
           rq == a.rqlst \o wanted
           b == [a EXCEPT !.rqlst = rq]
           m == send_req(b)
           seq == IF Master(n) THEN m.ddseq + 1 ELSE p.seq
           s == [m EXCEPT !.ddseq = seq]
<1>1. AcceptDD(n, p) = IF Finished(s, p) THEN nba_exchdone(s)
                       ELSE IF s.rqlst = <<>> THEN send_dd(s) ELSE s
  <2>1. process_dd_contents(a, p.hdrs) = b
    BY DEF process_dd_contents
  <2>2. s = [m EXCEPT !.ddseq = IF Master(n) THEN @ + 1 ELSE p.seq]
    OBVIOUS
  <2> HIDE DEF b
  <2> QED
    BY <2>1, <2>2 DEF AcceptDD
<1>2. /\ a.me = n.me /\ a.st = "EXCH" /\ a.ddseq = n.ddseq /\ a.rqlst = n.rqlst
      /\ a.rxmt = n.rxmt /\ a.db = n.db /\ a.ddpkt = NoPkt /\ a.out = n.out
      /\ a \in NbrRec
  <2>1. p.more \in BOOLEAN
    BY PacketTypes
  <2> QED
    BY <2>1 DEF NbrRec
<1> HIDE DEF a
<1>3. rq \in Seq(Header)
  <2>1. wanted \in Seq(Header)
    BY KeepHeaders, PacketTypes
  <2>2. a.rqlst \in Seq(Header)
    BY <1>2, RecordTypes
  <2> HIDE DEF wanted
  <2> QED
    BY <2>1, <2>2
<1> HIDE DEF rq
<1>4. /\ b.me = n.me /\ b.st = "EXCH" /\ b.ddseq = n.ddseq
      /\ b.rxmt = n.rxmt /\ b.db = n.db /\ b.ddpkt = NoPkt /\ b.out = n.out
      /\ b \in NbrRec
  BY <1>2, <1>3 DEF NbrRec
<1> HIDE DEF b
<1>5. NoneSent(b) /\ SentNow(b)
  BY <1>4, RecordTypes DEF NoneSent, SentNow, Router
<1>6. /\ m.me = n.me /\ m.st = "EXCH" /\ m.ddseq = n.ddseq /\ m.rxmt = n.rxmt /\ m.db = n.db
      /\ m.ddpkt = NoPkt /\ m \in NbrRec /\ NoneSent(m)
  BY <1>4, <1>5, RequestKeeps
<1> HIDE DEF m
<1>7. seq \in Nat /\ seq = IF n.me = 2 THEN n.ddseq + 1 ELSE p.seq
  BY <1>6, WhoIsMaster, RecordTypes, PacketTypes
<1> HIDE DEF seq
<1>8. /\ s.me = n.me /\ s.st = "EXCH" /\ s.ddseq = seq /\ s.rxmt = n.rxmt /\ s.db = n.db
      /\ s.ddpkt = NoPkt /\ s.out = m.out /\ s \in NbrRec
  BY <1>6, <1>7 DEF NbrRec
<1> HIDE DEF s
<1>9. SentNow(s) /\ Lists(s) /\ Kept(s) /\ s.rxmt \subseteq Held(s)
  <2>1. SentNow(s)
    BY <1>6, <1>8, RecordTypes DEF NoneSent, SentNow, Router
  <2> QED
    BY <1>8, <2>1 DEF Lists, Kept, Held
<1>10. CASE Finished(s, p)
  BY <1>1, <1>7, <1>8, <1>9, <1>10, DoneIsGood DEF Good
<1>11. CASE ~Finished(s, p) /\ s.rqlst = <<>>
  BY <1>1, <1>7, <1>8, <1>9, <1>11, DescribeIsGood
<1>12. CASE ~Finished(s, p) /\ s.rqlst # <<>>
  BY <1>1, <1>7, <1>8, <1>9, <1>12 DEF Good, FloodStates
<1> QED
  BY <1>10, <1>11, <1>12

LEMMA ResendIsGood ==
    ASSUME NEW n, Good(n), n.out = <<>>
    PROVE  Good(rxmt_dd(n)) /\ Calm(n, rxmt_dd(n))
<1>1. n \in NbrRec /\ Lists(n) /\ Kept(n) /\ SentNow(n)
  BY DEF Good
<1>2. CASE n.ddpkt # NoPkt
  <2>1. n.ddpkt \in DDPkt /\ n.ddpkt.seq = n.ddseq /\ (n.ddpkt.init <=> n.st = "EXST")
        /\ n.st # "2WAY" /\ n.st \in State
    BY <1>1, <1>2, RecordTypes DEF Kept
  <2>2. Numbered(n, n.ddpkt) /\ n.ddpkt \in Pkt
    BY <2>1 DEF Numbered, State, FloodStates, Pkt
  <2> QED
    BY <1>1, <1>2, <2>2, SendKeeps DEF rxmt_dd, Good, Calm
<1>3. CASE n.ddpkt = NoPkt /\ n.st = "FULL"
  BY <1>1, <1>3, RestartIsGood DEF rxmt_dd
<1>4. CASE n.ddpkt = NoPkt /\ n.st # "FULL"
  BY <1>4 DEF rxmt_dd, Calm
<1> QED
  BY <1>2, <1>3, <1>4

LEMMA SnapshotIsTyped ==
    ASSUME NEW n \in NbrRec
    PROVE  /\ nba_snapshot(n) \in NbrRec /\ nba_snapshot(n).me = n.me
           /\ nba_snapshot(n).st = "EXCH" /\ nba_snapshot(n).ddseq = n.ddseq
           /\ nba_snapshot(n).rxmt = n.rxmt /\ nba_snapshot(n).db = n.db
           /\ nba_snapshot(n).out = n.out
<1> DEFINE held == {l \in Lsa : n.db[l] > 0}
           S == {[lsa |-> l, inst |-> n.db[l]] : l \in held}
           q == SetToSeq(S)
           m == [n EXCEPT !.st = "EXCH", !.ddlst = q]
<1>1. n.db \in [Lsa -> Nat]
  BY RecordTypes
<1>2. S \subseteq Header
  BY <1>1 DEF Header
<1>3. IsFiniteSet(S)
  <2>1. IsFiniteSet(held)
    BY DDAssumption, FS_Subset
  <2> DEFINE f == [l \in held |-> [lsa |-> l, inst |-> n.db[l]]]
  <2>2. f \in Surjection(held, S)
    BY DEF Surjection
  <2> HIDE DEF f, held
  <2> QED
    BY <2>1, <2>2, FS_Surjection
<1> HIDE DEF S
<1>4. q \in Seq(Header)
  <2>1. Cardinality(S) \in Nat
    BY <1>3, FS_CardinalityType
  <2>2. \E f \in [1..Cardinality(S) -> S] : IsInjective(f)
    <3>1. PICK f \in Bijection(1..Cardinality(S), S) : TRUE
      BY <1>3, <2>1, FS_NatBijection, FS_CardinalityType DEF ExistsBijection
    <3> QED
      BY <3>1 DEF Bijection, Injection, IsInjective
  <2>3. q \in [1..Cardinality(S) -> S]
    BY <2>2 DEF SetToSeq
  <2> HIDE DEF q
  <2> QED
    BY <1>2, <2>1, <2>3
<1> HIDE DEF q
<1>5. /\ m.me = n.me /\ m.st = "EXCH" /\ m.ddseq = n.ddseq /\ m.rxmt = n.rxmt /\ m.db = n.db
      /\ m.out = n.out /\ m \in NbrRec
  BY <1>4 DEF NbrRec, State
<1>6. nba_snapshot(n) = m
  BY DEF nba_snapshot, q, S
<1> QED
  BY <1>5, <1>6

-----------------------------------------------------------------------------
(* The handlers.                                                           *)
LEMMA ExStartAccepts ==
    ASSUME NEW n \in NbrRec, n.st = "EXST", Lists(n), NEW p \in DDPkt,
           NoneSent(n) \/ (n.me = 2 /\ (p.init \/ p.seq # n.ddseq))
    PROVE  \/ RecvDD_ExStart(n, p) = n
           \/ /\ Good(RecvDD_ExStart(n, p)) /\ RecvDD_ExStart(n, p).me = n.me
              /\ RecvDD_ExStart(n, p).st \in FloodStates
              /\ IF n.me = 2
                 THEN /\ ~p.init /\ ~p.master /\ p.seq = n.ddseq
                      /\ RecvDD_ExStart(n, p).ddseq = n.ddseq + 1
                 ELSE p.master /\ RecvDD_ExStart(n, p).ddseq = p.seq
<1> DEFINE s == nba_snapshot(n)
           m == AcceptDD(s, p)
<1>1. /\ s \in NbrRec /\ s.me = n.me /\ s.st = "EXCH" /\ s.ddseq = n.ddseq
      /\ s.rxmt = n.rxmt /\ s.db = n.db /\ s.out = n.out
  BY SnapshotIsTyped
<1> HIDE DEF s
<1>2. NoneSent(n) => /\ Good(m) /\ m.me = n.me /\ m.st \in FloodStates
                     /\ m.ddseq = IF n.me = 2 THEN n.ddseq + 1 ELSE p.seq
  <2>1. s.rxmt \subseteq Held(s)
    BY <1>1 DEF Lists, Held
  <2>2. NoneSent(n) => NoneSent(s)
    BY <1>1 DEF NoneSent
  <2> QED
    BY <1>1, <2>1, <2>2, AcceptIsGood
<1> HIDE DEF m
<1>3. n.me \in Router /\ p.master \in BOOLEAN /\ p.init \in BOOLEAN /\ (Master(n) <=> n.me = 2)
  BY RecordTypes, PacketTypes, WhoIsMaster
<1>4. \/ RecvDD_ExStart(n, p) = n
      \/ RecvDD_ExStart(n, p) = m /\ n.me = 2 /\ ~p.master /\ ~p.init /\ p.seq = n.ddseq
      \/ RecvDD_ExStart(n, p) = m /\ n.me # 2 /\ p.master
  BY <1>3 DEF RecvDD_ExStart, m, s
<1> QED
  BY <1>2, <1>4

LEMMA RecvDDIsGood ==
    ASSUME NEW n, Good(n), n.out = <<>>, NEW p \in DDPkt,
           n.me = 2 /\ ~p.init => p.seq <= n.ddseq
    PROVE  /\ Good(recv_dd(n, p))
           /\ Calm(n, recv_dd(n, p)) \/ Begins(n, recv_dd(n, p)) \/ Accepts(n, recv_dd(n, p), p)
<1> DEFINE m == recv_dd(n, p)
<1>1. n \in NbrRec /\ Lists(n) /\ Kept(n) /\ SentNow(n) /\ n.rxmt \subseteq Held(n)
  BY DEF Good, Lists
<1>2. /\ n.st \in State /\ n.ddseq \in Nat /\ n.me \in Router /\ p.seq \in Nat
      /\ p.master \in BOOLEAN /\ p.init \in BOOLEAN /\ (Master(n) <=> n.me = 2)
  BY <1>1, RecordTypes, PacketTypes, WhoIsMaster
<1>3. NoneSent(n)
  BY DEF NoneSent
<1>4. Good(Restart(n)) /\ Calm(n, Restart(n))
  BY <1>1, RestartIsGood
<1>5. Good(rxmt_dd(n)) /\ Calm(n, rxmt_dd(n))
  BY ResendIsGood
<1>6. CASE n.st = "2WAY"
  <2> DEFINE b == start_adjacency(n)
             r == RecvDD_ExStart(b, p)
  <2>1. m = r
    BY <1>6 DEF recv_dd
  <2>2. Good(b) /\ b.me = n.me /\ b.ddseq = n.ddseq + 1 /\ b.st = "EXST" /\ (n.me = 1 => NoneSent(b))
    BY <1>1, <1>6, StartIsGood DEF Begins
  <2> HIDE DEF b
  <2>3. NoneSent(b) \/ (b.me = 2 /\ (p.init \/ p.seq # b.ddseq))
    BY <1>2, <2>2 DEF Router
  <2>4. \/ r = b
        \/ /\ Good(r) /\ r.me = b.me /\ r.st \in FloodStates
           /\ IF b.me = 2
              THEN ~p.init /\ ~p.master /\ p.seq = b.ddseq /\ r.ddseq = b.ddseq + 1
              ELSE p.master /\ r.ddseq = p.seq
    BY <2>2, <2>3, ExStartAccepts DEF Good
  <2> HIDE DEF r, m
  <2>5. CASE r = b
    BY <2>1, <2>2, <2>5 DEF Begins, m
  <2>6. CASE n.me # 2 /\ r # b
    BY <1>6, <2>1, <2>2, <2>4, <2>6 DEF Accepts, FloodStates, m
  <2>7. CASE n.me = 2 /\ r # b
    BY <1>2, <2>2, <2>4, <2>7
  <2> QED
    BY <2>5, <2>6, <2>7 DEF m
<1>7. CASE n.st = "EXST"
  <2> DEFINE r == RecvDD_ExStart(n, p)
  <2>1. m = r
    BY <1>7 DEF recv_dd
  <2>2. \/ r = n
        \/ /\ Good(r) /\ r.me = n.me /\ r.st \in FloodStates
           /\ IF n.me = 2
              THEN ~p.init /\ ~p.master /\ p.seq = n.ddseq /\ r.ddseq = n.ddseq + 1
              ELSE p.master /\ r.ddseq = p.seq
    BY <1>1, <1>3, <1>7, ExStartAccepts
  <2> HIDE DEF r, m
  <2>3. CASE r = n
    BY <2>1, <2>3 DEF Calm, m
  <2>4. CASE r # n
    BY <1>7, <2>1, <2>2, <2>4 DEF Accepts, FloodStates, m
  <2> QED
    BY <2>3, <2>4
<1>8. CASE n.st = "EXCH"
  <2>1. m = RecvDD_Exchange(n, p)
    BY <1>8 DEF recv_dd
  <2>2. /\ Good(AcceptDD(n, p)) /\ AcceptDD(n, p).me = n.me /\ AcceptDD(n, p).st \in FloodStates
        /\ AcceptDD(n, p).ddseq = IF n.me = 2 THEN n.ddseq + 1 ELSE p.seq
    BY <1>1, <1>3, <1>8, AcceptIsGood
  <2>3. \/ m \in {n, Restart(n), rxmt_dd(n)}
        \/ /\ m = AcceptDD(n, p) /\ ~p.init
           /\ IF n.me = 2 THEN ~p.master /\ p.seq = n.ddseq ELSE p.master /\ p.seq = n.ddseq + 1
    BY <1>2, <2>1 DEF RecvDD_Exchange, InSequence
  <2> HIDE DEF m
  <2>4. CASE m \in {n, Restart(n), rxmt_dd(n)}
    BY <1>4, <1>5, <2>4 DEF Calm, m
  <2>5. CASE /\ m = AcceptDD(n, p) /\ ~p.init
             /\ IF n.me = 2 THEN ~p.master /\ p.seq = n.ddseq
                            ELSE p.master /\ p.seq = n.ddseq + 1
    BY <2>2, <2>5 DEF Accepts, m
  <2> QED
    BY <2>3, <2>4, <2>5
<1>9. CASE n.st \in {"LOAD", "FULL"}
  <2>1. m = RecvDD_Done(n, p)
    BY <1>9 DEF recv_dd
  <2>2. m \in {n, Restart(n), rxmt_dd(n)}
    BY <2>1 DEF RecvDD_Done
  <2> HIDE DEF m
  <2> QED
    BY <1>4, <1>5, <2>2 DEF Calm, m
<1> QED
  BY <1>2, <1>6, <1>7, <1>8, <1>9 DEF State

LEMMA KeepOfNone ==
    ASSUME NEW S
    PROVE  Keep(<<>>, S) = <<>>
<1> DEFINE X == {}
           s == <<>>
<1>1. s \in Seq(X) /\ \A t \in Seq(X \cap S) : t = <<>>
  OBVIOUS
<1> HIDE DEF X, s
<1>2. Keep(s, S) \in Seq(X \cap S)
  BY <1>1, KeepIsSequence
<1> QED
  BY <1>1, <1>2 DEF s

LEMMA InstallIsGood ==
    ASSUME NEW n, Good(n), NEW l \in Lsa, NEW i \in Nat, i > n.db[l]
    PROVE  /\ Good(Install(n, l, i)) /\ Install(n, l, i).me = n.me
           /\ Install(n, l, i).ddseq = n.ddseq /\ Install(n, l, i).st = n.st
           /\ Install(n, l, i).out = n.out /\ Install(n, l, i).db[l] = i
<1> DEFINE d == [n.db EXCEPT ![l] = i]
           x == n.rxmt \ {l}
           m == [n EXCEPT !.db = d, !.rxmt = x]
<1>1. n \in NbrRec /\ n.db \in [Lsa -> Nat] /\ n.rxmt \in SUBSET Lsa
  BY RecordTypes DEF Good
<1>2. Install(n, l, i) = m
  <2>1. m = [n EXCEPT !.db[l] = i, !.rxmt = @ \ {l}]
    BY <1>1 DEF NbrRec
  <2> QED
    BY <2>1 DEF Install
<1>3. d \in [Lsa -> Nat] /\ x \in SUBSET Lsa /\ d[l] = i /\ \A k \in Lsa \ {l} : d[k] = n.db[k]
  BY <1>1
<1>4. x \subseteq n.rxmt \ {l}
  OBVIOUS
<1> HIDE DEF d, x
<1>5. /\ m.me = n.me /\ m.ddseq = n.ddseq /\ m.st = n.st /\ m.out = n.out /\ m.ddpkt = n.ddpkt
      /\ m.ddlst = n.ddlst /\ m.rqlst = n.rqlst /\ m.dbsent = n.dbsent /\ m.db = d /\ m.rxmt = x
      /\ m \in NbrRec
  BY <1>1, <1>3 DEF NbrRec
<1> HIDE DEF m
<1>6. Lists(m)
  <2>1. n.rxmt \subseteq Held(n)
    BY DEF Good, Lists
  <2>2. Held(n) \ {l} \subseteq Held(m)
    BY <1>3, <1>5 DEF Held
  <2> QED
    BY <1>4, <1>5, <2>1, <2>2 DEF Good, Lists
<1>7. Kept(m) /\ SentNow(m)
  BY <1>5 DEF Good, Kept, SentNow
<1> QED
  BY <1>2, <1>3, <1>5, <1>6, <1>7 DEF Good

LEMMA RmreqIsGood ==
    ASSUME NEW n, Good(n), n.out = <<>>, NEW l, NEW i
    PROVE  /\ Good(ospf_rmreq(n, l, i)) /\ Calm(n, ospf_rmreq(n, l, i))
           /\ ospf_rmreq(n, l, i).db = n.db
           /\ n.st \in FloodStates => ospf_rmreq(n, l, i).st \in FloodStates
<1> DEFINE keep == Keep(n.rqlst, {h \in Header : h.lsa # l \/ h.inst > i})
           m == [n EXCEPT !.rqlst = keep]
           e == [m EXCEPT !.st = "FULL"]
           f == ospf_rmreq(n, l, i)
<1>1. n \in NbrRec /\ n.rqlst \in Seq(Header) /\ n.st \in State
  BY RecordTypes DEF Good
<1>2. keep \in Seq(Header) /\ (n.rqlst = <<>> => keep = <<>>)
  BY <1>1, KeepHeaders, KeepOfNone
<1>3. f = IF keep = n.rqlst \/ keep # <<>> THEN m
          ELSE IF n.st = "LOAD" THEN e
          ELSE send_dd(m)
  BY DEF ospf_rmreq
<1> HIDE DEF keep, f
<1>4. /\ m.me = n.me /\ m.ddseq = n.ddseq /\ m.st = n.st /\ m.out = n.out /\ m.ddpkt = n.ddpkt
      /\ m.ddlst = n.ddlst /\ m.rqlst = keep /\ m.dbsent = n.dbsent /\ m.db = n.db
      /\ m.rxmt = n.rxmt /\ m \in NbrRec
  BY <1>1, <1>2 DEF NbrRec
<1> HIDE DEF m
<1>5. Good(m)
  BY <1>2, <1>4 DEF Good, Lists, Held, Kept, SentNow
<1>6. CASE f = m
  BY <1>4, <1>5, <1>6 DEF Calm, f
<1>7. CASE f = e /\ n.st = "LOAD" /\ keep = <<>>
  <2>1. /\ e.me = n.me /\ e.ddseq = n.ddseq /\ e.st = "FULL" /\ e.out = n.out
        /\ e.ddpkt = n.ddpkt /\ e.rqlst = <<>> /\ e.db = n.db /\ e.rxmt = n.rxmt
        /\ e \in NbrRec
    BY <1>4, <1>7 DEF NbrRec, State
  <2> HIDE DEF e
  <2>2. Good(e)
    BY <1>7, <2>1 DEF Good, Lists, Held, Kept, SentNow
  <2> QED
    BY <1>7, <2>1, <2>2 DEF Calm, FloodStates, f
<1>8. CASE f = send_dd(m) /\ n.st # "LOAD" /\ n.rqlst # <<>>
  <2>1. m.st = "EXCH"
    BY <1>1, <1>4, <1>8 DEF Good, Lists, State
  <2>2. m.rxmt \subseteq Held(m) /\ SentNow(m)
    BY <1>5 DEF Good, Lists
  <2> HIDE DEF f
  <2>3. Good(f) /\ f.me = n.me /\ f.ddseq = n.ddseq /\ f.db = n.db /\ f.st \in FloodStates
    BY <1>4, <1>8, <2>1, <2>2, DescribeIsGood
  <2> QED
    BY <1>4, <2>1, <2>3 DEF Calm, FloodStates, f
<1> QED
  BY <1>2, <1>3, <1>6, <1>7, <1>8

\* An acknowledgment, an update or a list of them is no DD packet.
LEMMA OthersKeep ==
    ASSUME NEW n, Good(n), NEW p \in Pkt, p.type # "DD"
    PROVE  Good(Send(n, p)) /\ Calm(n, Send(n, p))
BY SendKeeps DEF Good, Calm, Numbered

LEMMA UpdateTypes ==
    ASSUME NEW n \in NbrRec, NEW l \in Lsa, NEW i \in Nat
    PROVE  /\ Update(n, l) \in Pkt /\ Update(n, l).type # "DD"
           /\ Ack(l, i) \in Pkt /\ Ack(l, i).type # "DD"
<1>1. n.db[l] \in Nat
  BY RecordTypes
<1> QED
  BY <1>1 DEF Update, Ack, UpdPkt, AckPkt, Pkt

\* An acknowledged LSA.
LEMMA StrikeIsGood ==
    ASSUME NEW n, Good(n), NEW l
    PROVE  Good([n EXCEPT !.rxmt = @ \ {l}]) /\ Calm(n, [n EXCEPT !.rxmt = @ \ {l}])
<1> DEFINE x == n.rxmt \ {l}
           m == [n EXCEPT !.rxmt = x]
<1>1. x \subseteq n.rxmt /\ x \in SUBSET Lsa
  BY RecordTypes DEF Good
<1> HIDE DEF x
<1>2. /\ m.me = n.me /\ m.ddseq = n.ddseq /\ m.st = n.st /\ m.out = n.out /\ m.ddpkt = n.ddpkt
      /\ m.ddlst = n.ddlst /\ m.rqlst = n.rqlst /\ m.dbsent = n.dbsent /\ m.db = n.db
      /\ m.rxmt = x /\ m \in NbrRec
  BY <1>1 DEF Good, NbrRec
<1>3. m = [n EXCEPT !.rxmt = @ \ {l}]
  BY DEF x
<1> HIDE DEF m
<1>4. Good(m)
  BY <1>1, <1>2 DEF Good, Lists, Held, Kept, SentNow
<1> QED
  BY <1>2, <1>3, <1>4 DEF Calm

LEMMA RecvLsaIsGood ==
    ASSUME NEW n, Good(n), n.out = <<>>, NEW l \in Lsa, NEW i \in Nat
    PROVE  Good(RecvLsa(n, l, i)) /\ Calm(n, RecvLsa(n, l, i))
<1> DEFINE m == RecvLsa(n, l, i)
           a == Install(n, l, i)
           b == ospf_rmreq(a, l, i)
<1>1. n \in NbrRec
  BY DEF Good
<1>2. CASE i > n.db[l]
  <2>1. m = Send(b, Ack(l, i))
    BY <1>2 DEF RecvLsa
  <2>2. Good(a) /\ a.me = n.me /\ a.ddseq = n.ddseq /\ a.st = n.st /\ a.out = <<>>
    BY <1>2, InstallIsGood
  <2> HIDE DEF a
  <2>3. Good(b) /\ Calm(a, b)
    BY <2>2, RmreqIsGood
  <2> HIDE DEF b, m
  <2>4. Good(m) /\ Calm(b, m)
    BY <1>1, <2>1, <2>3, UpdateTypes, OthersKeep
  <2> QED
    BY <2>2, <2>3, <2>4 DEF Calm, m
<1>3. CASE m = Restart(n)
  BY <1>1, <1>3, RestartIsGood
<1>4. CASE m \in {Send(n, Update(n, l)), Send(n, Ack(l, i))}
  <2> HIDE DEF m
  <2>1. Good(m) /\ Calm(n, m)
    BY <1>1, <1>4, UpdateTypes, OthersKeep
  <2> QED
    BY <2>1 DEF m
<1>5. CASE m = [n EXCEPT !.rxmt = @ \ {l}]
  BY <1>5, StrikeIsGood
<1> QED
  BY <1>2, <1>3, <1>4, <1>5 DEF RecvLsa

LEMMA RecvUpdateIsGood ==
    ASSUME NEW n, Good(n), n.out = <<>>, NEW p \in UpdPkt
    PROVE  Good(recv_update(n, p)) /\ Calm(n, recv_update(n, p))
<1> DEFINE m == RecvLsa(n, p.lsa, p.inst)
<1>1. Good(m) /\ Calm(n, m)
  BY PacketTypes, RecvLsaIsGood
<1>2. recv_update(n, p) \in {n, m, send_req(m)}
  BY DEF recv_update
<1> HIDE DEF m
<1>3. Good(send_req(m)) /\ Calm(m, send_req(m))
  BY <1>1, RequestKeeps DEF Good, Calm
<1> QED
  BY <1>1, <1>2, <1>3 DEF Calm

LEMMA RecvAckIsGood ==
    ASSUME NEW n, Good(n), NEW p
    PROVE  Good(recv_ack(n, p)) /\ Calm(n, recv_ack(n, p))
BY StrikeIsGood DEF recv_ack, Calm

LEMMA RecvReqIsGood ==
    ASSUME NEW n, Good(n), n.out = <<>>, NEW p \in ReqPkt
    PROVE  Good(recv_req(n, p)) /\ Calm(n, recv_req(n, p))
<1> DEFINE o == [j \in DOMAIN p.lsas |-> Update(n, p.lsas[j])]
           x == n.out \o o
           m == [n EXCEPT !.out = x]
<1>1. n \in NbrRec
  BY DEF Good
<1>2. CASE recv_req(n, p) = n
  BY <1>2 DEF Calm
<1>3. CASE recv_req(n, p) = Restart(n)
  BY <1>1, <1>3, RestartIsGood
<1>4. CASE recv_req(n, p) = [n EXCEPT !.out = @ \o [j \in DOMAIN p.lsas |-> Update(n, p.lsas[j])]]
  <2>1. recv_req(n, p) = m
    BY <1>4
  <2>2. o \in Seq(Pkt) /\ \A j \in DOMAIN o : o[j].type # "DD"
    <3> DEFINE k == Len(p.lsas)
    <3>1. k \in Nat /\ DOMAIN p.lsas = 1..k /\ \A j \in 1..k : p.lsas[j] \in Lsa
      BY PacketTypes
    <3>2. \A j \in 1..k : Update(n, p.lsas[j]) \in Pkt /\ Update(n, p.lsas[j]).type # "DD"
      BY <1>1, <3>1, UpdateTypes
    <3> HIDE DEF k
    <3> QED
      BY <3>1, <3>2
  <2> HIDE DEF o
  <2>3. x = o
    BY <2>2
  <2> HIDE DEF x
  <2>4. /\ m.me = n.me /\ m.ddseq = n.ddseq /\ m.st = n.st /\ m.out = o /\ m.ddpkt = n.ddpkt
        /\ m.ddlst = n.ddlst /\ m.rqlst = n.rqlst /\ m.dbsent = n.dbsent /\ m.db = n.db
        /\ m.rxmt = n.rxmt /\ m \in NbrRec
    BY <1>1, <2>2, <2>3 DEF NbrRec
  <2> HIDE DEF m
  <2>5. Good(m)
    BY <2>2, <2>4 DEF Good, Lists, Held, Kept, SentNow
  <2> QED
    BY <2>1, <2>4, <2>5 DEF Calm
<1> QED
  BY <1>2, <1>3, <1>4 DEF recv_req

LEMMA OriginateIsGood ==
    ASSUME NEW n, Good(n), n.out = <<>>, NEW l \in Lsa
    PROVE  Good(Originate(n, l)) /\ Calm(n, Originate(n, l))
<1> DEFINE i == n.db[l] + 1
           m == Install(n, l, i)
           f == ospf_rmreq(m, l, i)
           x == f.rxmt \cup {l}
           g == [f EXCEPT !.rxmt = x]
           h == Send(g, Update(m, l))
<1>1. n.db[l] \in Nat /\ i \in Nat /\ i > n.db[l] /\ i > 0
  BY RecordTypes DEF Good
<1>2. /\ Good(m) /\ m.me = n.me /\ m.ddseq = n.ddseq /\ m.st = n.st /\ m.out = <<>>
      /\ m.db[l] = i
  BY <1>1, InstallIsGood
<1>3. \/ Originate(n, l) \in {m, f}
      \/ Originate(n, l) = h /\ n.st \in FloodStates
  <2>1. g = [f EXCEPT !.rxmt = @ \cup {l}]
    OBVIOUS
  <2> HIDE DEF i, g, f, m
  <2> QED
    BY <2>1 DEF Originate, i, f, m
<1> HIDE DEF i, m
<1>4. /\ Good(f) /\ Calm(m, f) /\ f.db = m.db
      /\ m.st \in FloodStates => f.st \in FloodStates
  BY <1>2, RmreqIsGood
<1> HIDE DEF f
<1>5. CASE Originate(n, l) \in {m, f}
  BY <1>2, <1>4, <1>5 DEF Calm
<1>6. CASE Originate(n, l) = h /\ n.st \in FloodStates
  <2>1. f.rxmt \subseteq Held(f) /\ l \in Held(f) /\ x \in SUBSET Lsa /\ f.st \in FloodStates
    BY <1>1, <1>2, <1>4, <1>6, RecordTypes DEF Good, Lists, Held
  <2>2. x \subseteq Held(f)
    BY <2>1
  <2> HIDE DEF x
  <2>3. /\ g.me = f.me /\ g.ddseq = f.ddseq /\ g.st = f.st /\ g.out = f.out /\ g.ddpkt = f.ddpkt
        /\ g.ddlst = f.ddlst /\ g.rqlst = f.rqlst /\ g.dbsent = f.dbsent /\ g.db = f.db
        /\ g.rxmt = x /\ g \in NbrRec
    BY <1>4, <2>1 DEF Good, NbrRec
  <2> HIDE DEF g
  <2>4. Good(g)
    BY <1>4, <2>1, <2>2, <2>3 DEF Good, Lists, Held, Kept, SentNow, FloodStates
  <2>5. Good(h) /\ Calm(g, h)
    BY <1>1, <1>2, <2>4, UpdateTypes, OthersKeep DEF Good
  <2> HIDE DEF h
  <2> QED
    BY <1>2, <1>4, <1>6, <2>3, <2>5 DEF Calm
<1> QED
  BY <1>3, <1>5, <1>6

-----------------------------------------------------------------------------
(* The packets on the way.                                                 *)

\* d is what is left of c.
LeftOf(d, c) ==
  \E f \in [1..Len(d) -> 1..Len(c)] :
    /\ \A i \in 1..Len(d) : d[i] = c[f[i]]
    /\ \A i, j \in 1..Len(d) : i < j => f[i] < f[j]

LEMMA Concatenation ==
    ASSUME NEW a \in Seq(Pkt), NEW b \in Seq(Pkt)
    PROVE  /\ a \o b \in Seq(Pkt) /\ Len(a \o b) = Len(a) + Len(b)
           /\ \A i \in 1..Len(a) : (a \o b)[i] = a[i]
           /\ \A i \in 1..(Len(a) + Len(b)) : ~(i <= Len(a)) => (a \o b)[i] = b[i - Len(a)]
OBVIOUS

LEMMA LeftOfKinds ==
    ASSUME NEW c \in Seq(Pkt)
    PROVE  /\ LeftOf(c, c)
           /\ c # <<>> => LeftOf(Tail(c), c) /\ Tail(c) \in Seq(Pkt)
           /\ LeftOf(Fit(c), c) /\ Fit(c) \in Seq(Pkt) /\ Len(Fit(c)) <= ChanSize
           /\ \A k \in DOMAIN c : LeftOf(RemoveAt(c, k), c) /\ RemoveAt(c, k) \in Seq(Pkt)
<1>1. LeftOf(c, c)
  <2> DEFINE f == [i \in 1..Len(c) |-> i]
  <2>1. f \in [1..Len(c) -> 1..Len(c)]
    OBVIOUS
  <2> QED
    BY <2>1 DEF LeftOf
<1>2. ASSUME c # <<>>
      PROVE  LeftOf(Tail(c), c) /\ Tail(c) \in Seq(Pkt) /\ Len(Tail(c)) = Len(c) - 1
  <2> DEFINE d == Tail(c)
             f == [i \in 1..Len(d) |-> i + 1]
  <2>1. d \in Seq(Pkt) /\ Len(d) = Len(c) - 1 /\ Len(c) \in Nat
        /\ \A i \in 1..Len(d) : d[i] = c[i + 1]
    BY <1>2
  <2> HIDE DEF d
  <2>2. f \in [1..Len(d) -> 1..Len(c)]
    BY <2>1
  <2>3. \A i \in 1..Len(d) : d[i] = c[f[i]] /\ f[i] = i + 1
    BY <2>1
  <2> HIDE DEF f
  <2>4. LeftOf(d, c)
    BY <2>2, <2>3 DEF LeftOf
  <2> QED
    BY <2>1, <2>4 DEF d
<1>3. LeftOf(Fit(c), c) /\ Fit(c) \in Seq(Pkt) /\ Len(Fit(c)) <= ChanSize
  <2>1. CASE Len(c) <= ChanSize
    BY <1>1, <2>1 DEF Fit
  <2>2. CASE ~(Len(c) <= ChanSize)
    <3> DEFINE d == SubSeq(c, 1, ChanSize)
               f == [i \in 1..Len(d) |-> i]
    <3>1. d \in Seq(Pkt) /\ Len(d) = ChanSize /\ \A i \in 1..Len(d) : d[i] = c[i]
      BY <2>2, DDAssumption
    <3>2. Fit(c) = d
      BY <2>2 DEF Fit
    <3> HIDE DEF d
    <3>3. f \in [1..Len(d) -> 1..Len(c)]
      BY <2>2, <3>1, DDAssumption
    <3>4. LeftOf(d, c)
      BY <3>1, <3>3 DEF LeftOf
    <3> QED
      BY <3>1, <3>2, <3>4, DDAssumption
  <2> QED
    BY <2>1, <2>2
<1>4. ASSUME NEW k \in DOMAIN c
      PROVE  LeftOf(RemoveAt(c, k), c) /\ RemoveAt(c, k) \in Seq(Pkt)
  <2> DEFINE a == SubSeq(c, 1, k - 1)
             b == SubSeq(c, k + 1, Len(c))
             d == a \o b
             f == [i \in 1..Len(d) |-> IF i < k THEN i ELSE i + 1]
  <2>1. k \in 1..Len(c) /\ Len(c) \in Nat
    OBVIOUS
  <2>2. a \in Seq(Pkt) /\ Len(a) = k - 1 /\ \A i \in 1..(k - 1) : a[i] = c[i]
    BY <2>1
  <2>3. b \in Seq(Pkt) /\ Len(b) = Len(c) - k /\ \A i \in 1..(Len(c) - k) : b[i] = c[i + k]
    BY <2>1
  <2>4. RemoveAt(c, k) = d
    BY DEF RemoveAt
  <2> HIDE DEF a, b
  <2>5. d \in Seq(Pkt) /\ Len(d) = Len(c) - 1
    BY <2>1, <2>2, <2>3
  <2>6. \A i \in 1..Len(d) : d[i] = c[IF i < k THEN i ELSE i + 1]
    <3>1. ASSUME NEW i \in 1..Len(d), i < k
          PROVE  d[i] = c[i]
      <4>1. d[i] = a[i]
        BY <2>1, <2>2, <2>3, <3>1
      <4> QED
        BY <2>1, <2>2, <3>1, <4>1
    <3>2. ASSUME NEW i \in 1..Len(d), ~(i < k)
          PROVE  d[i] = c[i + 1]
      <4>1. /\ i \in 1..(Len(c) - 1) /\ i > Len(a) /\ i - (k - 1) \in 1..(Len(c) - k)
            /\ (i - (k - 1)) + k = i + 1
        BY <2>1, <2>2, <2>5, <3>2
      <4>2. /\ i \in 1..(Len(a) + Len(b)) /\ ~(i <= Len(a))
        <5> HIDE DEF d, f
        <5>1. Len(a) + Len(b) = Len(c) - 1 /\ Len(a) \in Nat /\ i \in Nat
          BY <2>1, <2>2, <2>3, <4>1
        <5> QED
          BY <4>1, <5>1
      <4>3. d[i] = b[i - Len(a)]
        BY <2>2, <2>3, <4>2, Concatenation, Zenon
      <4>4. d[i] = b[i - (k - 1)]
        BY <2>2, <4>3
      <4> QED
        BY <2>3, <4>1, <4>4
    <3> QED
      BY <3>1, <3>2
  <2> HIDE DEF d
  <2>7. f \in [1..Len(d) -> 1..Len(c)]
    BY <2>1, <2>5
  <2>8. \A i \in 1..Len(d) : d[i] = c[f[i]]
    BY <2>6
  <2>9. \A i, j \in 1..Len(d) : i < j => f[i] < f[j]
    BY <2>1, <2>5
  <2> HIDE DEF f
  <2>10. LeftOf(d, c)
    BY <2>7, <2>8, <2>9 DEF LeftOf
  <2> QED
    BY <2>4, <2>5, <2>10
<1> QED
  BY <1>1, <1>2, <1>3, <1>4

\* The numbers are as well of what is left.
LEMMA FewerNumbers ==
    ASSUME NEW s, NEW m, NEW cs \in Seq(Pkt), NEW cm \in Seq(Pkt), Numbers(s, m, cs, cm),
           NEW ds \in Seq(Pkt), NEW dm \in Seq(Pkt), LeftOf(ds, cs), LeftOf(dm, cm)
    PROVE  Numbers(s, m, ds, dm)
<1>1. PICK f \in [1..Len(ds) -> 1..Len(cs)] :
        /\ \A i \in 1..Len(ds) : ds[i] = cs[f[i]]
        /\ \A i, j \in 1..Len(ds) : i < j => f[i] < f[j]
  BY DEF LeftOf
<1>2. PICK g \in [1..Len(dm) -> 1..Len(cm)] :
        /\ \A i \in 1..Len(dm) : dm[i] = cm[g[i]]
        /\ \A i, j \in 1..Len(dm) : i < j => g[i] < g[j]
  BY DEF LeftOf
<1>3. \A i \in DDs(ds) : f[i] \in DDs(cs) /\ ds[i] = cs[f[i]]
  BY <1>1 DEF DDs
<1>4. \A i, j \in DDs(ds) : i < j => f[i] < f[j]
  BY <1>1 DEF DDs
<1>5. \A i \in Echoes(dm) : g[i] \in Echoes(cm) /\ dm[i] = cm[g[i]]
  BY <1>2 DEF DDs, Echoes
<1>6. \A i \in DDs(ds) : ds[i].seq <= m.ddseq
  BY <1>3 DEF Numbers
<1>7. \A i, j \in DDs(ds) : i < j => ds[i].seq <= ds[j].seq
  BY <1>3, <1>4 DEF Numbers
<1>8. \A i \in Echoes(dm) : dm[i].seq <= m.ddseq
  BY <1>5 DEF Numbers
<1>9. \A i \in Echoes(dm), j \in DDs(ds) : dm[i].seq <= ds[j].seq
  BY <1>3, <1>5 DEF Numbers
<1>10. s.st \in FloodStates => /\ s.ddseq <= m.ddseq
                               /\ \A j \in DDs(ds) : s.ddseq <= ds[j].seq
                               /\ \A i \in Echoes(dm) : dm[i].seq <= s.ddseq
  BY <1>3, <1>5 DEF Numbers
<1>11. m.st \in FloodStates => \A j \in DDs(ds) : m.ddseq <= ds[j].seq + 1
  BY <1>3 DEF Numbers
<1>12. s.st \in FloodStates /\ m.st \in FloodStates => m.ddseq <= s.ddseq + 1
  BY DEF Numbers
<1> QED
  BY <1>6, <1>7, <1>8, <1>9, <1>10, <1>11, <1>12, Zenon DEF Numbers

\* What is added to a channel: what was on its way, and what has been sent.
LEMMA Added ==
    ASSUME NEW c \in Seq(Pkt), NEW t, Good(t)
    PROVE  /\ c \o t.out \in Seq(Pkt)
           /\ \A i \in DDs(c \o t.out) :
                \/ i \in DDs(c) /\ (c \o t.out)[i] = c[i]
                \/ /\ i \in DOMAIN (c \o t.out) \ DOMAIN c
                   /\ t.me = 2 => (c \o t.out)[i].seq = t.ddseq
                   /\ t.me = 1 /\ ~(c \o t.out)[i].init =>
                        (c \o t.out)[i].seq = t.ddseq /\ t.st \in FloodStates
<1> DEFINE o == t.out
           d == c \o o
<1>1. o \in Seq(Pkt)
  BY RecordTypes DEF Good
<1>2. /\ \A j \in DOMAIN o : o[j].type = "DD" =>
           /\ t.me = 2 => o[j].seq = t.ddseq
           /\ t.me = 1 /\ ~o[j].init => o[j].seq = t.ddseq /\ t.st \in FloodStates
  BY DEF Good, SentNow
<1> HIDE DEF o
<1>3. d \in Seq(Pkt) /\ Len(d) = Len(c) + Len(o) /\ Len(c) \in Nat /\ Len(o) \in Nat
      /\ \A i \in 1..Len(c) : d[i] = c[i]
  BY <1>1
<1>4. \A i \in 1..(Len(c) + Len(o)) : ~(i <= Len(c)) => d[i] = o[i - Len(c)]
  BY <1>1, Concatenation, Zenon
<1> HIDE DEF d
<1>5. ASSUME NEW i \in DDs(d)
      PROVE  \/ i \in DDs(c) /\ d[i] = c[i]
             \/ /\ i \in DOMAIN d \ DOMAIN c
                /\ t.me = 2 => d[i].seq = t.ddseq
                /\ t.me = 1 /\ ~d[i].init => d[i].seq = t.ddseq /\ t.st \in FloodStates
  <2>1. i \in 1..(Len(c) + Len(o)) /\ i \in DOMAIN d /\ d[i].type = "DD"
    BY <1>3 DEF DDs
  <2>2. CASE i <= Len(c)
    <3>1. i \in DOMAIN c /\ d[i] = c[i]
      BY <1>3, <2>1, <2>2
    <3> QED
      BY <2>1, <3>1 DEF DDs
  <2>3. CASE ~(i <= Len(c))
    <3>1. d[i] = o[i - Len(c)]
      BY <1>4, <2>1, <2>3
    <3>2. i - Len(c) \in DOMAIN o /\ i \notin DOMAIN c
      BY <1>1, <1>3, <2>1, <2>3
    <3> QED
      BY <1>2, <2>1, <3>1, <3>2
  <2> QED
    BY <2>2, <2>3
<1> QED
  BY <1>3, <1>5 DEF d, o

LEMMA SeqTypes ==
    ASSUME NEW c \in Seq(Pkt)
    PROVE  /\ \A i \in DDs(c) : c[i] \in DDPkt /\ c[i].seq \in Nat /\ i \in 1..Len(c) /\ i \in Nat
           /\ Echoes(c) \subseteq DDs(c)
<1>1. \A i \in DOMAIN c : c[i] \in Pkt /\ i \in 1..Len(c) /\ i \in Nat
  OBVIOUS
<1> QED
  BY <1>1, PacketTypes DEF DDs, Echoes

LEMMA SlaveMoves ==
    ASSUME NEW s, NEW m, NEW cs \in Seq(Pkt), NEW cm \in Seq(Pkt), Numbers(s, m, cs, cm),
           NEW t, Good(s), Good(m), Good(t), s.me = 1, t.me = 1,
           \/ Calm(s, t)
           \/ Begins(s, t)
           \/ 1 \in DDs(cs) /\ Accepts(s, t, cs[1])
    PROVE  Numbers(t, m, cs, cm \o t.out)
<1> DEFINE d == cm \o t.out
<1>1. /\ s.ddseq \in Nat /\ m.ddseq \in Nat /\ t.ddseq \in Nat
  BY RecordTypes DEF Good
<1>2. /\ \A i \in DDs(cs) : cs[i].seq \in Nat /\ 1 <= i
      /\ \A i \in Echoes(cm) : cm[i].seq \in Nat
  BY SeqTypes
<1>3. t.st \in FloodStates => /\ t.ddseq <= m.ddseq
                              /\ \A j \in DDs(cs) : t.ddseq <= cs[j].seq
                              /\ \A i \in Echoes(cm) : cm[i].seq <= t.ddseq
                              /\ m.st \in FloodStates => m.ddseq <= t.ddseq + 1
  <2>1. CASE Calm(s, t)
    BY <2>1 DEF Calm, Numbers
  <2>2. CASE Begins(s, t)
    BY <2>2 DEF Begins, FloodStates
  <2>3. CASE 1 \in DDs(cs) /\ Accepts(s, t, cs[1])
    <3>1. t.ddseq = cs[1].seq
      BY <2>3 DEF Accepts
    <3>2. \A j \in DDs(cs) : cs[1].seq <= cs[j].seq
      <4>1. \A j \in DDs(cs) : 1 < j \/ j = 1
        BY SeqTypes
      <4> QED
        BY <1>2, <2>3, <4>1 DEF Numbers
    <3> QED
      BY <1>2, <2>3, <3>1, <3>2 DEF Numbers
  <2> QED
    BY <2>1, <2>2, <2>3
<1>4. ASSUME NEW i \in Echoes(d)
      PROVE  \/ i \in Echoes(cm) /\ d[i] = cm[i]
             \/ t.st \in FloodStates /\ d[i].seq = t.ddseq
  BY Added DEF Echoes
<1> HIDE DEF d
<1>5. \A i \in Echoes(d) : d[i].seq <= m.ddseq
  BY <1>1, <1>3, <1>4 DEF Numbers
<1>6. \A i \in Echoes(d), j \in DDs(cs) : d[i].seq <= cs[j].seq
  BY <1>3, <1>4 DEF Numbers
<1>7. t.st \in FloodStates => \A i \in Echoes(d) : d[i].seq <= t.ddseq
  BY <1>1, <1>3, <1>4
<1> QED
  BY <1>3, <1>5, <1>6, <1>7 DEF Numbers, d

LEMMA MasterMoves ==
    ASSUME NEW s, NEW m, NEW cs \in Seq(Pkt), NEW cm \in Seq(Pkt), Numbers(s, m, cs, cm),
           NEW t, Good(s), Good(m), Good(t), m.me = 2, t.me = 2,
           \/ Calm(m, t)
           \/ Begins(m, t)
           \/ 1 \in DDs(cm) /\ Accepts(m, t, cm[1])
    PROVE  Numbers(s, t, cs \o t.out, cm)
<1> DEFINE d == cs \o t.out
<1>1. /\ s.ddseq \in Nat /\ m.ddseq \in Nat /\ t.ddseq \in Nat
  BY RecordTypes DEF Good
<1>2. /\ \A i \in DDs(cs) : cs[i].seq \in Nat
      /\ \A i \in Echoes(cm) : cm[i].seq \in Nat
  BY SeqTypes
<1>3. /\ m.ddseq <= t.ddseq
      /\ t.st \in FloodStates => \A j \in DDs(cs) : t.ddseq <= cs[j].seq + 1
      /\ t.st \in FloodStates /\ s.st \in FloodStates => t.ddseq <= s.ddseq + 1
  <2>1. CASE Calm(m, t)
    BY <1>1, <2>1 DEF Calm, Numbers
  <2>2. CASE Begins(m, t)
    BY <1>1, <2>2 DEF Begins, FloodStates
  <2>3. CASE 1 \in DDs(cm) /\ Accepts(m, t, cm[1])
    <3>1. 1 \in Echoes(cm) /\ cm[1].seq = m.ddseq /\ t.ddseq = m.ddseq + 1
      BY <2>3 DEF Accepts, Echoes
    <3> QED
      BY <1>1, <1>2, <3>1 DEF Numbers
  <2> QED
    BY <2>1, <2>2, <2>3
<1>4. ASSUME NEW i \in DDs(d)
      PROVE  \/ i \in DDs(cs) /\ d[i] = cs[i]
             \/ i \in DOMAIN d \ DOMAIN cs /\ d[i].seq = t.ddseq
  BY Added
<1>5. /\ \A i \in DDs(d) : d[i].seq \in Nat /\ i \in DOMAIN d
      /\ \A i \in DDs(cs), j \in DOMAIN d \ DOMAIN cs : i < j
  <2>1. d \in Seq(Pkt)
    BY Added
  <2> HIDE DEF d
  <2>2. \A i \in DOMAIN cs, j \in DOMAIN d \ DOMAIN cs : i < j
    BY <2>1
  <2> QED
    BY <2>1, <2>2, SeqTypes DEF DDs
<1> HIDE DEF d
<1>6. \A i \in DDs(d) : d[i].seq <= t.ddseq
  BY <1>1, <1>2, <1>3, <1>4 DEF Numbers
<1>7. ASSUME NEW i \in DDs(d), NEW j \in DDs(d), i < j
      PROVE  d[i].seq <= d[j].seq
  <2>1. CASE d[j].seq = t.ddseq
    BY <1>6, <2>1
  <2>2. CASE i \in DDs(cs) /\ d[i] = cs[i] /\ j \in DDs(cs) /\ d[j] = cs[j]
    BY <1>7, <2>2 DEF Numbers
  <2>3. CASE i \in DOMAIN d \ DOMAIN cs /\ j \in DDs(cs)
    <3>1. j < i /\ i \in Nat /\ j \in Nat
      <4>1. cs \o t.out \in Seq(Pkt)
        BY Added
      <4> QED
        BY <1>5, <2>3, <4>1, SeqTypes DEF d
    <3> QED
      BY <1>7, <3>1
  <2> QED
    BY <1>4, <2>1, <2>2, <2>3
<1>8. \A i \in Echoes(cm), j \in DDs(d) : cm[i].seq <= d[j].seq
  BY <1>1, <1>2, <1>3, <1>4 DEF Numbers
<1>9. s.st \in FloodStates => /\ s.ddseq <= t.ddseq
                              /\ \A j \in DDs(d) : s.ddseq <= d[j].seq
  BY <1>1, <1>3, <1>4 DEF Numbers
<1>10. t.st \in FloodStates => \A j \in DDs(d) : t.ddseq <= d[j].seq + 1
  BY <1>1, <1>3, <1>4
<1>11. \A i \in Echoes(cm) : cm[i].seq <= t.ddseq
  BY <1>1, <1>2, <1>3 DEF Numbers
<1> QED
  BY <1>3, <1>6, <1>7, <1>8, <1>9, <1>10, <1>11 DEF Numbers, d

-----------------------------------------------------------------------------
(* The invariant.                                                          *)
LEMMA EmptiedIsGood ==
    ASSUME NEW t, Good(t)
    PROVE  /\ Good([t EXCEPT !.out = <<>>]) /\ [t EXCEPT !.out = <<>>].me = t.me
           /\ [t EXCEPT !.out = <<>>].ddseq = t.ddseq /\ [t EXCEPT !.out = <<>>].st = t.st
           /\ [t EXCEPT !.out = <<>>].out = <<>>
<1> DEFINE m == [t EXCEPT !.out = <<>>]
<1>1. <<>> \in Seq(Pkt)
  OBVIOUS
<1>2. /\ m.me = t.me /\ m.ddseq = t.ddseq /\ m.st = t.st /\ m.out = <<>> /\ m.ddpkt = t.ddpkt
      /\ m.ddlst = t.ddlst /\ m.rqlst = t.rqlst /\ m.dbsent = t.dbsent /\ m.db = t.db
      /\ m.rxmt = t.rxmt /\ m \in NbrRec
  BY <1>1 DEF Good, NbrRec
<1> HIDE DEF m
<1>3. Good(m)
  BY <1>2 DEF Good, Lists, Held, Kept, SentNow
<1> QED
  BY <1>2, <1>3 DEF m

\* Router r's record became t, emptied, and the channels are thinned or added to.
LEMMA MoveKeeps ==
    ASSUME DDInvariant, NEW r \in Router, NEW t, Good(t),
           \/ Calm(nb[r], t)
           \/ Begins(nb[r], t)
           \/ 1 \in DDs(chan[r]) /\ Accepts(nb[r], t, chan[r][1]),
           Becomes(r, t), chan' \in [Router -> Seq(Pkt)],
           LeftOf(chan'[r], chan[r]), LeftOf(chan'[Peer(r)], chan[Peer(r)] \o t.out),
           Len(chan'[r]) <= ChanSize, Len(chan'[Peer(r)]) <= ChanSize
    PROVE  DDInvariant'
<1> DEFINE e == [t EXCEPT !.out = <<>>]
           q == Peer(r)
<1>1. /\ nb \in [Router -> NbrRec] /\ chan \in [Router -> Seq(Pkt)]
      /\ Good(nb[1]) /\ Good(nb[2]) /\ nb[1].me = 1 /\ nb[2].me = 2
      /\ Numbers(nb[1], nb[2], chan[1], chan[2])
  BY DEF DDInvariant, Records, Router
<1>2. Good(e) /\ e.me = t.me /\ e.ddseq = t.ddseq /\ e.st = t.st /\ e.out = <<>> /\ t.me = r
  <2>1. t.me = r
    BY <1>1 DEF Calm, Begins, Accepts, Router
  <2> QED
    BY <2>1, EmptiedIsGood
<1>3. nb' = [nb EXCEPT ![r] = e]
  BY DEF Becomes
<1> HIDE DEF e
<1>4. /\ nb' \in [Router -> NbrRec] /\ nb'[r] = e
      /\ q \in Router \ {r} /\ nb'[q] = nb[q] /\ Router = {r, q}
  BY <1>1, <1>2, <1>3 DEF Good, Peer, Router
<1>5. Records'
  BY <1>2, <1>4 DEF DDInvariant, Records
<1>6. Channels'
  BY <1>4 DEF Channels
<1>7. Numbers(nb'[1], nb'[2], chan'[1], chan'[2])
  <2>1. /\ chan[1] \in Seq(Pkt) /\ chan[2] \in Seq(Pkt)
        /\ chan'[1] \in Seq(Pkt) /\ chan'[2] \in Seq(Pkt)
        /\ chan[1] \o t.out \in Seq(Pkt) /\ chan[2] \o t.out \in Seq(Pkt)
    BY <1>1, Added DEF Router
  <2>2. CASE r = 1
    <3>1. /\ q = 2 /\ t.me = 1
          /\ \/ Calm(nb[1], t)
             \/ Begins(nb[1], t)
             \/ 1 \in DDs(chan[1]) /\ Accepts(nb[1], t, chan[1][1])
          /\ LeftOf(chan'[1], chan[1]) /\ LeftOf(chan'[2], chan[2] \o t.out)
      BY <1>2, <2>2 DEF Peer
    <3>2. Numbers(t, nb[2], chan[1], chan[2] \o t.out)
      BY <1>1, <2>1, <3>1, SlaveMoves
    <3>3. Numbers(t, nb[2], chan'[1], chan'[2])
      BY <2>1, <3>1, <3>2, FewerNumbers
    <3> QED
      BY <1>2, <1>4, <2>2, <3>1, <3>3 DEF Numbers
  <2>3. CASE r = 2
    <3>1. /\ q = 1 /\ t.me = 2
          /\ \/ Calm(nb[2], t)
             \/ Begins(nb[2], t)
             \/ 1 \in DDs(chan[2]) /\ Accepts(nb[2], t, chan[2][1])
          /\ LeftOf(chan'[2], chan[2]) /\ LeftOf(chan'[1], chan[1] \o t.out)
      BY <1>2, <2>3 DEF Peer
    <3>2. Numbers(nb[1], t, chan[1] \o t.out, chan[2])
      BY <1>1, <2>1, <3>1, MasterMoves
    <3>3. Numbers(nb[1], t, chan'[1], chan'[2])
      BY <2>1, <3>1, <3>2, FewerNumbers
    <3> QED
      BY <1>2, <1>4, <2>3, <3>1, <3>3 DEF Numbers
  <2> QED
    BY <2>2, <2>3 DEF Router
<1> QED
  BY <1>4, <1>5, <1>6, <1>7 DEF DDInvariant

LEMMA RunsKeeps ==
    ASSUME DDInvariant, NEW r \in Router, NEW t, Good(t),
           Calm(nb[r], t) \/ Begins(nb[r], t), Runs(r, t)
    PROVE  DDInvariant'
<1> DEFINE q == Peer(r)
           c == chan[q] \o t.out
<1>1. /\ chan \in [Router -> Seq(Pkt)] /\ q \in Router \ {r} /\ Router = {r, q}
      /\ Len(chan[r]) <= ChanSize
  BY DEF DDInvariant, Channels, Peer, Router
<1>2. c \in Seq(Pkt)
  BY <1>1, Added
<1>3. chan' = [chan EXCEPT ![q] = Fit(c)]
  BY DEF Runs
<1> HIDE DEF c
<1>4. LeftOf(Fit(c), c) /\ Fit(c) \in Seq(Pkt) /\ Len(Fit(c)) <= ChanSize
      /\ LeftOf(chan[r], chan[r])
  BY <1>1, <1>2, LeftOfKinds
<1>5. chan' \in [Router -> Seq(Pkt)] /\ chan'[q] = Fit(c) /\ chan'[r] = chan[r]
  BY <1>1, <1>3, <1>4
<1> QED
  BY <1>1, <1>4, <1>5, MoveKeeps DEF Runs, c

LEMMA ReceiveKeeps ==
    ASSUME DDInvariant, NEW r \in Router, Receive(r)
    PROVE  DDInvariant'
<1> DEFINE p == Head(chan[r])
           n == nb[r]
           t == CASE p.type = "DD" -> recv_dd(n, p)
                  [] p.type = "Req" -> recv_req(n, p)
                  [] p.type = "Upd" -> recv_update(n, p)
                  [] p.type = "Ack" -> recv_ack(n, p)
           q == Peer(r)
           c == chan[q] \o t.out
<1>1. /\ chan \in [Router -> Seq(Pkt)] /\ q \in Router \ {r} /\ Router = {r, q}
      /\ Len(chan[r]) <= ChanSize /\ Good(n) /\ n.out = <<>> /\ n.me = r
      /\ Numbers(nb[1], nb[2], chan[1], chan[2])
  BY DEF DDInvariant, Records, Channels, Peer, Router
<1>2. chan[r] # <<>> /\ Becomes(r, t) /\ chan' = [chan EXCEPT ![r] = Tail(@), ![q] = Fit(@ \o t.out)]
  BY DEF Receive
<1>3. p \in Pkt /\ p = chan[r][1] /\ 1 \in DOMAIN chan[r]
  BY <1>1, <1>2
<1>4. p.type = "DD" => 1 \in DDs(chan[r])
  BY <1>3 DEF DDs
<1>5. n.me = 2 /\ p.type = "DD" /\ ~p.init => p.seq <= n.ddseq
  <2> SUFFICES ASSUME n.me = 2, p.type = "DD", ~p.init
               PROVE  p.seq <= n.ddseq
    OBVIOUS
  <2>1. 1 \in Echoes(chan[2]) /\ p = chan[2][1] /\ n = nb[2]
    BY <1>1, <1>3, <1>4 DEF Echoes
  <2> QED
    BY <1>1, <2>1 DEF Numbers
<1>6. /\ Good(t)
      /\ \/ Calm(n, t) \/ Begins(n, t)
         \/ 1 \in DDs(chan[r]) /\ Accepts(n, t, chan[r][1])
  <2> HIDE DEF n, p
  <2>1. CASE p.type = "DD"
    <3>1. t = recv_dd(n, p)
      BY <2>1
    <3>2. p \in DDPkt
      BY <1>3, <2>1, PacketTypes
    <3>3. Good(t) /\ (Calm(n, t) \/ Begins(n, t) \/ Accepts(n, t, p))
      BY <1>1, <1>5, <2>1, <3>1, <3>2, RecvDDIsGood
    <3> QED
      BY <1>3, <1>4, <2>1, <3>3
  <2>2. CASE p.type = "Req"
    <3>1. t = recv_req(n, p)
      BY <2>2
    <3> QED
      BY <1>1, <1>3, <2>2, <3>1, PacketTypes, RecvReqIsGood
  <2>3. CASE p.type = "Upd"
    <3>1. t = recv_update(n, p)
      BY <2>3
    <3> QED
      BY <1>1, <1>3, <2>3, <3>1, PacketTypes, RecvUpdateIsGood
  <2>4. CASE p.type = "Ack"
    <3>1. t = recv_ack(n, p)
      BY <2>4
    <3>2. Good(recv_ack(n, p)) /\ Calm(n, recv_ack(n, p))
      BY <1>1, RecvAckIsGood
    <3> HIDE DEF t
    <3> QED
      BY <3>1, <3>2
  <2> QED
    BY <1>3, <2>1, <2>2, <2>3, <2>4, PacketTypes
<1> HIDE DEF t
<1>7. c \in Seq(Pkt)
  BY <1>1, <1>6, Added
<1>8. chan' = [chan EXCEPT ![r] = Tail(chan[r]), ![q] = Fit(c)]
  BY <1>1, <1>2
<1> HIDE DEF c
<1>9. /\ LeftOf(Fit(c), c) /\ Fit(c) \in Seq(Pkt) /\ Len(Fit(c)) <= ChanSize
      /\ LeftOf(Tail(chan[r]), chan[r]) /\ Tail(chan[r]) \in Seq(Pkt)
      /\ Len(Tail(chan[r])) <= ChanSize
  <2>1. Len(Tail(chan[r])) = Len(chan[r]) - 1
    BY <1>1, <1>2
  <2> QED
    BY <1>1, <1>2, <1>7, <2>1, LeftOfKinds, DDAssumption
<1>10. chan' \in [Router -> Seq(Pkt)] /\ chan'[q] = Fit(c) /\ chan'[r] = Tail(chan[r])
  BY <1>1, <1>8, <1>9
<1> QED
  BY <1>1, <1>2, <1>6, <1>9, <1>10, MoveKeeps DEF c

LEMMA LoseKeeps ==
    ASSUME DDInvariant, NEW r \in Router, Lose(r)
    PROVE  DDInvariant'
<1>1. PICK k \in DOMAIN chan[r] : chan' = [chan EXCEPT ![r] = RemoveAt(@, k)]
  BY DEF Lose
<1>2. nb' = nb /\ chan \in [Router -> Seq(Pkt)] /\ \A q \in Router : chan[q] \in Seq(Pkt)
  BY DEF Lose, DDInvariant
<1>3. LeftOf(RemoveAt(chan[r], k), chan[r]) /\ RemoveAt(chan[r], k) \in Seq(Pkt)
  BY <1>2, LeftOfKinds
<1>4. chan' \in [Router -> Seq(Pkt)] /\ \A q \in Router : LeftOf(chan'[q], chan[q])
  BY <1>1, <1>2, <1>3, LeftOfKinds
<1>5. \A q \in Router : Len(chan'[q]) <= Len(chan[q])
  <2>1. Len(RemoveAt(chan[r], k)) <= Len(chan[r])
    <3>1. Len(chan[r]) \in Nat /\ k \in 1..Len(chan[r])
      BY <1>2
    <3> QED
      BY <1>2, <3>1 DEF RemoveAt
  <2> QED
    BY <1>1, <1>2, <2>1
<1>6. Channels'
  BY <1>2, <1>4, <1>5, DDAssumption DEF DDInvariant, Channels
<1>7. Numbers(nb[1], nb[2], chan'[1], chan'[2])
  <2>1. 1 \in Router /\ 2 \in Router
    BY DEF Router
  <2> QED
    BY <1>2, <1>4, <2>1, FewerNumbers DEF DDInvariant
<1> QED
  BY <1>2, <1>4, <1>6, <1>7 DEF DDInvariant, Records

LEMMA HoldKeeps ==
    ASSUME DDInvariant, NEW r \in Router, HoldTimer(r)
    PROVE  DDInvariant'
<1> DEFINE n == nb[r]
           t == [n EXCEPT !.ddpkt = NoPkt]
<1>1. /\ nb \in [Router -> NbrRec] /\ chan \in [Router -> Seq(Pkt)] /\ n \in NbrRec
      /\ Good(n) /\ n.out = <<>> /\ n.me = r /\ chan' = chan /\ n.st = "FULL"
      /\ nb' = [nb EXCEPT ![r] = t]
  BY DEF DDInvariant, Records, HoldTimer
<1>2. /\ t.me = n.me /\ t.ddseq = n.ddseq /\ t.st = n.st /\ t.out = n.out /\ t.ddpkt = NoPkt
      /\ t.rqlst = n.rqlst /\ t.ddlst = n.ddlst /\ t.dbsent = n.dbsent
      /\ t.db = n.db /\ t.rxmt = n.rxmt /\ t \in NbrRec
  BY <1>1 DEF NbrRec
<1> HIDE DEF t
<1>3. Good(t)
  BY <1>1, <1>2 DEF Good, Lists, Held, Kept, SentNow
<1>4. nb' \in [Router -> NbrRec] /\ nb'[r] = t /\ \A q \in Router \ {r} : nb'[q] = nb[q]
  BY <1>1, <1>2
<1>5. Records'
  BY <1>1, <1>2, <1>3, <1>4 DEF DDInvariant, Records
<1>6. \A q \in Router : nb'[q].st = nb[q].st /\ nb'[q].ddseq = nb[q].ddseq
  BY <1>2, <1>4
<1>7. Numbers(nb'[1], nb'[2], chan[1], chan[2])
  BY <1>6 DEF DDInvariant, Numbers, Router
<1> QED
  BY <1>1, <1>4, <1>5, <1>7 DEF DDInvariant, Channels

LEMMA AbortKeeps ==
    ASSUME DDInvariant, NEW r \in Router, Abort(r)
    PROVE  DDInvariant'
<1> DEFINE t == Restart(nb[r])
           q == Peer(r)
<1>1. /\ chan \in [Router -> Seq(Pkt)] /\ nb[r] \in NbrRec /\ nb[r].out = <<>>
      /\ chan' = chan /\ q \in Router /\ Becomes(r, t) /\ Len(chan[r]) <= ChanSize
      /\ Len(chan[q]) <= ChanSize
  BY DEF DDInvariant, Records, Channels, Abort, Peer, Router
<1>2. Good(t) /\ Calm(nb[r], t) /\ t.out = <<>>
  BY <1>1, RestartIsGood
<1> HIDE DEF t
<1>3. LeftOf(chan[r], chan[r]) /\ LeftOf(chan[q], chan[q] \o t.out)
  <2>1. chan[q] \o <<>> = chan[q]
    BY <1>1
  <2> QED
    BY <1>1, <1>2, <2>1, LeftOfKinds
<1> QED
  BY <1>1, <1>2, <1>3, MoveKeeps

LEMMA InitHolds ==
    ASSUME Init
    PROVE  DDInvariant
<1>1. <<>> \in Seq(Header) /\ <<>> \in Seq(Pkt) /\ Len(<<>>) <= ChanSize
  BY DDAssumption
<1>2. nb \in [Router -> NbrRec] /\ chan \in [Router -> Seq(Pkt)]
  <2>1. \A r \in Router : InitDb[r] \in [Lsa -> Nat]
    BY DDAssumption DEF Router
  <2> QED
    BY <1>1, <2>1 DEF Init, NbrRec, State
<1>3. \A r \in Router : nb[r].me = r /\ nb[r].st = "2WAY" /\ nb[r].out = <<>> /\ nb[r].ddpkt = NoPkt
                        /\ nb[r].ddlst = <<>> /\ nb[r].rqlst = <<>> /\ nb[r].rxmt = {}
                        /\ ~nb[r].dbsent /\ chan[r] = <<>>
  BY DEF Init
<1>4. Records
  BY <1>2, <1>3 DEF Records, Good, Lists, Held, Kept, SentNow
<1>5. Channels
  BY <1>1, <1>3 DEF Channels
<1>6. Numbers(nb[1], nb[2], chan[1], chan[2])
  <2>1. /\ nb[1].st = "2WAY" /\ nb[2].st = "2WAY" /\ chan[1] = <<>> /\ chan[2] = <<>>
    BY <1>3 DEF Router
  <2>2. DDs(chan[1]) = {} /\ Echoes(chan[2]) = {}
    BY <2>1 DEF DDs, Echoes
  <2> QED
    BY <2>1, <2>2 DEF Numbers, FloodStates
<1> QED
  BY <1>2, <1>4, <1>5, <1>6 DEF DDInvariant

LEMMA StepKeeps ==
    ASSUME DDInvariant, [Next]_vars
    PROVE  DDInvariant'
<1>1. ASSUME UNCHANGED vars
      PROVE  DDInvariant'
  BY <1>1 DEF vars, DDInvariant, Records, Channels
<1>2. ASSUME NEW r \in Router,
             \/ StartAdjacency(r) \/ Receive(r) \/ Lose(r) \/ DDRxmtTimer(r) \/ RqRxmtTimer(r)
             \/ LsaRxmtTimer(r) \/ HoldTimer(r) \/ NewInstance(r) \/ Abort(r)
      PROVE  DDInvariant'
  <2>1. /\ nb[r] \in NbrRec /\ Good(nb[r]) /\ nb[r].out = <<>> /\ Lists(nb[r])
    BY DEF DDInvariant, Records, Good
  <2>2. CASE StartAdjacency(r)
    BY <2>1, <2>2, StartIsGood, RunsKeeps DEF StartAdjacency
  <2>3. CASE Receive(r)
    BY <2>3, ReceiveKeeps
  <2>4. CASE Lose(r)
    BY <2>4, LoseKeeps
  <2>5. CASE DDRxmtTimer(r)
    BY <2>1, <2>5, ResendIsGood, RunsKeeps DEF DDRxmtTimer
  <2>6. CASE RqRxmtTimer(r)
    <3>1. Good(send_req(nb[r])) /\ Calm(nb[r], send_req(nb[r]))
      BY <2>1, RequestKeeps DEF Good, Calm
    <3> QED
      BY <2>6, <3>1, RunsKeeps DEF RqRxmtTimer
  <2>7. CASE LsaRxmtTimer(r)
    <3>1. PICK l \in nb[r].rxmt : Runs(r, Send(nb[r], Update(nb[r], l)))
      BY <2>7 DEF LsaRxmtTimer
    <3>2. Good(Send(nb[r], Update(nb[r], l))) /\ Calm(nb[r], Send(nb[r], Update(nb[r], l)))
      <4>1. l \in Lsa
        BY <2>1, RecordTypes
      <4> QED
        BY <2>1, <4>1, UpdateTypes, OthersKeep
    <3> QED
      BY <3>1, <3>2, RunsKeeps
  <2>8. CASE HoldTimer(r)
    BY <2>8, HoldKeeps
  <2>9. CASE NewInstance(r)
    BY <2>1, <2>9, OriginateIsGood, RunsKeeps DEF NewInstance
  <2>10. CASE Abort(r)
    BY <2>10, AbortKeeps
  <2> QED
    BY <1>2, <2>2, <2>3, <2>4, <2>5, <2>6, <2>7, <2>8, <2>9, <2>10
<1> QED
  BY <1>1, <1>2 DEF Next

LEMMA InvariantGivesStep ==
    ASSUME DDInvariant
    PROVE  SequenceInStep
<1>1. TypeOK
  <2> SUFFICES ASSUME NEW r \in Router
               PROVE  /\ nb[r].me = r
                      /\ nb[r].st \in {"2WAY", "EXST", "EXCH", "LOAD", "FULL"}
                      /\ nb[r].ddseq \in Nat /\ nb[r].rq_goal \in Nat
                      /\ nb[r].more \in BOOLEAN /\ nb[r].dbsent \in BOOLEAN
                      /\ nb[r].rxmt \subseteq {l \in Lsa : nb[r].db[l] > 0}
                      /\ nb[r].db \in [Lsa -> Nat]
                      /\ nb[r].st \in {"2WAY", "EXST"} =>
                           nb[r].ddlst = <<>> /\ nb[r].rqlst = <<>> /\ nb[r].rxmt = {}
                           /\ ~nb[r].dbsent
                      /\ nb[r].st = "2WAY" => nb[r].ddpkt = NoPkt
                      /\ nb[r].st = "FULL" => nb[r].rqlst = <<>>
                      /\ nb[r].out = <<>>
                      /\ Len(chan[r]) <= ChanSize
    BY DEF TypeOK
  <2>1. /\ nb[r] \in NbrRec /\ nb[r].me = r /\ nb[r].out = <<>> /\ Good(nb[r])
        /\ Len(chan[r]) <= ChanSize
    BY DEF DDInvariant, Records, Channels
  <2> QED
    BY <2>1, RecordTypes DEF Good, Lists, Held, Kept, State
<1>2. ASSUME nb[1].st \in FloodStates, nb[2].st \in FloodStates
      PROVE  nb[2].ddseq \in {nb[1].ddseq, nb[1].ddseq + 1}
  <2>1. nb[1].ddseq \in Nat /\ nb[2].ddseq \in Nat
    BY <1>1 DEF TypeOK, Router
  <2>2. nb[1].ddseq <= nb[2].ddseq /\ nb[2].ddseq <= nb[1].ddseq + 1
    BY <1>2 DEF DDInvariant, Numbers
  <2> QED
    BY <2>1, <2>2
<1> QED
  BY <1>1, <1>2 DEF SequenceInStep

(* The numbers of spfdd.C: while both routers describe their databases or  *)
(* flood, the master's n_ddseq is the slave's or the next one, whatever is *)
(* lost, late, changed or abandoned.                                       *)
THEOREM NumbersStayInStep == Spec => []SequenceInStep
BY InitHolds, StepKeeps, InvariantGivesStep, PTL DEF Spec
=============================================================================
