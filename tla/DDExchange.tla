----------------------------- MODULE DDExchange -----------------------------
(***************************************************************************)
(* Two routers bring up an adjacency: Database Description packets         *)
(* (spfdd.C), link state requests, and the part of flooding that keeps the *)
(* two databases together meanwhile (spflood.C, spfack.C).                 *)
(*                                                                         *)
(* The router with the higher ID is master: it numbers the DD packets and  *)
(* retransmits them, the slave echoes them.  Each describes a snapshot of  *)
(* its database, and holds its next DD back until what it asked for has    *)
(* come.  An LSA that changes after the snapshot is flooded.               *)
(*                                                                         *)
(* "nb[r]" is what router r keeps for the other router (its SpfNbr) and    *)
(* its database.  A handler is one action, written with operators from the *)
(* record before to the record after; "out" collects the packets it sends. *)
(* "chan[r]" holds the packets on their way to r: they can be lost, one by *)
(* one or because the channel is full, but not reordered.                  *)
(*                                                                         *)
(* Abstracted: an LSA is its name and an instance number, 0 when it is not *)
(* in the database (MaxAge and flushing are in module LsaLife); an Update  *)
(* or an Ack carries one LSA; the delayed ack is sent at once; the states  *)
(* below ExStart are "2WAY", and the throttle of module NbrFsm may keep a  *)
(* neighbour there; the reply limit sent_reply is a lost packet.  The      *)
(* options in a DD packet do not change, as no code negotiates them.       *)
(***************************************************************************)
EXTENDS Integers, Sequences, FiniteSets, SequencesExt, Selection

CONSTANTS
    Lsa,        \* names of LSAs
    Origin,     \* the router that originates each LSA, 1 or 2
    InitDb,     \* InitDb[r][l]: instance of l in r's database at first
    DDSize,     \* LSA headers that fit in a DD packet
    ReqSize,    \* LSA names that fit in a Request
    ChanSize,   \* packets in flight to a router
    MaxLosses,  \* packets lost, other than to a full channel
    MaxOrigs,   \* new instances originated
    MaxAborts,  \* exchanges abandoned, by a timeout or a 1-Way neighbour
    MaxEarly    \* timers that fire although packets are still in flight

ASSUME DDAssumption ==
    /\ IsFiniteSet(Lsa)
    /\ Origin \in [Lsa -> 1..2]
    /\ InitDb \in [1..2 -> [Lsa -> Nat]]
    /\ DDSize \in Nat \ {0} /\ ReqSize \in Nat \ {0} /\ ChanSize \in Nat \ {0}
    /\ MaxLosses \in Nat /\ MaxOrigs \in Nat /\ MaxAborts \in Nat
    /\ MaxEarly \in Nat

VARIABLES nb, chan, losses, origs, aborts, early
vars == <<nb, chan, losses, origs, aborts, early>>

Router == 1..2
Peer(r) == 3 - r

NoPkt == [type |-> "none"]
FloodStates == {"EXCH", "LOAD", "FULL"}

Init ==
    /\ nb = [r \in Router |->
                [me |-> r, st |-> "2WAY",
                 ddseq |-> 0,        \* n_ddseq
                 ddlst |-> <<>>,     \* n_ddlst: headers still to be described
                 rqlst |-> <<>>,     \* n_rqlst: headers to be requested
                 rq_goal |-> 0,
                 ddpkt |-> NoPkt,    \* n_ddpkt: the DD packet kept for retransmission
                 dbsent |-> FALSE,   \* database_sent
                 more |-> FALSE,     \* the More bit of n_imms
                 rxmt |-> {},        \* LSAs on the retransmission lists
                 db |-> InitDb[r],
                 out |-> <<>>]]      \* packets the running handler has sent
    /\ chan = [r \in Router |-> <<>>]
    /\ losses = 0 /\ origs = 0 /\ aborts = 0 /\ early = 0

Header == [lsa : Lsa, inst : Nat]

-----------------------------------------------------------------------------
(* The functions handlers call.                                            *)

Master(n) == n.me > Peer(n.me)
Send(n, p) == [n EXCEPT !.out = Append(@, p)]
Update(n, l) == [type |-> "Upd", lsa |-> l, inst |-> n.db[l]]
Ack(l, i) == [type |-> "Ack", lsa |-> l, inst |-> i]

nba_clr_lists(n) ==
    [n EXCEPT !.ddpkt = NoPkt, !.rxmt = {}, !.ddlst = <<>>, !.rqlst = <<>>,
              !.dbsent = FALSE]

\* NBE_DDSEQNO, NBE_BADLSREQ: back to 2-Way, to try again.
Restart(n) == [nba_clr_lists(n) EXCEPT !.st = "2WAY"]

\* NBE_EXCHDONE
nba_exchdone(n) == [n EXCEPT !.st = IF n.rqlst = <<>> THEN "FULL" ELSE "LOAD"]

\* The headers of the snapshot that still are the database's LSAs.
StillValid(n) == Keep(n.ddlst, {h \in Header : n.db[h.lsa] = h.inst})

send_dd(n) ==
    IF n.st = "EXST"
    THEN LET p == [type |-> "DD", init |-> TRUE, more |-> TRUE, master |-> TRUE,
                   seq |-> n.ddseq, hdrs |-> <<>>]
         IN  Send([n EXCEPT !.ddpkt = p, !.dbsent = FALSE], p)
    ELSE LET valid == StillValid(n)
             k == IF Len(valid) < DDSize THEN Len(valid) ELSE DDSize
             rest == SubSeq(valid, k + 1, Len(valid))
             p == [type |-> "DD", init |-> FALSE, more |-> rest # <<>>,
                   master |-> Master(n), seq |-> n.ddseq, hdrs |-> SubSeq(valid, 1, k)]
             m == Send([n EXCEPT !.ddpkt = p, !.ddlst = rest,
                                 !.dbsent = @ \/ rest = <<>>], p)
         IN  IF ~Master(n) /\ m.dbsent /\ ~n.more THEN nba_exchdone(m) ELSE m

rxmt_dd(n) ==
    IF n.ddpkt # NoPkt THEN Send(n, n.ddpkt)
    ELSE IF n.st = "FULL" THEN Restart(n)
    ELSE n

start_adjacency(n) == send_dd([n EXCEPT !.st = "EXST", !.ddseq = @ + 1])

\* NBE_NEGDONE
nba_snapshot(n) ==
    LET held == {l \in Lsa : n.db[l] > 0}
    IN  [n EXCEPT !.st = "EXCH",
                  !.ddlst = SetToSeq({[lsa |-> l, inst |-> n.db[l]] : l \in held})]

\* Only what fits is asked for now; rq_goal says when to ask for more.
send_req(n) ==
    LET k == IF Len(n.rqlst) < ReqSize THEN Len(n.rqlst) ELSE ReqSize
    IN  IF n.rqlst = <<>> THEN n
        ELSE Send([n EXCEPT !.rq_goal = Len(n.rqlst) - k],
                  [type |-> "Req", lsas |-> [j \in 1..k |-> n.rqlst[j].lsa]])

process_dd_contents(n, hdrs) ==
    [n EXCEPT !.rqlst = @ \o Keep(hdrs, {h \in Header : h.inst > n.db[h.lsa]})]

Requested(n, l) == {j \in DOMAIN n.rqlst : n.rqlst[j].lsa = l}

\* ospf_rmreq(): instance i of l makes a request for it, or for an older
\* one, superfluous.
ospf_rmreq(n, l, i) ==
    LET keep == Keep(n.rqlst, {h \in Header : h.lsa # l \/ h.inst > i})
        m == [n EXCEPT !.rqlst = keep]
    IN  IF keep = n.rqlst \/ keep # <<>> THEN m
        ELSE IF n.st = "LOAD" THEN [m EXCEPT !.st = "FULL"]
        ELSE send_dd(m)

-----------------------------------------------------------------------------
(* Receiving a packet.                                                     *)

InSequence_DuplicateToo(n, p) ==
    IF Master(n) THEN p.seq \in {n.ddseq - 1, n.ddseq} ELSE p.seq = n.ddseq + 1

\* Is p the DD packet that the exchange's sequence expects next?
InSequence(n, p) == p.seq = IF Master(n) THEN n.ddseq ELSE n.ddseq + 1

\* The master knows that both databases have been described.
Finished(n, p) == Master(n) /\ n.dbsent /\ ~p.more

\* The end of recv_dd(), reached by the next packet in sequence.
AcceptDD(n, p) ==
    LET m == send_req(process_dd_contents([n EXCEPT !.more = p.more, !.ddpkt = NoPkt], p.hdrs))
        s == [m EXCEPT !.ddseq = IF Master(n) THEN @ + 1 ELSE p.seq]
    IN  IF Finished(s, p) THEN nba_exchdone(s)
        ELSE IF s.rqlst = <<>> THEN send_dd(s)
        ELSE s

RecvDD_ExStart(n, p) ==
    LET claim == ~p.master
    IN  IF claim # Master(n) THEN n
        ELSE IF Master(n) /\ ~p.init /\ p.seq = n.ddseq
             THEN AcceptDD(nba_snapshot(n), p)
        ELSE IF ~Master(n) /\ p.init /\ p.more /\ p.hdrs = <<>>
             THEN AcceptDD(nba_snapshot(n), p)
        ELSE n

RecvDD_Exchange(n, p) ==
    LET claim == ~p.master
    IN  IF claim # Master(n) \/ p.init THEN Restart(n)
        ELSE IF InSequence(n, p) THEN AcceptDD(n, p)
        ELSE IF Master(n) /\ p.seq + 1 = n.ddseq THEN n
        ELSE IF ~Master(n) /\ p.seq = n.ddseq THEN rxmt_dd(n)
        ELSE Restart(n)

\* Loading or Full: only duplicates are legal.
RecvDD_Done(n, p) ==
    LET claim == ~p.master
    IN  IF claim # Master(n) \/ p.init THEN Restart(n)
        ELSE IF Master(n) /\ p.seq + 1 = n.ddseq THEN n
        ELSE IF ~Master(n) /\ p.seq = n.ddseq THEN rxmt_dd(n)
        ELSE Restart(n)

recv_dd(n, p) ==
    CASE n.st = "2WAY" -> RecvDD_ExStart(start_adjacency(n), p)
      [] n.st = "EXST" -> RecvDD_ExStart(n, p)
      [] n.st = "EXCH" -> RecvDD_Exchange(n, p)
      [] n.st \in {"LOAD", "FULL"} -> RecvDD_Done(n, p)

recv_req(n, p) ==
    IF n.st \notin FloodStates THEN n
    ELSE IF \E j \in DOMAIN p.lsas : n.db[p.lsas[j]] = 0 THEN Restart(n)
    ELSE [n EXCEPT !.out = @ \o [j \in DOMAIN p.lsas |-> Update(n, p.lsas[j])]]

\* AddLSA(): the old instance leaves the retransmission list with its LSA.
Install(n, l, i) == [n EXCEPT !.db[l] = i, !.rxmt = @ \ {l}]

RecvLsa(n, l, i) ==
    IF i > n.db[l] THEN Send(ospf_rmreq(Install(n, l, i), l, i), Ack(l, i))
    ELSE IF Requested(n, l) # {} THEN Restart(n)
    ELSE IF i < n.db[l] THEN Send(n, Update(n, l))
    ELSE IF l \in n.rxmt THEN [n EXCEPT !.rxmt = @ \ {l}]
    ELSE Send(n, Ack(l, i))

recv_update(n, p) ==
    IF n.st \notin FloodStates THEN n
    ELSE LET m == RecvLsa(n, p.lsa, p.inst)
         IN  IF m.rqlst # <<>> /\ Len(m.rqlst) <= m.rq_goal THEN send_req(m) ELSE m

recv_ack_AnyInstance(n, p) ==
    IF n.st \in FloodStates THEN [n EXCEPT !.rxmt = @ \ {p.lsa}] ELSE n

recv_ack(n, p) ==
    IF n.st \in FloodStates /\ n.db[p.lsa] = p.inst
    THEN [n EXCEPT !.rxmt = @ \ {p.lsa}]
    ELSE n

Originate_FullOnly(n, l) ==
    LET i == n.db[l] + 1
        m == Install(n, l, i)
    IN  IF n.st # "FULL" THEN m
        ELSE Send([m EXCEPT !.rxmt = @ \cup {l}], Update(m, l))

\* A new instance of an LSA of this router's, flooded to the neighbour.
Originate(n, l) ==
    LET i == n.db[l] + 1
        m == Install(n, l, i)
        wanted == \E j \in Requested(n, l) : n.rqlst[j].inst >= i
        f == ospf_rmreq(m, l, i)
    IN  IF n.st \notin FloodStates THEN m
        ELSE IF wanted THEN f
        ELSE Send([f EXCEPT !.rxmt = @ \cup {l}], Update(m, l))

-----------------------------------------------------------------------------
(* Actions.                                                                *)

\* The packets that fit in a channel.
Fit(c) == IF Len(c) <= ChanSize THEN c ELSE SubSeq(c, 1, ChanSize)

\* Router r's record becomes n, and what it sent is on its way.
Becomes(r, n) == nb' = [nb EXCEPT ![r] = [n EXCEPT !.out = <<>>]]
Runs(r, n) ==
    /\ Becomes(r, n)
    /\ chan' = [chan EXCEPT ![Peer(r)] = Fit(@ \o n.out)]

\* The throttle gives the neighbour a slot.
StartAdjacency(r) ==
    /\ nb[r].st = "2WAY"
    /\ Runs(r, start_adjacency(nb[r]))
    /\ UNCHANGED <<losses, origs, aborts, early>>

Receive(r) ==
    /\ chan[r] # <<>>
    /\ LET p == Head(chan[r])
           n == CASE p.type = "DD" -> recv_dd(nb[r], p)
                  [] p.type = "Req" -> recv_req(nb[r], p)
                  [] p.type = "Upd" -> recv_update(nb[r], p)
                  [] p.type = "Ack" -> recv_ack(nb[r], p)
       IN  /\ Becomes(r, n)
           /\ chan' = [chan EXCEPT ![r] = Tail(@), ![Peer(r)] = Fit(@ \o n.out)]
    /\ UNCHANGED <<losses, origs, aborts, early>>

Lose(r) ==
    /\ losses < MaxLosses
    /\ \E k \in DOMAIN chan[r] : chan' = [chan EXCEPT ![r] = RemoveAt(@, k)]
    /\ losses' = losses + 1
    /\ UNCHANGED <<nb, origs, aborts, early>>

\* A timer retransmits after RxmtInterval (if_rxmt), the hold timer ends after
\* RouterDeadInterval (if_dint).  Whatever was sent before has arrived by then
\* or is lost, but for MaxEarly times.
TimerFires ==
    \/ /\ \A q \in Router : chan[q] = <<>>
       /\ UNCHANGED early
    \/ /\ early < MaxEarly
       /\ \E q \in Router : chan[q] # <<>>
       /\ early' = early + 1

\* n_ddrxtim runs in ExStart, and in the master while a DD packet of its is
\* not yet echoed.
DDRxmtTimer(r) ==
    /\ nb[r].st = "EXST" \/ (nb[r].st = "EXCH" /\ Master(nb[r]) /\ nb[r].ddpkt # NoPkt)
    /\ TimerFires
    /\ Runs(r, rxmt_dd(nb[r]))
    /\ UNCHANGED <<losses, origs, aborts>>

\* n_rqrxtim runs while there are requests.
RqRxmtTimer(r) ==
    /\ nb[r].rqlst # <<>>
    /\ TimerFires
    /\ Runs(r, send_req(nb[r]))
    /\ UNCHANGED <<losses, origs, aborts>>

\* n_lsarxtim runs while the retransmission lists are not empty.
LsaRxmtTimer(r) ==
    /\ TimerFires
    /\ \E l \in nb[r].rxmt : Runs(r, Send(nb[r], Update(nb[r], l)))
    /\ UNCHANGED <<losses, origs, aborts>>

\* n_holdtim: the slave need not keep its last DD packet any longer.
HoldTimer(r) ==
    /\ nb[r].st = "FULL" /\ ~Master(nb[r]) /\ nb[r].ddpkt # NoPkt
    /\ TimerFires
    /\ nb' = [nb EXCEPT ![r].ddpkt = NoPkt]
    /\ UNCHANGED <<chan, losses, origs, aborts>>

NewInstance(r) ==
    /\ origs < MaxOrigs
    /\ \E l \in Lsa : Origin[l] = r /\ Runs(r, Originate(nb[r], l))
    /\ origs' = origs + 1
    /\ UNCHANGED <<losses, aborts, early>>

\* NBE_ADJTMO, NBE_1WAY, NBE_INACTIVE or NBE_EVAL end the adjacency.
Abort(r) ==
    /\ aborts < MaxAborts
    /\ nb[r].st # "2WAY"
    /\ Becomes(r, Restart(nb[r]))
    /\ aborts' = aborts + 1
    /\ UNCHANGED <<chan, losses, origs, early>>

Next ==
    \E r \in Router :
        \/ StartAdjacency(r)
        \/ Receive(r)
        \/ Lose(r)
        \/ DDRxmtTimer(r)
        \/ RqRxmtTimer(r)
        \/ LsaRxmtTimer(r)
        \/ HoldTimer(r)
        \/ NewInstance(r)
        \/ Abort(r)

Spec == Init /\ [][Next]_vars

\* Packets are delivered, and a retransmission timer that keeps running fires:
\* strong fairness, as packets in flight come and go.
Fairness ==
    \A r \in Router :
        /\ WF_vars(StartAdjacency(r))
        /\ WF_vars(Receive(r))
        /\ SF_vars(DDRxmtTimer(r))
        /\ SF_vars(RqRxmtTimer(r))
        /\ SF_vars(LsaRxmtTimer(r))

FairSpec == Spec /\ Fairness

-----------------------------------------------------------------------------
\* What n holds in each state: below Exchange nothing is left of an earlier
\* attempt, a packet is kept only in the states that may retransmit it, and
\* a Full neighbour owes us nothing.
TypeOK ==
    \A r \in Router :
        LET n == nb[r] IN
        /\ n.me = r
        /\ n.st \in {"2WAY", "EXST", "EXCH", "LOAD", "FULL"}
        /\ n.ddseq \in Nat /\ n.rq_goal \in Nat
        /\ n.more \in BOOLEAN /\ n.dbsent \in BOOLEAN
        /\ n.rxmt \subseteq {l \in Lsa : n.db[l] > 0}
        /\ n.db \in [Lsa -> Nat]
        /\ n.st \in {"2WAY", "EXST"} =>
               n.ddlst = <<>> /\ n.rqlst = <<>> /\ n.rxmt = {} /\ ~n.dbsent
        /\ n.st = "2WAY" => n.ddpkt = NoPkt
        /\ n.st = "FULL" => n.rqlst = <<>>
        /\ n.out = <<>>
        /\ Len(chan[r]) <= ChanSize

\* The master's DD packet and the slave's echo carry the same number, and
\* neither is ever more than one packet ahead.
SequenceInStep ==
    /\ TypeOK
    /\ nb[1].st \in FloodStates /\ nb[2].st \in FloodStates =>
           nb[2].ddseq \in {nb[1].ddseq, nb[1].ddseq + 1}

\* Once both routers are Full, an LSA one of them has newer than the other
\* is on its retransmission list for the other: the snapshot, the requests
\* and the flooding have missed nothing between them.  This depends on the
\* bounds: when timers fire before an answer can be back, and packets are
\* lost beside, a slave may start over under the number it had, and the
\* master take the echo of the attempt before for one of the new exchange.
FullMeansInStep ==
    nb[1].st = "FULL" /\ nb[2].st = "FULL" =>
        \A r \in Router, l \in Lsa :
            nb[r].db[l] > nb[Peer(r)].db[l] => l \in nb[r].rxmt

\* The databases become the same, and stay so.
Synchronized ==
    <>[](/\ nb[1].st = "FULL" /\ nb[2].st = "FULL"
         /\ nb[1].db = nb[2].db
         /\ nb[1].rxmt = {} /\ nb[2].rxmt = {})
=============================================================================
