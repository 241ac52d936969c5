-------------------------- MODULE SimulatorProofs ---------------------------
(***************************************************************************)
(* Proof that the simulated routers keep to the controller's time, and     *)
(* that their address maps and the statistics come to agree with what the  *)
(* controller knows, for any number of routers, ticks, packets, crashes    *)
(* and restarts; and that the whole configuration is delivered, whatever   *)
(* the file says.                                                          *)
(***************************************************************************)
EXTENDS Simulator, SimConfig, Recursion, FiniteSetTheorems, TLAPS

-----------------------------------------------------------------------------
(* Types.                                                                  *)
MapEntry == [addr : Addrs, home : Router, port : Nat]

NodeRecord == [up : BOOLEAN, got_tick : BOOLEAN, dbstats : Db \cup {NULL}, port : Nat]

ProcessRecord == [alive : BOOLEAN, ospf : BOOLEAN, ticks : Nat, address_map : SUBSET MapEntry,
                  rcvq : Seq(Nat), port : Nat]

TickMsg == [type : {"first_tick", "tick"}, tick : Nat]
MapMsg == [type : {"addrmap"}, maps : SUBSET MapEntry]
NodeMsg == TickMsg \cup MapMsg

CtlMsg == [type : {"hello"}, myport : Nat \ {0}] \cup [type : {"tick_response"}, db : Db]

TypeOK ==
  /\ n_ticks \in Nat
  /\ ifmaps \subseteq ToSet(Owners)
  /\ node \in [Router -> NodeRecord]
  /\ process \in [Router -> ProcessRecord]
  /\ toNode \in [Router -> Seq(NodeMsg)]
  /\ toCtl \in [Router -> Seq(CtlMsg)]
  /\ uni_fd \in [Router -> Seq(Nat)]
  /\ starts \in Nat

(* The stamps of packets in the sockets, and of those kept for later.      *)
SentStamp(n) == {ts \in Nat : ts < Units * (n + 1)}
HeldStamp(n) == {ts \in Nat : ts <= Units * (n + 1)}

Stamped ==
  /\ uni_fd \in [Router -> Seq(SentStamp(n_ticks))]
  /\ \A r \in Router : process[r].rcvq \in Seq(HeldStamp(n_ticks))

(* Where a router is in the exchange of ticks and answers: n is the        *)
(* controller's time, nd its node, p its process, q and c its connection.  *)
TickAt(q)  == {i \in DOMAIN q : q[i].type = "tick"}
FirstAt(q) == {i \in DOMAIN q : q[i].type = "first_tick"}

TickQueued(n, nd, q, c) ==
  \A i \in TickAt(q) : q[i].tick = n /\ ~nd.got_tick /\ c = <<>> /\ \A j \in TickAt(q) : j = i

FirstQueued(n, nd, p, q, c) ==
  \A i \in FirstAt(q) :
    /\ ~p.ospf /\ c = <<>>
    /\ nd.got_tick => q[i].tick = n
    /\ ~nd.got_tick => q[i].tick = n - 1
    /\ \A j \in FirstAt(q) : j = i
    /\ \A j \in TickAt(q) : i < j

Attached(n, nd, p, q, c) ==
  /\ TickQueued(n, nd, q, c)
  /\ FirstQueued(n, nd, p, q, c)
  /\ ~nd.got_tick => TickAt(q) # {} \/ c # <<>>
  /\ ~p.ospf => FirstAt(q) # {}
  /\ p.ospf /\ TickAt(q) # {} => p.ticks = n - 1
  /\ p.ospf /\ TickAt(q) = {} => p.ticks = n
  /\ c # <<>> => Len(c) = 1 /\ c[1].type = "tick_response" /\ ~nd.got_tick

Phase(n, nd, p, q, c) ==
  /\ ~p.ospf => p.ticks = 0
  /\ ~nd.up => q = <<>> /\ ~p.ospf
  /\ ~nd.up /\ ~p.alive => c = <<>>
  /\ ~nd.up /\ p.alive => Len(c) = 1 /\ c[1].type = "hello"
  /\ nd.up /\ ~p.alive => ~p.ospf /\ \A i \in DOMAIN c : c[i].type = "tick_response"
  /\ nd.up /\ p.alive => Attached(n, nd, p, q, c)

InStep == \A r \in Router : Phase(n_ticks, node[r], process[r], toNode[r], toCtl[r])

SimInvariant == TypeOK /\ Stamped /\ InStep

-----------------------------------------------------------------------------
(* Sequences of messages and of stamps.                                    *)

LEMMA SequenceOfMore ==
    ASSUME NEW S, NEW T, S \subseteq T, NEW s \in Seq(S)
    PROVE  s \in Seq(T)
OBVIOUS

LEMMA PutType ==
    ASSUME NEW M, NEW chan \in [Router -> Seq(M)], NEW rs, NEW msg \in M
    PROVE  /\ Put(chan, rs, msg) \in [Router -> Seq(M)]
           /\ \A r \in Router : Put(chan, rs, msg)[r] = IF r \in rs THEN Append(chan[r], msg) ELSE chan[r]
BY DEF Put

\* What is sent, by one router, when the stamps are of some set.
LEMMA AnswersType ==
    ASSUME NEW M, NEW socks \in [Router -> Seq(M)], NEW r, NEW stamps \in Seq(M), NEW addrs
    PROVE  Answers(socks, r, stamps, addrs) \in [Router -> Seq(M)]
<1> DEFINE N == Len(stamps)
           Y == [Router -> Seq(M)]
           Step(s, k) == IF addrs[k] = NULL THEN s ELSE sendpkt(s, r, addrs[k], stamps[k])
           F == [e \in Y \X (1..N) |-> Step(e[1], e[2])]
           IsSent(w) == w = [k \in 0..N |-> IF k = 0 THEN socks
                                            ELSE IF addrs[k] = NULL THEN w[k - 1]
                                            ELSE sendpkt(w[k - 1], r, addrs[k], stamps[k])]
<1>1. N \in Nat /\ socks \in Y /\ \A k \in 1..N : stamps[k] \in M
  OBVIOUS
<1>2. \A k \in 1..N : \A s \in Y : Step(s, k) \in Y
  BY <1>1, PutType DEF sendpkt
<1>3. F \in [Y \X (1..N) -> Y] /\ \A k \in 1..N : \A s \in Y : F[<<s, k>>] = Step(s, k)
  <2> HIDE DEF Step
  <2> QED
    BY <1>2
<1>4. Answers(socks, r, stamps, addrs) = (CHOOSE w : IsSent(w))[N]
  BY DEF Answers
<1> HIDE DEF F, N, Y
<1>5. PICK f \in [0..N -> Y] : Iterates(f, N, socks, F)
  BY <1>1, <1>3, IterationExists
<1>6. \A k \in 0..N : f[k] = IF k = 0 THEN socks
                             ELSE IF addrs[k] = NULL THEN f[k - 1]
                             ELSE sendpkt(f[k - 1], r, addrs[k], stamps[k])
  <2> SUFFICES ASSUME NEW k \in 0..N, k # 0
               PROVE  f[k] = Step(f[k - 1], k)
    BY <1>1, <1>5 DEF Iterates
  <2>1. k \in 1..N /\ k - 1 \in 0..N
    BY <1>1
  <2>2. f[k] = F[<<f[k - 1], k>>] /\ f[k - 1] \in Y
    BY <1>5, <2>1 DEF Iterates
  <2> QED
    BY <1>3, <2>1, <2>2
<1>7. IsSent(f)
  BY <1>6
<1> DEFINE v == CHOOSE w : IsSent(w)
<1>8. IsSent(v)
  <2> HIDE DEF IsSent
  <2> QED
    BY <1>7
<1>9. v[0] \in Y /\ \A k \in 1..N : v[k - 1] \in Y => v[k] \in Y
  <2> HIDE DEF v
  <2>1. \A k \in 0..N : v[k] = IF k = 0 THEN socks
                                ELSE IF addrs[k] = NULL THEN v[k - 1]
                                ELSE sendpkt(v[k - 1], r, addrs[k], stamps[k])
    BY <1>8, Zenon
  <2>2. 0 \in 0..N /\ \A k \in 1..N : k \in 0..N /\ k # 0
    BY <1>1
  <2>3. v[0] \in Y
    BY <1>1, <2>1, <2>2
  <2>4. \A k \in 1..N : v[k] = Step(v[k - 1], k)
    BY <2>1, <2>2
  <2> HIDE DEF Step
  <2> QED
    BY <1>2, <2>3, <2>4
<1> HIDE DEF v
<1>10. \A k \in 0..N : v[k] \in Y
  BY <1>1, <1>9, AllValues
<1>11. v[N] \in Y
  BY <1>1, <1>10
<1> QED
  BY <1>4, <1>11 DEF v, Y

LEMMA StampsGrow ==
    ASSUME NEW n \in Nat
    PROVE  /\ SentStamp(n) \subseteq SentStamp(n + 1)
           /\ HeldStamp(n) \subseteq HeldStamp(n + 1)
           /\ SentStamp(n) \subseteq Nat /\ HeldStamp(n) \subseteq Nat
<1>1. Units * (n + 2) = Units * (n + 1) + Units
  BY SimulatorAssumption DEF SimulatorAssumption
<1>2. Units * (n + 1) \in Nat /\ Units \in Nat
  BY SimulatorAssumption DEF SimulatorAssumption
<1>3. Units * ((n + 1) + 1) = Units * (n + 2)
  OBVIOUS
<1> DEFINE U == Units * (n + 1)
<1> HIDE DEF U
<1> QED
  BY <1>1, <1>2, <1>3 DEF SentStamp, HeldStamp, U

-----------------------------------------------------------------------------
(* Queues and phases.                                                      *)

\* What a message at the end adds to a queue.
LEMMA AtTheEnd ==
    ASSUME NEW M, NEW q \in Seq(M), NEW m
    PROVE  /\ DOMAIN Append(q, m) = DOMAIN q \cup {Len(q) + 1}
           /\ \A i \in DOMAIN q : Append(q, m)[i] = q[i]
           /\ Append(q, m)[Len(q) + 1] = m
           /\ \A i \in DOMAIN q : i \in Nat /\ i < Len(q) + 1
OBVIOUS

LEMMA MapAtTheEnd ==
    ASSUME NEW q \in Seq(NodeMsg), NEW m \in MapMsg
    PROVE  /\ TickAt(Append(q, m)) = TickAt(q)
           /\ FirstAt(Append(q, m)) = FirstAt(q)
           /\ \A i \in TickAt(q) \cup FirstAt(q) : Append(q, m)[i] = q[i]
<1>1. m.type = "addrmap"
  BY DEF MapMsg
<1> QED
  BY <1>1, AtTheEnd DEF TickAt, FirstAt

LEMMA TickAtTheEnd ==
    ASSUME NEW q \in Seq(NodeMsg), NEW m, m.type = "tick"
    PROVE  /\ TickAt(Append(q, m)) = TickAt(q) \cup {Len(q) + 1}
           /\ FirstAt(Append(q, m)) = FirstAt(q)
           /\ \A i \in TickAt(q) \cup FirstAt(q) : Append(q, m)[i] = q[i] /\ i < Len(q) + 1
           /\ Append(q, m)[Len(q) + 1] = m
BY AtTheEnd DEF TickAt, FirstAt

LEMMA TailOfOne ==
    ASSUME NEW M, NEW c \in Seq(M), Len(c) = 1
    PROVE  Tail(c) = <<>>
<1> DEFINE t == Tail(c)
<1>1. t \in Seq(M) /\ Len(t) = 0
  OBVIOUS
<1> HIDE DEF t
<1>2. t = <<>>
  BY <1>1
<1> QED
  BY <1>2 DEF t

\* A queue without its head.
LEMMA WithoutHead ==
    ASSUME NEW q \in Seq(NodeMsg), q # <<>>
    PROVE  /\ 1 \in DOMAIN q /\ q[1] = Head(q)
           /\ \A i \in DOMAIN Tail(q) : i \in Nat /\ i + 1 \in DOMAIN q /\ Tail(q)[i] = q[i + 1]
           /\ \A i \in DOMAIN q : i # 1 => /\ i - 1 \in DOMAIN Tail(q)
                                           /\ Tail(q)[i - 1] = q[i] /\ (i - 1) + 1 = i
           /\ \A i \in TickAt(Tail(q)) : i \in Nat /\ i + 1 \in TickAt(q) /\ Tail(q)[i] = q[i + 1]
           /\ \A i \in FirstAt(Tail(q)) : i \in Nat /\ i + 1 \in FirstAt(q) /\ Tail(q)[i] = q[i + 1]
           /\ \A i \in TickAt(q) : i # 1 => i - 1 \in TickAt(Tail(q))
           /\ \A i \in FirstAt(q) : i # 1 => i - 1 \in FirstAt(Tail(q))
<1>1. 1 \in DOMAIN q /\ q[1] = Head(q)
  OBVIOUS
<1>2. \A i \in DOMAIN Tail(q) : i \in Nat /\ i + 1 \in DOMAIN q /\ Tail(q)[i] = q[i + 1]
  OBVIOUS
<1>3. \A i \in DOMAIN q : i # 1 => i - 1 \in DOMAIN Tail(q) /\ Tail(q)[i - 1] = q[i] /\ (i - 1) + 1 = i
  OBVIOUS
<1> QED
  BY <1>1, <1>2, <1>3 DEF TickAt, FirstAt

\* An address map at the end changes nothing.
LEMMA MapKeepsPhase ==
    ASSUME NEW n, NEW nd, NEW p, NEW q \in Seq(NodeMsg), NEW c, NEW m \in MapMsg,
           nd.up, Phase(n, nd, p, q, c)
    PROVE  Phase(n, nd, p, Append(q, m), c)
<1> DEFINE qm == Append(q, m)
<1>1. /\ TickAt(qm) = TickAt(q) /\ FirstAt(qm) = FirstAt(q)
      /\ \A i \in TickAt(q) \cup FirstAt(q) : qm[i] = q[i]
  BY MapAtTheEnd
<1> HIDE DEF qm
<1>2. TickQueued(n, nd, q, c) => TickQueued(n, nd, qm, c)
  BY <1>1 DEF TickQueued
<1>3. FirstQueued(n, nd, p, q, c) => FirstQueued(n, nd, p, qm, c)
  BY <1>1 DEF FirstQueued
<1>4. Attached(n, nd, p, q, c) => Attached(n, nd, p, qm, c)
  BY <1>1, <1>2, <1>3 DEF Attached
<1> QED
  BY <1>4 DEF Phase, qm

\* The tick reaches a router that has answered the last one.
LEMMA TickKeepsPhase ==
    ASSUME NEW n \in Nat, NEW nd, NEW p \in ProcessRecord, NEW q \in Seq(NodeMsg), NEW c, NEW m,
           nd.up, nd.got_tick, Phase(n, nd, p, q, c), m.type = "tick", m.tick = n + 1,
           NEW nd2, nd2.up, ~nd2.got_tick
    PROVE  Phase(n + 1, nd2, p, Append(q, m), c)
<1> DEFINE qm == Append(q, m)
           e == Len(q) + 1
<1>1. /\ TickAt(qm) = TickAt(q) \cup {e} /\ FirstAt(qm) = FirstAt(q) /\ qm[e] = m
      /\ \A i \in TickAt(q) \cup FirstAt(q) : qm[i] = q[i] /\ i < e
  BY TickAtTheEnd
<1> HIDE DEF qm, e
<1>2. ASSUME p.alive
      PROVE  Attached(n + 1, nd2, p, qm, c)
  <2>1. Attached(n, nd, p, q, c)
    BY <1>2 DEF Phase
  <2>2. TickAt(q) = {} /\ c = <<>>
    BY <2>1 DEF Attached, TickQueued
  <2>3. TickQueued(n + 1, nd2, qm, c)
    BY <1>1, <2>2 DEF TickQueued
  <2>4. (n + 1) - 1 = n
    OBVIOUS
  <2>5. FirstQueued(n + 1, nd2, p, qm, c)
    BY <1>1, <2>1, <2>2, <2>4 DEF FirstQueued, Attached
  <2> QED
    BY <1>1, <2>1, <2>2, <2>3, <2>4, <2>5 DEF Attached
<1> QED
  BY <1>2 DEF Phase, qm

\* The router has read the first tick: its OSPF is started.
LEMMA FirstTickRead ==
    ASSUME NEW n \in Nat, NEW nd \in NodeRecord, NEW p \in ProcessRecord, NEW q \in Seq(NodeMsg), NEW c,
           q # <<>>, p.alive, Phase(n, nd, p, q, c), Head(q).type = "first_tick",
           NEW p2, p2.alive, p2.ospf, p2.ticks = Head(q).tick
    PROVE  Phase(n, nd, p2, Tail(q), c)
<1> DEFINE t == Tail(q)
<1>1. nd.up /\ Attached(n, nd, p, q, c)
  BY DEF Phase
<1>2. 1 \in FirstAt(q) /\ 1 \notin TickAt(q) /\ q[1] = Head(q)
  BY WithoutHead DEF FirstAt, TickAt
<1>3. /\ ~p.ospf /\ c = <<>>
      /\ nd.got_tick => Head(q).tick = n
      /\ ~nd.got_tick => Head(q).tick = n - 1
      /\ \A j \in FirstAt(q) : j = 1
  BY <1>1, <1>2 DEF Attached, FirstQueued
<1>4. /\ \A i \in TickAt(t) : i \in Nat /\ i + 1 \in TickAt(q) /\ t[i] = q[i + 1]
      /\ \A i \in FirstAt(t) : i \in Nat /\ i + 1 \in FirstAt(q)
      /\ \A i \in TickAt(q) : i # 1 => i - 1 \in TickAt(t)
  BY WithoutHead
<1> HIDE DEF t
<1>5. FirstAt(t) = {}
  <2> SUFFICES ASSUME NEW i \in FirstAt(t)
               PROVE  FALSE
    OBVIOUS
  <2>1. i \in Nat /\ i + 1 \in FirstAt(q)
    BY <1>4
  <2>2. i = 0
    BY <1>3, <2>1
  <2> QED
    BY <2>2, WithoutHead DEF FirstAt, t
<1>6. TickQueued(n, nd, t, c)
  <2> SUFFICES ASSUME NEW i \in TickAt(t)
               PROVE  t[i].tick = n /\ ~nd.got_tick /\ c = <<>> /\ \A j \in TickAt(t) : j = i
    BY DEF TickQueued
  <2>1. \A k \in TickAt(q) : q[k].tick = n /\ ~nd.got_tick /\ c = <<>> /\ \A j \in TickAt(q) : j = k
    BY <1>1 DEF Attached, TickQueued
  <2>2. ASSUME NEW j \in TickAt(t)
        PROVE  j = i
    <3>1. i \in Nat /\ j \in Nat /\ i + 1 = j + 1
      BY <1>4, <2>1
    <3> QED
      BY <3>1
  <2> QED
    BY <1>4, <2>1, <2>2
<1>7. ~nd.got_tick => TickAt(t) # {}
  BY <1>1, <1>2, <1>3, <1>4 DEF Attached
<1>8. nd.got_tick => TickAt(t) = {}
  BY <1>6 DEF TickQueued
<1>9. FirstQueued(n, nd, p2, t, c)
  BY <1>5 DEF FirstQueued
<1>10. Attached(n, nd, p2, t, c)
  BY <1>3, <1>5, <1>6, <1>7, <1>8, <1>9 DEF Attached, NodeRecord
<1> QED
  BY <1>1, <1>10 DEF Phase, t

\* The router has read a tick: it is the controller's time, and is answered.
LEMMA TickRead ==
    ASSUME NEW n \in Nat, NEW nd \in NodeRecord, NEW p \in ProcessRecord, NEW q \in Seq(NodeMsg),
           NEW c \in Seq(CtlMsg),
           q # <<>>, p.alive, Phase(n, nd, p, q, c), Head(q).type = "tick"
    PROVE  /\ p.ospf /\ Head(q).tick = n
           /\ \A p2, a : p2.alive /\ p2.ospf /\ p2.ticks = n /\ a.type = "tick_response"
                           => Phase(n, nd, p2, Tail(q), Append(c, a))
<1> DEFINE t == Tail(q)
<1>1. nd.up /\ Attached(n, nd, p, q, c)
  BY DEF Phase
<1>2. 1 \in TickAt(q) /\ q[1] = Head(q)
  BY WithoutHead DEF TickAt
<1>3. Head(q).tick = n /\ ~nd.got_tick /\ c = <<>> /\ \A j \in TickAt(q) : j = 1
  BY <1>1, <1>2 DEF Attached, TickQueued
<1>4. /\ \A i \in TickAt(t) : i \in Nat /\ i + 1 \in TickAt(q) /\ i \in DOMAIN t
      /\ \A i \in FirstAt(t) : i + 1 \in FirstAt(q)
      /\ \A i \in DOMAIN t : i # 0
  BY WithoutHead DEF TickAt
<1> HIDE DEF t
<1>5. FirstAt(q) = {}
  <2> SUFFICES ASSUME NEW i \in FirstAt(q)
               PROVE  FALSE
    OBVIOUS
  <2>1. i < 1
    BY <1>1, <1>2 DEF Attached, FirstQueued
  <2> QED
    BY <2>1 DEF FirstAt
<1>6. p.ospf
  BY <1>1, <1>5 DEF Attached, ProcessRecord
<1>7. TickAt(t) = {} /\ FirstAt(t) = {}
  BY <1>3, <1>4, <1>5
<1>8. ASSUME NEW p2, NEW a, p2.alive, p2.ospf, p2.ticks = n, a.type = "tick_response"
      PROVE  Phase(n, nd, p2, t, Append(c, a))
  <2>1. Append(c, a) # <<>> /\ Len(Append(c, a)) = 1 /\ Append(c, a)[1] = a
    BY <1>3
  <2> HIDE DEF t
  <2> DEFINE ca == Append(c, a)
  <2> HIDE DEF ca
  <2>2. Attached(n, nd, p2, t, ca)
    BY <1>3, <1>7, <1>8, <2>1 DEF Attached, TickQueued, FirstQueued, ca
  <2> QED
    BY <1>1, <1>8, <2>2 DEF Phase, ca
<1> QED
  BY <1>3, <1>6, <1>8 DEF t

\* The router has read an address map: it is where it was.
LEMMA MapRead ==
    ASSUME NEW n \in Nat, NEW nd \in NodeRecord, NEW p \in ProcessRecord, NEW q \in Seq(NodeMsg), NEW c,
           q # <<>>, p.alive, Phase(n, nd, p, q, c), Head(q).type = "addrmap",
           NEW p2, p2.alive, p2.ospf <=> p.ospf, p2.ticks = p.ticks
    PROVE  Phase(n, nd, p2, Tail(q), c)
<1> DEFINE t == Tail(q)
<1>1. nd.up /\ Attached(n, nd, p, q, c)
  BY DEF Phase
<1>2. 1 \notin TickAt(q) /\ 1 \notin FirstAt(q)
  BY WithoutHead DEF TickAt, FirstAt
<1>3. /\ \A i \in TickAt(t) : i \in Nat /\ i + 1 \in TickAt(q) /\ t[i] = q[i + 1]
      /\ \A i \in FirstAt(t) : i \in Nat /\ i + 1 \in FirstAt(q) /\ t[i] = q[i + 1]
      /\ \A i \in TickAt(q) : i - 1 \in TickAt(t)
      /\ \A i \in FirstAt(q) : i - 1 \in FirstAt(t)
  BY <1>2, WithoutHead
<1> HIDE DEF t
<1>4. TickQueued(n, nd, t, c)
  <2> SUFFICES ASSUME NEW i \in TickAt(t)
               PROVE  t[i].tick = n /\ ~nd.got_tick /\ c = <<>> /\ \A j \in TickAt(t) : j = i
    BY DEF TickQueued
  <2>1. \A k \in TickAt(q) : q[k].tick = n /\ ~nd.got_tick /\ c = <<>> /\ \A j \in TickAt(q) : j = k
    BY <1>1 DEF Attached, TickQueued
  <2>2. ASSUME NEW j \in TickAt(t)
        PROVE  j = i
    <3>1. i \in Nat /\ j \in Nat /\ i + 1 = j + 1
      BY <1>3, <2>1
    <3> QED
      BY <3>1
  <2> QED
    BY <1>3, <2>1, <2>2
<1>5. FirstQueued(n, nd, p2, t, c)
  <2> SUFFICES ASSUME NEW i \in FirstAt(t)
               PROVE  /\ ~p2.ospf /\ c = <<>>
                      /\ nd.got_tick => t[i].tick = n
                      /\ ~nd.got_tick => t[i].tick = n - 1
                      /\ \A j \in FirstAt(t) : j = i
                      /\ \A j \in TickAt(t) : i < j
    BY DEF FirstQueued
  <2>1. i \in Nat /\ i + 1 \in FirstAt(q) /\ t[i] = q[i + 1]
    BY <1>3
  <2>2. /\ ~p.ospf /\ c = <<>>
        /\ nd.got_tick => q[i + 1].tick = n
        /\ ~nd.got_tick => q[i + 1].tick = n - 1
        /\ \A j \in FirstAt(q) : j = i + 1
        /\ \A j \in TickAt(q) : i + 1 < j
    BY <1>1, <2>1 DEF Attached, FirstQueued
  <2>3. ASSUME NEW j \in FirstAt(t)
        PROVE  j = i
    <3>1. j \in Nat /\ j + 1 = i + 1
      BY <1>3, <2>2
    <3> QED
      BY <2>1, <3>1
  <2>4. ASSUME NEW j \in TickAt(t)
        PROVE  i < j
    <3>1. j \in Nat /\ i + 1 < j + 1
      BY <1>3, <2>2
    <3> QED
      BY <2>1, <3>1
  <2> QED
    BY <2>1, <2>2, <2>3, <2>4
<1>6. (TickAt(t) = {}) <=> (TickAt(q) = {})
  BY <1>3
<1>7. FirstAt(q) # {} => FirstAt(t) # {}
  BY <1>3
<1>8. Attached(n, nd, p2, t, c)
  BY <1>1, <1>4, <1>5, <1>6, <1>7 DEF Attached
<1> QED
  BY <1>1, <1>8 DEF Phase, t

-----------------------------------------------------------------------------
(* Address maps on their way.                                              *)

LEMMA MapsType ==
    ASSUME NEW owners \in SUBSET ToSet(Owners), NEW nodes \in [Router -> NodeRecord]
    PROVE  [type |-> "addrmap", maps |-> MapsOf(owners, nodes)] \in MapMsg
<1>1. \A o \in ToSet(Owners) : o[1] \in Addrs /\ o[2] \in Router
  BY SimulatorAssumption DEF SimulatorAssumption, Addrs, ToSet
<1>2. \A r \in Router : nodes[r].port \in Nat
  BY DEF NodeRecord
<1>3. MapsOf(owners, nodes) \subseteq MapEntry
  BY <1>1, <1>2 DEF MapsOf, MapEntry
<1> QED
  BY <1>3 DEF MapMsg

\* Some of the routers "to" were sent one address map.
Mapped(chan, chan2, to) ==
  /\ chan2 \in [Router -> Seq(NodeMsg)]
  /\ \A r \in Router : \/ chan2[r] = chan[r]
                       \/ r \in to /\ \E m \in MapMsg : chan2[r] = Append(chan[r], m)

LEMMA PutMap ==
    ASSUME NEW chan \in [Router -> Seq(NodeMsg)], NEW to, NEW m \in MapMsg
    PROVE  Mapped(chan, Put(chan, to, m), to)
<1>1. m \in NodeMsg
  BY DEF NodeMsg
<1> DEFINE c2 == Put(chan, to, m)
<1>2. /\ c2 \in [Router -> Seq(NodeMsg)]
      /\ \A r \in Router : c2[r] = IF r \in to THEN Append(chan[r], m) ELSE chan[r]
  BY <1>1, PutType
<1> HIDE DEF c2
<1>3. Mapped(chan, c2, to)
  BY <1>2 DEF Mapped
<1> QED
  BY <1>3 DEF c2

LEMMA AddrMapSent ==
    ASSUME NEW chan \in [Router -> Seq(NodeMsg)], NEW nodes \in [Router -> NodeRecord], NEW r \in Router,
           ifmaps \subseteq ToSet(Owners)
    PROVE  /\ Mapped(chan, send_addrmap(chan, nodes, r), {r})
           /\ Mapped(chan, send_addrmap_increment(chan, nodes, r), {q \in Router \ {r} : nodes[q].up})
<1>1. Mapped(chan, chan, {r}) /\ Mapped(chan, chan, {q \in Router \ {r} : nodes[q].up})
  BY DEF Mapped
<1>2. [type |-> "addrmap", maps |-> MapsOf(ifmaps, nodes)] \in MapMsg
  BY MapsType
<1>3. {o \in ifmaps : o[2] = r} \in SUBSET ToSet(Owners)
  OBVIOUS
<1>4. [type |-> "addrmap", maps |-> MapsOf({o \in ifmaps : o[2] = r}, nodes)] \in MapMsg
  BY <1>3, MapsType
<1>5. Mapped(chan, send_addrmap(chan, nodes, r), {r})
  BY <1>1, <1>2, PutMap DEF send_addrmap
<1>6. Mapped(chan, send_addrmap_increment(chan, nodes, r), {q \in Router \ {r} : nodes[q].up})
  BY <1>1, <1>4, PutMap DEF send_addrmap_increment
<1> QED
  BY <1>5, <1>6

LEMMA MappedKeepsPhase ==
    ASSUME NEW chan \in [Router -> Seq(NodeMsg)], NEW chan2, NEW to, Mapped(chan, chan2, to),
           NEW r \in Router, NEW n, NEW nd, NEW p, NEW c,
           r \in to => nd.up, Phase(n, nd, p, chan[r], c)
    PROVE  Phase(n, nd, p, chan2[r], c)
<1>1. CASE chan2[r] = chan[r]
  BY <1>1
<1>2. ASSUME NEW m \in MapMsg, r \in to, chan2[r] = Append(chan[r], m)
      PROVE  Phase(n, nd, p, chan2[r], c)
  <2>1. nd.up /\ chan[r] \in Seq(NodeMsg)
    BY <1>2
  <2> QED
    BY <1>2, <2>1, MapKeepsPhase
<1> QED
  BY <1>1, <1>2 DEF Mapped

-----------------------------------------------------------------------------
(* The invariant holds at first, and each action keeps it.                 *)

LEMMA SimInit == Init => SimInvariant
<1> SUFFICES ASSUME Init PROVE SimInvariant
  OBVIOUS
<1>1. NoNode \in NodeRecord /\ ~NoNode.up
  BY DEF NoNode, NodeRecord
<1>2. NoProcess \in ProcessRecord /\ ~NoProcess.alive /\ ~NoProcess.ospf /\ NoProcess.ticks = 0
      /\ NoProcess.rcvq = <<>>
  BY DEF NoProcess, ProcessRecord
<1>3. TypeOK
  BY <1>1, <1>2 DEF Init, TypeOK
<1>4. Stamped
  <2>1. <<>> \in Seq(SentStamp(n_ticks)) /\ <<>> \in Seq(HeldStamp(n_ticks))
    OBVIOUS
  <2>2. \A r \in Router : process[r].rcvq = <<>>
    BY <1>2 DEF Init
  <2> QED
    BY <2>1, <2>2 DEF Init, Stamped
<1>5. InStep
  BY <1>1, <1>2 DEF Init, InStep, Phase
<1> QED
  BY <1>3, <1>4, <1>5 DEF SimInvariant

\* What does not touch the stamps or the time keeps their bounds.
LEMMA StampedStays ==
    ASSUME Stamped, n_ticks' = n_ticks, uni_fd' = uni_fd,
           \A r \in Router : process'[r].rcvq = process[r].rcvq
    PROVE  Stamped'
BY DEF Stamped, SentStamp, HeldStamp

\* Of the router that a hello comes from.
LEMMA HelloMeans ==
    ASSUME NEW n, NEW nd, NEW p \in ProcessRecord, NEW q, NEW c \in Seq(CtlMsg),
           c # <<>>, Head(c).type = "hello", Phase(n, nd, p, q, c)
    PROVE  ~nd.up /\ p.alive /\ ~p.ospf /\ p.ticks = 0 /\ q = <<>> /\ Tail(c) = <<>>
<1>1. c[1] = Head(c) /\ 1 \in DOMAIN c
  OBVIOUS
<1>2. ~nd.up
  BY <1>1 DEF Phase, Attached
<1>3. p.alive /\ Len(c) = 1
  BY <1>2 DEF Phase
<1>4. Tail(c) = <<>>
  BY <1>3, TailOfOne
<1> QED
  BY <1>2, <1>3, <1>4 DEF Phase

LEMMA RestartKeeps ==
    ASSUME SimInvariant, NEW r \in Router, toCtl[r] # <<>>, Head(toCtl[r]).type = "hello",
           simnode_handler_read(r)
    PROVE  SimInvariant'
<1> DEFINE m == Head(toCtl[r])
           nodes == [node EXCEPT ![r] = NewNode(m.myport)]
           ft == [type |-> "first_tick", tick |-> n_ticks]
           c1 == Put(toNode, {r}, ft)
           c2 == send_addrmap(c1, nodes, r)
           c3 == send_addrmap_increment(c2, nodes, r)
<1>1. /\ node' = nodes /\ toNode' = c3 /\ toCtl' = [toCtl EXCEPT ![r] = Tail(@)]
      /\ UNCHANGED <<n_ticks, ifmaps, process, uni_fd, starts, sent>>
  BY DEF simnode_handler_read, restart_node
<1>2. /\ n_ticks \in Nat /\ ifmaps \subseteq ToSet(Owners)
      /\ node \in [Router -> NodeRecord] /\ process \in [Router -> ProcessRecord]
      /\ toNode \in [Router -> Seq(NodeMsg)] /\ toCtl \in [Router -> Seq(CtlMsg)]
      /\ Stamped /\ \A q \in Router : Phase(n_ticks, node[q], process[q], toNode[q], toCtl[q])
  BY DEF SimInvariant, TypeOK, InStep
<1>3. m \in CtlMsg /\ m.type = "hello"
  BY <1>2
<1>4. NewNode(m.myport) \in NodeRecord /\ NewNode(m.myport).up /\ NewNode(m.myport).got_tick
  <2>1. m.myport \in Nat
    BY <1>3 DEF CtlMsg
  <2> QED
    BY <2>1 DEF NewNode, NoNode, NodeRecord
<1>5. nodes \in [Router -> NodeRecord] /\ nodes[r] = NewNode(m.myport)
      /\ \A q \in Router \ {r} : nodes[q] = node[q]
  <2> HIDE DEF m
  <2> QED
    BY <1>2, <1>4
<1>6. ft \in NodeMsg /\ ft.type = "first_tick" /\ ft.tick = n_ticks
  BY <1>2 DEF NodeMsg, TickMsg
<1> HIDE DEF ft, nodes
<1>7. /\ c1 \in [Router -> Seq(NodeMsg)] /\ c1[r] = Append(toNode[r], ft)
      /\ \A q \in Router \ {r} : c1[q] = toNode[q]
  <2>1. /\ c1 \in [Router -> Seq(NodeMsg)]
        /\ \A q \in Router : c1[q] = IF q \in {r} THEN Append(toNode[q], ft) ELSE toNode[q]
    BY <1>2, <1>6, PutType
  <2> HIDE DEF c1
  <2> QED
    BY <2>1
<1>8. ~node[r].up /\ process[r].alive /\ ~process[r].ospf /\ process[r].ticks = 0
      /\ toNode[r] = <<>> /\ Tail(toCtl[r]) = <<>>
  BY <1>2, <1>3, HelloMeans
<1>9. Mapped(c1, c2, {r})
  <2> HIDE DEF c1
  <2> QED
    BY <1>2, <1>5, <1>7, AddrMapSent
<1>10. c2 \in [Router -> Seq(NodeMsg)]
  BY <1>9 DEF Mapped
<1> HIDE DEF c1, c2
<1>11. Mapped(c2, c3, {q \in Router \ {r} : nodes[q].up})
  BY <1>2, <1>5, <1>10, AddrMapSent
<1> HIDE DEF c3
<1>12. ASSUME NEW q \in Router
       PROVE  Phase(n_ticks, nodes[q], process[q], c1[q], toCtl'[q])
  <2>1. CASE q # r
    BY <1>1, <1>2, <1>5, <1>7, <2>1
  <2>2. CASE q = r
    <3> DEFINE f == <<ft>>
    <3>1. c1[r] = f /\ DOMAIN f = {1} /\ f[1] = ft /\ f # <<>>
      BY <1>7, <1>8
    <3> HIDE DEF f
    <3>2. TickAt(f) = {} /\ FirstAt(f) = {1}
      BY <1>6, <3>1 DEF TickAt, FirstAt
    <3>3. toCtl'[r] = <<>>
      BY <1>1, <1>2, <1>8
    <3>4. nodes[r].up /\ nodes[r].got_tick
      BY <1>4, <1>5
    <3>5. Attached(n_ticks, nodes[r], process[r], f, <<>>)
      BY <1>6, <1>8, <3>1, <3>2, <3>4 DEF Attached, TickQueued, FirstQueued
    <3> QED
      BY <1>8, <2>2, <3>1, <3>3, <3>4, <3>5 DEF Phase
  <2> QED
    BY <2>1, <2>2
<1>13. ASSUME NEW q \in Router
       PROVE  Phase(n_ticks, nodes[q], process[q], toNode'[q], toCtl'[q])
  <2>1. q \in {r} => nodes[q].up
    BY <1>4, <1>5
  <2>2. Phase(n_ticks, nodes[q], process[q], c2[q], toCtl'[q])
    BY <1>7, <1>9, <1>12, <2>1, MappedKeepsPhase
  <2>3. q \in {x \in Router \ {r} : nodes[x].up} => nodes[q].up
    OBVIOUS
  <2>4. Phase(n_ticks, nodes[q], process[q], c3[q], toCtl'[q])
    BY <1>10, <1>11, <2>2, <2>3, MappedKeepsPhase
  <2> QED
    BY <1>1, <2>4
<1>14. toNode' \in [Router -> Seq(NodeMsg)] /\ toCtl' \in [Router -> Seq(CtlMsg)]
  BY <1>1, <1>2, <1>11 DEF Mapped
<1>15. TypeOK'
  BY <1>1, <1>5, <1>14 DEF SimInvariant, TypeOK
<1>16. Stamped'
  BY <1>1, <1>2, StampedStays
<1> QED
  BY <1>1, <1>13, <1>15, <1>16 DEF SimInvariant, InStep

\* An answer is read: the router has had the tick, or is gone.
LEMMA ResponseRead ==
    ASSUME NEW n, NEW nd \in NodeRecord, NEW p \in ProcessRecord, NEW q, NEW c \in Seq(CtlMsg),
           c # <<>>, Head(c).type = "tick_response", Phase(n, nd, p, q, c),
           NEW nd2, nd2.up <=> nd.up, nd2.got_tick
    PROVE  nd.up /\ Phase(n, nd2, p, q, Tail(c))
<1>1. c[1] = Head(c) /\ 1 \in DOMAIN c /\ "hello" # "tick_response"
  OBVIOUS
<1>2. nd.up
  BY <1>1 DEF Phase, ProcessRecord
<1>3. \A i \in DOMAIN Tail(c) : i + 1 \in DOMAIN c /\ Tail(c)[i] = c[i + 1]
  OBVIOUS
<1>4. CASE p.alive
  <2>1. Attached(n, nd, p, q, c)
    BY <1>2, <1>4 DEF Phase
  <2>2. TickAt(q) = {} /\ FirstAt(q) = {} /\ p.ospf /\ p.ticks = n /\ Len(c) = 1
    BY <2>1 DEF Attached, TickQueued, FirstQueued, ProcessRecord
  <2>3. Tail(c) = <<>>
    BY <2>2, TailOfOne
  <2>4. Attached(n, nd2, p, q, Tail(c))
    BY <2>2, <2>3 DEF Attached, TickQueued, FirstQueued
  <2> QED
    BY <1>2, <1>4, <2>4 DEF Phase
<1>5. CASE ~p.alive
  BY <1>2, <1>3, <1>5 DEF Phase
<1> QED
  BY <1>2, <1>4, <1>5

LEMMA ResponseKeeps ==
    ASSUME SimInvariant, NEW r \in Router, toCtl[r] # <<>>, Head(toCtl[r]).type # "hello",
           simnode_handler_read(r)
    PROVE  SimInvariant'
<1> DEFINE m == Head(toCtl[r])
           nd == [node[r] EXCEPT !.got_tick = TRUE, !.dbstats = m.db]
<1>1. /\ node' = [node EXCEPT ![r] = nd] /\ toNode' = toNode /\ toCtl' = [toCtl EXCEPT ![r] = Tail(@)]
      /\ UNCHANGED <<n_ticks, ifmaps, process, uni_fd, starts, sent>>
  BY DEF simnode_handler_read, tick_response
<1>2. /\ n_ticks \in Nat
      /\ node \in [Router -> NodeRecord] /\ process \in [Router -> ProcessRecord]
      /\ toCtl \in [Router -> Seq(CtlMsg)]
      /\ Stamped /\ \A q \in Router : Phase(n_ticks, node[q], process[q], toNode[q], toCtl[q])
  BY DEF SimInvariant, TypeOK, InStep
<1>3. m \in CtlMsg /\ m.type = "tick_response" /\ m.db \in Db
  <2>1. m \in CtlMsg /\ m.type # "hello"
    BY <1>2
  <2> HIDE DEF m
  <2> QED
    BY <2>1 DEF CtlMsg
<1>4. nd \in NodeRecord /\ nd.got_tick /\ (nd.up <=> node[r].up)
  <2>1. node[r] \in NodeRecord /\ m.db \in Db
    BY <1>2, <1>3
  <2> HIDE DEF m
  <2> QED
    BY <2>1 DEF NodeRecord
<1> HIDE DEF nd, m
<1>5. Phase(n_ticks, nd, process[r], toNode[r], Tail(toCtl[r]))
  BY <1>2, <1>3, <1>4, ResponseRead DEF m
<1>6. InStep'
  <2> SUFFICES ASSUME NEW q \in Router
               PROVE  Phase(n_ticks, node'[q], process[q], toNode[q], toCtl'[q])
    BY <1>1 DEF InStep
  <2> QED
    BY <1>1, <1>2, <1>5
<1>7. node' \in [Router -> NodeRecord] /\ toCtl' \in [Router -> Seq(CtlMsg)]
  BY <1>1, <1>2, <1>4
<1>8. TypeOK'
  BY <1>1, <1>7 DEF SimInvariant, TypeOK
<1>9. Stamped'
  BY <1>1, <1>2, StampedStays
<1> QED
  BY <1>6, <1>8, <1>9 DEF SimInvariant

LEMMA DeleteKeeps ==
    ASSUME SimInvariant, NEW r \in Router, delete_router(r)
    PROVE  SimInvariant'
<1> DEFINE gone == [node EXCEPT ![r].port = 0]
           c2 == send_addrmap_increment(toNode, gone, r)
<1>1. /\ node' = [node EXCEPT ![r] = NoNode] /\ toNode' = [c2 EXCEPT ![r] = <<>>]
      /\ toCtl' = [toCtl EXCEPT ![r] = <<>>] /\ node[r].up /\ ~process[r].alive
      /\ UNCHANGED <<n_ticks, ifmaps, process, uni_fd, starts, sent>>
  BY DEF delete_router, Withdraw
<1>2. /\ n_ticks \in Nat /\ ifmaps \subseteq ToSet(Owners)
      /\ node \in [Router -> NodeRecord] /\ process \in [Router -> ProcessRecord]
      /\ toNode \in [Router -> Seq(NodeMsg)] /\ toCtl \in [Router -> Seq(CtlMsg)]
      /\ Stamped /\ \A q \in Router : Phase(n_ticks, node[q], process[q], toNode[q], toCtl[q])
  BY DEF SimInvariant, TypeOK, InStep
<1>3. gone \in [Router -> NodeRecord] /\ \A q \in Router : gone[q].up <=> node[q].up
  BY <1>2 DEF NodeRecord
<1> HIDE DEF gone
<1>4. Mapped(toNode, c2, {q \in Router \ {r} : gone[q].up})
  BY <1>2, <1>3, AddrMapSent
<1> HIDE DEF c2
<1>5. c2 \in [Router -> Seq(NodeMsg)]
  BY <1>4 DEF Mapped
<1>6. NoNode \in NodeRecord /\ ~NoNode.up
  BY DEF NoNode, NodeRecord
<1>7. ASSUME NEW q \in Router
      PROVE  Phase(n_ticks, node'[q], process[q], toNode'[q], toCtl'[q])
  <2>1. CASE q = r
    <3>1. node'[q] = NoNode /\ toNode'[q] = <<>> /\ toCtl'[q] = <<>>
      BY <1>1, <1>2, <1>5, <2>1
    <3>2. ~process[q].alive /\ ~process[q].ospf /\ process[q].ticks = 0
      BY <1>1, <1>2, <2>1 DEF Phase
    <3> QED
      BY <1>6, <3>1, <3>2 DEF Phase
  <2>2. CASE q # r
    <3>1. q \in {x \in Router \ {r} : gone[x].up} => node[q].up
      BY <1>3
    <3>2. Phase(n_ticks, node[q], process[q], c2[q], toCtl[q])
      BY <1>2, <1>4, <3>1, MappedKeepsPhase
    <3> QED
      BY <1>1, <1>2, <1>5, <2>2, <3>2
  <2> QED
    BY <2>1, <2>2
<1>8. <<>> \in Seq(NodeMsg) /\ <<>> \in Seq(CtlMsg)
  OBVIOUS
<1>9. /\ node' \in [Router -> NodeRecord] /\ toNode' \in [Router -> Seq(NodeMsg)]
      /\ toCtl' \in [Router -> Seq(CtlMsg)]
  BY <1>1, <1>2, <1>5, <1>6, <1>8
<1>10. TypeOK'
  BY <1>1, <1>9 DEF SimInvariant, TypeOK
<1>11. Stamped'
  BY <1>1, <1>2, StampedStays
<1> QED
  BY <1>1, <1>7, <1>10, <1>11 DEF SimInvariant, InStep

LEMMA TickKeeps ==
    ASSUME SimInvariant, tick
    PROVE  SimInvariant'
<1> DEFINE m == [type |-> "tick", tick |-> n_ticks + 1]
<1>1. /\ n_ticks' = n_ticks + 1 /\ node' = TickSent(node) /\ toNode' = Put(toNode, Up, m)
      /\ UNCHANGED <<ifmaps, stats, process, toCtl, uni_fd, starts, sent>>
      /\ \A r \in Router : node[r].up => node[r].got_tick
  BY DEF tick, Up
<1>2. /\ n_ticks \in Nat
      /\ node \in [Router -> NodeRecord] /\ process \in [Router -> ProcessRecord]
      /\ toNode \in [Router -> Seq(NodeMsg)]
      /\ Stamped /\ \A q \in Router : Phase(n_ticks, node[q], process[q], toNode[q], toCtl[q])
  BY DEF SimInvariant, TypeOK, InStep
<1>3. m \in NodeMsg /\ m.type = "tick" /\ m.tick = n_ticks + 1
  BY <1>2 DEF NodeMsg, TickMsg
<1> HIDE DEF m
<1>4. /\ toNode' \in [Router -> Seq(NodeMsg)]
      /\ \A r \in Router : toNode'[r] = IF r \in Up THEN Append(toNode[r], m) ELSE toNode[r]
  BY <1>1, <1>2, <1>3, PutType
<1>5. /\ node' \in [Router -> NodeRecord]
      /\ \A r \in Router : node[r].up => node'[r].up /\ ~node'[r].got_tick
      /\ \A r \in Router : ~node[r].up => node'[r] = node[r]
  BY <1>1, <1>2 DEF TickSent, NodeRecord
<1>6. ASSUME NEW r \in Router
      PROVE  Phase(n_ticks', node'[r], process[r], toNode'[r], toCtl[r])
  <2>1. CASE node[r].up
    <3>1. toNode'[r] = Append(toNode[r], m)
      BY <1>4, <2>1 DEF Up
    <3>2. node'[r].up /\ ~node'[r].got_tick /\ node[r].got_tick
      BY <1>1, <1>5, <2>1
    <3>3. process[r] \in ProcessRecord /\ toNode[r] \in Seq(NodeMsg)
      BY <1>2
    <3>4. Phase(n_ticks + 1, node'[r], process[r], Append(toNode[r], m), toCtl[r])
      BY <1>2, <1>3, <2>1, <3>2, <3>3, TickKeepsPhase
    <3> QED
      BY <1>1, <3>1, <3>4
  <2>2. CASE ~node[r].up
    <3>1. toNode'[r] = toNode[r] /\ node'[r] = node[r]
      BY <1>4, <1>5, <2>2 DEF Up
    <3> QED
      BY <1>2, <2>2, <3>1 DEF Phase
  <2> QED
    BY <2>1, <2>2
<1>7. TypeOK'
  BY <1>1, <1>2, <1>4, <1>5 DEF SimInvariant, TypeOK
<1>8. Stamped'
  <2> DEFINE S == SentStamp(n_ticks)
             S2 == SentStamp(n_ticks + 1)
             H == HeldStamp(n_ticks)
             H2 == HeldStamp(n_ticks + 1)
  <2>1. S \subseteq S2 /\ H \subseteq H2
    BY <1>2, StampsGrow
  <2>2. uni_fd \in [Router -> Seq(S)] /\ \A r \in Router : process[r].rcvq \in Seq(H)
    BY <1>2 DEF Stamped
  <2> HIDE DEF S, S2, H, H2
  <2>3. \A s \in Seq(S) : s \in Seq(S2)
    BY <2>1
  <2>4. \A s \in Seq(H) : s \in Seq(H2)
    BY <2>1
  <2>5. uni_fd \in [Router -> Seq(S2)] /\ \A r \in Router : process[r].rcvq \in Seq(H2)
    BY <2>2, <2>3, <2>4
  <2> QED
    BY <1>1, <2>5 DEF Stamped, S2, H2, SentStamp, HeldStamp
<1> QED
  BY <1>1, <1>6, <1>7, <1>8 DEF SimInvariant, InStep

\* The next address of main().
LEMMA NextOwner ==
    ASSUME ifmaps \subseteq ToSet(Owners), Cardinality(ifmaps) + 1 <= Len(Owners)
    PROVE  Owners[Cardinality(ifmaps) + 1] \in ToSet(Owners)
<1>1. Owners \in Seq(STRING \X Router)
  BY SimulatorAssumption DEF SimulatorAssumption
<1>2. IsFiniteSet(ToSet(Owners))
  <2>1. IsFiniteSet(1..Len(Owners))
    BY <1>1, FS_Interval
  <2>2. Owners \in Surjection(1..Len(Owners), ToSet(Owners))
    BY <1>1 DEF ToSet, Surjection
  <2> QED
    BY <2>1, <2>2, FS_Surjection
<1>3. Cardinality(ifmaps) \in Nat
  BY <1>2, FS_Subset, FS_CardinalityType
<1> QED
  BY <1>1, <1>3 DEF ToSet

LEMMA StoreKeeps ==
    ASSUME SimInvariant, store_mapping
    PROVE  SimInvariant'
<1> DEFINE n == Cardinality(ifmaps) + 1
           o == Owners[n]
           m == [type |-> "addrmap", maps |-> MapsOf({o}, node)]
<1>1. /\ n <= Len(Owners) /\ ifmaps' = ifmaps \cup {o} /\ toNode' = Put(toNode, Up, m)
      /\ UNCHANGED <<n_ticks, node, stats, process, toCtl, uni_fd, starts, sent>>
  BY DEF store_mapping
<1>2. /\ n_ticks \in Nat /\ ifmaps \subseteq ToSet(Owners) /\ node \in [Router -> NodeRecord]
      /\ toNode \in [Router -> Seq(NodeMsg)]
      /\ Stamped /\ \A q \in Router : Phase(n_ticks, node[q], process[q], toNode[q], toCtl[q])
  BY DEF SimInvariant, TypeOK, InStep
<1>3. o \in ToSet(Owners)
  BY <1>1, <1>2, NextOwner
<1> HIDE DEF o
<1>4. {o} \in SUBSET ToSet(Owners)
  BY <1>3
<1>5. m \in MapMsg
  BY <1>2, <1>4, MapsType
<1> HIDE DEF m
<1>6. Mapped(toNode, toNode', Up)
  BY <1>1, <1>2, <1>5, PutMap
<1>7. ASSUME NEW r \in Router
      PROVE  Phase(n_ticks, node[r], process[r], toNode'[r], toCtl[r])
  <2>1. r \in Up => node[r].up
    BY DEF Up
  <2> QED
    BY <1>2, <1>6, <2>1, MappedKeepsPhase
<1>8. ifmaps' \subseteq ToSet(Owners) /\ toNode' \in [Router -> Seq(NodeMsg)]
  BY <1>1, <1>2, <1>3, <1>6 DEF Mapped
<1>9. TypeOK'
  BY <1>1, <1>8 DEF SimInvariant, TypeOK
<1>10. Stamped'
  BY <1>1, <1>2, StampedStays
<1> QED
  BY <1>1, <1>7, <1>9, <1>10 DEF SimInvariant, InStep

LEMMA StartKeeps ==
    ASSUME SimInvariant, NEW r \in Router, Start(r)
    PROVE  SimInvariant'
<1> DEFINE p == [NoProcess EXCEPT !.alive = TRUE, !.port = starts + 1]
           m == [type |-> "hello", myport |-> starts + 1]
<1>1. /\ ~process[r].alive /\ ~node[r].up /\ toCtl[r] = <<>> /\ starts' = starts + 1
      /\ process' = [process EXCEPT ![r] = p] /\ toCtl' = Put(toCtl, {r}, m)
      /\ UNCHANGED <<n_ticks, ifmaps, node, stats, toNode, uni_fd, sent>>
  BY DEF Start
<1>2. /\ n_ticks \in Nat /\ starts \in Nat
      /\ process \in [Router -> ProcessRecord] /\ toCtl \in [Router -> Seq(CtlMsg)]
      /\ Stamped /\ \A q \in Router : Phase(n_ticks, node[q], process[q], toNode[q], toCtl[q])
  BY DEF SimInvariant, TypeOK, InStep
<1>3. m \in CtlMsg /\ m.type = "hello"
  BY <1>2 DEF CtlMsg
<1>4. p \in ProcessRecord /\ p.alive /\ ~p.ospf /\ p.ticks = 0 /\ p.rcvq = <<>>
  <2> DEFINE x == NoProcess
             y == [x EXCEPT !.alive = TRUE]
             z == [y EXCEPT !.port = starts + 1]
  <2>1. x \in ProcessRecord /\ ~x.ospf /\ x.ticks = 0 /\ x.rcvq = <<>>
    BY DEF NoProcess, ProcessRecord
  <2> HIDE DEF x
  <2>2. y \in ProcessRecord /\ y.alive /\ ~y.ospf /\ y.ticks = 0 /\ y.rcvq = <<>>
    BY <2>1 DEF ProcessRecord
  <2> HIDE DEF y
  <2>3. /\ z \in ProcessRecord /\ (z.alive <=> y.alive) /\ (z.ospf <=> y.ospf)
        /\ z.ticks = y.ticks /\ z.rcvq = y.rcvq
    <3>1. starts + 1 \in Nat
      BY <1>2
    <3> QED
      BY <2>2, <3>1 DEF ProcessRecord
  <2>4. z = p
    BY DEF x, y
  <2> HIDE DEF p, z
  <2> QED
    BY <2>2, <2>3, <2>4
<1> HIDE DEF p, m
<1>5. /\ toCtl' \in [Router -> Seq(CtlMsg)]
      /\ \A q \in Router : toCtl'[q] = IF q \in {r} THEN Append(toCtl[q], m) ELSE toCtl[q]
  BY <1>1, <1>2, <1>3, PutType
<1>6. ASSUME NEW q \in Router
      PROVE  Phase(n_ticks, node[q], process'[q], toNode[q], toCtl'[q])
  <2>1. CASE q = r
    <3>1. process'[q] = p
      BY <1>1, <1>2, <2>1
    <3>2. toCtl'[q] = Append(<<>>, m)
      BY <1>1, <1>5, <2>1
    <3>3. toCtl'[q] # <<>> /\ Len(toCtl'[q]) = 1 /\ toCtl'[q][1] = m
      BY <3>2
    <3> QED
      BY <1>1, <1>2, <1>3, <1>4, <2>1, <3>1, <3>3 DEF Phase
  <2>2. CASE q # r
    BY <1>1, <1>2, <1>5, <2>2
  <2> QED
    BY <2>1, <2>2
<1>7. process' \in [Router -> ProcessRecord] /\ starts' \in Nat
  BY <1>1, <1>2, <1>4
<1>8. TypeOK'
  BY <1>1, <1>5, <1>7 DEF SimInvariant, TypeOK
<1>9. Stamped'
  <2>1. <<>> \in Seq(HeldStamp(n_ticks))
    OBVIOUS
  <2>2. \A q \in Router : process'[q].rcvq \in Seq(HeldStamp(n_ticks))
    BY <1>1, <1>2, <1>4, <2>1 DEF Stamped
  <2> QED
    BY <1>1, <1>2, <2>2 DEF Stamped, SentStamp, HeldStamp
<1> QED
  BY <1>1, <1>6, <1>8, <1>9 DEF SimInvariant, InStep

LEMMA CrashKeeps ==
    ASSUME SimInvariant, NEW r \in Router, Crash(r)
    PROVE  SimInvariant'
<1>1. /\ process[r].alive /\ node[r].up
      /\ process' = [process EXCEPT ![r] = NoProcess] /\ uni_fd' = [uni_fd EXCEPT ![r] = <<>>]
      /\ UNCHANGED <<n_ticks, ifmaps, node, stats, toNode, toCtl, starts, sent>>
  BY DEF Crash
<1>2. /\ process \in [Router -> ProcessRecord] /\ uni_fd \in [Router -> Seq(Nat)]
      /\ toCtl \in [Router -> Seq(CtlMsg)]
      /\ Stamped /\ \A q \in Router : Phase(n_ticks, node[q], process[q], toNode[q], toCtl[q])
  BY DEF SimInvariant, TypeOK, InStep
<1>3. NoProcess \in ProcessRecord /\ ~NoProcess.alive /\ ~NoProcess.ospf /\ NoProcess.ticks = 0
      /\ NoProcess.rcvq = <<>>
  BY DEF NoProcess, ProcessRecord
<1>4. ASSUME NEW q \in Router
      PROVE  Phase(n_ticks, node[q], process'[q], toNode[q], toCtl[q])
  <2>1. CASE q = r
    <3>1. process'[q] = NoProcess
      BY <1>1, <1>2, <2>1
    <3>2. Attached(n_ticks, node[q], process[q], toNode[q], toCtl[q])
      BY <1>1, <1>2, <2>1 DEF Phase
    <3>3. \A i \in DOMAIN toCtl[q] : toCtl[q][i].type = "tick_response"
      <4>1. toCtl[q] \in Seq(CtlMsg)
        BY <1>2
      <4>2. toCtl[q] # <<>> => Len(toCtl[q]) = 1 /\ toCtl[q][1].type = "tick_response"
        BY <3>2 DEF Attached
      <4>3. CASE toCtl[q] = <<>>
        BY <4>3
      <4>4. CASE toCtl[q] # <<>>
        <5>1. \A i \in DOMAIN toCtl[q] : i = 1
          BY <4>1, <4>2, <4>4
        <5> QED
          BY <4>2, <4>4, <5>1
      <4> QED
        BY <4>3, <4>4
    <3> QED
      BY <1>1, <1>3, <2>1, <3>1, <3>3 DEF Phase
  <2>2. CASE q # r
    BY <1>1, <1>2, <2>2
  <2> QED
    BY <2>1, <2>2
<1>5. \A S : <<>> \in Seq(S)
  OBVIOUS
<1>6. process' \in [Router -> ProcessRecord] /\ uni_fd' \in [Router -> Seq(Nat)]
  BY <1>1, <1>2, <1>3, <1>5
<1>7. TypeOK'
  BY <1>1, <1>6 DEF SimInvariant, TypeOK
<1>8. Stamped'
  <2>1. \A q \in Router : process'[q].rcvq \in Seq(HeldStamp(n_ticks))
    BY <1>1, <1>2, <1>3, <1>5 DEF Stamped
  <2>2. uni_fd' \in [Router -> Seq(SentStamp(n_ticks))]
    BY <1>1, <1>2, <1>5 DEF Stamped
  <2> QED
    BY <1>1, <2>1, <2>2 DEF Stamped, SentStamp, HeldStamp
<1> QED
  BY <1>1, <1>4, <1>7, <1>8 DEF SimInvariant, InStep

\* A phase is about a process's being there, its OSPF and its time, and no other part of it.
LEMMA PhaseOfProcess ==
    ASSUME NEW n, NEW nd, NEW p, NEW q, NEW c, Phase(n, nd, p, q, c),
           NEW p2, p2.alive <=> p.alive, p2.ospf <=> p.ospf, p2.ticks = p.ticks
    PROVE  Phase(n, nd, p2, q, c)
<1>1. FirstQueued(n, nd, p, q, c) => FirstQueued(n, nd, p2, q, c)
  BY DEF FirstQueued
<1>2. Attached(n, nd, p, q, c) => Attached(n, nd, p2, q, c)
  BY <1>1 DEF Attached
<1> QED
  BY <1>2 DEF Phase

\* No router is ahead of the controller.
LEMMA NotAhead ==
    ASSUME NEW n \in Nat, NEW nd \in NodeRecord, NEW p \in ProcessRecord, NEW q, NEW c,
           Phase(n, nd, p, q, c)
    PROVE  p.ticks <= n
<1>1. CASE p.ospf
  <2>1. Attached(n, nd, p, q, c)
    BY <1>1 DEF Phase, NodeRecord, ProcessRecord
  <2> QED
    BY <1>1, <2>1 DEF Attached
<1>2. CASE ~p.ospf
  BY <1>2 DEF Phase
<1> QED
  BY <1>1, <1>2

LEMMA UnitsGrow ==
    ASSUME NEW k \in Nat, NEW n \in Nat, k <= n
    PROVE  Units * (k + 1) <= Units * (n + 1) /\ Units * n < Units * (n + 1)
           /\ Units * n \in Nat /\ Units * (n + 1) \in Nat /\ Units * (k + 1) \in Nat
<1>1. Units \in Nat /\ Units > 0
  BY SimulatorAssumption DEF SimulatorAssumption
<1>2. PICK d \in Nat : n = k + d
  <2>1. n - k \in Nat /\ n = k + (n - k)
    OBVIOUS
  <2> QED
    BY <2>1
<1>3. Units * (n + 1) = Units * (k + 1) + Units * d /\ Units * (n + 1) = Units * n + Units
  BY <1>1, <1>2
<1>4. Units * d \in Nat /\ Units * n \in Nat /\ Units * (k + 1) \in Nat
  BY <1>1
<1> DEFINE a == Units * (n + 1)
           b == Units * (k + 1)
           e == Units * d
           f == Units * n
<1>5. a = b + e /\ a = f + Units /\ e \in Nat /\ f \in Nat /\ b \in Nat
  BY <1>3, <1>4
<1> HIDE DEF a, b, e, f
<1>6. b <= a /\ f < a /\ a \in Nat
  BY <1>1, <1>5
<1> QED
  BY <1>5, <1>6 DEF a, b, f

LEMMA PacketKeeps ==
    ASSUME SimInvariant, NEW r \in Router, process_uni_fd(r)
    PROVE  SimInvariant'
<1> DEFINE n == n_ticks
           ts == Head(uni_fd[r]) + 1
           rest == [uni_fd EXCEPT ![r] = Tail(@)]
           S == SentStamp(n)
           H == HeldStamp(n)
<1>1. /\ uni_fd[r] # <<>>
      /\ UNCHANGED <<n_ticks, ifmaps, node, stats, toNode, toCtl, starts>>
      /\ \/ /\ Later(ts, process[r].ticks)
            /\ process' = [process EXCEPT ![r].rcvq = Append(@, ts)] /\ uni_fd' = rest
         \/ /\ ~Later(ts, process[r].ticks)
            /\ process' = process /\ \E f : uni_fd' = Answers(rest, r, <<ts>>, f)
  BY DEF process_uni_fd
<1>2. /\ n \in Nat /\ node \in [Router -> NodeRecord] /\ process \in [Router -> ProcessRecord]
      /\ uni_fd \in [Router -> Seq(S)] /\ \A q \in Router : process[q].rcvq \in Seq(H)
      /\ \A q \in Router : Phase(n, node[q], process[q], toNode[q], toCtl[q])
  BY DEF SimInvariant, TypeOK, InStep, Stamped
<1>3. Head(uni_fd[r]) \in S
  BY <1>1, <1>2
<1>4. ts \in H /\ ts \in Nat
  BY <1>2, <1>3, UnitsGrow DEF SentStamp, HeldStamp
<1>5. rest \in [Router -> Seq(S)]
  BY <1>1, <1>2
<1>6. S \subseteq Nat /\ H \subseteq Nat
  BY DEF SentStamp, HeldStamp
<1> HIDE DEF ts, rest, H
<1>7. CASE Later(ts, process[r].ticks) /\ process' = [process EXCEPT ![r].rcvq = Append(@, ts)]
           /\ uni_fd' = rest
  <2> DEFINE p == [process[r] EXCEPT !.rcvq = Append(process[r].rcvq, ts)]
  <2>1. process' = [process EXCEPT ![r] = p]
    BY <1>7
  <2>2. Append(process[r].rcvq, ts) \in Seq(H) /\ Append(process[r].rcvq, ts) \in Seq(Nat)
    <3>1. process[r].rcvq \in Seq(H)
      BY <1>2
    <3>2. Append(process[r].rcvq, ts) \in Seq(H)
      BY <1>4, <3>1
    <3> QED
      BY <1>6, <3>2, SequenceOfMore
  <2>3. /\ p \in ProcessRecord /\ (p.alive <=> process[r].alive) /\ (p.ospf <=> process[r].ospf)
        /\ p.ticks = process[r].ticks /\ p.rcvq \in Seq(H)
    <3>1. process[r] \in ProcessRecord
      BY <1>2
    <3> QED
      BY <2>2, <3>1 DEF ProcessRecord
  <2> HIDE DEF p
  <2>4. /\ process' \in [Router -> ProcessRecord]
        /\ \A q \in Router : process'[q] = IF q = r THEN p ELSE process[q]
    BY <1>2, <2>1, <2>3
  <2>5. ASSUME NEW q \in Router
        PROVE  Phase(n, node[q], process'[q], toNode[q], toCtl[q])
    BY <1>2, <2>3, <2>4, PhaseOfProcess
  <2>6. \A q \in Router : process'[q].rcvq \in Seq(H)
    BY <1>2, <2>3, <2>4
  <2>7. uni_fd' \in [Router -> Seq(S)] /\ uni_fd' \in [Router -> Seq(Nat)]
    BY <1>5, <1>6, <1>7
  <2>8. TypeOK'
    BY <1>1, <2>4, <2>7 DEF SimInvariant, TypeOK
  <2>9. Stamped'
    BY <1>1, <2>6, <2>7 DEF Stamped, SentStamp, HeldStamp, H
  <2> QED
    BY <1>1, <2>5, <2>8, <2>9 DEF SimInvariant, InStep
<1>8. ASSUME NEW f, ~Later(ts, process[r].ticks), process' = process,
             uni_fd' = Answers(rest, r, <<ts>>, f)
      PROVE  SimInvariant'
  <2>1. process[r].ticks \in Nat /\ process[r].ticks <= n
    <3>1. node[r] \in NodeRecord /\ process[r] \in ProcessRecord
          /\ Phase(n, node[r], process[r], toNode[r], toCtl[r])
      BY <1>2
    <3> HIDE DEF n
    <3>2. process[r].ticks <= n
      BY <1>2, <3>1, NotAhead
    <3> QED
      BY <3>1, <3>2 DEF ProcessRecord
  <2>2. ts \in S
    <3>1. /\ Units * (process[r].ticks + 1) <= Units * (n + 1)
          /\ Units * (n + 1) \in Nat /\ Units * (process[r].ticks + 1) \in Nat
      BY <1>2, <2>1, UnitsGrow
    <3>2. ts < Units * (process[r].ticks + 1)
      BY <1>4, <1>8, <3>1 DEF Later
    <3> QED
      BY <1>4, <3>1, <3>2 DEF SentStamp
  <2> HIDE DEF S
  <2>3. <<ts>> \in Seq(S)
    BY <2>2
  <2>4. uni_fd' \in [Router -> Seq(S)]
    BY <1>5, <1>8, <2>3, AnswersType
  <2>5. uni_fd' \in [Router -> Seq(Nat)]
    <3>1. \A s \in Seq(S) : s \in Seq(Nat)
      BY <1>6, SequenceOfMore
    <3> QED
      BY <2>4, <3>1
  <2>6. TypeOK'
    BY <1>1, <1>8, <2>5 DEF SimInvariant, TypeOK
  <2>7. Stamped'
    BY <1>1, <1>2, <1>8, <2>4 DEF Stamped, SentStamp, HeldStamp, S, H
  <2> QED
    BY <1>1, <1>2, <1>8, <2>6, <2>7 DEF SimInvariant, InStep
<1> QED
  BY <1>1, <1>7, <1>8

\* Changing one process and reading its queue, with perhaps an answer: what is left to show.
LEMMA CommandFrame ==
    ASSUME SimInvariant, NEW r \in Router, toNode[r] # <<>>,
           NEW p \in ProcessRecord, p.rcvq \in Seq(HeldStamp(n_ticks)),
           NEW c \in [Router -> Seq(CtlMsg)], \A q \in Router \ {r} : c[q] = toCtl[q],
           Phase(n_ticks, node[r], p, Tail(toNode[r]), c[r]),
           process' = [process EXCEPT ![r] = p], toCtl' = c,
           toNode' = [toNode EXCEPT ![r] = Tail(@)],
           uni_fd' \in [Router -> Seq(SentStamp(n_ticks))],
           UNCHANGED <<n_ticks, ifmaps, node, starts>>
    PROVE  SimInvariant'
<1>1. /\ n_ticks \in Nat /\ process \in [Router -> ProcessRecord]
      /\ toNode \in [Router -> Seq(NodeMsg)] /\ \A q \in Router : process[q].rcvq \in Seq(HeldStamp(n_ticks))
      /\ \A q \in Router : Phase(n_ticks, node[q], process[q], toNode[q], toCtl[q])
  BY DEF SimInvariant, TypeOK, InStep, Stamped
<1>2. Tail(toNode[r]) \in Seq(NodeMsg)
  BY <1>1
<1>3. /\ process' \in [Router -> ProcessRecord] /\ toNode' \in [Router -> Seq(NodeMsg)]
      /\ process'[r] = p /\ \A q \in Router \ {r} : process'[q] = process[q]
      /\ toNode'[r] = Tail(toNode[r]) /\ \A q \in Router \ {r} : toNode'[q] = toNode[q]
  BY <1>1, <1>2
<1>4. ASSUME NEW q \in Router
      PROVE  Phase(n_ticks, node[q], process'[q], toNode'[q], toCtl'[q])
  BY <1>1, <1>3
<1>5. \A q \in Router : process'[q].rcvq \in Seq(HeldStamp(n_ticks))
  BY <1>1, <1>3
<1>6. Stamped'
  BY <1>5 DEF Stamped, SentStamp, HeldStamp
<1>7. uni_fd' \in [Router -> Seq(Nat)]
  <2> DEFINE S == SentStamp(n_ticks)
  <2>1. S \subseteq Nat
    BY DEF SentStamp
  <2> HIDE DEF S
  <2>2. \A s \in Seq(S) : s \in Seq(Nat)
    BY <2>1, SequenceOfMore
  <2> QED
    BY <2>2 DEF S
<1>8. TypeOK'
  BY <1>3, <1>7 DEF SimInvariant, TypeOK
<1> QED
  BY <1>4, <1>6, <1>8 DEF SimInvariant, InStep

LEMMA SimTickKeeps ==
    ASSUME SimInvariant, NEW r \in Router, process[r].alive, toNode[r] # <<>>,
           Head(toNode[r]).type = "tick", SimTick(r, Head(toNode[r])),
           toNode' = [toNode EXCEPT ![r] = Tail(@)],
           UNCHANGED <<n_ticks, ifmaps, node, stats, starts>>
    PROVE  SimInvariant'
<1> DEFINE n == n_ticks
           m == Head(toNode[r])
           q == process[r].rcvq
           H == HeldStamp(n)
           S == SentStamp(n)
           later == {ts \in ToSet(q) : Later(ts, m.tick)}
           due == Keep(q, ToSet(q) \ later)
           stamps == <<Units * m.tick>> \o due
           p1 == [process[r] EXCEPT !.ticks = m.tick]
           p == [p1 EXCEPT !.rcvq = Keep(q, later)]
           a(db) == [type |-> "tick_response", db |-> db]
<1>1. PICK db \in Db : /\ \E f : uni_fd' = Answers(uni_fd, r, stamps, f)
                       /\ process' = [process EXCEPT ![r] = p]
                       /\ toCtl' = Put(toCtl, {r}, a(db))
  <2>1. PICK f \in Sends(r, Len(due) + 1) :
          /\ uni_fd' = Answers(uni_fd, r, stamps, f)
          /\ process' = [process EXCEPT ![r].ticks = m.tick, ![r].rcvq = Keep(q, later)]
          /\ \E db \in Db : toCtl' = Put(toCtl, {r}, a(db))
    BY DEF SimTick
  <2>2. [process EXCEPT ![r].ticks = m.tick, ![r].rcvq = Keep(q, later)] = [process EXCEPT ![r] = p]
    <3>1. process \in [Router -> ProcessRecord]
      BY DEF SimInvariant, TypeOK
    <3> DEFINE kept == Keep(q, later)
    <3> HIDE DEF kept, m
    <3>2. [process EXCEPT ![r].ticks = m.tick, ![r].rcvq = kept]
             = [process EXCEPT ![r] = [[process[r] EXCEPT !.ticks = m.tick] EXCEPT !.rcvq = kept]]
      BY <3>1
    <3> QED
      BY <3>2 DEF kept
  <2> HIDE DEF p, stamps, a
  <2> QED
    BY <2>1, <2>2
<1>2. /\ n \in Nat /\ node[r] \in NodeRecord /\ process[r] \in ProcessRecord
      /\ toNode[r] \in Seq(NodeMsg) /\ toCtl \in [Router -> Seq(CtlMsg)] /\ toCtl[r] \in Seq(CtlMsg)
      /\ uni_fd \in [Router -> Seq(S)] /\ q \in Seq(H)
      /\ Phase(n, node[r], process[r], toNode[r], toCtl[r])
  BY DEF SimInvariant, TypeOK, InStep, Stamped
<1>3. /\ process[r].ospf /\ m.tick = n
      /\ \A p2, x : p2.alive /\ p2.ospf /\ p2.ticks = n /\ x.type = "tick_response"
                      => Phase(n, node[r], p2, Tail(toNode[r]), Append(toCtl[r], x))
  <2> HIDE DEF n
  <2> QED
    BY <1>2, TickRead
<1>4. Keep(q, later) \in Seq(H) /\ Keep(q, later) \in Seq(Nat)
  <2>1. Keep(q, later) \in Seq(H \cap later)
    <3> HIDE DEF q, later, H
    <3> QED
      BY <1>2, KeepIsSequence
  <2>2. H \cap later \subseteq H /\ H \cap later \subseteq Nat
    BY DEF HeldStamp
  <2> HIDE DEF q, later, H
  <2> QED
    BY <2>1, <2>2, SequenceOfMore
<1>5. due \in Seq(S)
  <2>1. due \in Seq(H \cap (ToSet(q) \ later))
    <3> HIDE DEF q, later, H
    <3> QED
      BY <1>2, KeepIsSequence
  <2>2. H \cap (ToSet(q) \ later) \subseteq S
    <3>1. Units * (n + 1) \in Nat
      BY <1>2, UnitsGrow
    <3> SUFFICES ASSUME NEW ts \in H, ts \in ToSet(q), ~Later(ts, n)
                 PROVE  ts \in S
      BY <1>3
    <3> QED
      BY <3>1 DEF Later, HeldStamp, SentStamp
  <2> HIDE DEF due, q, later, H, S
  <2> QED
    BY <2>1, <2>2, SequenceOfMore
<1>6. stamps \in Seq(S)
  <2>1. Units * m.tick \in S
    <3>1. Units * n \in Nat /\ Units * n < Units * (n + 1)
      BY <1>2, UnitsGrow
    <3>2. Units * n \in S
      BY <3>1 DEF SentStamp
    <3> QED
      BY <1>3, <3>2
  <2> HIDE DEF due, S, m
  <2>2. <<Units * m.tick>> \in Seq(S)
    BY <2>1
  <2> QED
    BY <1>5, <2>2
<1>7. uni_fd' \in [Router -> Seq(S)]
  <2> HIDE DEF S, stamps
  <2>1. PICK f : uni_fd' = Answers(uni_fd, r, stamps, f)
    BY <1>1
  <2>2. uni_fd \in [Router -> Seq(S)]
    BY <1>2
  <2> QED
    BY <1>6, <2>1, <2>2, AnswersType
<1>8. p \in ProcessRecord /\ p.alive /\ p.ospf /\ p.ticks = n /\ p.rcvq = Keep(q, later)
  <2> HIDE DEF q, later, m, n
  <2>1. /\ p1 \in ProcessRecord /\ p1.ticks = n
        /\ (p1.alive <=> process[r].alive) /\ (p1.ospf <=> process[r].ospf)
    BY <1>2, <1>3 DEF ProcessRecord
  <2> DEFINE kept == Keep(q, later)
  <2>2. kept \in Seq(Nat)
    BY <1>4
  <2> HIDE DEF p1, kept
  <2> DEFINE p2 == [p1 EXCEPT !.rcvq = kept]
  <2>3. /\ p2 \in ProcessRecord /\ p2.ticks = p1.ticks /\ p2.rcvq = kept
        /\ (p2.alive <=> p1.alive) /\ (p2.ospf <=> p1.ospf)
    BY <2>1, <2>2 DEF ProcessRecord
  <2>4. p2 = p
    BY DEF kept
  <2> HIDE DEF p2, p
  <2> QED
    BY <1>3, <2>1, <2>3, <2>4 DEF kept
<1> DEFINE answer == a(db)
<1>9. answer \in CtlMsg /\ answer.type = "tick_response"
  BY DEF CtlMsg
<1> HIDE DEF answer
<1>10. toCtl' = Put(toCtl, {r}, answer)
  BY <1>1 DEF answer
<1>11. /\ toCtl' \in [Router -> Seq(CtlMsg)]
       /\ \A x \in Router : toCtl'[x] = IF x \in {r} THEN Append(toCtl[x], answer) ELSE toCtl[x]
  <2> DEFINE c == Put(toCtl, {r}, answer)
  <2>1. /\ c \in [Router -> Seq(CtlMsg)]
        /\ \A x \in Router : c[x] = IF x \in {r} THEN Append(toCtl[x], answer) ELSE toCtl[x]
    <3>1. toCtl \in [Router -> Seq(CtlMsg)] /\ answer \in CtlMsg
      BY <1>2, <1>9
    <3> QED
      BY <3>1, PutType
  <2> HIDE DEF c
  <2>2. toCtl' = c
    BY <1>10 DEF c
  <2> QED
    BY <2>1, <2>2
<1>12. /\ toCtl'[r] = Append(toCtl[r], answer)
       /\ \A x \in Router \ {r} : toCtl'[x] = toCtl[x]
  BY <1>11
<1> HIDE DEF p
<1>13. Phase(n, node[r], p, Tail(toNode[r]), toCtl'[r])
  BY <1>3, <1>8, <1>9, <1>12
<1>14. p.rcvq \in Seq(H)
  BY <1>4, <1>8
<1> QED
  BY <1>1, <1>7, <1>8, <1>11, <1>12, <1>13, <1>14, CommandFrame

LEMMA CommandKeeps ==
    ASSUME SimInvariant, NEW r \in Router, recv_ctl_command(r)
    PROVE  SimInvariant'
<1> DEFINE m == Head(toNode[r])
<1>1. /\ process[r].alive /\ toNode[r] # <<>>
      /\ toNode' = [toNode EXCEPT ![r] = Tail(@)]
      /\ UNCHANGED <<n_ticks, ifmaps, node, stats, starts>>
  BY DEF recv_ctl_command
<1>2. /\ n_ticks \in Nat /\ node[r] \in NodeRecord /\ process[r] \in ProcessRecord
      /\ toNode[r] \in Seq(NodeMsg) /\ toCtl \in [Router -> Seq(CtlMsg)]
      /\ uni_fd \in [Router -> Seq(SentStamp(n_ticks))]
      /\ process[r].rcvq \in Seq(HeldStamp(n_ticks))
      /\ Phase(n_ticks, node[r], process[r], toNode[r], toCtl[r])
  BY DEF SimInvariant, TypeOK, InStep, Stamped
<1>3. m \in NodeMsg
  BY <1>1, <1>2
<1>4. CASE m.type = "first_tick"
  <2> DEFINE p1 == [process[r] EXCEPT !.ticks = m.tick]
             p == [p1 EXCEPT !.ospf = TRUE]
  <2>1. process' = [process EXCEPT ![r] = p] /\ uni_fd' = uni_fd /\ toCtl' = toCtl
    BY <1>4 DEF recv_ctl_command
  <2>2. m.tick \in Nat
    <3> HIDE DEF m
    <3> QED
      BY <1>3, <1>4 DEF NodeMsg, TickMsg, MapMsg
  <2>3. p \in ProcessRecord /\ p.alive /\ p.ospf /\ p.ticks = m.tick /\ p.rcvq = process[r].rcvq
    <3> HIDE DEF m
    <3>1. p1 \in ProcessRecord /\ (p1.alive <=> process[r].alive) /\ p1.ticks = m.tick
          /\ p1.rcvq = process[r].rcvq
      BY <1>2, <2>2 DEF ProcessRecord
    <3> HIDE DEF p1
    <3>2. p \in ProcessRecord /\ (p.alive <=> p1.alive) /\ p.ticks = p1.ticks /\ p.ospf
          /\ p.rcvq = p1.rcvq
      BY <3>1 DEF ProcessRecord
    <3> QED
      BY <1>1, <3>1, <3>2
  <2> HIDE DEF p
  <2>4. Phase(n_ticks, node[r], p, Tail(toNode[r]), toCtl[r])
    BY <1>1, <1>2, <1>4, <2>3, FirstTickRead
  <2>5. p.rcvq \in Seq(HeldStamp(n_ticks)) /\ uni_fd' \in [Router -> Seq(SentStamp(n_ticks))]
    BY <1>2, <2>1, <2>3
  <2> QED
    BY <1>1, <1>2, <2>1, <2>3, <2>4, <2>5, CommandFrame
<1>5. CASE m.type = "tick"
  <2>1. SimTick(r, m)
    BY <1>5 DEF recv_ctl_command
  <2> QED
    BY <1>1, <1>5, <2>1, SimTickKeeps
<1>6. CASE m.type = "addrmap"
  <2> DEFINE news == Merge(process[r].address_map, m.maps)
             p == [process[r] EXCEPT !.address_map = news]
  <2>1. process' = [process EXCEPT ![r] = p] /\ uni_fd' = uni_fd /\ toCtl' = toCtl
    BY <1>6 DEF recv_ctl_command
  <2>2. m.maps \subseteq MapEntry
    <3> HIDE DEF m
    <3> QED
      BY <1>3, <1>6 DEF NodeMsg, TickMsg, MapMsg
  <2>3. news \subseteq MapEntry
    BY <1>2, <2>2 DEF Merge, ProcessRecord
  <2> HIDE DEF news
  <2>4. /\ p \in ProcessRecord /\ (p.alive <=> process[r].alive) /\ (p.ospf <=> process[r].ospf)
        /\ p.ticks = process[r].ticks /\ p.rcvq = process[r].rcvq
    BY <1>2, <2>3 DEF ProcessRecord
  <2> HIDE DEF p
  <2>5. p.alive
    BY <1>1, <2>4
  <2>6. Phase(n_ticks, node[r], p, Tail(toNode[r]), toCtl[r])
    BY <1>1, <1>2, <1>6, <2>4, <2>5, MapRead
  <2>7. p.rcvq \in Seq(HeldStamp(n_ticks)) /\ uni_fd' \in [Router -> Seq(SentStamp(n_ticks))]
    BY <1>2, <2>1, <2>4
  <2> QED
    BY <1>1, <1>2, <2>1, <2>4, <2>6, <2>7, CommandFrame
<1> QED
  <2> HIDE DEF m
  <2> QED
    BY <1>3, <1>4, <1>5, <1>6 DEF NodeMsg, TickMsg, MapMsg

LEMMA SimNext == SimInvariant /\ [Next]_simVars => SimInvariant'
<1> SUFFICES ASSUME SimInvariant, [Next]_simVars
             PROVE  SimInvariant'
  OBVIOUS
<1>1. CASE tick
  BY <1>1, TickKeeps
<1>2. CASE store_mapping
  BY <1>2, StoreKeeps
<1>3. ASSUME NEW r \in Router, simnode_handler_read(r)
      PROVE  SimInvariant'
  <2>1. toCtl[r] # <<>>
    BY <1>3 DEF simnode_handler_read
  <2> QED
    BY <1>3, <2>1, RestartKeeps, ResponseKeeps
<1>4. ASSUME NEW r \in Router, delete_router(r)
      PROVE  SimInvariant'
  BY <1>4, DeleteKeeps
<1>5. ASSUME NEW r \in Router, Start(r)
      PROVE  SimInvariant'
  BY <1>5, StartKeeps
<1>6. ASSUME NEW r \in Router, Crash(r)
      PROVE  SimInvariant'
  BY <1>6, CrashKeeps
<1>7. ASSUME NEW r \in Router, process_uni_fd(r)
      PROVE  SimInvariant'
  BY <1>7, PacketKeeps
<1>8. ASSUME NEW r \in Router, recv_ctl_command(r)
      PROVE  SimInvariant'
  BY <1>8, CommandKeeps
<1>9. CASE UNCHANGED simVars
  BY <1>9 DEF simVars, SimInvariant, TypeOK, Stamped, SentStamp, HeldStamp, InStep
<1> QED
  BY <1>1, <1>2, <1>3, <1>4, <1>5, <1>6, <1>7, <1>8, <1>9 DEF Next

LEMMA SimInvariantHolds == Spec => []SimInvariant
BY SimInit, SimNext, PTL DEF Spec

-----------------------------------------------------------------------------
(* The time of every router whose OSPF runs is the controller's or the     *)
(* tick before, and no packet it keeps is for a tick after the next, for   *)
(* any routers and any number of packets, crashes and restarts (tick() and *)
(* simnode_handler_read, sim.C; process_uni_fd and recv_ctl_command,       *)
(* ospfd_sim.C).                                                           *)
THEOREM RoutersKeepStep == Spec => []InLockstep
<1>1. SimInvariant => InLockstep
  <2> SUFFICES ASSUME SimInvariant, NEW r \in Up, process[r].ospf
               PROVE  /\ n_ticks - 1 <= process[r].ticks /\ process[r].ticks <= n_ticks
                      /\ \A i \in DOMAIN process[r].rcvq :
                           process[r].rcvq[i] <= Units * (process[r].ticks + 2)
    BY DEF InLockstep
  <2>1. /\ n_ticks \in Nat /\ r \in Router /\ node[r].up /\ process[r] \in ProcessRecord
        /\ Phase(n_ticks, node[r], process[r], toNode[r], toCtl[r])
        /\ process[r].rcvq \in Seq(HeldStamp(n_ticks))
    BY DEF SimInvariant, TypeOK, InStep, Stamped, Up
  <2>2. process[r].ticks \in Nat /\ (process[r].ticks = n_ticks \/ process[r].ticks = n_ticks - 1)
    BY <2>1 DEF Phase, Attached, ProcessRecord
  <2>3. \A i \in DOMAIN process[r].rcvq :
          process[r].rcvq[i] \in Nat /\ process[r].rcvq[i] <= Units * (n_ticks + 1)
    BY <2>1 DEF HeldStamp
  <2>4. /\ Units * (n_ticks + 1) <= Units * (process[r].ticks + 2)
        /\ Units * (n_ticks + 1) \in Nat /\ Units * (process[r].ticks + 2) \in Nat
    <3>1. n_ticks <= process[r].ticks + 1 /\ (process[r].ticks + 1) + 1 = process[r].ticks + 2
          /\ process[r].ticks + 1 \in Nat
      BY <2>1, <2>2
    <3> QED
      BY <2>1, <3>1, UnitsGrow
  <2> DEFINE a == Units * (n_ticks + 1)
             b == Units * (process[r].ticks + 2)
  <2> HIDE DEF a, b
  <2>5. \A i \in DOMAIN process[r].rcvq : process[r].rcvq[i] <= b
    BY <2>3, <2>4 DEF a, b
  <2> QED
    BY <2>1, <2>2, <2>5 DEF b
<1> QED
  BY <1>1, SimInvariantHolds, PTL

-----------------------------------------------------------------------------
(* The address maps.  An entry is mentioned by a message that has its      *)
(* address and router; the last message of a queue that mentions it        *)
(* decides, and if there is none the map does.                             *)
Real == {e \in MapEntry : e.port # 0}

Mentions(N, e) == \E n \in N : n.addr = e.addr /\ n.home = e.home

Told(q, e) == {i \in DOMAIN q : q[i].type = "addrmap" /\ Mentions(q[i].maps, e)}

RightFor(map, q, owned, e) ==
  /\ Told(q, e) = {} => (e \in map <=> e \in owned)
  /\ \A i \in Told(q, e) :
       (\A j \in Told(q, e) : j <= i) => (e \in q[i].maps <=> e \in owned)

\* What the router will have, when it has read q, is owned.
RightMap(map, q, owned) == map \subseteq Real /\ \A e \in Real : RightFor(map, q, owned, e)

Knows(nd, p, q, owned) ==
  p.alive => IF nd.up THEN RightMap(p.address_map, q, owned) ELSE p.address_map = {}

MapsOnTheWay ==
  /\ \A r \in Router : node[r].up => node[r].port # 0
  /\ \A r \in Router : Knows(node[r], process[r], toNode[r], MapsOf(ifmaps, node))

LEMMA ToldMore ==
    ASSUME NEW q \in Seq(NodeMsg), NEW m, NEW e
    PROVE  /\ \A i \in Told(q, e) : i \in 1..Len(q) /\ i \in Told(Append(q, m), e)
                                    /\ Append(q, m)[i] = q[i]
           /\ \A i \in Told(Append(q, m), e) : i # Len(q) + 1 => i \in Told(q, e)
           /\ Append(q, m)[Len(q) + 1] = m
           /\ Len(q) + 1 \in Told(Append(q, m), e)
                <=> m.type = "addrmap" /\ Mentions(m.maps, e)
<1> DEFINE u == Append(q, m)
<1>1. /\ DOMAIN q = 1..Len(q) /\ Len(q) \in Nat /\ DOMAIN u = 1..(Len(q) + 1)
      /\ u[Len(q) + 1] = m /\ \A i \in 1..Len(q) : u[i] = q[i]
  OBVIOUS
<1> HIDE DEF u
<1>2. \A i \in DOMAIN u : i # Len(q) + 1 => i \in 1..Len(q)
  BY <1>1
<1>3. Len(q) + 1 \in DOMAIN u /\ \A i \in 1..Len(q) : i \in DOMAIN u
  BY <1>1
<1> QED
  BY <1>1, <1>2, <1>3 DEF Told, u

LEMMA OtherSent ==
    ASSUME NEW q \in Seq(NodeMsg), NEW m, m.type # "addrmap", NEW map, NEW owned,
           RightMap(map, q, owned)
    PROVE  RightMap(map, Append(q, m), owned)
<1> SUFFICES ASSUME NEW e \in Real
             PROVE  RightFor(map, Append(q, m), owned, e)
  BY DEF RightMap
<1> DEFINE u == Append(q, m)
<1>1. RightFor(map, q, owned, e)
  BY DEF RightMap
<1>a. /\ \A i \in Told(q, e) : i \in Told(u, e) /\ u[i] = q[i]
      /\ \A i \in Told(u, e) : i # Len(q) + 1 => i \in Told(q, e)
      /\ Len(q) + 1 \notin Told(u, e)
  BY ToldMore
<1> HIDE DEF u
<1>2. Told(u, e) = Told(q, e) /\ \A i \in Told(q, e) : u[i] = q[i]
  BY <1>a
<1>3. RightFor(map, u, owned, e)
  BY <1>1, <1>2 DEF RightFor
<1> QED
  BY <1>3 DEF u

LEMMA MapSent ==
    ASSUME NEW q \in Seq(NodeMsg), NEW m, m.type = "addrmap", NEW map, NEW owned, NEW owned2,
           RightMap(map, q, owned),
           \A e \in Real : IF Mentions(m.maps, e) THEN e \in m.maps <=> e \in owned2
                                                  ELSE e \in owned <=> e \in owned2
    PROVE  RightMap(map, Append(q, m), owned2)
<1> SUFFICES ASSUME NEW e \in Real
             PROVE  RightFor(map, Append(q, m), owned2, e)
  BY DEF RightMap
<1> DEFINE u == Append(q, m)
           n == Len(q) + 1
<1>1. RightFor(map, q, owned, e)
  BY DEF RightMap
<1>2. /\ \A i \in Told(q, e) : i \in 1..Len(q) /\ i \in Told(u, e) /\ u[i] = q[i]
      /\ \A i \in Told(u, e) : i # n => i \in Told(q, e)
      /\ u[n] = m /\ (n \in Told(u, e) <=> Mentions(m.maps, e))
  BY ToldMore
<1>3. Len(q) \in Nat
  OBVIOUS
<1> HIDE DEF u
<1>4. CASE Mentions(m.maps, e)
  <2>1. \A i \in Told(u, e) : (\A j \in Told(u, e) : j <= i) => i = n
    <3> SUFFICES ASSUME NEW i \in Told(u, e), \A j \in Told(u, e) : j <= i, i # n
                 PROVE  FALSE
      OBVIOUS
    <3>1. i \in 1..Len(q) /\ n <= i
      BY <1>2, <1>4
    <3> QED
      BY <1>3, <3>1
  <2>2. Told(u, e) # {}
    BY <1>2, <1>4
  <2>3. e \in m.maps <=> e \in owned2
    BY <1>4
  <2>4. RightFor(map, u, owned2, e)
    BY <1>2, <2>1, <2>2, <2>3 DEF RightFor
  <2> QED
    BY <2>4 DEF u
<1>5. CASE ~Mentions(m.maps, e)
  <2>1. Told(u, e) = Told(q, e)
    BY <1>2, <1>5
  <2>2. e \in owned <=> e \in owned2
    BY <1>5
  <2>3. RightFor(map, u, owned2, e)
    BY <1>1, <1>2, <2>1, <2>2 DEF RightFor
  <2> QED
    BY <2>3 DEF u
<1> QED
  BY <1>4, <1>5

LEMMA ToldLess ==
    ASSUME NEW q \in Seq(NodeMsg), q # <<>>, NEW e
    PROVE  /\ \A i \in Told(Tail(q), e) : i \in Nat /\ i + 1 \in Told(q, e) /\ Tail(q)[i] = q[i + 1]
           /\ \A i \in Told(q, e) : i \in Nat /\ i >= 1 /\ (i # 1 => i - 1 \in Told(Tail(q), e)
                                                     /\ Tail(q)[i - 1] = q[i])
           /\ 1 \in Told(q, e) <=> Head(q).type = "addrmap" /\ Mentions(Head(q).maps, e)
<1> DEFINE t == Tail(q)
<1>1. /\ DOMAIN q = 1..Len(q) /\ Len(q) \in Nat /\ Len(q) # 0 /\ DOMAIN t = 1..(Len(q) - 1)
      /\ q[1] = Head(q) /\ \A i \in 1..(Len(q) - 1) : t[i] = q[i + 1]
  OBVIOUS
<1> HIDE DEF t
<1>2. \A i \in DOMAIN t : i \in Nat /\ i + 1 \in DOMAIN q
  BY <1>1
<1>3. \A i \in DOMAIN q : i \in Nat /\ i >= 1
                          /\ (i # 1 => i - 1 \in DOMAIN t /\ t[i - 1] = q[i])
  <2> SUFFICES ASSUME NEW i \in DOMAIN q, i # 1
               PROVE  i - 1 \in DOMAIN t /\ t[i - 1] = q[i]
    BY <1>1
  <2>1. i - 1 \in DOMAIN t /\ (i - 1) + 1 = i
    BY <1>1
  <2>2. t[i - 1] = q[(i - 1) + 1]
    BY <1>1, <2>1
  <2> QED
    BY <2>1, <2>2
<1>4. 1 \in DOMAIN q
  BY <1>1
<1> QED
  BY <1>1, <1>2, <1>3, <1>4 DEF Told, t

LEMMA OtherRead ==
    ASSUME NEW q \in Seq(NodeMsg), q # <<>>, Head(q).type # "addrmap", NEW map, NEW owned,
           RightMap(map, q, owned)
    PROVE  RightMap(map, Tail(q), owned)
<1> SUFFICES ASSUME NEW e \in Real
             PROVE  RightFor(map, Tail(q), owned, e)
  BY DEF RightMap
<1> DEFINE t == Tail(q)
<1>1. RightFor(map, q, owned, e)
  BY DEF RightMap
<1>2. /\ \A i \in Told(t, e) : i \in Nat /\ i + 1 \in Told(q, e) /\ t[i] = q[i + 1]
      /\ \A i \in Told(q, e) : i \in Nat /\ i - 1 \in Told(t, e)
  BY ToldLess
<1> HIDE DEF t
<1>3. Told(t, e) = {} => Told(q, e) = {}
  BY <1>2
<1>4. ASSUME NEW i \in Told(t, e), \A j \in Told(t, e) : j <= i
      PROVE  \A j \in Told(q, e) : j <= i + 1
  <2> SUFFICES ASSUME NEW j \in Told(q, e) PROVE j <= i + 1
    OBVIOUS
  <2>1. j \in Nat /\ i \in Nat /\ j - 1 <= i
    BY <1>2, <1>4
  <2> QED
    BY <2>1
<1>5. RightFor(map, t, owned, e)
  BY <1>1, <1>2, <1>3, <1>4 DEF RightFor
<1> QED
  BY <1>5 DEF t

LEMMA MapReadRight ==
    ASSUME NEW q \in Seq(NodeMsg), q # <<>>, Head(q).type = "addrmap",
           Head(q).maps \subseteq MapEntry, NEW map, NEW owned, RightMap(map, q, owned)
    PROVE  RightMap(Merge(map, Head(q).maps), Tail(q), owned)
<1> DEFINE t == Tail(q)
           N == Head(q).maps
           new == Merge(map, N)
<1>0. map \subseteq Real /\ N \subseteq MapEntry
  BY DEF RightMap
<1>a. q[1] = Head(q)
  OBVIOUS
<1>b. \A e : /\ \A i \in Told(t, e) : i \in Nat /\ i + 1 \in Told(q, e) /\ t[i] = q[i + 1]
             /\ \A i \in Told(q, e) : i \in Nat /\ i >= 1 /\ (i # 1 => i - 1 \in Told(t, e))
             /\ 1 \in Told(q, e) <=> Mentions(N, e)
  BY ToldLess
<1> HIDE DEF t, N
<1>1. new \subseteq Real
  BY <1>0 DEF Merge, Real
<1> SUFFICES ASSUME NEW e \in Real
             PROVE  RightFor(new, t, owned, e)
  BY <1>1 DEF RightMap, t, N
<1>2. RightFor(map, q, owned, e)
  BY DEF RightMap
<1>3. e \in new <=> IF Mentions(N, e) THEN e \in N ELSE e \in map
  BY DEF Merge, Mentions, Real
<1> HIDE DEF new
<1>4. CASE Told(t, e) = {}
  <2>1. Told(q, e) = IF Mentions(N, e) THEN {1} ELSE {}
    BY <1>4, <1>b
  <2>2. e \in new <=> e \in owned
    BY <1>2, <1>3, <1>a, <2>1 DEF RightFor, N
  <2> QED
    BY <1>4, <2>2 DEF RightFor
<1>5. ASSUME NEW i \in Told(t, e), \A j \in Told(t, e) : j <= i
      PROVE  e \in t[i].maps <=> e \in owned
  <2>1. i \in Nat /\ i + 1 \in Told(q, e) /\ t[i] = q[i + 1]
    BY <1>b
  <2>2. ASSUME NEW j \in Told(q, e) PROVE j <= i + 1
    <3>1. j \in Nat /\ (j # 1 => j - 1 <= i)
      BY <1>5, <1>b
    <3> QED
      BY <2>1, <3>1
  <2> QED
    BY <1>2, <2>1, <2>2 DEF RightFor
<1> QED
  BY <1>4, <1>5 DEF RightFor

-----------------------------------------------------------------------------
(* What the controller's tables say, and what it sends when they change.   *)

\* The entries of addresses whose routers are there.
LEMMA OwnedEntries ==
    ASSUME NEW owners \in SUBSET ToSet(Owners), NEW nodes \in [Router -> NodeRecord],
           NEW e \in MapEntry
    PROVE  /\ e \in MapsOf(owners, nodes) <=>
                \E o \in owners : /\ o[1] = e.addr /\ o[2] = e.home
                                  /\ nodes[e.home].up /\ nodes[e.home].port = e.port
           /\ Mentions(MapsOf(owners, nodes), e) <=>
                \E o \in owners : o[1] = e.addr /\ o[2] = e.home /\ nodes[e.home].up
<1> DEFINE Entry(o) == [addr |-> o[1], home |-> o[2], port |-> nodes[o[2]].port]
<1>1. MapsOf(owners, nodes) = {Entry(o) : o \in {x \in owners : nodes[x[2]].up}}
  BY DEF MapsOf
<1>2. \A o \in owners : Entry(o) = e <=> o[1] = e.addr /\ o[2] = e.home
                                         /\ nodes[o[2]].port = e.port
  BY DEF MapEntry
<1>3. \A o : Entry(o).addr = o[1] /\ Entry(o).home = o[2]
  OBVIOUS
<1> HIDE DEF Entry
<1>4. e \in MapsOf(owners, nodes) <=> \E o \in owners : nodes[o[2]].up /\ Entry(o) = e
  BY <1>1
<1>5. Mentions(MapsOf(owners, nodes), e)
        <=> \E o \in owners : nodes[o[2]].up /\ o[1] = e.addr /\ o[2] = e.home
  BY <1>1, <1>3 DEF Mentions
<1> QED
  BY <1>2, <1>4, <1>5

\* Only who is there, and on which port, matters.
LEMMA SameMaps ==
    ASSUME NEW owners \in SUBSET ToSet(Owners), NEW nodes \in [Router -> NodeRecord],
           NEW nodes2 \in [Router -> NodeRecord],
           \A q \in Router : (nodes2[q].up <=> nodes[q].up) /\ nodes2[q].port = nodes[q].port
    PROVE  MapsOf(owners, nodes2) = MapsOf(owners, nodes)
<1>1. \A o \in owners : o[2] \in Router
  BY SimulatorAssumption DEF SimulatorAssumption, ToSet
<1> QED
  BY <1>1 DEF MapsOf

\* A router's addresses are sent to another one, with its port or with none.
LEMMA IncrementRight ==
    ASSUME ifmaps \subseteq ToSet(Owners), NEW nodes \in [Router -> NodeRecord],
           NEW nodes1 \in [Router -> NodeRecord], NEW nodes2 \in [Router -> NodeRecord],
           NEW r \in Router, nodes1[r].up,
           \A q \in Router \ {r} : /\ (nodes2[q].up <=> nodes[q].up)
                                   /\ nodes2[q].port = nodes[q].port,
           \/ nodes1[r].port = 0 /\ ~nodes2[r].up
           \/ nodes2[r].up /\ nodes2[r].port = nodes1[r].port,
           NEW q \in Seq(NodeMsg), NEW map, RightMap(map, q, MapsOf(ifmaps, nodes))
    PROVE  RightMap(map, Append(q, [type |-> "addrmap",
                                    maps |-> MapsOf({o \in ifmaps : o[2] = r}, nodes1)]),
                    MapsOf(ifmaps, nodes2))
<1> DEFINE own == {o \in ifmaps : o[2] = r}
           m == [type |-> "addrmap", maps |-> MapsOf(own, nodes1)]
<1>1. own \in SUBSET ToSet(Owners) /\ ifmaps \in SUBSET ToSet(Owners)
  OBVIOUS
<1>2. m.type = "addrmap" /\ m.maps = MapsOf(own, nodes1)
  OBVIOUS
<1>3. ASSUME NEW e \in Real
      PROVE  IF Mentions(m.maps, e) THEN e \in m.maps <=> e \in MapsOf(ifmaps, nodes2)
             ELSE e \in MapsOf(ifmaps, nodes) <=> e \in MapsOf(ifmaps, nodes2)
  <2> DEFINE Owned == \E o \in ifmaps : o[1] = e.addr /\ o[2] = e.home
  <2>1. e \in MapEntry /\ e.port # 0 /\ e.home \in Router
    BY DEF Real, MapEntry
  <2>2. /\ Mentions(m.maps, e) <=> Owned /\ e.home = r
        /\ e \in m.maps <=> Owned /\ e.home = r /\ nodes1[r].port = e.port
    <3> HIDE DEF m
    <3>1. (\E o \in own : o[1] = e.addr /\ o[2] = e.home) <=> Owned /\ e.home = r
      OBVIOUS
    <3> HIDE DEF own
    <3>2. /\ e \in MapsOf(own, nodes1) <=>
               \E o \in own : /\ o[1] = e.addr /\ o[2] = e.home
                              /\ nodes1[e.home].up /\ nodes1[e.home].port = e.port
          /\ Mentions(MapsOf(own, nodes1), e) <=>
               \E o \in own : o[1] = e.addr /\ o[2] = e.home /\ nodes1[e.home].up
      BY <1>1, <2>1, OwnedEntries
    <3> HIDE DEF Owned
    <3>3. /\ e \in MapsOf(own, nodes1) <=> /\ Owned /\ e.home = r
                                           /\ nodes1[e.home].up /\ nodes1[e.home].port = e.port
          /\ Mentions(MapsOf(own, nodes1), e) <=> Owned /\ e.home = r /\ nodes1[e.home].up
      BY <3>1, <3>2
    <3> QED
      BY <1>2, <3>3
  <2>3. /\ e \in MapsOf(ifmaps, nodes) <=> Owned /\ nodes[e.home].up /\ nodes[e.home].port = e.port
        /\ e \in MapsOf(ifmaps, nodes2) <=> Owned /\ nodes2[e.home].up /\ nodes2[e.home].port = e.port
    BY <1>1, <2>1, OwnedEntries
  <2> HIDE DEF Owned, m, own
  <2> QED
    BY <2>1, <2>2, <2>3
<1> HIDE DEF own, m
<1>4. RightMap(map, Append(q, m), MapsOf(ifmaps, nodes2))
  BY <1>2, <1>3, MapSent
<1> QED
  BY <1>4 DEF m, own

\* All the addresses are sent to a router that knows none.
LEMMA AllRight ==
    ASSUME NEW owners, NEW q \in Seq(NodeMsg), RightMap({}, q, {})
    PROVE  RightMap({}, Append(q, [type |-> "addrmap", maps |-> owners]), owners)
<1> DEFINE m == [type |-> "addrmap", maps |-> owners]
<1>1. m.type = "addrmap" /\ m.maps = owners
  OBVIOUS
<1>2. \A e \in Real : IF Mentions(m.maps, e) THEN e \in m.maps <=> e \in owners
                                             ELSE e \in {} <=> e \in owners
  BY <1>1 DEF Mentions
<1> HIDE DEF m
<1>3. RightMap({}, Append(q, m), owners)
  BY <1>1, <1>2, MapSent
<1> QED
  BY <1>3 DEF m

\* An address is stored.
LEMMA StoredRight ==
    ASSUME ifmaps \subseteq ToSet(Owners), node \in [Router -> NodeRecord],
           NEW o \in ToSet(Owners),
           NEW q \in Seq(NodeMsg), NEW map, RightMap(map, q, MapsOf(ifmaps, node))
    PROVE  RightMap(map, Append(q, [type |-> "addrmap", maps |-> MapsOf({o}, node)]),
                    MapsOf(ifmaps \cup {o}, node))
<1> DEFINE m == [type |-> "addrmap", maps |-> MapsOf({o}, node)]
           all == ifmaps \cup {o}
<1>1. m.type = "addrmap" /\ m.maps = MapsOf({o}, node)
  OBVIOUS
<1>2. {o} \in SUBSET ToSet(Owners) /\ ifmaps \in SUBSET ToSet(Owners)
      /\ all \in SUBSET ToSet(Owners)
  OBVIOUS
<1>3. \A e : (\E x \in all : x[1] = e.addr /\ x[2] = e.home)
               <=> \/ \E x \in ifmaps : x[1] = e.addr /\ x[2] = e.home
                   \/ o[1] = e.addr /\ o[2] = e.home
  OBVIOUS
<1> HIDE DEF m, all
<1>4. ASSUME NEW e \in Real
      PROVE  IF Mentions(m.maps, e) THEN e \in m.maps <=> e \in MapsOf(all, node)
             ELSE e \in MapsOf(ifmaps, node) <=> e \in MapsOf(all, node)
  <2>1. e \in MapEntry
    BY DEF Real
  <2>2. /\ Mentions(m.maps, e) <=> o[1] = e.addr /\ o[2] = e.home /\ node[e.home].up
        /\ e \in m.maps <=> o[1] = e.addr /\ o[2] = e.home /\ node[e.home].up
                            /\ node[e.home].port = e.port
    <3> DEFINE one == {o}
    <3>1. one \in SUBSET ToSet(Owners)
      BY <1>2
    <3>2. \A x : x \in one <=> x = o
      OBVIOUS
    <3> HIDE DEF one
    <3>3. /\ e \in MapsOf(one, node) <=>
               \E x \in one : /\ x[1] = e.addr /\ x[2] = e.home
                              /\ node[e.home].up /\ node[e.home].port = e.port
          /\ Mentions(MapsOf(one, node), e) <=>
               \E x \in one : x[1] = e.addr /\ x[2] = e.home /\ node[e.home].up
      BY <2>1, <3>1, OwnedEntries
    <3> QED
      BY <1>1, <3>2, <3>3 DEF one
  <2>3. e \in MapsOf(ifmaps, node) <=>
          /\ \E x \in ifmaps : x[1] = e.addr /\ x[2] = e.home
          /\ node[e.home].up /\ node[e.home].port = e.port
    BY <1>2, <2>1, OwnedEntries
  <2>4. e \in MapsOf(all, node) <=>
          /\ \E x \in all : x[1] = e.addr /\ x[2] = e.home
          /\ node[e.home].up /\ node[e.home].port = e.port
    <3>1. e \in MapsOf(all, node) <=>
            \E x \in all : /\ x[1] = e.addr /\ x[2] = e.home
                           /\ node[e.home].up /\ node[e.home].port = e.port
      BY <1>2, <2>1, OwnedEntries
    <3> QED
      BY <3>1
  <2> QED
    BY <1>3, <2>2, <2>3, <2>4
<1>5. RightMap(map, Append(q, m), MapsOf(all, node))
  BY <1>1, <1>4, MapSent
<1> QED
  BY <1>5 DEF m, all

-----------------------------------------------------------------------------
(* The statistics: each is counted once for every node that has it.        *)
IsCount(s) == DOMAIN s \subseteq Db /\ \A d \in DOMAIN s : s[d] \in Nat \ {0}

CountOf(s, d) == IF d \in DOMAIN s THEN s[d] ELSE 0

Have(nodes, d) == {r \in Router : nodes[r].up /\ nodes[r].dbstats = d}

StatsRight(s, nodes) == IsCount(s) /\ \A d \in Db : CountOf(s, d) = Cardinality(Have(nodes, d))

LEMMA DerefCount ==
    ASSUME NEW s, IsCount(s), NEW d \in DOMAIN s
    PROVE  /\ IsCount(Deref(s, d))
           /\ \A e \in Db : CountOf(Deref(s, d), e) = CountOf(s, e) - (IF e = d THEN 1 ELSE 0)
<1> DEFINE left == {x \in DOMAIN s : x # d \/ s[d] > 1}
           t == [e \in left |-> IF e = d THEN s[e] - 1 ELSE s[e]]
<1>1. Deref(s, d) = t
  BY SimulatorAssumption DEF SimulatorAssumption, Deref, IsCount
<1>2. \A e : e \in left <=> e \in DOMAIN s /\ (e # d \/ s[d] > 1)
  OBVIOUS
<1> HIDE DEF left
<1>3. DOMAIN t = left /\ \A e \in left : t[e] = IF e = d THEN s[e] - 1 ELSE s[e]
  OBVIOUS
<1> HIDE DEF t
<1>4. IsCount(t)
  BY <1>2, <1>3 DEF IsCount
<1>5. \A e \in Db : CountOf(t, e) = CountOf(s, e) - (IF e = d THEN 1 ELSE 0)
  BY <1>2, <1>3 DEF IsCount, CountOf
<1> QED
  BY <1>1, <1>4, <1>5

LEMMA AddRefCount ==
    ASSUME NEW s, IsCount(s), NEW d \in Db
    PROVE  /\ IsCount(AddRef(s, d))
           /\ \A e \in Db : CountOf(AddRef(s, d), e) = CountOf(s, e) + (IF e = d THEN 1 ELSE 0)
<1> DEFINE t == AddRef(s, d)
<1>1. /\ DOMAIN t = DOMAIN s \cup {d}
      /\ \A e \in DOMAIN s \cup {d} :
           t[e] = IF e \notin DOMAIN s THEN 1 ELSE IF e = d THEN s[e] + 1 ELSE s[e]
  BY DEF AddRef
<1> HIDE DEF t
<1>2. IsCount(t)
  BY <1>1 DEF IsCount
<1>3. \A e \in Db : CountOf(t, e) = CountOf(s, e) + (IF e = d THEN 1 ELSE 0)
  BY <1>1 DEF IsCount, CountOf
<1> QED
  BY <1>2, <1>3 DEF t

\* One node changes.
LEMMA HaveChange ==
    ASSUME NEW nodes, NEW nodes2, NEW r \in Router,
           \A q \in Router \ {r} : nodes2[q] = nodes[q], NEW d
    PROVE  /\ Cardinality(Have(nodes, d)) \in Nat
           /\ r \in Have(nodes, d) => Cardinality(Have(nodes, d)) # 0
           /\ Cardinality(Have(nodes2, d)) = Cardinality(Have(nodes, d))
                - (IF r \in Have(nodes, d) THEN 1 ELSE 0)
                + (IF r \in Have(nodes2, d) THEN 1 ELSE 0)
<1> DEFINE A == Have(nodes, d)
           B == Have(nodes2, d)
           C == A \ {r}
<1>1. A \subseteq Router /\ B \subseteq Router /\ IsFiniteSet(Router)
  BY SimulatorAssumption DEF SimulatorAssumption, Have
<1>2. C = B \ {r}
  BY DEF Have
<1>3. IsFiniteSet(A) /\ IsFiniteSet(B)
  BY <1>1, FS_Subset
<1> HIDE DEF A, B
<1>4. Cardinality(A) \in Nat /\ Cardinality(B) \in Nat
  BY <1>3, FS_CardinalityType
<1>5. Cardinality(C) = IF r \in A THEN Cardinality(A) - 1 ELSE Cardinality(A)
  BY <1>3, FS_RemoveElement
<1>6. Cardinality(C) = IF r \in B THEN Cardinality(B) - 1 ELSE Cardinality(B)
  BY <1>2, <1>3, FS_RemoveElement
<1>7. r \in A => Cardinality(A) # 0
  BY <1>3, FS_EmptySet
<1>8. /\ Cardinality(A) \in Nat
      /\ r \in A => Cardinality(A) # 0
      /\ Cardinality(B) = Cardinality(A) - (IF r \in A THEN 1 ELSE 0) + (IF r \in B THEN 1 ELSE 0)
  BY <1>4, <1>5, <1>6, <1>7
<1> QED
  BY <1>8 DEF A, B

\* A node that has a statistic gives it up, and is gone or has another one.
LEMMA StatsLost ==
    ASSUME StatsRight(stats, node), NEW r \in Router, node[r].up,
           node[r].dbstats \in Db \cup {NULL}, NEW nodes2,
           \A q \in Router \ {r} : nodes2[q] = node[q],
           nodes2[r].up => nodes2[r].dbstats = NULL
    PROVE  StatsRight(Deref(stats, node[r].dbstats), nodes2)
<1> DEFINE d == node[r].dbstats
           s2 == Deref(stats, d)
<1>1. /\ IsCount(stats)
      /\ \A e \in Db : CountOf(stats, e) = Cardinality(Have(node, e))
  BY DEF StatsRight
<1>2. NULL \notin Db
  BY SimulatorAssumption DEF SimulatorAssumption
<1>3. \A e \in Db : (r \in Have(node, e) <=> e = d) /\ r \notin Have(nodes2, e)
  BY <1>2 DEF Have
<1>4. \A e \in Db : /\ Cardinality(Have(node, e)) \in Nat
                    /\ e = d => Cardinality(Have(node, e)) # 0
                    /\ Cardinality(Have(nodes2, e))
                         = Cardinality(Have(node, e)) - (IF e = d THEN 1 ELSE 0)
  <2> SUFFICES ASSUME NEW e \in Db
               PROVE  /\ Cardinality(Have(node, e)) \in Nat
                      /\ e = d => Cardinality(Have(node, e)) # 0
                      /\ Cardinality(Have(nodes2, e))
                           = Cardinality(Have(node, e)) - (IF e = d THEN 1 ELSE 0)
    OBVIOUS
  <2>1. /\ Cardinality(Have(node, e)) \in Nat
        /\ r \in Have(node, e) => Cardinality(Have(node, e)) # 0
        /\ Cardinality(Have(nodes2, e)) = Cardinality(Have(node, e))
             - (IF r \in Have(node, e) THEN 1 ELSE 0)
             + (IF r \in Have(nodes2, e) THEN 1 ELSE 0)
    BY HaveChange
  <2> HIDE DEF d
  <2> QED
    BY <1>3, <2>1
<1>5. CASE d = NULL
  <2>1. s2 = stats
    BY <1>5 DEF Deref
  <2>2. \A e \in Db : e # d
    BY <1>2, <1>5
  <2> HIDE DEF s2, d
  <2>3. StatsRight(s2, nodes2)
    BY <1>1, <1>4, <2>1, <2>2 DEF StatsRight
  <2> QED
    BY <2>3 DEF s2, d
<1>6. CASE d # NULL
  <2>1. d \in Db
    BY <1>6
  <2>2. d \in DOMAIN stats
    BY <1>1, <1>4, <2>1 DEF CountOf
  <2>3. /\ IsCount(s2)
        /\ \A e \in Db : CountOf(s2, e) = CountOf(stats, e) - (IF e = d THEN 1 ELSE 0)
    <3> HIDE DEF d
    <3> QED
      BY <1>1, <2>2, DerefCount
  <2> HIDE DEF s2, d
  <2>4. StatsRight(s2, nodes2)
    BY <1>1, <1>4, <2>3 DEF StatsRight
  <2> QED
    BY <2>4 DEF s2, d
<1> QED
  BY <1>5, <1>6

\* A node that has none gets one.
LEMMA StatsGained ==
    ASSUME NEW s, NEW nodes, StatsRight(s, nodes), NEW r \in Router, nodes[r].dbstats = NULL,
           NEW nodes2, \A q \in Router \ {r} : nodes2[q] = nodes[q],
           NEW d \in Db, nodes2[r].up, nodes2[r].dbstats = d
    PROVE  StatsRight(AddRef(s, d), nodes2)
<1> DEFINE s2 == AddRef(s, d)
<1>1. /\ IsCount(s)
      /\ \A e \in Db : CountOf(s, e) = Cardinality(Have(nodes, e))
  BY DEF StatsRight
<1>2. \A e \in Db : r \notin Have(nodes, e) /\ (r \in Have(nodes2, e) <=> e = d)
  BY SimulatorAssumption DEF SimulatorAssumption, Have
<1>3. \A e \in Db : Cardinality(Have(nodes2, e))
                      = Cardinality(Have(nodes, e)) + (IF e = d THEN 1 ELSE 0)
  <2> SUFFICES ASSUME NEW e \in Db
               PROVE  Cardinality(Have(nodes2, e))
                        = Cardinality(Have(nodes, e)) + (IF e = d THEN 1 ELSE 0)
    OBVIOUS
  <2>1. /\ Cardinality(Have(nodes, e)) \in Nat
        /\ Cardinality(Have(nodes2, e)) = Cardinality(Have(nodes, e))
             - (IF r \in Have(nodes, e) THEN 1 ELSE 0)
             + (IF r \in Have(nodes2, e) THEN 1 ELSE 0)
    BY HaveChange
  <2> QED
    BY <1>2, <2>1
<1>4. /\ IsCount(s2)
      /\ \A e \in Db : CountOf(s2, e) = CountOf(s, e) + (IF e = d THEN 1 ELSE 0)
  BY <1>1, AddRefCount
<1> HIDE DEF s2
<1>5. StatsRight(s2, nodes2)
  BY <1>1, <1>3, <1>4 DEF StatsRight
<1> QED
  BY <1>5 DEF s2

\* What the nodes have stays the same.
LEMMA StatsStay ==
    ASSUME StatsRight(stats, node), NEW nodes2,
           \A q \in Router : (nodes2[q].up <=> node[q].up)
                             /\ (node[q].up => nodes2[q].dbstats = node[q].dbstats)
    PROVE  StatsRight(stats, nodes2)
<1>1. \A d : Have(nodes2, d) = Have(node, d)
  BY DEF Have
<1> QED
  BY <1>1 DEF StatsRight

-----------------------------------------------------------------------------
(* The maps and the counts are right at first, and each action keeps them. *)
AgreeInvariant == MapsOnTheWay /\ StatsRight(stats, node)

LEMMA AgreeInit == Init => AgreeInvariant
<1> SUFFICES ASSUME Init PROVE AgreeInvariant
  OBVIOUS
<1>1. \A r \in Router : ~node[r].up /\ ~process[r].alive
  BY DEF Init, NoNode, NoProcess
<1>2. MapsOnTheWay
  BY <1>1 DEF MapsOnTheWay, Knows
<1>3. \A d : Have(node, d) = {}
  BY <1>1 DEF Have
<1>4. DOMAIN stats = {}
  BY DEF Init
<1>5. StatsRight(stats, node)
  BY <1>3, <1>4, FS_EmptySet DEF StatsRight, IsCount, CountOf
<1> QED
  BY <1>2, <1>5 DEF AgreeInvariant

\* What the invariants say of the tables and the queues.
LEMMA AgreeFacts ==
    ASSUME SimInvariant, AgreeInvariant
    PROVE  /\ n_ticks \in Nat /\ ifmaps \subseteq ToSet(Owners)
           /\ node \in [Router -> NodeRecord] /\ process \in [Router -> ProcessRecord]
           /\ toNode \in [Router -> Seq(NodeMsg)] /\ toCtl \in [Router -> Seq(CtlMsg)]
           /\ \A q \in Router : Phase(n_ticks, node[q], process[q], toNode[q], toCtl[q])
           /\ \A q \in Router : node[q].up => node[q].port # 0
           /\ \A q \in Router : Knows(node[q], process[q], toNode[q], MapsOf(ifmaps, node))
           /\ StatsRight(stats, node)
BY DEF SimInvariant, TypeOK, InStep, AgreeInvariant, MapsOnTheWay

\* One process changes, and its queue, but not the controller.
LEMMA ProcessAgrees ==
    ASSUME SimInvariant, AgreeInvariant, NEW r \in Router, UNCHANGED <<node, ifmaps, stats>>,
           \A q \in Router \ {r} : process'[q] = process[q] /\ toNode'[q] = toNode[q],
           Knows(node[r], process'[r], toNode'[r], MapsOf(ifmaps, node))
    PROVE  AgreeInvariant'
<1>1. \A q \in Router : Knows(node[q], process'[q], toNode'[q], MapsOf(ifmaps, node))
  BY AgreeFacts
<1>2. MapsOnTheWay'
  BY <1>1, AgreeFacts DEF MapsOnTheWay
<1>3. StatsRight(stats, node)'
  BY AgreeFacts
<1> QED
  BY <1>2, <1>3 DEF AgreeInvariant

LEMMA StartAgrees ==
    ASSUME SimInvariant, AgreeInvariant, NEW r \in Router, Start(r)
    PROVE  AgreeInvariant'
<1> DEFINE p == [NoProcess EXCEPT !.alive = TRUE, !.port = starts + 1]
<1>1. ~node[r].up /\ process' = [process EXCEPT ![r] = p] /\ UNCHANGED <<node, ifmaps, stats, toNode>>
  BY DEF Start
<1>2. p.address_map = {}
  BY DEF NoProcess
<1> HIDE DEF p
<1>3. process'[r] = p /\ \A q \in Router \ {r} : process'[q] = process[q]
  BY <1>1, AgreeFacts
<1>4. Knows(node[r], process'[r], toNode'[r], MapsOf(ifmaps, node))
  BY <1>1, <1>2, <1>3 DEF Knows
<1> QED
  BY <1>1, <1>3, <1>4, ProcessAgrees

LEMMA CrashAgrees ==
    ASSUME SimInvariant, AgreeInvariant, NEW r \in Router, Crash(r)
    PROVE  AgreeInvariant'
<1>1. process' = [process EXCEPT ![r] = NoProcess] /\ UNCHANGED <<node, ifmaps, stats, toNode>>
  BY DEF Crash
<1>2. process'[r] = NoProcess /\ \A q \in Router \ {r} : process'[q] = process[q]
  BY <1>1, AgreeFacts
<1>3. Knows(node[r], process'[r], toNode'[r], MapsOf(ifmaps, node))
  BY <1>2 DEF Knows, NoProcess
<1> QED
  BY <1>1, <1>2, <1>3, ProcessAgrees

\* A process that goes on with the map and the queue it had.
LEMMA KnowsStill ==
    ASSUME NEW nd, NEW p, NEW p2, NEW q, NEW owned, Knows(nd, p, q, owned),
           p2.alive => p.alive, p2.address_map = p.address_map
    PROVE  Knows(nd, p2, q, owned)
BY DEF Knows

LEMMA PacketAgrees ==
    ASSUME SimInvariant, AgreeInvariant, NEW r \in Router, process_uni_fd(r)
    PROVE  AgreeInvariant'
<1>1. UNCHANGED <<node, ifmaps, stats, toNode>>
  BY DEF process_uni_fd
<1>2. process' = process \/ \E x : process' = [process EXCEPT ![r].rcvq = x]
  BY DEF process_uni_fd
<1>3. /\ \A q \in Router \ {r} : process'[q] = process[q]
      /\ process'[r].alive = process[r].alive /\ process'[r].address_map = process[r].address_map
  BY <1>2, AgreeFacts DEF ProcessRecord
<1>4. Knows(node[r], process'[r], toNode'[r], MapsOf(ifmaps, node))
  BY <1>1, <1>3, AgreeFacts, KnowsStill
<1> QED
  BY <1>1, <1>3, <1>4, ProcessAgrees

LEMMA CommandAgrees ==
    ASSUME SimInvariant, AgreeInvariant, NEW r \in Router, recv_ctl_command(r)
    PROVE  AgreeInvariant'
<1> DEFINE m == Head(toNode[r])
           owned == MapsOf(ifmaps, node)
<1>1. /\ process[r].alive /\ toNode[r] # <<>> /\ toNode' = [toNode EXCEPT ![r] = Tail(@)]
      /\ UNCHANGED <<node, ifmaps, stats>>
  BY DEF recv_ctl_command
<1>2. /\ process \in [Router -> ProcessRecord] /\ toNode[r] \in Seq(NodeMsg) /\ m \in NodeMsg
      /\ node[r].up /\ RightMap(process[r].address_map, toNode[r], owned)
  <2>1. /\ process \in [Router -> ProcessRecord] /\ toNode \in [Router -> Seq(NodeMsg)]
        /\ Phase(n_ticks, node[r], process[r], toNode[r], toCtl[r])
        /\ Knows(node[r], process[r], toNode[r], owned) /\ node \in [Router -> NodeRecord]
    BY AgreeFacts
  <2>2. node[r].up
    BY <1>1, <2>1 DEF Phase, NodeRecord
  <2> QED
    BY <1>1, <2>1, <2>2 DEF Knows
<1>3. toNode'[r] = Tail(toNode[r]) /\ \A q \in Router \ {r} : toNode'[q] = toNode[q]
  BY <1>1, AgreeFacts
<1> HIDE DEF owned
<1>4. CASE m.type # "addrmap"
  <2>1. process' = [process EXCEPT ![r].ticks = m.tick, ![r].ospf = TRUE]
        \/ \E x : process' = [process EXCEPT ![r].ticks = m.tick, ![r].rcvq = x]
    <3>1. CASE m.type = "first_tick"
      BY <3>1 DEF recv_ctl_command
    <3>2. CASE m.type = "tick"
      BY <3>2 DEF recv_ctl_command, SimTick
    <3> HIDE DEF m
    <3> QED
      BY <1>2, <1>4, <3>1, <3>2 DEF NodeMsg, TickMsg, MapMsg
  <2> HIDE DEF m
  <2>2. /\ \A q \in Router \ {r} : process'[q] = process[q]
        /\ process'[r].alive = process[r].alive /\ process'[r].address_map = process[r].address_map
    BY <1>2, <2>1 DEF ProcessRecord
  <2>3. RightMap(process[r].address_map, Tail(toNode[r]), owned)
    BY <1>1, <1>2, <1>4, OtherRead DEF m
  <2>4. Knows(node[r], process'[r], toNode'[r], owned)
    BY <1>2, <1>3, <2>2, <2>3 DEF Knows
  <2> QED
    BY <1>1, <1>3, <2>2, <2>4, ProcessAgrees DEF owned
<1>5. CASE m.type = "addrmap"
  <2> DEFINE new == Merge(process[r].address_map, m.maps)
  <2>1. process' = [process EXCEPT ![r].address_map = new]
    BY <1>5 DEF recv_ctl_command
  <2>2. m.maps \subseteq MapEntry
    <3> HIDE DEF m
    <3> QED
      BY <1>2, <1>5 DEF NodeMsg, TickMsg, MapMsg
  <2>3. RightMap(new, Tail(toNode[r]), owned)
    BY <1>1, <1>2, <1>5, <2>2, MapReadRight
  <2> HIDE DEF new
  <2>4. /\ \A q \in Router \ {r} : process'[q] = process[q]
        /\ process'[r].address_map = new
    BY <1>2, <2>1 DEF ProcessRecord
  <2>5. Knows(node[r], process'[r], toNode'[r], owned)
    BY <1>2, <1>3, <2>3, <2>4 DEF Knows
  <2> QED
    BY <1>1, <1>3, <2>4, <2>5, ProcessAgrees DEF owned
<1> QED
  BY <1>4, <1>5

\* The controller changes its tables, and the processes do not.
LEMMA ControllerAgrees ==
    ASSUME SimInvariant, AgreeInvariant, UNCHANGED process,
           \A q \in Router : node'[q].up => node'[q].port # 0,
           \A q \in Router : Knows(node'[q], process[q], toNode'[q], MapsOf(ifmaps', node')),
           StatsRight(stats', node')
    PROVE  AgreeInvariant'
<1>1. MapsOnTheWay'
  BY DEF MapsOnTheWay
<1> QED
  BY <1>1 DEF AgreeInvariant

LEMMA TickAgrees ==
    ASSUME SimInvariant, AgreeInvariant, tick
    PROVE  AgreeInvariant'
<1> DEFINE m == [type |-> "tick", tick |-> n_ticks + 1]
           owned == MapsOf(ifmaps, node)
<1>1. /\ node' = TickSent(node) /\ toNode' = Put(toNode, Up, m) /\ UNCHANGED <<ifmaps, stats, process>>
  BY DEF tick
<1>2. m \in NodeMsg /\ m.type = "tick"
  BY AgreeFacts DEF NodeMsg, TickMsg
<1> HIDE DEF m
<1>3. \A q \in Router : toNode'[q] = IF q \in Up THEN Append(toNode[q], m) ELSE toNode[q]
  <2>1. toNode \in [Router -> Seq(NodeMsg)]
    BY AgreeFacts
  <2> QED
    BY <1>1, <1>2, <2>1, PutType
<1>4. /\ node' \in [Router -> NodeRecord]
      /\ \A q \in Router : /\ (node'[q].up <=> node[q].up) /\ node'[q].port = node[q].port
                           /\ node'[q].dbstats = node[q].dbstats
  BY <1>1, AgreeFacts DEF TickSent, NodeRecord
<1>5. MapsOf(ifmaps', node') = owned
  <2>1. ifmaps \in SUBSET ToSet(Owners)
    BY AgreeFacts
  <2> QED
    BY <1>1, <1>4, <2>1, AgreeFacts, SameMaps
<1> HIDE DEF owned
<1>6. ASSUME NEW q \in Router
      PROVE  Knows(node'[q], process[q], toNode'[q], owned)
  <2>1. Knows(node[q], process[q], toNode[q], owned) /\ toNode[q] \in Seq(NodeMsg)
    BY AgreeFacts DEF owned
  <2>2. CASE node[q].up
    <3>1. toNode'[q] = Append(toNode[q], m)
      BY <1>3, <2>2 DEF Up
    <3>2. process[q].alive => RightMap(process[q].address_map, toNode[q], owned)
      BY <2>1, <2>2 DEF Knows
    <3>3. process[q].alive => RightMap(process[q].address_map, toNode'[q], owned)
      BY <1>2, <2>1, <3>1, <3>2, OtherSent
    <3> QED
      BY <1>4, <2>2, <3>3 DEF Knows
  <2>3. CASE ~node[q].up
    BY <1>4, <2>1, <2>3 DEF Knows
  <2> QED
    BY <2>2, <2>3
<1>7. \A q \in Router : node'[q].up => node'[q].port # 0
  BY <1>4, AgreeFacts
<1>8. StatsRight(stats', node')
  BY <1>1, <1>4, AgreeFacts, StatsStay
<1> QED
  BY <1>1, <1>5, <1>6, <1>7, <1>8, ControllerAgrees

LEMMA StoreAgrees ==
    ASSUME SimInvariant, AgreeInvariant, store_mapping
    PROVE  AgreeInvariant'
<1> DEFINE o == Owners[Cardinality(ifmaps) + 1]
           m == [type |-> "addrmap", maps |-> MapsOf({o}, node)]
           owned == MapsOf(ifmaps, node)
           owned2 == MapsOf(ifmaps \cup {o}, node)
<1>1. /\ Cardinality(ifmaps) + 1 <= Len(Owners) /\ ifmaps' = ifmaps \cup {o}
      /\ toNode' = Put(toNode, Up, m) /\ UNCHANGED <<node, stats, process>>
  BY DEF store_mapping
<1>2. o \in ToSet(Owners)
  BY <1>1, AgreeFacts, NextOwner
<1> HIDE DEF o
<1>3. m \in MapMsg /\ m \in NodeMsg
  <2>1. {o} \in SUBSET ToSet(Owners)
    BY <1>2
  <2>2. m \in MapMsg
    BY <2>1, AgreeFacts, MapsType
  <2> QED
    BY <2>2 DEF NodeMsg
<1>4. ASSUME NEW q \in Seq(NodeMsg), NEW map, RightMap(map, q, owned)
      PROVE  RightMap(map, Append(q, m), owned2)
  BY <1>2, <1>4, AgreeFacts, StoredRight
<1> HIDE DEF m, owned
<1>5. \A q \in Router : toNode'[q] = IF q \in Up THEN Append(toNode[q], m) ELSE toNode[q]
  BY <1>1, <1>3, AgreeFacts, PutType
<1>6. MapsOf(ifmaps', node') = owned2
  BY <1>1
<1> HIDE DEF owned2
<1>7. ASSUME NEW q \in Router
      PROVE  Knows(node'[q], process[q], toNode'[q], owned2)
  <2>1. Knows(node[q], process[q], toNode[q], owned) /\ toNode[q] \in Seq(NodeMsg)
    BY AgreeFacts DEF owned
  <2>2. CASE node[q].up
    <3>1. toNode'[q] = Append(toNode[q], m)
      BY <1>5, <2>2 DEF Up
    <3>2. process[q].alive => RightMap(process[q].address_map, toNode[q], owned)
      BY <2>1, <2>2 DEF Knows
    <3>3. process[q].alive => RightMap(process[q].address_map, toNode'[q], owned2)
      BY <1>4, <2>1, <3>1, <3>2
    <3> QED
      BY <1>1, <2>2, <3>3 DEF Knows
  <2>3. CASE ~node[q].up
    BY <1>1, <2>1, <2>3 DEF Knows
  <2> QED
    BY <2>2, <2>3
<1>8. StatsRight(stats', node') /\ \A q \in Router : node'[q].up => node'[q].port # 0
  BY <1>1, AgreeFacts
<1> QED
  BY <1>1, <1>6, <1>7, <1>8, ControllerAgrees

\* The other routers, when a router's addresses are sent or withdrawn.
LEMMA OthersTold ==
    ASSUME ifmaps \subseteq ToSet(Owners), NEW nodes \in [Router -> NodeRecord],
           NEW nodes1 \in [Router -> NodeRecord], NEW nodes2 \in [Router -> NodeRecord],
           NEW r \in Router, nodes1[r].up,
           \A q \in Router \ {r} : nodes1[q] = nodes[q] /\ nodes2[q] = nodes[q],
           \/ nodes1[r].port = 0 /\ ~nodes2[r].up
           \/ nodes2[r].up /\ nodes2[r].port = nodes1[r].port,
           NEW chan \in [Router -> Seq(NodeMsg)], NEW q \in Router \ {r}, NEW p,
           Knows(nodes[q], p, chan[q], MapsOf(ifmaps, nodes))
    PROVE  Knows(nodes2[q], p, send_addrmap_increment(chan, nodes1, r)[q], MapsOf(ifmaps, nodes2))
<1> DEFINE own == {o \in ifmaps : o[2] = r}
           m == [type |-> "addrmap", maps |-> MapsOf(own, nodes1)]
           chan2 == send_addrmap_increment(chan, nodes1, r)
<1>1. nodes1[q] = nodes[q] /\ nodes2[q] = nodes[q] /\ chan[q] \in Seq(NodeMsg)
  OBVIOUS
<1>2. CASE ~p.alive \/ ~nodes[q].up
  BY <1>1, <1>2 DEF Knows
<1>3. CASE p.alive /\ nodes[q].up
  <2>1. RightMap(p.address_map, chan[q], MapsOf(ifmaps, nodes))
    BY <1>3 DEF Knows
  <2>2. RightMap(p.address_map, chan2[q], MapsOf(ifmaps, nodes2))
    <3>1. CASE ifmaps = {}
      <4>1. chan2 = chan
        BY <3>1 DEF send_addrmap_increment
      <4>2. MapsOf(ifmaps, nodes2) = MapsOf(ifmaps, nodes)
        BY <3>1 DEF MapsOf
      <4> HIDE DEF chan2
      <4> QED
        BY <2>1, <4>1, <4>2
    <3>2. CASE ifmaps # {}
      <4>1. m \in NodeMsg
        <5>1. own \in SUBSET ToSet(Owners)
          OBVIOUS
        <5> HIDE DEF own
        <5>2. m \in MapMsg
          BY <5>1, MapsType
        <5> QED
          BY <5>2 DEF NodeMsg
      <4>2. chan2 = Put(chan, {x \in Router \ {r} : nodes1[x].up}, m)
        BY <3>2 DEF send_addrmap_increment
      <4>3. \A x : nodes[x] = nodes1[x] => (nodes[x].up <=> nodes1[x].up)
        OBVIOUS
      <4> HIDE DEF m
      <4>4. chan2[q] = Append(chan[q], m)
        BY <1>1, <1>3, <4>2 DEF Put
      <4>5. \A x \in Router \ {r} : /\ (nodes2[x].up <=> nodes[x].up)
                                    /\ nodes2[x].port = nodes[x].port
        OBVIOUS
      <4> HIDE DEF chan2
      <4>6. RightMap(p.address_map, Append(chan[q], m), MapsOf(ifmaps, nodes2))
        BY <1>1, <2>1, <4>5, IncrementRight DEF m
      <4> QED
        BY <4>4, <4>6
    <3> QED
      BY <3>1, <3>2
  <2> QED
    BY <1>1, <1>3, <2>2 DEF Knows
<1> QED
  BY <1>2, <1>3

LEMMA DeleteAgrees ==
    ASSUME SimInvariant, AgreeInvariant, NEW r \in Router, delete_router(r)
    PROVE  AgreeInvariant'
<1> DEFINE gone == [node EXCEPT ![r].port = 0]
           left == [node EXCEPT ![r] = NoNode]
           c2 == send_addrmap_increment(toNode, gone, r)
<1>1. /\ node' = left /\ toNode' = [c2 EXCEPT ![r] = <<>>]
      /\ stats' = Deref(stats, node[r].dbstats)
      /\ node[r].up /\ ~process[r].alive /\ UNCHANGED <<ifmaps, process>>
  BY DEF delete_router, Withdraw
<1>2. /\ ifmaps \subseteq ToSet(Owners) /\ node \in [Router -> NodeRecord]
      /\ toNode \in [Router -> Seq(NodeMsg)]
      /\ \A q \in Router : node[q].up => node[q].port # 0
      /\ \A q \in Router : Knows(node[q], process[q], toNode[q], MapsOf(ifmaps, node))
      /\ StatsRight(stats, node)
  BY AgreeFacts
<1>3. NoNode \in NodeRecord /\ ~NoNode.up
  BY DEF NoNode, NodeRecord
<1>4. /\ gone \in [Router -> NodeRecord] /\ gone[r].up /\ gone[r].port = 0
      /\ \A q \in Router \ {r} : gone[q] = node[q]
  BY <1>1, <1>2 DEF NodeRecord
<1>5. /\ left \in [Router -> NodeRecord] /\ ~left[r].up
      /\ \A q \in Router \ {r} : left[q] = node[q]
  BY <1>2, <1>3
<1> HIDE DEF gone, left
<1>6. Mapped(toNode, c2, {q \in Router \ {r} : gone[q].up})
  BY <1>2, <1>4, AddrMapSent
<1>7. ASSUME NEW q \in Router
      PROVE  Knows(left[q], process[q], toNode'[q], MapsOf(ifmaps, left))
  <2>1. CASE q = r
    BY <1>1, <2>1 DEF Knows
  <2>2. CASE q # r
    <3>1. q \in Router \ {r} /\ Knows(node[q], process[q], toNode[q], MapsOf(ifmaps, node))
      BY <1>2, <2>2
    <3>2. Knows(left[q], process[q], c2[q], MapsOf(ifmaps, left))
      BY <1>2, <1>4, <1>5, <3>1, OthersTold
    <3> HIDE DEF c2
    <3>3. toNode'[q] = c2[q]
      BY <1>1, <1>6, <2>2 DEF Mapped
    <3> QED
      BY <3>2, <3>3
  <2> QED
    BY <2>1, <2>2
<1>8. \A q \in Router : left[q].up => left[q].port # 0
  BY <1>2, <1>5
<1>9. StatsRight(stats', left)
  <2>1. node[r].dbstats \in Db \cup {NULL}
    BY <1>2 DEF NodeRecord
  <2> QED
    BY <1>1, <1>2, <1>5, <2>1, StatsLost
<1> QED
  BY <1>1, <1>7, <1>8, <1>9, ControllerAgrees

LEMMA ResponseAgrees ==
    ASSUME SimInvariant, AgreeInvariant, NEW r \in Router, toCtl[r] # <<>>,
           Head(toCtl[r]).type # "hello", simnode_handler_read(r)
    PROVE  AgreeInvariant'
<1> DEFINE m == Head(toCtl[r])
           db == m.db
           d == node[r].dbstats
           answered == [node[r] EXCEPT !.got_tick = TRUE]
           nd == [answered EXCEPT !.dbstats = db]
           without == [node[r] EXCEPT !.dbstats = NULL]
           mid == [node EXCEPT ![r] = without]
           nodes == [node EXCEPT ![r] = nd]
<1>1. /\ node' = nodes /\ toNode' = toNode /\ UNCHANGED <<ifmaps, process>>
      /\ stats' = IF d = db THEN stats ELSE AddRef(Deref(stats, d), db)
  BY DEF simnode_handler_read, tick_response
<1>2. /\ ifmaps \subseteq ToSet(Owners) /\ node \in [Router -> NodeRecord]
      /\ process \in [Router -> ProcessRecord]
      /\ toNode \in [Router -> Seq(NodeMsg)] /\ toCtl \in [Router -> Seq(CtlMsg)]
      /\ \A q \in Router : node[q].up => node[q].port # 0
      /\ \A q \in Router : Knows(node[q], process[q], toNode[q], MapsOf(ifmaps, node))
      /\ \A q \in Router : Phase(n_ticks, node[q], process[q], toNode[q], toCtl[q])
      /\ StatsRight(stats, node)
  BY AgreeFacts
<1>3. m.type = "tick_response" /\ db \in Db
  <2>1. m \in CtlMsg /\ m.type # "hello"
    BY <1>2
  <2> HIDE DEF m
  <2> QED
    BY <2>1 DEF CtlMsg
<1> HIDE DEF db
<1>4. /\ answered \in NodeRecord /\ answered.up = node[r].up /\ answered.port = node[r].port
      /\ answered.got_tick
  BY <1>2 DEF NodeRecord
<1> HIDE DEF answered
<1>5. /\ nd \in NodeRecord /\ nd.up = node[r].up /\ nd.port = node[r].port
      /\ nd.got_tick /\ nd.dbstats = db
  BY <1>3, <1>4 DEF NodeRecord
<1>6. without.up = node[r].up /\ without.dbstats = NULL
  BY <1>2 DEF NodeRecord
<1> HIDE DEF nd, without
<1>7. node[r].up
  <2>1. /\ node[r] \in NodeRecord /\ process[r] \in ProcessRecord /\ toCtl[r] \in Seq(CtlMsg)
        /\ Phase(n_ticks, node[r], process[r], toNode[r], toCtl[r])
        /\ (nd.up <=> node[r].up)
    BY <1>2, <1>5
  <2> QED
    BY <1>3, <1>5, <2>1, ResponseRead
<1>8. /\ nodes \in [Router -> NodeRecord] /\ nodes[r] = nd
      /\ \A q \in Router \ {r} : nodes[q] = node[q]
  BY <1>2, <1>5
<1>9. mid[r] = without /\ \A q \in Router \ {r} : mid[q] = node[q]
  BY <1>2
<1> HIDE DEF nodes, mid
<1>10. \A q \in Router : (nodes[q].up <=> node[q].up) /\ nodes[q].port = node[q].port
  BY <1>5, <1>8
<1>11. MapsOf(ifmaps, nodes) = MapsOf(ifmaps, node)
  <2>1. ifmaps \in SUBSET ToSet(Owners)
    BY <1>2
  <2> QED
    BY <1>2, <1>8, <1>10, <2>1, SameMaps
<1>12. \A q \in Router : Knows(nodes[q], process[q], toNode'[q], MapsOf(ifmaps, nodes))
  BY <1>1, <1>2, <1>10, <1>11 DEF Knows
<1>13. CASE d = db
  <2>1. \A q \in Router : (nodes[q].up <=> node[q].up)
                          /\ (node[q].up => nodes[q].dbstats = node[q].dbstats)
    BY <1>5, <1>8, <1>10, <1>13
  <2>2. StatsRight(stats, nodes)
    BY <1>2, <2>1, StatsStay
  <2> QED
    BY <1>1, <1>2, <1>10, <1>12, <1>13, <2>2, ControllerAgrees
<1>14. CASE d # db
  <2> DEFINE s == Deref(stats, d)
  <2>1. d \in Db \cup {NULL}
    BY <1>2 DEF NodeRecord
  <2>2. StatsRight(s, mid)
    BY <1>2, <1>6, <1>7, <1>9, <2>1, StatsLost
  <2>3. stats' = AddRef(s, db)
    BY <1>1, <1>14
  <2> HIDE DEF s, d
  <2>4. mid[r].dbstats = NULL /\ nodes[r].up /\ nodes[r].dbstats = db
        /\ \A q \in Router \ {r} : nodes[q] = mid[q]
    BY <1>5, <1>6, <1>7, <1>8, <1>9
  <2>5. StatsRight(AddRef(s, db), nodes)
    BY <1>3, <2>2, <2>4, StatsGained
  <2> QED
    BY <1>1, <1>2, <1>10, <1>12, <2>3, <2>5, ControllerAgrees
<1> QED
  BY <1>13, <1>14

\* Whoever comes has no statistics yet.
LEMMA StatsUnmoved ==
    ASSUME StatsRight(stats, node), NEW r \in Router, ~node[r].up, NEW nodes2,
           \A q \in Router \ {r} : nodes2[q] = node[q], nodes2[r].dbstats = NULL
    PROVE  StatsRight(stats, nodes2)
<1>1. \A d \in Db : Have(nodes2, d) = Have(node, d)
  <2> SUFFICES ASSUME NEW d \in Db, NEW q \in Router
               PROVE  q \in Have(nodes2, d) <=> q \in Have(node, d)
    BY DEF Have
  <2>1. d # NULL
    BY SimulatorAssumption DEF SimulatorAssumption
  <2>2. CASE q = r
    BY <2>1, <2>2 DEF Have
  <2>3. CASE q # r
    BY <2>3 DEF Have
  <2> QED
    BY <2>2, <2>3
<1> QED
  BY <1>1 DEF StatsRight

LEMMA RestartAgrees ==
    ASSUME SimInvariant, AgreeInvariant, NEW r \in Router, toCtl[r] # <<>>,
           Head(toCtl[r]).type = "hello", simnode_handler_read(r)
    PROVE  AgreeInvariant'
<1> DEFINE m == Head(toCtl[r])
           new == NewNode(m.myport)
           nodes == [node EXCEPT ![r] = new]
           ft == [type |-> "first_tick", tick |-> n_ticks]
           am == [type |-> "addrmap", maps |-> MapsOf(ifmaps, nodes)]
           c1 == Put(toNode, {r}, ft)
           c2 == send_addrmap(c1, nodes, r)
           c3 == send_addrmap_increment(c2, nodes, r)
           owned == MapsOf(ifmaps, nodes)
<1>1. node' = nodes /\ toNode' = c3 /\ UNCHANGED <<ifmaps, process, stats>>
  BY DEF simnode_handler_read, restart_node
<1>2. /\ n_ticks \in Nat /\ ifmaps \subseteq ToSet(Owners)
      /\ node \in [Router -> NodeRecord] /\ process \in [Router -> ProcessRecord]
      /\ toNode \in [Router -> Seq(NodeMsg)] /\ toCtl \in [Router -> Seq(CtlMsg)]
      /\ \A q \in Router : node[q].up => node[q].port # 0
      /\ \A q \in Router : Knows(node[q], process[q], toNode[q], MapsOf(ifmaps, node))
      /\ \A q \in Router : Phase(n_ticks, node[q], process[q], toNode[q], toCtl[q])
      /\ StatsRight(stats, node)
  BY AgreeFacts
<1>3. m.type = "hello" /\ m.myport \in Nat \ {0}
  <2>1. m \in CtlMsg /\ m.type = "hello"
    BY <1>2
  <2> HIDE DEF m
  <2> QED
    BY <2>1 DEF CtlMsg
<1>4. ~node[r].up /\ toNode[r] = <<>>
  <2>1. /\ process[r] \in ProcessRecord /\ toCtl[r] \in Seq(CtlMsg)
        /\ Phase(n_ticks, node[r], process[r], toNode[r], toCtl[r])
    BY <1>2
  <2> QED
    BY <1>3, <2>1, HelloMeans
<1> HIDE DEF m
<1>5. new \in NodeRecord /\ new.up /\ new.port # 0 /\ new.dbstats = NULL
  <2> DEFINE x == NoNode
             y == [x EXCEPT !.up = TRUE]
             z == [y EXCEPT !.port = m.myport]
  <2>1. x \in NodeRecord /\ x.dbstats = NULL
    BY DEF NoNode, NodeRecord
  <2> HIDE DEF x
  <2>2. y \in NodeRecord /\ y.dbstats = NULL /\ y.up
    BY <2>1 DEF NodeRecord
  <2> HIDE DEF y
  <2>3. z \in NodeRecord /\ z.dbstats = NULL /\ z.up /\ z.port # 0
    BY <1>3, <2>2 DEF NodeRecord
  <2>4. z = new
    BY DEF NewNode, x, y
  <2> HIDE DEF z, new
  <2> QED
    BY <2>3, <2>4
<1> HIDE DEF new
<1>6. /\ nodes \in [Router -> NodeRecord] /\ nodes[r] = new
      /\ \A q \in Router \ {r} : nodes[q] = node[q]
  BY <1>2, <1>5
<1>7. ft \in NodeMsg /\ ft.type = "first_tick"
  BY <1>2 DEF NodeMsg, TickMsg
<1> HIDE DEF ft, nodes
<1>8. am \in NodeMsg
  <2>1. ifmaps \in SUBSET ToSet(Owners)
    BY <1>2
  <2>2. am \in MapMsg
    BY <1>6, <2>1, MapsType
  <2> QED
    BY <2>2 DEF NodeMsg
<1>9. /\ c1 \in [Router -> Seq(NodeMsg)]
      /\ \A q \in Router : c1[q] = IF q \in {r} THEN Append(toNode[q], ft) ELSE toNode[q]
  BY <1>2, <1>7, PutType
<1> HIDE DEF c1
<1>10. /\ c2 \in [Router -> Seq(NodeMsg)]
       /\ c2[r] = IF ifmaps = {} THEN c1[r] ELSE Append(c1[r], am)
       /\ \A q \in Router \ {r} : c2[q] = toNode[q]
  <2>1. CASE ifmaps = {}
    BY <1>9, <2>1 DEF send_addrmap
  <2>2. CASE ifmaps # {}
    <3>1. c2 = Put(c1, {r}, am)
      BY <2>2 DEF send_addrmap
    <3> HIDE DEF am
    <3>2. /\ Put(c1, {r}, am) \in [Router -> Seq(NodeMsg)]
          /\ \A q \in Router : Put(c1, {r}, am)[q] = IF q \in {r} THEN Append(c1[q], am) ELSE c1[q]
      BY <1>8, <1>9, PutType
    <3> HIDE DEF c2
    <3> QED
      BY <1>9, <2>2, <3>1, <3>2
  <2> QED
    BY <2>1, <2>2
<1> HIDE DEF c2
<1>11. Mapped(c2, c3, {q \in Router \ {r} : nodes[q].up})
  BY <1>2, <1>6, <1>10, AddrMapSent
<1>12. RightMap({}, c2[r], owned)
  <2> DEFINE none == {}
             empty == <<>>
  <2>1. empty \in Seq(NodeMsg) /\ RightMap(none, empty, none)
    BY DEF RightMap, RightFor, Told
  <2>2. c1[r] = Append(empty, ft)
    BY <1>4, <1>9
  <2>3. none = {}
    OBVIOUS
  <2> HIDE DEF none, empty
  <2>4. RightMap(none, c1[r], none)
    BY <1>7, <2>1, <2>2, OtherSent
  <2>5. CASE ifmaps = {}
    <3>1. owned = none
      BY <2>3, <2>5 DEF MapsOf
    <3> HIDE DEF owned
    <3> QED
      BY <1>10, <2>3, <2>4, <2>5, <3>1
  <2>6. CASE ifmaps # {}
    <3>1. am = [type |-> "addrmap", maps |-> owned] /\ c1[r] \in Seq(NodeMsg)
      BY <1>9
    <3> HIDE DEF am, owned
    <3>2. RightMap({}, c1[r], {})
      BY <2>3, <2>4
    <3>3. RightMap({}, Append(c1[r], am), owned)
      BY <3>1, <3>2, AllRight
    <3> QED
      BY <1>10, <2>6, <3>3
  <2> QED
    BY <2>5, <2>6
<1>13. ASSUME NEW q \in Router
       PROVE  Knows(nodes[q], process[q], c3[q], owned)
  <2>1. CASE q = r
    <3>1. c3[r] = c2[r]
      <4> HIDE DEF c3
      <4> QED
        BY <1>11 DEF Mapped
    <3>2. process[r].alive => process[r].address_map = {}
      BY <1>2, <1>4 DEF Knows
    <3> HIDE DEF c3
    <3> QED
      BY <1>12, <2>1, <1>5, <1>6, <3>1, <3>2 DEF Knows
  <2>2. CASE q # r
    <3>1. /\ q \in Router \ {r}
          /\ Knows(node[q], process[q], c2[q], MapsOf(ifmaps, node))
      BY <1>2, <1>10, <2>2
    <3> QED
      BY <1>2, <1>5, <1>6, <1>10, <3>1, OthersTold
  <2> QED
    BY <2>1, <2>2
<1>14. \A q \in Router : nodes[q].up => nodes[q].port # 0
  BY <1>2, <1>5, <1>6
<1>15. StatsRight(stats, nodes)
  BY <1>2, <1>4, <1>5, <1>6, StatsUnmoved
<1> HIDE DEF c3
<1> QED
  BY <1>1, <1>13, <1>14, <1>15, ControllerAgrees

LEMMA AgreeNext == SimInvariant /\ AgreeInvariant /\ [Next]_simVars => AgreeInvariant'
<1> SUFFICES ASSUME SimInvariant, AgreeInvariant, [Next]_simVars
             PROVE  AgreeInvariant'
  OBVIOUS
<1>1. CASE tick
  BY <1>1, TickAgrees
<1>2. CASE store_mapping
  BY <1>2, StoreAgrees
<1>3. ASSUME NEW r \in Router, simnode_handler_read(r)
      PROVE  AgreeInvariant'
  <2>1. toCtl[r] # <<>>
    BY <1>3 DEF simnode_handler_read
  <2> QED
    BY <1>3, <2>1, RestartAgrees, ResponseAgrees
<1>4. ASSUME NEW r \in Router, delete_router(r)
      PROVE  AgreeInvariant'
  BY <1>4, DeleteAgrees
<1>5. ASSUME NEW r \in Router, Start(r)
      PROVE  AgreeInvariant'
  BY <1>5, StartAgrees
<1>6. ASSUME NEW r \in Router, Crash(r)
      PROVE  AgreeInvariant'
  BY <1>6, CrashAgrees
<1>7. ASSUME NEW r \in Router, process_uni_fd(r)
      PROVE  AgreeInvariant'
  BY <1>7, PacketAgrees
<1>8. ASSUME NEW r \in Router, recv_ctl_command(r)
      PROVE  AgreeInvariant'
  BY <1>8, CommandAgrees
<1>9. CASE UNCHANGED simVars
  BY <1>9 DEF simVars, AgreeInvariant, MapsOnTheWay
<1> QED
  BY <1>1, <1>2, <1>3, <1>4, <1>5, <1>6, <1>7, <1>8, <1>9 DEF Next

-----------------------------------------------------------------------------
(* A router that has read what the controller sent it has the addresses of *)
(* the routers that are there, with their ports, and no others, and each   *)
(* statistic is counted once for every node that has it, for any routers,  *)
(* addresses, crashes and restarts (restart_node, store_mapping,           *)
(* delete_router, send_addrmap and simnode_handler_read, sim.C;            *)
(* recv_ctl_command, ospfd_sim.C).                                         *)
THEOREM MapsAlwaysAgree == Spec => []MapsAgree
<1>1. SimInvariant /\ AgreeInvariant => MapsAgree
  <2> SUFFICES ASSUME SimInvariant, AgreeInvariant
               PROVE  MapsAgree
    OBVIOUS
  <2> DEFINE owned == MapsOf(ifmaps, node)
  <2>1. ASSUME NEW r \in Up, process[r].alive, toNode[r] = <<>>
        PROVE  process[r].address_map = owned
    <3>1. RightMap(process[r].address_map, <<>>, owned)
      BY <2>1, AgreeFacts DEF Up, Knows
    <3>2. \A e : Told(<<>>, e) = {}
      BY DEF Told
    <3>3. owned \subseteq Real
      <4>1. ifmaps \in SUBSET ToSet(Owners) /\ node \in [Router -> NodeRecord]
        BY AgreeFacts
      <4>2. owned \subseteq MapEntry
        BY <4>1, MapsType DEF MapMsg
      <4>3. ASSUME NEW e \in owned
            PROVE  e.port # 0
        <5>1. e \in MapEntry
          BY <4>2
        <5>2. node[e.home].up /\ node[e.home].port = e.port /\ e.home \in Router
          <6>1. e \in MapsOf(ifmaps, node) <=>
                  \E o \in ifmaps : /\ o[1] = e.addr /\ o[2] = e.home
                                    /\ node[e.home].up /\ node[e.home].port = e.port
            BY <4>1, <5>1, OwnedEntries
          <6> QED
            BY <5>1, <6>1 DEF MapEntry
        <5> QED
          BY <5>2, AgreeFacts
      <4> QED
        BY <4>2, <4>3 DEF Real
    <3> HIDE DEF owned
    <3> QED
      BY <3>1, <3>2, <3>3 DEF RightMap, RightFor
  <2>2. \A d : Have(node, d) = {r \in Up : node[r].dbstats = d}
    BY DEF Have, Up
  <2>3. \A d \in Db : (IF d \in DOMAIN stats THEN stats[d] ELSE 0)
                       = Cardinality({r \in Up : node[r].dbstats = d})
    <3>1. \A d \in Db : CountOf(stats, d) = Cardinality(Have(node, d))
      BY AgreeFacts DEF StatsRight
    <3> QED
      BY <2>2, <3>1, Zenon DEF CountOf
  <2>4. \A d \in DOMAIN stats : stats[d] > 0
    BY AgreeFacts DEF StatsRight, IsCount
  <2> QED
    BY <2>1, <2>3, <2>4 DEF MapsAgree
<1> QED
  BY <1>1, AgreeInit, AgreeNext, SimInit, SimNext, PTL DEF Spec

-----------------------------------------------------------------------------
(* The tables and the file.                                                *)
Name(r) == <<"rtr", r>>

IfcAddrs  == {IfcAddr(r, p) : r \in Router, p \in Prefix}
HostAddrs == {HostAddr(r) : r \in Router}

NetEntry  == [prefix : Prefix, area : Area, port : Nat]
IfcEntry  == [rtr : Router, type : {"pp", "broadcast"}, area : Area, addr : {Unnumbered} \cup IfcAddrs,
              port : Nat, on : BOOLEAN]
HostEntry == [rtr : Router, area : Area, addr : HostAddrs]
Names     == {Name(r) : r \in Router}
Port(i)   == <<"port", i>>

TableRecord ==
  [routers : Seq(Router), networks : Seq(NetEntry), interfaces : Seq(IfcEntry), hosts : Seq(HostEntry),
   areas : [Router -> [1..MaxAreas -> Area \cup {NULL}]],
   addr_mappings : Seq(({Unnumbered} \cup IfcAddrs \cup HostAddrs) \X Names),
   addr_net_memships : Seq({Port(i) : i \in Nat} \X Names), phy_portno : Nat]

FileTypeOK == file \in Seq(Lines) /\ tables \in TableRecord

-----------------------------------------------------------------------------
(* What Keep makes of a sequence that grows.                               *)
LEMMA KeepGrows ==
  ASSUME NEW X, NEW s \in Seq(X), NEW e \in X, NEW S, NEW T,
         \A i \in 1..Len(s) : s[i] \in S <=> s[i] \in T
  PROVE  Keep(Append(s, e), T) = IF e \in T THEN Append(Keep(s, S), e) ELSE Keep(s, S)
<1> DEFINE N == Len(s)
           t == Append(s, e)
<1>1. /\ N \in Nat /\ t \in Seq(X) /\ Len(t) = N + 1 /\ t[N + 1] = e
      /\ \A i \in 1..N : t[i] = s[i]
  OBVIOUS
<1>2. PICK v : Keeping(s, S, X, v)
  BY KeepUnrolled
<1> HIDE DEF t
<1>3. PICK w : Keeping(t, T, X, w)
  BY <1>1, KeepUnrolled
<1>4. w[0] \in {v[0]}
  BY <1>2, <1>3 DEF Keeping
<1>5. \A k \in 0..N : w[k] = v[k]
  <2> DEFINE Agree == {k \in Nat : k <= N => w[k] = v[k]}
  <2>1. 0 \in Agree
    BY <1>4
  <2>2. ASSUME NEW k \in Nat, k \in Agree PROVE k + 1 \in Agree
    <3> SUFFICES ASSUME k + 1 <= N PROVE w[k + 1] = v[k + 1]
      OBVIOUS
    <3>1. k + 1 \in 1..Len(t) /\ k + 1 \in 1..N /\ (k + 1) - 1 = k /\ t[k + 1] = s[k + 1]
      BY <1>1
    <3>2. w[k + 1] = IF t[k + 1] \in T THEN Append(w[k], t[k + 1]) ELSE w[k]
      BY <1>3, <3>1 DEF Keeping
    <3>3. v[k + 1] = IF s[k + 1] \in S THEN Append(v[k], s[k + 1]) ELSE v[k]
      BY <1>2, <3>1 DEF Keeping
    <3>4. w[k] = v[k]
      BY <2>2, <1>1
    <3> QED
      BY <3>1, <3>2, <3>3, <3>4
  <2>3. Nat \subseteq Agree
    <3> HIDE DEF Agree
    <3> QED
      BY <2>1, <2>2, SetInduction
  <2> QED
    BY <1>1, <2>3
<1>6. w[N + 1] = IF e \in T THEN Append(w[N], e) ELSE w[N]
  <2>1. N + 1 \in 1..Len(t) /\ (N + 1) - 1 = N
    BY <1>1
  <2> QED
    BY <1>1, <1>3, <2>1 DEF Keeping
<1>7. N \in 0..N
  BY <1>1
<1> QED
  BY <1>1, <1>2, <1>3, <1>5, <1>6, <1>7 DEF Keeping, t

(* The same of a router's part of a table.                                 *)
LEMMA MineGrows ==
  ASSUME NEW X, NEW s \in Seq(X), NEW e \in X, NEW r
  PROVE  Mine(Append(s, e), r) = IF e.rtr = r THEN Append(Mine(s, r), e) ELSE Mine(s, r)
<1> DEFINE S == {x \in ToSet(s) : x.rtr = r}
           T == {x \in ToSet(Append(s, e)) : x.rtr = r}
<1>1. \A i \in 1..Len(s) : s[i] \in S <=> s[i] \in T
  BY DEF ToSet
<1>2. e \in T <=> e.rtr = r
  BY DEF ToSet
<1>3. Keep(Append(s, e), T) = IF e \in T THEN Append(Keep(s, S), e) ELSE Keep(s, S)
  <2> HIDE DEF S, T
  <2> QED
    BY <1>1, KeepGrows
<1> QED
  BY <1>2, <1>3 DEF Mine

LEMMA MineIsSequence ==
  ASSUME NEW X, NEW s \in Seq(X), NEW r
  PROVE  /\ Mine(s, r) \in Seq(X)
         /\ \A e \in ToSet(Mine(s, r)) : e \in ToSet(s) /\ e.rtr = r
<1> DEFINE S == {x \in ToSet(s) : x.rtr = r}
<1>1. Keep(s, S) \in Seq(X \cap S)
  <2> HIDE DEF S
  <2> QED
    BY KeepIsSequence
<1>2. Mine(s, r) = Keep(s, S)
  BY DEF Mine
<1>3. ASSUME NEW q \in Seq(X \cap S)
      PROVE  q \in Seq(X) /\ \A e \in ToSet(q) : e \in S
  <2> HIDE DEF S
  <2>1. \A i \in 1..Len(q) : q[i] \in X \cap S
    OBVIOUS
  <2>2. DOMAIN q = 1..Len(q) /\ Len(q) \in Nat
    OBVIOUS
  <2>3. q \in Seq(X)
    BY <2>1
  <2> QED
    BY <2>1, <2>2, <2>3 DEF ToSet
<1> QED
  BY <1>1, <1>2, <1>3

(* What a set of a sequence becomes.                                       *)
LEMMA ToSetGrows ==
  ASSUME NEW X, NEW s \in Seq(X), NEW e
  PROVE  ToSet(Append(s, e)) = ToSet(s) \cup {e}
<1>1. /\ Len(Append(s, e)) = Len(s) + 1 /\ Len(s) \in Nat
      /\ DOMAIN Append(s, e) = 1..(Len(s) + 1) /\ DOMAIN s = 1..Len(s)
      /\ Append(s, e)[Len(s) + 1] = e
      /\ \A i \in 1..Len(s) : Append(s, e)[i] = s[i]
  OBVIOUS
<1> QED
  BY <1>1 DEF ToSet

-----------------------------------------------------------------------------
(* The areas of a router: those of S, each once, then nothing.             *)
RowHas(row, S) ==
  \E n \in 0..(MaxAreas - 1) :
    /\ n = Cardinality(S)
    /\ \A i \in 1..n : row[i] \in S
    /\ \A i, j \in 1..n : row[i] = row[j] => i = j
    /\ \A a \in S : \E i \in 1..n : row[i] = a
    /\ \A i \in (n + 1)..MaxAreas : row[i] = NULL

LEMMA AreasBounded ==
  /\ MaxAreas \in Nat \ {0}
  /\ \A S \in SUBSET Area : IsFiniteSet(S) /\ Cardinality(S) \in 0..(MaxAreas - 1)
<1>1. IsFiniteSet(Area) /\ Cardinality(Area) \in Nat
  BY SimConfigAssumption, FS_CardinalityType
<1>2. ASSUME NEW S \in SUBSET Area
      PROVE  IsFiniteSet(S) /\ Cardinality(S) \in Nat /\ Cardinality(S) <= Cardinality(Area)
  BY <1>1, FS_Subset, FS_CardinalityType
<1> QED
  BY <1>1, <1>2 DEF MaxAreas

LEMMA RowGrows ==
  ASSUME NEW row \in [1..MaxAreas -> Area \cup {NULL}], NEW S \in SUBSET Area, RowHas(row, S),
         NEW a \in Area
  PROVE  RowHas([row EXCEPT ![AreaPlace(row, a, 1)] = a], S \cup {a})
<1> DEFINE Fits(k) == row[k] \in {a, NULL} /\ \A j \in 1..(k - 1) : row[j] \notin {a, NULL}
           place == AreaPlace(row, a, 1)
           M == MaxAreas
<1>1. /\ M \in Nat \ {0} /\ S \cup {a} \in SUBSET Area
      /\ IsFiniteSet(S) /\ Cardinality(S) \in 0..(M - 1) /\ Cardinality(S \cup {a}) \in 0..(M - 1)
  BY AreasBounded
<1>2. a # NULL /\ NULL \notin S
  BY SimConfigAssumption
<1>3. PICK n \in 0..(M - 1) :
        /\ n = Cardinality(S)
        /\ \A i \in 1..n : row[i] \in S
        /\ \A i, j \in 1..n : row[i] = row[j] => i = j
        /\ \A b \in S : \E i \in 1..n : row[i] = b
        /\ \A i \in (n + 1)..M : row[i] = NULL
  BY DEF RowHas
<1>4. place = CHOOSE k \in 1..M : Fits(k)
  BY DEF AreaPlace
<1> HIDE DEF M, place
<1>5. CASE a \in S
  <2>1. PICK i \in 1..n : row[i] = a
    BY <1>3, <1>5
  <2>2. ASSUME NEW j \in 1..(i - 1) PROVE row[j] \notin {a, NULL}
    <3>1. j \in 1..n /\ j # i
      BY <1>1
    <3> QED
      BY <1>2, <1>3, <2>1, <3>1
  <2>3. i \in 1..M /\ Fits(i)
    BY <1>1, <2>1, <2>2
  <2>4. place \in 1..M /\ Fits(place)
    <3> HIDE DEF Fits
    <3> QED
      BY <1>4, <2>3
  <2>5. row[place] = a
    <3> SUFFICES ASSUME row[place] = NULL PROVE FALSE
      BY <2>4
    <3>1. place \notin 1..n
      BY <1>2, <1>3
    <3>2. i \in 1..(place - 1)
      BY <1>1, <2>4, <3>1
    <3> QED
      BY <2>1, <2>4, <3>2
  <2>6. [row EXCEPT ![place] = a] = row
    BY <2>4, <2>5, <1>1 DEF M
  <2>7. S \cup {a} = S
    BY <1>5
  <2> QED
    BY <2>6, <2>7 DEF place
<1>6. CASE a \notin S
  <2>1. Cardinality(S \cup {a}) = n + 1
    BY <1>1, <1>3, <1>6, FS_AddElement
  <2>2. n + 1 \in 0..(M - 1) /\ n + 1 \in 1..M
    BY <1>1, <2>1
  <2>3. Fits(n + 1)
    BY <1>1, <1>2, <1>3, <1>6, <2>2
  <2>4. place \in 1..M /\ Fits(place)
    <3> HIDE DEF Fits
    <3> QED
      BY <1>4, <2>2, <2>3
  <2>5. place = n + 1
    <3>1. place \notin 1..n
      BY <1>2, <1>3, <1>6, <2>4
    <3>2. n + 1 \notin 1..(place - 1)
      BY <1>1, <1>3, <2>2, <2>4
    <3> QED
      BY <1>1, <2>2, <2>4, <3>1, <3>2
  <2> DEFINE new == [row EXCEPT ![place] = a]
             m == n + 1
  <2>6. /\ \A i \in 1..n : new[i] = row[i]
        /\ new[m] = a
        /\ \A i \in (m + 1)..M : new[i] = row[i] /\ i \in (n + 1)..M
    BY <1>1, <2>2, <2>5 DEF M
  <2> HIDE DEF new
  <2>7. \A i \in 1..m : i \in 1..n \/ i = m
    BY <1>1
  <2>8. \A i \in 1..m : new[i] \in S \cup {a}
    BY <1>3, <2>6, <2>7
  <2>9. \A i, j \in 1..m : new[i] = new[j] => i = j
    BY <1>3, <1>6, <2>6, <2>7
  <2>10. \A b \in S \cup {a} : \E i \in 1..m : new[i] = b
    <3>1. \A i \in 1..n : i \in 1..m
      BY <1>1
    <3>2. m \in 1..m
      BY <1>1
    <3> QED
      BY <1>3, <2>6, <3>1, <3>2
  <2>11. \A i \in (m + 1)..M : new[i] = NULL
    BY <1>3, <2>6
  <2>12. RowHas(new, S \cup {a})
    <3> HIDE DEF m
    <3>1. m \in 0..(M - 1) /\ m = Cardinality(S \cup {a})
      BY <2>1, <2>2 DEF m
    <3> QED
      BY <2>8, <2>9, <2>10, <2>11, <3>1 DEF RowHas, M
  <2> QED
    BY <2>12 DEF new, place
<1> QED
  BY <1>5, <1>6

(* The row has a type.                                                     *)
LEMMA RowType ==
  ASSUME NEW row \in [1..MaxAreas -> Area \cup {NULL}], NEW k, NEW a \in Area
  PROVE  [row EXCEPT ![k] = a] \in [1..MaxAreas -> Area \cup {NULL}]
OBVIOUS

-----------------------------------------------------------------------------
(* What a router makes of the messages with its configuration.             *)
Msg ==
  [type : {"gen"}] \cup [type : {"area"}, area : Area]
  \cup [type : {"ifc"}, add : BOOLEAN, ifc : IfcEntry] \cup [type : {"host"}, host : HostEntry]

ConfRecord == [areas : Seq(Area), ifcs : SUBSET IfcEntry, hosts : SUBSET HostEntry]

LEMMA ConfigEffect ==
  ASSUME NEW c \in ConfRecord, NEW m \in Msg
  PROVE  /\ m.type \in {"gen", "area", "ifc", "host"}
         /\ m.type = "gen" => config(c, m) = c
         /\ m.type = "area" => /\ m.area \in Area
                               /\ config(c, m) = [c EXCEPT !.areas = Append(@, m.area)]
         /\ m.type = "ifc" => /\ m.ifc \in IfcEntry
                              /\ config(c, m) = [c EXCEPT !.ifcs = {i \in @ : ~Same(i, m.ifc)}
                                                            \cup (IF m.add THEN {m.ifc} ELSE {})]
         /\ m.type = "host" => /\ m.host \in HostEntry
                               /\ config(c, m) = [c EXCEPT !.hosts = @ \cup {m.host}]
<1>1. m.type \in {"gen", "area", "ifc", "host"}
  BY DEF Msg
<1>2. m.type = "gen" => config(c, m) = c
  BY DEF config
<1>3. m.type = "area" => m.area \in Area /\ config(c, m) = [c EXCEPT !.areas = Append(@, m.area)]
  BY DEF config, Msg
<1>4. m.type = "ifc" => /\ m.ifc \in IfcEntry
                        /\ config(c, m) = [c EXCEPT !.ifcs = {i \in @ : ~Same(i, m.ifc)}
                                                      \cup (IF m.add THEN {m.ifc} ELSE {})]
  BY DEF config, Msg
<1>5. m.type = "host" => m.host \in HostEntry /\ config(c, m) = [c EXCEPT !.hosts = @ \cup {m.host}]
  BY DEF config, Msg
<1> QED
  BY <1>1, <1>2, <1>3, <1>4, <1>5

LEMMA ConfigTyped ==
  ASSUME NEW c \in ConfRecord, NEW m \in Msg
  PROVE  config(c, m) \in ConfRecord
<1>1. c.areas \in Seq(Area) /\ c.ifcs \in SUBSET IfcEntry /\ c.hosts \in SUBSET HostEntry
  BY DEF ConfRecord
<1>2. CASE m.type = "gen"
  BY <1>2, ConfigEffect
<1>3. CASE m.type = "area"
  BY <1>1, <1>3, ConfigEffect DEF ConfRecord
<1>4. CASE m.type = "ifc"
  <2> DEFINE s == {i \in c.ifcs : ~Same(i, m.ifc)} \cup (IF m.add THEN {m.ifc} ELSE {})
  <2>1. s \in SUBSET IfcEntry
    BY <1>1, <1>4, ConfigEffect
  <2>2. config(c, m) = [c EXCEPT !.ifcs = s]
    BY <1>4, ConfigEffect
  <2> HIDE DEF s
  <2> QED
    BY <2>1, <2>2 DEF ConfRecord
<1>5. CASE m.type = "host"
  BY <1>1, <1>5, ConfigEffect DEF ConfRecord
<1> QED
  BY <1>2, <1>3, <1>4, <1>5, ConfigEffect

(* c[k] is the configuration after k messages.                             *)
Configuring(ms, c) ==
  /\ c[0] = NotConfigured
  /\ \A k \in 1..Len(ms) : c[k] = config(c[k - 1], ms[k])
  /\ \A k \in 0..Len(ms) : c[k] \in ConfRecord
  /\ Configured(ms) = c[Len(ms)]

LEMMA ConfiguredUnrolled ==
  ASSUME NEW ms \in Seq(Msg)
  PROVE  \E c : Configuring(ms, c)
<1> DEFINE N == Len(ms)
           F == [p \in ConfRecord \X (1..N) |-> config(p[1], ms[p[2]])]
           Does(w) == w = [n \in 0..N |-> IF n = 0 THEN NotConfigured ELSE config(w[n - 1], ms[n])]
<1>1. /\ N \in Nat /\ NotConfigured \in ConfRecord
      /\ \A k \in 1..N : ms[k] \in Msg
      /\ \A k \in 1..N : \A a \in ConfRecord : config(a, ms[k]) \in ConfRecord
  BY ConfigTyped DEF NotConfigured, ConfRecord
<1>2. F \in [ConfRecord \X (1..N) -> ConfRecord]
  BY <1>1
<1>3. \A k \in 1..N : \A a \in ConfRecord : F[<<a, k>>] = config(a, ms[k])
  OBVIOUS
<1>4. Configured(ms) = (CHOOSE w : Does(w))[N]
  BY DEF Configured
<1> HIDE DEF F, N
<1>5. PICK f \in [0..N -> ConfRecord] : Iterates(f, N, NotConfigured, F)
  BY <1>1, <1>2, IterationExists
<1>6. \A k \in 0..N : IF k = 0 THEN f[k] = NotConfigured ELSE f[k] = config(f[k - 1], ms[k])
  <2> HIDE DEF Does
  <2>1. \A k \in 0..N : f[k] = IF k = 0 THEN NotConfigured ELSE F[<<f[k - 1], k>>]
    <3> HIDE DEF NotConfigured
    <3>1. f = [k \in 0..N |-> IF k = 0 THEN NotConfigured ELSE F[<<f[k - 1], k>>]]
      BY <1>5 DEF Iterates
    <3> QED
      BY <3>1, Zenon
  <2>2. \A k \in 0..N : k # 0 => k \in 1..N /\ k - 1 \in 0..N
    BY <1>1
  <2>3. \A k \in 0..N : f[k] \in ConfRecord
    BY <1>5
  <2>4. \A k \in 0..N : k # 0 => F[<<f[k - 1], k>>] = config(f[k - 1], ms[k])
    BY <1>3, <2>2, <2>3
  <2> QED
    BY <2>1, <2>4
<1>7. Does(f)
  BY <1>6
<1> DEFINE v == CHOOSE w : Does(w)
<1>8. Does(v)
  <2> HIDE DEF Does
  <2> QED
    BY <1>7
<1>9. /\ v[0] = NotConfigured
      /\ \A k \in 1..N : v[k] = config(v[k - 1], ms[k])
  <2> HIDE DEF v
  <2>1. \A k \in 0..N : v[k] = IF k = 0 THEN NotConfigured ELSE config(v[k - 1], ms[k])
    BY <1>8, Zenon
  <2>2. 0 \in 0..N /\ \A k \in 1..N : k \in 0..N /\ k # 0
    BY <1>1
  <2> QED
    BY <2>1, <2>2
<1> HIDE DEF v
<1>10. \A k \in 0..N : v[k] \in ConfRecord
  <2>1. v[0] \in ConfRecord /\ \A k \in 1..N : v[k - 1] \in ConfRecord => v[k] \in ConfRecord
    BY <1>1, <1>9
  <2> QED
    BY <1>1, <2>1, AllValues
<1>11. Configured(ms) = v[N]
  BY <1>4 DEF v
<1> QED
  BY <1>9, <1>10, <1>11 DEF N, Configuring

(* The interfaces that are left after the first k lines of a table: a      *)
(* later line about the same one replaces or removes it.                   *)
LiveTo(q, k) == {q[i] : i \in {j \in 1..k : q[j].on /\ \A l \in (j + 1)..k : ~Same(q[j], q[l])}}
Live(q) == LiveTo(q, Len(q))

LEMMA LiveGrows ==
  ASSUME NEW q, NEW k \in Nat
  PROVE  LiveTo(q, k + 1) = {x \in LiveTo(q, k) : ~Same(x, q[k + 1])}
                             \cup (IF q[k + 1].on THEN {q[k + 1]} ELSE {})
<1> DEFINE e == q[k + 1]
           Left(j) == q[j].on /\ \A l \in (j + 1)..k : ~Same(q[j], q[l])
           Stays(j) == q[j].on /\ \A l \in (j + 1)..(k + 1) : ~Same(q[j], q[l])
<1>1. \A j \in 1..k : Stays(j) <=> Left(j) /\ ~Same(q[j], e)
  <2>1. \A j \in 1..k : \A l : l \in (j + 1)..(k + 1) <=> l \in (j + 1)..k \/ l = k + 1
    OBVIOUS
  <2> QED
    BY <2>1
<1>2. Stays(k + 1) <=> e.on
  OBVIOUS
<1>3. \A j : j \in 1..(k + 1) <=> j \in 1..k \/ j = k + 1
  OBVIOUS
<1>4. LiveTo(q, k + 1) = {q[i] : i \in {j \in 1..(k + 1) : Stays(j)}}
  BY DEF LiveTo
<1>5. LiveTo(q, k) = {q[i] : i \in {j \in 1..k : Left(j)}}
  BY DEF LiveTo
<1> HIDE DEF Left, Stays
<1> QED
  BY <1>1, <1>2, <1>3, <1>4, <1>5

LEMMA LiveAppend ==
  ASSUME NEW X, NEW q \in Seq(X), NEW e
  PROVE  Live(Append(q, e)) = {x \in Live(q) : ~Same(x, e)} \cup (IF e.on THEN {e} ELSE {})
<1> DEFINE w == Append(q, e)
           k == Len(q)
<1>1. k \in Nat /\ Len(w) = k + 1 /\ w[k + 1] = e /\ \A i \in 1..k : w[i] = q[i]
  OBVIOUS
<1> HIDE DEF w, k
<1>2. LiveTo(w, k + 1) = {x \in LiveTo(w, k) : ~Same(x, w[k + 1])}
                          \cup (IF w[k + 1].on THEN {w[k + 1]} ELSE {})
  BY <1>1, LiveGrows
<1>3. LiveTo(w, k) = LiveTo(q, k)
  <2>1. \A j \in 1..k : \A l \in (j + 1)..k : l \in 1..k
    BY <1>1
  <2> QED
    BY <1>1, <2>1 DEF LiveTo
<1> QED
  BY <1>1, <1>2, <1>3 DEF Live, w, k

LEMMA LiveFrom ==
  ASSUME NEW q
  PROVE  \A k \in Nat : \A x \in LiveTo(q, k) : x.on /\ \E i \in 1..k : x = q[i]
BY DEF LiveTo

LEMMA Joined ==
  ASSUME NEW X, NEW s \in Seq(X), NEW t \in Seq(X)
  PROVE  /\ s \o t \in Seq(X) /\ Len(s \o t) = Len(s) + Len(t)
         /\ \A i \in 1..Len(s) : (s \o t)[i] = s[i]
         /\ \A i \in 1..Len(t) : (s \o t)[Len(s) + i] = t[i]
<1>1. Len(s) \in Nat /\ Len(t) \in Nat
  OBVIOUS
<1>2. \A i \in 1..Len(t) : (Len(s) + i) - Len(s) = i /\ Len(s) + i > Len(s)
  BY <1>1
<1> QED
  BY <1>1, <1>2

(* The messages that are sent for areas a, interfaces q and hosts h.       *)
Sent(a, q, h) ==
  <<[type |-> "gen"]>>
  \o [i \in DOMAIN a |-> [type |-> "area", area |-> a[i]]]
  \o [i \in DOMAIN q |-> [type |-> "ifc", add |-> q[i].on, ifc |-> q[i]]]
  \o [i \in DOMAIN h |-> [type |-> "host", host |-> h[i]]]

LEMMA SentInOrder ==
  ASSUME NEW a \in Seq(Area), NEW q \in Seq(IfcEntry), NEW h \in Seq(HostEntry)
  PROVE  LET ms == Sent(a, q, h)
         IN  /\ ms \in Seq(Msg) /\ Len(ms) = 1 + Len(a) + Len(q) + Len(h)
             /\ ms[1] = [type |-> "gen"]
             /\ \A i \in 1..Len(a) : ms[1 + i] = [type |-> "area", area |-> a[i]]
             /\ \A i \in 1..Len(q) : ms[1 + Len(a) + i] = [type |-> "ifc", add |-> q[i].on, ifc |-> q[i]]
             /\ \A i \in 1..Len(h) : ms[1 + Len(a) + Len(q) + i] = [type |-> "host", host |-> h[i]]
<1> DEFINE G == <<[type |-> "gen"]>>
           A == [i \in DOMAIN a |-> [type |-> "area", area |-> a[i]]]
           Q == [i \in DOMAIN q |-> [type |-> "ifc", add |-> q[i].on, ifc |-> q[i]]]
           H == [i \in DOMAIN h |-> [type |-> "host", host |-> h[i]]]
<1>1. G \in Seq(Msg) /\ Len(G) = 1 /\ G[1] = [type |-> "gen"]
  BY DEF Msg
<1>2. /\ A \in Seq(Msg) /\ Len(A) = Len(a)
      /\ \A i \in 1..Len(a) : A[i] = [type |-> "area", area |-> a[i]]
  <2>1. \A i \in 1..Len(a) : [type |-> "area", area |-> a[i]] \in Msg
    BY DEF Msg
  <2>2. A = [i \in 1..Len(a) |-> [type |-> "area", area |-> a[i]]]
    OBVIOUS
  <2>3. Len(a) \in Nat
    OBVIOUS
  <2> HIDE DEF A
  <2> QED
    BY <2>1, <2>2, <2>3
<1>3. /\ Q \in Seq(Msg) /\ Len(Q) = Len(q)
      /\ \A i \in 1..Len(q) : Q[i] = [type |-> "ifc", add |-> q[i].on, ifc |-> q[i]]
  <2>1. \A i \in 1..Len(q) : [type |-> "ifc", add |-> q[i].on, ifc |-> q[i]] \in Msg
    <3>1. \A e \in IfcEntry : e.on \in BOOLEAN
      BY DEF IfcEntry
    <3>2. \A i \in 1..Len(q) : q[i] \in IfcEntry
      OBVIOUS
    <3> QED
      BY <3>1, <3>2 DEF Msg
  <2>2. Q = [i \in 1..Len(q) |-> [type |-> "ifc", add |-> q[i].on, ifc |-> q[i]]]
    OBVIOUS
  <2>3. Len(q) \in Nat
    OBVIOUS
  <2> HIDE DEF Q
  <2> QED
    BY <2>1, <2>2, <2>3
<1>4. /\ H \in Seq(Msg) /\ Len(H) = Len(h)
      /\ \A i \in 1..Len(h) : H[i] = [type |-> "host", host |-> h[i]]
  <2>1. \A i \in 1..Len(h) : [type |-> "host", host |-> h[i]] \in Msg
    BY DEF Msg
  <2>2. H = [i \in 1..Len(h) |-> [type |-> "host", host |-> h[i]]]
    OBVIOUS
  <2>3. Len(h) \in Nat
    OBVIOUS
  <2> HIDE DEF H
  <2> QED
    BY <2>1, <2>2, <2>3
<1>5. Sent(a, q, h) = G \o A \o Q \o H
  BY DEF Sent
<1> HIDE DEF G, A, Q, H
<1> DEFINE GA == G \o A
           GAQ == GA \o Q
           ms == GAQ \o H
<1>6. /\ GA \in Seq(Msg) /\ Len(GA) = 1 + Len(a)
      /\ GA[1] = G[1] /\ \A i \in 1..Len(a) : GA[1 + i] = A[i]
  <2> HIDE DEF GAQ, ms
  <2>1. /\ GA \in Seq(Msg) /\ Len(GA) = Len(G) + Len(A)
        /\ \A i \in 1..Len(G) : GA[i] = G[i]
        /\ \A i \in 1..Len(A) : GA[Len(G) + i] = A[i]
    <3>1. G \in Seq(Msg) /\ A \in Seq(Msg)
      BY <1>1, <1>2
    <3>2. /\ G \o A \in Seq(Msg) /\ Len(G \o A) = Len(G) + Len(A)
          /\ \A i \in 1..Len(G) : (G \o A)[i] = G[i]
          /\ \A i \in 1..Len(A) : (G \o A)[Len(G) + i] = A[i]
      BY <3>1, Joined
    <3> QED
      BY <3>2
  <2> HIDE DEF GA
  <2> QED
    BY <1>1, <1>2, <2>1
<1> HIDE DEF GA
<1>7. /\ GAQ \in Seq(Msg) /\ Len(GAQ) = 1 + Len(a) + Len(q)
      /\ \A i \in 1..(1 + Len(a)) : GAQ[i] = GA[i]
      /\ \A i \in 1..Len(q) : GAQ[1 + Len(a) + i] = Q[i]
  <2> HIDE DEF ms
  <2>1. /\ GAQ \in Seq(Msg) /\ Len(GAQ) = Len(GA) + Len(Q)
        /\ \A i \in 1..Len(GA) : GAQ[i] = GA[i]
        /\ \A i \in 1..Len(Q) : GAQ[Len(GA) + i] = Q[i]
    <3>1. GA \in Seq(Msg) /\ Q \in Seq(Msg)
      BY <1>3, <1>6
    <3>2. /\ GA \o Q \in Seq(Msg) /\ Len(GA \o Q) = Len(GA) + Len(Q)
          /\ \A i \in 1..Len(GA) : (GA \o Q)[i] = GA[i]
          /\ \A i \in 1..Len(Q) : (GA \o Q)[Len(GA) + i] = Q[i]
      BY <3>1, Joined
    <3> QED
      BY <3>2
  <2> HIDE DEF GAQ
  <2> QED
    BY <1>3, <1>6, <2>1
<1> HIDE DEF GAQ
<1>8. /\ ms \in Seq(Msg) /\ Len(ms) = 1 + Len(a) + Len(q) + Len(h)
      /\ \A i \in 1..(1 + Len(a) + Len(q)) : ms[i] = GAQ[i]
      /\ \A i \in 1..Len(h) : ms[1 + Len(a) + Len(q) + i] = H[i]
  <2>1. /\ ms \in Seq(Msg) /\ Len(ms) = Len(GAQ) + Len(H)
        /\ \A i \in 1..Len(GAQ) : ms[i] = GAQ[i]
        /\ \A i \in 1..Len(H) : ms[Len(GAQ) + i] = H[i]
    <3>1. GAQ \in Seq(Msg) /\ H \in Seq(Msg)
      BY <1>4, <1>7
    <3>2. /\ GAQ \o H \in Seq(Msg) /\ Len(GAQ \o H) = Len(GAQ) + Len(H)
          /\ \A i \in 1..Len(GAQ) : (GAQ \o H)[i] = GAQ[i]
          /\ \A i \in 1..Len(H) : (GAQ \o H)[Len(GAQ) + i] = H[i]
      BY <3>1, Joined
    <3> QED
      BY <3>2
  <2> HIDE DEF ms
  <2> QED
    BY <1>4, <1>7, <2>1
<1> HIDE DEF ms
<1>9. Len(a) \in Nat /\ Len(q) \in Nat /\ Len(h) \in Nat
  OBVIOUS
<1>10. ms[1] = [type |-> "gen"]
  BY <1>1, <1>6, <1>7, <1>8, <1>9
<1>11. \A i \in 1..Len(a) : ms[1 + i] = [type |-> "area", area |-> a[i]]
  <2>1. \A i \in 1..Len(a) : 1 + i \in 1..(1 + Len(a)) /\ 1 + i \in 1..(1 + Len(a) + Len(q))
    BY <1>9
  <2> QED
    <3> SUFFICES ASSUME NEW i \in 1..Len(a) PROVE ms[1 + i] = [type |-> "area", area |-> a[i]]
      OBVIOUS
    <3>1. ms[1 + i] = GAQ[1 + i] /\ GAQ[1 + i] = GA[1 + i]
      BY <1>7, <1>8, <2>1
    <3> QED
      BY <1>2, <1>6, <3>1
<1>12. \A i \in 1..Len(q) : ms[1 + Len(a) + i] = [type |-> "ifc", add |-> q[i].on, ifc |-> q[i]]
  <2>1. \A i \in 1..Len(q) : 1 + Len(a) + i \in 1..(1 + Len(a) + Len(q))
    BY <1>9
  <2> QED
    BY <1>3, <1>7, <1>8, <2>1
<1>13. \A i \in 1..Len(h) : ms[1 + Len(a) + Len(q) + i] = [type |-> "host", host |-> h[i]]
  BY <1>4, <1>8
<1>14. Sent(a, q, h) = ms
  BY <1>5 DEF ms, GAQ, GA
<1> QED
  BY <1>8, <1>10, <1>11, <1>12, <1>13, <1>14

(* After all the messages: the areas in their order, the interfaces that   *)
(* are left, the hosts.                                                    *)
LEMMA SentConfigures ==
  ASSUME NEW a \in Seq(Area), NEW q \in Seq(IfcEntry), NEW h \in Seq(HostEntry)
  PROVE  LET c == Configured(Sent(a, q, h))
         IN  c.areas = a /\ c.ifcs = Live(q) /\ c.hosts = ToSet(h)
<1> DEFINE ms == Sent(a, q, h)
           na == Len(a)
           nq == Len(q)
           nh == Len(h)
<1>1. /\ ms \in Seq(Msg) /\ Len(ms) = 1 + na + nq + nh
      /\ ms[1] = [type |-> "gen"]
      /\ \A i \in 1..na : ms[1 + i] = [type |-> "area", area |-> a[i]]
      /\ \A i \in 1..nq : ms[1 + na + i] = [type |-> "ifc", add |-> q[i].on, ifc |-> q[i]]
      /\ \A i \in 1..nh : ms[1 + na + nq + i] = [type |-> "host", host |-> h[i]]
  BY SentInOrder
<1>2. na \in Nat /\ nq \in Nat /\ nh \in Nat
  OBVIOUS
<1>3. \A i \in 1..na : a[i] \in Area
  OBVIOUS
<1> HIDE DEF ms
<1>4. PICK c : Configuring(ms, c)
  BY <1>1, ConfiguredUnrolled
<1>5. ASSUME NEW k \in 0..(na + nq + nh)
      PROVE  /\ c[k] \in ConfRecord /\ ms[k + 1] \in Msg
             /\ c[k + 1] = config(c[k], ms[k + 1])
  <2>1. k + 1 \in 1..Len(ms) /\ (k + 1) - 1 = k /\ k \in 0..Len(ms)
    BY <1>1, <1>2
  <2> QED
    BY <1>1, <1>4, <2>1 DEF Configuring
<1> HIDE DEF na, nq, nh
<1>6. c[1] = NotConfigured
  <2>1. c[1] = config(c[0], ms[1]) /\ c[0] \in ConfRecord /\ ms[1] \in Msg
    BY <1>2, <1>5
  <2>2. c[0] = NotConfigured
    BY <1>4 DEF Configuring
  <2> QED
    BY <1>1, <2>1, <2>2, ConfigEffect
<1>7. \A k \in Nat : k <= na =>
        /\ Len(c[1 + k].areas) = k /\ \A i \in 1..k : c[1 + k].areas[i] = a[i]
        /\ c[1 + k].ifcs = {} /\ c[1 + k].hosts = {}
  <2> DEFINE R == {k \in Nat : k <= na =>
                     /\ Len(c[1 + k].areas) = k /\ \A i \in 1..k : c[1 + k].areas[i] = a[i]
                     /\ c[1 + k].ifcs = {} /\ c[1 + k].hosts = {}}
  <2>1. 0 \in R
    BY <1>6 DEF NotConfigured
  <2>2. ASSUME NEW k \in Nat, k \in R PROVE k + 1 \in R
    <3> SUFFICES ASSUME k + 1 <= na
                 PROVE  /\ Len(c[1 + (k + 1)].areas) = k + 1
                        /\ \A i \in 1..(k + 1) : c[1 + (k + 1)].areas[i] = a[i]
                        /\ c[1 + (k + 1)].ifcs = {} /\ c[1 + (k + 1)].hosts = {}
      OBVIOUS
    <3> DEFINE old == c[1 + k]
               m == ms[1 + (k + 1)]
    <3>1. old \in ConfRecord /\ m \in Msg /\ c[1 + (k + 1)] = config(old, m)
      <4>1. 1 + k \in 0..(na + nq + nh) /\ (1 + k) + 1 = 1 + (k + 1)
        BY <1>2
      <4> QED
        BY <1>5, <4>1
    <3>2. m = [type |-> "area", area |-> a[k + 1]]
      BY <1>1, <1>2
    <3>3. /\ Len(old.areas) = k /\ \A i \in 1..k : old.areas[i] = a[i]
          /\ old.ifcs = {} /\ old.hosts = {}
      BY <2>2, <1>2
    <3> HIDE DEF old, m, R
    <3>4. m.type = "area" /\ m.area = a[k + 1]
      BY <3>2
    <3>5. c[1 + (k + 1)] = [old EXCEPT !.areas = Append(@, m.area)]
      BY <3>1, <3>4, ConfigEffect
    <3>6. /\ c[1 + (k + 1)].areas = Append(old.areas, a[k + 1]) /\ old.areas \in Seq(Area)
          /\ c[1 + (k + 1)].ifcs = old.ifcs /\ c[1 + (k + 1)].hosts = old.hosts
      BY <3>1, <3>4, <3>5 DEF ConfRecord
    <3> QED
      BY <3>3, <3>6
  <2>3. Nat \subseteq R
    <3> HIDE DEF R
    <3> QED
      BY <2>1, <2>2, SetInduction
  <2> QED
    BY <2>3
<1>8. c[1 + na].areas = a /\ c[1 + na].ifcs = {} /\ c[1 + na].hosts = {}
  <2>1. /\ Len(c[1 + na].areas) = na /\ \A i \in 1..na : c[1 + na].areas[i] = a[i]
        /\ c[1 + na].ifcs = {} /\ c[1 + na].hosts = {}
    <3>1. na <= na
      BY <1>2
    <3> QED
      BY <1>2, <1>7, <3>1
  <2>2. c[1 + na].areas \in Seq(Area)
    <3>1. 1 + na \in 0..Len(ms)
      BY <1>1, <1>2
    <3> QED
      BY <1>4, <3>1 DEF Configuring, ConfRecord
  <2> DEFINE b == c[1 + na].areas
  <2>3. Len(b) = Len(a) /\ \A i \in 1..Len(a) : b[i] = a[i]
    BY <2>1 DEF na
  <2>4. b \in Seq(Area)
    BY <2>2
  <2> HIDE DEF b
  <2>5. b = a
    BY <2>3, <2>4
  <2> QED
    BY <2>1, <2>5 DEF b
<1>9. \A k \in Nat : k <= nq =>
        c[1 + na + k].areas = a /\ c[1 + na + k].ifcs = LiveTo(q, k) /\ c[1 + na + k].hosts = {}
  <2> DEFINE R == {k \in Nat : k <= nq => /\ c[1 + na + k].areas = a
                                          /\ c[1 + na + k].ifcs = LiveTo(q, k)
                                          /\ c[1 + na + k].hosts = {}}
  <2>1. 0 \in R
    <3>1. LiveTo(q, 0) = {} /\ 1 + na + 0 = 1 + na
      BY <1>2 DEF LiveTo
    <3> QED
      BY <1>8, <3>1
  <2>2. ASSUME NEW k \in Nat, k \in R PROVE k + 1 \in R
    <3> SUFFICES ASSUME k + 1 <= nq
                 PROVE  /\ c[1 + na + (k + 1)].areas = a
                        /\ c[1 + na + (k + 1)].ifcs = LiveTo(q, k + 1)
                        /\ c[1 + na + (k + 1)].hosts = {}
      OBVIOUS
    <3> DEFINE old == c[1 + na + k]
               m == ms[1 + na + (k + 1)]
    <3>1. old \in ConfRecord /\ m \in Msg /\ c[1 + na + (k + 1)] = config(old, m)
      <4>1. 1 + na + k \in 0..(na + nq + nh) /\ (1 + na + k) + 1 = 1 + na + (k + 1)
        BY <1>2
      <4> QED
        BY <1>5, <4>1
    <3>2. m = [type |-> "ifc", add |-> q[k + 1].on, ifc |-> q[k + 1]]
      BY <1>1, <1>2
    <3>3. old.areas = a /\ old.ifcs = LiveTo(q, k) /\ old.hosts = {}
      BY <2>2, <1>2
    <3> HIDE DEF old, m, R
    <3>4. m.type = "ifc" /\ m.add = q[k + 1].on /\ m.ifc = q[k + 1]
      BY <3>2
    <3> DEFINE left == {x \in old.ifcs : ~Same(x, m.ifc)} \cup (IF m.add THEN {m.ifc} ELSE {})
    <3>5. c[1 + na + (k + 1)] = [old EXCEPT !.ifcs = left]
      BY <3>1, <3>4, ConfigEffect
    <3>6. left = LiveTo(q, k + 1)
      <4>1. LiveTo(q, k + 1) = {x \in LiveTo(q, k) : ~Same(x, q[k + 1])}
                                \cup (IF q[k + 1].on THEN {q[k + 1]} ELSE {})
        BY LiveGrows
      <4> QED
        BY <3>3, <3>4, <4>1
    <3> HIDE DEF left
    <3>7. /\ c[1 + na + (k + 1)].areas = old.areas /\ c[1 + na + (k + 1)].hosts = old.hosts
          /\ c[1 + na + (k + 1)].ifcs = left
      BY <3>1, <3>5 DEF ConfRecord
    <3> QED
      BY <3>3, <3>6, <3>7
  <2>3. Nat \subseteq R
    <3> HIDE DEF R
    <3> QED
      BY <2>1, <2>2, SetInduction
  <2> QED
    BY <2>3
<1> DEFINE After(k) == /\ c[1 + na + nq + k].areas = a
                       /\ c[1 + na + nq + k].ifcs = Live(q)
                       /\ c[1 + na + nq + k].hosts = {h[i] : i \in 1..k}
<1>10. \A k \in Nat : k <= nh => After(k)
  <2> DEFINE R == {k \in Nat : k <= nh => After(k)}
  <2>1. 0 \in R
    <3>1. /\ c[1 + na + nq].areas = a /\ c[1 + na + nq].ifcs = LiveTo(q, nq)
          /\ c[1 + na + nq].hosts = {}
      BY <1>2, <1>9
    <3>2. 1 + na + nq + 0 = 1 + na + nq /\ {h[i] : i \in 1..0} = {}
      BY <1>2
    <3> QED
      BY <3>1, <3>2 DEF Live, nq
  <2>2. ASSUME NEW k \in Nat, k \in R PROVE k + 1 \in R
    <3> SUFFICES ASSUME k + 1 <= nh
                 PROVE  /\ c[1 + na + nq + (k + 1)].areas = a
                        /\ c[1 + na + nq + (k + 1)].ifcs = Live(q)
                        /\ c[1 + na + nq + (k + 1)].hosts = {h[i] : i \in 1..(k + 1)}
      OBVIOUS
    <3> DEFINE old == c[1 + na + nq + k]
               m == ms[1 + na + nq + (k + 1)]
    <3>1. old \in ConfRecord /\ m \in Msg /\ c[1 + na + nq + (k + 1)] = config(old, m)
      <4>1. 1 + na + nq + k \in 0..(na + nq + nh) /\ (1 + na + nq + k) + 1 = 1 + na + nq + (k + 1)
        BY <1>2
      <4> QED
        BY <1>5, <4>1
    <3>2. m = [type |-> "host", host |-> h[k + 1]]
      BY <1>1, <1>2
    <3>3. old.areas = a /\ old.ifcs = Live(q) /\ old.hosts = {h[i] : i \in 1..k}
      <4>1. After(k)
        <5> HIDE DEF After
        <5>1. k <= nh
          BY <1>2
        <5> QED
          BY <2>2, <5>1
      <4> QED
        BY <4>1
    <3> HIDE DEF old, m, R
    <3>4. m.type = "host" /\ m.host = h[k + 1]
      BY <3>2
    <3>5. c[1 + na + nq + (k + 1)] = [old EXCEPT !.hosts = @ \cup {m.host}]
      BY <3>1, <3>4, ConfigEffect
    <3>6. /\ c[1 + na + nq + (k + 1)].areas = old.areas /\ c[1 + na + nq + (k + 1)].ifcs = old.ifcs
          /\ c[1 + na + nq + (k + 1)].hosts = old.hosts \cup {h[k + 1]}
      BY <3>1, <3>4, <3>5 DEF ConfRecord
    <3>7. {h[i] : i \in 1..(k + 1)} = {h[i] : i \in 1..k} \cup {h[k + 1]}
      <4>1. \A i : i \in 1..(k + 1) <=> i \in 1..k \/ i = k + 1
        OBVIOUS
      <4> QED
        BY <4>1
    <3> QED
      BY <3>3, <3>6, <3>7
  <2>3. Nat \subseteq R
    <3> HIDE DEF R
    <3> QED
      BY <2>1, <2>2, SetInduction
  <2> QED
    BY <2>3
<1>11. /\ c[1 + na + nq + nh].areas = a /\ c[1 + na + nq + nh].ifcs = Live(q)
       /\ c[1 + na + nq + nh].hosts = {h[i] : i \in 1..nh}
  <2>1. After(nh)
    <3> HIDE DEF After
    <3> QED
      BY <1>2, <1>10
  <2> QED
    BY <2>1
<1>12. Configured(ms) = c[1 + na + nq + nh]
  BY <1>1, <1>4 DEF Configuring
<1>13. ToSet(h) = {h[i] : i \in 1..nh}
  BY DEF ToSet, nh
<1> QED
  BY <1>11, <1>12, <1>13 DEF ms

(* What the router r gets when its areas are those of S.                   *)
LEMMA RouterConfigured ==
  ASSUME FileTypeOK, NEW r \in Router, NEW S \in SUBSET Area, RowHas(tables.areas[r], S)
  PROVE  LET c == Configured(sendCfgToRouterId(r))
         IN  /\ ToSet(c.areas) = S /\ Len(c.areas) = Cardinality(S)
             /\ c.ifcs = Live(Mine(tables.interfaces, r))
             /\ c.hosts = ToSet(Mine(tables.hosts, r))
             /\ sendCfgToRouterId(r) \in Seq(Msg) /\ Len(sendCfgToRouterId(r)) > 0
<1> DEFINE row == tables.areas[r]
           M == MaxAreas
           Is(n) == row[n + 1] = NULL /\ \A i \in 1..n : row[i] # NULL
           full == CHOOSE n \in 0..(M - 1) : Is(n)
           q == Mine(tables.interfaces, r)
           h == Mine(tables.hosts, r)
           a == [i \in 1..full |-> row[i]]
<1>1. /\ M \in Nat \ {0} /\ NULL \notin S
      /\ row \in [1..M -> Area \cup {NULL}] /\ tables.interfaces \in Seq(IfcEntry)
      /\ tables.hosts \in Seq(HostEntry)
  BY AreasBounded, SimConfigAssumption DEF FileTypeOK, TableRecord
<1>2. PICK n \in 0..(M - 1) :
        /\ n = Cardinality(S)
        /\ \A i \in 1..n : row[i] \in S
        /\ \A i, j \in 1..n : row[i] = row[j] => i = j
        /\ \A b \in S : \E i \in 1..n : row[i] = b
        /\ \A i \in (n + 1)..M : row[i] = NULL
  BY DEF RowHas
<1>3. q \in Seq(IfcEntry) /\ h \in Seq(HostEntry)
  BY <1>1, MineIsSequence
<1> HIDE DEF M, row, q, h
<1>4. Is(n)
  BY <1>1, <1>2
<1>5. \A m \in 0..(M - 1) : Is(m) => m = n
  <2> SUFFICES ASSUME NEW m \in 0..(M - 1), Is(m), m # n PROVE FALSE
    OBVIOUS
  <2>1. CASE m < n
    <3>1. m + 1 \in 1..n
      BY <1>1, <2>1
    <3> QED
      BY <1>1, <1>2, <3>1
  <2>2. CASE m > n
    <3>1. n + 1 \in 1..m /\ n + 1 \in (n + 1)..M
      BY <1>1, <2>2
    <3> QED
      BY <1>2, <3>1
  <2> QED
    BY <1>1, <2>1, <2>2
<1>6. full = n
  <2> HIDE DEF Is
  <2> QED
    BY <1>4, <1>5
<1> HIDE DEF full
<1>7. a \in Seq(Area) /\ Len(a) = n /\ DOMAIN a = 1..n /\ \A i \in 1..n : a[i] = row[i]
  BY <1>2, <1>6
<1>8. sendCfgToRouterId(r) = Sent(a, q, h)
  <2>1. [i \in DOMAIN a |-> [type |-> "area", area |-> a[i]]]
        = [i \in 1..full |-> [type |-> "area", area |-> row[i]]]
    BY <1>6, <1>7
  <2> HIDE DEF a
  <2> QED
    BY <2>1 DEF sendCfgToRouterId, Sent, full, Is, row, M, q, h
<1>9. ToSet(a) = S
  <2> HIDE DEF a, Is
  <2> QED
    BY <1>2, <1>7 DEF ToSet
<1> HIDE DEF a
<1>10. LET c == Configured(Sent(a, q, h))
       IN  c.areas = a /\ c.ifcs = Live(q) /\ c.hosts = ToSet(h)
  BY <1>3, <1>7, SentConfigures
<1>11. Sent(a, q, h) \in Seq(Msg) /\ Len(Sent(a, q, h)) > 0
  <2>1. /\ Sent(a, q, h) \in Seq(Msg)
        /\ Len(Sent(a, q, h)) = 1 + Len(a) + Len(q) + Len(h)
    BY <1>3, <1>7, SentInOrder
  <2>2. Len(a) \in Nat /\ Len(q) \in Nat /\ Len(h) \in Nat
    BY <1>3, <1>7
  <2> QED
    BY <2>1, <2>2
<1> QED
  BY <1>2, <1>7, <1>8, <1>9, <1>10, <1>11 DEF q, h

-----------------------------------------------------------------------------
(* The invariant.  First what the tables have of the file.                 *)
IsRow(t, p, r) == <<Port(p), Name(r)>> \in ToSet(t.addr_net_memships)
PortMembers(t, p) == {r \in Router : IsRow(t, p, r)}

RoutersSound == ToSet(tables.routers) = {l.rtr : l \in Routers} /\ IsInjective(tables.routers)

NetsSound ==
  /\ {<<n.prefix, n.area>> : n \in ToSet(tables.networks)} = {<<l.prefix, l.area>> : l \in Networks}
  /\ \A i, j \in DOMAIN tables.networks :
       \/ tables.networks[i].prefix = tables.networks[j].prefix
       \/ tables.networks[i].port = tables.networks[j].port
       => i = j
  /\ \A n \in ToSet(tables.networks) : n.port \in 1..tables.phy_portno
  /\ \A l \in ToSet(file) : l.kind = "interface" => NetDeclared(l.prefix)

AreasSound == \A r \in Router : AreasOf(r) \in SUBSET Area /\ RowHas(tables.areas[r], AreasOf(r))

LiveIfcs(t, r) == {<<i.type, i.area, i.addr>> : i \in Live(Mine(t.interfaces, r))}

EntrySound(t, e) ==
  /\ e.port \in 1..t.phy_portno /\ IsRow(t, e.port, e.rtr)
  /\ \/ e.type = "pp" /\ e.addr = Unnumbered
     \/ e.type = "broadcast" /\ \E n \in ToSet(t.networks) : /\ e.addr = IfcAddr(e.rtr, n.prefix)
                                                             /\ e.port = n.port

IfcsSound ==
  /\ \A r \in Router : LiveIfcs(tables, r) = IfcsOf(r)
  /\ \A e \in ToSet(tables.interfaces) : EntrySound(tables, e)

HostsSound == \A r \in Router : {h.area : h \in ToSet(Mine(tables.hosts, r))} = HostAreas(r)

AddressesSound == {m \in ToSet(tables.addr_mappings) : m[1] # Unnumbered} = Addresses

LinkSets == {{l.rtr, l.rtr2} : l \in {m \in ToSet(file) : m.kind = "pplink"}}
IsNetPort(t, p) == \E n \in ToSet(t.networks) : n.port = p

PortsSound ==
  /\ \A m \in ToSet(tables.addr_net_memships) : \E p \in 1..tables.phy_portno : m[1] = Port(p)
  /\ \A n \in ToSet(tables.networks) : PortMembers(tables, n.port) = On(n.prefix)
  /\ \A p \in 1..tables.phy_portno : IsNetPort(tables, p) \/ PortMembers(tables, p) \in LinkSets
  /\ \A P \in LinkSets : \E p \in 1..tables.phy_portno :
       ~IsNetPort(tables, p) /\ PortMembers(tables, p) = P

TablesSound ==
  /\ RoutersSound /\ NetsSound /\ AreasSound /\ IfcsSound /\ HostsSound /\ AddressesSound /\ PortsSound

(* Then how far main() is.                                                 *)
RouterNames == [i \in DOMAIN tables.routers |-> Name(tables.routers[i])]

Stored(s, k) == {s[i] : i \in {j \in 1..k : s[j][1] # Unnumbered}}

MainOK ==
  /\ main \in [at : {"read", "start", "map", "member", "loop"}, row : Nat \ {0}, loaded : 0..2]
  /\ main.row <= Len(Loop.rows) + 1
  /\ main.loaded > 0 => main.row <= Len(Loop.rows) /\ main.loaded <= Len(Loop.rows[main.row])
  /\ args = <<args[1], args[2]>>
  /\ \A i \in 1..main.loaded : args[i] = Loop.rows[main.row][i]

StartedSoFar ==
  started = CASE main.at = "read"  -> <<>>
              [] main.at = "start" -> SubSeq(RouterNames, 1, main.row - 1)
              [] OTHER             -> RouterNames

MappedSoFar ==
  mapped = CASE main.at \in {"read", "start"} -> {}
             [] main.at = "map" -> Stored(tables.addr_mappings, main.row - 1)
             [] main.at = "member" -> Stored(tables.addr_mappings, Len(tables.addr_mappings))
                                      \cup Stored(tables.addr_net_memships, main.row - 1)
             [] OTHER -> Stored(tables.addr_mappings, Len(tables.addr_mappings))
                         \cup Stored(tables.addr_net_memships, Len(tables.addr_net_memships))

Sending == [r \in Router |-> Configured(sendCfgToRouterId(r))]

NodesServed ==
  /\ DOMAIN conf = Router
  /\ \A k \in simnodes : k \in DOMAIN started /\ conf[started[k][2]] = Sending[started[k][2]]

ConfigInvariant ==
  FileTypeOK /\ TablesSound /\ MainOK /\ StartedSoFar /\ MappedSoFar /\ NodesServed

-----------------------------------------------------------------------------
(* The file grows by a line.                                               *)
LEMMA LineKinds ==
  ASSUME NEW l \in Lines
  PROVE  /\ l.kind \in {"router", "broadcast", "pplink", "interface", "loopback"}
         /\ l.kind = "router" => l.rtr \in Router
         /\ l.kind = "broadcast" => l.prefix \in Prefix /\ l.area \in Area
         /\ l.kind = "pplink" => l.rtr \in Router /\ l.rtr2 \in Router /\ l.area \in Area /\ l.rtr # l.rtr2
         /\ l.kind = "interface" => l.rtr \in Router /\ l.prefix \in Prefix /\ l.on \in BOOLEAN
         /\ l.kind = "loopback" => l.rtr \in Router /\ l.area \in Area
BY DEF Lines

Grows(l) == l \in Lines /\ file \in Seq(Lines) /\ file' = Append(file, l)

LEMMA FileGrows ==
  ASSUME NEW l, Grows(l)
  PROVE  /\ file' \in Seq(Lines) /\ ToSet(file') = ToSet(file) \cup {l}
         /\ Len(file') = Len(file) + 1 /\ Len(file) \in Nat /\ file'[Len(file) + 1] = l
         /\ \A i \in 1..Len(file) : file'[i] = file[i]
         /\ DOMAIN file' = 1..(Len(file) + 1) /\ DOMAIN file = 1..Len(file)
         /\ \A x \in ToSet(file) : x \in Lines
<1>1. file \in Seq(Lines) /\ l \in Lines /\ file' = Append(file, l)
  BY DEF Grows
<1>2. ToSet(file') = ToSet(file) \cup {l}
  BY <1>1, ToSetGrows
<1>3. \A x \in ToSet(file) : x \in Lines
  BY <1>1 DEF ToSet
<1> QED
  BY <1>1, <1>2, <1>3

LEMMA RoutersGrow ==
  ASSUME NEW l, Grows(l)
  PROVE  Routers' = Routers \cup (IF l.kind = "router" THEN {l} ELSE {})
BY FileGrows DEF Routers

LEMMA NetworksGrow ==
  ASSUME NEW l, Grows(l)
  PROVE  Networks' = Networks \cup (IF l.kind = "broadcast" THEN {l} ELSE {})
BY FileGrows DEF Networks

LEMMA LinksGrow ==
  ASSUME NEW l, Grows(l)
  PROVE  /\ \A r : LinksOf(r)' = LinksOf(r) \cup (IF l.kind = "pplink" /\ r \in {l.rtr, l.rtr2} THEN {l} ELSE {})
         /\ LinkSets' = LinkSets \cup (IF l.kind = "pplink" THEN {{l.rtr, l.rtr2}} ELSE {})
<1>1. ToSet(file') = ToSet(file) \cup {l}
  BY FileGrows
<1>2. ASSUME NEW r
      PROVE  LinksOf(r)' = LinksOf(r) \cup (IF l.kind = "pplink" /\ r \in {l.rtr, l.rtr2} THEN {l} ELSE {})
  BY <1>1 DEF LinksOf
<1>3. LinkSets' = LinkSets \cup (IF l.kind = "pplink" THEN {{l.rtr, l.rtr2}} ELSE {})
  BY <1>1 DEF LinkSets
<1> QED
  BY <1>2, <1>3

LEMMA OnGrows ==
  ASSUME NEW l, Grows(l)
  PROVE  /\ \A p : On(p)' = On(p) \cup {r \in Router : IsIfc(l, r, p)}
         /\ \A r, p : (\E x \in ToSet(file') : IsIfc(x, r, p))
                      <=> (\E x \in ToSet(file) : IsIfc(x, r, p)) \/ IsIfc(l, r, p)
<1>1. ToSet(file') = ToSet(file) \cup {l}
  BY FileGrows
<1> HIDE DEF IsIfc
<1>2. \A r, p : (\E x \in ToSet(file') : IsIfc(x, r, p))
                <=> (\E x \in ToSet(file) : IsIfc(x, r, p)) \/ IsIfc(l, r, p)
  BY <1>1
<1>3. ASSUME NEW p
      PROVE  On(p)' = On(p) \cup {r \in Router : IsIfc(l, r, p)}
  BY <1>2 DEF On
<1> QED
  BY <1>2, <1>3

LEMMA TurnedOnGrows ==
  ASSUME NEW l, Grows(l), NEW r, NEW p
  PROVE  TurnedOn(r, p)' <=> (IF IsIfc(l, r, p) THEN l.on ELSE TurnedOn(r, p))
<1> DEFINE N == Len(file)
           Is(i) == IsIfc(file'[i], r, p)
           Was(i) == IsIfc(file[i], r, p)
<1>1. /\ N \in Nat /\ file'[N + 1] = l /\ \A i \in 1..N : file'[i] = file[i]
      /\ DOMAIN file' = 1..(N + 1) /\ DOMAIN file = 1..N
  BY FileGrows
<1> HIDE DEF N
<1>2. TurnedOn(r, p)' <=> \E i \in 1..(N + 1) : /\ Is(i) /\ file'[i].on
                                               /\ \A j \in 1..(N + 1) : Is(j) => j <= i
  BY <1>1 DEF TurnedOn, IsIfc
<1>3. TurnedOn(r, p) <=> \E i \in 1..N : Was(i) /\ file[i].on /\ \A j \in 1..N : Was(j) => j <= i
  BY <1>1 DEF TurnedOn
<1>4. \A i \in 1..N : (Is(i) <=> Was(i)) /\ file'[i].on = file[i].on
  BY <1>1
<1>5. (Is(N + 1) <=> IsIfc(l, r, p)) /\ file'[N + 1].on = l.on
  BY <1>1
<1>6. \A i : i \in 1..(N + 1) <=> i \in 1..N \/ i = N + 1
  BY <1>1
<1> HIDE DEF Is, Was
<1>7. CASE IsIfc(l, r, p)
  <2>1. \A i \in 1..N : ~(N + 1 <= i)
    BY <1>1
  <2>2. \A i \in 1..(N + 1) : i <= N + 1
    BY <1>1
  <2>3. N + 1 \in 1..(N + 1)
    BY <1>1
  <2> QED
    BY <1>2, <1>5, <1>6, <1>7, <2>1, <2>2, <2>3
<1>8. CASE ~IsIfc(l, r, p)
  BY <1>2, <1>3, <1>4, <1>5, <1>6, <1>8
<1> QED
  BY <1>7, <1>8

LEMMA HostAreasGrow ==
  ASSUME NEW l, Grows(l), NEW r
  PROVE  HostAreas(r)' = HostAreas(r) \cup (IF l.kind = "loopback" /\ l.rtr = r THEN {l.area} ELSE {})
BY FileGrows DEF HostAreas

LEMMA AddressesGrow ==
  ASSUME NEW l, Grows(l)
  PROVE  Addresses' = Addresses
           \cup (IF l.kind = "interface" THEN {<<IfcAddr(l.rtr, l.prefix), Name(l.rtr)>>} ELSE {})
           \cup (IF l.kind = "loopback" THEN {<<HostAddr(l.rtr), Name(l.rtr)>>} ELSE {})
<1>1. ToSet(file') = ToSet(file) \cup {l}
  BY FileGrows
<1> DEFINE I(f) == {<<IfcAddr(x.rtr, x.prefix), <<"rtr", x.rtr>>>> : x \in {m \in ToSet(f) : m.kind = "interface"}}
           H(f) == {<<HostAddr(x.rtr), <<"rtr", x.rtr>>>> : x \in {m \in ToSet(f) : m.kind = "loopback"}}
<1>2. Addresses = I(file) \cup H(file) /\ Addresses' = I(file') \cup H(file')
  BY DEF Addresses, IfcAddr, HostAddr
<1>3. I(file') = I(file) \cup (IF l.kind = "interface" THEN {<<IfcAddr(l.rtr, l.prefix), Name(l.rtr)>>} ELSE {})
  BY <1>1 DEF Name
<1>4. H(file') = H(file) \cup (IF l.kind = "loopback" THEN {<<HostAddr(l.rtr), Name(l.rtr)>>} ELSE {})
  BY <1>1 DEF Name
<1> HIDE DEF I, H
<1> QED
  BY <1>2, <1>3, <1>4

-----------------------------------------------------------------------------
(* What the procedures do to the tables, field by field.                   *)
LEMMA TableFields ==
  ASSUME NEW t \in TableRecord
  PROVE  /\ t.routers \in Seq(Router) /\ t.networks \in Seq(NetEntry)
         /\ t.interfaces \in Seq(IfcEntry) /\ t.hosts \in Seq(HostEntry)
         /\ t.areas \in [Router -> [1..MaxAreas -> Area \cup {NULL}]]
         /\ t.addr_mappings \in Seq(({Unnumbered} \cup IfcAddrs \cup HostAddrs) \X Names)
         /\ t.addr_net_memships \in Seq({Port(i) : i \in Nat} \X Names)
         /\ t.phy_portno \in Nat
BY DEF TableRecord

LEMMA AddAreaEffect ==
  ASSUME NEW t \in TableRecord, NEW r \in Router, NEW a \in Area
  PROVE  LET u == AddArea(t, r, a, 1)
         IN  /\ u \in TableRecord /\ u.routers = t.routers /\ u.networks = t.networks
             /\ u.interfaces = t.interfaces /\ u.hosts = t.hosts
             /\ u.addr_mappings = t.addr_mappings /\ u.addr_net_memships = t.addr_net_memships
             /\ u.phy_portno = t.phy_portno
             /\ u.areas[r] = [t.areas[r] EXCEPT ![AreaPlace(t.areas[r], a, 1)] = a]
             /\ \A q \in Router \ {r} : u.areas[q] = t.areas[q]
<1> DEFINE k == AreaPlace(t.areas[r], a, 1)
           row == [t.areas[r] EXCEPT ![k] = a]
           areas == [t.areas EXCEPT ![r] = row]
           u == AddArea(t, r, a, 1)
<1> HIDE DEF k
<1>1. t.areas \in [Router -> [1..MaxAreas -> Area \cup {NULL}]]
  BY TableFields
<1>2. row \in [1..MaxAreas -> Area \cup {NULL}]
  BY <1>1, RowType
<1>3. u = [t EXCEPT !.areas[r][k] = a]
  BY DEF AddArea, k
<1>4. u = [t EXCEPT !.areas = areas]
  BY <1>3
<1> HIDE DEF u, row
<1>5. /\ areas \in [Router -> [1..MaxAreas -> Area \cup {NULL}]]
      /\ areas[r] = row /\ \A q \in Router \ {r} : areas[q] = t.areas[q]
  BY <1>1, <1>2
<1> HIDE DEF areas
<1>6. /\ u \in TableRecord /\ u.areas = areas /\ u.routers = t.routers /\ u.networks = t.networks
      /\ u.interfaces = t.interfaces /\ u.hosts = t.hosts
      /\ u.addr_mappings = t.addr_mappings /\ u.addr_net_memships = t.addr_net_memships
      /\ u.phy_portno = t.phy_portno
  BY <1>4, <1>5 DEF TableRecord
<1> QED
  BY <1>5, <1>6 DEF u, row, k

Entry(r, type, area, addr, port, on) ==
  [rtr |-> r, type |-> type, area |-> area, addr |-> addr, port |-> port, on |-> on]

IfcAdded(t, u, e) ==
  /\ u \in TableRecord /\ u.routers = t.routers /\ u.networks = t.networks
  /\ e \in IfcEntry /\ u.interfaces = Append(t.interfaces, e) /\ u.hosts = t.hosts
  /\ u.areas = t.areas
  /\ u.addr_mappings = Append(t.addr_mappings, <<e.addr, Name(e.rtr)>>)
  /\ u.addr_net_memships = Append(t.addr_net_memships, <<Port(e.port), Name(e.rtr)>>)
  /\ u.phy_portno = t.phy_portno

LEMMA AddIfcEffect ==
  ASSUME NEW t \in TableRecord, NEW r \in Router, NEW type \in {"pp", "broadcast"}, NEW a \in Area,
         NEW addr \in {Unnumbered} \cup IfcAddrs, NEW p \in Nat, NEW on \in BOOLEAN
  PROVE  IfcAdded(t, AddIfc(t, r, type, a, addr, p, on), Entry(r, type, a, addr, p, on))
<1> DEFINE e == Entry(r, type, a, addr, p, on)
           is == Append(t.interfaces, e)
           ms == Append(t.addr_mappings, <<addr, Name(r)>>)
           ns == Append(t.addr_net_memships, <<Port(p), Name(r)>>)
           u == AddIfc(t, r, type, a, addr, p, on)
<1>1. e \in IfcEntry
  BY DEF Entry, IfcEntry
<1>2. <<addr, Name(r)>> \in ({Unnumbered} \cup IfcAddrs \cup HostAddrs) \X Names
  BY DEF Names
<1>3. <<Port(p), Name(r)>> \in {Port(i) : i \in Nat} \X Names
  BY DEF Names
<1>4. /\ is \in Seq(IfcEntry)
      /\ ms \in Seq(({Unnumbered} \cup IfcAddrs \cup HostAddrs) \X Names)
      /\ ns \in Seq({Port(i) : i \in Nat} \X Names)
  <2> DEFINE A == ({Unnumbered} \cup IfcAddrs \cup HostAddrs) \X Names
             B == {Port(i) : i \in Nat} \X Names
             x == <<addr, Name(r)>>
             y == <<Port(p), Name(r)>>
  <2>1. /\ t.interfaces \in Seq(IfcEntry) /\ t.addr_mappings \in Seq(A)
        /\ t.addr_net_memships \in Seq(B) /\ x \in A /\ y \in B
    BY <1>2, <1>3, TableFields
  <2> HIDE DEF e, A, B, x, y
  <2>2. Append(t.interfaces, e) \in Seq(IfcEntry)
    BY <1>1, <2>1
  <2>3. Append(t.addr_mappings, x) \in Seq(A)
    BY <2>1
  <2>4. Append(t.addr_net_memships, y) \in Seq(B)
    BY <2>1
  <2> QED
    BY <2>2, <2>3, <2>4 DEF A, B, x, y
<1>5. u = AddMaps([t EXCEPT !.interfaces = is], r, addr, p)
  BY DEF AddIfc, Entry
<1>10. e.addr = addr /\ e.rtr = r /\ e.port = p
  BY DEF Entry
<1> HIDE DEF e, is
<1> DEFINE t1 == [t EXCEPT !.interfaces = is]
<1>6. /\ t1 \in TableRecord /\ t1.interfaces = is /\ t1.routers = t.routers /\ t1.networks = t.networks
      /\ t1.hosts = t.hosts /\ t1.areas = t.areas /\ t1.addr_mappings = t.addr_mappings
      /\ t1.addr_net_memships = t.addr_net_memships /\ t1.phy_portno = t.phy_portno
  BY <1>4 DEF TableRecord
<1> HIDE DEF t1
<1>7. u = [t1 EXCEPT !.addr_mappings = ms, !.addr_net_memships = ns]
  <2>1. AddMaps(t1, r, addr, p) = [t1 EXCEPT !.addr_mappings = Append(@, <<addr, <<"rtr", r>>>>),
                                        !.addr_net_memships = Append(@, <<<<"port", p>>, <<"rtr", r>>>>)]
    BY DEF AddMaps
  <2>2. u = AddMaps(t1, r, addr, p)
    BY <1>5 DEF t1
  <2> HIDE DEF u
  <2> QED
    BY <1>6, <2>1, <2>2 DEF Port, Name
<1> HIDE DEF u, ms, ns
<1>8. /\ u \in TableRecord /\ u.interfaces = is /\ u.routers = t1.routers /\ u.networks = t1.networks
      /\ u.hosts = t1.hosts /\ u.areas = t1.areas /\ u.addr_mappings = ms
      /\ u.addr_net_memships = ns /\ u.phy_portno = t1.phy_portno
  BY <1>4, <1>6, <1>7 DEF TableRecord
<1>9. /\ u \in TableRecord /\ u.interfaces = is /\ u.routers = t.routers /\ u.networks = t.networks
      /\ u.hosts = t.hosts /\ u.areas = t.areas /\ u.addr_mappings = ms
      /\ u.addr_net_memships = ns /\ u.phy_portno = t.phy_portno
  BY <1>6, <1>8
<1>11. IfcAdded(t, u, e)
  BY <1>1, <1>9, <1>10 DEF IfcAdded, is, ms, ns
<1> QED
  BY <1>11 DEF u, e

(* Addresses differ.                                                       *)
LEMMA AddressesDiffer ==
  /\ \A r, p : IfcAddr(r, p) # Unnumbered
  /\ \A r : HostAddr(r) # Unnumbered
  /\ \A r1, p1, r2, p2 : IfcAddr(r1, p1) = IfcAddr(r2, p2) => r1 = r2 /\ p1 = p2
  /\ \A r, p : IfcAddr(r, p)[1] = "addr"
  /\ \A r : HostAddr(r)[1] = "addr"
  /\ \A i, j : Port(i) = Port(j) => i = j
  /\ \A r1, r2 : Name(r1) = Name(r2) => r1 = r2
  /\ \A i : Port(i) # Unnumbered /\ Port(i)[1] = "port"
  /\ \A r : Name(r)[2] = r
  /\ Unnumbered[1] = "addr"
<1>1. ASSUME NEW r, NEW p PROVE IfcAddr(r, p) # Unnumbered
  <2>1. Len(IfcAddr(r, p)) = 3 /\ Len(Unnumbered) = 2
    BY DEF IfcAddr, Unnumbered
  <2> QED
    BY <2>1
<1>2. ASSUME NEW r PROVE HostAddr(r) # Unnumbered
  <2>1. Len(HostAddr(r)) = 3 /\ Len(Unnumbered) = 2
    BY DEF HostAddr, Unnumbered
  <2> QED
    BY <2>1
<1>3. ASSUME NEW r1, NEW p1, NEW r2, NEW p2, IfcAddr(r1, p1) = IfcAddr(r2, p2) PROVE r1 = r2 /\ p1 = p2
  BY <1>3 DEF IfcAddr
<1>4. ASSUME NEW i PROVE Port(i) # Unnumbered /\ Port(i)[1] = "port" /\ Port(i)[2] = i
  <2>1. Port(i)[1] = "port" /\ Unnumbered[1] = "addr" /\ Port(i)[2] = i
    BY DEF Port, Unnumbered
  <2> QED
    BY <2>1
<1>5. \A r, p : IfcAddr(r, p)[1] = "addr"
  BY DEF IfcAddr
<1>6. \A r : HostAddr(r)[1] = "addr"
  BY DEF HostAddr
<1>7. \A r : Name(r)[2] = r
  BY DEF Name
<1>8. Unnumbered[1] = "addr"
  BY DEF Unnumbered
<1>9. \A i, j : Port(i) = Port(j) => i = j
  BY <1>4
<1>10. \A r1, r2 : Name(r1) = Name(r2) => r1 = r2
  BY <1>7
<1> QED
  BY <1>1, <1>2, <1>3, <1>4, <1>5, <1>6, <1>7, <1>8, <1>9, <1>10

-----------------------------------------------------------------------------
(* A line is read.                                                         *)
LEMMA ProcByKind ==
  ASSUME NEW t, NEW l
  PROVE  /\ l.kind = "router" => Proc(t, l) = proc_router(t, l)
         /\ l.kind = "broadcast" => Proc(t, l) = proc_broadcast(t, l)
         /\ l.kind = "interface" => Proc(t, l) = proc_interface(t, l)
         /\ l.kind = "pplink" => Proc(t, l) = proc_pplink(t, l)
         /\ l.kind = "loopback" => Proc(t, l) = proc_loopback(t, l)
<1>1. l.kind = "router" => Proc(t, l) = proc_router(t, l)
  BY DEF Proc
<1>2. l.kind = "broadcast" => Proc(t, l) = proc_broadcast(t, l)
  BY DEF Proc
<1>3. l.kind = "interface" => Proc(t, l) = proc_interface(t, l)
  BY DEF Proc
<1>4. l.kind = "pplink" => Proc(t, l) = proc_pplink(t, l)
  BY DEF Proc
<1>5. l.kind = "loopback" => Proc(t, l) = proc_loopback(t, l)
  BY DEF Proc
<1> QED
  BY <1>1, <1>2, <1>3, <1>4, <1>5

(* Lines of other kinds change nothing for the areas and interfaces, nor   *)
(* does a network that has no interfaces yet.                              *)
LEMMA SameOfRouters ==
  ASSUME NEW l, Grows(l), l.kind \in {"router", "broadcast", "loopback"},
         l.kind = "broadcast" => ~NetDeclared(l.prefix),
         \A x \in ToSet(file) : x.kind = "interface" => NetDeclared(x.prefix),
         NEW r
  PROVE  AreasOf(r)' = AreasOf(r) /\ IfcsOf(r)' = IfcsOf(r)
<1>1. LinksOf(r)' = LinksOf(r)
  <2>1. LinksOf(r)' = LinksOf(r) \cup (IF l.kind = "pplink" /\ r \in {l.rtr, l.rtr2} THEN {l} ELSE {})
    BY LinksGrow
  <2>2. l.kind # "pplink"
    OBVIOUS
  <2> QED
    BY <2>1, <2>2
<1>2. \A p : (\E x \in ToSet(file') : IsIfc(x, r, p)) <=> (\E x \in ToSet(file) : IsIfc(x, r, p))
  <2>1. \A p : ~IsIfc(l, r, p)
    BY DEF IsIfc
  <2>2. \A p : (\E x \in ToSet(file') : IsIfc(x, r, p))
               <=> (\E x \in ToSet(file) : IsIfc(x, r, p)) \/ IsIfc(l, r, p)
    BY OnGrows
  <2> QED
    BY <2>1, <2>2, Zenon
<1>3. ASSUME NEW p PROVE TurnedOn(r, p)' <=> TurnedOn(r, p)
  <2>1. ~IsIfc(l, r, p)
    BY DEF IsIfc
  <2>2. TurnedOn(r, p)' <=> (IF IsIfc(l, r, p) THEN l.on ELSE TurnedOn(r, p))
    BY TurnedOnGrows
  <2> QED
    BY <2>1, <2>2
<1>4. ASSUME NEW p PROVE TurnedOn(r, p) => \E x \in ToSet(file) : IsIfc(x, r, p)
  BY DEF TurnedOn, ToSet
<1>5. \A p : (\E x \in ToSet(file) : IsIfc(x, r, p)) => NetDeclared(p)
  BY DEF IsIfc
<1>6. \A n \in Networks' : n \in Networks \/ (n = l /\ ~NetDeclared(n.prefix))
  BY NetworksGrow
<1>7. Networks \subseteq Networks'
  BY NetworksGrow
<1>8. {m \in Networks' : \E x \in ToSet(file') : IsIfc(x, r, m.prefix)}
      = {m \in Networks : \E x \in ToSet(file) : IsIfc(x, r, m.prefix)}
  <2> HIDE DEF Networks, IsIfc, NetDeclared
  <2> QED
    BY <1>2, <1>5, <1>6, <1>7
<1>9. {m \in Networks' : TurnedOn(r, m.prefix)'} = {m \in Networks : TurnedOn(r, m.prefix)}
  <2> HIDE DEF Networks, IsIfc, NetDeclared, TurnedOn
  <2> QED
    BY <1>3, <1>4, <1>5, <1>6, <1>7
<1>10. AreasOf(r)' = AreasOf(r)
  BY <1>1, <1>8 DEF AreasOf
<1>11. IfcsOf(r)' = IfcsOf(r)
  <2>1. IfcsOf(r)' = {<<"pp", x.area, Unnumbered>> : x \in LinksOf(r)'}
                     \cup {<<"broadcast", n.area, IfcAddr(r, n.prefix)>> :
                           n \in {m \in Networks' : TurnedOn(r, m.prefix)'}}
    BY DEF IfcsOf, Unnumbered, IfcAddr
  <2> QED
    BY <1>1, <1>9, <2>1 DEF IfcsOf
<1> QED
  BY <1>10, <1>11

(* An interface's entry stays right when the tables grow.                  *)
LEMMA EntryKept ==
  ASSUME NEW t, NEW u, NEW e, ToSet(t.networks) \subseteq ToSet(u.networks),
         ToSet(t.addr_net_memships) \subseteq ToSet(u.addr_net_memships),
         t.phy_portno \in Nat, u.phy_portno \in Nat, t.phy_portno <= u.phy_portno, EntrySound(t, e)
  PROVE  EntrySound(u, e)
BY DEF EntrySound, IsRow

LEMMA RouterLine ==
  ASSUME FileTypeOK, TablesSound, NEW l, Grows(l), l.kind = "router", tables' = proc_router(tables, l)
  PROVE  FileTypeOK' /\ TablesSound'
<1> DEFINE t == tables
           u == tables'
<1>1. /\ t \in TableRecord /\ file' \in Seq(Lines) /\ l.rtr \in Router
      /\ \A x \in ToSet(file) : x.kind = "interface" => NetDeclared(x.prefix)
  BY LineKinds, FileGrows DEF FileTypeOK, TablesSound, NetsSound, Grows
<1>2. /\ u \in TableRecord
      /\ u.routers = IF l.rtr \in ToSet(t.routers) THEN t.routers ELSE Append(t.routers, l.rtr)
      /\ u.networks = t.networks /\ u.interfaces = t.interfaces /\ u.hosts = t.hosts
      /\ u.areas = t.areas /\ u.addr_mappings = t.addr_mappings
      /\ u.addr_net_memships = t.addr_net_memships /\ u.phy_portno = t.phy_portno
  <2>1. CASE l.rtr \in ToSet(t.routers)
    BY <1>1, <2>1 DEF proc_router
  <2>2. CASE l.rtr \notin ToSet(t.routers)
    <3>1. u = [t EXCEPT !.routers = Append(t.routers, l.rtr)]
      BY <2>2 DEF proc_router
    <3>2. Append(t.routers, l.rtr) \in Seq(Router)
      <4>1. t.routers \in Seq(Router)
        BY <1>1, TableFields
      <4> QED
        BY <1>1, <4>1
    <3> QED
      BY <1>1, <2>2, <3>1, <3>2 DEF TableRecord
  <2> QED
    BY <2>1, <2>2
<1>3. \A r : AreasOf(r)' = AreasOf(r) /\ IfcsOf(r)' = IfcsOf(r)
  BY <1>1, SameOfRouters
<1>4. RoutersSound'
  <2>1. t.routers \in Seq(Router)
    BY <1>1, TableFields
  <2>2. Routers' = Routers \cup {l}
    BY RoutersGrow
  <2>3. ToSet(t.routers) = {x.rtr : x \in Routers} /\ IsInjective(t.routers)
    BY DEF TablesSound, RoutersSound
  <2>4. CASE l.rtr \in ToSet(t.routers)
    BY <1>2, <2>2, <2>3, <2>4 DEF RoutersSound
  <2>5. CASE l.rtr \notin ToSet(t.routers)
    <3>1. u.routers = Append(t.routers, l.rtr)
      BY <1>2, <2>5
    <3>2. ToSet(u.routers) = ToSet(t.routers) \cup {l.rtr}
      BY <2>1, <3>1, ToSetGrows
    <3>3. IsInjective(u.routers)
      <4> DEFINE s == t.routers
                 w == Append(s, l.rtr)
      <4>1. /\ DOMAIN w = 1..(Len(s) + 1) /\ DOMAIN s = 1..Len(s) /\ Len(s) \in Nat
            /\ w[Len(s) + 1] = l.rtr /\ \A i \in 1..Len(s) : w[i] = s[i]
        BY <2>1
      <4>2. \A i \in 1..Len(s) : s[i] # l.rtr
        BY <2>5, <4>1 DEF ToSet
      <4>3. \A i, j \in 1..Len(s) : s[i] = s[j] => i = j
        BY <2>3, <4>1 DEF IsInjective
      <4> HIDE DEF w, s
      <4>4. IsInjective(w)
        BY <4>1, <4>2, <4>3 DEF IsInjective
      <4> QED
        BY <3>1, <4>4 DEF w, s
    <3> QED
      BY <2>2, <2>3, <3>2, <3>3 DEF RoutersSound
  <2> QED
    BY <2>4, <2>5
<1>5. NetsSound'
  <2>1. Networks' = Networks
    BY NetworksGrow
  <2>2. ToSet(file') = ToSet(file) \cup {l}
    BY FileGrows
  <2>3. \A p : NetDeclared(p)' <=> NetDeclared(p)
    BY <2>1 DEF NetDeclared
  <2>4. NetsSound
    BY DEF TablesSound
  <2> QED
    BY <1>2, <2>1, <2>2, <2>3, <2>4 DEF NetsSound
<1>6. AreasSound'
  BY <1>2, <1>3 DEF TablesSound, AreasSound
<1>7. IfcsSound'
  <2>1. \A r \in Router : LiveIfcs(u, r) = LiveIfcs(t, r)
    BY <1>2 DEF LiveIfcs
  <2>2. \A e : EntrySound(t, e) => EntrySound(u, e)
    BY <1>2 DEF EntrySound, IsRow
  <2>3. IfcsSound
    BY DEF TablesSound
  <2> QED
    BY <1>2, <1>3, <2>1, <2>2, <2>3 DEF IfcsSound
<1>8. HostsSound'
  <2>1. \A r : HostAreas(r)' = HostAreas(r)
    BY HostAreasGrow
  <2> QED
    BY <1>2, <2>1 DEF TablesSound, HostsSound
<1>9. AddressesSound'
  <2>1. Addresses' = Addresses
    BY AddressesGrow
  <2> QED
    BY <1>2, <2>1 DEF TablesSound, AddressesSound, Unnumbered
<1>10. PortsSound'
  <2>1. \A p : On(p)' = On(p)
    <3>1. \A r, p : ~IsIfc(l, r, p)
      BY DEF IsIfc
    <3> QED
      BY <3>1, OnGrows
  <2>2. LinkSets' = LinkSets
    BY LinksGrow
  <2>3. \A p : PortMembers(u, p) = PortMembers(t, p) /\ (IsNetPort(u, p) <=> IsNetPort(t, p))
    BY <1>2 DEF PortMembers, IsRow, IsNetPort
  <2>4. PortsSound
    BY DEF TablesSound
  <2> QED
    BY <1>2, <2>1, <2>2, <2>3, <2>4 DEF PortsSound, Port
<1> QED
  BY <1>1, <1>2, <1>4, <1>5, <1>6, <1>7, <1>8, <1>9, <1>10 DEF FileTypeOK, TablesSound

LEMMA LoopbackLine ==
  ASSUME FileTypeOK, TablesSound, NEW l, Grows(l), l.kind = "loopback", tables' = proc_loopback(tables, l)
  PROVE  FileTypeOK' /\ TablesSound'
<1> DEFINE t == tables
           u == tables'
           h == [rtr |-> l.rtr, area |-> l.area, addr |-> HostAddr(l.rtr)]
           m == <<HostAddr(l.rtr), Name(l.rtr)>>
           A == ({Unnumbered} \cup IfcAddrs \cup HostAddrs) \X Names
<1>1. /\ t \in TableRecord /\ file' \in Seq(Lines) /\ l.rtr \in Router /\ l.area \in Area
      /\ \A x \in ToSet(file) : x.kind = "interface" => NetDeclared(x.prefix)
  BY LineKinds, FileGrows DEF FileTypeOK, TablesSound, NetsSound, Grows
<1>2. h \in HostEntry /\ m \in A /\ h.rtr = l.rtr /\ h.area = l.area /\ m[1] = HostAddr(l.rtr)
  BY <1>1 DEF HostEntry, HostAddrs, Names
<1>3. t.hosts \in Seq(HostEntry) /\ t.addr_mappings \in Seq(A)
  BY <1>1, TableFields
<1>4. u = [t EXCEPT !.hosts = Append(t.hosts, h), !.addr_mappings = Append(t.addr_mappings, m)]
  BY DEF proc_loopback, Name
<1> HIDE DEF h, m, A
<1>5. /\ u \in TableRecord /\ u.routers = t.routers /\ u.networks = t.networks
      /\ u.interfaces = t.interfaces /\ u.hosts = Append(t.hosts, h)
      /\ u.areas = t.areas /\ u.addr_mappings = Append(t.addr_mappings, m)
      /\ u.addr_net_memships = t.addr_net_memships /\ u.phy_portno = t.phy_portno
  <2>1. Append(t.hosts, h) \in Seq(HostEntry) /\ Append(t.addr_mappings, m) \in Seq(A)
    BY <1>2, <1>3
  <2> QED
    BY <1>1, <1>4, <2>1 DEF TableRecord, A
<1>6. \A r : AreasOf(r)' = AreasOf(r) /\ IfcsOf(r)' = IfcsOf(r)
  BY <1>1, SameOfRouters
<1>7. RoutersSound'
  <2>1. Routers' = Routers
    BY RoutersGrow
  <2> QED
    BY <1>5, <2>1 DEF TablesSound, RoutersSound
<1>8. NetsSound'
  <2>1. Networks' = Networks
    BY NetworksGrow
  <2>2. ToSet(file') = ToSet(file) \cup {l}
    BY FileGrows
  <2>3. \A p : NetDeclared(p)' <=> NetDeclared(p)
    BY <2>1 DEF NetDeclared
  <2>4. NetsSound
    BY DEF TablesSound
  <2> QED
    BY <1>5, <2>1, <2>2, <2>3, <2>4 DEF NetsSound
<1>9. AreasSound'
  BY <1>5, <1>6 DEF TablesSound, AreasSound
<1>10. IfcsSound'
  <2>1. \A r \in Router : LiveIfcs(u, r) = LiveIfcs(t, r)
    BY <1>5 DEF LiveIfcs
  <2>2. \A e : EntrySound(t, e) => EntrySound(u, e)
    BY <1>5 DEF EntrySound, IsRow
  <2>3. IfcsSound
    BY DEF TablesSound
  <2> QED
    BY <1>5, <1>6, <2>1, <2>2, <2>3 DEF IfcsSound
<1>11. HostsSound'
  <2> SUFFICES ASSUME NEW r \in Router
               PROVE  {x.area : x \in ToSet(Mine(u.hosts, r))} = HostAreas(r)'
    BY DEF HostsSound
  <2>1. Mine(u.hosts, r) = IF h.rtr = r THEN Append(Mine(t.hosts, r), h) ELSE Mine(t.hosts, r)
    <3> DEFINE s == t.hosts
    <3>1. s \in Seq(HostEntry) /\ u.hosts = Append(s, h)
      BY <1>3, <1>5
    <3> HIDE DEF s
    <3>2. Mine(Append(s, h), r) = IF h.rtr = r THEN Append(Mine(s, r), h) ELSE Mine(s, r)
      BY <1>2, <3>1, MineGrows
    <3> QED
      BY <3>1, <3>2 DEF s
  <2>2. {x.area : x \in ToSet(Mine(t.hosts, r))} = HostAreas(r)
    BY DEF TablesSound, HostsSound
  <2>3. HostAreas(r)' = HostAreas(r) \cup (IF l.rtr = r THEN {l.area} ELSE {})
    BY HostAreasGrow
  <2>4. Mine(t.hosts, r) \in Seq(HostEntry)
    BY <1>3, MineIsSequence
  <2>5. ToSet(Append(Mine(t.hosts, r), h)) = ToSet(Mine(t.hosts, r)) \cup {h}
    BY <2>4, ToSetGrows
  <2>6. CASE h.rtr = r
    BY <1>2, <2>1, <2>2, <2>3, <2>5, <2>6
  <2>7. CASE h.rtr # r
    BY <1>2, <2>1, <2>2, <2>3, <2>7
  <2> QED
    BY <2>6, <2>7
<1>12. AddressesSound'
  <2>1. Addresses' = Addresses \cup {m}
    BY AddressesGrow DEF m
  <2>2. ToSet(u.addr_mappings) = ToSet(t.addr_mappings) \cup {m}
    BY <1>3, <1>5, ToSetGrows
  <2>3. m[1] # Unnumbered
    BY <1>2, AddressesDiffer
  <2>4. {x \in ToSet(t.addr_mappings) : x[1] # Unnumbered} = Addresses
    BY DEF TablesSound, AddressesSound
  <2>5. {x \in ToSet(u.addr_mappings) : x[1] # Unnumbered} = Addresses'
    BY <2>1, <2>2, <2>3, <2>4
  <2> QED
    BY <2>5 DEF AddressesSound, Unnumbered
<1>13. PortsSound'
  <2>1. \A p : On(p)' = On(p)
    <3>1. \A r, p : ~IsIfc(l, r, p)
      BY DEF IsIfc
    <3> QED
      BY <3>1, OnGrows
  <2>2. LinkSets' = LinkSets
    BY LinksGrow
  <2>3. \A p : PortMembers(u, p) = PortMembers(t, p) /\ (IsNetPort(u, p) <=> IsNetPort(t, p))
    BY <1>5 DEF PortMembers, IsRow, IsNetPort
  <2>4. PortsSound
    BY DEF TablesSound
  <2> QED
    BY <1>5, <2>1, <2>2, <2>3, <2>4 DEF PortsSound, Port
<1> QED
  BY <1>1, <1>5, <1>7, <1>8, <1>9, <1>10, <1>11, <1>12, <1>13 DEF FileTypeOK, TablesSound

LEMMA BroadcastLine ==
  ASSUME FileTypeOK, TablesSound, NEW l, Grows(l), l.kind = "broadcast", ~NetDeclared(l.prefix),
         tables' = proc_broadcast(tables, l)
  PROVE  FileTypeOK' /\ TablesSound'
<1> DEFINE t == tables
           u == tables'
           q == t.phy_portno + 1
           n == [prefix |-> l.prefix, area |-> l.area, port |-> q]
<1>1. /\ t \in TableRecord /\ file' \in Seq(Lines) /\ l.prefix \in Prefix /\ l.area \in Area
      /\ \A x \in ToSet(file) : x.kind = "interface" => NetDeclared(x.prefix)
  BY LineKinds, FileGrows DEF FileTypeOK, TablesSound, NetsSound, Grows
<1>2. t.networks \in Seq(NetEntry) /\ t.phy_portno \in Nat
  BY <1>1, TableFields
<1>3. n \in NetEntry /\ n.prefix = l.prefix /\ n.area = l.area /\ n.port = q /\ q \in Nat
  BY <1>1, <1>2 DEF NetEntry
<1>4. u = [t EXCEPT !.phy_portno = q, !.networks = Append(t.networks, n)]
  BY DEF proc_broadcast
<1> HIDE DEF n
<1>5. /\ u \in TableRecord /\ u.routers = t.routers /\ u.networks = Append(t.networks, n)
      /\ u.interfaces = t.interfaces /\ u.hosts = t.hosts
      /\ u.areas = t.areas /\ u.addr_mappings = t.addr_mappings
      /\ u.addr_net_memships = t.addr_net_memships /\ u.phy_portno = q
  <2>1. Append(t.networks, n) \in Seq(NetEntry)
    BY <1>2, <1>3
  <2> HIDE DEF q
  <2> QED
    BY <1>1, <1>3, <1>4, <2>1 DEF TableRecord
<1>6. \A r : AreasOf(r)' = AreasOf(r) /\ IfcsOf(r)' = IfcsOf(r)
  BY <1>1, SameOfRouters
<1>7. RoutersSound'
  <2>1. Routers' = Routers
    BY RoutersGrow
  <2> QED
    BY <1>5, <2>1 DEF TablesSound, RoutersSound
<1>8. ToSet(u.networks) = ToSet(t.networks) \cup {n}
  BY <1>2, <1>5, ToSetGrows
<1>9. /\ {<<x.prefix, x.area>> : x \in ToSet(t.networks)} = {<<x.prefix, x.area>> : x \in Networks}
      /\ \A i, j \in DOMAIN t.networks :
           t.networks[i].prefix = t.networks[j].prefix \/ t.networks[i].port = t.networks[j].port => i = j
      /\ \A x \in ToSet(t.networks) : x.port \in 1..t.phy_portno
  BY DEF TablesSound, NetsSound
<1>10. \A x \in ToSet(t.networks) : x.prefix # l.prefix /\ x.port # q
  <2> SUFFICES ASSUME NEW x \in ToSet(t.networks) PROVE x.prefix # l.prefix /\ x.port # q
    OBVIOUS
  <2>1. x.port # q
    BY <1>2, <1>9
  <2>2. <<x.prefix, x.area>> \in {<<y.prefix, y.area>> : y \in Networks}
    BY <1>9
  <2>3. PICK y \in Networks : <<x.prefix, x.area>> = <<y.prefix, y.area>>
    BY <2>2
  <2>4. x.prefix = y.prefix
    BY <2>3
  <2> QED
    BY <2>1, <2>4 DEF NetDeclared
<1>11. NetsSound'
  <2>1. Networks' = Networks \cup {l}
    BY NetworksGrow
  <2>2. ToSet(file') = ToSet(file) \cup {l}
    BY FileGrows
  <2>3. \A p : NetDeclared(p) => NetDeclared(p)'
    BY <2>1 DEF NetDeclared
  <2>4. {<<x.prefix, x.area>> : x \in ToSet(u.networks)} = {<<x.prefix, x.area>> : x \in Networks'}
    BY <1>3, <1>8, <1>9, <2>1
  <2>5. \A i, j \in DOMAIN u.networks :
          u.networks[i].prefix = u.networks[j].prefix \/ u.networks[i].port = u.networks[j].port => i = j
    <3> DEFINE s == t.networks
               w == Append(s, n)
    <3>1. /\ DOMAIN w = 1..(Len(s) + 1) /\ DOMAIN s = 1..Len(s) /\ Len(s) \in Nat
          /\ w[Len(s) + 1] = n /\ \A i \in 1..Len(s) : w[i] = s[i]
      BY <1>2
    <3>2. \A i \in 1..Len(s) : s[i].prefix # n.prefix /\ s[i].port # n.port
      BY <1>3, <1>10, <3>1 DEF ToSet
    <3>3. \A i, j \in 1..Len(s) : s[i].prefix = s[j].prefix \/ s[i].port = s[j].port => i = j
      BY <1>9, <3>1
    <3> HIDE DEF w, s
    <3>4. \A i \in 1..(Len(s) + 1) : i \in 1..Len(s) \/ i = Len(s) + 1
      BY <3>1
    <3>5. \A i, j \in DOMAIN w : w[i].prefix = w[j].prefix \/ w[i].port = w[j].port => i = j
      BY <3>1, <3>2, <3>3, <3>4
    <3> QED
      BY <1>5, <3>5 DEF w, s
  <2>6. \A x \in ToSet(u.networks) : x.port \in 1..u.phy_portno
    BY <1>2, <1>3, <1>5, <1>8, <1>9
  <2>7. \A x \in ToSet(file') : x.kind = "interface" => NetDeclared(x.prefix)'
    BY <1>1, <2>2, <2>3
  <2> QED
    BY <2>4, <2>5, <2>6, <2>7 DEF NetsSound
<1>12. AreasSound'
  BY <1>5, <1>6 DEF TablesSound, AreasSound
<1>13. IfcsSound'
  <2>1. \A r \in Router : LiveIfcs(u, r) = LiveIfcs(t, r)
    BY <1>5 DEF LiveIfcs
  <2>2. \A e : EntrySound(t, e) => EntrySound(u, e)
    <3>1. t.phy_portno <= u.phy_portno /\ u.phy_portno \in Nat
      BY <1>2, <1>5
    <3>2. ToSet(t.networks) \subseteq ToSet(u.networks)
      BY <1>8
    <3>3. ToSet(t.addr_net_memships) \subseteq ToSet(u.addr_net_memships)
      BY <1>5
    <3> HIDE DEF t, u
    <3> QED
      BY <1>2, <3>1, <3>2, <3>3, EntryKept
  <2>3. IfcsSound
    BY DEF TablesSound
  <2> QED
    BY <1>5, <1>6, <2>1, <2>2, <2>3 DEF IfcsSound
<1>14. HostsSound'
  <2>1. \A r : HostAreas(r)' = HostAreas(r)
    BY HostAreasGrow
  <2> QED
    BY <1>5, <2>1 DEF TablesSound, HostsSound
<1>15. AddressesSound'
  <2>1. Addresses' = Addresses
    BY AddressesGrow
  <2> QED
    BY <1>5, <2>1 DEF TablesSound, AddressesSound, Unnumbered
<1>16. PortsSound'
  <2>1. \A p : On(p)' = On(p)
    <3>1. \A r, p : ~IsIfc(l, r, p)
      BY DEF IsIfc
    <3> QED
      BY <3>1, OnGrows
  <2>2. LinkSets' = LinkSets
    BY LinksGrow
  <2>3. \A p : /\ PortMembers(u, p) = PortMembers(t, p)
               /\ IsNetPort(u, p) <=> IsNetPort(t, p) \/ p = q
    <3>1. \A p : PortMembers(u, p) = PortMembers(t, p)
      BY <1>5 DEF PortMembers, IsRow
    <3>2. \A p : IsNetPort(u, p) <=> IsNetPort(t, p) \/ p = q
      BY <1>3, <1>8 DEF IsNetPort
    <3> QED
      BY <3>1, <3>2
  <2>4. /\ \A x \in ToSet(t.addr_net_memships) : \E p \in 1..t.phy_portno : x[1] = Port(p)
        /\ \A x \in ToSet(t.networks) : PortMembers(t, x.port) = On(x.prefix)
        /\ \A p \in 1..t.phy_portno : IsNetPort(t, p) \/ PortMembers(t, p) \in LinkSets
        /\ \A P \in LinkSets : \E p \in 1..t.phy_portno : ~IsNetPort(t, p) /\ PortMembers(t, p) = P
    BY DEF TablesSound, PortsSound
  <2>5. PortMembers(t, q) = {}
    <3> SUFFICES ASSUME NEW r \in Router, <<Port(q), Name(r)>> \in ToSet(t.addr_net_memships) PROVE FALSE
      BY DEF PortMembers, IsRow
    <3>1. PICK p \in 1..t.phy_portno : <<Port(q), Name(r)>>[1] = Port(p)
      BY <2>4
    <3>2. p = q
      BY <3>1, AddressesDiffer
    <3> QED
      BY <1>2, <3>2
  <2>6. On(n.prefix) = {}
    BY <1>1, <1>3 DEF On, IsIfc
  <2>7. \A p : p \in 1..u.phy_portno <=> p \in 1..t.phy_portno \/ p = q
    BY <1>2, <1>5
  <2>8. \A x \in ToSet(u.addr_net_memships) : \E p \in 1..u.phy_portno : x[1] = Port(p)
    BY <1>5, <2>4, <2>7
  <2>9. \A x \in ToSet(u.networks) : PortMembers(u, x.port) = On(x.prefix)'
    BY <1>3, <1>8, <2>1, <2>3, <2>4, <2>5, <2>6
  <2>10. \A p \in 1..u.phy_portno : IsNetPort(u, p) \/ PortMembers(u, p) \in LinkSets'
    BY <2>2, <2>3, <2>4, <2>7
  <2>11. \A P \in LinkSets' : \E p \in 1..u.phy_portno : ~IsNetPort(u, p) /\ PortMembers(u, p) = P
    <3>1. q \notin 1..t.phy_portno
      BY <1>2
    <3> QED
      BY <2>2, <2>3, <2>4, <2>7, <3>1
  <2> QED
    BY <2>8, <2>9, <2>10, <2>11 DEF PortsSound, Port
<1> QED
  BY <1>1, <1>5, <1>7, <1>11, <1>12, <1>13, <1>14, <1>15, <1>16 DEF FileTypeOK, TablesSound

(* A line about a link or an interface says something of its routers only. *)
OnLink(l, q) == l.kind = "pplink" /\ q \in {l.rtr, l.rtr2}

LEMMA OtherOfRouters ==
  ASSUME NEW l, Grows(l), NEW q, l.kind \in {"pplink", "interface"}, l.kind = "interface" => l.rtr # q
  PROVE  /\ AreasOf(q)' = AreasOf(q) \cup (IF OnLink(l, q) THEN {l.area} ELSE {})
         /\ IfcsOf(q)' = IfcsOf(q) \cup (IF OnLink(l, q) THEN {<<"pp", l.area, Unnumbered>>} ELSE {})
<1> DEFINE is == OnLink(l, q)
           N(f) == {m \in Networks : \E x \in ToSet(f) : IsIfc(x, q, m.prefix)}
           T == {m \in Networks : TurnedOn(q, m.prefix)}
<1>1. Networks' = Networks
  BY NetworksGrow
<1>2. \A p : ~IsIfc(l, q, p)
  BY DEF IsIfc
<1>3. \A p : (\E x \in ToSet(file') : IsIfc(x, q, p)) <=> (\E x \in ToSet(file) : IsIfc(x, q, p))
  <2>1. \A p : (\E x \in ToSet(file') : IsIfc(x, q, p))
               <=> (\E x \in ToSet(file) : IsIfc(x, q, p)) \/ IsIfc(l, q, p)
    BY OnGrows
  <2> QED
    BY <1>2, <2>1, Zenon
<1>4. ASSUME NEW p PROVE TurnedOn(q, p)' <=> TurnedOn(q, p)
  <2>1. TurnedOn(q, p)' <=> (IF IsIfc(l, q, p) THEN l.on ELSE TurnedOn(q, p))
    BY TurnedOnGrows
  <2> QED
    BY <1>2, <2>1
<1>5. LinksOf(q)' = LinksOf(q) \cup (IF is THEN {l} ELSE {})
  BY LinksGrow DEF OnLink
<1>6. {m \in Networks' : \E x \in ToSet(file') : IsIfc(x, q, m.prefix)}
      = {m \in Networks : \E x \in ToSet(file) : IsIfc(x, q, m.prefix)}
  <2> HIDE DEF Networks, IsIfc
  <2> QED
    BY <1>1, <1>3
<1>7. {m \in Networks' : TurnedOn(q, m.prefix)'} = {m \in Networks : TurnedOn(q, m.prefix)}
  <2> HIDE DEF Networks, TurnedOn
  <2> QED
    BY <1>1, <1>4
<1> HIDE DEF is
<1>8. AreasOf(q)' = AreasOf(q) \cup (IF is THEN {l.area} ELSE {})
  BY <1>5, <1>6 DEF AreasOf
<1>9. IfcsOf(q)' = IfcsOf(q) \cup (IF is THEN {<<"pp", l.area, Unnumbered>>} ELSE {})
  <2>1. IfcsOf(q)' = {<<"pp", x.area, Unnumbered>> : x \in LinksOf(q)'}
                     \cup {<<"broadcast", n.area, IfcAddr(q, n.prefix)>> :
                           n \in {m \in Networks' : TurnedOn(q, m.prefix)'}}
    BY DEF IfcsOf, Unnumbered, IfcAddr
  <2> QED
    BY <1>5, <1>7, <2>1 DEF IfcsOf
<1> QED
  BY <1>8, <1>9 DEF is

LEMMA IfcOfRouter ==
  ASSUME NEW l, Grows(l), l.kind = "interface", NetDeclared(l.prefix), NEW a,
         \A m \in Networks : m.prefix = l.prefix => m.area = a
  PROVE  /\ AreasOf(l.rtr)' = AreasOf(l.rtr) \cup {a}
         /\ IfcsOf(l.rtr)' = {y \in IfcsOf(l.rtr) : y[3] # IfcAddr(l.rtr, l.prefix)}
                             \cup (IF l.on THEN {<<"broadcast", a, IfcAddr(l.rtr, l.prefix)>>} ELSE {})
<1> DEFINE q == l.rtr
           addr == IfcAddr(q, l.prefix)
<1>1. Networks' = Networks
  BY NetworksGrow
<1>2. \A p : IsIfc(l, q, p) <=> p = l.prefix
  BY DEF IsIfc
<1>3. \A p : (\E x \in ToSet(file') : IsIfc(x, q, p))
             <=> (\E x \in ToSet(file) : IsIfc(x, q, p)) \/ p = l.prefix
  <2>1. \A p : (\E x \in ToSet(file') : IsIfc(x, q, p))
               <=> (\E x \in ToSet(file) : IsIfc(x, q, p)) \/ IsIfc(l, q, p)
    BY OnGrows
  <2> QED
    BY <1>2, <2>1, Zenon
<1>4. ASSUME NEW p PROVE TurnedOn(q, p)' <=> (IF p = l.prefix THEN l.on ELSE TurnedOn(q, p))
  <2>1. TurnedOn(q, p)' <=> (IF IsIfc(l, q, p) THEN l.on ELSE TurnedOn(q, p))
    BY TurnedOnGrows
  <2> QED
    BY <1>2, <2>1
<1>5. LinksOf(q)' = LinksOf(q)
  <2>1. LinksOf(q)' = LinksOf(q) \cup (IF l.kind = "pplink" /\ q \in {l.rtr, l.rtr2} THEN {l} ELSE {})
    BY LinksGrow
  <2>2. l.kind # "pplink"
    OBVIOUS
  <2> QED
    BY <2>1, <2>2
<1>6. PICK net \in Networks : net.prefix = l.prefix /\ net.area = a
  BY DEF NetDeclared
<1>7. AreasOf(q)' = AreasOf(q) \cup {a}
  <2> DEFINE M == {m \in Networks : \E x \in ToSet(file) : IsIfc(x, q, m.prefix)}
             W == {m \in Networks' : \E x \in ToSet(file') : IsIfc(x, q, m.prefix)}
             O == {m \in Networks : m.prefix = l.prefix}
  <2>1. W = M \cup O
    <3> HIDE DEF Networks, IsIfc
    <3> QED
      BY <1>1, <1>3
  <2>2. {m.area : m \in O} = {a}
    <3> HIDE DEF Networks
    <3> QED
      BY <1>6
  <2>3. AreasOf(q)' = {x.area : x \in LinksOf(q)'} \cup {n.area : n \in W}
    BY DEF AreasOf
  <2>4. AreasOf(q) = {x.area : x \in LinksOf(q)} \cup {n.area : n \in M}
    BY DEF AreasOf
  <2> HIDE DEF W, M, O
  <2> QED
    BY <1>5, <2>1, <2>2, <2>3, <2>4
<1>8. IfcsOf(q)' = {y \in IfcsOf(q) : y[3] # addr} \cup (IF l.on THEN {<<"broadcast", a, addr>>} ELSE {})
  <2> DEFINE M == {m \in Networks : TurnedOn(q, m.prefix)}
             W == {m \in Networks' : TurnedOn(q, m.prefix)'}
             L == {<<"pp", x.area, Unnumbered>> : x \in LinksOf(q)}
             At(n) == <<"broadcast", n.area, IfcAddr(q, n.prefix)>>
  <2>1. IfcsOf(q)' = {<<"pp", x.area, Unnumbered>> : x \in LinksOf(q)'} \cup {At(n) : n \in W}
    BY DEF IfcsOf, Unnumbered, IfcAddr
  <2>2. IfcsOf(q) = L \cup {At(n) : n \in M}
    BY DEF IfcsOf
  <2>3. \A m : m \in W <=> m \in Networks /\ (IF m.prefix = l.prefix THEN l.on ELSE m \in M)
    <3> HIDE DEF Networks, TurnedOn
    <3> QED
      BY <1>1, <1>4
  <2>4. \A y \in L : y[3] # addr
    <3> HIDE DEF LinksOf
    <3> QED
      BY AddressesDiffer
  <2>5. \A n : At(n)[3] = addr <=> n.prefix = l.prefix
    BY AddressesDiffer
  <2>6. \A m \in M : m \in Networks
    OBVIOUS
  <2>7. At(net) = <<"broadcast", a, addr>>
    BY <1>6
  <2>8. \A m \in Networks : m.prefix = l.prefix => At(m) = <<"broadcast", a, addr>>
    OBVIOUS
  <2> HIDE DEF W, M, L, At, addr
  <2>9. {At(n) : n \in W} = {y \in {At(n) : n \in M} : y[3] # addr}
                            \cup (IF l.on THEN {<<"broadcast", a, addr>>} ELSE {})
    <3>1. CASE l.on
      BY <1>6, <2>3, <2>5, <2>6, <2>7, <2>8, <3>1
    <3>2. CASE ~l.on
      BY <2>3, <2>5, <2>6, <3>2
    <3> QED
      BY <3>1, <3>2
  <2>10. IfcsOf(q)' = L \cup {At(n) : n \in W}
    BY <1>5, <2>1 DEF L
  <2> QED
    BY <2>2, <2>4, <2>9, <2>10
<1> QED
  BY <1>7, <1>8

(* The interfaces that are left when a line about one of them is added.    *)
LEMMA LiveOf ==
  ASSUME NEW X, NEW s \in Seq(X), NEW r, NEW x \in Live(Mine(s, r))
  PROVE  x \in ToSet(s) /\ x.rtr = r /\ x.on
<1>1. /\ Mine(s, r) \in Seq(X)
      /\ \A e \in ToSet(Mine(s, r)) : e \in ToSet(s) /\ e.rtr = r
  BY MineIsSequence
<1>2. x.on /\ x \in ToSet(Mine(s, r))
  <2> DEFINE q == Mine(s, r)
  <2>1. q \in Seq(X) /\ x \in LiveTo(q, Len(q))
    BY <1>1 DEF Live
  <2> HIDE DEF q
  <2>2. Len(q) \in Nat /\ DOMAIN q = 1..Len(q)
    BY <2>1
  <2>3. x.on /\ \E i \in 1..Len(q) : x = q[i]
    BY <2>1, <2>2, LiveFrom
  <2> QED
    BY <2>2, <2>3 DEF q, ToSet
<1> QED
  BY <1>1, <1>2

LEMMA LiveAdded ==
  ASSUME NEW X, NEW s \in Seq(X), NEW e \in X, NEW r
  PROVE  Live(Mine(Append(s, e), r))
           = IF e.rtr = r THEN {x \in Live(Mine(s, r)) : ~Same(x, e)} \cup (IF e.on THEN {e} ELSE {})
                          ELSE Live(Mine(s, r))
<1> DEFINE q == Mine(s, r)
<1>1. q \in Seq(X)
  BY MineIsSequence
<1>2. Mine(Append(s, e), r) = IF e.rtr = r THEN Append(q, e) ELSE q
  BY MineGrows
<1> HIDE DEF q
<1>3. Live(Append(q, e)) = {x \in Live(q) : ~Same(x, e)} \cup (IF e.on THEN {e} ELSE {})
  BY <1>1, LiveAppend
<1> QED
  BY <1>2, <1>3 DEF q

(* The members of ports when an address is stored for one.                 *)
LEMMA MembersAdded ==
  ASSUME NEW t \in TableRecord, NEW u, NEW e, IfcAdded(t, u, e)
  PROVE  /\ ToSet(u.addr_net_memships) = ToSet(t.addr_net_memships) \cup {<<Port(e.port), Name(e.rtr)>>}
         /\ \A p, q : IsRow(u, p, q) <=> IsRow(t, p, q) \/ (p = e.port /\ q = e.rtr)
         /\ \A p : PortMembers(u, p) = PortMembers(t, p) \cup (IF p = e.port THEN {e.rtr} ELSE {})
<1> DEFINE k == e.port
           r == e.rtr
<1>5. r \in Router
  BY DEF IfcAdded, IfcEntry
<1> HIDE DEF k, r
<1>1. ToSet(u.addr_net_memships) = ToSet(t.addr_net_memships) \cup {<<Port(k), Name(r)>>}
  <2>1. t.addr_net_memships \in Seq({Port(i) : i \in Nat} \X Names)
    BY TableFields
  <2>2. u.addr_net_memships = Append(t.addr_net_memships, <<Port(k), Name(r)>>)
    BY DEF IfcAdded, k, r
  <2> QED
    BY <2>1, <2>2, ToSetGrows
<1>2. \A p, q : <<Port(p), Name(q)>> = <<Port(k), Name(r)>> <=> p = k /\ q = r
  BY AddressesDiffer
<1>3. \A p, q : IsRow(u, p, q) <=> IsRow(t, p, q) \/ (p = k /\ q = r)
  <2> SUFFICES ASSUME NEW p, NEW q
               PROVE  IsRow(u, p, q) <=> IsRow(t, p, q) \/ (p = k /\ q = r)
    OBVIOUS
  <2> DEFINE m == <<Port(p), Name(q)>>
             n == <<Port(k), Name(r)>>
  <2>1. m = n <=> p = k /\ q = r
    BY <1>2
  <2>2. /\ IsRow(u, p, q) <=> m \in ToSet(u.addr_net_memships)
        /\ IsRow(t, p, q) <=> m \in ToSet(t.addr_net_memships)
    BY DEF IsRow
  <2> HIDE DEF m
  <2> QED
    BY <1>1, <2>1, <2>2
<1>4. \A p : PortMembers(u, p) = PortMembers(t, p) \cup (IF p = k THEN {r} ELSE {})
  <2> HIDE DEF IsRow
  <2> QED
    BY <1>3, <1>5 DEF PortMembers
<1> QED
  BY <1>1, <1>3, <1>4 DEF k, r

LEMMA InterfaceLine ==
  ASSUME FileTypeOK, TablesSound, NEW l, Grows(l), l.kind = "interface", NetDeclared(l.prefix),
         tables' = proc_interface(tables, l)
  PROVE  FileTypeOK' /\ TablesSound'
<1> DEFINE t == tables
           u == tables'
           r == l.rtr
           addr == IfcAddr(r, l.prefix)
<1>1. /\ t \in TableRecord /\ file' \in Seq(Lines) /\ r \in Router /\ l.prefix \in Prefix
      /\ l.on \in BOOLEAN
      /\ \A x \in ToSet(file) : x.kind = "interface" => NetDeclared(x.prefix)
  BY LineKinds, FileGrows DEF FileTypeOK, TablesSound, NetsSound, Grows
<1>2. /\ t.networks \in Seq(NetEntry) /\ t.phy_portno \in Nat /\ t.interfaces \in Seq(IfcEntry)
      /\ t.addr_mappings \in Seq(({Unnumbered} \cup IfcAddrs \cup HostAddrs) \X Names)
      /\ t.addr_net_memships \in Seq({Port(i) : i \in Nat} \X Names)
      /\ t.areas \in [Router -> [1..MaxAreas -> Area \cup {NULL}]]
  BY <1>1, TableFields
<1>3. /\ {<<x.prefix, x.area>> : x \in ToSet(t.networks)} = {<<x.prefix, x.area>> : x \in Networks}
      /\ \A i, j \in DOMAIN t.networks :
           t.networks[i].prefix = t.networks[j].prefix \/ t.networks[i].port = t.networks[j].port => i = j
      /\ \A x \in ToSet(t.networks) : x.port \in 1..t.phy_portno
  BY DEF TablesSound, NetsSound
<1> DEFINE Is(i) == /\ t.networks[i].prefix = l.prefix
                    /\ \A j \in 1..(i - 1) : t.networks[j].prefix # l.prefix
           n == CHOOSE i \in DOMAIN t.networks : Is(i)
           net == t.networks[n]
<1>4. n \in DOMAIN t.networks /\ Is(n)
  <2>1. PICK y \in Networks : y.prefix = l.prefix
    BY DEF NetDeclared
  <2>2. <<y.prefix, y.area>> \in {<<x.prefix, x.area>> : x \in ToSet(t.networks)}
    BY <1>3
  <2>3. PICK x \in ToSet(t.networks) : <<y.prefix, y.area>> = <<x.prefix, x.area>>
    BY <2>2
  <2>4. PICK i \in DOMAIN t.networks : x = t.networks[i]
    BY DEF ToSet
  <2>5. t.networks[i].prefix = l.prefix
    BY <2>1, <2>3, <2>4
  <2>6. Is(i)
    <3> SUFFICES ASSUME NEW j \in 1..(i - 1), t.networks[j].prefix = l.prefix PROVE FALSE
      BY <2>5
    <3>1. DOMAIN t.networks = 1..Len(t.networks) /\ Len(t.networks) \in Nat
      BY <1>2
    <3>2. j \in DOMAIN t.networks /\ j # i
      BY <2>4, <3>1
    <3> QED
      BY <1>3, <2>4, <2>5, <3>2
  <2> HIDE DEF Is
  <2> QED
    BY <2>4, <2>6
<1>5. /\ net \in ToSet(t.networks) /\ net.prefix = l.prefix /\ net.area \in Area /\ net.port \in Nat
      /\ net.port \in 1..t.phy_portno
  <2>1. net \in ToSet(t.networks)
    BY <1>4 DEF ToSet
  <2>2. net.prefix = l.prefix
    BY <1>4
  <2>3. net \in NetEntry
    <3> HIDE DEF n, Is
    <3> QED
      BY <1>2, <1>4
  <2> HIDE DEF net
  <2> QED
    BY <1>3, <2>1, <2>2, <2>3 DEF NetEntry
<1>6. u = AddIfc(AddArea(t, r, net.area, 1), r, "broadcast", net.area, addr, net.port, l.on)
  BY DEF proc_interface
<1>7. \A x \in ToSet(t.networks) : x.prefix = l.prefix \/ x.port = net.port => x = net
  <2> SUFFICES ASSUME NEW x \in ToSet(t.networks), x.prefix = l.prefix \/ x.port = net.port
               PROVE  x = net
    OBVIOUS
  <2>1. PICK i \in DOMAIN t.networks : x = t.networks[i]
    BY DEF ToSet
  <2>2. i = n
    <3> HIDE DEF n
    <3> QED
      BY <1>3, <1>4, <1>5, <2>1
  <2> QED
    BY <2>1, <2>2
<1> HIDE DEF n, Is, net
<1> DEFINE e == Entry(r, "broadcast", net.area, addr, net.port, l.on)
           v == AddArea(t, r, net.area, 1)
<1>8. /\ v \in TableRecord /\ v.routers = t.routers /\ v.networks = t.networks
      /\ v.interfaces = t.interfaces /\ v.hosts = t.hosts
      /\ v.addr_mappings = t.addr_mappings /\ v.addr_net_memships = t.addr_net_memships
      /\ v.phy_portno = t.phy_portno
      /\ v.areas[r] = [t.areas[r] EXCEPT ![AreaPlace(t.areas[r], net.area, 1)] = net.area]
      /\ \A q \in Router \ {r} : v.areas[q] = t.areas[q]
  BY <1>1, <1>5, AddAreaEffect
<1>9. addr \in {Unnumbered} \cup IfcAddrs
  BY <1>1 DEF IfcAddrs
<1>10. /\ u \in TableRecord /\ u.routers = v.routers /\ u.networks = v.networks
       /\ e \in IfcEntry /\ u.interfaces = Append(v.interfaces, e) /\ u.hosts = v.hosts
       /\ u.areas = v.areas
       /\ u.addr_mappings = Append(v.addr_mappings, <<addr, Name(r)>>)
       /\ u.addr_net_memships = Append(v.addr_net_memships, <<Port(net.port), Name(r)>>)
       /\ u.phy_portno = v.phy_portno
       /\ IfcAdded(v, u, e)
  <2> DEFINE a == net.area
             k == net.port
             on == l.on
             w == AddIfc(v, r, "broadcast", a, addr, k, on)
  <2>1. w = u /\ e = Entry(r, "broadcast", a, addr, k, on)
    BY <1>6
  <2>3. r \in Router /\ a \in Area /\ k \in Nat /\ on \in BOOLEAN /\ "broadcast" \in {"pp", "broadcast"}
    BY <1>1, <1>5
  <2>4. e.addr = addr /\ e.rtr = r /\ e.port = k
    BY DEF Entry
  <2> HIDE DEF v, addr, a, k, on, e, r, w
  <2>5. IfcAdded(v, w, e)
    <3>1. IfcAdded(v, AddIfc(v, r, "broadcast", a, addr, k, on), Entry(r, "broadcast", a, addr, k, on))
      BY <1>8, <1>9, <2>3, AddIfcEffect
    <3> QED
      BY <2>1, <3>1 DEF w
  <2> QED
    BY <2>1, <2>4, <2>5 DEF IfcAdded, k
<1> HIDE DEF v
<1>11. /\ e.rtr = r /\ e.type = "broadcast" /\ e.area = net.area /\ e.addr = addr
       /\ e.port = net.port /\ e.on = l.on
  BY DEF Entry
<1> HIDE DEF e
<1>12. /\ \A m \in Networks : m.prefix = l.prefix => m.area = net.area
       /\ Networks' = Networks
  <2>1. ASSUME NEW m \in Networks, m.prefix = l.prefix PROVE m.area = net.area
    <3>1. <<m.prefix, m.area>> \in {<<x.prefix, x.area>> : x \in ToSet(t.networks)}
      BY <1>3
    <3>2. PICK x \in ToSet(t.networks) : <<m.prefix, m.area>> = <<x.prefix, x.area>>
      BY <3>1
    <3>3. x.prefix = l.prefix /\ x.area = m.area
      BY <2>1, <3>2
    <3> QED
      BY <1>7, <3>3
  <2> QED
    BY <2>1, NetworksGrow
<1>13. \A q \in Router \ {r} : AreasOf(q)' = AreasOf(q) /\ IfcsOf(q)' = IfcsOf(q)
  <2> SUFFICES ASSUME NEW q \in Router \ {r} PROVE AreasOf(q)' = AreasOf(q) /\ IfcsOf(q)' = IfcsOf(q)
    OBVIOUS
  <2>3. l.kind \in {"pplink", "interface"} /\ (l.kind = "interface" => l.rtr # q)
    OBVIOUS
  <2> HIDE DEF r
  <2>1. /\ AreasOf(q)' = AreasOf(q) \cup (IF OnLink(l, q) THEN {l.area} ELSE {})
        /\ IfcsOf(q)' = IfcsOf(q) \cup (IF OnLink(l, q) THEN {<<"pp", l.area, Unnumbered>>} ELSE {})
    BY <2>3, OtherOfRouters
  <2>2. ~OnLink(l, q)
    BY DEF OnLink
  <2> QED
    BY <2>1, <2>2
<1>14. /\ AreasOf(r)' = AreasOf(r) \cup {net.area}
       /\ IfcsOf(r)' = {y \in IfcsOf(r) : y[3] # addr}
                       \cup (IF l.on THEN {<<"broadcast", net.area, addr>>} ELSE {})
  BY <1>12, IfcOfRouter
<1>15. RoutersSound'
  <2>1. Routers' = Routers
    BY RoutersGrow
  <2> QED
    BY <1>8, <1>10, <2>1 DEF TablesSound, RoutersSound
<1>16. NetsSound'
  <2>1. ToSet(file') = ToSet(file) \cup {l}
    BY FileGrows
  <2>2. \A p : NetDeclared(p)' <=> NetDeclared(p)
    BY <1>12 DEF NetDeclared
  <2>3. NetsSound
    BY DEF TablesSound
  <2> QED
    BY <1>8, <1>10, <1>12, <2>1, <2>2, <2>3 DEF NetsSound
<1>17. AreasSound'
  <2> SUFFICES ASSUME NEW q \in Router
               PROVE  AreasOf(q)' \in SUBSET Area /\ RowHas(u.areas[q], AreasOf(q)')
    BY DEF AreasSound, RowHas, MaxAreas
  <2>1. AreasOf(q) \in SUBSET Area /\ RowHas(t.areas[q], AreasOf(q))
    BY DEF TablesSound, AreasSound
  <2>2. CASE q # r
    BY <1>8, <1>10, <1>13, <2>1, <2>2
  <2>3. CASE q = r
    <3> DEFINE a == net.area
               row == t.areas[q]
               S == AreasOf(q)
    <3>1. a \in Area /\ row \in [1..MaxAreas -> Area \cup {NULL}] /\ S \in SUBSET Area /\ RowHas(row, S)
      BY <1>2, <1>5, <2>1
    <3>2. S' = S \cup {a} /\ u.areas[q] = [row EXCEPT ![AreaPlace(row, a, 1)] = a]
      BY <1>8, <1>10, <1>14, <2>3
    <3> HIDE DEF a, row
    <3>3. RowHas([row EXCEPT ![AreaPlace(row, a, 1)] = a], S \cup {a})
      <4> HIDE DEF S
      <4> QED
        BY <3>1, RowGrows
    <3> QED
      BY <3>1, <3>2, <3>3
  <2> QED
    BY <2>2, <2>3
<1>18. /\ ToSet(u.addr_net_memships) = ToSet(t.addr_net_memships) \cup {<<Port(net.port), Name(r)>>}
       /\ \A p, q : IsRow(u, p, q) <=> IsRow(t, p, q) \/ (p = net.port /\ q = r)
       /\ \A p : PortMembers(u, p) = PortMembers(t, p) \cup (IF p = net.port THEN {r} ELSE {})
  <2>3. v \in TableRecord /\ IfcAdded(v, u, e)
    BY <1>8, <1>10
  <2> HIDE DEF t, u, r
  <2>1. /\ ToSet(u.addr_net_memships) = ToSet(v.addr_net_memships) \cup {<<Port(e.port), Name(e.rtr)>>}
        /\ \A p, q : IsRow(u, p, q) <=> IsRow(v, p, q) \/ (p = e.port /\ q = e.rtr)
        /\ \A p : PortMembers(u, p) = PortMembers(v, p) \cup (IF p = e.port THEN {e.rtr} ELSE {})
    BY <2>3, MembersAdded
  <2>2. /\ \A p, q : IsRow(v, p, q) <=> IsRow(t, p, q)
        /\ \A p : PortMembers(v, p) = PortMembers(t, p)
    BY <1>8 DEF IsRow, PortMembers
  <2> QED
    BY <1>8, <1>11, <2>1, <2>2 DEF r
<1>19. IfcsSound'
  <2>1. IfcsSound
    BY DEF TablesSound
  <2>2. \A q \in Router : LiveIfcs(u, q) = IfcsOf(q)'
    <3> SUFFICES ASSUME NEW q \in Router PROVE LiveIfcs(u, q) = IfcsOf(q)'
      OBVIOUS
    <3> DEFINE L == Live(Mine(t.interfaces, q))
               K == Live(Mine(u.interfaces, q))
    <3>1. K = IF e.rtr = q THEN {x \in L : ~Same(x, e)} \cup (IF e.on THEN {e} ELSE {}) ELSE L
      <4> DEFINE s == t.interfaces
      <4>1. s \in Seq(IfcEntry) /\ e \in IfcEntry /\ u.interfaces = Append(s, e)
        BY <1>2, <1>8, <1>10
      <4> HIDE DEF s
      <4>2. Live(Mine(Append(s, e), q))
              = IF e.rtr = q THEN {x \in Live(Mine(s, q)) : ~Same(x, e)} \cup (IF e.on THEN {e} ELSE {})
                             ELSE Live(Mine(s, q))
        BY <4>1, LiveAdded
      <4> QED
        BY <4>1, <4>2 DEF s
    <3>2. \A x \in L : x \in ToSet(t.interfaces) /\ x.rtr = q
      BY <1>2, LiveOf
    <3>3. /\ LiveIfcs(t, q) = {<<x.type, x.area, x.addr>> : x \in L}
          /\ LiveIfcs(u, q) = {<<x.type, x.area, x.addr>> : x \in K}
          /\ LiveIfcs(t, q) = IfcsOf(q)
      BY <2>1 DEF LiveIfcs, IfcsSound
    <3> HIDE DEF L, K
    <3>4. CASE q # r
      <4>1. K = L
        BY <1>11, <3>1, <3>4
      <4>2. IfcsOf(q)' = IfcsOf(q)
        BY <1>13, <3>4
      <4> QED
        BY <3>3, <4>1, <4>2
    <3>5. CASE q = r
      <4>1. \A x \in L : Same(x, e) <=> x.addr = addr
        <5> SUFFICES ASSUME NEW x \in L, x.addr = addr PROVE x.port = net.port
          BY <1>11 DEF Same
        <5>1. EntrySound(t, x) /\ x.rtr = r
          BY <2>1, <3>2, <3>5 DEF IfcsSound
        <5>2. PICK y \in ToSet(t.networks) : addr = IfcAddr(r, y.prefix) /\ x.port = y.port
          <6>1. addr # Unnumbered
            BY AddressesDiffer
          <6> QED
            BY <5>1, <6>1 DEF EntrySound
        <5>3. y.prefix = l.prefix
          BY <5>2, AddressesDiffer
        <5> QED
          BY <1>7, <5>2, <5>3
      <4>2. K = {x \in L : x.addr # addr} \cup (IF l.on THEN {e} ELSE {})
        BY <1>11, <3>1, <3>5, <4>1
      <4> HIDE DEF addr
      <4>3. {<<x.type, x.area, x.addr>> : x \in K}
              = {y \in {<<x.type, x.area, x.addr>> : x \in L} : y[3] # addr}
                \cup (IF l.on THEN {<<e.type, e.area, e.addr>>} ELSE {})
        <5>1. CASE l.on
          BY <4>2, <5>1
        <5>2. CASE ~l.on
          BY <4>2, <5>2
        <5> QED
          BY <5>1, <5>2
      <4>4. <<e.type, e.area, e.addr>> = <<"broadcast", net.area, addr>>
        BY <1>11
      <4> QED
        BY <1>14, <3>3, <3>5, <4>3, <4>4
    <3> QED
      BY <3>4, <3>5
  <2>3. \A x \in ToSet(u.interfaces) : EntrySound(u, x)
    <3>1. ToSet(u.interfaces) = ToSet(t.interfaces) \cup {e}
      BY <1>2, <1>8, <1>10, ToSetGrows
    <3>2. \A x \in ToSet(t.interfaces) : EntrySound(u, x)
      <4>1. ASSUME NEW x, EntrySound(t, x) PROVE EntrySound(u, x)
        <5>1. t.phy_portno \in Nat /\ u.phy_portno \in Nat /\ t.phy_portno <= u.phy_portno
          BY <1>2, <1>8, <1>10
        <5>2. /\ ToSet(t.networks) \subseteq ToSet(u.networks)
              /\ ToSet(t.addr_net_memships) \subseteq ToSet(u.addr_net_memships)
          BY <1>8, <1>10, <1>18
        <5> HIDE DEF t, u
        <5> QED
          BY <4>1, <5>1, <5>2, EntryKept
      <4> QED
        BY <2>1, <4>1 DEF IfcsSound
    <3>3. EntrySound(u, e)
      <4>1. e.port \in 1..u.phy_portno
        BY <1>5, <1>8, <1>10, <1>11
      <4>2. IsRow(u, e.port, e.rtr)
        BY <1>11, <1>18
      <4>3. net \in ToSet(u.networks) /\ e.addr = IfcAddr(e.rtr, net.prefix)
        BY <1>5, <1>8, <1>10, <1>11
      <4> QED
        BY <1>11, <4>1, <4>2, <4>3 DEF EntrySound
    <3> QED
      BY <3>1, <3>2, <3>3
  <2> QED
    BY <2>2, <2>3 DEF IfcsSound, LiveIfcs, EntrySound, IsRow, Unnumbered, IfcAddr, Port, Name
<1>20. HostsSound'
  <2>1. \A q : HostAreas(q)' = HostAreas(q)
    BY HostAreasGrow
  <2> QED
    BY <1>8, <1>10, <2>1 DEF TablesSound, HostsSound
<1>21. AddressesSound'
  <2> DEFINE m == <<addr, Name(r)>>
             A == ({Unnumbered} \cup IfcAddrs \cup HostAddrs) \X Names
  <2>1. Addresses' = Addresses \cup {m}
    BY AddressesGrow
  <2>2. t.addr_mappings \in Seq(A) /\ u.addr_mappings = Append(t.addr_mappings, m)
    BY <1>2, <1>8, <1>10
  <2>3. m[1] # Unnumbered
    BY AddressesDiffer
  <2> HIDE DEF m, A
  <2>4. ToSet(u.addr_mappings) = ToSet(t.addr_mappings) \cup {m}
    BY <2>2, ToSetGrows
  <2>5. {x \in ToSet(t.addr_mappings) : x[1] # Unnumbered} = Addresses
    BY DEF TablesSound, AddressesSound
  <2>6. {x \in ToSet(u.addr_mappings) : x[1] # Unnumbered} = Addresses'
    BY <2>1, <2>3, <2>4, <2>5
  <2> QED
    BY <2>6 DEF AddressesSound, Unnumbered
<1>22. PortsSound'
  <2>1. \A p : On(p)' = On(p) \cup (IF p = l.prefix THEN {r} ELSE {})
    <3> SUFFICES ASSUME NEW p PROVE On(p)' = On(p) \cup (IF p = l.prefix THEN {r} ELSE {})
      OBVIOUS
    <3>1. \A q : IsIfc(l, q, p) <=> q = r /\ p = l.prefix
      BY DEF IsIfc
    <3>2. On(p)' = On(p) \cup {q \in Router : IsIfc(l, q, p)}
      BY OnGrows
    <3> HIDE DEF IsIfc
    <3> QED
      BY <1>1, <3>1, <3>2
  <2>2. LinkSets' = LinkSets
    <3>1. LinkSets' = LinkSets \cup (IF l.kind = "pplink" THEN {{l.rtr, l.rtr2}} ELSE {})
      BY LinksGrow
    <3> QED
      BY <3>1
  <2>3. \A p : PortMembers(u, p) = PortMembers(t, p) \cup (IF p = net.port THEN {r} ELSE {})
    BY <1>1, <1>18
  <2>4. \A p : IsNetPort(u, p) <=> IsNetPort(t, p)
    BY <1>8, <1>10 DEF IsNetPort
  <2>5. /\ \A x \in ToSet(t.addr_net_memships) : \E p \in 1..t.phy_portno : x[1] = Port(p)
        /\ \A x \in ToSet(t.networks) : PortMembers(t, x.port) = On(x.prefix)
        /\ \A p \in 1..t.phy_portno : IsNetPort(t, p) \/ PortMembers(t, p) \in LinkSets
        /\ \A P \in LinkSets : \E p \in 1..t.phy_portno : ~IsNetPort(t, p) /\ PortMembers(t, p) = P
    BY DEF TablesSound, PortsSound
  <2>6. u.phy_portno = t.phy_portno /\ u.networks = t.networks
    BY <1>8, <1>10
  <2>7. IsNetPort(t, net.port)
    BY <1>5 DEF IsNetPort
  <2>8. \A x \in ToSet(u.addr_net_memships) : \E p \in 1..u.phy_portno : x[1] = Port(p)
    BY <1>5, <1>18, <2>5, <2>6
  <2>9. \A x \in ToSet(u.networks) : PortMembers(u, x.port) = On(x.prefix)'
    <3> SUFFICES ASSUME NEW x \in ToSet(t.networks) PROVE PortMembers(u, x.port) = On(x.prefix)'
      BY <2>6
    <3>1. x.port = net.port <=> x.prefix = l.prefix
      BY <1>5, <1>7
    <3> QED
      BY <2>1, <2>3, <2>5, <3>1
  <2>10. \A p \in 1..u.phy_portno : IsNetPort(u, p) \/ PortMembers(u, p) \in LinkSets'
    BY <2>2, <2>3, <2>4, <2>5, <2>6, <2>7
  <2>11. \A P \in LinkSets' : \E p \in 1..u.phy_portno : ~IsNetPort(u, p) /\ PortMembers(u, p) = P
    <3> SUFFICES ASSUME NEW P \in LinkSets
                 PROVE  \E p \in 1..u.phy_portno : ~IsNetPort(u, p) /\ PortMembers(u, p) = P
      BY <2>2
    <3>1. PICK p \in 1..t.phy_portno : ~IsNetPort(t, p) /\ PortMembers(t, p) = P
      BY <2>5
    <3>2. PortMembers(u, p) = P
      BY <2>3, <2>7, <3>1
    <3> QED
      BY <2>4, <2>6, <3>1, <3>2
  <2> QED
    BY <2>8, <2>9, <2>10, <2>11 DEF PortsSound, Port
<1> QED
  BY <1>1, <1>10, <1>15, <1>16, <1>17, <1>19, <1>20, <1>21, <1>22 DEF FileTypeOK, TablesSound

LEMMA PPLinkLine ==
  ASSUME FileTypeOK, TablesSound, NEW l, Grows(l), l.kind = "pplink", tables' = proc_pplink(tables, l)
  PROVE  FileTypeOK' /\ TablesSound'
<1> DEFINE t == tables
           u == tables'
           r1 == l.rtr
           r2 == l.rtr2
           a == l.area
           p == t.phy_portno + 1
<1>1. /\ t \in TableRecord /\ file' \in Seq(Lines) /\ r1 \in Router /\ r2 \in Router /\ r1 # r2 /\ a \in Area
      /\ \A x \in ToSet(file) : x.kind = "interface" => NetDeclared(x.prefix)
  BY LineKinds, FileGrows DEF FileTypeOK, TablesSound, NetsSound, Grows
<1>2. /\ t.networks \in Seq(NetEntry) /\ t.phy_portno \in Nat /\ t.interfaces \in Seq(IfcEntry)
      /\ t.addr_mappings \in Seq(({Unnumbered} \cup IfcAddrs \cup HostAddrs) \X Names)
      /\ t.addr_net_memships \in Seq({Port(i) : i \in Nat} \X Names)
      /\ t.areas \in [Router -> [1..MaxAreas -> Area \cup {NULL}]]
  BY <1>1, TableFields
<1> DEFINE t1 == AddArea(t, r1, a, 1)
           t2 == AddArea(t1, r2, a, 1)
           t3 == [t2 EXCEPT !.phy_portno = p]
           e1 == Entry(r1, "pp", a, Unnumbered, p, TRUE)
           e2 == Entry(r2, "pp", a, Unnumbered, p, TRUE)
           t4 == AddIfc(t3, r1, "pp", a, Unnumbered, p, TRUE)
<1>3. u = AddIfc(t4, r2, "pp", a, Unnumbered, p, TRUE)
  BY DEF proc_pplink, SecondPlace
<1>4. /\ t1 \in TableRecord /\ t1.routers = t.routers /\ t1.networks = t.networks
      /\ t1.interfaces = t.interfaces /\ t1.hosts = t.hosts
      /\ t1.addr_mappings = t.addr_mappings /\ t1.addr_net_memships = t.addr_net_memships
      /\ t1.phy_portno = t.phy_portno
      /\ t1.areas[r1] = [t.areas[r1] EXCEPT ![AreaPlace(t.areas[r1], a, 1)] = a]
      /\ \A q \in Router \ {r1} : t1.areas[q] = t.areas[q]
  <2> HIDE DEF t, r1, a
  <2> QED
    BY <1>1, AddAreaEffect
<1> HIDE DEF t1
<1>5. /\ t2 \in TableRecord /\ t2.routers = t1.routers /\ t2.networks = t1.networks
      /\ t2.interfaces = t1.interfaces /\ t2.hosts = t1.hosts
      /\ t2.addr_mappings = t1.addr_mappings /\ t2.addr_net_memships = t1.addr_net_memships
      /\ t2.phy_portno = t1.phy_portno
      /\ t2.areas[r2] = [t1.areas[r2] EXCEPT ![AreaPlace(t1.areas[r2], a, 1)] = a]
      /\ \A q \in Router \ {r2} : t2.areas[q] = t1.areas[q]
  <2> HIDE DEF t, r2, a
  <2> QED
    BY <1>1, <1>4, AddAreaEffect
<1> HIDE DEF t2
<1>6. /\ t3 \in TableRecord /\ t3.routers = t2.routers /\ t3.networks = t2.networks
      /\ t3.interfaces = t2.interfaces /\ t3.hosts = t2.hosts /\ t3.areas = t2.areas
      /\ t3.addr_mappings = t2.addr_mappings /\ t3.addr_net_memships = t2.addr_net_memships
      /\ t3.phy_portno = p
  <2>1. p \in Nat
    BY <1>2
  <2> HIDE DEF p
  <2> QED
    BY <1>5, <2>1 DEF TableRecord
<1> HIDE DEF t3
<1>7. p \in Nat /\ Unnumbered \in {Unnumbered} \cup IfcAddrs /\ "pp" \in {"pp", "broadcast"} /\ TRUE \in BOOLEAN
  BY <1>2
<1>8. IfcAdded(t3, t4, e1)
  <2> DEFINE on == TRUE
             ad == Unnumbered
  <2>1. p \in Nat /\ ad \in {Unnumbered} \cup IfcAddrs /\ "pp" \in {"pp", "broadcast"} /\ on \in BOOLEAN
    BY <1>7
  <2> HIDE DEF t, r1, a, p, on, ad
  <2>2. IfcAdded(t3, AddIfc(t3, r1, "pp", a, ad, p, on), Entry(r1, "pp", a, ad, p, on))
    BY <1>1, <1>6, <2>1, AddIfcEffect
  <2> QED
    BY <2>2 DEF ad, on
<1>9. IfcAdded(t4, u, e2)
  <2> DEFINE on == TRUE
             ad == Unnumbered
  <2>1. p \in Nat /\ ad \in {Unnumbered} \cup IfcAddrs /\ "pp" \in {"pp", "broadcast"} /\ on \in BOOLEAN
    BY <1>7
  <2>2. t4 \in TableRecord
    BY <1>8 DEF IfcAdded
  <2> HIDE DEF t, u, r2, a, p, on, ad, t4
  <2>3. IfcAdded(t4, AddIfc(t4, r2, "pp", a, ad, p, on), Entry(r2, "pp", a, ad, p, on))
    BY <1>1, <2>1, <2>2, AddIfcEffect
  <2> QED
    BY <1>3, <2>3 DEF ad, on
<1>10. /\ e1.rtr = r1 /\ e1.type = "pp" /\ e1.area = a /\ e1.addr = Unnumbered /\ e1.port = p /\ e1.on = TRUE
       /\ e2.rtr = r2 /\ e2.type = "pp" /\ e2.area = a /\ e2.addr = Unnumbered /\ e2.port = p /\ e2.on = TRUE
  BY DEF Entry
<1> HIDE DEF e1, e2, t4
<1>11. /\ t4 \in TableRecord /\ u \in TableRecord /\ e1 \in IfcEntry /\ e2 \in IfcEntry
       /\ u.routers = t.routers /\ u.networks = t.networks /\ u.hosts = t.hosts /\ u.phy_portno = p
       /\ u.areas = t2.areas
       /\ t4.interfaces = Append(t.interfaces, e1) /\ u.interfaces = Append(t4.interfaces, e2)
       /\ t4.addr_mappings = Append(t.addr_mappings, <<Unnumbered, Name(r1)>>)
       /\ u.addr_mappings = Append(t4.addr_mappings, <<Unnumbered, Name(r2)>>)
  <2> HIDE DEF t, u, p, r1, r2
  <2> QED
    BY <1>4, <1>5, <1>6, <1>8, <1>9, <1>10 DEF IfcAdded
<1>12. /\ \A k, q : IsRow(u, k, q) <=> IsRow(t, k, q) \/ (k = p /\ q \in {r1, r2})
       /\ ToSet(u.addr_net_memships) = ToSet(t.addr_net_memships) \cup {<<Port(p), Name(r1)>>, <<Port(p), Name(r2)>>}
       /\ \A k : PortMembers(u, k) = PortMembers(t, k) \cup (IF k = p THEN {r1, r2} ELSE {})
  <2>1. /\ ToSet(t4.addr_net_memships) = ToSet(t3.addr_net_memships) \cup {<<Port(e1.port), Name(e1.rtr)>>}
        /\ \A k, q : IsRow(t4, k, q) <=> IsRow(t3, k, q) \/ (k = e1.port /\ q = e1.rtr)
        /\ \A k : PortMembers(t4, k) = PortMembers(t3, k) \cup (IF k = e1.port THEN {e1.rtr} ELSE {})
    BY <1>6, <1>8, MembersAdded
  <2> HIDE DEF t, u, p, r1, r2
  <2>2. /\ ToSet(u.addr_net_memships) = ToSet(t4.addr_net_memships) \cup {<<Port(e2.port), Name(e2.rtr)>>}
        /\ \A k, q : IsRow(u, k, q) <=> IsRow(t4, k, q) \/ (k = e2.port /\ q = e2.rtr)
        /\ \A k : PortMembers(u, k) = PortMembers(t4, k) \cup (IF k = e2.port THEN {e2.rtr} ELSE {})
    BY <1>9, <1>11, MembersAdded
  <2>3. /\ \A k, q : IsRow(t3, k, q) <=> IsRow(t, k, q)
        /\ \A k : PortMembers(t3, k) = PortMembers(t, k)
        /\ t3.addr_net_memships = t.addr_net_memships
    BY <1>4, <1>5, <1>6 DEF IsRow, PortMembers
  <2>4. \A k : PortMembers(u, k) = PortMembers(t, k) \cup (IF k = p THEN {r1, r2} ELSE {})
    BY <1>10, <2>1, <2>2, <2>3
  <2>5. \A k, q : IsRow(u, k, q) <=> IsRow(t, k, q) \/ (k = p /\ q \in {r1, r2})
    BY <1>10, <2>1, <2>2, <2>3
  <2> QED
    BY <1>10, <2>1, <2>2, <2>3, <2>4, <2>5
<1>13. \A q \in Router :
         /\ AreasOf(q)' = AreasOf(q) \cup (IF q \in {r1, r2} THEN {a} ELSE {})
         /\ IfcsOf(q)' = IfcsOf(q) \cup (IF q \in {r1, r2} THEN {<<"pp", a, Unnumbered>>} ELSE {})
  <2> SUFFICES ASSUME NEW q \in Router
               PROVE  /\ AreasOf(q)' = AreasOf(q) \cup (IF q \in {r1, r2} THEN {a} ELSE {})
                      /\ IfcsOf(q)' = IfcsOf(q) \cup (IF q \in {r1, r2} THEN {<<"pp", a, Unnumbered>>} ELSE {})
    OBVIOUS
  <2>1. /\ AreasOf(q)' = AreasOf(q) \cup (IF OnLink(l, q) THEN {l.area} ELSE {})
        /\ IfcsOf(q)' = IfcsOf(q) \cup (IF OnLink(l, q) THEN {<<"pp", l.area, Unnumbered>>} ELSE {})
    BY OtherOfRouters
  <2>2. OnLink(l, q) <=> q \in {r1, r2}
    BY DEF OnLink
  <2> QED
    BY <2>1, <2>2
<1>14. RoutersSound'
  <2>1. Routers' = Routers
    BY RoutersGrow
  <2> QED
    BY <1>11, <2>1 DEF TablesSound, RoutersSound
<1>15. NetsSound'
  <2>1. ToSet(file') = ToSet(file) \cup {l} /\ Networks' = Networks
    BY FileGrows, NetworksGrow
  <2>2. \A k : NetDeclared(k)' <=> NetDeclared(k)
    BY <2>1 DEF NetDeclared
  <2>3. /\ {<<x.prefix, x.area>> : x \in ToSet(t.networks)} = {<<x.prefix, x.area>> : x \in Networks}
        /\ \A i, j \in DOMAIN t.networks :
             t.networks[i].prefix = t.networks[j].prefix \/ t.networks[i].port = t.networks[j].port => i = j
        /\ \A x \in ToSet(t.networks) : x.port \in 1..t.phy_portno
    BY DEF TablesSound, NetsSound
  <2>4. \A x \in ToSet(u.networks) : x.port \in 1..u.phy_portno
    BY <1>2, <1>11, <2>3
  <2>5. \A x \in ToSet(file') : x.kind = "interface" => NetDeclared(x.prefix)'
    BY <1>1, <2>1, <2>2
  <2>6. /\ {<<x.prefix, x.area>> : x \in ToSet(u.networks)} = {<<x.prefix, x.area>> : x \in Networks'}
        /\ \A i, j \in DOMAIN u.networks :
             u.networks[i].prefix = u.networks[j].prefix \/ u.networks[i].port = u.networks[j].port => i = j
    <3>1. u.networks = t.networks
      BY <1>11
    <3> HIDE DEF t, u
    <3> QED
      BY <2>1, <2>3, <3>1
  <2> QED
    BY <2>4, <2>5, <2>6 DEF NetsSound
<1>16. AreasSound'
  <2> SUFFICES ASSUME NEW q \in Router
               PROVE  AreasOf(q)' \in SUBSET Area /\ RowHas(u.areas[q], AreasOf(q)')
    BY DEF AreasSound, RowHas, MaxAreas
  <2> DEFINE row == t.areas[q]
             S == AreasOf(q)
             grown == [row EXCEPT ![AreaPlace(row, a, 1)] = a]
  <2>1. S \in SUBSET Area /\ RowHas(row, S) /\ row \in [1..MaxAreas -> Area \cup {NULL}]
    BY <1>2 DEF TablesSound, AreasSound
  <2>2. CASE q \notin {r1, r2}
    <3>1. u.areas[q] = row
      BY <1>4, <1>5, <1>11, <2>2
    <3>2. S' = S
      <4>1. AreasOf(q)' = AreasOf(q) \cup (IF q \in {r1, r2} THEN {a} ELSE {})
        BY <1>13
      <4> HIDE DEF r1, r2, a
      <4> QED
        BY <2>2, <4>1
    <3> QED
      BY <2>1, <3>1, <3>2
  <2>3. CASE q \in {r1, r2}
    <3>1. u.areas[q] = grown
      <4>1. CASE q = r1
        BY <1>1, <1>4, <1>5, <1>11, <4>1
      <4>2. CASE q = r2
        BY <1>1, <1>4, <1>5, <1>11, <4>2
      <4> QED
        BY <2>3, <4>1, <4>2
    <3>2. S' = S \cup {a} /\ a \in Area
      BY <1>1, <1>13, <2>3
    <3>3. RowHas(grown, S \cup {a})
      <4> HIDE DEF S, row, a
      <4> QED
        BY <2>1, <3>2, RowGrows
    <3> QED
      BY <2>1, <3>1, <3>2, <3>3
  <2> QED
    BY <2>2, <2>3
<1>17. IfcsSound'
  <2>1. IfcsSound
    BY DEF TablesSound
  <2>2. \A q \in Router : LiveIfcs(u, q) = IfcsOf(q)'
    <3> SUFFICES ASSUME NEW q \in Router PROVE LiveIfcs(u, q) = IfcsOf(q)'
      OBVIOUS
    <3> DEFINE L == Live(Mine(t.interfaces, q))
               H == Live(Mine(t4.interfaces, q))
               K == Live(Mine(u.interfaces, q))
    <3>1. H = IF e1.rtr = q THEN {x \in L : ~Same(x, e1)} \cup (IF e1.on THEN {e1} ELSE {}) ELSE L
      <4> DEFINE s == t.interfaces
      <4>1. s \in Seq(IfcEntry) /\ e1 \in IfcEntry /\ t4.interfaces = Append(s, e1)
        BY <1>2, <1>11
      <4> HIDE DEF s
      <4>2. Live(Mine(Append(s, e1), q))
              = IF e1.rtr = q THEN {x \in Live(Mine(s, q)) : ~Same(x, e1)} \cup (IF e1.on THEN {e1} ELSE {})
                              ELSE Live(Mine(s, q))
        BY <4>1, LiveAdded
      <4> QED
        BY <4>1, <4>2 DEF s
    <3>2. K = IF e2.rtr = q THEN {x \in H : ~Same(x, e2)} \cup (IF e2.on THEN {e2} ELSE {}) ELSE H
      <4> DEFINE s == t4.interfaces
      <4>1. s \in Seq(IfcEntry) /\ e2 \in IfcEntry /\ u.interfaces = Append(s, e2)
        BY <1>11, TableFields
      <4> HIDE DEF s
      <4>2. Live(Mine(Append(s, e2), q))
              = IF e2.rtr = q THEN {x \in Live(Mine(s, q)) : ~Same(x, e2)} \cup (IF e2.on THEN {e2} ELSE {})
                              ELSE Live(Mine(s, q))
        BY <4>1, LiveAdded
      <4> QED
        BY <4>1, <4>2 DEF s
    <3>3. \A x \in L : x \in ToSet(t.interfaces) /\ x.rtr = q
      BY <1>2, LiveOf
    <3>4. /\ LiveIfcs(t, q) = {<<x.type, x.area, x.addr>> : x \in L}
          /\ LiveIfcs(u, q) = {<<x.type, x.area, x.addr>> : x \in K}
          /\ LiveIfcs(t, q) = IfcsOf(q)
      BY <2>1 DEF LiveIfcs, IfcsSound
    <3>5. \A x \in L : x.port # p
      <4> HIDE DEF L
      <4> SUFFICES ASSUME NEW x \in L PROVE x.port # p
        OBVIOUS
      <4>1. EntrySound(t, x)
        BY <2>1, <3>3 DEF IfcsSound
      <4> QED
        BY <1>2, <4>1 DEF EntrySound
    <3> HIDE DEF L, H, K
    <3>6. \A x \in L : ~Same(x, e1) /\ ~Same(x, e2)
      BY <1>10, <3>5 DEF Same
    <3> HIDE DEF p
    <3>7. CASE q \notin {r1, r2}
      BY <1>10, <1>13, <3>1, <3>2, <3>4, <3>7
    <3>8. CASE q = r1
      <4>1. K = L \cup {e1}
        BY <1>1, <1>10, <3>1, <3>2, <3>6, <3>8
      <4>2. <<e1.type, e1.area, e1.addr>> = <<"pp", a, Unnumbered>>
        BY <1>10
      <4>3. IfcsOf(q)' = IfcsOf(q) \cup {<<"pp", a, Unnumbered>>}
        BY <1>13, <3>8
      <4> HIDE DEF a
      <4> QED
        BY <3>4, <4>1, <4>2, <4>3
    <3>9. CASE q = r2
      <4>1. K = L \cup {e2}
        BY <1>1, <1>10, <3>1, <3>2, <3>6, <3>9
      <4>2. <<e2.type, e2.area, e2.addr>> = <<"pp", a, Unnumbered>>
        BY <1>10
      <4>3. IfcsOf(q)' = IfcsOf(q) \cup {<<"pp", a, Unnumbered>>}
        BY <1>13, <3>9
      <4> HIDE DEF a
      <4> QED
        BY <3>4, <4>1, <4>2, <4>3
    <3> QED
      BY <3>7, <3>8, <3>9
  <2>3. \A x \in ToSet(u.interfaces) : EntrySound(u, x)
    <3>1. ToSet(u.interfaces) = ToSet(t.interfaces) \cup {e1, e2}
      <4>1. ToSet(t4.interfaces) = ToSet(t.interfaces) \cup {e1}
        BY <1>2, <1>11, ToSetGrows
      <4>2. t4.interfaces \in Seq(IfcEntry)
        BY <1>11, TableFields
      <4>3. ToSet(u.interfaces) = ToSet(t4.interfaces) \cup {e2}
        BY <1>11, <4>2, ToSetGrows
      <4> QED
        BY <4>1, <4>3
    <3>2. \A x \in ToSet(t.interfaces) : EntrySound(u, x)
      <4>1. ASSUME NEW x, EntrySound(t, x) PROVE EntrySound(u, x)
        <5>1. t.phy_portno \in Nat /\ u.phy_portno \in Nat /\ t.phy_portno <= u.phy_portno
          BY <1>2, <1>11
        <5>2. /\ ToSet(t.networks) \subseteq ToSet(u.networks)
              /\ ToSet(t.addr_net_memships) \subseteq ToSet(u.addr_net_memships)
          BY <1>11, <1>12
        <5> HIDE DEF t, u
        <5> QED
          BY <4>1, <5>1, <5>2, EntryKept
      <4> QED
        BY <2>1, <4>1 DEF IfcsSound
    <3>3. EntrySound(u, e1) /\ EntrySound(u, e2)
      <4>1. p \in 1..u.phy_portno
        BY <1>2, <1>11
      <4>2. IsRow(u, p, r1) /\ IsRow(u, p, r2)
        BY <1>12
      <4> HIDE DEF p, t, u, r1, r2
      <4> QED
        BY <1>10, <4>1, <4>2 DEF EntrySound
    <3> QED
      BY <3>1, <3>2, <3>3
  <2> QED
    BY <2>2, <2>3 DEF IfcsSound, LiveIfcs, EntrySound, IsRow, Unnumbered, IfcAddr, Port, Name
<1>18. HostsSound'
  <2>1. \A q : HostAreas(q)' = HostAreas(q)
    BY HostAreasGrow
  <2> QED
    BY <1>11, <2>1 DEF TablesSound, HostsSound
<1>19. AddressesSound'
  <2> DEFINE m1 == <<Unnumbered, Name(r1)>>
             m2 == <<Unnumbered, Name(r2)>>
             A == ({Unnumbered} \cup IfcAddrs \cup HostAddrs) \X Names
  <2>1. Addresses' = Addresses
    BY AddressesGrow
  <2>2. /\ t.addr_mappings \in Seq(A) /\ t4.addr_mappings = Append(t.addr_mappings, m1)
        /\ t4.addr_mappings \in Seq(A) /\ u.addr_mappings = Append(t4.addr_mappings, m2)
    BY <1>2, <1>11, TableFields
  <2>3. m1[1] = Unnumbered /\ m2[1] = Unnumbered
    OBVIOUS
  <2> HIDE DEF m1, m2, A
  <2>4. ToSet(t4.addr_mappings) = ToSet(t.addr_mappings) \cup {m1}
    BY <2>2, ToSetGrows
  <2>5. ToSet(u.addr_mappings) = ToSet(t4.addr_mappings) \cup {m2}
    BY <2>2, ToSetGrows
  <2>6. {x \in ToSet(t.addr_mappings) : x[1] # Unnumbered} = Addresses
    BY DEF TablesSound, AddressesSound
  <2>7. {x \in ToSet(u.addr_mappings) : x[1] # Unnumbered} = Addresses'
    BY <2>1, <2>3, <2>4, <2>5, <2>6
  <2> QED
    BY <2>7 DEF AddressesSound, Unnumbered
<1>20. PortsSound'
  <2>1. \A k : On(k)' = On(k)
    <3>1. \A q, k : ~IsIfc(l, q, k)
      BY DEF IsIfc
    <3> QED
      BY <3>1, OnGrows
  <2>2. LinkSets' = LinkSets \cup {{r1, r2}}
    <3>1. LinkSets' = LinkSets \cup (IF l.kind = "pplink" THEN {{l.rtr, l.rtr2}} ELSE {})
      BY LinksGrow
    <3> QED
      BY <3>1
  <2>3. /\ \A x \in ToSet(t.addr_net_memships) : \E k \in 1..t.phy_portno : x[1] = Port(k)
        /\ \A x \in ToSet(t.networks) : PortMembers(t, x.port) = On(x.prefix)
        /\ \A k \in 1..t.phy_portno : IsNetPort(t, k) \/ PortMembers(t, k) \in LinkSets
        /\ \A P \in LinkSets : \E k \in 1..t.phy_portno : ~IsNetPort(t, k) /\ PortMembers(t, k) = P
        /\ \A x \in ToSet(t.networks) : x.port \in 1..t.phy_portno
    BY DEF TablesSound, PortsSound, NetsSound
  <2>4. \A k : IsNetPort(u, k) <=> IsNetPort(t, k)
    BY <1>11 DEF IsNetPort
  <2>5. ~IsNetPort(t, p)
    BY <1>2, <2>3 DEF IsNetPort
  <2>6. PortMembers(t, p) = {}
    <3> SUFFICES ASSUME NEW q \in Router, <<Port(p), Name(q)>> \in ToSet(t.addr_net_memships) PROVE FALSE
      BY DEF PortMembers, IsRow
    <3>1. PICK k \in 1..t.phy_portno : <<Port(p), Name(q)>>[1] = Port(k)
      BY <2>3
    <3>2. k = p
      BY <3>1, AddressesDiffer
    <3> QED
      BY <1>2, <3>2
  <2>7. /\ \A k : k \in 1..u.phy_portno <=> k \in 1..t.phy_portno \/ k = p
        /\ p \notin 1..t.phy_portno
    BY <1>2, <1>11
  <2>8. PortMembers(u, p) = {r1, r2} /\ \A k \in 1..t.phy_portno : PortMembers(u, k) = PortMembers(t, k)
    <3>1. PortMembers(u, p) = {r1, r2}
      <4>1. PortMembers(u, p) = PortMembers(t, p) \cup {r1, r2}
        BY <1>12
      <4> QED
        BY <2>6, <4>1
    <3>2. ASSUME NEW k \in 1..t.phy_portno PROVE PortMembers(u, k) = PortMembers(t, k)
      <4>1. PortMembers(u, k) = PortMembers(t, k) \cup (IF k = p THEN {r1, r2} ELSE {})
        BY <1>12
      <4>2. k # p
        BY <2>7
      <4> QED
        BY <4>1, <4>2
    <3> QED
      BY <3>1, <3>2
  <2> HIDE DEF p
  <2>9. \A x \in ToSet(u.addr_net_memships) : \E k \in 1..u.phy_portno : x[1] = Port(k)
    <3>1. ASSUME NEW x \in ToSet(t.addr_net_memships) PROVE \E k \in 1..u.phy_portno : x[1] = Port(k)
      BY <2>3, <2>7
    <3>2. <<Port(p), Name(r1)>>[1] = Port(p) /\ <<Port(p), Name(r2)>>[1] = Port(p)
      OBVIOUS
    <3> QED
      BY <1>12, <2>7, <3>1, <3>2
  <2>10. \A x \in ToSet(u.networks) : PortMembers(u, x.port) = On(x.prefix)'
    BY <1>11, <2>1, <2>3, <2>8
  <2>11. \A k \in 1..u.phy_portno : IsNetPort(u, k) \/ PortMembers(u, k) \in LinkSets'
    BY <2>2, <2>3, <2>4, <2>7, <2>8
  <2>12. \A P \in LinkSets' : \E k \in 1..u.phy_portno : ~IsNetPort(u, k) /\ PortMembers(u, k) = P
    <3> SUFFICES ASSUME NEW P \in LinkSets'
                 PROVE  \E k \in 1..u.phy_portno : ~IsNetPort(u, k) /\ PortMembers(u, k) = P
      OBVIOUS
    <3>1. CASE P \in LinkSets
      <4>1. PICK k \in 1..t.phy_portno : ~IsNetPort(t, k) /\ PortMembers(t, k) = P
        BY <2>3, <3>1
      <4> QED
        BY <2>4, <2>7, <2>8, <4>1
    <3>2. CASE P = {r1, r2}
      BY <2>4, <2>5, <2>7, <2>8, <3>2
    <3> QED
      BY <2>2, <3>1, <3>2
  <2> QED
    BY <2>9, <2>10, <2>11, <2>12 DEF PortsSound, Port
<1> QED
  BY <1>1, <1>11, <1>14, <1>15, <1>16, <1>17, <1>18, <1>19, <1>20 DEF FileTypeOK, TablesSound

-----------------------------------------------------------------------------
(* The loops of main().                                                    *)
LEMMA LoopAt ==
  /\ main.at = "start" => /\ Loop.rows = [i \in DOMAIN tables.routers |-> <<Name(tables.routers[i])>>]
                          /\ Loop.next = "map"
  /\ main.at = "map" => Loop.rows = tables.addr_mappings /\ Loop.next = "member"
  /\ main.at = "member" => Loop.rows = tables.addr_net_memships /\ Loop.next = "loop"
  /\ main.at \in {"read", "loop"} => Loop.rows = <<>> /\ Loop.next = "start"
BY DEF Loop, Name

LEMMA LoopAtNext ==
  /\ main'.at = "start" => Loop'.rows = [i \in DOMAIN tables'.routers |-> <<Name(tables'.routers[i])>>]
  /\ main'.at = "map" => Loop'.rows = tables'.addr_mappings
  /\ main'.at = "member" => Loop'.rows = tables'.addr_net_memships
  /\ main'.at \in {"read", "loop"} => Loop'.rows = <<>>
BY DEF Loop, Name

(* A row has one or two fields.                                            *)
LEMMA RowFields ==
  ASSUME FileTypeOK, MainOK
  PROVE  /\ Len(Loop.rows) \in Nat /\ DOMAIN Loop.rows = 1..Len(Loop.rows)
         /\ main.at = "start" =>
              /\ Len(Loop.rows) = Len(tables.routers)
              /\ \A i \in 1..Len(Loop.rows) : /\ Len(Loop.rows[i]) = 1
                                              /\ Loop.rows[i][1] = Name(tables.routers[i])
         /\ main.at \in {"map", "member"} =>
              \A i \in 1..Len(Loop.rows) : /\ Len(Loop.rows[i]) = 2
                                           /\ Loop.rows[i] = <<Loop.rows[i][1], Loop.rows[i][2]>>
         /\ main.at \in {"read", "loop"} => Len(Loop.rows) = 0
<1>1. main.at \in {"read", "start", "map", "member", "loop"}
  BY DEF MainOK
<1>2. /\ tables.routers \in Seq(Router)
      /\ tables.addr_mappings \in Seq(({Unnumbered} \cup IfcAddrs \cup HostAddrs) \X Names)
      /\ tables.addr_net_memships \in Seq({Port(i) : i \in Nat} \X Names)
  BY TableFields DEF FileTypeOK
<1>3. CASE main.at = "start"
  <2>1. Loop.rows = [i \in 1..Len(tables.routers) |-> <<Name(tables.routers[i])>>]
    <3>1. DOMAIN tables.routers = 1..Len(tables.routers)
      BY <1>2
    <3>2. Loop.rows = [i \in DOMAIN tables.routers |-> <<Name(tables.routers[i])>>]
      BY <1>3, LoopAt
    <3> QED
      BY <3>1, <3>2
  <2>2. Len(Loop.rows) = Len(tables.routers) /\ DOMAIN Loop.rows = 1..Len(tables.routers)
    BY <1>2, <2>1
  <2> QED
    BY <1>2, <1>3, <2>1, <2>2
<1>4. ASSUME NEW A, NEW B, NEW s \in Seq(A \X B)
      PROVE  /\ Len(s) \in Nat /\ DOMAIN s = 1..Len(s)
             /\ \A i \in 1..Len(s) : Len(s[i]) = 2 /\ s[i] = <<s[i][1], s[i][2]>>
  <2>1. \A i \in 1..Len(s) : s[i] \in A \X B
    OBVIOUS
  <2>2. \A x \in A \X B : Len(x) = 2 /\ x = <<x[1], x[2]>>
    OBVIOUS
  <2> QED
    BY <2>1, <2>2
<1>5. CASE main.at = "map"
  BY <1>2, <1>4, <1>5, LoopAt
<1>6. CASE main.at = "member"
  BY <1>2, <1>4, <1>6, LoopAt
<1>7. CASE main.at \in {"read", "loop"}
  BY <1>7, LoopAt
<1> QED
  BY <1>1, <1>3, <1>5, <1>6, <1>7

LEMMA SameSent ==
  ASSUME tables' = tables
  PROVE  \A r : sendCfgToRouterId(r)' = sendCfgToRouterId(r)
BY DEF sendCfgToRouterId, Mine, MaxAreas

LEMMA InitHolds == ConfigInit => ConfigInvariant
<1> SUFFICES ASSUME ConfigInit PROVE ConfigInvariant
  OBVIOUS
<1>1. /\ file = <<>> /\ tables = EmptyTables /\ main = [at |-> "read", row |-> 1, loaded |-> 0]
      /\ args = NoArgs /\ started = <<>> /\ simnodes = {} /\ mapped = {}
      /\ conf = [r \in Router |-> NotConfigured]
  BY DEF ConfigInit
<1>2. MaxAreas \in Nat \ {0}
  BY AreasBounded
<1>3. /\ tables.routers = <<>> /\ tables.networks = <<>> /\ tables.interfaces = <<>> /\ tables.hosts = <<>>
      /\ tables.areas = [r \in Router |-> [i \in 1..MaxAreas |-> NULL]]
      /\ tables.addr_mappings = <<>> /\ tables.addr_net_memships = <<>> /\ tables.phy_portno = 0
  BY <1>1 DEF EmptyTables
<1>4. FileTypeOK
  <2>1. tables \in TableRecord
    BY <1>1 DEF EmptyTables, TableRecord
  <2> QED
    BY <1>1, <2>1 DEF FileTypeOK
<1>5. ToSet(file) = {} /\ ToSet(<<>>) = {}
  BY <1>1 DEF ToSet
<1>6. \A r : LinksOf(r) = {}
  BY <1>5 DEF LinksOf
<1>7. Networks = {} /\ Routers = {} /\ LinkSets = {} /\ Addresses = {}
  BY <1>5 DEF Networks, Routers, LinkSets, Addresses
<1>8. \A r : HostAreas(r) = {}
  BY <1>5 DEF HostAreas
<1>9. \A r : AreasOf(r) = {} /\ IfcsOf(r) = {}
  BY <1>6, <1>7 DEF AreasOf, IfcsOf
<1>10. ASSUME NEW r PROVE Mine(<<>>, r) = <<>>
  <2> DEFINE X == {}
             s == <<>>
  <2>1. s \in Seq(X)
    OBVIOUS
  <2>2. \A q \in Seq(X) : q = <<>>
    OBVIOUS
  <2> HIDE DEF s, X
  <2>3. Mine(s, r) \in Seq(X)
    BY <2>1, MineIsSequence
  <2> QED
    BY <2>2, <2>3 DEF s
<1>11. RoutersSound
  BY <1>3, <1>5, <1>7 DEF RoutersSound, IsInjective
<1>12. NetsSound
  BY <1>3, <1>5, <1>7 DEF NetsSound
<1>13. AreasSound
  <2>1. ASSUME NEW r \in Router PROVE RowHas(tables.areas[r], {})
    <3>1. Cardinality({}) = 0
      BY FS_EmptySet
    <3>2. \A i \in 1..MaxAreas : tables.areas[r][i] = NULL
      BY <1>3
    <3> QED
      BY <1>2, <3>1, <3>2 DEF RowHas
  <2> QED
    BY <1>9, <2>1 DEF AreasSound
<1>14. Live(<<>>) = {}
  BY DEF Live, LiveTo
<1>15. IfcsSound
  <2>1. \A r : LiveIfcs(tables, r) = {}
    BY <1>3, <1>10, <1>14 DEF LiveIfcs
  <2> QED
    BY <1>3, <1>5, <1>9, <2>1 DEF IfcsSound
<1>16. HostsSound
  BY <1>3, <1>5, <1>8, <1>10 DEF HostsSound
<1>17. AddressesSound
  BY <1>3, <1>5, <1>7 DEF AddressesSound
<1>18. PortsSound
  BY <1>3, <1>5, <1>7 DEF PortsSound
<1>19. main.at = "read" /\ main.row = 1 /\ main.loaded = 0
  BY <1>1
<1>20. MainOK
  <2>1. Loop.rows = <<>>
    BY <1>19, LoopAt
  <2>2. main \in [at : {"read", "start", "map", "member", "loop"}, row : Nat \ {0}, loaded : 0..2]
    BY <1>1
  <2>3. args = <<args[1], args[2]>>
    BY <1>1 DEF NoArgs
  <2> QED
    BY <1>19, <2>1, <2>2, <2>3 DEF MainOK
<1>21. StartedSoFar /\ MappedSoFar
  BY <1>1, <1>19 DEF StartedSoFar, MappedSoFar
<1>22. NodesServed
  BY <1>1 DEF NodesServed
<1> QED
  BY <1>4, <1>11, <1>12, <1>13, <1>15, <1>16, <1>17, <1>18, <1>20, <1>21, <1>22
     DEF ConfigInvariant, TablesSound

(* What depends on main() alone.                                           *)
LEMMA SoFar ==
  /\ StartedSoFar /\ main.at = "read" => started = <<>>
  /\ StartedSoFar /\ main.at = "start" => started = SubSeq(RouterNames, 1, main.row - 1)
  /\ StartedSoFar /\ main.at \in {"map", "member", "loop"} => started = RouterNames
  /\ MappedSoFar /\ main.at \in {"read", "start"} => mapped = {}
  /\ MappedSoFar /\ main.at = "map" => mapped = Stored(tables.addr_mappings, main.row - 1)
  /\ MappedSoFar /\ main.at = "member" =>
       mapped = Stored(tables.addr_mappings, Len(tables.addr_mappings))
                \cup Stored(tables.addr_net_memships, main.row - 1)
  /\ MappedSoFar /\ main.at = "loop" =>
       mapped = Stored(tables.addr_mappings, Len(tables.addr_mappings))
                \cup Stored(tables.addr_net_memships, Len(tables.addr_net_memships))
<1>1. /\ StartedSoFar /\ main.at = "read" => started = <<>>
      /\ StartedSoFar /\ main.at = "start" => started = SubSeq(RouterNames, 1, main.row - 1)
      /\ StartedSoFar /\ main.at \in {"map", "member", "loop"} => started = RouterNames
  BY DEF StartedSoFar
<1>2. /\ MappedSoFar /\ main.at \in {"read", "start"} => mapped = {}
      /\ MappedSoFar /\ main.at = "map" => mapped = Stored(tables.addr_mappings, main.row - 1)
  BY DEF MappedSoFar
<1>3. MappedSoFar /\ main.at = "member" =>
        mapped = Stored(tables.addr_mappings, Len(tables.addr_mappings))
                 \cup Stored(tables.addr_net_memships, main.row - 1)
  BY DEF MappedSoFar
<1>4. MappedSoFar /\ main.at = "loop" =>
        mapped = Stored(tables.addr_mappings, Len(tables.addr_mappings))
                 \cup Stored(tables.addr_net_memships, Len(tables.addr_net_memships))
  BY DEF MappedSoFar
<1> QED
  BY <1>1, <1>2, <1>3, <1>4

LEMMA ReadStep ==
  ASSUME ConfigInvariant, NEW l \in Lines, read_config_file(l)
  PROVE  ConfigInvariant'
<1>1. /\ main.at = "read" /\ Legal(l) /\ file' = Append(file, l) /\ tables' = Proc(tables, l)
      /\ main' = main /\ args' = args /\ started' = started /\ simnodes' = simnodes
      /\ mapped' = mapped /\ conf' = conf
  BY DEF read_config_file
<1>2. FileTypeOK /\ TablesSound /\ MainOK /\ StartedSoFar /\ MappedSoFar /\ NodesServed
  BY DEF ConfigInvariant
<1>3. Grows(l)
  BY <1>1, <1>2 DEF Grows, FileTypeOK
<1>4. FileTypeOK' /\ TablesSound'
  <2>1. l.kind \in {"router", "broadcast", "pplink", "interface", "loopback"}
    BY LineKinds
  <2>2. CASE l.kind = "router"
    <3>1. tables' = proc_router(tables, l)
      BY <1>1, <2>2, ProcByKind
    <3> QED
      BY <1>2, <1>3, <2>2, <3>1, RouterLine
  <2>3. CASE l.kind = "broadcast"
    <3>1. tables' = proc_broadcast(tables, l)
      BY <1>1, <2>3, ProcByKind
    <3>2. ~NetDeclared(l.prefix)
      BY <1>1, <2>3 DEF Legal
    <3> QED
      BY <1>2, <1>3, <2>3, <3>1, <3>2, BroadcastLine
  <2>4. CASE l.kind = "interface"
    <3>1. tables' = proc_interface(tables, l)
      BY <1>1, <2>4, ProcByKind
    <3>2. NetDeclared(l.prefix)
      BY <1>1, <2>4 DEF Legal
    <3> QED
      BY <1>2, <1>3, <2>4, <3>1, <3>2, InterfaceLine
  <2>5. CASE l.kind = "pplink"
    <3>1. tables' = proc_pplink(tables, l)
      BY <1>1, <2>5, ProcByKind
    <3> QED
      BY <1>2, <1>3, <2>5, <3>1, PPLinkLine
  <2>6. CASE l.kind = "loopback"
    <3>1. tables' = proc_loopback(tables, l)
      BY <1>1, <2>6, ProcByKind
    <3> QED
      BY <1>2, <1>3, <2>6, <3>1, LoopbackLine
  <2> QED
    BY <2>1, <2>2, <2>3, <2>4, <2>5, <2>6
<1>5. started = <<>> /\ mapped = {} /\ simnodes = {}
  <2>1. started = <<>> /\ mapped = {}
    BY <1>1, <1>2, SoFar
  <2> QED
    BY <1>2, <2>1 DEF NodesServed
<1>6. MainOK'
  <2>1. Loop.rows = <<>> /\ Loop'.rows = <<>>
    BY <1>1, LoopAt, LoopAtNext
  <2> QED
    BY <1>1, <1>2, <2>1 DEF MainOK
<1>7. StartedSoFar' /\ MappedSoFar'
  BY <1>1, <1>5 DEF StartedSoFar, MappedSoFar
<1>8. NodesServed'
  BY <1>1, <1>2, <1>5 DEF NodesServed
<1> QED
  BY <1>4, <1>6, <1>7, <1>8 DEF ConfigInvariant

(* The other steps leave the file and the tables as they are.              *)
LEMMA SameTables ==
  ASSUME FileTypeOK, TablesSound, file' = file, tables' = tables
  PROVE  FileTypeOK' /\ TablesSound'
<1>1. FileTypeOK'
  BY DEF FileTypeOK, TableRecord, MaxAreas
<1>2. /\ Routers' = Routers /\ Networks' = Networks /\ LinkSets' = LinkSets /\ Addresses' = Addresses
      /\ \A p : NetDeclared(p)' <=> NetDeclared(p)
      /\ \A p : On(p)' = On(p)
      /\ \A r : /\ AreasOf(r)' = AreasOf(r) /\ IfcsOf(r)' = IfcsOf(r)
                /\ HostAreas(r)' = HostAreas(r)
  <2>1. Routers' = Routers /\ Networks' = Networks /\ LinkSets' = LinkSets
    BY DEF Routers, Networks, LinkSets
  <2>2. Addresses' = Addresses
    BY DEF Addresses
  <2>3. \A p : NetDeclared(p)' <=> NetDeclared(p)
    BY <2>1 DEF NetDeclared
  <2>4. \A p : On(p)' = On(p)
    BY DEF On
  <2>5. \A r : LinksOf(r)' = LinksOf(r) /\ HostAreas(r)' = HostAreas(r)
    BY DEF LinksOf, HostAreas
  <2>6. \A r, p : TurnedOn(r, p)' <=> TurnedOn(r, p)
    BY DEF TurnedOn
  <2>7. \A r : AreasOf(r)' = AreasOf(r)
    BY <2>1, <2>5 DEF AreasOf
  <2>8. \A r : IfcsOf(r)' = IfcsOf(r)
    <3> SUFFICES ASSUME NEW r PROVE IfcsOf(r)' = IfcsOf(r)
      OBVIOUS
    <3>1. {m \in Networks' : TurnedOn(r, m.prefix)'} = {m \in Networks : TurnedOn(r, m.prefix)}
      <4> HIDE DEF Networks, TurnedOn
      <4> QED
        BY <2>1, <2>6
    <3>2. IfcsOf(r)' = {<<"pp", x.area, Unnumbered>> : x \in LinksOf(r)'}
                       \cup {<<"broadcast", n.area, IfcAddr(r, n.prefix)>> :
                             n \in {m \in Networks' : TurnedOn(r, m.prefix)'}}
      BY DEF IfcsOf, Unnumbered, IfcAddr
    <3> QED
      BY <2>5, <3>1, <3>2 DEF IfcsOf
  <2> QED
    BY <2>1, <2>2, <2>3, <2>4, <2>5, <2>7, <2>8
<1>3. RoutersSound'
  BY <1>2 DEF TablesSound, RoutersSound
<1>4. NetsSound'
  BY <1>2 DEF TablesSound, NetsSound
<1>5. AreasSound'
  BY <1>2 DEF TablesSound, AreasSound, RowHas, MaxAreas
<1>6. IfcsSound'
  <2>1. \A r : LiveIfcs(tables, r)' = LiveIfcs(tables, r)
    BY DEF LiveIfcs
  <2>2. \A e : EntrySound(tables, e)' <=> EntrySound(tables, e)
    BY DEF EntrySound, IsRow
  <2> QED
    BY <1>2, <2>1, <2>2 DEF TablesSound, IfcsSound
<1>7. HostsSound'
  BY <1>2 DEF TablesSound, HostsSound
<1>8. AddressesSound'
  BY <1>2 DEF TablesSound, AddressesSound, Unnumbered
<1>9. PortsSound'
  <2>1. \A p : /\ PortMembers(tables, p)' = PortMembers(tables, p)
               /\ IsNetPort(tables, p)' <=> IsNetPort(tables, p)
    BY DEF PortMembers, IsRow, IsNetPort
  <2> QED
    BY <1>2, <2>1 DEF TablesSound, PortsSound, Port
<1> QED
  BY <1>1, <1>3, <1>4, <1>5, <1>6, <1>7, <1>8, <1>9 DEF TablesSound

LEMMA StoredGrows ==
  ASSUME NEW s, NEW k \in Nat
  PROVE  Stored(s, k + 1) = IF s[k + 1][1] = Unnumbered THEN Stored(s, k) ELSE Stored(s, k) \cup {s[k + 1]}
<1> DEFINE Is(j) == s[j][1] # Unnumbered
<1>1. \A j : j \in 1..(k + 1) <=> j \in 1..k \/ j = k + 1
  OBVIOUS
<1>2. /\ Stored(s, k + 1) = {s[i] : i \in {j \in 1..(k + 1) : Is(j)}}
      /\ Stored(s, k) = {s[i] : i \in {j \in 1..k : Is(j)}}
  BY DEF Stored
<1>3. s[k + 1][1] = Unnumbered <=> ~Is(k + 1)
  OBVIOUS
<1> HIDE DEF Is
<1>4. CASE Is(k + 1)
  BY <1>1, <1>2, <1>3, <1>4
<1>5. CASE ~Is(k + 1)
  BY <1>1, <1>2, <1>3, <1>5
<1> QED
  BY <1>4, <1>5

(* The routers that were started.                                          *)
LEMMA NamesOfRouters ==
  ASSUME FileTypeOK
  PROVE  /\ Len(RouterNames) = Len(tables.routers) /\ Len(tables.routers) \in Nat
         /\ RouterNames \in Seq(Names)
         /\ \A i \in 1..Len(tables.routers) : /\ RouterNames[i] = Name(tables.routers[i])
                                              /\ tables.routers[i] \in ToSet(tables.routers)
                                              /\ tables.routers[i] \in Router
<1>1. tables.routers \in Seq(Router)
  BY TableFields DEF FileTypeOK
<1>2. /\ DOMAIN tables.routers = 1..Len(tables.routers) /\ Len(tables.routers) \in Nat
      /\ \A i \in 1..Len(tables.routers) : tables.routers[i] \in Router
  BY <1>1
<1>3. RouterNames = [i \in 1..Len(tables.routers) |-> Name(tables.routers[i])]
  BY <1>2 DEF RouterNames
<1>4. \A i \in 1..Len(tables.routers) : Name(tables.routers[i]) \in Names
  BY <1>2 DEF Names
<1>5. RouterNames \in Seq(Names) /\ Len(RouterNames) = Len(tables.routers)
  <2> HIDE DEF Name, Names
  <2> QED
    BY <1>2, <1>3, <1>4
<1> QED
  BY <1>2, <1>3, <1>5 DEF ToSet

LEMMA PrefixGrows ==
  ASSUME NEW X, NEW s \in Seq(X), NEW k \in 1..Len(s)
  PROVE  SubSeq(s, 1, k) = Append(SubSeq(s, 1, k - 1), s[k])
<1> DEFINE a == SubSeq(s, 1, k - 1)
           b == SubSeq(s, 1, k)
<1>1. /\ a \in Seq(X) /\ b \in Seq(X) /\ Len(a) = k - 1 /\ Len(b) = k
      /\ \A i \in 1..(k - 1) : a[i] = s[i]
      /\ \A i \in 1..k : b[i] = s[i]
  OBVIOUS
<1>2. s[k] \in X
  OBVIOUS
<1> HIDE DEF a, b
<1> QED
  BY <1>1, <1>2 DEF a, b

LEMMA StartedAreRouters ==
  ASSUME FileTypeOK, MainOK, StartedSoFar
  PROVE  \A k \in DOMAIN started : \E i \in 1..Len(tables.routers) :
           k = i /\ started[k] = Name(tables.routers[i])
<1>1. main.at \in {"read", "start", "map", "member", "loop"} /\ main.row \in Nat \ {0}
  BY DEF MainOK
<1> DEFINE n == Len(tables.routers)
<1>2. /\ RouterNames \in Seq(Names) /\ Len(RouterNames) = n /\ n \in Nat
      /\ \A i \in 1..n : RouterNames[i] = Name(tables.routers[i])
  BY NamesOfRouters
<1>3. CASE main.at = "read"
  <2>1. started = <<>>
    BY <1>3, SoFar
  <2> QED
    BY <2>1
<1>4. CASE main.at = "start"
  <2>1. started = SubSeq(RouterNames, 1, main.row - 1)
    BY <1>4, SoFar
  <2>2. main.row - 1 \in 0..n
    BY <1>1, <1>4, RowFields DEF MainOK
  <2>3. DOMAIN started = 1..(main.row - 1) /\ \A k \in 1..(main.row - 1) : started[k] = RouterNames[k]
    <3> HIDE DEF n
    <3> QED
      BY <1>2, <2>1, <2>2
  <2> QED
    BY <1>2, <2>2, <2>3
<1>5. CASE main.at \in {"map", "member", "loop"}
  <2>1. started = RouterNames
    BY <1>5, SoFar
  <2>2. DOMAIN started = 1..n
    BY <1>2, <2>1
  <2> QED
    BY <1>2, <2>1, <2>2
<1> QED
  BY <1>1, <1>3, <1>4, <1>5

LEMMA StillServed ==
  ASSUME NodesServed, tables' = tables, conf' = conf, simnodes' = simnodes,
         \A k \in DOMAIN started : k \in DOMAIN started' /\ started'[k] = started[k]
  PROVE  NodesServed'
<1>1. Sending' = Sending
  BY DEF Sending, sendCfgToRouterId, Mine, MaxAreas
<1> QED
  BY <1>1 DEF NodesServed

LEMMA NextLoopStep ==
  ASSUME ConfigInvariant, NextLoop
  PROVE  ConfigInvariant'
<1>1. /\ main.at # "loop" /\ main.row > Len(Loop.rows)
      /\ main' = [at |-> Loop.next, row |-> 1, loaded |-> 0]
      /\ file' = file /\ tables' = tables /\ args' = args /\ started' = started
      /\ simnodes' = simnodes /\ mapped' = mapped /\ conf' = conf
  BY DEF NextLoop
<1>2. FileTypeOK /\ TablesSound /\ MainOK /\ StartedSoFar /\ MappedSoFar /\ NodesServed
  BY DEF ConfigInvariant
<1>3. FileTypeOK' /\ TablesSound'
  BY <1>1, <1>2, SameTables
<1>4. NodesServed'
  BY <1>1, <1>2, StillServed
<1>5. /\ main'.at = Loop.next /\ main'.row = 1 /\ main'.loaded = 0
      /\ main.at \in {"read", "start", "map", "member"} /\ main.row \in Nat
      /\ Len(Loop.rows) \in Nat /\ main.row <= Len(Loop.rows) + 1
  BY <1>1, <1>2, RowFields DEF MainOK
<1>6. main.row - 1 = Len(Loop.rows)
  BY <1>1, <1>5
<1>7. /\ tables.addr_mappings \in Seq(({Unnumbered} \cup IfcAddrs \cup HostAddrs) \X Names)
      /\ tables.addr_net_memships \in Seq({Port(i) : i \in Nat} \X Names)
      /\ RouterNames \in Seq(Names) /\ Len(RouterNames) = Len(tables.routers)
  BY <1>2, TableFields, NamesOfRouters DEF FileTypeOK
<1>8. RouterNames' = RouterNames
  BY <1>1 DEF RouterNames
<1>9. \A s : Stored(s, 0) = {}
  BY DEF Stored
<1>10. args = <<args[1], args[2]>>
  BY <1>2 DEF MainOK
<1>11. main'.at \in {"start", "map", "member", "loop"}
  BY <1>5, LoopAt
<1>12. MainOK'
  <2>1. main' \in [at : {"read", "start", "map", "member", "loop"}, row : Nat \ {0}, loaded : 0..2]
    BY <1>1, <1>5, <1>11
  <2>2. Len(Loop'.rows) \in Nat
    <3>1. CASE main'.at = "start"
      <4>1. Loop'.rows = [i \in DOMAIN tables.routers |-> <<Name(tables.routers[i])>>]
        BY <1>1, <3>1, LoopAtNext
      <4>2. tables.routers \in Seq(Router)
        BY <1>2, TableFields DEF FileTypeOK
      <4>3. DOMAIN tables.routers = 1..Len(tables.routers) /\ Len(tables.routers) \in Nat
        BY <4>2
      <4> QED
        BY <4>1, <4>3
    <3>2. CASE main'.at = "map"
      <4>1. Loop'.rows = tables.addr_mappings
        BY <1>1, <3>2, LoopAtNext
      <4> QED
        BY <1>7, <4>1
    <3>3. CASE main'.at = "member"
      <4>1. Loop'.rows = tables.addr_net_memships
        BY <1>1, <3>3, LoopAtNext
      <4> QED
        BY <1>7, <4>1
    <3>4. CASE main'.at = "loop"
      <4>1. Loop'.rows = <<>>
        BY <3>4, LoopAtNext
      <4> QED
        BY <4>1
    <3> QED
      BY <1>11, <3>1, <3>2, <3>3, <3>4
  <2> QED
    BY <1>1, <1>5, <1>10, <2>1, <2>2 DEF MainOK
<1>13. StartedSoFar' /\ MappedSoFar'
  <2>1. CASE main.at = "read"
    <3>1. main'.at = "start" /\ started = <<>> /\ mapped = {}
      BY <1>2, <1>5, <2>1, LoopAt, SoFar
    <3>2. SubSeq(RouterNames, 1, 0) = <<>>
      BY <1>7
    <3> QED
      BY <1>1, <1>5, <1>8, <3>1, <3>2 DEF StartedSoFar, MappedSoFar
  <2>2. CASE main.at = "start"
    <3>1. main'.at = "map" /\ started = SubSeq(RouterNames, 1, main.row - 1) /\ mapped = {}
      BY <1>2, <1>5, <2>2, LoopAt, SoFar
    <3>2. main.row - 1 = Len(RouterNames)
      BY <1>2, <1>6, <1>7, <2>2, RowFields
    <3>3. SubSeq(RouterNames, 1, Len(RouterNames)) = RouterNames
      BY <1>7
    <3>4. started' = RouterNames' /\ mapped' = Stored(tables'.addr_mappings, main'.row - 1)
      BY <1>1, <1>5, <1>8, <1>9, <3>1, <3>2, <3>3
    <3> QED
      BY <3>1, <3>4 DEF StartedSoFar, MappedSoFar, Stored, Unnumbered
  <2>3. CASE main.at = "map"
    <3>1. /\ main'.at = "member" /\ started = RouterNames
          /\ mapped = Stored(tables.addr_mappings, main.row - 1)
      BY <1>2, <1>5, <2>3, LoopAt, SoFar
    <3>2. main.row - 1 = Len(tables.addr_mappings)
      BY <1>6, <2>3, LoopAt
    <3>3. /\ started' = RouterNames'
          /\ mapped' = Stored(tables'.addr_mappings, Len(tables'.addr_mappings))
                       \cup Stored(tables'.addr_net_memships, main'.row - 1)
      BY <1>1, <1>5, <1>8, <1>9, <3>1, <3>2
    <3> QED
      BY <3>1, <3>3 DEF StartedSoFar, MappedSoFar, Stored, Unnumbered
  <2>4. CASE main.at = "member"
    <3>1. /\ main'.at = "loop" /\ started = RouterNames
          /\ mapped = Stored(tables.addr_mappings, Len(tables.addr_mappings))
                      \cup Stored(tables.addr_net_memships, main.row - 1)
      BY <1>2, <1>5, <2>4, LoopAt, SoFar
    <3>2. main.row - 1 = Len(tables.addr_net_memships)
      BY <1>6, <2>4, LoopAt
    <3>3. /\ started' = RouterNames'
          /\ mapped' = Stored(tables'.addr_mappings, Len(tables'.addr_mappings))
                       \cup Stored(tables'.addr_net_memships, Len(tables'.addr_net_memships))
      BY <1>1, <1>8, <3>1, <3>2
    <3> QED
      BY <3>1, <3>3 DEF StartedSoFar, MappedSoFar, Stored, Unnumbered
  <2> QED
    BY <1>5, <2>1, <2>2, <2>3, <2>4
<1> QED
  BY <1>3, <1>4, <1>12, <1>13 DEF ConfigInvariant

(* The loop is the same as long as main() is in it.                        *)
LEMMA SameLoop ==
  ASSUME tables' = tables, main'.at = main.at
  PROVE  Loop' = Loop /\ RouterNames' = RouterNames
BY DEF Loop, RouterNames, Name

LEMMA SameSoFar ==
  ASSUME FileTypeOK, MainOK, StartedSoFar, MappedSoFar, tables' = tables, main'.at = main.at, main'.row = main.row,
         started' = started, mapped' = mapped
  PROVE  StartedSoFar' /\ MappedSoFar'
<1>1. RouterNames' = RouterNames
  BY SameLoop
<1>2. StartedSoFar'
  BY <1>1 DEF StartedSoFar
<1>3. MappedSoFar'
  BY DEF MappedSoFar, Stored, Unnumbered
<1> QED
  BY <1>2, <1>3

LEMMA LoadStep ==
  ASSUME ConfigInvariant, Load
  PROVE  ConfigInvariant'
<1> DEFINE k == main.loaded + 1
           v == Loop.rows[main.row][k]
<1>1. /\ main.row <= Len(Loop.rows) /\ main.loaded < Len(Loop.rows[main.row])
      /\ args' = [args EXCEPT ![k] = v]
      /\ main' = [main EXCEPT !.loaded = main.loaded + 1]
      /\ file' = file /\ tables' = tables /\ started' = started
      /\ simnodes' = simnodes /\ mapped' = mapped /\ conf' = conf
  BY DEF Load
<1>2. FileTypeOK /\ TablesSound /\ MainOK /\ StartedSoFar /\ MappedSoFar /\ NodesServed
  BY DEF ConfigInvariant
<1>3. FileTypeOK' /\ TablesSound'
  BY <1>1, <1>2, SameTables
<1>4. NodesServed'
  BY <1>1, <1>2, StillServed
<1>5. /\ main \in [at : {"read", "start", "map", "member", "loop"}, row : Nat \ {0}, loaded : 0..2]
      /\ args = <<args[1], args[2]>>
      /\ \A i \in 1..main.loaded : args[i] = Loop.rows[main.row][i]
  BY <1>2 DEF MainOK
<1>6. main'.at = main.at /\ main'.row = main.row /\ main'.loaded = k
  BY <1>1, <1>5
<1>7. StartedSoFar' /\ MappedSoFar'
  BY <1>1, <1>2, <1>6, SameSoFar
<1>8. k \in 1..2
  <2>1. main.row \in 1..Len(Loop.rows)
    BY <1>1, <1>2, <1>5, RowFields
  <2>2. Len(Loop.rows[main.row]) \in 1..2
    <3>1. CASE main.at = "start"
      BY <1>2, <2>1, <3>1, RowFields
    <3>2. CASE main.at \in {"map", "member"}
      BY <1>2, <2>1, <3>2, RowFields
    <3>3. CASE main.at \in {"read", "loop"}
      BY <1>2, <2>1, <3>3, RowFields
    <3> QED
      BY <1>5, <3>1, <3>2, <3>3
  <2>3. main.loaded \in 0..2 /\ main.loaded < Len(Loop.rows[main.row])
    BY <1>1, <1>5
  <2> DEFINE n == Len(Loop.rows[main.row])
  <2> HIDE DEF n
  <2>4. n \in 1..2 /\ main.loaded < n
    BY <2>2, <2>3 DEF n
  <2> QED
    BY <2>3, <2>4
<1>9. MainOK'
  <2>1. Loop' = Loop
    BY <1>1, <1>6, SameLoop
  <2>2. main' \in [at : {"read", "start", "map", "member", "loop"}, row : Nat \ {0}, loaded : 0..2]
    BY <1>1, <1>5, <1>8
  <2> HIDE DEF v
  <2>3. args' = <<args'[1], args'[2]>> /\ args'[k] = v
        /\ \A i \in 1..main.loaded : args'[i] = args[i]
    BY <1>1, <1>5, <1>8
  <2>4. \A i \in 1..k : args'[i] = Loop.rows[main.row][i]
    <3>1. \A i \in 1..k : i \in 1..main.loaded \/ i = k
      BY <1>5
    <3> QED
      BY <1>5, <2>3, <3>1 DEF v
  <2>5. main.row <= Len(Loop.rows) + 1 /\ k <= Len(Loop.rows[main.row])
    <3>1. main.row \in 1..Len(Loop.rows) /\ Len(Loop.rows) \in Nat
      BY <1>1, <1>2, <1>5, RowFields
    <3>2. Len(Loop.rows[main.row]) \in Nat
      <4>1. main.at \in {"start", "map", "member"}
        BY <1>2, <1>5, <3>1, RowFields
      <4> QED
        BY <1>2, <3>1, <4>1, RowFields
    <3> QED
      BY <1>1, <1>5, <3>1, <3>2
  <2> HIDE DEF k
  <2> QED
    BY <1>1, <1>6, <2>1, <2>2, <2>3, <2>4, <2>5 DEF MainOK
<1> QED
  BY <1>3, <1>4, <1>7, <1>9 DEF ConfigInvariant

LEMMA LoadedRow ==
  ASSUME FileTypeOK, MainOK, Loaded
  PROVE  /\ main.row \in 1..Len(Loop.rows) /\ Len(Loop.rows) \in Nat
         /\ main'.at = main.at /\ main'.row = main.row + 1 /\ main'.loaded = 0
         /\ main' \in [at : {"read", "start", "map", "member", "loop"}, row : Nat \ {0}, loaded : 0..2]
         /\ main.at = "start" => args[1] = Name(tables.routers[main.row]) /\ main.row \in 1..Len(tables.routers)
         /\ main.at \in {"map", "member"} => args = Loop.rows[main.row]
<1>1. /\ main.row <= Len(Loop.rows) /\ main.loaded = Len(Loop.rows[main.row])
      /\ main' = [main EXCEPT !.row = main.row + 1, !.loaded = 0]
  BY DEF Loaded
<1>2. /\ main \in [at : {"read", "start", "map", "member", "loop"}, row : Nat \ {0}, loaded : 0..2]
      /\ args = <<args[1], args[2]>>
      /\ \A i \in 1..main.loaded : args[i] = Loop.rows[main.row][i]
  BY DEF MainOK
<1>3. main.row \in 1..Len(Loop.rows) /\ Len(Loop.rows) \in Nat
  BY <1>1, <1>2, RowFields
<1>4. /\ main'.at = main.at /\ main'.row = main.row + 1 /\ main'.loaded = 0
      /\ main' \in [at : {"read", "start", "map", "member", "loop"}, row : Nat \ {0}, loaded : 0..2]
  <2> DEFINE k == main.row + 1
  <2>1. k \in Nat \ {0}
    BY <1>2
  <2> HIDE DEF k
  <2> DEFINE m == [main EXCEPT !.row = k]
  <2>2. main' = [m EXCEPT !.loaded = 0]
    BY <1>1 DEF k
  <2>4. /\ m.at = main.at /\ m.row = k
        /\ m \in [at : {"read", "start", "map", "member", "loop"}, row : Nat \ {0}, loaded : 0..2]
    BY <1>2, <2>1
  <2> HIDE DEF m
  <2>3. /\ main'.at = main.at /\ main'.row = k /\ main'.loaded = 0
        /\ main' \in [at : {"read", "start", "map", "member", "loop"}, row : Nat \ {0}, loaded : 0..2]
    BY <2>2, <2>4
  <2> QED
    BY <2>3 DEF k
<1>5. ASSUME main.at = "start"
      PROVE  args[1] = Name(tables.routers[main.row]) /\ main.row \in 1..Len(tables.routers)
  <2>1. /\ Len(Loop.rows[main.row]) = 1 /\ Loop.rows[main.row][1] = Name(tables.routers[main.row])
        /\ Len(Loop.rows) = Len(tables.routers)
    BY <1>3, <1>5, RowFields
  <2>2. args[1] = Loop.rows[main.row][1]
    BY <1>1, <1>2, <2>1
  <2> QED
    BY <1>3, <2>1, <2>2
<1>6. ASSUME main.at \in {"map", "member"}
      PROVE  args = Loop.rows[main.row]
  <2> DEFINE m == Loop.rows[main.row]
  <2>1. Len(m) = 2 /\ m = <<m[1], m[2]>>
    BY <1>3, <1>6, RowFields
  <2>2. args[1] = m[1] /\ args[2] = m[2]
    BY <1>1, <1>2, <2>1
  <2> HIDE DEF m
  <2> QED
    BY <1>2, <2>1, <2>2 DEF m
<1> QED
  BY <1>3, <1>4, <1>5, <1>6

LEMMA AfterRow ==
  ASSUME FileTypeOK, MainOK, Loaded, tables' = tables, args' = args
  PROVE  MainOK'
<1>1. /\ main.row \in 1..Len(Loop.rows) /\ Len(Loop.rows) \in Nat
      /\ main'.at = main.at /\ main'.row = main.row + 1 /\ main'.loaded = 0
      /\ main' \in [at : {"read", "start", "map", "member", "loop"}, row : Nat \ {0}, loaded : 0..2]
  BY LoadedRow
<1>2. Loop' = Loop
  BY <1>1, SameLoop
<1>3. args' = <<args'[1], args'[2]>>
  BY DEF MainOK
<1>4. main'.row <= Len(Loop'.rows) + 1
  BY <1>1, <1>2
<1>5. ~(main'.loaded > 0) /\ \A i \in 1..main'.loaded : FALSE
  BY <1>1
<1> QED
  BY <1>1, <1>3, <1>4, <1>5 DEF MainOK

LEMMA StartRouterStep ==
  ASSUME ConfigInvariant, StartRouterCopy
  PROVE  ConfigInvariant'
<1>1. /\ main.at = "start" /\ Loaded /\ started' = Append(started, args[1])
      /\ file' = file /\ tables' = tables /\ args' = args
      /\ simnodes' = simnodes /\ mapped' = mapped /\ conf' = conf
  BY DEF StartRouterCopy
<1>2. FileTypeOK /\ TablesSound /\ MainOK /\ StartedSoFar /\ MappedSoFar /\ NodesServed
  BY DEF ConfigInvariant
<1>3. FileTypeOK' /\ TablesSound'
  BY <1>1, <1>2, SameTables
<1>4. MainOK'
  BY <1>1, <1>2, AfterRow
<1>5. /\ main'.at = "start" /\ main'.row - 1 = main.row
      /\ args[1] = Name(tables.routers[main.row]) /\ main.row \in 1..Len(tables.routers)
  <2>1. /\ main'.at = main.at /\ main'.row = main.row + 1
        /\ args[1] = Name(tables.routers[main.row]) /\ main.row \in 1..Len(tables.routers)
    BY <1>1, <1>2, LoadedRow
  <2>2. main.row \in Nat
    BY <1>2 DEF MainOK
  <2> QED
    BY <1>1, <2>1, <2>2
<1> DEFINE k == main.row
<1>6. /\ RouterNames \in Seq(Names) /\ Len(RouterNames) = Len(tables.routers)
      /\ RouterNames[k] = args[1] /\ k \in 1..Len(RouterNames)
  BY <1>2, <1>5, NamesOfRouters
<1>7. started = SubSeq(RouterNames, 1, k - 1) /\ mapped = {}
  BY <1>1, <1>2, SoFar
<1>8. started' = SubSeq(RouterNames, 1, k)
  <2>1. SubSeq(RouterNames, 1, k) = Append(SubSeq(RouterNames, 1, k - 1), RouterNames[k])
    <3> HIDE DEF k
    <3> QED
      BY <1>6, PrefixGrows
  <2> QED
    BY <1>1, <1>6, <1>7, <2>1
<1>9. RouterNames' = RouterNames
  BY <1>1, <1>5, SameLoop
<1>10. StartedSoFar' /\ MappedSoFar'
  <2>1. started' = SubSeq(RouterNames', 1, main'.row - 1)
    BY <1>5, <1>8, <1>9
  <2> QED
    BY <1>1, <1>5, <1>7, <2>1 DEF StartedSoFar, MappedSoFar
<1>11. NodesServed'
  <2>1. \A j \in DOMAIN started : j \in DOMAIN started' /\ started'[j] = started[j]
    <3> HIDE DEF k
    <3>1. k \in Nat \ {0}
      BY <1>6
    <3>2. /\ DOMAIN started = 1..(k - 1) /\ \A j \in 1..(k - 1) : started[j] = RouterNames[j]
      BY <1>6, <1>7, <3>1
    <3>3. /\ DOMAIN started' = 1..k /\ \A j \in 1..k : started'[j] = RouterNames[j]
      BY <1>6, <1>8, <3>1
    <3> QED
      BY <3>1, <3>2, <3>3
  <2> QED
    BY <1>1, <1>2, <2>1, StillServed
<1> QED
  BY <1>3, <1>4, <1>10, <1>11 DEF ConfigInvariant

LEMMA AddMappingStep ==
  ASSUME ConfigInvariant, AddMappingCopy
  PROVE  ConfigInvariant'
<1>1. /\ main.at \in {"map", "member"} /\ Loaded
      /\ mapped' = IF args[1] = Unnumbered THEN mapped ELSE mapped \cup {args}
      /\ file' = file /\ tables' = tables /\ args' = args /\ started' = started
      /\ simnodes' = simnodes /\ conf' = conf
  BY DEF AddMappingCopy
<1>2. FileTypeOK /\ TablesSound /\ MainOK /\ StartedSoFar /\ MappedSoFar /\ NodesServed
  BY DEF ConfigInvariant
<1>3. FileTypeOK' /\ TablesSound'
  BY <1>1, <1>2, SameTables
<1>4. MainOK'
  BY <1>1, <1>2, AfterRow
<1>5. NodesServed'
  BY <1>1, <1>2, StillServed
<1> DEFINE k == main.row - 1
<1>6. /\ main'.at = main.at /\ main'.row - 1 = k + 1 /\ k \in Nat
      /\ args = Loop.rows[k + 1]
  <2>1. /\ main'.at = main.at /\ main'.row = main.row + 1 /\ args = Loop.rows[main.row]
    BY <1>1, <1>2, LoadedRow
  <2>2. main.row \in Nat \ {0}
    BY <1>2 DEF MainOK
  <2>3. k + 1 = main.row /\ k \in Nat
    BY <2>2
  <2> QED
    BY <2>1, <2>2, <2>3
<1>7. RouterNames' = RouterNames
  BY <1>1, <1>6, SameLoop
<1>8. StartedSoFar'
  BY <1>1, <1>2, <1>6, <1>7 DEF StartedSoFar
<1>9. MappedSoFar'
  <2>1. CASE main.at = "map"
    <3> DEFINE s == tables.addr_mappings
    <3>1. mapped = Stored(s, k) /\ args = s[k + 1]
      BY <1>2, <1>6, <2>1, LoopAt, SoFar
    <3>2. mapped' = Stored(s, k + 1)
      <4> HIDE DEF s, k
      <4> QED
        BY <1>1, <1>6, <3>1, StoredGrows
    <3>3. main'.at = "map" /\ mapped' = Stored(tables'.addr_mappings, main'.row - 1)
      BY <1>1, <1>6, <2>1, <3>2
    <3> QED
      BY <3>3 DEF MappedSoFar, Stored, Unnumbered
  <2>2. CASE main.at = "member"
    <3> DEFINE s == tables.addr_net_memships
               A == Stored(tables.addr_mappings, Len(tables.addr_mappings))
    <3>1. mapped = A \cup Stored(s, k) /\ args = s[k + 1]
      BY <1>2, <1>6, <2>2, LoopAt, SoFar
    <3>2. mapped' = A \cup Stored(s, k + 1)
      <4> HIDE DEF s, k, A
      <4>1. Stored(s, k + 1) = IF s[k + 1][1] = Unnumbered THEN Stored(s, k) ELSE Stored(s, k) \cup {s[k + 1]}
        BY <1>6, StoredGrows
      <4>2. CASE args[1] = Unnumbered
        BY <1>1, <3>1, <4>1, <4>2
      <4>3. CASE args[1] # Unnumbered
        BY <1>1, <3>1, <4>1, <4>3
      <4> QED
        BY <4>2, <4>3
    <3>3. /\ main'.at = "member"
          /\ mapped' = Stored(tables'.addr_mappings, Len(tables'.addr_mappings))
                       \cup Stored(tables'.addr_net_memships, main'.row - 1)
      BY <1>1, <1>6, <2>2, <3>2
    <3> QED
      BY <3>3 DEF MappedSoFar, Stored, Unnumbered
  <2> QED
    BY <1>1, <2>1, <2>2
<1> QED
  BY <1>3, <1>4, <1>5, <1>8, <1>9 DEF ConfigInvariant

(* The handler leaves main() alone: without preemption it runs only when   *)
(* main() has nothing in args.                                             *)
LEMMA CallInStep ==
  ASSUME ConfigInvariant, ~Preempt, NEW k \in DOMAIN started, call_in(k)
  PROVE  ConfigInvariant'
<1> DEFINE r == started[k][2]
<1>1. /\ simnodes' = simnodes \cup {k} /\ ~(main.loaded > 0)
      /\ IF started[k][1] # "rtr" \/ r \notin ToSet(tables.routers) THEN args' = args /\ conf' = conf
         ELSE conf' = [conf EXCEPT ![r] = Configured(sendCfgToRouterId(r))] /\ args' = LastArgs(r)
      /\ file' = file /\ tables' = tables /\ main' = main /\ started' = started /\ mapped' = mapped
  BY DEF call_in
<1>2. FileTypeOK /\ TablesSound /\ MainOK /\ StartedSoFar /\ MappedSoFar /\ NodesServed
  BY DEF ConfigInvariant
<1>3. FileTypeOK' /\ TablesSound'
  BY <1>1, <1>2, SameTables
<1>4. started[k][1] = "rtr" /\ r \in ToSet(tables.routers) /\ r \in Router
  <2>1. PICK i \in 1..Len(tables.routers) : started[k] = Name(tables.routers[i])
    BY <1>2, StartedAreRouters
  <2>2. started[k][1] = "rtr" /\ r = tables.routers[i]
    BY <2>1 DEF Name
  <2> QED
    BY <1>2, <2>2, NamesOfRouters
<1>5. conf' = [conf EXCEPT ![r] = Sending[r]] /\ args' = LastArgs(r)
  BY <1>1, <1>4 DEF Sending
<1>6. NodesServed'
  <2>1. Sending' = Sending
    BY <1>1 DEF Sending, sendCfgToRouterId, Mine, MaxAreas
  <2>2. DOMAIN conf = Router /\ \A j \in simnodes : j \in DOMAIN started /\ conf[started[j][2]] = Sending[started[j][2]]
    BY <1>2 DEF NodesServed
  <2>3. DOMAIN conf' = Router /\ conf'[r] = Sending[r] /\ \A q \in Router : q # r => conf'[q] = conf[q]
    BY <1>4, <1>5, <2>2
  <2>4. ASSUME NEW j \in simnodes' PROVE j \in DOMAIN started /\ conf'[started[j][2]] = Sending[started[j][2]]
    <3>1. CASE j = k
      BY <2>3, <3>1
    <3>2. CASE j \in simnodes
      <4>1. PICK i \in 1..Len(tables.routers) : started[j] = Name(tables.routers[i])
        BY <1>2, <2>2, <3>2, StartedAreRouters
      <4>2. started[j][2] \in Router
        BY <1>2, <4>1, NamesOfRouters, AddressesDiffer
      <4> QED
        BY <2>2, <2>3, <3>2, <4>2
    <3> QED
      BY <1>1, <3>1, <3>2
  <2> QED
    BY <1>1, <2>1, <2>3, <2>4 DEF NodesServed
<1>7. args' = <<args'[1], args'[2]>>
  <2> DEFINE ms == sendCfgToRouterId(r)
             m == Last(ms)
             S == AreasOf(r)
  <2>1. S \in SUBSET Area /\ RowHas(tables.areas[r], S)
    BY <1>2, <1>4 DEF TablesSound, AreasSound
  <2>2. ms \in Seq(Msg) /\ Len(ms) > 0
    <3> DEFINE c == Configured(sendCfgToRouterId(r))
    <3> HIDE DEF S, r
    <3>1. LET d == Configured(sendCfgToRouterId(r))
          IN  /\ ToSet(d.areas) = S /\ Len(d.areas) = Cardinality(S)
              /\ d.ifcs = Live(Mine(tables.interfaces, r))
              /\ d.hosts = ToSet(Mine(tables.hosts, r))
              /\ sendCfgToRouterId(r) \in Seq(Msg) /\ Len(sendCfgToRouterId(r)) > 0
      BY <1>2, <1>4, <2>1, RouterConfigured
    <3> QED
      BY <3>1
  <2> HIDE DEF ms
  <2>3. m \in Msg
    BY <2>2 DEF Last
  <2>4. m.type \in {"gen", "area", "ifc", "host"}
    <3> HIDE DEF m
    <3> QED
      BY <2>3 DEF Msg
  <2>5. LastArgs(r) = CASE m.type = "gen" -> <<<<"rtr", r>>, args[2]>>
                        [] m.type = "area" -> <<<<"area", m.area>>, <<"rtr", r>>>>
                        [] m.type = "ifc" -> <<<<"rtr", r>>, <<"port", m.ifc.port>>>>
                        [] m.type = "host" -> <<<<"rtr", r>>, m.host.addr>>
    BY DEF LastArgs, ms
  <2> HIDE DEF m, r
  <2>6. \E x, y : LastArgs(r) = <<x, y>>
    BY <2>4, <2>5
  <2> QED
    BY <1>5, <2>6
<1>8. MainOK'
  <2>1. Loop' = Loop
    BY <1>1, SameLoop
  <2>2. main.loaded = 0
    BY <1>1, <1>2 DEF MainOK
  <2>3. \A i \in 1..main'.loaded : FALSE
    BY <1>1, <2>2
  <2> QED
    BY <1>1, <1>2, <1>7, <2>1, <2>2, <2>3 DEF MainOK
<1>9. StartedSoFar' /\ MappedSoFar'
  BY <1>1, <1>2, SameSoFar
<1> QED
  BY <1>3, <1>6, <1>8, <1>9 DEF ConfigInvariant

LEMMA ConfigStep ==
  ASSUME ~Preempt
  PROVE  ConfigInvariant /\ [ConfigNext]_configVars => ConfigInvariant'
<1> SUFFICES ASSUME ConfigInvariant, [ConfigNext]_configVars PROVE ConfigInvariant'
  OBVIOUS
<1>1. ASSUME NEW l \in Lines, read_config_file(l) PROVE ConfigInvariant'
  BY <1>1, ReadStep
<1>2. CASE NextLoop
  BY <1>2, NextLoopStep
<1>3. CASE Load
  BY <1>3, LoadStep
<1>4. CASE StartRouterCopy
  BY <1>4, StartRouterStep
<1>5. CASE AddMappingCopy
  BY <1>5, AddMappingStep
<1>6. ASSUME NEW k \in DOMAIN started, call_in(k) PROVE ConfigInvariant'
  BY <1>6, CallInStep
<1>7. CASE UNCHANGED configVars
  <2>1. /\ file' = file /\ tables' = tables /\ main' = main /\ args' = args /\ started' = started
        /\ simnodes' = simnodes /\ mapped' = mapped /\ conf' = conf
    BY <1>7 DEF configVars
  <2>2. FileTypeOK /\ TablesSound /\ MainOK /\ StartedSoFar /\ MappedSoFar /\ NodesServed
    BY DEF ConfigInvariant
  <2>3. FileTypeOK' /\ TablesSound'
    BY <2>1, <2>2, SameTables
  <2>4. MainOK'
    BY <2>1, <2>2, SameLoop DEF MainOK
  <2>5. StartedSoFar' /\ MappedSoFar'
    BY <2>1, <2>2, SameSoFar
  <2>6. NodesServed'
    BY <2>1, <2>2, StillServed
  <2> QED
    BY <2>3, <2>4, <2>5, <2>6 DEF ConfigInvariant
<1> QED
  BY <1>1, <1>2, <1>3, <1>4, <1>5, <1>6, <1>7 DEF ConfigNext

-----------------------------------------------------------------------------
(* What the invariant says when main() is through its loops.               *)
LEMMA MappedAtEnd ==
  ASSUME ConfigInvariant, main.at = "loop"
  PROVE  /\ {m \in mapped : m[1][1] # "port"} = Addresses
         /\ {m \in mapped : m[1][1] = "port"} = ToSet(tables.addr_net_memships)
         /\ \A m \in ToSet(tables.addr_net_memships) :
              \E p \in 1..tables.phy_portno : \E r \in Router : m = <<Port(p), Name(r)>>
<1> DEFINE s == tables.addr_mappings
           w == tables.addr_net_memships
<1>1. FileTypeOK /\ TablesSound /\ MainOK /\ MappedSoFar
  BY DEF ConfigInvariant
<1>2. /\ s \in Seq(({Unnumbered} \cup IfcAddrs \cup HostAddrs) \X Names)
      /\ w \in Seq({Port(i) : i \in Nat} \X Names)
  BY <1>1, TableFields DEF FileTypeOK
<1>3. mapped = Stored(s, Len(s)) \cup Stored(w, Len(w))
  BY <1>1, SoFar
<1>4. DOMAIN s = 1..Len(s) /\ DOMAIN w = 1..Len(w)
  BY <1>2
<1>5. /\ Stored(s, Len(s)) = {m \in ToSet(s) : m[1] # Unnumbered}
      /\ Stored(w, Len(w)) = {m \in ToSet(w) : m[1] # Unnumbered}
  <2> HIDE DEF s, w
  <2>1. Stored(s, Len(s)) = {m \in ToSet(s) : m[1] # Unnumbered}
    BY <1>4 DEF Stored, ToSet
  <2>2. Stored(w, Len(w)) = {m \in ToSet(w) : m[1] # Unnumbered}
    BY <1>4 DEF Stored, ToSet
  <2> QED
    BY <2>1, <2>2
<1>6. {m \in ToSet(s) : m[1] # Unnumbered} = Addresses
  BY <1>1 DEF TablesSound, AddressesSound
<1>7. \A m \in ToSet(w) : \E p \in 1..tables.phy_portno : \E r \in Router : m = <<Port(p), Name(r)>>
  <2> SUFFICES ASSUME NEW m \in ToSet(w)
               PROVE  \E p \in 1..tables.phy_portno : \E r \in Router : m = <<Port(p), Name(r)>>
    OBVIOUS
  <2>1. m \in {Port(i) : i \in Nat} \X Names
    <3> HIDE DEF w
    <3> QED
      BY <1>2, <1>4 DEF ToSet
  <2>2. PICK p \in 1..tables.phy_portno : m[1] = Port(p)
    BY <1>1 DEF TablesSound, PortsSound
  <2>3. m = <<m[1], m[2]>> /\ m[2] \in Names
    <3> HIDE DEF Names
    <3> QED
      BY <2>1
  <2>4. PICK r \in Router : m[2] = Name(r)
    BY <2>3 DEF Names
  <2> QED
    BY <2>2, <2>3, <2>4
<1>8. \A m \in ToSet(w) : m[1] # Unnumbered /\ m[1][1] = "port"
  <2> SUFFICES ASSUME NEW m \in ToSet(w) PROVE m[1] # Unnumbered /\ m[1][1] = "port"
    OBVIOUS
  <2>1. PICK p \in 1..tables.phy_portno : \E r \in Router : m = <<Port(p), Name(r)>>
    BY <1>7
  <2>2. m[1] = Port(p)
    BY <2>1
  <2> QED
    BY <2>2, AddressesDiffer
<1>9. \A m \in Addresses : m[1][1] # "port"
  BY AddressesDiffer DEF Addresses
<1>10. mapped = Addresses \cup ToSet(w)
  <2> HIDE DEF s, w
  <2> QED
    BY <1>3, <1>5, <1>6, <1>8
<1> HIDE DEF s, w
<1>11. /\ {m \in mapped : m[1][1] # "port"} = Addresses
       /\ {m \in mapped : m[1][1] = "port"} = ToSet(w)
  BY <1>8, <1>9, <1>10
<1> QED
  BY <1>7, <1>11 DEF w

LEMMA PortsAtEnd ==
  ASSUME ConfigInvariant, main.at = "loop"
  PROVE  /\ Ports = {Port(p) : p \in {q \in 1..tables.phy_portno : PortMembers(tables, q) # {}}}
         /\ \A p \in 1..tables.phy_portno : OnPort(Port(p)) = PortMembers(tables, p)
<1> DEFINE W == ToSet(tables.addr_net_memships)
           N == 1..tables.phy_portno
<1>1. /\ {m \in mapped : m[1][1] = "port"} = W
      /\ \A m \in W : \E p \in N : \E r \in Router : m = <<Port(p), Name(r)>>
  BY MappedAtEnd
<1>2. \A m \in W : \A p, r : m = <<Port(p), Name(r)>> => m[1] = Port(p) /\ m[2][2] = r
  BY AddressesDiffer
<1>3. \A p : PortMembers(tables, p) = {r \in Router : <<Port(p), Name(r)>> \in W}
  BY DEF PortMembers, IsRow
<1>4. Ports = {m[1] : m \in W}
  BY <1>1 DEF Ports
<1>5. \A p \in N : {m \in mapped : m[1] = Port(p)} = {m \in W : m[1] = Port(p)}
  <2>1. \A p : Port(p)[1] = "port"
    BY AddressesDiffer
  <2> HIDE DEF W, N
  <2> QED
    BY <1>1, <2>1
<1>6. \A p \in N : OnPort(Port(p)) = {m[2][2] : m \in {n \in W : n[1] = Port(p)}}
  BY <1>5 DEF OnPort
<1> HIDE DEF W, N
<1>7. Ports = {Port(p) : p \in {q \in N : PortMembers(tables, q) # {}}}
  <2>1. ASSUME NEW m \in W PROVE \E p \in {q \in N : PortMembers(tables, q) # {}} : m[1] = Port(p)
    <3>1. PICK p \in N, r \in Router : m = <<Port(p), Name(r)>>
      BY <1>1
    <3>2. m[1] = Port(p) /\ r \in PortMembers(tables, p)
      BY <1>2, <1>3, <3>1
    <3> QED
      BY <3>2
  <2>2. ASSUME NEW p \in N, PortMembers(tables, p) # {} PROVE \E m \in W : m[1] = Port(p)
    <3>1. PICK r \in Router : <<Port(p), Name(r)>> \in W
      BY <1>3, <2>2
    <3>2. <<Port(p), Name(r)>>[1] = Port(p)
      OBVIOUS
    <3> QED
      BY <3>1, <3>2
  <2> QED
    BY <1>4, <2>1, <2>2
<1>8. \A p \in N : OnPort(Port(p)) = PortMembers(tables, p)
  <2> SUFFICES ASSUME NEW p \in N PROVE OnPort(Port(p)) = PortMembers(tables, p)
    OBVIOUS
  <2>1. ASSUME NEW m \in W, m[1] = Port(p) PROVE m[2][2] \in PortMembers(tables, p)
    <3>1. PICK q \in N, r \in Router : m = <<Port(q), Name(r)>>
      BY <1>1
    <3>2. m[1] = Port(q) /\ m[2][2] = r
      BY <1>2, <3>1
    <3>3. p = q
      BY <2>1, <3>2, AddressesDiffer
    <3> QED
      BY <1>3, <3>1, <3>2, <3>3
  <2>2. ASSUME NEW r \in PortMembers(tables, p)
        PROVE  \E m \in {n \in W : n[1] = Port(p)} : m[2][2] = r
    <3> DEFINE m == <<Port(p), Name(r)>>
    <3>1. m \in W
      BY <1>3
    <3>2. m[1] = Port(p) /\ m[2][2] = r
      BY <1>2, <3>1
    <3> QED
      BY <3>1, <3>2
  <2> DEFINE Q == {n \in W : n[1] = Port(p)}
             P == PortMembers(tables, p)
  <2>3. /\ OnPort(Port(p)) = {m[2][2] : m \in Q}
        /\ \A m \in Q : m[2][2] \in P
        /\ \A r \in P : \E m \in Q : m[2][2] = r
    BY <1>6, <2>1, <2>2
  <2> HIDE DEF Q, P
  <2>4. OnPort(Port(p)) = P
    BY <2>3
  <2> QED
    BY <2>4 DEF P
<1> QED
  BY <1>7, <1>8 DEF N

LEMMA LinksAtEnd ==
  ASSUME ConfigInvariant, main.at = "loop"
  PROVE  {OnPort(p) : p \in Ports} = Links \ {{}}
<1> DEFINE t == tables
           N == 1..t.phy_portno
           Nets == ToSet(t.networks)
<1>1. FileTypeOK /\ TablesSound
  BY DEF ConfigInvariant
<1>2. /\ {<<n.prefix, n.area>> : n \in Nets} = {<<l.prefix, l.area>> : l \in Networks}
      /\ \A n \in Nets : n.port \in N
      /\ \A l \in ToSet(file) : l.kind = "interface" => NetDeclared(l.prefix)
      /\ \A n \in Nets : PortMembers(t, n.port) = On(n.prefix)
      /\ \A p \in N : IsNetPort(t, p) \/ PortMembers(t, p) \in LinkSets
      /\ \A P \in LinkSets : \E p \in N : PortMembers(t, p) = P
  BY <1>1 DEF TablesSound, NetsSound, PortsSound
<1>3. \A n \in Nets : n.prefix \in Prefix
  <2>1. t.networks \in Seq(NetEntry)
    BY <1>1, TableFields DEF FileTypeOK
  <2>2. \A i \in DOMAIN t.networks : t.networks[i] \in NetEntry
    <3> HIDE DEF t
    <3> QED
      BY <2>1
  <2> QED
    BY <2>2 DEF ToSet, NetEntry
<1>4. Links = LinkSets \cup {On(p) : p \in Prefix}
  BY DEF Links, LinkSets
<1>5. /\ Ports = {Port(p) : p \in {q \in N : PortMembers(t, q) # {}}}
      /\ \A p \in N : OnPort(Port(p)) = PortMembers(t, p)
  BY PortsAtEnd
<1>6. {OnPort(p) : p \in Ports} = {PortMembers(t, p) : p \in {q \in N : PortMembers(t, q) # {}}}
  <2> HIDE DEF N, t
  <2> QED
    BY <1>5
<1>7. ASSUME NEW p \in N, PortMembers(t, p) # {} PROVE PortMembers(t, p) \in Links
  <2>1. CASE PortMembers(t, p) \in LinkSets
    BY <1>4, <2>1
  <2>2. CASE IsNetPort(t, p)
    <3>1. PICK n \in Nets : n.port = p
      BY <2>2 DEF IsNetPort
    <3> QED
      BY <1>2, <1>3, <1>4, <3>1
  <2> QED
    BY <1>2, <2>1, <2>2
<1>8. ASSUME NEW L \in Links, L # {} PROVE \E p \in N : PortMembers(t, p) = L
  <2>1. CASE L \in LinkSets
    BY <1>2, <2>1
  <2>2. CASE L \in {On(p) : p \in Prefix}
    <3>1. PICK x \in Prefix : L = On(x)
      BY <2>2
    <3>2. PICK r \in Router : \E l \in ToSet(file) : IsIfc(l, r, x)
      BY <1>8, <3>1 DEF On
    <3>3. NetDeclared(x)
      BY <1>2, <3>2 DEF IsIfc
    <3>4. PICK y \in Networks : y.prefix = x
      BY <3>3 DEF NetDeclared
    <3>5. <<y.prefix, y.area>> \in {<<n.prefix, n.area>> : n \in Nets}
      BY <1>2
    <3>6. PICK n \in Nets : <<y.prefix, y.area>> = <<n.prefix, n.area>>
      BY <3>5
    <3>7. n.prefix = x
      BY <3>4, <3>6
    <3> QED
      BY <1>2, <3>1, <3>7
  <2> QED
    BY <1>4, <2>1, <2>2
<1> HIDE DEF N, t
<1> QED
  BY <1>6, <1>7, <1>8

LEMMA ServedAtEnd ==
  ASSUME ConfigInvariant, main.at = "loop", NEW k \in simnodes
  PROVE  Served(started[k][2], conf[started[k][2]])
<1>1. FileTypeOK /\ TablesSound /\ MainOK /\ StartedSoFar /\ NodesServed
  BY DEF ConfigInvariant
<1>2. k \in DOMAIN started /\ conf[started[k][2]] = Sending[started[k][2]]
  BY <1>1 DEF NodesServed
<1>3. PICK i \in 1..Len(tables.routers) : started[k] = Name(tables.routers[i])
  BY <1>1, <1>2, StartedAreRouters
<1> DEFINE r == tables.routers[i]
           c == Configured(sendCfgToRouterId(r))
           S == AreasOf(r)
<1>4. r \in Router /\ started[k][2] = r
  BY <1>1, <1>3, NamesOfRouters, AddressesDiffer
<1>5. conf[started[k][2]] = c
  BY <1>2, <1>4 DEF Sending
<1>6. S \in SUBSET Area /\ RowHas(tables.areas[r], S)
  BY <1>1, <1>4 DEF TablesSound, AreasSound
<1> HIDE DEF r
<1>7. /\ ToSet(c.areas) = S /\ Len(c.areas) = Cardinality(S)
      /\ c.ifcs = Live(Mine(tables.interfaces, r))
      /\ c.hosts = ToSet(Mine(tables.hosts, r))
  <2> HIDE DEF S
  <2>1. LET d == Configured(sendCfgToRouterId(r))
        IN  /\ ToSet(d.areas) = S /\ Len(d.areas) = Cardinality(S)
            /\ d.ifcs = Live(Mine(tables.interfaces, r))
            /\ d.hosts = ToSet(Mine(tables.hosts, r))
            /\ sendCfgToRouterId(r) \in Seq(Msg) /\ Len(sendCfgToRouterId(r)) > 0
    BY <1>1, <1>4, <1>6, RouterConfigured
  <2> QED
    BY <2>1
<1> HIDE DEF c
<1>8. {<<e.type, e.area, e.addr>> : e \in c.ifcs} = IfcsOf(r)
  BY <1>1, <1>4, <1>7 DEF TablesSound, IfcsSound, LiveIfcs
<1>9. \A e \in c.ifcs : r \in OnPort(<<"port", e.port>>)
  <2> SUFFICES ASSUME NEW e \in c.ifcs PROVE r \in OnPort(<<"port", e.port>>)
    OBVIOUS
  <2>1. tables.interfaces \in Seq(IfcEntry)
    BY <1>1, TableFields DEF FileTypeOK
  <2>2. e \in Live(Mine(tables.interfaces, r))
    BY <1>7
  <2>3. e \in ToSet(tables.interfaces) /\ e.rtr = r
    BY <2>1, <2>2, LiveOf
  <2>4. EntrySound(tables, e)
    BY <1>1, <2>3 DEF TablesSound, IfcsSound
  <2>5. e.port \in 1..tables.phy_portno /\ r \in PortMembers(tables, e.port)
    BY <1>4, <2>3, <2>4 DEF EntrySound, PortMembers
  <2>6. OnPort(Port(e.port)) = PortMembers(tables, e.port)
    BY <2>5, PortsAtEnd
  <2> QED
    BY <2>5, <2>6 DEF Port
<1>10. {h.area : h \in c.hosts} = HostAreas(r)
  BY <1>1, <1>4, <1>7 DEF TablesSound, HostsSound
<1> QED
  BY <1>4, <1>5, <1>7, <1>8, <1>9, <1>10 DEF Served

LEMMA InvariantDelivers == ConfigInvariant => ConfigDelivered
<1> SUFFICES ASSUME ConfigInvariant, main.at = "loop"
             PROVE  /\ started = [i \in DOMAIN tables.routers |-> <<"rtr", tables.routers[i]>>]
                    /\ ToSet(tables.routers) = {l.rtr : l \in Routers} /\ IsInjective(tables.routers)
                    /\ {OnPort(p) : p \in Ports} = Links \ {{}}
                    /\ {m \in mapped : m[1][1] # "port"} = Addresses
                    /\ \A k \in simnodes : Served(started[k][2], conf[started[k][2]])
  BY DEF ConfigDelivered
<1>1. started = [i \in DOMAIN tables.routers |-> <<"rtr", tables.routers[i]>>]
  BY SoFar DEF ConfigInvariant, RouterNames, Name
<1>2. ToSet(tables.routers) = {l.rtr : l \in Routers} /\ IsInjective(tables.routers)
  BY DEF ConfigInvariant, TablesSound, RoutersSound
<1> QED
  BY <1>1, <1>2, LinksAtEnd, MappedAtEnd, ServedAtEnd

(* When main() is through its loops, all that the file configures was       *)
(* started, stored and sent, whatever the file and whenever the routers     *)
(* call in, provided the signal does not come between args and their use.   *)
THEOREM ConfigAlwaysDelivered ==
  ASSUME ~Preempt
  PROVE  ConfigSpec => []ConfigDelivered
<1>1. ConfigInvariant /\ [ConfigNext]_configVars => ConfigInvariant'
  BY ConfigStep
<1> QED
  BY <1>1, InitHolds, InvariantDelivers, PTL DEF ConfigSpec
=============================================================================
