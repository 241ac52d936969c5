-------------------------- MODULE StructuresProofs ---------------------------
(***************************************************************************)
(* Proofs about the modules that MCStructures puts together: PPAdj, for    *)
(* any number of links, costs and limits; Membership, for any interfaces;  *)
(* TcpPkt, for any messages; Monitor, for any tables.                      *)
(***************************************************************************)
EXTENDS PPAdj, Membership, TcpPkt, Monitor, Recursion, FiniteSetTheorems, TLAPS

LEMMA MinIsIn ==
  ASSUME NEW S, S \subseteq Nat, S # {}
  PROVE  Min(S) \in S /\ \A y \in S : Min(S) <= y
<1> DEFINE T == {m \in Nat : \A i \in 0..m : i \notin S}
<1>1. \E x \in S : \A y \in S : x <= y
  <2> SUFFICES ASSUME \A x \in S : \E y \in S : y < x
               PROVE  FALSE
    BY SMT
  <2>1. 0 \in T
    BY SMT
  <2>2. ASSUME NEW m \in Nat, m \in T
        PROVE  m + 1 \in T
    <3> SUFFICES ASSUME NEW i \in 0..(m + 1), i \in S
                 PROVE  FALSE
      OBVIOUS
    <3>1. PICK y \in S : y < i
      OBVIOUS
    <3>2. y \in 0..m
      BY <3>1
    <3> QED
      BY <2>2, <3>2
  <2>3. Nat \subseteq T
    <3> HIDE DEF T
    <3> QED
      BY <2>1, <2>2, SetInduction
  <2>4. PICK x \in S : TRUE
    OBVIOUS
  <2>5. x \in T /\ x \in 0..x
    BY <2>3, <2>4
  <2> QED
    BY <2>4, <2>5
<1> QED
  BY <1>1 DEF Min

-----------------------------------------------------------------------------
(* Parallel links: the ranks of the states, and the record. *)

LinkState == {"Down", "Init", "TwoWay", "Exst", "Full"}

PPRecord ==
  [st : [Link -> LinkState], cost : [Link -> Costs], pend : SUBSET Link, rmt_init : SUBSET Link,
   lcl : Int, rmt : Int, others : Nat,
   aggr : [n_adjs : Int, cost : Nat, first : 0..Links, mpath : SUBSET Link],
   lsa : SUBSET (Link \X Nat), repriced : BOOLEAN]

LEMMA Ranks ==
  Rank["Down"] = 1 /\ Rank["Init"] = 4 /\ Rank["TwoWay"] = 8 /\ Rank["Exst"] = 16 /\ Rank["Full"] = 128
BY DEF Rank

LEMMA RankOrder ==
  ASSUME NEW s \in LinkState
  PROVE  /\ Rank[s] >= Rank["TwoWay"] <=> s \in {"TwoWay", "Exst", "Full"}
         /\ Rank[s] >= Rank["Exst"] <=> s \in {"Exst", "Full"}
         /\ Rank[s] >= Rank["Full"] <=> s = "Full"
BY Ranks DEF LinkState

LEMMA AtLeastIs ==
  ASSUME NEW r, r.st \in [Link -> LinkState]
  PROVE  /\ AtLeast(r, "TwoWay") = {l \in Link : r.st[l] \in {"TwoWay", "Exst", "Full"}}
         /\ AtLeast(r, "Exst") = {l \in Link : r.st[l] \in {"Exst", "Full"}}
         /\ AtLeast(r, "Full") = {l \in Link : r.st[l] = "Full"}
BY RankOrder DEF AtLeast

LEMMA LinksAreFinite ==
  ASSUME NEW S, S \subseteq Link
  PROVE  IsFiniteSet(S) /\ Cardinality(S) \in Nat
<1>1. IsFiniteSet(Link)
  <2>1. 1 \in Int /\ Links \in Int
    BY PPAdjAssumption
  <2> QED
    BY <2>1, FS_Interval DEF Link
<1> QED
  BY <1>1, FS_Subset, FS_CardinalityType

LEMMA ScanIs ==
  ASSUME NEW r \in PPRecord, NEW n \in Int
  PROVE  /\ Scan(r, n) \in [n_adjs : Int, cost : Nat, first : 0..Links, mpath : SUBSET Link]
         /\ Scan(r, n).n_adjs = n
         /\ Scan(r, n).first = NoLink <=> AtLeast(r, "Full") = {}
         /\ Scan(r, n).first # NoLink => Scan(r, n).first \in AtLeast(r, "Full")
<1> DEFINE bidir == AtLeast(r, "TwoWay")
           full  == AtLeast(r, "Full")
           prices == {r.cost[l] : l \in bidir}
           best  == IF bidir = {} THEN 0 ELSE Min(prices)
           first == IF full = {} THEN NoLink ELSE Min(full)
           mpath == {l \in bidir : r.cost[l] = best}
<1>1. Scan(r, n) = [n_adjs |-> n, cost |-> best, first |-> first, mpath |-> mpath]
  BY DEF Scan
<1>2. bidir \subseteq Link /\ full \subseteq Link /\ r.cost \in [Link -> Costs]
  BY DEF AtLeast, PPRecord
<1>3. Costs \subseteq Nat /\ Links \in Nat
  BY PPAdjAssumption
<1> HIDE DEF bidir, full
<1>4. best \in Nat
  <2>1. prices \subseteq Nat /\ (bidir # {} => prices # {})
    BY <1>2, <1>3
  <2> HIDE DEF prices
  <2> QED
    BY <2>1, MinIsIn
<1>5. /\ first \in 0..Links /\ (first = NoLink <=> full = {})
      /\ first # NoLink => first \in full
  <2>1. full \subseteq Nat /\ full \subseteq 0..Links /\ 0 \notin full
    BY <1>2, <1>3 DEF Link
  <2>2. full # {} => Min(full) \in full
    BY <2>1, MinIsIn
  <2>3. CASE full = {}
    BY <1>3, <2>3 DEF NoLink
  <2>4. CASE full # {}
    <3>1. first = Min(full)
      BY <2>4
    <3> HIDE DEF first
    <3> QED
      BY <2>1, <2>2, <2>4, <3>1 DEF NoLink
  <2> QED
    BY <2>3, <2>4
<1>6. mpath \subseteq Link
  BY <1>2
<1> HIDE DEF best, first, mpath, prices
<1> QED
  BY <1>1, <1>4, <1>5, <1>6 DEF full

(* A scan depends on the costs, on who is bidirectional and on who is full. *)
LEMMA ScanSame ==
  ASSUME NEW r, NEW m, NEW c, NEW n, c.cost = r.cost,
         AtLeast(c, "TwoWay") = AtLeast(r, "TwoWay"), AtLeast(c, "Full") = AtLeast(r, "Full")
  PROVE  Scan(c, n) = [Scan(r, m) EXCEPT !.n_adjs = n]
<1> DEFINE bidir == AtLeast(r, "TwoWay")
           full  == AtLeast(r, "Full")
           best  == IF bidir = {} THEN 0 ELSE Min({r.cost[l] : l \in bidir})
           first == IF full = {} THEN NoLink ELSE Min(full)
           mpath == {l \in bidir : r.cost[l] = best}
<1>1. Scan(r, m) = [n_adjs |-> m, cost |-> best, first |-> first, mpath |-> mpath]
  BY DEF Scan
<1>2. Scan(c, n) = [n_adjs |-> n, cost |-> best, first |-> first, mpath |-> mpath]
  BY DEF Scan
<1> HIDE DEF best, first, mpath
<1> QED
  BY <1>1, <1>2

LEMMA SameScan ==
  ASSUME NEW r, NEW c, NEW n, c.cost = r.cost, \A state : AtLeast(c, state) = AtLeast(r, state)
  PROVE  Scan(c, n) = Scan(r, n)
<1> DEFINE bidir == AtLeast(r, "TwoWay")
           full  == AtLeast(r, "Full")
<1>1. AtLeast(c, "TwoWay") = bidir /\ AtLeast(c, "Full") = full
  OBVIOUS
<1> QED
  BY <1>1 DEF Scan

(* AggregateExact, of a record. *)
Aggregated(r) ==
  LET n == Cardinality(AtLeast(r, "Exst"))
      s == Scan(r, n)
  IN  /\ r.aggr.n_adjs = n
      /\ r.aggr.first = s.first
      /\ ~r.repriced => r.aggr = s
      /\ r.lsa = IF s.first = NoLink THEN {} ELSE {<<s.first, r.aggr.cost>>}

Awaited(r) ==
  decides /\ Cardinality(AtLeast(r, "Exst")) < PPAdjLimit =>
    AtLeast(r, "TwoWay") \ AtLeast(r, "Exst") \subseteq r.pend

Busy(r) == AtLeast(r, "Exst") \ AtLeast(r, "Full")

Slots(r) ==
  /\ r.rmt_init \subseteq Busy(r) /\ r.rmt = Cardinality(r.rmt_init)
  /\ r.lcl = r.others + Cardinality(Busy(r) \ r.rmt_init)

PPInv(r) ==
  /\ r \in PPRecord
  /\ PPAdjLimit # 0 => Aggregated(r)
  /\ Awaited(r)
  /\ Slots(r)

LinksInvariant == decides \in BOOLEAN /\ PPInv(pp)

LEMMA RebuiltSound ==
  ASSUME NEW r \in PPRecord,
         PPAdjLimit # 0 => /\ r.aggr.n_adjs = Cardinality(AtLeast(r, "Exst"))
                           /\ r.aggr.first = Scan(r, Cardinality(AtLeast(r, "Exst"))).first
                           /\ ~r.repriced => r.aggr = Scan(r, Cardinality(AtLeast(r, "Exst")))
  PROVE  LET c == rl_orig(r)
         IN  /\ c \in PPRecord /\ (PPAdjLimit # 0 => Aggregated(c))
             /\ c.st = r.st /\ c.pend = r.pend /\ c.rmt_init = r.rmt_init
             /\ c.lcl = r.lcl /\ c.rmt = r.rmt /\ c.others = r.others
<1> DEFINE n == Cardinality(AtLeast(r, "Exst"))
           s == Scan(r, n)
           links == LinksOf(r)
           c == [r EXCEPT !.lsa = links]
<1>1. r.st \in [Link -> LinkState] /\ r.cost \in [Link -> Nat] /\ r.aggr.cost \in Nat
  BY PPAdjAssumption DEF PPRecord
<1>2. AtLeast(r, "Exst") \subseteq Link /\ AtLeast(r, "Full") \subseteq Link
  BY DEF AtLeast
<1>3. n \in Int
  BY <1>2, LinksAreFinite
<1>4. links \in SUBSET (Link \X Nat)
  BY <1>1, <1>2 DEF LinksOf
<1>5. PPAdjLimit # 0 => links = IF s.first = NoLink THEN {} ELSE {<<s.first, r.aggr.cost>>}
  <2> SUFFICES ASSUME PPAdjLimit # 0
               PROVE  links = IF s.first = NoLink THEN {} ELSE {<<s.first, r.aggr.cost>>}
    OBVIOUS
  <2>1. /\ r.aggr.first = s.first
        /\ s.first = NoLink <=> AtLeast(r, "Full") = {}
        /\ s.first # NoLink => s.first \in AtLeast(r, "Full")
    BY <1>3, ScanIs
  <2> HIDE DEF s
  <2>2. CASE s.first = NoLink
    BY <2>1, <2>2 DEF LinksOf
  <2>3. CASE s.first # NoLink
    BY <2>1, <2>3 DEF LinksOf
  <2> QED
    BY <2>2, <2>3
<1>6. rl_orig(r) = c
  BY DEF rl_orig
<1> HIDE DEF links
<1>7. c \in PPRecord
  BY <1>4 DEF PPRecord
<1>8. /\ c.st = r.st /\ c.cost = r.cost /\ c.pend = r.pend /\ c.rmt_init = r.rmt_init
      /\ c.lcl = r.lcl /\ c.rmt = r.rmt /\ c.others = r.others /\ c.aggr = r.aggr
      /\ c.lsa = links /\ c.repriced = r.repriced
  BY DEF PPRecord
<1> HIDE DEF c
<1>9. \A state : AtLeast(c, state) = AtLeast(r, state)
  BY <1>8 DEF AtLeast
<1>10. Scan(c, n) = s
  <2> HIDE DEF n
  <2> QED
    BY <1>8, <1>9, SameScan
<1>11. PPAdjLimit # 0 => Aggregated(c)
  <2> HIDE DEF s, n
  <2>1. Cardinality(AtLeast(c, "Exst")) = n
    BY <1>9 DEF n
  <2> QED
    BY <1>5, <1>8, <1>10, <2>1 DEF Aggregated, s, n
<1> QED
  BY <1>6, <1>7, <1>8, <1>11

(* What adj_change() finds when the state of link l has changed. *)
LEMMA AdjChangeSound ==
  ASSUME decides \in BOOLEAN, NEW r \in PPRecord, PPAdjLimit # 0 => Aggregated(r),
         NEW l \in Link, NEW ns \in LinkState, ns # r.st[l]
  PROVE  LET e == [r EXCEPT !.st[l] = ns]
             c == adj_change(e, r.st[l], ns)
         IN  /\ c \in PPRecord /\ (PPAdjLimit # 0 => Aggregated(c))
             /\ Awaited(c)
             /\ c.st = [r.st EXCEPT ![l] = ns] /\ c.rmt_init = r.rmt_init
             /\ c.lcl = r.lcl /\ c.rmt = r.rmt /\ c.others = r.others
<1> DEFINE os == r.st[l]
           e  == [r EXCEPT !.st[l] = ns]
           d  == IF ~Crosses(os, ns, "Exst") THEN 0 ELSE IF Rank[ns] >= Rank["Exst"] THEN 1 ELSE -1
           n  == e.aggr.n_adjs + d
           more == decides /\ n < PPAdjLimit
           a  == Scan(e, n)
           two == AtLeast(e, "TwoWay") \ AtLeast(e, "Exst")
           pend == IF more THEN e.pend \cup two ELSE e.pend \ two
           scanned == [e EXCEPT !.aggr = a, !.repriced = FALSE, !.pend = pend]
           counted == [e EXCEPT !.aggr.n_adjs = n]
           c  == adj_change(e, os, ns)
<1>1. /\ r.st \in [Link -> LinkState] /\ r.aggr.n_adjs \in Int
      /\ r.aggr \in [n_adjs : Int, cost : Nat, first : 0..Links, mpath : SUBSET Link]
  BY DEF PPRecord
<1>2. e \in PPRecord
  BY <1>1 DEF PPRecord
<1>3. /\ e.st = [r.st EXCEPT ![l] = ns] /\ e.cost = r.cost /\ e.pend = r.pend
      /\ e.rmt_init = r.rmt_init /\ e.lcl = r.lcl /\ e.rmt = r.rmt /\ e.others = r.others
      /\ e.aggr = r.aggr /\ e.lsa = r.lsa /\ e.repriced = r.repriced
  BY DEF PPRecord
<1>4. c = IF PPAdjLimit = 0 THEN e
          ELSE IF ~NeedsScan(os, ns) /\ ~more THEN counted
          ELSE IF a.cost # e.aggr.cost \/ a.first # e.aggr.first THEN rl_orig(scanned)
          ELSE scanned
  BY <1>1 DEF adj_change
<1> HIDE DEF e
<1>5. os \in LinkState /\ e.st \in [Link -> LinkState] /\ e.st[l] = ns
      /\ \A k \in Link : k # l => e.st[k] = r.st[k]
  BY <1>1, <1>3
<1> DEFINE X == AtLeast(r, "Exst")
           Y == AtLeast(e, "Exst")
<1>6. X \subseteq Link /\ Y \subseteq Link
  BY DEF AtLeast
<1>7. /\ X = {k \in Link : r.st[k] \in {"Exst", "Full"}}
      /\ Y = {k \in Link : e.st[k] \in {"Exst", "Full"}}
  BY <1>1, <1>5, AtLeastIs
<1>8. /\ Crosses(os, ns, "Exst") <=> (os \in {"Exst", "Full"}) # (ns \in {"Exst", "Full"})
      /\ Crosses(os, ns, "TwoWay") <=>
           (os \in {"TwoWay", "Exst", "Full"}) # (ns \in {"TwoWay", "Exst", "Full"})
      /\ Rank[ns] >= Rank["Exst"] <=> ns \in {"Exst", "Full"}
  <2>1. os \in LinkState /\ ns \in LinkState
    BY <1>5
  <2> HIDE DEF os
  <2> QED
    BY <2>1, RankOrder DEF Crosses
<1>9. d \in Int /\ Cardinality(Y) = Cardinality(X) + d
  <2>1. IsFiniteSet(X) /\ Cardinality(X) \in Nat
    BY <1>6, LinksAreFinite
  <2>2. CASE os \in {"Exst", "Full"} /\ ns \notin {"Exst", "Full"}
    <3>1. l \in X /\ Y = X \ {l}
      BY <1>5, <1>7, <2>2
    <3>2. d = -1
      BY <1>8, <2>2
    <3> HIDE DEF X, Y, d
    <3>3. Cardinality(Y) = Cardinality(X) - 1
      BY <2>1, <3>1, FS_RemoveElement
    <3> QED
      BY <2>1, <3>2, <3>3
  <2>3. CASE os \notin {"Exst", "Full"} /\ ns \in {"Exst", "Full"}
    <3>1. l \notin X /\ Y = X \cup {l}
      BY <1>5, <1>7, <2>3
    <3>2. d = 1
      BY <1>8, <2>3
    <3> HIDE DEF X, Y, d
    <3>3. Cardinality(Y) = Cardinality(X) + 1
      BY <2>1, <3>1, FS_AddElement
    <3> QED
      BY <2>1, <3>2, <3>3
  <2>4. CASE os \in {"Exst", "Full"} <=> ns \in {"Exst", "Full"}
    <3>1. Y = X
      BY <1>5, <1>7, <2>4
    <3>2. d = 0
      BY <1>8, <2>4
    <3> HIDE DEF X, Y, d
    <3> QED
      BY <2>1, <3>1, <3>2
  <2> QED
    BY <2>2, <2>3, <2>4
<1>10. n \in Int /\ (PPAdjLimit # 0 => n = Cardinality(Y))
  <2>1. PPAdjLimit # 0 => e.aggr.n_adjs = Cardinality(X)
    BY <1>3 DEF Aggregated
  <2>2. e.aggr.n_adjs \in Int
    BY <1>1, <1>3
  <2> HIDE DEF X, Y, d
  <2> QED
    BY <1>9, <2>1, <2>2
<1>11. Cardinality(Y) \in Nat
  BY <1>6, LinksAreFinite
<1>12. CASE PPAdjLimit = 0
  <2>1. c = e
    BY <1>4, <1>12
  <2>2. Awaited(e)
    <3> HIDE DEF Y
    <3> QED
      BY <1>11, <1>12 DEF Awaited, Y
  <2> HIDE DEF c
  <2> QED
    BY <1>2, <1>3, <1>12, <2>1, <2>2 DEF c, e
<1>13. CASE PPAdjLimit # 0 /\ ~NeedsScan(os, ns) /\ ~more
  <2>1. c = counted
    BY <1>4, <1>13
  <2>2. counted \in PPRecord
    <3> HIDE DEF n
    <3> QED
      BY <1>2, <1>10 DEF PPRecord
  <2>3. /\ counted.st = e.st /\ counted.cost = e.cost /\ counted.pend = e.pend
        /\ counted.rmt_init = e.rmt_init /\ counted.lcl = e.lcl /\ counted.rmt = e.rmt
        /\ counted.others = e.others /\ counted.lsa = e.lsa /\ counted.repriced = e.repriced
        /\ counted.aggr = [e.aggr EXCEPT !.n_adjs = n]
    <3> HIDE DEF n
    <3> QED
      BY <1>2 DEF PPRecord
  <2> HIDE DEF counted, c
  <2>4. \A state : AtLeast(counted, state) = AtLeast(e, state)
    BY <2>3 DEF AtLeast
  <2>5. ~Crosses(os, ns, "TwoWay") /\ os # "Full" /\ ns # "Full"
    BY <1>13 DEF NeedsScan
  <2>6. AtLeast(e, "TwoWay") = AtLeast(r, "TwoWay") /\ AtLeast(e, "Full") = AtLeast(r, "Full")
    <3>1. /\ AtLeast(r, "TwoWay") = {k \in Link : r.st[k] \in {"TwoWay", "Exst", "Full"}}
          /\ AtLeast(e, "TwoWay") = {k \in Link : e.st[k] \in {"TwoWay", "Exst", "Full"}}
          /\ AtLeast(r, "Full") = {k \in Link : r.st[k] = "Full"}
          /\ AtLeast(e, "Full") = {k \in Link : e.st[k] = "Full"}
      BY <1>1, <1>5, AtLeastIs
    <3> QED
      BY <1>5, <1>8, <2>5, <3>1
  <2> DEFINE m == Cardinality(X)
             s == Scan(r, m)
             t == Scan(counted, n)
  <2>7. t = [s EXCEPT !.n_adjs = n] /\ t.first = s.first
    <3> HIDE DEF n, m
    <3>1. /\ counted.cost = r.cost /\ AtLeast(counted, "TwoWay") = AtLeast(r, "TwoWay")
          /\ AtLeast(counted, "Full") = AtLeast(r, "Full")
      BY <1>3, <2>3, <2>4, <2>6
    <3>2. t = [s EXCEPT !.n_adjs = n]
      BY <3>1, ScanSame
    <3>3. m \in Int
      BY <1>6, LinksAreFinite DEF m
    <3>4. s \in [n_adjs : Int, cost : Nat, first : 0..Links, mpath : SUBSET Link]
      BY <3>3, ScanIs
    <3> HIDE DEF s, t
    <3> QED
      BY <3>2, <3>4
  <2> HIDE DEF s, t
  <2>8. /\ r.aggr.first = s.first
        /\ ~r.repriced => r.aggr = s
        /\ r.lsa = IF s.first = NoLink THEN {} ELSE {<<s.first, r.aggr.cost>>}
    BY <1>13 DEF Aggregated, s
  <2>9. /\ counted.aggr.n_adjs = n /\ counted.aggr.first = r.aggr.first
        /\ counted.aggr.cost = r.aggr.cost
    <3> HIDE DEF n
    <3> QED
      BY <1>1, <1>3, <2>3
  <2>10. n = Cardinality(AtLeast(counted, "Exst"))
    BY <1>10, <1>13, <2>4
  <2> HIDE DEF n, m, Y
  <2>11. ~counted.repriced => counted.aggr = t
    BY <1>3, <2>3, <2>7, <2>8
  <2>12. Aggregated(counted)
    <3>1. Scan(counted, Cardinality(AtLeast(counted, "Exst"))) = t
      BY <2>10 DEF t
    <3>2. counted.aggr.first = t.first
      BY <2>7, <2>8, <2>9
    <3>3. counted.lsa = IF t.first = NoLink THEN {} ELSE {<<t.first, counted.aggr.cost>>}
      BY <1>3, <2>3, <2>7, <2>8, <2>9
    <3> QED
      BY <2>9, <2>10, <2>11, <3>1, <3>2, <3>3 DEF Aggregated
  <2>13. Awaited(counted)
    BY <1>10, <1>11, <1>13, <2>4 DEF Awaited, Y
  <2> QED
    BY <1>3, <2>1, <2>2, <2>3, <2>12, <2>13 DEF c, e
<1>14. CASE PPAdjLimit # 0 /\ (NeedsScan(os, ns) \/ more)
  <2>1. c = IF a.cost # e.aggr.cost \/ a.first # e.aggr.first THEN rl_orig(scanned) ELSE scanned
    BY <1>4, <1>14
  <2>2. /\ a \in [n_adjs : Int, cost : Nat, first : 0..Links, mpath : SUBSET Link]
        /\ a.n_adjs = n
    BY <1>2, <1>10, ScanIs
  <2>3. two \subseteq Link /\ pend \subseteq Link /\ (more => two \subseteq pend)
    <3>1. e.pend \subseteq Link
      BY <1>2 DEF PPRecord
    <3>2. two \subseteq Link
      BY DEF AtLeast
    <3> HIDE DEF two, more
    <3> QED
      BY <3>1, <3>2
  <2> HIDE DEF a, pend
  <2>4. scanned \in PPRecord
    BY <1>2, <2>2, <2>3 DEF PPRecord
  <2>5. /\ scanned.st = e.st /\ scanned.cost = e.cost /\ scanned.pend = pend
        /\ scanned.rmt_init = e.rmt_init /\ scanned.lcl = e.lcl /\ scanned.rmt = e.rmt
        /\ scanned.others = e.others /\ scanned.lsa = e.lsa /\ scanned.repriced = FALSE
        /\ scanned.aggr = a
    BY <1>2 DEF PPRecord
  <2> HIDE DEF scanned, c
  <2>6. \A state : AtLeast(scanned, state) = AtLeast(e, state)
    BY <2>5 DEF AtLeast
  <2>7. n = Cardinality(AtLeast(scanned, "Exst"))
    BY <1>10, <1>14, <2>6
  <2>8. Scan(scanned, n) = a
    <3>1. Scan(scanned, n) = [Scan(e, n) EXCEPT !.n_adjs = n]
      <4> HIDE DEF n
      <4> QED
        BY <2>5, <2>6, ScanSame
    <3>2. a = Scan(e, n)
      BY DEF a
    <3> HIDE DEF n
    <3>3. Scan(scanned, n) = [a EXCEPT !.n_adjs = n]
      BY <3>1, <3>2
    <3> QED
      BY <2>2, <3>3
  <2> HIDE DEF n, two
  <2>9. c \in PPRecord /\ Aggregated(c) /\ c.st = scanned.st /\ c.pend = scanned.pend
        /\ c.rmt_init = scanned.rmt_init /\ c.lcl = scanned.lcl /\ c.rmt = scanned.rmt
        /\ c.others = scanned.others
    <3>1. CASE a.cost # e.aggr.cost \/ a.first # e.aggr.first
      <4>1. c = rl_orig(scanned)
        BY <2>1, <3>1
      <4>2. /\ scanned.aggr.n_adjs = Cardinality(AtLeast(scanned, "Exst"))
            /\ scanned.aggr.first = Scan(scanned, Cardinality(AtLeast(scanned, "Exst"))).first
            /\ scanned.aggr = Scan(scanned, Cardinality(AtLeast(scanned, "Exst")))
        BY <2>2, <2>5, <2>7, <2>8
      <4> QED
        BY <1>14, <2>4, <4>1, <4>2, RebuiltSound
    <3>2. CASE a.cost = e.aggr.cost /\ a.first = e.aggr.first
      <4>1. c = scanned
        BY <2>1, <3>2
      <4>2. /\ r.aggr.first = Scan(r, Cardinality(X)).first
            /\ r.lsa = IF Scan(r, Cardinality(X)).first = NoLink THEN {}
                       ELSE {<<Scan(r, Cardinality(X)).first, r.aggr.cost>>}
        BY <1>14 DEF Aggregated
      <4>3. scanned.lsa = IF a.first = NoLink THEN {} ELSE {<<a.first, a.cost>>}
        BY <1>3, <2>5, <3>2, <4>2
      <4>4. Aggregated(scanned)
        BY <2>2, <2>5, <2>7, <2>8, <4>3 DEF Aggregated
      <4> QED
        BY <2>4, <4>1, <4>4
    <3> QED
      BY <3>1, <3>2
  <2>10. Awaited(c)
    <3>1. \A state : AtLeast(c, state) = AtLeast(e, state)
      BY <2>6, <2>9 DEF AtLeast
    <3>2. decides /\ Cardinality(AtLeast(e, "Exst")) < PPAdjLimit => more
      BY <2>6, <2>7
    <3>3. more => two \subseteq c.pend
      BY <2>3, <2>5, <2>9
    <3> HIDE DEF more
    <3> QED
      BY <3>1, <3>2, <3>3 DEF Awaited, two
  <2> QED
    BY <1>3, <2>5, <2>9, <2>10 DEF c, e
<1> QED
  BY <1>12, <1>13, <1>14

(* The pending list alone. *)
LEMMA PendSound ==
  ASSUME NEW r \in PPRecord, NEW P \in SUBSET Link
  PROVE  LET c == [r EXCEPT !.pend = P]
         IN  /\ c \in PPRecord /\ (Aggregated(r) => Aggregated(c))
             /\ c.pend = P /\ c.st = r.st /\ c.rmt_init = r.rmt_init /\ c.aggr = r.aggr
             /\ c.lcl = r.lcl /\ c.rmt = r.rmt /\ c.others = r.others
<1> DEFINE c == [r EXCEPT !.pend = P]
<1>1. c \in PPRecord
  BY DEF PPRecord
<1>2. /\ c.pend = P /\ c.st = r.st /\ c.rmt_init = r.rmt_init /\ c.aggr = r.aggr
      /\ c.lcl = r.lcl /\ c.rmt = r.rmt /\ c.others = r.others
      /\ c.cost = r.cost /\ c.lsa = r.lsa /\ c.repriced = r.repriced
  BY DEF PPRecord
<1> HIDE DEF c
<1>3. \A state : AtLeast(c, state) = AtLeast(r, state)
  BY <1>2 DEF AtLeast
<1>4. ASSUME NEW n
      PROVE  Scan(c, n) = Scan(r, n)
  BY <1>2, <1>3, SameScan
<1>5. Aggregated(r) => Aggregated(c)
  BY <1>2, <1>3, <1>4 DEF Aggregated
<1> QED
  BY <1>1, <1>2, <1>5 DEF c

(* What leaves the slots in the hands of the busy links b. *)
SlotsFor(r, b) ==
  /\ r.rmt_init \subseteq b /\ r.rmt = Cardinality(r.rmt_init)
  /\ r.lcl = r.others + Cardinality(b \ r.rmt_init)

LEMMA ExitSound ==
  ASSUME NEW r \in PPRecord, NEW l \in Link
  PROVE  LET c == exit_dbxchg(r, l)
         IN  /\ c \in PPRecord /\ (Aggregated(r) => Aggregated(c))
             /\ c.st = r.st /\ c.pend = r.pend /\ c.others = r.others /\ c.aggr = r.aggr
             /\ c.rmt_init = r.rmt_init \ {l}
             /\ c.rmt = IF l \in r.rmt_init THEN r.rmt - 1 ELSE r.rmt
             /\ c.lcl = IF l \in r.rmt_init THEN r.lcl ELSE r.lcl - 1
             /\ c.repriced = r.repriced
<1> DEFINE c == exit_dbxchg(r, l)
<1>1. c \in PPRecord
  <2>1. CASE l \in r.rmt_init
    <3> DEFINE m == r.rmt - 1
               J == r.rmt_init \ {l}
    <3>1. c = [r EXCEPT !.rmt = m, !.rmt_init = J]
      BY <2>1 DEF exit_dbxchg
    <3>2. m \in Int /\ J \in SUBSET Link
      BY DEF PPRecord
    <3> HIDE DEF c, m, J
    <3> QED
      BY <3>1, <3>2 DEF PPRecord
  <2>2. CASE l \notin r.rmt_init
    <3>1. c = [r EXCEPT !.lcl = @ - 1]
      BY <2>2 DEF exit_dbxchg
    <3> HIDE DEF c
    <3> QED
      BY <3>1 DEF PPRecord
  <2> QED
    BY <2>1, <2>2
<1>2. /\ c.st = r.st /\ c.pend = r.pend /\ c.others = r.others /\ c.aggr = r.aggr
      /\ c.rmt_init = r.rmt_init \ {l}
      /\ c.rmt = IF l \in r.rmt_init THEN r.rmt - 1 ELSE r.rmt
      /\ c.lcl = IF l \in r.rmt_init THEN r.lcl ELSE r.lcl - 1
      /\ c.cost = r.cost /\ c.lsa = r.lsa /\ c.repriced = r.repriced
  <2>1. CASE l \in r.rmt_init
    <3>1. c = [r EXCEPT !.rmt = @ - 1, !.rmt_init = @ \ {l}]
      BY <2>1 DEF exit_dbxchg
    <3> HIDE DEF c
    <3> QED
      BY <2>1, <3>1 DEF PPRecord
  <2>2. CASE l \notin r.rmt_init
    <3>1. c = [r EXCEPT !.lcl = @ - 1]
      BY <2>2 DEF exit_dbxchg
    <3>2. r.rmt_init \ {l} = r.rmt_init
      BY <2>2
    <3> HIDE DEF c
    <3> QED
      BY <2>2, <3>1, <3>2 DEF PPRecord
  <2> QED
    BY <2>1, <2>2
<1> HIDE DEF c
<1>3. \A state : AtLeast(c, state) = AtLeast(r, state)
  BY <1>2 DEF AtLeast
<1>4. ASSUME NEW n
      PROVE  Scan(c, n) = Scan(r, n)
  BY <1>2, <1>3, SameScan
<1>5. Aggregated(r) => Aggregated(c)
  BY <1>2, <1>3, <1>4 DEF Aggregated
<1> QED
  BY <1>1, <1>2, <1>5 DEF c

(* nbr_fsm() of link l, when the state changes; only an exchange that is   *)
(* over can make it Full.                                                  *)
LEMMA EnterSound ==
  ASSUME decides \in BOOLEAN, NEW r \in PPRecord, PPAdjLimit # 0 => Aggregated(r),
         NEW l \in Link, NEW ns \in LinkState, ns # r.st[l], ns = "Full" => r.st[l] = "Exst"
  PROVE  LET c == Enter(r, l, ns)
         IN  /\ c \in PPRecord /\ (PPAdjLimit # 0 => Aggregated(c)) /\ Awaited(c)
             /\ c.st = [r.st EXCEPT ![l] = ns] /\ c.others = r.others
             /\ r.st[l] # "Exst" => /\ c.rmt_init = r.rmt_init
                                    /\ c.lcl = r.lcl /\ c.rmt = r.rmt
             /\ r.st[l] = "Exst" =>
                  /\ c.rmt_init = r.rmt_init \ {l}
                  /\ c.rmt = IF l \in r.rmt_init THEN r.rmt - 1 ELSE r.rmt
                  /\ c.lcl = IF l \in r.rmt_init THEN r.lcl ELSE r.lcl - 1
<1> DEFINE os == r.st[l]
           e  == [r EXCEPT !.st[l] = ns]
           a  == adj_change(e, os, ns)
           x  == exit_dbxchg(a, l)
           c  == Enter(r, l, ns)
<1>1. c = IF ns = "Full" THEN rl_orig(x)
          ELSE IF os = "Full" THEN rl_orig(a)
          ELSE IF os = "Exst" THEN x
          ELSE a
  BY DEF Enter
<1>2. /\ a \in PPRecord /\ (PPAdjLimit # 0 => Aggregated(a))
      /\ Awaited(a)
      /\ a.st = [r.st EXCEPT ![l] = ns] /\ a.rmt_init = r.rmt_init
      /\ a.lcl = r.lcl /\ a.rmt = r.rmt /\ a.others = r.others
  BY AdjChangeSound
<1> HIDE DEF a
<1>3. /\ x \in PPRecord /\ (Aggregated(a) => Aggregated(x))
      /\ x.st = a.st /\ x.pend = a.pend /\ x.others = a.others
      /\ x.rmt_init = a.rmt_init \ {l}
      /\ x.rmt = IF l \in a.rmt_init THEN a.rmt - 1 ELSE a.rmt
      /\ x.lcl = IF l \in a.rmt_init THEN a.lcl ELSE a.lcl - 1
  BY <1>2, ExitSound
<1> HIDE DEF x
<1>4. ASSUME NEW y \in PPRecord, PPAdjLimit # 0 => Aggregated(y)
      PROVE  LET z == rl_orig(y)
             IN  /\ z \in PPRecord /\ (PPAdjLimit # 0 => Aggregated(z))
                 /\ z.st = y.st /\ z.pend = y.pend /\ z.rmt_init = y.rmt_init
                 /\ z.lcl = y.lcl /\ z.rmt = y.rmt /\ z.others = y.others
  <2>1. PPAdjLimit # 0 => /\ y.aggr.n_adjs = Cardinality(AtLeast(y, "Exst"))
                          /\ y.aggr.first = Scan(y, Cardinality(AtLeast(y, "Exst"))).first
                          /\ ~y.repriced => y.aggr = Scan(y, Cardinality(AtLeast(y, "Exst")))
    BY <1>4 DEF Aggregated
  <2> QED
    BY <2>1, RebuiltSound
<1>5. ASSUME NEW y, y.st = a.st, y.pend = a.pend
      PROVE  Awaited(y)
  <2>1. \A state : AtLeast(y, state) = AtLeast(a, state)
    BY <1>5 DEF AtLeast
  <2> QED
    BY <1>2, <1>5, <2>1 DEF Awaited
<1>6. CASE ns = "Full"
  <2>1. c = rl_orig(x)
    BY <1>1, <1>6
  <2>2. /\ c \in PPRecord /\ (PPAdjLimit # 0 => Aggregated(c))
        /\ c.st = x.st /\ c.pend = x.pend /\ c.rmt_init = x.rmt_init
        /\ c.lcl = x.lcl /\ c.rmt = x.rmt /\ c.others = x.others
    BY <1>2, <1>3, <1>4, <2>1
  <2> HIDE DEF c
  <2>3. Awaited(c)
    BY <1>3, <1>5, <2>2
  <2> QED
    BY <1>2, <1>3, <1>6, <2>2, <2>3 DEF c
<1>7. CASE ns # "Full" /\ os = "Full"
  <2>1. c = rl_orig(a)
    BY <1>1, <1>7
  <2>2. /\ c \in PPRecord /\ (PPAdjLimit # 0 => Aggregated(c))
        /\ c.st = a.st /\ c.pend = a.pend /\ c.rmt_init = a.rmt_init
        /\ c.lcl = a.lcl /\ c.rmt = a.rmt /\ c.others = a.others
    BY <1>2, <1>4, <2>1
  <2> HIDE DEF c
  <2>3. Awaited(c)
    BY <1>5, <2>2
  <2> QED
    BY <1>2, <1>7, <2>2, <2>3 DEF c
<1>8. CASE ns # "Full" /\ os = "Exst"
  <2>1. c = x
    BY <1>1, <1>8
  <2>2. Awaited(x)
    BY <1>3, <1>5
  <2> HIDE DEF c
  <2> QED
    BY <1>2, <1>3, <1>8, <2>1, <2>2 DEF c
<1>9. CASE ns # "Full" /\ os \notin {"Full", "Exst"}
  <2>1. c = a
    BY <1>1, <1>9
  <2> HIDE DEF c
  <2> QED
    BY <1>2, <1>9, <2>1 DEF c
<1> QED
  BY <1>6, <1>7, <1>8, <1>9

LEMMA EnterKeeps ==
  ASSUME decides \in BOOLEAN, NEW r \in PPRecord, PPAdjLimit # 0 => Aggregated(r),
         NEW l \in Link, NEW ns \in LinkState, ns # r.st[l], ns = "Full" => r.st[l] = "Exst",
         SlotsFor(r, IF ns = "Exst" THEN Busy(r) \cup {l} ELSE Busy(r))
  PROVE  PPInv(Enter(r, l, ns))
<1> DEFINE os == r.st[l]
           c  == Enter(r, l, ns)
<1>1. /\ c \in PPRecord /\ (PPAdjLimit # 0 => Aggregated(c)) /\ Awaited(c)
      /\ c.st = [r.st EXCEPT ![l] = ns] /\ c.others = r.others
      /\ os # "Exst" => c.rmt_init = r.rmt_init /\ c.lcl = r.lcl /\ c.rmt = r.rmt
      /\ os = "Exst" =>
           /\ c.rmt_init = r.rmt_init \ {l}
           /\ c.rmt = IF l \in r.rmt_init THEN r.rmt - 1 ELSE r.rmt
           /\ c.lcl = IF l \in r.rmt_init THEN r.lcl ELSE r.lcl - 1
  BY EnterSound
<1> HIDE DEF c
<1>2. r.st \in [Link -> LinkState] /\ c.st \in [Link -> LinkState]
  BY <1>1 DEF PPRecord
<1>3. Busy(r) = {k \in Link : r.st[k] = "Exst"} /\ Busy(c) = {k \in Link : c.st[k] = "Exst"}
  BY <1>2, AtLeastIs DEF Busy
<1>4. Busy(c) = IF ns = "Exst" THEN Busy(r) \cup {l} ELSE Busy(r) \ {l}
  BY <1>1, <1>2, <1>3
<1>5. os = "Exst" <=> l \in Busy(r)
  BY <1>3
<1>6. r.rmt_init \subseteq Link /\ Busy(r) \subseteq Link
  BY <1>3 DEF PPRecord
<1> DEFINE B == Busy(r)
           I == r.rmt_init
<1>7. IsFiniteSet(I) /\ Cardinality(I) \in Nat
  BY <1>6, LinksAreFinite
<1>8. IsFiniteSet(B \ I) /\ Cardinality(B \ I) \in Nat
  <2>1. B \ I \subseteq Link
    BY <1>6
  <2> QED
    BY <2>1, LinksAreFinite
<1>9. r.others \in Nat /\ r.lcl \in Int /\ r.rmt \in Int
  BY DEF PPRecord
<1>10. Slots(c)
  <2>1. CASE os # "Exst"
    <3>1. l \notin B /\ c.rmt_init = r.rmt_init /\ c.lcl = r.lcl /\ c.rmt = r.rmt
      BY <1>1, <1>5, <2>1
    <3>2. Busy(c) = IF ns = "Exst" THEN Busy(r) \cup {l} ELSE Busy(r)
      BY <1>4, <3>1
    <3> QED
      BY <1>1, <3>1, <3>2 DEF Slots, SlotsFor
  <2>2. CASE os = "Exst" /\ l \in I
    <3>1. ns # "Exst" /\ Busy(c) = B \ {l} /\ c.rmt_init = I \ {l} /\ c.rmt = r.rmt - 1 /\ c.lcl = r.lcl
      BY <1>1, <1>4, <2>2
    <3>2. I \subseteq B /\ r.rmt = Cardinality(I) /\ r.lcl = r.others + Cardinality(B \ I)
      BY <3>1 DEF SlotsFor
    <3>3. Cardinality(I \ {l}) = Cardinality(I) - 1
      BY <1>7, <2>2, FS_RemoveElement
    <3>4. I \ {l} \subseteq B \ {l} /\ (B \ {l}) \ (I \ {l}) = B \ I
      BY <2>2, <3>2
    <3> HIDE DEF B, I
    <3> QED
      BY <1>1, <3>1, <3>2, <3>3, <3>4 DEF Slots
  <2>3. CASE os = "Exst" /\ l \notin I
    <3>1. ns # "Exst" /\ Busy(c) = B \ {l} /\ c.rmt_init = I \ {l} /\ c.rmt = r.rmt /\ c.lcl = r.lcl - 1
      BY <1>1, <1>4, <2>3
    <3>2. I \subseteq B /\ r.rmt = Cardinality(I) /\ r.lcl = r.others + Cardinality(B \ I)
      BY <3>1 DEF SlotsFor
    <3>3. l \in B \ I /\ I \ {l} = I /\ (B \ {l}) \ I = (B \ I) \ {l} /\ I \subseteq B \ {l}
      BY <1>5, <2>3, <3>2
    <3> DEFINE D == B \ I
    <3>4. Cardinality(D \ {l}) = Cardinality(D) - 1
      BY <1>8, <3>3, FS_RemoveElement
    <3>5. r.lcl - 1 = r.others + (Cardinality(D) - 1)
      <4> HIDE DEF D
      <4>1. r.lcl = r.others + Cardinality(D) /\ Cardinality(D) \in Nat
        BY <1>8, <3>2 DEF D
      <4> QED
        BY <1>9, <4>1
    <3>6. c.lcl = c.others + Cardinality(Busy(c) \ c.rmt_init)
      <4>1. Busy(c) \ c.rmt_init = D \ {l}
        BY <3>1, <3>3
      <4> HIDE DEF D
      <4> QED
        BY <1>1, <3>1, <3>4, <3>5, <4>1
    <3> QED
      BY <3>1, <3>2, <3>3, <3>6 DEF Slots
  <2> QED
    BY <2>1, <2>2, <2>3
<1> QED
  BY <1>1, <1>10 DEF PPInv, c

(* Link l may be 2-Way and not pending. *)
AwaitedBut(r, l) ==
  decides /\ Cardinality(AtLeast(r, "Exst")) < PPAdjLimit =>
    AtLeast(r, "TwoWay") \ AtLeast(r, "Exst") \subseteq r.pend \cup {l}

LEMMA SlotsPend ==
  ASSUME NEW r, NEW c, c.st = r.st, c.rmt_init = r.rmt_init,
         c.lcl = r.lcl, c.rmt = r.rmt, c.others = r.others
  PROVE  Busy(c) = Busy(r) /\ \A b : SlotsFor(c, b) <=> SlotsFor(r, b)
BY DEF Busy, AtLeast, SlotsFor

LEMMA PendKeeps ==
  ASSUME decides \in BOOLEAN, PPInv(pp), NEW P \in SUBSET Link
  PROVE  LET c == [pp EXCEPT !.pend = P]
         IN  /\ c \in PPRecord /\ (PPAdjLimit # 0 => Aggregated(c))
             /\ SlotsFor(c, Busy(c)) /\ c.st = pp.st /\ c.pend = P
<1> DEFINE c == [pp EXCEPT !.pend = P]
<1>1. pp \in PPRecord /\ (PPAdjLimit # 0 => Aggregated(pp)) /\ SlotsFor(pp, Busy(pp))
  BY DEF PPInv, Slots, SlotsFor
<1>2. /\ c \in PPRecord /\ (Aggregated(pp) => Aggregated(c))
      /\ c.pend = P /\ c.st = pp.st /\ c.rmt_init = pp.rmt_init /\ c.aggr = pp.aggr
      /\ c.lcl = pp.lcl /\ c.rmt = pp.rmt /\ c.others = pp.others
  BY <1>1, PendSound
<1> HIDE DEF c
<1>3. Busy(c) = Busy(pp) /\ (SlotsFor(c, Busy(pp)) <=> SlotsFor(pp, Busy(pp)))
  BY <1>2, SlotsPend
<1> QED
  BY <1>1, <1>2, <1>3 DEF c

(* A state that is entered again changes nothing. *)
LEMMA EnterSame ==
  ASSUME NEW r \in PPRecord, NEW l \in Link
  PROVE  Enter(r, l, r.st[l]) = r
<1>1. [r EXCEPT !.st[l] = r.st[l]] = r
  BY DEF PPRecord
<1> QED
  BY <1>1 DEF Enter, adj_change

LEMMA Eval1Keeps ==
  ASSUME decides \in BOOLEAN, NEW r \in PPRecord, PPAdjLimit # 0 => Aggregated(r),
         SlotsFor(r, Busy(r)), NEW l \in Link, r.st[l] \in {"Init", "TwoWay"}, AwaitedBut(r, l)
  PROVE  PPInv(nba_eval1(r, l))
<1> DEFINE less == DelPendAdj(r, l)
           more == AddPendAdj(r, l)
           slot == [less EXCEPT !.lcl = @ + 1]
<1>1. r.st \in [Link -> LinkState] /\ r.pend \in SUBSET Link /\ r.lcl \in Int
  BY DEF PPRecord
<1>2. /\ less \in PPRecord /\ (Aggregated(r) => Aggregated(less))
      /\ less.pend = r.pend \ {l} /\ less.st = r.st /\ less.rmt_init = r.rmt_init
      /\ less.aggr = r.aggr /\ less.lcl = r.lcl /\ less.rmt = r.rmt /\ less.others = r.others
  <2>1. r.pend \ {l} \in SUBSET Link
    BY <1>1
  <2> QED
    BY <2>1, PendSound DEF DelPendAdj
<1>3. /\ more \in PPRecord /\ (Aggregated(r) => Aggregated(more))
      /\ more.pend = r.pend \cup {l} /\ more.st = r.st /\ more.rmt_init = r.rmt_init
      /\ more.aggr = r.aggr /\ more.lcl = r.lcl /\ more.rmt = r.rmt /\ more.others = r.others
  <2>1. r.pend \cup {l} \in SUBSET Link
    BY <1>1
  <2> QED
    BY <2>1, PendSound DEF AddPendAdj
<1> HIDE DEF less, more
<1>4. Busy(less) = Busy(r) /\ SlotsFor(less, Busy(less))
  BY <1>2, SlotsPend
<1>5. Busy(more) = Busy(r) /\ SlotsFor(more, Busy(more))
  BY <1>3, SlotsPend
<1>6. ASSUME NEW c \in PPRecord, c.st = r.st, PPAdjLimit # 0 => Aggregated(c),
             SlotsFor(c, Busy(c)), Awaited(c) \/ r.st[l] # "TwoWay"
      PROVE  PPInv(Enter(c, l, "TwoWay"))
  <2>1. CASE r.st[l] = "TwoWay"
    <3>1. Enter(c, l, "TwoWay") = c
      BY <1>6, <2>1, EnterSame
    <3> QED
      BY <1>6, <2>1, <3>1 DEF PPInv, Slots, SlotsFor
  <2>2. CASE r.st[l] # "TwoWay"
    <3>1. "TwoWay" \in LinkState /\ "TwoWay" # c.st[l]
      BY <1>6, <2>2 DEF LinkState
    <3> QED
      BY <1>6, <3>1, EnterKeeps
  <2> QED
    BY <2>1, <2>2
<1>7. CASE ~more_adjacencies_needed(r)
  <2>1. nba_eval1(r, l) = Enter(less, l, "TwoWay")
    BY <1>7 DEF nba_eval1, less
  <2>2. Awaited(less)
    <3>1. PPAdjLimit # 0 /\ ~(decides /\ r.aggr.n_adjs < PPAdjLimit)
      BY <1>7 DEF more_adjacencies_needed
    <3>2. r.aggr.n_adjs = Cardinality(AtLeast(r, "Exst"))
      BY <3>1 DEF Aggregated
    <3>3. AtLeast(less, "Exst") = AtLeast(r, "Exst")
      BY <1>2 DEF AtLeast
    <3> QED
      BY <3>1, <3>2, <3>3 DEF Awaited
  <2> QED
    BY <1>2, <1>4, <1>6, <2>1, <2>2
<1>8. CASE more_adjacencies_needed(r) /\ ~(r.lcl < max_dds)
  <2>1. nba_eval1(r, l) = Enter(more, l, "TwoWay")
    BY <1>8 DEF nba_eval1, more
  <2>2. Awaited(more)
    <3>1. \A state : AtLeast(more, state) = AtLeast(r, state)
      BY <1>3 DEF AtLeast
    <3> QED
      BY <1>3, <3>1 DEF Awaited, AwaitedBut
  <2> QED
    BY <1>3, <1>5, <1>6, <2>1, <2>2
<1>9. CASE more_adjacencies_needed(r) /\ r.lcl < max_dds
  <2>1. nba_eval1(r, l) = Enter(slot, l, "Exst")
    BY <1>9 DEF nba_eval1, less
  <2> DEFINE m == r.lcl + 1
  <2>2. slot = [less EXCEPT !.lcl = m]
    BY <1>2
  <2>3. m \in Int
    BY <1>1
  <2> HIDE DEF m, slot
  <2>4. slot \in PPRecord
    BY <1>2, <2>2, <2>3 DEF PPRecord
  <2>5. /\ slot.st = r.st /\ slot.rmt_init = r.rmt_init /\ slot.aggr = less.aggr /\ slot.cost = less.cost
        /\ slot.lsa = less.lsa /\ slot.repriced = less.repriced
        /\ slot.lcl = m /\ slot.rmt = r.rmt /\ slot.others = r.others
    BY <1>2, <2>2 DEF PPRecord
  <2>6. \A state : AtLeast(slot, state) = AtLeast(less, state)
    BY <1>2, <2>5 DEF AtLeast
  <2>7. ASSUME NEW k
        PROVE  Scan(slot, k) = Scan(less, k)
    BY <2>5, <2>6, SameScan
  <2>8. PPAdjLimit # 0 => Aggregated(slot)
    BY <1>2, <2>5, <2>6, <2>7 DEF Aggregated
  <2> DEFINE B == Busy(r)
             I == r.rmt_init
  <2>9. l \notin B /\ Busy(slot) = B /\ B \subseteq Link
    <3>1. B = {k \in Link : r.st[k] = "Exst"}
      BY <1>1, AtLeastIs DEF Busy
    <3>2. Busy(slot) = B
      BY <1>4, <2>6 DEF Busy
    <3> QED
      BY <3>1, <3>2
  <2>10. SlotsFor(slot, B \cup {l})
    <3>1. I \subseteq B /\ r.rmt = Cardinality(I) /\ r.lcl = r.others + Cardinality(B \ I)
      BY DEF SlotsFor
    <3>2. (B \cup {l}) \ I = (B \ I) \cup {l} /\ l \notin B \ I /\ B \ I \subseteq Link
      BY <2>9, <3>1
    <3> DEFINE D == B \ I
    <3>3. IsFiniteSet(D) /\ Cardinality(D) \in Nat
      BY <3>2, LinksAreFinite
    <3>4. Cardinality(D \cup {l}) = Cardinality(D) + 1
      BY <3>2, <3>3, FS_AddElement
    <3>5. m = r.others + (Cardinality(D) + 1)
      <4>1. r.others \in Nat /\ r.lcl = r.others + Cardinality(D)
        BY <3>1 DEF PPRecord
      <4> HIDE DEF D
      <4> QED
        BY <3>3, <4>1 DEF m
    <3>6. m = r.others + Cardinality(D \cup {l})
      <4> HIDE DEF D
      <4> QED
        BY <3>4, <3>5
    <3> QED
      BY <2>5, <3>1, <3>2, <3>6 DEF SlotsFor
  <2>11. "Exst" \in LinkState /\ "Exst" # slot.st[l]
    BY <2>5 DEF LinkState
  <2>12. SlotsFor(slot, Busy(slot) \cup {l})
    BY <2>9, <2>10
  <2> HIDE DEF B, I
  <2> QED
    BY <2>1, <2>4, <2>8, <2>11, <2>12, EnterKeeps
<1> QED
  BY <1>7, <1>8, <1>9

LEMMA Eval2Keeps ==
  ASSUME decides \in BOOLEAN, NEW r, PPInv(r), NEW l \in Link, r.st[l] \in {"Init", "TwoWay"}
  PROVE  PPInv(nba_eval2(r, l))
<1> DEFINE less == DelPendAdj(r, l)
           more == AddPendAdj(r, l)
           slot == [less EXCEPT !.rmt = @ + 1, !.rmt_init = @ \cup {l}]
<1>1. /\ r \in PPRecord /\ r.st \in [Link -> LinkState] /\ r.pend \in SUBSET Link /\ r.rmt \in Int
      /\ r.rmt_init \in SUBSET Link
  BY DEF PPRecord, PPInv
<1>2. /\ less \in PPRecord /\ (Aggregated(r) => Aggregated(less))
      /\ less.pend = r.pend \ {l} /\ less.st = r.st /\ less.rmt_init = r.rmt_init
      /\ less.aggr = r.aggr /\ less.lcl = r.lcl /\ less.rmt = r.rmt /\ less.others = r.others
  <2>1. r.pend \ {l} \in SUBSET Link
    BY <1>1
  <2> QED
    BY <1>1, <2>1, PendSound DEF DelPendAdj
<1>3. /\ more \in PPRecord /\ (Aggregated(r) => Aggregated(more))
      /\ more.pend = r.pend \cup {l} /\ more.st = r.st /\ more.rmt_init = r.rmt_init
      /\ more.aggr = r.aggr /\ more.lcl = r.lcl /\ more.rmt = r.rmt /\ more.others = r.others
  <2>1. r.pend \cup {l} \in SUBSET Link
    BY <1>1
  <2> QED
    BY <1>1, <2>1, PendSound DEF AddPendAdj
<1> HIDE DEF less, more
<1>4. CASE ~(r.rmt < max_dds)
  <2>1. nba_eval2(r, l) = Enter(more, l, "TwoWay")
    BY <1>4 DEF nba_eval2, more
  <2>2. Busy(more) = Busy(r) /\ SlotsFor(more, Busy(more))
    BY <1>3, SlotsPend DEF PPInv, Slots, SlotsFor
  <2>3. Awaited(more)
    <3>1. \A state : AtLeast(more, state) = AtLeast(r, state)
      BY <1>3 DEF AtLeast
    <3> QED
      BY <1>3, <3>1 DEF Awaited, PPInv
  <2>4. PPAdjLimit # 0 => Aggregated(more)
    BY <1>3 DEF PPInv
  <2>5. CASE r.st[l] = "TwoWay"
    <3>1. Enter(more, l, "TwoWay") = more
      BY <1>3, <2>5, EnterSame
    <3> QED
      BY <1>3, <2>1, <2>2, <2>3, <2>4, <3>1 DEF PPInv, Slots, SlotsFor
  <2>6. CASE r.st[l] # "TwoWay"
    <3>1. "TwoWay" \in LinkState /\ "TwoWay" # more.st[l]
      BY <1>3, <2>6 DEF LinkState
    <3> QED
      BY <1>3, <2>1, <2>2, <2>4, <3>1, EnterKeeps
  <2> QED
    BY <2>5, <2>6
<1>5. CASE r.rmt < max_dds
  <2>1. nba_eval2(r, l) = Enter(slot, l, "Exst")
    BY <1>5 DEF nba_eval2, less
  <2> DEFINE m == r.rmt + 1
             J == r.rmt_init \cup {l}
  <2>2. slot = [less EXCEPT !.rmt = m, !.rmt_init = J]
    BY <1>2
  <2>3. m \in Int /\ J \in SUBSET Link
    BY <1>1
  <2> HIDE DEF m, J, slot
  <2>4. slot \in PPRecord
    BY <1>2, <2>2, <2>3 DEF PPRecord
  <2>5. /\ slot.st = r.st /\ slot.rmt_init = J /\ slot.aggr = less.aggr /\ slot.cost = less.cost
        /\ slot.lsa = less.lsa /\ slot.repriced = less.repriced
        /\ slot.lcl = r.lcl /\ slot.rmt = m /\ slot.others = r.others
    BY <1>2, <2>2 DEF PPRecord
  <2>6. \A state : AtLeast(slot, state) = AtLeast(less, state)
    BY <1>2, <2>5 DEF AtLeast
  <2>7. ASSUME NEW k
        PROVE  Scan(slot, k) = Scan(less, k)
    BY <2>5, <2>6, SameScan
  <2>8. PPAdjLimit # 0 => Aggregated(slot)
    BY <1>2, <2>5, <2>6, <2>7 DEF Aggregated, PPInv
  <2> DEFINE B == Busy(r)
             I == r.rmt_init
  <2>9. l \notin B /\ Busy(slot) = B
    <3>1. B = {k \in Link : r.st[k] = "Exst"}
      BY <1>1, AtLeastIs DEF Busy
    <3>2. Busy(slot) = B
      BY <1>2, <2>6 DEF Busy, AtLeast
    <3> QED
      BY <3>1, <3>2
  <2>10. SlotsFor(slot, B \cup {l})
    <3>1. I \subseteq B /\ r.rmt = Cardinality(I) /\ r.lcl = r.others + Cardinality(B \ I)
      BY DEF PPInv, Slots
    <3>2. J \subseteq B \cup {l} /\ (B \cup {l}) \ J = B \ I /\ l \notin I
      BY <2>9, <3>1 DEF J
    <3>3. IsFiniteSet(I)
      BY <1>1, LinksAreFinite
    <3>4. Cardinality(J) = Cardinality(I) + 1
      BY <3>2, <3>3, FS_AddElement DEF J
    <3> HIDE DEF B, I
    <3>5. m = Cardinality(J)
      BY <3>1, <3>4 DEF m
    <3> QED
      BY <2>5, <3>1, <3>2, <3>5 DEF SlotsFor
  <2>11. "Exst" \in LinkState /\ "Exst" # slot.st[l]
    BY <2>5 DEF LinkState
  <2>12. SlotsFor(slot, Busy(slot) \cup {l})
    BY <2>9, <2>10
  <2> HIDE DEF B, I
  <2> QED
    BY <2>1, <2>4, <2>8, <2>11, <2>12, EnterKeeps
<1> QED
  BY <1>4, <1>5

LEMMA LinksInitSound == LinksInit => LinksInvariant
<1> SUFFICES ASSUME LinksInit
             PROVE  LinksInvariant
  OBVIOUS
<1>1. PICK c \in [Link -> Costs] :
        pp = [st |-> [l \in Link |-> "Down"], cost |-> c,
              pend |-> {}, rmt_init |-> {}, lcl |-> 0, rmt |-> 0, others |-> 0,
              aggr |-> [n_adjs |-> 0, cost |-> 0, first |-> NoLink, mpath |-> {}],
              lsa |-> {}, repriced |-> FALSE]
  BY DEF LinksInit
<1>2. pp \in PPRecord
  <2>1. [n_adjs |-> 0, cost |-> 0, first |-> NoLink, mpath |-> {}]
          \in [n_adjs : Int, cost : Nat, first : 0..Links, mpath : SUBSET Link]
    BY PPAdjAssumption DEF NoLink
  <2> QED
    BY <1>1, <2>1 DEF PPRecord, LinkState
<1>3. pp.st \in [Link -> LinkState] /\ \A l \in Link : pp.st[l] = "Down"
  BY <1>1, <1>2 DEF PPRecord
<1>4. AtLeast(pp, "TwoWay") = {} /\ AtLeast(pp, "Exst") = {} /\ AtLeast(pp, "Full") = {}
  BY <1>3, AtLeastIs
<1>5. Cardinality({}) = 0
  BY FS_EmptySet
<1>6. Scan(pp, 0) = [n_adjs |-> 0, cost |-> 0, first |-> NoLink, mpath |-> {}]
  BY <1>4 DEF Scan
<1>7. Aggregated(pp)
  <2>1. /\ pp.aggr = [n_adjs |-> 0, cost |-> 0, first |-> NoLink, mpath |-> {}]
        /\ pp.lsa = {} /\ Cardinality(AtLeast(pp, "Exst")) = 0
    BY <1>1, <1>4, <1>5
  <2> QED
    BY <1>6, <2>1 DEF Aggregated
<1>8. Awaited(pp)
  BY <1>4 DEF Awaited
<1>9. Slots(pp)
  <2>1. pp.rmt_init = {} /\ pp.lcl = 0 /\ pp.rmt = 0 /\ pp.others = 0 /\ Busy(pp) = {}
    BY <1>1, <1>4 DEF Busy
  <2> QED
    BY <1>5, <2>1 DEF Slots
<1> QED
  BY <1>2, <1>7, <1>8, <1>9 DEF LinksInvariant, PPInv, LinksInit

(* A cost that is configured anew reaches the LSA of an aggregate only by  *)
(* the next scan.                                                          *)
LEMMA CfgCostKeeps ==
  ASSUME LinksInvariant, NEW l \in Link, CfgCost(l)
  PROVE  PPInv(pp')
<1>1. PICK c \in Costs \ {pp.cost[l]} : pp' = rl_orig([pp EXCEPT !.cost[l] = c, !.repriced = TRUE])
  BY DEF CfgCost
<1> DEFINE e == [pp EXCEPT !.cost[l] = c, !.repriced = TRUE]
<1>2. pp \in PPRecord /\ (PPAdjLimit # 0 => Aggregated(pp)) /\ Awaited(pp) /\ Slots(pp)
  BY DEF LinksInvariant, PPInv
<1>3. e \in PPRecord
  BY <1>2 DEF PPRecord
<1>4. /\ e.st = pp.st /\ e.pend = pp.pend /\ e.rmt_init = pp.rmt_init /\ e.lcl = pp.lcl
      /\ e.rmt = pp.rmt /\ e.others = pp.others /\ e.aggr = pp.aggr /\ e.repriced = TRUE
  BY <1>2 DEF PPRecord
<1>5. pp' = rl_orig(e)
  BY <1>1
<1> HIDE DEF e
<1>6. \A state : AtLeast(e, state) = AtLeast(pp, state)
  BY <1>4 DEF AtLeast
<1> DEFINE n == Cardinality(AtLeast(pp, "Exst"))
<1>7. Scan(e, n).first = Scan(pp, n).first
  <2> HIDE DEF n
  <2> QED
    BY <1>6 DEF Scan
<1>8. PPAdjLimit # 0 => /\ e.aggr.n_adjs = Cardinality(AtLeast(e, "Exst"))
                        /\ e.aggr.first = Scan(e, Cardinality(AtLeast(e, "Exst"))).first
                        /\ ~e.repriced => e.aggr = Scan(e, Cardinality(AtLeast(e, "Exst")))
  <2>1. Cardinality(AtLeast(e, "Exst")) = n
    BY <1>6
  <2> QED
    BY <1>2, <1>4, <1>7, <2>1 DEF Aggregated
<1>9. /\ pp' \in PPRecord /\ (PPAdjLimit # 0 => Aggregated(pp'))
      /\ pp'.st = e.st /\ pp'.pend = e.pend /\ pp'.rmt_init = e.rmt_init
      /\ pp'.lcl = e.lcl /\ pp'.rmt = e.rmt /\ pp'.others = e.others
  BY <1>3, <1>5, <1>8, RebuiltSound
<1>10. \A state : AtLeast(pp', state) = AtLeast(pp, state)
  BY <1>4, <1>9 DEF AtLeast
<1>11. Awaited(pp') /\ Slots(pp')
  BY <1>2, <1>4, <1>9, <1>10 DEF Awaited, Slots, Busy
<1> QED
  BY <1>9, <1>11 DEF PPInv

LEMMA OthersKeep ==
  ASSUME LinksInvariant, OtherBegins \/ OtherEnds
  PROVE  PPInv(pp')
<1>1. /\ pp \in PPRecord /\ (PPAdjLimit # 0 => Aggregated(pp)) /\ Awaited(pp) /\ Slots(pp)
      /\ pp.others \in Nat /\ pp.lcl \in Int
  BY DEF LinksInvariant, PPInv, PPRecord
<1>2. PICK d \in {1, -1} : /\ pp' = [pp EXCEPT !.others = pp.others + d, !.lcl = pp.lcl + d]
                           /\ pp.others + d \in Nat
  <2>1. CASE OtherBegins
    <3>1. pp' = [pp EXCEPT !.others = pp.others + 1, !.lcl = pp.lcl + 1] /\ pp.others + 1 \in Nat
      BY <1>1, <2>1 DEF OtherBegins
    <3> QED
      BY <3>1
  <2>2. CASE OtherEnds
    <3>1. /\ pp' = [pp EXCEPT !.others = pp.others - 1, !.lcl = pp.lcl - 1] /\ pp.others > 0
          /\ pp.others - 1 = pp.others + (-1) /\ pp.lcl - 1 = pp.lcl + (-1)
      BY <1>1, <2>2 DEF OtherEnds
    <3>2. pp.others + (-1) \in Nat
      BY <1>1, <3>1
    <3> QED
      BY <3>1, <3>2
  <2> QED
    BY <2>1, <2>2
<1> DEFINE m == pp.others + d
           k == pp.lcl + d
<1>3. m \in Nat /\ k \in Int /\ pp' = [pp EXCEPT !.others = m, !.lcl = k]
  BY <1>1, <1>2
<1> HIDE DEF m, k
<1>4. pp' \in PPRecord
  BY <1>1, <1>3 DEF PPRecord
<1>5. /\ pp'.st = pp.st /\ pp'.cost = pp.cost /\ pp'.pend = pp.pend
      /\ pp'.rmt_init = pp.rmt_init /\ pp'.rmt = pp.rmt /\ pp'.aggr = pp.aggr
      /\ pp'.lsa = pp.lsa /\ pp'.repriced = pp.repriced /\ pp'.others = m /\ pp'.lcl = k
  BY <1>1, <1>3 DEF PPRecord
<1>6. \A state : AtLeast(pp', state) = AtLeast(pp, state)
  BY <1>5 DEF AtLeast
<1>7. ASSUME NEW n
      PROVE  Scan(pp', n) = Scan(pp, n)
  BY <1>5, <1>6, SameScan
<1>8. (PPAdjLimit # 0 => Aggregated(pp')) /\ Awaited(pp')
  BY <1>1, <1>5, <1>6, <1>7 DEF Aggregated, Awaited
<1>9. Slots(pp')
  <2> DEFINE D == Busy(pp) \ pp.rmt_init
  <2>1. D \subseteq Link
    BY DEF Busy, AtLeast
  <2>2. Cardinality(D) \in Nat
    BY <2>1, LinksAreFinite
  <2>3. Busy(pp') = Busy(pp)
    BY <1>6 DEF Busy
  <2>4. pp.lcl = pp.others + Cardinality(D)
    BY <1>1 DEF Slots
  <2>5. k = m + Cardinality(D)
    <3> HIDE DEF D
    <3> QED
      BY <1>1, <2>2, <2>4 DEF k, m
  <2> QED
    BY <1>1, <1>5, <2>3, <2>5 DEF Slots
<1> QED
  BY <1>4, <1>8, <1>9 DEF PPInv

LEMMA LinksStep == LinksInvariant /\ [LinksNext]_linkVars => LinksInvariant'
<1> SUFFICES ASSUME LinksInvariant, [LinksNext]_linkVars
             PROVE  LinksInvariant'
  OBVIOUS
<1>1. /\ decides \in BOOLEAN /\ pp \in PPRecord /\ (PPAdjLimit # 0 => Aggregated(pp))
      /\ Awaited(pp) /\ PPInv(pp) /\ SlotsFor(pp, Busy(pp))
      /\ pp.st \in [Link -> LinkState] /\ pp.pend \in SUBSET Link
  BY DEF LinksInvariant, PPInv, Slots, SlotsFor, PPRecord
<1>2. decides' = decides
  BY DEF LinksNext, linkVars
<1>3. PPInv(pp') => LinksInvariant'
  BY <1>1, <1>2 DEF LinksInvariant, PPInv, Awaited, Aggregated, Slots, Busy, AtLeast, Scan
<1>4. ASSUME NEW l \in Link, NEW P \in SUBSET Link, NEW ns \in LinkState, ns # pp.st[l],
             ns \notin {"Exst", "Full"}
      PROVE  PPInv(Enter([pp EXCEPT !.pend = P], l, ns))
  <2> DEFINE c == [pp EXCEPT !.pend = P]
  <2>1. /\ c \in PPRecord /\ (PPAdjLimit # 0 => Aggregated(c))
        /\ SlotsFor(c, Busy(c)) /\ c.st = pp.st
    BY <1>1, PendKeeps
  <2> HIDE DEF c
  <2>2. PPInv(Enter(c, l, ns))
    BY <1>1, <1>4, <2>1, EnterKeeps
  <2> QED
    BY <2>2 DEF c
<1>5. ASSUME NEW l \in Link, HelloReceived(l)
      PROVE  PPInv(pp')
  <2>1. "Init" \in LinkState /\ "Init" # pp.st[l] /\ pp' = Enter(pp, l, "Init")
    BY <1>5 DEF HelloReceived, LinkState
  <2> QED
    BY <1>1, <2>1, EnterKeeps
<1>6. ASSUME NEW l \in Link, TwoWayReceived(l)
      PROVE  PPInv(pp')
  <2>1. pp.st[l] \in {"Init", "TwoWay"} /\ pp' = nba_eval1(pp, l)
    BY <1>6 DEF TwoWayReceived
  <2>2. AwaitedBut(pp, l)
    BY <1>1 DEF Awaited, AwaitedBut
  <2> QED
    BY <1>1, <2>1, <2>2, Eval1Keeps
<1>7. ASSUME NEW l \in Link, OneWayReceived(l)
      PROVE  PPInv(pp')
  <2>1. pp' = Enter([pp EXCEPT !.pend = pp.pend \ {l}], l, "Init")
    BY <1>7 DEF OneWayReceived, DelPendAdj
  <2>2. "Init" \in LinkState /\ "Init" # pp.st[l] /\ pp.pend \ {l} \in SUBSET Link
    BY <1>1, <1>7, AtLeastIs DEF OneWayReceived, LinkState
  <2> QED
    BY <1>4, <2>1, <2>2
<1>8. ASSUME NEW l \in Link, DDReceived(l)
      PROVE  PPInv(pp')
  BY <1>1, <1>8, Eval2Keeps DEF DDReceived
<1>9. ASSUME NEW l \in Link, LoadingDone(l)
      PROVE  PPInv(pp')
  <2>1. "Full" \in LinkState /\ "Full" # pp.st[l] /\ pp.st[l] = "Exst" /\ pp' = Enter(pp, l, "Full")
    BY <1>9 DEF LoadingDone, LinkState
  <2> QED
    BY <1>1, <2>1, EnterKeeps
<1>10. ASSUME NEW l \in Link, Restarts(l)
       PROVE  PPInv(pp')
  <2>1. pp' = Enter([pp EXCEPT !.pend = pp.pend \cup {l}], l, "TwoWay")
    BY <1>10 DEF Restarts, AddPendAdj
  <2>2. "TwoWay" \in LinkState /\ "TwoWay" # pp.st[l] /\ pp.pend \cup {l} \in SUBSET Link
    BY <1>1, <1>10, AtLeastIs DEF Restarts, LinkState
  <2> QED
    BY <1>4, <2>1, <2>2
<1>11. ASSUME NEW l \in Link, Deleted(l)
       PROVE  PPInv(pp')
  <2>1. pp' = Enter([pp EXCEPT !.pend = pp.pend \ {l}], l, "Down")
    BY <1>11 DEF Deleted, DelPendAdj
  <2>2. "Down" \in LinkState /\ "Down" # pp.st[l] /\ pp.pend \ {l} \in SUBSET Link
    BY <1>1, <1>11 DEF Deleted, LinkState
  <2> QED
    BY <1>4, <2>1, <2>2
<1>12. ASSUME NEW l \in Link, Tick(l)
       PROVE  PPInv(pp')
  <2> DEFINE P == pp.pend \ {l}
             c == [pp EXCEPT !.pend = P]
  <2>1. P \in SUBSET Link
    BY <1>1
  <2>2. /\ c \in PPRecord /\ (PPAdjLimit # 0 => Aggregated(c))
        /\ SlotsFor(c, Busy(c)) /\ c.st = pp.st /\ c.pend = P
    BY <1>1, <2>1, PendKeeps
  <2>3. pp' = IF pp.st[l] = "TwoWay" THEN nba_eval1(c, l) ELSE c
    BY <1>12 DEF Tick, DelPendAdj
  <2> HIDE DEF c
  <2>4. \A state : AtLeast(c, state) = AtLeast(pp, state)
    BY <2>2 DEF AtLeast
  <2>5. CASE pp.st[l] = "TwoWay"
    <3>1. AwaitedBut(c, l)
      BY <1>1, <2>2, <2>4 DEF Awaited, AwaitedBut
    <3>2. pp' = nba_eval1(c, l) /\ c.st[l] \in {"Init", "TwoWay"}
      BY <2>2, <2>3, <2>5
    <3> QED
      BY <1>1, <2>2, <3>1, <3>2, Eval1Keeps
  <2>6. CASE pp.st[l] # "TwoWay"
    <3>1. l \notin AtLeast(pp, "TwoWay") \ AtLeast(pp, "Exst")
      BY <1>1, <2>6, AtLeastIs
    <3>2. Awaited(c)
      BY <1>1, <2>2, <2>4, <3>1 DEF Awaited
    <3> QED
      BY <2>2, <2>3, <2>6, <3>2 DEF PPInv, Slots, SlotsFor
  <2> QED
    BY <2>5, <2>6
<1>13. ASSUME NEW l \in Link, CfgCost(l)
       PROVE  PPInv(pp')
  BY <1>13, CfgCostKeeps
<1>14. CASE OtherBegins \/ OtherEnds
  BY <1>3, <1>14, OthersKeep
<1>15. CASE UNCHANGED linkVars
  BY <1>1, <1>3, <1>15 DEF linkVars
<1> QED
  BY <1>3, <1>5, <1>6, <1>7, <1>8, <1>9, <1>10, <1>11, <1>12, <1>13, <1>14, <1>15 DEF LinksNext

LEMMA LinksInvariantHolds == LinksSpec => []LinksInvariant
BY LinksInitSound, LinksStep, PTL DEF LinksSpec

(* Whatever adj_change() looks at on a move and whatever it skips, the     *)
(* aggregate of parallel links says what its declaration promises, for any *)
(* number of links, any costs and any limit: n_adjs is the number of links *)
(* in ExStart or beyond, first_full a full one, cost and mpath those of    *)
(* the cheapest bidirectional links unless a cost was configured since,    *)
(* and the router-LSA has one link of that cost iff there is a full one.   *)
(* No 2-Way link is left off the pending list while the end that decides   *)
(* wants more adjacencies, and the counters of exchanges are exact.        *)
THEOREM LinksStayAggregated == LinksSpec => []LinksAggregated
<1>1. LinksInvariant => LinksAggregated
  BY DEF LinksInvariant, PPInv, LinksAggregated, AggregateExact, NoneStranded, SlotsExact,
         Aggregated, Awaited, Slots, Busy
<1> QED
  BY <1>1, LinksInvariantHolds, PTL

-----------------------------------------------------------------------------
(* Group membership: what the record keeps, and what the counts say of it. *)

IfcState == {"None", "Down", "PP", "Wait", "Other", "Backup", "DR"}

GroupsRecord ==
  [state : [Ifc -> IfcState], phyrefs : [Phyint -> Nat], open : SUBSET Phyint,
   members : [Phyint \X Group -> Nat], joined : SUBSET (Phyint \X Group)]

IsUp(state) == state \notin {"None", "Down"}
UpOn(s, p) == {i \in Ifc : if_phyint[i] = p /\ IsUp(s.state[i])}
LeadingOn(s, p) == {i \in Ifc : if_phyint[i] = p /\ Leads(s.state[i])}

\* What the system was asked for agrees with the counts.
Requested(s) ==
  /\ \A m \in Phyint \X Group : m \in s.joined <=> s.members[m] > 0
  /\ \A p \in Phyint : p \in s.open <=> s.phyrefs[p] > 0

\* The counts are those of the interfaces.
Counted(s) ==
  \A p \in Phyint :
    /\ s.members[<<p, AllSPFRouters>>] = Cardinality(UpOn(s, p))
    /\ s.members[<<p, AllDRouters>>] = Cardinality(LeadingOn(s, p))

One(b) == IF b THEN 1 ELSE 0

LEMMA Groups ==
  /\ AllSPFRouters \in Group /\ AllDRouters \in Group /\ AllSPFRouters # AllDRouters
  /\ \A g \in Group : g = AllSPFRouters \/ g = AllDRouters
BY DEF Group, AllSPFRouters, AllDRouters

LEMMA IfcsAreFinite ==
  ASSUME NEW S, S \subseteq Ifc
  PROVE  IsFiniteSet(S) /\ Cardinality(S) \in Nat
BY MembershipAssumption, FS_Subset, FS_CardinalityType

LEMMA CardChange ==
  ASSUME NEW A, NEW B, NEW i \in Ifc, NEW b \in BOOLEAN, A \subseteq Ifc,
         B = IF b THEN A \cup {i} ELSE A \ {i}
  PROVE  Cardinality(B) = Cardinality(A) + One(b) - One(i \in A)
<1>1. IsFiniteSet(A) /\ Cardinality(A) \in Nat
  BY IfcsAreFinite
<1>2. CASE b /\ i \notin A
  <2>1. Cardinality(B) = Cardinality(A) + 1
    BY <1>1, <1>2, FS_AddElement
  <2> QED
    BY <1>1, <1>2, <2>1 DEF One
<1>3. CASE ~b /\ i \in A
  <2>1. Cardinality(B) = Cardinality(A) - 1
    BY <1>1, <1>3, FS_RemoveElement
  <2> QED
    BY <1>1, <1>3, <2>1 DEF One
<1>4. CASE b <=> i \in A
  <2>1. B = A /\ One(b) = One(i \in A) /\ One(b) \in Int
    BY <1>4 DEF One
  <2> DEFINE n == Cardinality(A)
  <2>2. \A k \in Int : n = n + k - k
    <3> HIDE DEF n
    <3>1. n \in Nat
      BY <1>1 DEF n
    <3> QED
      BY <3>1
  <2>3. n = n + One(b) - One(b)
    BY <2>1, <2>2
  <2> QED
    BY <2>1, <2>3
<1> QED
  BY <1>2, <1>3, <1>4

(* One interface changes its state. *)
LEMMA StateChange ==
  ASSUME NEW s \in GroupsRecord, NEW c \in GroupsRecord, NEW i \in Ifc, NEW ns \in IfcState,
         c.state = [s.state EXCEPT ![i] = ns]
  PROVE  /\ Cardinality(UpOn(c, if_phyint[i]))
              = Cardinality(UpOn(s, if_phyint[i])) + One(IsUp(ns)) - One(IsUp(s.state[i]))
         /\ Cardinality(LeadingOn(c, if_phyint[i]))
              = Cardinality(LeadingOn(s, if_phyint[i])) + One(Leads(ns)) - One(Leads(s.state[i]))
         /\ \A p \in Phyint \ {if_phyint[i]} :
              UpOn(c, p) = UpOn(s, p) /\ LeadingOn(c, p) = LeadingOn(s, p)
<1> DEFINE q == if_phyint[i]
<1>1. s.state \in [Ifc -> IfcState] /\ c.state \in [Ifc -> IfcState]
  BY DEF GroupsRecord
<1>2. IsUp(ns) \in BOOLEAN /\ Leads(ns) \in BOOLEAN
  BY DEF IsUp, Leads
<1>3. Cardinality(UpOn(c, q)) = Cardinality(UpOn(s, q)) + One(IsUp(ns)) - One(i \in UpOn(s, q))
  <2>1. UpOn(s, q) \subseteq Ifc
    BY DEF UpOn
  <2>2. UpOn(c, q) = IF IsUp(ns) THEN UpOn(s, q) \cup {i} ELSE UpOn(s, q) \ {i}
    BY <1>1 DEF UpOn
  <2> QED
    BY <1>2, <2>1, <2>2, CardChange
<1>4. Cardinality(LeadingOn(c, q))
        = Cardinality(LeadingOn(s, q)) + One(Leads(ns)) - One(i \in LeadingOn(s, q))
  <2>1. LeadingOn(s, q) \subseteq Ifc
    BY DEF LeadingOn
  <2>2. LeadingOn(c, q) = IF Leads(ns) THEN LeadingOn(s, q) \cup {i} ELSE LeadingOn(s, q) \ {i}
    BY <1>1 DEF LeadingOn
  <2> QED
    BY <1>2, <2>1, <2>2, CardChange
<1>5. (i \in UpOn(s, q) <=> IsUp(s.state[i])) /\ (i \in LeadingOn(s, q) <=> Leads(s.state[i]))
  BY DEF UpOn, LeadingOn
<1>6. One(i \in UpOn(s, q)) = One(IsUp(s.state[i])) /\ One(i \in LeadingOn(s, q)) = One(Leads(s.state[i]))
  BY <1>5 DEF One
<1>7. \A p \in Phyint \ {q} : UpOn(c, p) = UpOn(s, p) /\ LeadingOn(c, p) = LeadingOn(s, p)
  BY <1>1 DEF UpOn, LeadingOn
<1> QED
  BY <1>3, <1>4, <1>6, <1>7

LEMMA JoinSound ==
  ASSUME NEW s \in GroupsRecord, Requested(s), NEW p \in Phyint, NEW g \in Group
  PROVE  LET c == app_join(s, p, g)
         IN  /\ c \in GroupsRecord /\ Requested(c)
             /\ c.state = s.state /\ c.phyrefs = s.phyrefs /\ c.open = s.open
             /\ c.members = [s.members EXCEPT ![<<p, g>>] = @ + 1]
<1> DEFINE ms == [s.members EXCEPT ![<<p, g>>] = @ + 1]
           js == s.joined \cup {<<p, g>>}
           c  == [s EXCEPT !.members = ms, !.joined = js]
<1>1. s.members \in [Phyint \X Group -> Nat] /\ s.joined \in SUBSET (Phyint \X Group)
  BY DEF GroupsRecord
<1>2. ms \in [Phyint \X Group -> Nat] /\ js \in SUBSET (Phyint \X Group)
  BY <1>1
<1>3. app_join(s, p, g) = c
  BY DEF app_join
<1>4. \A m \in Phyint \X Group : m \in js <=> ms[m] > 0
  BY <1>1 DEF Requested
<1> HIDE DEF ms, js
<1>5. c \in GroupsRecord
  BY <1>2 DEF GroupsRecord
<1>6. c.state = s.state /\ c.phyrefs = s.phyrefs /\ c.open = s.open /\ c.members = ms /\ c.joined = js
  BY DEF GroupsRecord
<1> HIDE DEF c
<1>7. Requested(c)
  BY <1>4, <1>6 DEF Requested
<1> QED
  BY <1>3, <1>5, <1>6, <1>7 DEF ms

LEMMA LeaveSound ==
  ASSUME NEW s \in GroupsRecord, Requested(s), NEW p \in Phyint, NEW g \in Group
  PROVE  LET c == app_leave(s, p, g)
         IN  /\ c \in GroupsRecord /\ Requested(c)
             /\ c.state = s.state /\ c.phyrefs = s.phyrefs /\ c.open = s.open
             /\ c.members = [s.members EXCEPT ![<<p, g>>] = IF @ = 0 THEN 0 ELSE @ - 1]
<1> DEFINE n  == s.members[<<p, g>>]
           ms == [s.members EXCEPT ![<<p, g>>] = n - 1]
           js == IF n = 1 THEN s.joined \ {<<p, g>>} ELSE s.joined
           c  == [s EXCEPT !.members = ms, !.joined = js]
<1>1. /\ s.members \in [Phyint \X Group -> Nat] /\ s.joined \in SUBSET (Phyint \X Group)
      /\ n \in Nat
  BY DEF GroupsRecord
<1>2. CASE n = 0
  <2>1. app_leave(s, p, g) = s
    BY <1>2 DEF app_leave
  <2>2. s.members = [s.members EXCEPT ![<<p, g>>] = IF @ = 0 THEN 0 ELSE @ - 1]
    BY <1>1, <1>2
  <2> QED
    BY <2>1, <2>2
<1>3. CASE n # 0
  <2>1. ms \in [Phyint \X Group -> Nat] /\ js \in SUBSET (Phyint \X Group)
    BY <1>1, <1>3
  <2>2. app_leave(s, p, g) = c
    BY <1>3 DEF app_leave
  <2>3. \A m \in Phyint \X Group : m \in js <=> ms[m] > 0
    BY <1>1, <1>3 DEF Requested
  <2>4. ms = [s.members EXCEPT ![<<p, g>>] = IF @ = 0 THEN 0 ELSE @ - 1]
    BY <1>3
  <2> HIDE DEF ms, js
  <2>5. c \in GroupsRecord
    BY <2>1 DEF GroupsRecord
  <2>6. c.state = s.state /\ c.phyrefs = s.phyrefs /\ c.open = s.open /\ c.members = ms /\ c.joined = js
    BY DEF GroupsRecord
  <2> HIDE DEF c
  <2>7. Requested(c)
    BY <2>3, <2>6 DEF Requested
  <2> QED
    BY <2>2, <2>4, <2>5, <2>6, <2>7
<1> QED
  BY <1>2, <1>3

LEMMA AttachSound ==
  ASSUME NEW s \in GroupsRecord, Requested(s), NEW p \in Phyint
  PROVE  LET c == phy_attach(s, p)
         IN  /\ c \in GroupsRecord /\ Requested(c)
             /\ c.state = s.state /\ c.members = s.members
             /\ c.phyrefs = [s.phyrefs EXCEPT ![p] = @ + 1]
<1> DEFINE rs == [s.phyrefs EXCEPT ![p] = @ + 1]
           os == s.open \cup {p}
           c  == [s EXCEPT !.phyrefs = rs, !.open = os]
<1>1. s.phyrefs \in [Phyint -> Nat] /\ s.open \in SUBSET Phyint
  BY DEF GroupsRecord
<1>2. rs \in [Phyint -> Nat] /\ os \in SUBSET Phyint
  BY <1>1
<1>3. phy_attach(s, p) = c
  BY DEF phy_attach
<1>4. \A q \in Phyint : q \in os <=> rs[q] > 0
  BY <1>1 DEF Requested
<1> HIDE DEF rs, os
<1>5. c \in GroupsRecord
  BY <1>2 DEF GroupsRecord
<1>6. c.state = s.state /\ c.phyrefs = rs /\ c.open = os /\ c.members = s.members /\ c.joined = s.joined
  BY DEF GroupsRecord
<1> HIDE DEF c
<1>7. Requested(c)
  BY <1>4, <1>6 DEF Requested
<1> QED
  BY <1>3, <1>5, <1>6, <1>7 DEF rs

LEMMA DetachSound ==
  ASSUME NEW s \in GroupsRecord, Requested(s), NEW p \in Phyint
  PROVE  LET c == phy_detach(s, p)
         IN  /\ c \in GroupsRecord /\ Requested(c)
             /\ c.state = s.state /\ c.members = s.members
             /\ c.phyrefs = [s.phyrefs EXCEPT ![p] = IF @ = 0 THEN 0 ELSE @ - 1]
<1> DEFINE n  == s.phyrefs[p]
           rs == [s.phyrefs EXCEPT ![p] = n - 1]
           os == IF n = 1 THEN s.open \ {p} ELSE s.open
           c  == [s EXCEPT !.phyrefs = rs, !.open = os]
<1>1. s.phyrefs \in [Phyint -> Nat] /\ s.open \in SUBSET Phyint /\ n \in Nat
  BY DEF GroupsRecord
<1>2. CASE n = 0
  <2>1. phy_detach(s, p) = s
    BY <1>2 DEF phy_detach
  <2>2. s.phyrefs = [s.phyrefs EXCEPT ![p] = IF @ = 0 THEN 0 ELSE @ - 1]
    BY <1>1, <1>2
  <2> QED
    BY <2>1, <2>2
<1>3. CASE n # 0
  <2>1. rs \in [Phyint -> Nat] /\ os \in SUBSET Phyint
    BY <1>1, <1>3
  <2>2. phy_detach(s, p) = c
    BY <1>3 DEF phy_detach
  <2>3. \A q \in Phyint : q \in os <=> rs[q] > 0
    BY <1>1, <1>3 DEF Requested
  <2>4. rs = [s.phyrefs EXCEPT ![p] = IF @ = 0 THEN 0 ELSE @ - 1]
    BY <1>3
  <2> HIDE DEF rs, os
  <2>5. c \in GroupsRecord
    BY <2>1 DEF GroupsRecord
  <2>6. c.state = s.state /\ c.phyrefs = rs /\ c.open = os /\ c.members = s.members /\ c.joined = s.joined
    BY DEF GroupsRecord
  <2> HIDE DEF c
  <2>7. Requested(c)
    BY <2>3, <2>6 DEF Requested
  <2> QED
    BY <2>2, <2>4, <2>5, <2>6, <2>7
<1> QED
  BY <1>2, <1>3

LEMMA StateSet ==
  ASSUME NEW s \in GroupsRecord, Requested(s), NEW i \in Ifc, NEW ns \in IfcState
  PROVE  LET c == [s EXCEPT !.state[i] = ns]
         IN  /\ c \in GroupsRecord /\ Requested(c)
             /\ c.state = [s.state EXCEPT ![i] = ns] /\ c.members = s.members
             /\ c.phyrefs = s.phyrefs
<1> DEFINE f == [s.state EXCEPT ![i] = ns]
           c == [s EXCEPT !.state = f]
<1>1. f \in [Ifc -> IfcState]
  BY DEF GroupsRecord
<1>2. [s EXCEPT !.state[i] = ns] = c
  OBVIOUS
<1> HIDE DEF f
<1>3. c \in GroupsRecord
  BY <1>1 DEF GroupsRecord
<1>4. /\ c.state = f /\ c.phyrefs = s.phyrefs /\ c.open = s.open /\ c.members = s.members
      /\ c.joined = s.joined
  BY DEF GroupsRecord
<1> HIDE DEF c
<1>5. Requested(c)
  BY <1>4 DEF Requested
<1> QED
  BY <1>2, <1>3, <1>4, <1>5 DEF f

(* The end of run_fsm() changes the count of AllDRouters by what the       *)
(* interface's new state and its old one say.                              *)
LEMMA EndFsmSound ==
  ASSUME NEW s \in GroupsRecord, Requested(s), NEW i \in Ifc, NEW os \in IfcState
  PROVE  LET c == EndFsm(s, i, os)
             q == if_phyint[i]
         IN  /\ c \in GroupsRecord /\ Requested(c)
             /\ c.state = s.state /\ c.phyrefs = s.phyrefs
             /\ \A p \in Phyint : c.members[<<p, AllSPFRouters>>] = s.members[<<p, AllSPFRouters>>]
             /\ \A p \in Phyint \ {q} : c.members[<<p, AllDRouters>>] = s.members[<<p, AllDRouters>>]
             /\ (Leads(os) => s.members[<<q, AllDRouters>>] > 0) =>
                  c.members[<<q, AllDRouters>>]
                    = s.members[<<q, AllDRouters>>] + One(Leads(s.state[i])) - One(Leads(os))
<1> DEFINE ns == s.state[i]
           q  == if_phyint[i]
           c  == EndFsm(s, i, os)
<1>1. q \in Phyint /\ s.members \in [Phyint \X Group -> Nat]
  BY MembershipAssumption DEF GroupsRecord
<1>2. c = IF Leads(ns) /\ ~Leads(os) THEN app_join(s, q, AllDRouters)
          ELSE IF Leads(os) /\ ~Leads(ns) THEN app_leave(s, q, AllDRouters)
          ELSE s
  BY DEF EndFsm
<1> HIDE DEF c
<1>3. CASE Leads(ns) /\ ~Leads(os)
  <2>1. /\ c \in GroupsRecord /\ Requested(c)
        /\ c.state = s.state /\ c.phyrefs = s.phyrefs
        /\ c.members = [s.members EXCEPT ![<<q, AllDRouters>>] = @ + 1]
    BY <1>1, <1>2, <1>3, Groups, JoinSound
  <2>2. c.members[<<q, AllDRouters>>] = s.members[<<q, AllDRouters>>] + One(Leads(ns)) - One(Leads(os))
    BY <1>1, <1>3, <2>1, Groups DEF One
  <2> QED
    BY <1>1, <2>1, <2>2, Groups DEF c
<1>4. CASE Leads(os) /\ ~Leads(ns)
  <2>1. /\ c \in GroupsRecord /\ Requested(c)
        /\ c.state = s.state /\ c.phyrefs = s.phyrefs
        /\ c.members = [s.members EXCEPT ![<<q, AllDRouters>>] = IF @ = 0 THEN 0 ELSE @ - 1]
    BY <1>1, <1>2, <1>4, Groups, LeaveSound
  <2>2. s.members[<<q, AllDRouters>>] > 0 =>
          c.members[<<q, AllDRouters>>] = s.members[<<q, AllDRouters>>] + One(Leads(ns)) - One(Leads(os))
    BY <1>1, <1>4, <2>1, Groups DEF One
  <2> QED
    BY <1>1, <1>4, <2>1, <2>2, Groups DEF c
<1>5. CASE Leads(os) <=> Leads(ns)
  <2>1. c = s
    BY <1>2, <1>5
  <2>2. s.members[<<q, AllDRouters>>] \in Nat
    BY <1>1, Groups
  <2>3. s.members[<<q, AllDRouters>>] = s.members[<<q, AllDRouters>>] + One(Leads(ns)) - One(Leads(os))
    BY <1>5, <2>2 DEF One
  <2> QED
    BY <2>1, <2>3 DEF c
<1> QED
  BY <1>3, <1>4, <1>5

(* The counts follow the one interface whose state changes. *)
LEMMA CountedStep ==
  ASSUME NEW s \in GroupsRecord, NEW c \in GroupsRecord, Counted(s), NEW i \in Ifc, NEW ns \in IfcState,
         c.state = [s.state EXCEPT ![i] = ns],
         c.members[<<if_phyint[i], AllSPFRouters>>]
           = s.members[<<if_phyint[i], AllSPFRouters>>] + One(IsUp(ns)) - One(IsUp(s.state[i])),
         c.members[<<if_phyint[i], AllDRouters>>]
           = s.members[<<if_phyint[i], AllDRouters>>] + One(Leads(ns)) - One(Leads(s.state[i])),
         \A p \in Phyint \ {if_phyint[i]} :
           /\ c.members[<<p, AllSPFRouters>>] = s.members[<<p, AllSPFRouters>>]
           /\ c.members[<<p, AllDRouters>>] = s.members[<<p, AllDRouters>>]
  PROVE  Counted(c)
<1> DEFINE q == if_phyint[i]
<1>1. q \in Phyint
  BY MembershipAssumption
<1>2. /\ Cardinality(UpOn(c, q)) = Cardinality(UpOn(s, q)) + One(IsUp(ns)) - One(IsUp(s.state[i]))
      /\ Cardinality(LeadingOn(c, q))
           = Cardinality(LeadingOn(s, q)) + One(Leads(ns)) - One(Leads(s.state[i]))
      /\ \A p \in Phyint \ {q} : UpOn(c, p) = UpOn(s, p) /\ LeadingOn(c, p) = LeadingOn(s, p)
  BY StateChange
<1>3. ASSUME NEW p \in Phyint
      PROVE  /\ c.members[<<p, AllSPFRouters>>] = Cardinality(UpOn(c, p))
             /\ c.members[<<p, AllDRouters>>] = Cardinality(LeadingOn(c, p))
  <2>1. /\ s.members[<<p, AllSPFRouters>>] = Cardinality(UpOn(s, p))
        /\ s.members[<<p, AllDRouters>>] = Cardinality(LeadingOn(s, p))
    BY DEF Counted
  <2>2. CASE p = q
    BY <1>2, <2>1, <2>2
  <2>3. CASE p # q
    BY <1>2, <2>1, <2>3
  <2> QED
    BY <2>2, <2>3
<1> QED
  BY <1>3 DEF Counted

LEMMA Ones ==
  /\ ~IsUp("None") /\ ~IsUp("Down") /\ ~Leads("None") /\ ~Leads("Down")
  /\ \A ns \in IfcState : Leads(ns) => IsUp(ns)
  /\ IsUp("PP") /\ IsUp("Wait") /\ IsUp("Other") /\ IsUp("Backup") /\ IsUp("DR")
  /\ ~Leads("PP") /\ ~Leads("Wait") /\ ~Leads("Other")
  /\ "None" \in IfcState /\ "Down" \in IfcState /\ "PP" \in IfcState /\ "Wait" \in IfcState
  /\ "Other" \in IfcState /\ "Backup" \in IfcState /\ "DR" \in IfcState
BY DEF IsUp, Leads, IfcState

LEMMA StartSound ==
  ASSUME NEW s \in GroupsRecord, Requested(s), NEW i \in Ifc, NEW e
  PROVE  LET c == Start(s, i, e)
             q == if_phyint[i]
         IN  /\ c \in GroupsRecord /\ Requested(c)
             /\ s.state[i] = "Down" =>
                  /\ c.state = [s.state EXCEPT ![i] = c.state[i]] /\ IsUp(c.state[i])
                  /\ c.phyrefs = [s.phyrefs EXCEPT ![q] = @ + 1]
                  /\ Counted(s) => Counted(c)
<1> DEFINE q == if_phyint[i]
           ns == IF i \notin Broadcast THEN "PP" ELSE IF e THEN "Wait" ELSE "Other"
           a == phy_attach(s, q)
           j == app_join(a, q, AllSPFRouters)
           b == [j EXCEPT !.state[i] = ns]
           c == EndFsm(b, i, "Down")
<1>1. CASE s.state[i] # "Down"
  <2>1. Start(s, i, e) = s
    BY <1>1 DEF Start
  <2> QED
    BY <1>1, <2>1
<1>2. CASE s.state[i] = "Down"
  <2>1. Start(s, i, e) = c
    BY <1>2 DEF Start
  <2>2. q \in Phyint /\ ns \in IfcState /\ IsUp(ns) /\ ~Leads(ns) /\ "Down" \in IfcState
    BY MembershipAssumption, Ones
  <2>3. /\ s.members \in [Phyint \X Group -> Nat] /\ s.phyrefs \in [Phyint -> Nat]
        /\ s.state \in [Ifc -> IfcState]
    BY DEF GroupsRecord
  <2>4. /\ a \in GroupsRecord /\ Requested(a)
        /\ a.state = s.state /\ a.members = s.members
        /\ a.phyrefs = [s.phyrefs EXCEPT ![q] = @ + 1]
    BY <2>2, AttachSound
  <2> HIDE DEF a
  <2>5. /\ j \in GroupsRecord /\ Requested(j)
        /\ j.state = s.state /\ j.phyrefs = a.phyrefs
        /\ j.members = [s.members EXCEPT ![<<q, AllSPFRouters>>] = @ + 1]
    BY <2>2, <2>4, Groups, JoinSound
  <2> HIDE DEF j
  <2> HIDE DEF ns
  <2>6. /\ b \in GroupsRecord /\ Requested(b)
        /\ b.state = [s.state EXCEPT ![i] = ns] /\ b.members = j.members /\ b.phyrefs = a.phyrefs
    BY <2>2, <2>5, StateSet
  <2> HIDE DEF b
  <2>7. b.state[i] = ns
    BY <2>3, <2>6
  <2>8. /\ c \in GroupsRecord /\ Requested(c)
        /\ c.state = b.state /\ c.phyrefs = b.phyrefs
        /\ \A p \in Phyint : c.members[<<p, AllSPFRouters>>] = b.members[<<p, AllSPFRouters>>]
        /\ \A p \in Phyint \ {q} : c.members[<<p, AllDRouters>>] = b.members[<<p, AllDRouters>>]
        /\ (Leads("Down") => b.members[<<q, AllDRouters>>] > 0) =>
             c.members[<<q, AllDRouters>>]
               = b.members[<<q, AllDRouters>>] + One(Leads(b.state[i])) - One(Leads("Down"))
    BY <2>2, <2>6, EndFsmSound
  <2> HIDE DEF c
  <2>9. Counted(s) => Counted(c)
    <3> SUFFICES ASSUME Counted(s)
                 PROVE  Counted(c)
      OBVIOUS
    <3>1. c.state = [s.state EXCEPT ![i] = ns]
      BY <2>6, <2>8
    <3>2. /\ One(IsUp(ns)) = 1 /\ One(IsUp(s.state[i])) = 0
          /\ One(Leads(ns)) = 0 /\ One(Leads(s.state[i])) = 0 /\ ~Leads("Down") /\ One(Leads("Down")) = 0
      BY <1>2, <2>2, Ones DEF One
    <3>3. c.members[<<q, AllSPFRouters>>]
            = s.members[<<q, AllSPFRouters>>] + One(IsUp(ns)) - One(IsUp(s.state[i]))
      <4>1. c.members[<<q, AllSPFRouters>>] = s.members[<<q, AllSPFRouters>>] + 1
        BY <2>2, <2>3, <2>5, <2>6, <2>8, Groups
      <4>2. s.members[<<q, AllSPFRouters>>] \in Nat
        BY <2>2, <2>3, Groups
      <4> QED
        BY <3>2, <4>1, <4>2
    <3>4. c.members[<<q, AllDRouters>>]
            = s.members[<<q, AllDRouters>>] + One(Leads(ns)) - One(Leads(s.state[i]))
      <4>1. b.members[<<q, AllDRouters>>] = s.members[<<q, AllDRouters>>]
        BY <2>2, <2>3, <2>5, <2>6, Groups
      <4> QED
        BY <2>7, <2>8, <3>2, <4>1
    <3>5. \A p \in Phyint \ {q} :
            /\ c.members[<<p, AllSPFRouters>>] = s.members[<<p, AllSPFRouters>>]
            /\ c.members[<<p, AllDRouters>>] = s.members[<<p, AllDRouters>>]
      <4> SUFFICES ASSUME NEW p \in Phyint \ {q}
                   PROVE  /\ c.members[<<p, AllSPFRouters>>] = s.members[<<p, AllSPFRouters>>]
                          /\ c.members[<<p, AllDRouters>>] = s.members[<<p, AllDRouters>>]
        OBVIOUS
      <4>1. /\ <<p, AllSPFRouters>> \in Phyint \X Group /\ <<p, AllDRouters>> \in Phyint \X Group
            /\ <<p, AllSPFRouters>> # <<q, AllSPFRouters>> /\ <<p, AllDRouters>> # <<q, AllSPFRouters>>
        BY Groups
      <4>2. /\ b.members[<<p, AllSPFRouters>>] = s.members[<<p, AllSPFRouters>>]
            /\ b.members[<<p, AllDRouters>>] = s.members[<<p, AllDRouters>>]
        BY <2>3, <2>5, <2>6, <4>1
      <4> QED
        BY <2>8, <4>2
    <3> HIDE DEF q
    <3> QED
      BY <2>2, <2>8, <3>1, <3>3, <3>4, <3>5, CountedStep DEF q
  <2> QED
    BY <2>1, <2>2, <2>3, <2>4, <2>6, <2>7, <2>8, <2>9
<1> QED
  BY <1>1, <1>2

LEMMA CountedPositive ==
  ASSUME NEW s \in GroupsRecord, Counted(s), NEW i \in Ifc
  PROVE  /\ IsUp(s.state[i]) => s.members[<<if_phyint[i], AllSPFRouters>>] > 0
         /\ Leads(s.state[i]) => s.members[<<if_phyint[i], AllDRouters>>] > 0
         /\ UpOn(s, if_phyint[i]) = {} => s.members[<<if_phyint[i], AllSPFRouters>>] = 0
<1> DEFINE q == if_phyint[i]
           A == UpOn(s, q)
           B == LeadingOn(s, q)
<1>1. q \in Phyint
  BY MembershipAssumption
<1>2. s.members[<<q, AllSPFRouters>>] = Cardinality(A) /\ s.members[<<q, AllDRouters>>] = Cardinality(B)
  BY <1>1 DEF Counted
<1>3. A \subseteq Ifc /\ B \subseteq Ifc
  BY DEF UpOn, LeadingOn
<1>4. (IsUp(s.state[i]) => i \in A) /\ (Leads(s.state[i]) => i \in B)
  BY DEF UpOn, LeadingOn
<1> HIDE DEF A, B
<1>5. /\ IsFiniteSet(A) /\ Cardinality(A) \in Nat /\ IsFiniteSet(B) /\ Cardinality(B) \in Nat
  BY <1>3, IfcsAreFinite
<1>6. (Cardinality(A) = 0 <=> A = {}) /\ (Cardinality(B) = 0 <=> B = {})
  BY <1>5, FS_EmptySet
<1>7. /\ IsUp(s.state[i]) => Cardinality(A) > 0
      /\ Leads(s.state[i]) => Cardinality(B) > 0
      /\ A = {} => Cardinality(A) = 0
  BY <1>4, <1>5, <1>6
<1> QED
  BY <1>2, <1>7 DEF A

(* ifa_reset() leaves the group although the interface may be down: the    *)
(* counts survive it if no interface of the physical one is up then.       *)
LEMMA DownSound ==
  ASSUME NEW s \in GroupsRecord, Requested(s), NEW i \in Ifc
  PROVE  LET c == Down(s, i)
             q == if_phyint[i]
         IN  /\ c \in GroupsRecord /\ Requested(c)
             /\ c.state = [s.state EXCEPT ![i] = "Down"] /\ c.phyrefs = s.phyrefs
             /\ Counted(s) /\ (IsUp(s.state[i]) \/ UpOn(s, q) = {}) => Counted(c)
<1> DEFINE q == if_phyint[i]
           os == s.state[i]
           a == app_leave(s, q, AllSPFRouters)
           b == [a EXCEPT !.state[i] = "Down"]
           c == EndFsm(b, i, os)
<1>1. Down(s, i) = c
  BY DEF Down
<1>2. q \in Phyint /\ os \in IfcState /\ "Down" \in IfcState
  BY MembershipAssumption, Ones DEF GroupsRecord
<1>3. s.members \in [Phyint \X Group -> Nat] /\ s.state \in [Ifc -> IfcState]
  BY DEF GroupsRecord
<1>4. /\ a \in GroupsRecord /\ Requested(a)
      /\ a.state = s.state /\ a.phyrefs = s.phyrefs
      /\ a.members = [s.members EXCEPT ![<<q, AllSPFRouters>>] = IF @ = 0 THEN 0 ELSE @ - 1]
  BY <1>2, Groups, LeaveSound
<1> HIDE DEF a
<1>5. /\ b \in GroupsRecord /\ Requested(b)
      /\ b.state = [s.state EXCEPT ![i] = "Down"] /\ b.members = a.members /\ b.phyrefs = s.phyrefs
  BY <1>2, <1>4, StateSet
<1> HIDE DEF b
<1>6. b.state[i] = "Down"
  BY <1>3, <1>5
<1>7. /\ c \in GroupsRecord /\ Requested(c)
      /\ c.state = b.state /\ c.phyrefs = b.phyrefs
      /\ \A p \in Phyint : c.members[<<p, AllSPFRouters>>] = b.members[<<p, AllSPFRouters>>]
      /\ \A p \in Phyint \ {q} : c.members[<<p, AllDRouters>>] = b.members[<<p, AllDRouters>>]
      /\ (Leads(os) => b.members[<<q, AllDRouters>>] > 0) =>
           c.members[<<q, AllDRouters>>]
             = b.members[<<q, AllDRouters>>] + One(Leads(b.state[i])) - One(Leads(os))
  BY <1>2, <1>5, EndFsmSound
<1> HIDE DEF c
<1>8. Counted(s) /\ (IsUp(os) \/ UpOn(s, q) = {}) => Counted(c)
  <2> SUFFICES ASSUME Counted(s), IsUp(os) \/ UpOn(s, q) = {}
               PROVE  Counted(c)
    OBVIOUS
  <2>1. c.state = [s.state EXCEPT ![i] = "Down"]
    BY <1>5, <1>7
  <2>2. One(IsUp("Down")) = 0 /\ One(Leads("Down")) = 0
    BY Ones DEF One
  <2>3. /\ IsUp(os) => s.members[<<q, AllSPFRouters>>] > 0
        /\ Leads(os) => s.members[<<q, AllDRouters>>] > 0
        /\ UpOn(s, q) = {} => s.members[<<q, AllSPFRouters>>] = 0
    BY CountedPositive
  <2>4. b.members[<<q, AllDRouters>>] = s.members[<<q, AllDRouters>>]
    BY <1>2, <1>3, <1>4, <1>5, Groups
  <2>5. c.members[<<q, AllDRouters>>] = s.members[<<q, AllDRouters>>] + One(Leads("Down")) - One(Leads(os))
    BY <1>6, <1>7, <2>3, <2>4
  <2>6. c.members[<<q, AllSPFRouters>>]
          = s.members[<<q, AllSPFRouters>>] + One(IsUp("Down")) - One(IsUp(os))
    <3> DEFINE n == s.members[<<q, AllSPFRouters>>]
    <3>1. c.members[<<q, AllSPFRouters>>] = IF n = 0 THEN 0 ELSE n - 1
      BY <1>2, <1>3, <1>4, <1>5, <1>7, Groups
    <3>2. n \in Nat
      BY <1>2, <1>3, Groups
    <3>3. CASE IsUp(os)
      BY <2>2, <2>3, <3>1, <3>2, <3>3 DEF One
    <3>4. CASE ~IsUp(os)
      BY <2>2, <2>3, <3>1, <3>2, <3>4 DEF One
    <3> QED
      BY <3>3, <3>4
  <2>7. \A p \in Phyint \ {q} :
          /\ c.members[<<p, AllSPFRouters>>] = s.members[<<p, AllSPFRouters>>]
          /\ c.members[<<p, AllDRouters>>] = s.members[<<p, AllDRouters>>]
    <3> SUFFICES ASSUME NEW p \in Phyint \ {q}
                 PROVE  /\ c.members[<<p, AllSPFRouters>>] = s.members[<<p, AllSPFRouters>>]
                        /\ c.members[<<p, AllDRouters>>] = s.members[<<p, AllDRouters>>]
      OBVIOUS
    <3>1. /\ <<p, AllSPFRouters>> \in Phyint \X Group /\ <<p, AllDRouters>> \in Phyint \X Group
          /\ <<p, AllSPFRouters>> # <<q, AllSPFRouters>> /\ <<p, AllDRouters>> # <<q, AllSPFRouters>>
      BY Groups
    <3>2. /\ b.members[<<p, AllSPFRouters>>] = s.members[<<p, AllSPFRouters>>]
          /\ b.members[<<p, AllDRouters>>] = s.members[<<p, AllDRouters>>]
      BY <1>3, <1>4, <1>5, <3>1
    <3> QED
      BY <1>7, <3>2
  <2> QED
    BY <1>2, <1>7, <2>1, <2>5, <2>6, <2>7, CountedStep
<1> QED
  BY <1>1, <1>5, <1>7, <1>8

(* Where a physical interface runs, the interfaces on it are up and each   *)
(* of them holds a reference; elsewhere none is up.                        *)
PresentOn(s, p) == {i \in Ifc : if_phyint[i] = p /\ s.state[i] # "None"}

Serving(s, p) == PresentOn(s, p) = UpOn(s, p) /\ Cardinality(UpOn(s, p)) <= s.phyrefs[p]
Idle(s, p) == UpOn(s, p) = {}

GroupsInv(s) == s \in GroupsRecord /\ Requested(s) /\ Counted(s)

GroupsInvariant ==
  /\ GroupsInv(o)
  /\ \A p \in Phyint : IF p \in running THEN Serving(o, p) ELSE Idle(o, p)

LEMMA GroupsInitSound == GroupsInit => GroupsInvariant
<1> SUFFICES ASSUME GroupsInit
             PROVE  GroupsInvariant
  OBVIOUS
<1>1. o = [state |-> [i \in Ifc |-> "None"], phyrefs |-> [p \in Phyint |-> 0], open |-> {},
           members |-> [m \in Phyint \X Group |-> 0], joined |-> {}]
  BY DEF GroupsInit
<1>2. o \in GroupsRecord
  BY <1>1, Ones DEF GroupsRecord
<1>3. /\ \A i \in Ifc : o.state[i] = "None"
      /\ \A p \in Phyint : o.phyrefs[p] = 0
      /\ \A m \in Phyint \X Group : o.members[m] = 0
      /\ o.open = {} /\ o.joined = {}
  BY <1>1
<1>4. \A p \in Phyint : UpOn(o, p) = {} /\ LeadingOn(o, p) = {} /\ PresentOn(o, p) = {}
  BY <1>3, Ones DEF UpOn, LeadingOn, PresentOn
<1>5. Cardinality({}) = 0
  BY FS_EmptySet
<1>6. Requested(o)
  BY <1>3 DEF Requested
<1>7. Counted(o)
  BY <1>3, <1>4, <1>5, Groups DEF Counted
<1>8. \A p \in Phyint : Serving(o, p) /\ Idle(o, p)
  BY <1>3, <1>4, <1>5 DEF Serving, Idle
<1> QED
  BY <1>2, <1>6, <1>7, <1>8 DEF GroupsInvariant, GroupsInv

LEMMA RecordTypes ==
  ASSUME NEW s \in GroupsRecord
  PROVE  /\ s.state \in [Ifc -> IfcState] /\ s.phyrefs \in [Phyint -> Nat]
         /\ s.members \in [Phyint \X Group -> Nat]
         /\ \A p : /\ UpOn(s, p) \subseteq PresentOn(s, p)
                   /\ IsFiniteSet(UpOn(s, p)) /\ Cardinality(UpOn(s, p)) \in Nat
<1>1. \A p : UpOn(s, p) \subseteq Ifc /\ UpOn(s, p) \subseteq PresentOn(s, p)
  BY DEF UpOn, PresentOn, IsUp
<1>2. ASSUME NEW p
      PROVE  IsFiniteSet(UpOn(s, p)) /\ Cardinality(UpOn(s, p)) \in Nat
  BY <1>1, IfcsAreFinite
<1> QED
  BY <1>1, <1>2 DEF GroupsRecord

LEMMA GroupsSet ==
  ASSUME NEW c, NEW up, o' = c, running' = up, GroupsInv(c),
         \A p \in Phyint : IF p \in up THEN Serving(c, p) ELSE Idle(c, p)
  PROVE  GroupsInvariant'
BY DEF GroupsInvariant, GroupsInv, Requested, Counted, Serving, Idle, UpOn, PresentOn, LeadingOn

(* A step of one interface: the other physical interfaces are none the     *)
(* wiser.                                                                  *)
LEMMA GroupsStep ==
  ASSUME GroupsInvariant, NEW i \in Ifc, NEW c, GroupsInv(c), o' = c, running' = running,
         \A p \in Phyint \ {if_phyint[i]} : c.phyrefs[p] = o.phyrefs[p],
         \A k \in Ifc \ {i} : c.state[k] = o.state[k],
         if_phyint[i] \in running => Serving(c, if_phyint[i]),
         if_phyint[i] \notin running => Idle(c, if_phyint[i])
  PROVE  GroupsInvariant'
<1>1. ASSUME NEW p \in Phyint
      PROVE  IF p \in running THEN Serving(c, p) ELSE Idle(c, p)
  <2>1. CASE p = if_phyint[i]
    BY <2>1
  <2>2. CASE p # if_phyint[i]
    <3>1. UpOn(c, p) = UpOn(o, p) /\ PresentOn(c, p) = PresentOn(o, p) /\ c.phyrefs[p] = o.phyrefs[p]
      BY <2>2 DEF UpOn, PresentOn
    <3> QED
      BY <3>1 DEF GroupsInvariant, Serving, Idle
  <2> QED
    BY <2>1, <2>2
<1> QED
  BY <1>1, GroupsSet

(* An interface of a physical interface that runs is started: it holds one *)
(* more reference, and it is up.                                           *)
LEMMA ServedStarted ==
  ASSUME NEW s \in GroupsRecord, NEW c \in GroupsRecord, NEW i \in Ifc,
         c.state = [s.state EXCEPT ![i] = c.state[i]], IsUp(c.state[i]),
         c.phyrefs[if_phyint[i]] = s.phyrefs[if_phyint[i]] + 1,
         PresentOn(s, if_phyint[i]) \ {i} = UpOn(s, if_phyint[i]) \ {i},
         Cardinality(UpOn(s, if_phyint[i])) <= s.phyrefs[if_phyint[i]]
  PROVE  Serving(c, if_phyint[i])
<1> DEFINE q == if_phyint[i]
           A == UpOn(s, q)
<1>1. q \in Phyint
  BY MembershipAssumption
<1>2. /\ s.state \in [Ifc -> IfcState] /\ c.state \in [Ifc -> IfcState]
      /\ IsFiniteSet(A) /\ Cardinality(A) \in Nat /\ s.phyrefs[q] \in Nat
  BY <1>1, RecordTypes
<1>3. UpOn(c, q) = A \cup {i}
  BY <1>2 DEF UpOn
<1>4. PresentOn(c, q) = PresentOn(s, q) \cup {i}
  BY <1>2 DEF PresentOn, IsUp
<1>5. PresentOn(c, q) = UpOn(c, q)
  BY <1>3, <1>4
<1> HIDE DEF A
<1>6. Cardinality(A \cup {i}) <= Cardinality(A) + 1
  <2>1. Cardinality(A \cup {i}) = IF i \in A THEN Cardinality(A) ELSE Cardinality(A) + 1
    BY <1>2, FS_AddElement
  <2> QED
    BY <1>2, <2>1
<1>7. Cardinality(UpOn(c, q)) <= c.phyrefs[q]
  <2>1. Cardinality(A \cup {i}) \in Nat
    <3>1. A \cup {i} \subseteq Ifc
      BY DEF A, UpOn
    <3> QED
      BY <3>1, IfcsAreFinite
  <2> DEFINE m == Cardinality(A \cup {i})
             n == Cardinality(A)
  <2>2. n <= s.phyrefs[q] /\ c.phyrefs[q] = s.phyrefs[q] + 1 /\ m <= n + 1 /\ m \in Nat /\ n \in Nat
    BY <1>2, <1>6, <2>1 DEF A
  <2> HIDE DEF m, n
  <2>3. m <= c.phyrefs[q]
    BY <1>2, <2>2
  <2> QED
    BY <1>3, <2>3 DEF m
<1> QED
  BY <1>5, <1>7 DEF Serving

(* An interface that is down, on a physical interface that serves the      *)
(* others, starts there.                                                   *)
LEMMA StartIfRunningKeeps ==
  ASSUME GroupsInvariant, NEW i \in Ifc, NEW e, running' = running,
         NEW d, GroupsInv(d), o' = StartIfRunning(d, i, e),
         d.phyrefs = o.phyrefs, d.state = [o.state EXCEPT ![i] = "Down"]
  PROVE  GroupsInvariant'
<1> DEFINE q == if_phyint[i]
<1>1. /\ o \in GroupsRecord /\ q \in Phyint /\ d \in GroupsRecord
      /\ IF q \in running THEN Serving(o, q) ELSE Idle(o, q)
  BY MembershipAssumption DEF GroupsInvariant, GroupsInv
<1>2. /\ o.state \in [Ifc -> IfcState] /\ o.phyrefs \in [Phyint -> Nat]
      /\ IsFiniteSet(UpOn(o, q)) /\ Cardinality(UpOn(o, q)) \in Nat
  BY <1>1, RecordTypes
<1>3. UpOn(d, q) = UpOn(o, q) \ {i}
  BY <1>2, Ones DEF UpOn
<1>4. CASE q \notin running
  <2>1. o' = d
    BY <1>4 DEF StartIfRunning
  <2>2. Idle(d, q)
    BY <1>1, <1>3, <1>4 DEF Idle
  <2>3. \A k \in Ifc \ {i} : d.state[k] = o.state[k]
    BY <1>2
  <2> QED
    BY <1>4, <2>1, <2>2, <2>3, GroupsStep
<1>5. CASE q \in running
  <2> DEFINE c == Start(d, i, e)
  <2>1. o' = c
    BY <1>5 DEF StartIfRunning
  <2>2. d.state[i] = "Down" /\ d \in GroupsRecord /\ Requested(d) /\ Counted(d)
    BY <1>2 DEF GroupsInv
  <2>3. /\ c \in GroupsRecord /\ Requested(c)
        /\ c.state = [d.state EXCEPT ![i] = c.state[i]] /\ IsUp(c.state[i])
        /\ c.phyrefs = [d.phyrefs EXCEPT ![q] = @ + 1]
        /\ Counted(c)
    <3>1. /\ c \in GroupsRecord /\ Requested(c)
          /\ d.state[i] = "Down" =>
               /\ c.state = [d.state EXCEPT ![i] = c.state[i]] /\ IsUp(c.state[i])
               /\ c.phyrefs = [d.phyrefs EXCEPT ![q] = @ + 1]
               /\ Counted(d) => Counted(c)
      BY <2>2, StartSound
    <3> HIDE DEF c
    <3> QED
      BY <2>2, <3>1
  <2> HIDE DEF c
  <2>4. PresentOn(d, q) \ {i} = UpOn(d, q) \ {i}
    <3>1. PresentOn(o, q) = UpOn(o, q)
      BY <1>1, <1>5 DEF Serving
    <3>2. PresentOn(d, q) \ {i} = PresentOn(o, q) \ {i}
      BY <1>2 DEF PresentOn
    <3> QED
      BY <1>3, <3>1, <3>2
  <2>5. Cardinality(UpOn(d, q)) <= d.phyrefs[q]
    <3> DEFINE A == UpOn(o, q)
               n == Cardinality(A)
               m == Cardinality(A \ {i})
    <3>1. n <= o.phyrefs[q]
      BY <1>1, <1>5 DEF Serving
    <3>2. m <= n /\ m \in Nat
      <4>1. A \ {i} \subseteq A /\ IsFiniteSet(A)
        BY <1>2
      <4> HIDE DEF A
      <4>2. m <= n /\ IsFiniteSet(A \ {i})
        BY <4>1, FS_Subset
      <4> QED
        BY <4>2, FS_CardinalityType
    <3>3. o.phyrefs[q] \in Nat /\ n \in Nat
      BY <1>1, <1>2
    <3> HIDE DEF m, n
    <3>4. m <= o.phyrefs[q]
      BY <3>1, <3>2, <3>3
    <3> QED
      BY <1>3, <3>4 DEF m
  <2>6. c.phyrefs[q] = d.phyrefs[q] + 1 /\ \A p \in Phyint \ {q} : c.phyrefs[p] = o.phyrefs[p]
    BY <1>1, <1>2, <2>3
  <2>7. Serving(c, q)
    BY <1>1, <2>3, <2>4, <2>5, <2>6, ServedStarted
  <2>8. \A k \in Ifc \ {i} : c.state[k] = o.state[k]
    BY <1>2, <2>3
  <2> QED
    BY <1>5, <2>1, <2>3, <2>6, <2>7, <2>8, GroupsStep DEF GroupsInv
<1> QED
  BY <1>4, <1>5

LEMMA CfgIfcKeeps ==
  ASSUME GroupsInvariant, NEW i \in Ifc, cfgIfc(i)
  PROVE  GroupsInvariant'
<1> DEFINE d == [o EXCEPT !.state[i] = "Down"]
<1>1. PICK e \in BOOLEAN : o' = StartIfRunning(d, i, e)
  BY DEF cfgIfc
<1>2. /\ o \in GroupsRecord /\ Requested(o) /\ Counted(o) /\ running' = running /\ o.state[i] = "None"
      /\ o.state \in [Ifc -> IfcState]
  BY RecordTypes DEF GroupsInvariant, GroupsInv, cfgIfc
<1>3. /\ d \in GroupsRecord /\ Requested(d)
      /\ d.state = [o.state EXCEPT ![i] = "Down"] /\ d.members = o.members
      /\ d.phyrefs = o.phyrefs
  BY <1>2, Ones, StateSet
<1> HIDE DEF d
<1>4. \A p : UpOn(d, p) = UpOn(o, p) /\ LeadingOn(d, p) = LeadingOn(o, p)
  BY <1>2, <1>3, Ones DEF UpOn, LeadingOn
<1>5. GroupsInv(d)
  BY <1>2, <1>3, <1>4 DEF Counted, GroupsInv
<1> QED
  BY <1>1, <1>2, <1>3, <1>5, StartIfRunningKeeps

LEMMA DownCounts ==
  ASSUME GroupsInvariant, NEW i \in Ifc, o.state[i] # "None"
  PROVE  LET d == Down(o, i)
         IN  GroupsInv(d) /\ d.state = [o.state EXCEPT ![i] = "Down"] /\ d.phyrefs = o.phyrefs
<1> DEFINE q == if_phyint[i]
<1>1. /\ o \in GroupsRecord /\ Requested(o) /\ Counted(o) /\ q \in Phyint
      /\ IF q \in running THEN Serving(o, q) ELSE Idle(o, q)
  BY MembershipAssumption DEF GroupsInvariant, GroupsInv
<1>2. IsUp(o.state[i]) \/ UpOn(o, q) = {}
  <2>1. q \in running => i \in UpOn(o, q)
    BY <1>1 DEF Serving, PresentOn
  <2> QED
    BY <1>1, <2>1 DEF Idle, UpOn
<1> QED
  BY <1>1, <1>2, DownSound DEF GroupsInv

LEMMA RestartKeeps ==
  ASSUME GroupsInvariant, NEW i \in Ifc, restart(i)
  PROVE  GroupsInvariant'
<1> DEFINE d == Down(o, i)
<1>1. PICK e \in BOOLEAN : o' = StartIfRunning(d, i, e)
  BY DEF restart
<1>2. running' = running /\ o.state[i] # "None"
  BY DEF restart
<1>3. GroupsInv(d) /\ d.state = [o.state EXCEPT ![i] = "Down"] /\ d.phyrefs = o.phyrefs
  BY <1>2, DownCounts
<1> HIDE DEF d
<1> QED
  BY <1>1, <1>2, <1>3, StartIfRunningKeeps

LEMMA DeleteIfcKeeps ==
  ASSUME GroupsInvariant, NEW i \in Ifc, DeleteIfc(i)
  PROVE  GroupsInvariant'
<1> DEFINE q == if_phyint[i]
           d == Down(o, i)
           b == [d EXCEPT !.state[i] = "None"]
           c == phy_detach(b, q)
<1>1. o' = c /\ running' = running /\ o.state[i] # "None"
  BY DEF DeleteIfc
<1>2. /\ o \in GroupsRecord /\ q \in Phyint
      /\ IF q \in running THEN Serving(o, q) ELSE Idle(o, q)
  BY MembershipAssumption DEF GroupsInvariant, GroupsInv
<1>3. /\ o.state \in [Ifc -> IfcState] /\ o.phyrefs \in [Phyint -> Nat]
      /\ IsFiniteSet(UpOn(o, q)) /\ Cardinality(UpOn(o, q)) \in Nat
  BY <1>2, RecordTypes
<1>4. GroupsInv(d) /\ d.state = [o.state EXCEPT ![i] = "Down"] /\ d.phyrefs = o.phyrefs
  BY <1>1, DownCounts
<1> HIDE DEF d
<1>5. /\ b \in GroupsRecord /\ Requested(b)
      /\ b.state = [d.state EXCEPT ![i] = "None"] /\ b.members = d.members /\ b.phyrefs = o.phyrefs
  BY <1>4, Ones, StateSet DEF GroupsInv
<1> HIDE DEF b
<1>6. /\ c \in GroupsRecord /\ Requested(c)
      /\ c.state = b.state /\ c.members = b.members
      /\ c.phyrefs = [o.phyrefs EXCEPT ![q] = IF @ = 0 THEN 0 ELSE @ - 1]
  BY <1>2, <1>5, DetachSound
<1> HIDE DEF c
<1>7. c.state = [o.state EXCEPT ![i] = "None"]
  BY <1>3, <1>4, <1>5, <1>6
<1>8. \A p : UpOn(c, p) = UpOn(d, p) /\ LeadingOn(c, p) = LeadingOn(d, p)
  BY <1>3, <1>4, <1>7, Ones DEF UpOn, LeadingOn
<1>9. GroupsInv(c)
  BY <1>4, <1>5, <1>6, <1>8 DEF Counted, GroupsInv
<1>10. UpOn(c, q) = UpOn(o, q) \ {i}
  BY <1>3, <1>7, Ones DEF UpOn
<1>11. q \notin running => Idle(c, q)
  BY <1>2, <1>10 DEF Idle
<1>12. ASSUME q \in running
       PROVE  Serving(c, q)
  <2> DEFINE A == UpOn(o, q)
             n == Cardinality(A)
             m == Cardinality(A \ {i})
  <2>1. PresentOn(o, q) = A /\ n <= o.phyrefs[q]
    BY <1>2, <1>12 DEF Serving
  <2>2. PresentOn(c, q) = PresentOn(o, q) \ {i}
    BY <1>3, <1>7 DEF PresentOn
  <2>3. i \in A
    BY <1>1, <2>1 DEF PresentOn
  <2>4. m = n - 1 /\ m \in Nat
    <3>1. IsFiniteSet(A)
      BY <1>3
    <3> HIDE DEF A
    <3>2. m = n - 1 /\ IsFiniteSet(A \ {i})
      BY <2>3, <3>1, FS_RemoveElement
    <3> QED
      BY <3>2, FS_CardinalityType
  <2>5. o.phyrefs[q] \in Nat /\ n \in Nat
    BY <1>2, <1>3
  <2> HIDE DEF m, n
  <2>6. o.phyrefs[q] # 0 /\ m <= o.phyrefs[q] - 1
    BY <2>1, <2>4, <2>5
  <2>7. c.phyrefs[q] = o.phyrefs[q] - 1
    BY <1>2, <1>3, <1>6, <2>6
  <2> QED
    BY <1>10, <2>1, <2>2, <2>6, <2>7 DEF Serving, m
<1>13. /\ \A p \in Phyint \ {q} : c.phyrefs[p] = o.phyrefs[p]
       /\ \A k \in Ifc \ {i} : c.state[k] = o.state[k]
  BY <1>3, <1>6, <1>7
<1> QED
  BY <1>1, <1>9, <1>11, <1>12, <1>13, GroupsStep

LEMMA ElectKeeps ==
  ASSUME GroupsInvariant, NEW i \in Ifc, ifa_elect(i)
  PROVE  GroupsInvariant'
<1> DEFINE q == if_phyint[i]
           os == o.state[i]
<1>1. PICK ns \in {"Other", "Backup", "DR"} \ {os} : o' = EndFsm([o EXCEPT !.state[i] = ns], i, os)
  BY DEF ifa_elect
<1> DEFINE b == [o EXCEPT !.state[i] = ns]
           c == EndFsm(b, i, os)
<1>2. /\ o \in GroupsRecord /\ Requested(o) /\ Counted(o) /\ q \in Phyint /\ running' = running
      /\ IF q \in running THEN Serving(o, q) ELSE Idle(o, q)
  BY MembershipAssumption DEF GroupsInvariant, GroupsInv, ifa_elect
<1>3. o.state \in [Ifc -> IfcState] /\ o.members \in [Phyint \X Group -> Nat]
  BY <1>2, RecordTypes
<1>4. ns \in IfcState /\ IsUp(ns) /\ os \in IfcState /\ IsUp(os)
  BY <1>3, Ones DEF ifa_elect, IsUp
<1>5. /\ b \in GroupsRecord /\ Requested(b)
      /\ b.state = [o.state EXCEPT ![i] = ns] /\ b.members = o.members /\ b.phyrefs = o.phyrefs
  BY <1>2, <1>4, StateSet
<1>6. o' = c
  BY <1>1
<1> HIDE DEF b
<1>7. b.state[i] = ns
  BY <1>3, <1>5
<1>8. /\ c \in GroupsRecord /\ Requested(c)
      /\ c.state = b.state /\ c.phyrefs = b.phyrefs
      /\ \A p \in Phyint : c.members[<<p, AllSPFRouters>>] = b.members[<<p, AllSPFRouters>>]
      /\ \A p \in Phyint \ {q} : c.members[<<p, AllDRouters>>] = b.members[<<p, AllDRouters>>]
      /\ (Leads(os) => b.members[<<q, AllDRouters>>] > 0) =>
           c.members[<<q, AllDRouters>>]
             = b.members[<<q, AllDRouters>>] + One(Leads(b.state[i])) - One(Leads(os))
  BY <1>4, <1>5, EndFsmSound
<1> HIDE DEF c
<1>9. Leads(os) => b.members[<<q, AllDRouters>>] > 0
  BY <1>2, <1>5, CountedPositive
<1>10. One(IsUp(ns)) = 1 /\ One(IsUp(os)) = 1
  BY <1>4 DEF One
<1>11. c.members[<<q, AllSPFRouters>>] = o.members[<<q, AllSPFRouters>>] + One(IsUp(ns)) - One(IsUp(os))
  <2>1. o.members[<<q, AllSPFRouters>>] \in Nat
    BY <1>2, <1>3, Groups
  <2>2. c.members[<<q, AllSPFRouters>>] = o.members[<<q, AllSPFRouters>>]
    BY <1>2, <1>5, <1>8
  <2> QED
    BY <1>10, <2>1, <2>2
<1>12. c.members[<<q, AllDRouters>>] = o.members[<<q, AllDRouters>>] + One(Leads(ns)) - One(Leads(os))
  BY <1>5, <1>7, <1>8, <1>9
<1>13. c.state = [o.state EXCEPT ![i] = ns] /\ c.phyrefs = o.phyrefs
  BY <1>5, <1>8
<1>14. Counted(c)
  <2>1. \A p \in Phyint \ {q} : /\ c.members[<<p, AllSPFRouters>>] = o.members[<<p, AllSPFRouters>>]
                               /\ c.members[<<p, AllDRouters>>] = o.members[<<p, AllDRouters>>]
    BY <1>5, <1>8
  <2>2. c \in GroupsRecord /\ c.state = [o.state EXCEPT ![i] = ns]
    BY <1>8, <1>13
  <2> QED
    BY <1>2, <1>4, <1>11, <1>12, <2>1, <2>2, CountedStep
<1>15. i \in UpOn(o, q) /\ UpOn(c, q) = UpOn(o, q) /\ PresentOn(c, q) = PresentOn(o, q)
  BY <1>3, <1>4, <1>13 DEF UpOn, PresentOn, IsUp
<1>16. q \in running /\ Serving(c, q)
  BY <1>2, <1>13, <1>15 DEF Serving, Idle
<1>17. \A k \in Ifc \ {i} : c.state[k] = o.state[k]
  BY <1>3, <1>13
<1> QED
  BY <1>2, <1>6, <1>8, <1>13, <1>14, <1>16, <1>17, GroupsStep DEF GroupsInv

LEMMA OnIs ==
  ASSUME NEW p
  PROVE  On(p) = PresentOn(o, p) /\ On(p) \subseteq Ifc /\ IsFiniteSet(On(p))
<1>1. On(p) = PresentOn(o, p) /\ On(p) \subseteq Ifc
  BY DEF On, PresentOn
<1> QED
  BY <1>1, IfcsAreFinite

Stopped(S) == FoldSet(LAMBDA i, s : Down(s, i), o, S)

(* The interfaces of s are down, of those on a physical interface that     *)
(* stops.                                                                  *)
LEMMA AllDown ==
  ASSUME GroupsInvariant, NEW p \in Phyint, p \in running
  PROVE  LET c == Stopped(On(p))
         IN  /\ GroupsInv(c) /\ c.phyrefs = o.phyrefs
             /\ c.state = [i \in Ifc |-> IF i \in On(p) THEN "Down" ELSE o.state[i]]
<1> DEFINE S == On(p)
           X == {r \in GroupsRecord : Requested(r)}
           F == [a \in X \X S |-> Down(a[1], a[2])]
           pick(s) == CHOOSE x \in s : TRUE
           IsFold(w) ==
             w = [s \in SUBSET S |-> IF s = {} THEN o ELSE Down(w[s \ {pick(s)}], pick(s))]
           v == CHOOSE w : IsFold(w)
           Known(s, r) ==
             /\ GroupsInv(r) /\ r.phyrefs = o.phyrefs
             /\ r.state = [i \in Ifc |-> IF i \in s THEN "Down" ELSE o.state[i]]
           T == {s \in SUBSET S : Known(s, v[s])}
<1>1. /\ S = PresentOn(o, p) /\ S = UpOn(o, p) /\ S \subseteq Ifc /\ IsFiniteSet(S)
      /\ GroupsInv(o) /\ o \in GroupsRecord
  BY OnIs DEF GroupsInvariant, Serving, GroupsInv
<1>2. o.state \in [Ifc -> IfcState] /\ \A i \in S : IsUp(o.state[i]) /\ if_phyint[i] = p
  BY <1>1, RecordTypes DEF UpOn
<1> HIDE DEF S
<1>3. Stopped(S) = v[S]
  BY Zenon DEF Stopped, FoldSet, MapThenFoldSet
<1>4. \A s \in SUBSET S : s # {} => pick(s) \in s
  OBVIOUS
<1>5. \A r \in X, i \in S : Down(r, i) \in X
  BY <1>1, DownSound
<1>6. F \in [X \X S -> X] /\ o \in X
  BY <1>1, <1>5 DEF GroupsInv
<1>7. \A r \in X, i \in S : F[<<r, i>>] = Down(r, i)
  OBVIOUS
<1> HIDE DEF F, X
<1>8. PICK f \in [SUBSET S -> X] : FoldIs(f, S, o, F)
  BY <1>1, <1>6, FoldExists
<1>9. IsFold(f)
  <2>1. ASSUME NEW s \in SUBSET S, s # {}
        PROVE  F[<<f[s \ {pick(s)}], pick(s)>>] = Down(f[s \ {pick(s)}], pick(s))
    <3>1. pick(s) \in S /\ s \ {pick(s)} \in SUBSET S
      BY <1>4, <2>1
    <3> HIDE DEF pick
    <3> QED
      BY <1>7, <3>1
  <2>2. f = [s \in SUBSET S |-> IF s = {} THEN o ELSE F[<<f[s \ {pick(s)}], pick(s)>>]]
    BY <1>8 DEF FoldIs
  <2> HIDE DEF pick
  <2> QED
    BY <2>1, <2>2
<1>10. IsFold(v)
  <2> HIDE DEF IsFold
  <2> QED
    BY <1>9
<1> HIDE DEF v
<1>11. v[{}] = o /\ \A s \in SUBSET S : s # {} => v[s] = Down(v[s \ {pick(s)}], pick(s))
  <2> HIDE DEF pick
  <2> QED
    BY <1>10
<1>12. {} \in T
  <2>1. o.state = [i \in Ifc |-> o.state[i]]
    BY <1>2
  <2> QED
    BY <1>1, <1>11, <2>1
<1>13. ASSUME NEW s \in SUBSET S, s # {}, \A x \in s : s \ {x} \in T
       PROVE  s \in T
  <2> DEFINE x == pick(s)
             a == v[s \ {x}]
             c == Down(a, x)
  <2>1. x \in s /\ x \in S /\ x \in Ifc
    BY <1>1, <1>4, <1>13
  <2>2. v[s] = c
    BY <1>11, <1>13
  <2> HIDE DEF pick, x
  <2>3. Known(s \ {x}, a)
    BY <1>13, <2>1
  <2> HIDE DEF a
  <2>4. a \in GroupsRecord /\ Requested(a) /\ Counted(a) /\ IsUp(a.state[x])
    BY <1>2, <2>1, <2>3 DEF GroupsInv
  <2>5. /\ c \in GroupsRecord /\ Requested(c) /\ Counted(c)
        /\ c.state = [a.state EXCEPT ![x] = "Down"] /\ c.phyrefs = a.phyrefs
    BY <2>1, <2>4, DownSound
  <2> HIDE DEF c
  <2>6. c.state = [i \in Ifc |-> IF i \in s THEN "Down" ELSE o.state[i]]
    BY <2>1, <2>3, <2>5
  <2> QED
    BY <2>2, <2>3, <2>5, <2>6 DEF GroupsInv
<1>14. SUBSET S \subseteq T
  <2> HIDE DEF T
  <2> QED
    BY <1>1, <1>12, <1>13, SubsetInduction
<1>15. Known(S, v[S])
  BY <1>14
<1> HIDE DEF Known
<1>16. Known(S, Stopped(S))
  BY <1>3, <1>15
<1> QED
  BY <1>16 DEF S, Known

LEMMA PhyDownKeeps ==
  ASSUME GroupsInvariant, NEW p \in Phyint, phy_down(p)
  PROVE  GroupsInvariant'
<1> DEFINE S == On(p)
           c == Stopped(S)
<1>1. p \in running /\ running' = running \ {p} /\ o' = c
  BY Zenon DEF phy_down, Stopped
<1>2. /\ GroupsInv(c) /\ c.phyrefs = o.phyrefs
      /\ c.state = [i \in Ifc |-> IF i \in S THEN "Down" ELSE o.state[i]]
  BY <1>1, AllDown
<1> HIDE DEF c
<1>3. S = PresentOn(o, p)
  BY OnIs
<1>4. Idle(c, p)
  BY <1>2, <1>3, Ones DEF Idle, UpOn, PresentOn, IsUp
<1>5. ASSUME NEW q \in Phyint, q # p
      PROVE  IF q \in running THEN Serving(c, q) ELSE Idle(c, q)
  <2>1. UpOn(c, q) = UpOn(o, q) /\ PresentOn(c, q) = PresentOn(o, q)
    BY <1>2, <1>3, <1>5 DEF UpOn, PresentOn
  <2> QED
    BY <1>2, <2>1 DEF GroupsInvariant, Serving, Idle
<1>6. \A q \in Phyint : IF q \in running \ {p} THEN Serving(c, q) ELSE Idle(c, q)
  BY <1>4, <1>5
<1> QED
  BY <1>1, <1>2, <1>6, GroupsSet

Started(e, S) == FoldSet(LAMBDA i, s : Start(s, i, e[i]), o, S)

(* The interfaces of s are up, of those on a physical interface that       *)
(* begins to run, and each of them has taken a reference.                  *)
LEMMA AllUp ==
  ASSUME GroupsInvariant, NEW p \in Phyint, p \notin running, NEW e
  PROVE  LET c == Started(e, On(p))
         IN  /\ GroupsInv(c)
             /\ c.phyrefs = [o.phyrefs EXCEPT ![p] = @ + Cardinality(On(p))]
             /\ \A i \in Ifc : IF i \in On(p) THEN IsUp(c.state[i]) ELSE c.state[i] = o.state[i]
<1> DEFINE S == On(p)
           X == {r \in GroupsRecord : Requested(r)}
           F == [a \in X \X S |-> Start(a[1], a[2], e[a[2]])]
           pick(s) == CHOOSE x \in s : TRUE
           IsFold(w) ==
             w = [s \in SUBSET S |-> IF s = {} THEN o
                                     ELSE Start(w[s \ {pick(s)}], pick(s), e[pick(s)])]
           v == CHOOSE w : IsFold(w)
           Known(s, r) ==
             /\ GroupsInv(r)
             /\ r.phyrefs = [o.phyrefs EXCEPT ![p] = @ + Cardinality(s)]
             /\ \A i \in Ifc : IF i \in s THEN IsUp(r.state[i]) ELSE r.state[i] = o.state[i]
           T == {s \in SUBSET S : Known(s, v[s])}
<1>1. /\ S = PresentOn(o, p) /\ UpOn(o, p) = {} /\ S \subseteq Ifc /\ IsFiniteSet(S)
      /\ GroupsInv(o) /\ o \in GroupsRecord
  BY OnIs DEF GroupsInvariant, Idle, GroupsInv
<1>2. /\ o.state \in [Ifc -> IfcState] /\ o.phyrefs \in [Phyint -> Nat]
      /\ \A i \in S : o.state[i] = "Down" /\ if_phyint[i] = p
  BY <1>1, RecordTypes DEF UpOn, PresentOn, IsUp
<1> HIDE DEF S
<1>3. Started(e, S) = v[S]
  BY Zenon DEF Started, FoldSet, MapThenFoldSet
<1>4. \A s \in SUBSET S : s # {} => pick(s) \in s
  OBVIOUS
<1>5. \A r \in X, i \in S : Start(r, i, e[i]) \in X
  <2> SUFFICES ASSUME NEW r \in X, NEW i \in S
               PROVE  Start(r, i, e[i]) \in X
    OBVIOUS
  <2>1. r \in GroupsRecord /\ Requested(r) /\ i \in Ifc
    BY <1>1
  <2>2. Start(r, i, e[i]) \in GroupsRecord /\ Requested(Start(r, i, e[i]))
    BY <2>1, StartSound
  <2> QED
    BY <2>2
<1>6. F \in [X \X S -> X] /\ o \in X
  BY <1>1, <1>5 DEF GroupsInv
<1>7. \A r \in X, i \in S : F[<<r, i>>] = Start(r, i, e[i])
  OBVIOUS
<1> HIDE DEF F, X
<1>8. PICK f \in [SUBSET S -> X] : FoldIs(f, S, o, F)
  BY <1>1, <1>6, FoldExists
<1>9. IsFold(f)
  <2>1. ASSUME NEW s \in SUBSET S, s # {}
        PROVE  F[<<f[s \ {pick(s)}], pick(s)>>] = Start(f[s \ {pick(s)}], pick(s), e[pick(s)])
    <3>1. pick(s) \in S /\ s \ {pick(s)} \in SUBSET S
      BY <1>4, <2>1
    <3> HIDE DEF pick
    <3> QED
      BY <1>7, <3>1
  <2>2. f = [s \in SUBSET S |-> IF s = {} THEN o ELSE F[<<f[s \ {pick(s)}], pick(s)>>]]
    BY <1>8 DEF FoldIs
  <2> HIDE DEF pick
  <2> QED
    BY <2>1, <2>2
<1>10. IsFold(v)
  <2> HIDE DEF IsFold
  <2> QED
    BY <1>9
<1> HIDE DEF v
<1>11. /\ v[{}] = o
       /\ \A s \in SUBSET S : s # {} => v[s] = Start(v[s \ {pick(s)}], pick(s), e[pick(s)])
  <2> HIDE DEF pick
  <2> QED
    BY <1>10
<1>12. {} \in T
  <2>1. Cardinality({}) = 0
    BY FS_EmptySet
  <2>2. o.phyrefs = [o.phyrefs EXCEPT ![p] = @ + 0]
    BY <1>2
  <2> QED
    BY <1>1, <1>11, <2>1, <2>2
<1>13. ASSUME NEW s \in SUBSET S, s # {}, \A x \in s : s \ {x} \in T
       PROVE  s \in T
  <2> DEFINE x == pick(s)
             a == v[s \ {x}]
             c == Start(a, x, e[x])
             n == Cardinality(s)
             m == Cardinality(s \ {x})
  <2>1. x \in s /\ x \in S /\ x \in Ifc /\ IsFiniteSet(s)
    BY <1>1, <1>4, <1>13, FS_Subset
  <2>2. v[s] = c
    BY <1>11, <1>13
  <2> HIDE DEF pick, x
  <2>3. Known(s \ {x}, a)
    BY <1>13, <2>1
  <2> HIDE DEF a
  <2>4. a \in GroupsRecord /\ Requested(a) /\ Counted(a) /\ a.state[x] = "Down" /\ if_phyint[x] = p
    BY <1>2, <2>1, <2>3 DEF GroupsInv
  <2>5. /\ c \in GroupsRecord /\ Requested(c)
        /\ a.state[x] = "Down" =>
             /\ c.state = [a.state EXCEPT ![x] = c.state[x]] /\ IsUp(c.state[x])
             /\ c.phyrefs = [a.phyrefs EXCEPT ![if_phyint[x]] = @ + 1]
             /\ Counted(a) => Counted(c)
    BY <2>1, <2>4, StartSound
  <2> HIDE DEF c
  <2>6. a.state \in [Ifc -> IfcState]
    BY <2>4, RecordTypes
  <2>7. \A i \in Ifc : IF i \in s THEN IsUp(c.state[i]) ELSE c.state[i] = o.state[i]
    BY <2>1, <2>3, <2>4, <2>5, <2>6
  <2>8. n = m + 1 /\ m \in Nat /\ n \in Nat
    <3>1. m = n - 1 /\ IsFiniteSet(s \ {x}) /\ n \in Nat
      BY <2>1, FS_RemoveElement, FS_CardinalityType
    <3>2. m \in Nat
      BY <3>1, FS_CardinalityType
    <3> HIDE DEF m, n
    <3> QED
      BY <3>1, <3>2
  <2>9. c.phyrefs = [o.phyrefs EXCEPT ![p] = @ + n]
    <3>1. a.phyrefs = [o.phyrefs EXCEPT ![p] = @ + m]
      BY <2>3
    <3>2. c.phyrefs = [a.phyrefs EXCEPT ![p] = @ + 1]
      BY <2>4, <2>5
    <3> HIDE DEF m, n
    <3> QED
      BY <1>2, <2>8, <3>1, <3>2
  <2> HIDE DEF n, m
  <2>10. Known(s, c)
    BY <2>4, <2>5, <2>7, <2>9 DEF GroupsInv, n
  <2> QED
    BY <2>2, <2>10
<1>14. SUBSET S \subseteq T
  <2> HIDE DEF T
  <2> QED
    BY <1>1, <1>12, <1>13, SubsetInduction
<1>15. Known(S, v[S])
  BY <1>14
<1> HIDE DEF Known
<1>16. Known(S, Started(e, S))
  BY <1>3, <1>15
<1> QED
  BY <1>16 DEF S, Known

LEMMA PhyUpKeeps ==
  ASSUME GroupsInvariant, NEW p \in Phyint, phy_up(p)
  PROVE  GroupsInvariant'
<1> DEFINE S == On(p)
<1>1. p \notin running /\ running' = running \cup {p}
  BY Zenon DEF phy_up
<1>2. PICK e \in [S -> BOOLEAN] : o' = Started(e, S)
  BY Zenon DEF phy_up, Started
<1> DEFINE c == Started(e, S)
<1>3. /\ GroupsInv(c)
      /\ c.phyrefs = [o.phyrefs EXCEPT ![p] = @ + Cardinality(S)]
      /\ \A i \in Ifc : IF i \in S THEN IsUp(c.state[i]) ELSE c.state[i] = o.state[i]
  BY <1>1, AllUp
<1>4. o' = c
  BY <1>2
<1> HIDE DEF c
<1>5. S = PresentOn(o, p) /\ S \subseteq Ifc /\ o \in GroupsRecord /\ Idle(o, p)
  BY <1>1, OnIs DEF GroupsInvariant, GroupsInv
<1>6. o.phyrefs \in [Phyint -> Nat] /\ Cardinality(S) \in Nat
  BY <1>5, RecordTypes, IfcsAreFinite
<1>7. UpOn(c, p) = S /\ PresentOn(c, p) = S
  BY <1>3, <1>5 DEF UpOn, PresentOn, IsUp, Idle
<1>8. Serving(c, p)
  <2> DEFINE n == Cardinality(S)
  <2>1. c.phyrefs[p] = o.phyrefs[p] + n
    BY <1>3, <1>6
  <2>2. o.phyrefs[p] \in Nat
    BY <1>6
  <2> HIDE DEF n
  <2>3. n \in Nat
    BY <1>6 DEF n
  <2>4. n <= c.phyrefs[p]
    BY <2>1, <2>2, <2>3
  <2> QED
    BY <1>7, <2>4 DEF Serving, n
<1>9. ASSUME NEW q \in Phyint, q # p
      PROVE  IF q \in running THEN Serving(c, q) ELSE Idle(c, q)
  <2>1. UpOn(c, q) = UpOn(o, q) /\ PresentOn(c, q) = PresentOn(o, q)
    BY <1>3, <1>5, <1>9 DEF UpOn, PresentOn
  <2>2. c.phyrefs[q] = o.phyrefs[q]
    BY <1>3, <1>6, <1>9
  <2> QED
    BY <2>1, <2>2 DEF GroupsInvariant, Serving, Idle
<1>10. \A q \in Phyint : IF q \in running \cup {p} THEN Serving(c, q) ELSE Idle(c, q)
  BY <1>8, <1>9
<1> HIDE DEF S
<1> QED
  BY <1>1, <1>3, <1>4, <1>10, GroupsSet

LEMMA GroupsKeep == GroupsInvariant /\ [GroupsNext]_phyVars => GroupsInvariant'
<1> SUFFICES ASSUME GroupsInvariant, [GroupsNext]_phyVars
             PROVE  GroupsInvariant'
  OBVIOUS
<1>1. ASSUME NEW i \in Ifc, cfgIfc(i)
      PROVE  GroupsInvariant'
  BY <1>1, CfgIfcKeeps
<1>2. ASSUME NEW i \in Ifc, DeleteIfc(i)
      PROVE  GroupsInvariant'
  BY <1>2, DeleteIfcKeeps
<1>3. ASSUME NEW i \in Ifc, restart(i)
      PROVE  GroupsInvariant'
  BY <1>3, RestartKeeps
<1>4. ASSUME NEW i \in Ifc, ifa_elect(i)
      PROVE  GroupsInvariant'
  BY <1>4, ElectKeeps
<1>5. ASSUME NEW p \in Phyint, phy_down(p)
      PROVE  GroupsInvariant'
  BY <1>5, PhyDownKeeps
<1>6. ASSUME NEW p \in Phyint, phy_up(p)
      PROVE  GroupsInvariant'
  BY <1>6, PhyUpKeeps
<1>7. CASE UNCHANGED phyVars
  BY <1>7
  DEF phyVars, GroupsInvariant, GroupsInv, Requested, Counted, Serving, Idle, UpOn, PresentOn, LeadingOn
<1> QED
  BY <1>1, <1>2, <1>3, <1>4, <1>5, <1>6, <1>7 DEF GroupsNext

LEMMA GroupsInvariantHolds == GroupsSpec => []GroupsInvariant
BY GroupsInitSound, GroupsKeep, PTL DEF GroupsSpec

(* However interfaces come, go, restart and win elections, several on one  *)
(* physical interface too, the router listens to AllSPFRouters exactly     *)
(* where one of them is up and to AllDRouters exactly where one leads, and *)
(* keeps the physical interface of every interface that is up open: the    *)
(* references that phyint.C counts never fall below their users, although  *)
(* ifa_reset() leaves the group in every state, and the destructor gives   *)
(* back a reference that a start may never have taken.                     *)
THEOREM MembershipStaysExact == GroupsSpec => []MembershipExact
<1>1. GroupsInvariant => MembershipExact
  <2> SUFFICES ASSUME GroupsInvariant, NEW p \in Phyint
               PROVE  /\ o.members[<<p, AllSPFRouters>>] = Cardinality(Up(p))
                      /\ o.members[<<p, AllDRouters>>]
                           = Cardinality({i \in Up(p) : Leads(o.state[i])})
                      /\ \A g \in Group : <<p, g>> \in o.joined <=> o.members[<<p, g>>] > 0
                      /\ p \in o.open <=> o.phyrefs[p] > 0
                      /\ Up(p) # {} => p \in o.open
    BY DEF MembershipExact
  <2>1. o \in GroupsRecord /\ Requested(o) /\ Counted(o) /\ IF p \in running THEN Serving(o, p) ELSE Idle(o, p)
    BY DEF GroupsInvariant, GroupsInv
  <2>2. Up(p) = UpOn(o, p) /\ {i \in Up(p) : Leads(o.state[i])} = LeadingOn(o, p)
    BY Ones DEF Up, On, UpOn, LeadingOn, IsUp, Leads
  <2>3. UpOn(o, p) # {} => o.phyrefs[p] > 0
    <3> DEFINE A == UpOn(o, p)
               n == Cardinality(A)
    <3>1. IsFiniteSet(A) /\ n \in Nat /\ o.phyrefs[p] \in Nat
      BY <2>1, RecordTypes
    <3>2. A # {} => n <= o.phyrefs[p]
      BY <2>1 DEF Serving, Idle
    <3> HIDE DEF A
    <3>3. A # {} => n # 0
      BY <3>1, FS_EmptySet
    <3> HIDE DEF n
    <3>4. A # {} => o.phyrefs[p] > 0
      BY <3>1, <3>2, <3>3
    <3> QED
      BY <3>4 DEF A
  <2> QED
    BY <2>1, <2>2, <2>3 DEF Requested, Counted
<1> QED
  BY <1>1, GroupsInvariantHolds, PTL
-----------------------------------------------------------------------------
(* TcpPkt: messages over a stream.                                         *)

(* Bytes in a row: each has before it and behind it, as far as there are   *)
(* any, the bytes of its message, and none is there twice.                 *)
MsgRecord == [no : Nat, len : Nat]
ByteRecord == [msg : Nat, at : Nat, len : Nat]

Whole(w, s) ==
  /\ w \in Seq(ByteRecord)
  /\ \A i \in 1..Len(w) :
       /\ w[i].msg \in 1..Len(s) /\ w[i].len = s[w[i].msg].len
       /\ w[i].at \in 1..w[i].len /\ w[i].at <= i
  /\ \A i \in 1..Len(w) : \A j \in 1..w[i].len :
       i - w[i].at + j <= Len(w) =>
         w[i - w[i].at + j] = [msg |-> w[i].msg, at |-> j, len |-> w[i].len]
  /\ \A i, j \in 1..Len(w) : w[i] = w[j] => i = j

Complete(w) == w = <<>> \/ w[Len(w)].at = w[Len(w)].len

Mentions(w) == {w[i].msg : i \in 1..Len(w)}
Received(g) == {g[k][1].msg : k \in 1..Len(g)}
Queued(q)   == {q[k].no : k \in 1..Len(q)}

SentSound(s) ==
  s \in Seq(MsgRecord) /\ \A k \in 1..Len(s) : s[k].no = k /\ s[k].len >= HdrLen

QueueSound(q, x, s) ==
  /\ q \in Seq(MsgRecord)
  /\ \A k \in 1..Len(q) : q[k].no \in 1..Len(s) /\ q[k] = s[q[k].no]
  /\ \A j, k \in 1..Len(q) : q[j].no = q[k].no => j = k
  /\ x \in {0, HdrLen} /\ (x # 0 => q # <<>>)

GotSound(g, s) ==
  /\ g \in Seq(Seq(ByteRecord))
  /\ \A k \in 1..Len(g) : g[k][1].msg \in 1..Len(s) /\ g[k] = BytesOf(s[g[k][1].msg])
  /\ \A j, k \in 1..Len(g) : g[j][1].msg = g[k][1].msg => j = k

LastIs(w, m, n) == w # <<>> /\ w[Len(w)] = [msg |-> m.no, at |-> n, len |-> m.len]

(* Between header and body. *)
Begun(w, q, x) ==
  IF x = 0 \/ q[1].len = HdrLen THEN Complete(w)
  ELSE LastIs(w, q[1], HdrLen)

(* Each message is in one place, but that one whose header was sent is     *)
(* still in the queue.                                                     *)
Accounted(q, x, w, g, s) ==
  /\ Received(g) \cap Mentions(w) = {}
  /\ \A k \in 1..Len(q) : q[k].no \in Received(g) \cup Mentions(w) <=> k = 1 /\ x # 0
  /\ 1..Len(s) \subseteq Received(g) \cup Mentions(w) \cup Queued(q)

StreamInv(q, x, w, g, s) ==
  /\ SentSound(s) /\ QueueSound(q, x, s) /\ GotSound(g, s)
  /\ Whole(w, s) /\ Begun(w, q, x) /\ Accounted(q, x, w, g, s)

Unfinished(r) == r \in Seq(ByteRecord) /\ (r # <<>> => Len(r) < r[1].len)

Flow == rcvbuff \o stream

StreamInvariant ==
  /\ StreamInv(queue, xmt_done, Flow, got, sent)
  /\ Unfinished(rcvbuff) /\ stream \in Seq(ByteRecord)

-----------------------------------------------------------------------------
(* A message that was sent, and bytes of it behind its first f. *)
Known(m, s) == m \in MsgRecord /\ m.no \in 1..Len(s) /\ s[m.no] = m

PartOf(b, m, f) ==
  /\ b \in Seq(ByteRecord)
  /\ \A i \in 1..Len(b) : b[i] = [msg |-> m.no, at |-> f + i, len |-> m.len]

LEMMA BytesType ==
  ASSUME NEW m \in MsgRecord, NEW n \in Nat, NEW f \in Nat
  PROVE  [i \in 1..n |-> Byte(m, f + i)] \in Seq(ByteRecord)
  BY DEF Byte, MsgRecord, ByteRecord

LEMMA ConcatAt ==
  ASSUME NEW X, NEW v \in Seq(X), NEW w \in Seq(X)
  PROVE  /\ v \o w \in Seq(X) /\ Len(v \o w) = Len(v) + Len(w)
         /\ \A i \in 1..Len(v) : (v \o w)[i] = v[i]
         /\ \A i \in 1..Len(v \o w) : i - Len(v) \in 1..Len(w) => (v \o w)[i] = w[i - Len(v)]
         /\ \A i \in 1..Len(v \o w) : i \in 1..Len(v) \/ i - Len(v) \in 1..Len(w)
  OBVIOUS

LEMMA WholeTypes ==
  ASSUME NEW s, NEW w, Whole(w, s)
  PROVE  /\ w \in Seq(ByteRecord) /\ Len(w) \in Nat
         /\ \A i \in 1..Len(w) :
              /\ w[i] \in ByteRecord /\ w[i].msg \in Nat /\ w[i].at \in Nat /\ w[i].len \in Nat
              /\ 1 <= w[i].at /\ w[i].at <= w[i].len /\ w[i].at <= i
<1>1. w \in Seq(ByteRecord)
  BY DEF Whole
<1>2. \A i \in 1..Len(w) : w[i] \in ByteRecord
  BY <1>1
<1>3. \A x \in ByteRecord : x.msg \in Nat /\ x.at \in Nat /\ x.len \in Nat
  BY DEF ByteRecord
<1>4. \A i \in 1..Len(w) : w[i].at \in 1..w[i].len /\ w[i].at <= i
  BY DEF Whole
<1> QED
  BY <1>1, <1>2, <1>3, <1>4

LEMMA WholeAt ==
  ASSUME NEW s, NEW w, Whole(w, s), NEW i \in 1..Len(w), NEW j \in 1..w[i].len,
         NEW p, p = i - w[i].at + j, p <= Len(w)
  PROVE  w[p] = [msg |-> w[i].msg, at |-> j, len |-> w[i].len]
  BY DEF Whole

LEMMA WholeOnce ==
  ASSUME NEW s, NEW w, Whole(w, s), NEW i \in 1..Len(w), NEW j \in 1..Len(w), w[i] = w[j]
  PROVE  i = j
  BY DEF Whole

(* Behind a complete message a part of a new one, from its first byte. *)
LEMMA BeginMessage ==
  ASSUME NEW s, SentSound(s), NEW w, Whole(w, s), Complete(w),
         NEW m, Known(m, s), m.no \notin Mentions(w),
         NEW b, PartOf(b, m, 0), 1 <= Len(b), Len(b) <= m.len
  PROVE  /\ Whole(w \o b, s) /\ Mentions(w \o b) = Mentions(w) \cup {m.no}
         /\ LastIs(w \o b, m, Len(b))
<1> DEFINE c == w \o b
           N == Len(w)
           n == Len(b)
<1>1. b \in Seq(ByteRecord) /\ n \in Nat /\ n >= 1 /\ n <= m.len /\ w \in Seq(ByteRecord)
      /\ \A i \in 1..n : b[i] = [msg |-> m.no, at |-> i, len |-> m.len]
  BY DEF PartOf, Whole
<1>2. /\ c \in Seq(ByteRecord) /\ Len(c) = N + n /\ N \in Nat
      /\ \A i \in 1..N : c[i] = w[i]
      /\ \A i \in 1..Len(c) : i - N \in 1..n =>
           c[i] = [msg |-> m.no, at |-> i - N, len |-> m.len]
      /\ \A i \in 1..Len(c) : i \in 1..N \/ i - N \in 1..n
  <2>1. /\ c \in Seq(ByteRecord) /\ Len(c) = N + n /\ N \in Nat
        /\ \A i \in 1..N : c[i] = w[i]
        /\ \A i \in 1..Len(c) : i - N \in 1..n => c[i] = b[i - N]
    BY <1>1, ConcatAt
  <2>2. ASSUME NEW i \in 1..Len(c), i - N \in 1..n
        PROVE  c[i] = [msg |-> m.no, at |-> i - N, len |-> m.len]
    <3>1. c[i] = b[i - N]
      BY <2>1, <2>2
    <3> QED
      BY <1>1, <2>2, <3>1
  <2> HIDE DEF c
  <2> QED
    BY <2>1, <2>2
<1>3. m.no \in Nat /\ m.len \in Nat
  BY DEF MsgRecord, Known
<1> HIDE DEF c, n
<1>4. ASSUME NEW i \in 1..N
      PROVE  /\ w[i].at \in 1..w[i].len /\ w[i].at <= i /\ w[i].len \in Nat
             /\ i - w[i].at + w[i].len <= N
  <2> DEFINE a == w[i].at
             l == w[i].len
  <2>1. a \in Nat /\ l \in Nat /\ 1 <= a /\ a <= l /\ a <= i
    BY WholeTypes
  <2>2. ASSUME i - a + l > N
        PROVE  FALSE
    <3> DEFINE j == N - (i - a)
    <3>1. j \in 1..l /\ j < l /\ i - a + j = N
      <4> HIDE DEF a, l, c, N
      <4> QED
        BY <1>2, <2>1, <2>2
    <3>2. w[N] = [msg |-> w[i].msg, at |-> j, len |-> l]
      <4> HIDE DEF j
      <4> QED
        BY <1>2, <3>1, WholeAt
    <3>3. w[N].at = w[N].len
      BY <1>2 DEF Complete
    <3> QED
      BY <3>1, <3>2, <3>3
  <2> HIDE DEF c, N
  <2> QED
    BY <1>2, <2>1, <2>2
<1>5. ASSUME NEW i \in 1..Len(c)
      PROVE  /\ c[i].msg \in 1..Len(s) /\ c[i].len = s[c[i].msg].len
             /\ c[i].at \in 1..c[i].len /\ c[i].at <= i
  <2> HIDE DEF c
  <2>1. CASE i \in 1..N
    BY <1>2, <2>1 DEF Whole
  <2>2. CASE i - N \in 1..n
    BY <1>1, <1>2, <1>3, <2>2 DEF Known
  <2> QED
    BY <1>2, <2>1, <2>2
<1>6. ASSUME NEW i \in 1..Len(c), NEW j \in 1..c[i].len, i - c[i].at + j <= Len(c)
      PROVE  c[i - c[i].at + j] = [msg |-> c[i].msg, at |-> j, len |-> c[i].len]
  <2> HIDE DEF c
  <2>1. CASE i \in 1..N
    <3>1. c[i] = w[i]
      BY <1>2, <2>1
    <3>2. i - w[i].at + j \in 1..N
      BY <1>4, <2>1, <3>1
    <3> DEFINE p == i - w[i].at + j
    <3>3. p \in 1..N /\ j \in 1..w[i].len
      BY <3>1, <3>2
    <3>4. p = i - w[i].at + j /\ p = i - c[i].at + j
      BY <3>1
    <3> HIDE DEF p
    <3>5. w[p] = [msg |-> w[i].msg, at |-> j, len |-> w[i].len]
      BY <1>2, <2>1, <3>3, <3>4, WholeAt
    <3> QED
      BY <1>2, <3>1, <3>3, <3>4, <3>5
  <2>2. CASE i - N \in 1..n
    <3>1. c[i] = [msg |-> m.no, at |-> i - N, len |-> m.len]
      BY <1>2, <2>2
    <3> DEFINE p == i - c[i].at + j
    <3>2. p \in 1..Len(c) /\ p - N \in 1..n /\ p - N = j
      <4>1. c[i].at = i - N /\ c[i].len = m.len
        BY <3>1
      <4> QED
        BY <1>1, <1>2, <1>3, <1>6, <2>2, <4>1
    <3> HIDE DEF p
    <3>3. c[p] = [msg |-> m.no, at |-> p - N, len |-> m.len]
      BY <1>2, <3>2
    <3>4. c[i].msg = m.no /\ c[i].len = m.len
      BY <3>1
    <3> QED
      BY <3>2, <3>3, <3>4 DEF p
  <2> QED
    BY <1>2, <2>1, <2>2
<1>7. ASSUME NEW i \in 1..Len(c), NEW j \in 1..Len(c), c[i] = c[j]
      PROVE  i = j
  <2> HIDE DEF c
  <2>1. CASE i \in 1..N /\ j \in 1..N
    BY <1>2, <1>7, <2>1 DEF Whole
  <2>2. CASE i - N \in 1..n /\ j - N \in 1..n
    <3>1. c[i] = [msg |-> m.no, at |-> i - N, len |-> m.len]
      BY <1>2, <2>2
    <3>2. c[j] = [msg |-> m.no, at |-> j - N, len |-> m.len]
      BY <1>2, <2>2
    <3>3. c[i].at = i - N /\ c[j].at = j - N
      BY <3>1, <3>2
    <3> QED
      BY <1>2, <1>7, <3>3
  <2>3. \A k \in 1..N : c[k].msg # m.no
    BY <1>2 DEF Mentions
  <2>4. \A k \in 1..Len(c) : k - N \in 1..n => c[k].msg = m.no
    BY <1>2
  <2> QED
    BY <1>2, <1>7, <2>1, <2>2, <2>3, <2>4
<1>8. Mentions(c) = Mentions(w) \cup {m.no}
  <2> HIDE DEF c
  <2>1. ASSUME NEW i \in 1..Len(c)
        PROVE  c[i].msg \in Mentions(w) \cup {m.no}
    <3>1. CASE i \in 1..N
      BY <1>2, <3>1 DEF Mentions
    <3>2. CASE i - N \in 1..n
      BY <1>2, <3>2
    <3> QED
      BY <1>2, <3>1, <3>2
  <2>2. ASSUME NEW i \in 1..N
        PROVE  w[i].msg \in Mentions(c)
    <3>1. i \in 1..Len(c) /\ w[i].msg = c[i].msg
      BY <1>1, <1>2
    <3> QED
      BY <3>1 DEF Mentions
  <2>3. m.no \in Mentions(c)
    <3>1. N + 1 \in 1..Len(c) /\ (N + 1) - N \in 1..n
      BY <1>1, <1>2
    <3>2. c[N + 1].msg = m.no
      BY <1>2, <3>1
    <3> QED
      BY <3>1, <3>2 DEF Mentions
  <2>4. Mentions(c) \subseteq Mentions(w) \cup {m.no}
    <3> SUFFICES ASSUME NEW x \in Mentions(c) PROVE x \in Mentions(w) \cup {m.no}
      OBVIOUS
    <3>1. PICK i \in 1..Len(c) : x = c[i].msg
      BY DEF Mentions
    <3> QED
      BY <2>1, <3>1
  <2>5. Mentions(w) \subseteq Mentions(c)
    <3> SUFFICES ASSUME NEW x \in Mentions(w) PROVE x \in Mentions(c)
      OBVIOUS
    <3>1. PICK i \in 1..N : x = w[i].msg
      BY DEF Mentions
    <3> QED
      BY <2>2, <3>1
  <2> QED
    BY <2>3, <2>4, <2>5
<1>9. LastIs(c, m, n)
  <2>1. Len(c) \in 1..Len(c) /\ Len(c) - N \in 1..n /\ Len(c) - N = n
    BY <1>1, <1>2
  <2> QED
    BY <1>2, <2>1 DEF LastIs
<1> QED
  <2> HIDE DEF c
  <2>1. Whole(c, s)
    BY <1>2, <1>5, <1>6, <1>7 DEF Whole
  <2> QED
    BY <2>1, <1>8, <1>9 DEF c, n

(* Behind a header the body of its message. *)
LEMMA EndMessage ==
  ASSUME NEW s, SentSound(s), NEW w, Whole(w, s),
         NEW m, Known(m, s), HdrLen < m.len, LastIs(w, m, HdrLen),
         NEW b, PartOf(b, m, HdrLen), Len(b) = m.len - HdrLen
  PROVE  /\ Whole(w \o b, s) /\ Mentions(w \o b) = Mentions(w) /\ Complete(w \o b)
<1> DEFINE c == w \o b
           N == Len(w)
           n == m.len - HdrLen
           z == N - HdrLen
<1>1. m.no \in Nat /\ m.len \in Nat /\ HdrLen \in Nat /\ HdrLen > 0 /\ n \in Nat /\ n > 0
  BY TcpPktAssumption DEF MsgRecord, Known
<1>2. b \in Seq(ByteRecord) /\ Len(b) = n /\ w \in Seq(ByteRecord) /\ N \in Nat /\ N > 0
      /\ \A i \in 1..n : b[i] = [msg |-> m.no, at |-> HdrLen + i, len |-> m.len]
  <2>1. w \in Seq(ByteRecord)
    BY DEF Whole
  <2>2. N \in Nat /\ N > 0
    BY <2>1 DEF LastIs
  <2>3. b \in Seq(ByteRecord) /\ \A i \in 1..n : b[i] = [msg |-> m.no, at |-> HdrLen + i, len |-> m.len]
    BY DEF PartOf
  <2> QED
    BY <2>1, <2>2, <2>3
<1>3. z \in Nat /\ w[N].at = HdrLen /\ w[N].len = m.len /\ w[N].msg = m.no
  <2>1. N \in 1..Len(w)
    BY <1>2
  <2>2. w[N].at = HdrLen /\ w[N].len = m.len /\ w[N].msg = m.no
    BY DEF LastIs
  <2>3. w[N].at <= N
    BY <2>1, WholeTypes
  <2> QED
    BY <1>1, <1>2, <2>2, <2>3
<1>4. /\ c \in Seq(ByteRecord) /\ Len(c) = N + n
      /\ \A i \in 1..N : c[i] = w[i]
      /\ \A i \in 1..Len(c) : i - N \in 1..n =>
           c[i] = [msg |-> m.no, at |-> i - z, len |-> m.len]
      /\ \A i \in 1..Len(c) : i \in 1..N \/ i - N \in 1..n
  <2>1. /\ c \in Seq(ByteRecord) /\ Len(c) = N + n /\ N \in Nat
        /\ \A i \in 1..N : c[i] = w[i]
        /\ \A i \in 1..Len(c) : i - N \in 1..n => c[i] = b[i - N]
    <3>1. /\ w \o b \in Seq(ByteRecord) /\ Len(w \o b) = Len(w) + Len(b)
          /\ \A i \in 1..Len(w) : (w \o b)[i] = w[i]
          /\ \A i \in 1..Len(w \o b) : i - Len(w) \in 1..Len(b) => (w \o b)[i] = b[i - Len(w)]
      <4>1. w \in Seq(ByteRecord) /\ b \in Seq(ByteRecord)
        BY <1>2
      <4> QED
        BY <4>1, ConcatAt
    <3> HIDE DEF n, c
    <3> QED
      BY <1>2, <3>1 DEF c
  <2>2. ASSUME NEW i \in 1..Len(c), i - N \in 1..n
        PROVE  c[i] = [msg |-> m.no, at |-> i - z, len |-> m.len]
    <3>1. c[i] = b[i - N]
      BY <2>1, <2>2
    <3>2. HdrLen + (i - N) = i - z
      BY <1>1, <1>2
    <3> QED
      BY <1>2, <2>2, <3>1, <3>2
  <2> HIDE DEF c, n
  <2> QED
    BY <1>1, <2>1, <2>2
<1>13. n = m.len - HdrLen /\ z = N - HdrLen /\ N = Len(w)
  OBVIOUS
<1> HIDE DEF c, n, z
<1>14. z \in Nat /\ N = z + HdrLen /\ Len(c) = z + m.len
  <2>1. z \in Nat /\ N \in Nat /\ HdrLen \in Nat /\ m.len \in Nat /\ Len(c) = N + n
    BY <1>1, <1>2, <1>3, <1>4
  <2>2. n = m.len - HdrLen /\ z = N - HdrLen
    BY <1>13
  <2> HIDE DEF N
  <2> QED
    BY <2>1, <2>2
\* The message as it will be there.
<1>5. \A j \in 1..m.len : z + j \in 1..Len(c)
                          /\ c[z + j] = [msg |-> m.no, at |-> j, len |-> m.len]
  <2> SUFFICES ASSUME NEW j \in 1..m.len
               PROVE  z + j \in 1..Len(c) /\ c[z + j] = [msg |-> m.no, at |-> j, len |-> m.len]
    OBVIOUS
  <2> DEFINE k == z + j
  <2>1. k \in 1..Len(c) /\ k - z = j
    BY <1>1, <1>14
  <2>2. CASE z + j \in 1..N
    <3>1. w[N - w[N].at + j] = [msg |-> w[N].msg, at |-> j, len |-> w[N].len]
      <4>1. N \in 1..Len(w) /\ j \in 1..w[N].len /\ N - w[N].at + j <= Len(w)
        BY <1>1, <1>2, <1>3, <1>13, <2>2
      <4> QED
        BY <4>1 DEF Whole
    <3>2. N - w[N].at + j = z + j
      BY <1>3, <1>13
    <3> QED
      BY <1>3, <1>4, <2>1, <2>2, <3>1, <3>2
  <2>3. CASE k - N \in 1..n
    <3> HIDE DEF k
    <3>1. c[k] = [msg |-> m.no, at |-> k - z, len |-> m.len]
      BY <1>4, <2>1, <2>3
    <3> QED
      BY <2>1, <3>1 DEF k
  <2>4. k \in 1..N \/ k - N \in 1..n
    <3> HIDE DEF k
    <3> QED
      BY <1>4, <2>1
  <2> QED
    BY <2>2, <2>3, <2>4
\* An earlier message is complete, or it is this one.
<1>6. ASSUME NEW i \in 1..N, i - w[i].at + w[i].len > N
      PROVE  w[i].msg = m.no /\ w[i].len = m.len /\ i - w[i].at = z
  <2> DEFINE a == w[i].at
             l == w[i].len
             j == N - (i - a)
  <2>1. a \in Nat /\ l \in Nat /\ 1 <= a /\ a <= l /\ a <= i
    BY WholeTypes
  <2>2. j \in 1..l /\ i - a + j = N
    <3> HIDE DEF a, l, N
    <3> QED
      BY <1>2, <2>1, <1>6 DEF a, l
  <2>3. w[N] = [msg |-> w[i].msg, at |-> j, len |-> l]
    <3> HIDE DEF j
    <3> QED
      BY <1>2, <2>2 DEF Whole
  <2>4. w[i].msg = m.no /\ l = m.len /\ j = HdrLen
    BY <1>3, <2>3
  <2> HIDE DEF a, l, N
  <2> QED
    BY <1>1, <1>2, <1>13, <2>1, <2>2, <2>4 DEF a, l
<1>7. ASSUME NEW i \in 1..Len(c)
      PROVE  /\ c[i].msg \in 1..Len(s) /\ c[i].len = s[c[i].msg].len
             /\ c[i].at \in 1..c[i].len /\ c[i].at <= i
  <2>1. CASE i \in 1..N
    <3>1. c[i] = w[i]
      BY <1>4, <2>1
    <3> QED
      BY <2>1, <3>1 DEF Whole
  <2>2. CASE i - N \in 1..n
    <3>1. c[i] = [msg |-> m.no, at |-> i - z, len |-> m.len]
      BY <1>4, <2>2
    <3>2. c[i].msg = m.no /\ c[i].at = i - z /\ c[i].len = m.len
      BY <3>1
    <3>3. i - z \in 1..m.len /\ i - z <= i
      BY <1>1, <1>2, <1>3, <1>13, <2>2
    <3>4. m.no \in 1..Len(s) /\ m.len = s[m.no].len
      BY DEF Known
    <3> QED
      BY <3>2, <3>3, <3>4
  <2> QED
    BY <1>4, <2>1, <2>2
<1>8. ASSUME NEW i \in 1..Len(c), NEW j \in 1..c[i].len, i - c[i].at + j <= Len(c)
      PROVE  c[i - c[i].at + j] = [msg |-> c[i].msg, at |-> j, len |-> c[i].len]
  <2>1. CASE i \in 1..N /\ i - w[i].at + w[i].len <= N
    <3> DEFINE a == w[i].at
               l == w[i].len
    <3>1. c[i] = w[i]
      BY <1>4, <2>1
    <3>2. a \in Nat /\ l \in Nat /\ 1 <= a /\ a <= l /\ a <= i /\ j \in 1..l
      BY <2>1, <3>1, WholeTypes
    <3>3. i - a + j \in 1..N
      <4> HIDE DEF N, l, a
      <4>1. i - a + l <= N /\ i \in 1..N /\ j \in 1..l
        BY <2>1, <3>2 DEF a, l
      <4> QED
        BY <1>2, <3>2, <4>1
    <3> DEFINE p == i - a + j
    <3>4. p = i - w[i].at + j /\ p = i - c[i].at + j /\ j \in 1..w[i].len
      BY <3>1, <3>2
    <3> HIDE DEF p
    <3>5. w[p] = [msg |-> w[i].msg, at |-> j, len |-> w[i].len]
      BY <1>2, <2>1, <3>3, <3>4, WholeAt DEF p
    <3> QED
      BY <1>4, <3>1, <3>3, <3>4, <3>5 DEF p
  <2>2. CASE i \in 1..N /\ i - w[i].at + w[i].len > N
    <3>1. c[i].msg = m.no /\ c[i].len = m.len /\ i - c[i].at = z
      BY <1>4, <1>6, <2>2
    <3> QED
      BY <1>5, <1>8, <3>1
  <2>3. CASE i - N \in 1..n
    <3>1. c[i] = [msg |-> m.no, at |-> i - z, len |-> m.len]
      BY <1>4, <2>3
    <3>2. c[i].msg = m.no /\ i - c[i].at = z /\ c[i].len = m.len
      BY <1>3, <3>1, <1>2
    <3> QED
      BY <1>5, <1>8, <3>2
  <2>4. i \in 1..N => i - w[i].at + w[i].len <= N \/ i - w[i].at + w[i].len > N
    <3> QED
      BY WholeTypes
  <2> QED
    BY <1>4, <2>1, <2>2, <2>3, <2>4
\* A byte of the message is at its place only.
<1>9. ASSUME NEW i \in 1..Len(c), c[i].msg = m.no
      PROVE  i = z + c[i].at
  <2>1. CASE i \in 1..N
    <3> DEFINE a == w[i].at
               h == i - a + HdrLen
    <3>1. c[i] = w[i] /\ w[i].msg = m.no
      BY <1>4, <1>9, <2>1
    <3>2. w[i].len = m.len
      <4>1. w[i].len = s[w[i].msg].len
        BY <2>1 DEF Whole
      <4> QED
        BY <3>1, <4>1 DEF Known
    <3>3. a \in Nat /\ 1 <= a /\ a <= i
      BY <2>1, WholeTypes
    <3>4. CASE i - a + m.len > N
      BY <1>3, <1>6, <2>1, <3>1, <3>2, <3>3, <3>4
    <3>5. CASE i - a + m.len <= N
      <4>1. h \in 1..N /\ HdrLen \in 1..m.len /\ h = i - a + HdrLen
        <5> HIDE DEF a, N
        <5> QED
          BY <1>1, <1>2, <3>3, <3>5
      <4>2. w[h] = [msg |-> m.no, at |-> HdrLen, len |-> m.len]
        <5>1. HdrLen \in 1..w[i].len /\ i - w[i].at + HdrLen <= Len(w)
          BY <3>2, <4>1
        <5> QED
          BY <2>1, <3>1, <3>2, <5>1 DEF Whole
      <4>3. h = N
        <5>1. N \in 1..Len(w) /\ w[N] = [msg |-> m.no, at |-> HdrLen, len |-> m.len]
          BY <1>2 DEF LastIs
        <5> HIDE DEF h, N
        <5> QED
          BY <4>1, <4>2, <5>1, WholeOnce DEF N
      <4>4. i = z + a
        <5> HIDE DEF N, a
        <5> QED
          BY <1>1, <1>14, <3>3, <4>3 DEF h
      <4> QED
        BY <3>1, <4>4
    <3>6. i - a + m.len > N \/ i - a + m.len <= N
      <4> HIDE DEF a, N
      <4> QED
        BY <1>1, <1>2, <3>3
    <3> QED
      BY <3>4, <3>5, <3>6
  <2>2. CASE i - N \in 1..n
    <3>1. c[i].at = i - z
      BY <1>4, <2>2
    <3> QED
      BY <1>3, <3>1
  <2> QED
    BY <1>4, <2>1, <2>2
<1>10. ASSUME NEW i \in 1..Len(c), NEW j \in 1..Len(c), c[i] = c[j]
       PROVE  i = j
  <2>1. CASE c[i].msg = m.no
    <3> QED
      BY <1>9, <1>10, <2>1
  <2>2. CASE c[i].msg # m.no
    <3>1. \A k \in 1..Len(c) : k - N \in 1..n => c[k].msg = m.no
      <4> QED
        BY <1>4
    <3>2. i \in 1..N /\ j \in 1..N
      <4> QED
        BY <1>4, <1>10, <2>2, <3>1
    <3>3. w[i] = w[j]
      <4> QED
        BY <1>4, <1>10, <3>2
    <3> QED
      BY <3>2, <3>3 DEF Whole
  <2> QED
    BY <2>1, <2>2
<1>11. Mentions(c) = Mentions(w)
  <2>1. \A i \in 1..Len(c) : c[i].msg \in Mentions(w)
    <3> SUFFICES ASSUME NEW i \in 1..Len(c) PROVE c[i].msg \in Mentions(w)
      OBVIOUS
    <3>1. m.no \in Mentions(w)
      <4>1. N \in 1..Len(w) /\ w[N].msg = m.no
        BY <1>2, <1>3
      <4> QED
        BY <4>1 DEF Mentions
    <3>2. i - N \in 1..n => c[i].msg = m.no
      BY <1>4
    <3>3. i \in 1..N => c[i].msg = w[i].msg
      BY <1>4
    <3> QED
      BY <1>4, <3>1, <3>2, <3>3 DEF Mentions
  <2>2. \A i \in 1..N : i \in 1..Len(c) /\ c[i].msg = w[i].msg
    BY <1>1, <1>2, <1>4
  <2> QED
    BY <2>1, <2>2 DEF Mentions
<1>12. Complete(c)
  <2>1. c[z + m.len] = [msg |-> m.no, at |-> m.len, len |-> m.len]
    <3> QED
      BY <1>1, <1>5
  <2>2. Len(c) = z + m.len
    BY <1>14
  <2>3. c # <<>>
    BY <1>1, <1>14
  <2> QED
    BY <2>1, <2>2 DEF Complete
<1> QED
  <2>1. Whole(c, s)
    BY <1>4, <1>7, <1>8, <1>10 DEF Whole
  <2> QED
    BY <2>1, <1>11, <1>12 DEF c

(* The first message of a stream is there, of length l; a stream without   *)
(* its first l bytes.                                                      *)
Arrived(w, l) == w # <<>> /\ l = w[1].len /\ l <= Len(w)

Rest(v, w, l) ==
  v \in Seq(ByteRecord) /\ Len(v) = Len(w) - l /\ \A i \in 1..Len(v) : v[i] = w[l + i]

(* The first message is taken off the stream. *)
LEMMA CutMessage ==
  ASSUME NEW s, NEW w, Whole(w, s), NEW l, Arrived(w, l), NEW v, Rest(v, w, l)
  PROVE  /\ Whole(v, s) /\ Mentions(v) = Mentions(w) \ {w[1].msg}
         /\ w[1].msg \in 1..Len(s) /\ l = s[w[1].msg].len /\ l \in Nat /\ l >= 1
         /\ \A i \in 1..l : w[i] = [msg |-> w[1].msg, at |-> i, len |-> l]
         /\ Complete(w) => Complete(v)
         /\ \A m : HdrLen < m.len /\ LastIs(w, m, HdrLen) => LastIs(v, m, HdrLen)
<1> DEFINE N == Len(w)
           m1 == w[1].msg
<1>1. w \in Seq(ByteRecord) /\ N \in Nat /\ 1 \in 1..N
  <2>1. w \in Seq(ByteRecord) /\ N \in Nat
    BY WholeTypes
  <2> QED
    BY <2>1 DEF Arrived
<1>2. l \in Nat /\ l >= 1 /\ l <= N /\ w[1].at = 1 /\ w[1].len = l
  <2>1. l = w[1].len /\ l <= N
    BY DEF Arrived
  <2>2. w[1].at \in Nat /\ w[1].at >= 1 /\ w[1].at <= 1 /\ w[1].at <= w[1].len /\ w[1].len \in Nat
    BY <1>1, WholeTypes
  <2> QED
    BY <2>1, <2>2
<1>3. w[1].msg \in 1..Len(s) /\ l = s[w[1].msg].len
  BY <1>1, <1>2 DEF Whole
<1>4. ASSUME NEW i \in 1..l
      PROVE  i \in 1..N /\ w[i] = [msg |-> m1, at |-> i, len |-> l]
  <2>1. i \in 1..w[1].len /\ i = 1 - w[1].at + i /\ i <= Len(w) /\ i \in 1..N
    BY <1>1, <1>2
  <2> QED
    BY <1>1, <1>2, <2>1, WholeAt
<1>5. v \in Seq(ByteRecord) /\ Len(v) = N - l /\ Len(v) \in Nat /\ \A i \in 1..Len(v) : v[i] = w[l + i]
  BY <1>1, <1>2 DEF Rest
<1>6. \A i \in 1..Len(v) : l + i \in 1..N
  BY <1>1, <1>2, <1>5
<1> HIDE DEF N, m1
<1>16. ASSUME NEW i \in 1..l
       PROVE  w[i].msg = m1 /\ w[i].at = i /\ w[i].len = l
  <2>1. w[i] = [msg |-> m1, at |-> i, len |-> l]
    BY <1>4
  <2> QED
    BY <2>1
<1>7. ASSUME NEW i \in 1..Len(v)
      PROVE  v[i].msg # m1
  <2> DEFINE k == l + i
  <2>1. k \in 1..Len(w) /\ k > l /\ v[i] = w[k]
    BY <1>2, <1>5, <1>6 DEF N
  <2> HIDE DEF k
  <2>2. ASSUME w[k].msg = m1
        PROVE  FALSE
    <3> DEFINE a == w[k].at
    <3>1. w[k].len = l
      <4>1. w[k].len = s[w[k].msg].len
        BY <2>1 DEF Whole
      <4> QED
        BY <1>3, <2>2, <4>1 DEF m1
    <3>2. a \in 1..l
      BY <1>2, <2>1, <3>1, WholeTypes
    <3>3. w[k] = [msg |-> m1, at |-> a, len |-> l]
      <4>1. w[k] \in ByteRecord
        BY <2>1, WholeTypes
      <4>2. w[k] = [msg |-> w[k].msg, at |-> w[k].at, len |-> w[k].len]
        BY <4>1 DEF ByteRecord
      <4> QED
        BY <2>2, <3>1, <4>2
    <3> HIDE DEF a
    <3>4. w[a] = w[k] /\ a \in 1..Len(w)
      BY <1>4, <3>2, <3>3 DEF N
    <3>5. a = k
      BY <2>1, <3>4, WholeOnce
    <3> QED
      BY <1>2, <2>1, <3>2, <3>5
  <2> QED
    BY <2>1, <2>2
<1>8. ASSUME NEW i \in 1..Len(v)
      PROVE  /\ v[i].msg \in 1..Len(s) /\ v[i].len = s[v[i].msg].len
             /\ v[i].at \in 1..v[i].len /\ v[i].at <= i
  <2> DEFINE k == l + i
             a == w[k].at
  <2>1. k \in 1..Len(w) /\ v[i] = w[k] /\ k = l + i
    BY <1>5, <1>6 DEF N
  <2> HIDE DEF k
  <2>2. /\ v[i].msg \in 1..Len(s) /\ v[i].len = s[v[i].msg].len
        /\ v[i].at \in 1..v[i].len
    BY <2>1 DEF Whole
  <2>3. a \in Nat /\ 1 <= a /\ a <= w[k].len /\ a <= k /\ w[k].len \in Nat
    BY <2>1, WholeTypes
  <2>4. ASSUME a > i
        PROVE  FALSE
    <3> DEFINE j == a - i
    <3>1. j \in 1..w[k].len /\ l = k - w[k].at + j /\ l <= Len(w)
      <4>1. j \in Nat /\ 1 <= j /\ j <= a
        BY <2>3, <2>4
      <4>2. l = k - a + j
        BY <1>2, <2>1, <2>3
      <4> HIDE DEF j
      <4>3. l <= Len(w)
        BY <1>2 DEF N
      <4> QED
        BY <2>3, <4>1, <4>2, <4>3
    <3> HIDE DEF j
    <3>2. w[l] = [msg |-> w[k].msg, at |-> j, len |-> w[k].len]
      BY <2>1, <3>1, WholeAt
    <3>3. w[l] = [msg |-> m1, at |-> l, len |-> l]
      BY <1>2, <1>4
    <3>4. w[k].msg = m1
      BY <3>2, <3>3
    <3> QED
      BY <1>7, <2>1, <3>4
  <2>5. a <= i
    <3> HIDE DEF a
    <3> QED
      BY <2>3, <2>4
  <2> QED
    BY <2>1, <2>2, <2>5
<1>9. ASSUME NEW i \in 1..Len(v), NEW j \in 1..v[i].len, i - v[i].at + j <= Len(v)
      PROVE  v[i - v[i].at + j] = [msg |-> v[i].msg, at |-> j, len |-> v[i].len]
  <2> DEFINE k == l + i
             a == v[i].at
             p == i - a + j
             r == l + p
  <2>1. k \in 1..Len(w) /\ v[i] = w[k]
    BY <1>5, <1>6 DEF N
  <2>2. a \in Nat /\ a <= i /\ a >= 1 /\ j \in Nat /\ j >= 1
    BY <1>8, <2>1, WholeTypes
  <2>3. p \in 1..Len(v)
    <3>1. i - a + j <= Len(v)
      BY <1>9
    <3> HIDE DEF a
    <3> QED
      BY <1>5, <2>2, <3>1
  <2>4. v[p] = w[r] /\ r \in 1..Len(w)
    <3> HIDE DEF p
    <3> QED
      BY <1>5, <1>6, <2>3 DEF N, r
  <2>5. r = k - a + j
    <3> HIDE DEF a
    <3> QED
      BY <1>2, <2>2
  <2>6. a = w[k].at /\ j \in 1..w[k].len
    BY <2>1
  <2> HIDE DEF k, r, a
  <2>7. w[r] = [msg |-> w[k].msg, at |-> j, len |-> w[k].len]
    <3>1. r = k - w[k].at + j
      BY <2>5, <2>6
    <3>2. r <= Len(w)
      BY <1>1, <2>4 DEF N
    <3> QED
      BY <2>1, <2>6, <3>1, <3>2, WholeAt
  <2>8. v[p] = [msg |-> v[i].msg, at |-> j, len |-> v[i].len]
    BY <2>1, <2>4, <2>7
  <2> QED
    BY <2>8 DEF a
<1>10. ASSUME NEW i \in 1..Len(v), NEW j \in 1..Len(v), v[i] = v[j]
       PROVE  i = j
  <2> DEFINE k == l + i
             r == l + j
  <2>1. k \in 1..Len(w) /\ r \in 1..Len(w) /\ w[k] = w[r]
    BY <1>5, <1>6, <1>10 DEF N
  <2>2. k = r
    <3> HIDE DEF k, r
    <3> QED
      BY <2>1, WholeOnce
  <2> QED
    BY <1>2, <2>2
<1>11. Whole(v, s)
  BY <1>5, <1>8, <1>9, <1>10 DEF Whole
<1>12. Mentions(v) = Mentions(w) \ {m1}
  <2>1. ASSUME NEW x \in Mentions(v)
        PROVE  x \in Mentions(w) /\ x # m1
    <3>1. PICK i \in 1..Len(v) : x = v[i].msg
      BY DEF Mentions
    <3>2. l + i \in 1..Len(w) /\ x = w[l + i].msg
      BY <1>5, <1>6, <3>1 DEF N
    <3> QED
      BY <1>7, <3>1, <3>2 DEF Mentions
  <2>2. ASSUME NEW x \in Mentions(w), x # m1
        PROVE  x \in Mentions(v)
    <3>1. PICK i \in 1..Len(w) : x = w[i].msg
      BY DEF Mentions
    <3>2. i \notin 1..l
      BY <1>16, <2>2, <3>1
    <3> DEFINE j == i - l
    <3>3. j \in 1..Len(v) /\ i = l + j
      BY <1>1, <1>2, <1>5, <3>1, <3>2 DEF N
    <3> HIDE DEF j
    <3>4. v[j].msg = x
      BY <1>5, <3>1, <3>3
    <3> QED
      BY <3>3, <3>4 DEF Mentions
  <2> QED
    BY <2>1, <2>2
<1>13. v # <<>> => v[Len(v)] = w[Len(w)]
  <2> SUFFICES ASSUME v # <<>> PROVE v[Len(v)] = w[Len(w)]
    OBVIOUS
  <2>1. Len(v) \in 1..Len(v) /\ l + Len(v) = Len(w)
    BY <1>1, <1>2, <1>5 DEF N
  <2> QED
    BY <1>5, <2>1
<1>14. Complete(w) => Complete(v)
  <2>1. w # <<>>
    BY DEF Arrived
  <2> QED
    BY <2>1, <1>13 DEF Complete
<1>15. ASSUME NEW m, HdrLen < m.len, LastIs(w, m, HdrLen)
       PROVE  LastIs(v, m, HdrLen)
  <2>1. w[Len(w)] = [msg |-> m.no, at |-> HdrLen, len |-> m.len]
    BY <1>15 DEF LastIs
  <2>2. v # <<>>
    <3> SUFFICES ASSUME v = <<>> PROVE FALSE
      OBVIOUS
    <3>1. Len(v) = 0
      BY <1>5
    <3>2. l = Len(w)
      BY <1>1, <1>2, <1>5, <3>1 DEF N
    <3>3. w[l].at = l /\ w[l].len = l
      BY <1>2, <1>16
    <3>4. HdrLen = m.len
      BY <2>1, <3>2, <3>3
    <3> QED
      BY <1>15, <3>4, TcpPktAssumption
  <2> QED
    BY <1>13, <2>1, <2>2 DEF LastIs
<1> QED
  BY <1>2, <1>3, <1>4, <1>11, <1>12, <1>14, <1>15 DEF m1

-----------------------------------------------------------------------------
(* Messages are queued and sent. *)
LEMMA QueueFacts ==
  ASSUME NEW q, NEW x, NEW s, SentSound(s), QueueSound(q, x, s)
  PROVE  /\ q \in Seq(MsgRecord) /\ Len(q) \in Nat /\ Len(s) \in Nat
         /\ \A k \in 1..Len(q) : Known(q[k], s) /\ q[k].no \in 1..Len(s)
                                 /\ q[k].len \in Nat /\ q[k].len >= HdrLen
         /\ \A j, k \in 1..Len(q) : q[j].no = q[k].no => j = k
         /\ x \in {0, HdrLen} /\ (x # 0 => q # <<>>)
         /\ HdrLen \in Nat /\ HdrLen > 0
<1>1. q \in Seq(MsgRecord) /\ s \in Seq(MsgRecord)
  BY DEF QueueSound, SentSound
<1>2. ASSUME NEW k \in 1..Len(q)
      PROVE  Known(q[k], s) /\ q[k].no \in 1..Len(s) /\ q[k].len \in Nat /\ q[k].len >= HdrLen
  <2>1. q[k].no \in 1..Len(s) /\ q[k] = s[q[k].no] /\ q[k] \in MsgRecord
    BY <1>1 DEF QueueSound
  <2>2. q[k].len >= HdrLen
    BY <2>1 DEF SentSound
  <2> QED
    BY <2>1, <2>2 DEF Known, MsgRecord
<1>3. \A j, k \in 1..Len(q) : q[j].no = q[k].no => j = k
  BY DEF QueueSound
<1>4. x \in {0, HdrLen} /\ (x # 0 => q # <<>>)
  BY DEF QueueSound
<1> QED
  BY <1>1, <1>2, <1>3, <1>4, TcpPktAssumption

(* s2 is s with x at its end; q2 is q without its first. *)
Appended(s2, s, x) == s2 = Append(s, x)
Popped(q2, q)      == q2 = Tail(q)

(* s2 is s with one message more. *)
Longer(s2, s, m) ==
  /\ s2 \in Seq(MsgRecord) /\ Len(s2) = Len(s) + 1
  /\ \A k \in 1..Len(s) : s2[k] = s[k]
  /\ s2[Len(s) + 1] = m

NewMessage(m, s) == m \in MsgRecord /\ m.no = Len(s) + 1 /\ m.len >= HdrLen

LEMMA OneLonger ==
  ASSUME NEW s, SentSound(s), NEW m, NewMessage(m, s), NEW s2, Appended(s2, s, m)
  PROVE  Longer(s2, s, m) /\ SentSound(s2) /\ Known(m, s2) /\ Len(s) \in Nat
<1>1. s \in Seq(MsgRecord) /\ m \in MsgRecord
  BY DEF SentSound, NewMessage
<1>2. Longer(s2, s, m)
  BY <1>1 DEF Longer, Appended
<1>3. Len(s) \in Nat
  BY <1>1
<1>4. SentSound(s2)
  <2>1. \A k \in 1..Len(s2) : k \in 1..Len(s) \/ k = Len(s) + 1
    BY <1>2, <1>3 DEF Longer
  <2>2. m.no = Len(s) + 1 /\ m.len >= HdrLen
    BY DEF NewMessage
  <2> QED
    BY <1>2, <2>1, <2>2 DEF Longer, SentSound
<1>5. Known(m, s2)
  BY <1>1, <1>2, <1>3 DEF Longer, NewMessage, Known
<1> QED
  BY <1>2, <1>3, <1>4, <1>5

LEMMA StillSound ==
  ASSUME NEW s, SentSound(s), NEW m, NEW s2, Longer(s2, s, m), Len(s) \in Nat,
         NEW w, Whole(w, s), NEW g, GotSound(g, s)
  PROVE  /\ Whole(w, s2) /\ GotSound(g, s2)
         /\ \A k \in Mentions(w) \cup Received(g) : k \in 1..Len(s)
<1>1. \A k \in 1..Len(s) : k \in 1..Len(s2) /\ s2[k] = s[k]
  BY DEF Longer
<1>2. Whole(w, s2)
  BY <1>1 DEF Whole
<1>3. GotSound(g, s2)
  BY <1>1 DEF GotSound
<1>4. \A k \in Mentions(w) : k \in 1..Len(s)
  BY DEF Mentions, Whole
<1>5. \A k \in Received(g) : k \in 1..Len(s)
  BY DEF Received, GotSound
<1> QED
  BY <1>2, <1>3, <1>4, <1>5

LEMMA QueueXpktKeeps ==
  ASSUME NEW q, NEW x, NEW w, NEW g, NEW s, StreamInv(q, x, w, g, s),
         NEW m, NewMessage(m, s), NEW s2, Appended(s2, s, m), NEW q2, Appended(q2, q, m)
  PROVE  StreamInv(q2, x, w, g, s2)
<1>1. SentSound(s) /\ QueueSound(q, x, s) /\ GotSound(g, s) /\ Whole(w, s)
      /\ Begun(w, q, x) /\ Accounted(q, x, w, g, s)
  BY DEF StreamInv
<1>2. Longer(s2, s, m) /\ SentSound(s2) /\ Known(m, s2) /\ Len(s) \in Nat
  BY <1>1, OneLonger
<1>3. /\ Whole(w, s2) /\ GotSound(g, s2)
      /\ \A k \in Mentions(w) \cup Received(g) : k \in 1..Len(s)
  BY <1>1, <1>2, StillSound
<1>4. q \in Seq(MsgRecord) /\ Len(q) \in Nat /\ m \in MsgRecord /\ m.no = Len(s) + 1
  BY <1>1, QueueFacts DEF NewMessage
<1>5. /\ q2 \in Seq(MsgRecord) /\ Len(q2) = Len(q) + 1
      /\ \A k \in 1..Len(q) : q2[k] = q[k]
      /\ q2[Len(q) + 1] = m
  BY <1>4 DEF Appended
<1>6. \A k \in 1..Len(q2) : k \in 1..Len(q) \/ k = Len(q) + 1
  BY <1>4, <1>5
<1>7. \A k \in 1..Len(q) : q[k].no \in 1..Len(s) /\ k \in 1..Len(q2) /\ q[k].no # m.no
                           /\ q[k] = s2[q[k].no] /\ q[k].no \in 1..Len(s2)
  BY <1>1, <1>2, <1>4, <1>5 DEF QueueSound, Longer
<1>8. Len(q) + 1 \in 1..Len(q2) /\ Len(s2) = Len(s) + 1
  BY <1>2, <1>4, <1>5 DEF Longer
<1>9. QueueSound(q2, x, s2)
  <2>1. \A k \in 1..Len(q2) : q2[k].no \in 1..Len(s2) /\ q2[k] = s2[q2[k].no]
    BY <1>2, <1>5, <1>6, <1>7 DEF Known
  <2>2. \A j, k \in 1..Len(q2) : q2[j].no = q2[k].no => j = k
    BY <1>1, <1>5, <1>6, <1>7 DEF QueueSound
  <2>3. x \in {0, HdrLen} /\ q2 # <<>>
    BY <1>1, <1>4, <1>5 DEF QueueSound
  <2> QED
    BY <1>5, <2>1, <2>2, <2>3 DEF QueueSound
<1>10. x # 0 => q2[1] = q[1] /\ 1 \in 1..Len(q)
  BY <1>1, <1>4, <1>5 DEF QueueSound
<1>11. Begun(w, q2, x)
  BY <1>1, <1>10 DEF Begun
<1>12. Accounted(q2, x, w, g, s2)
  <2>1. ASSUME NEW k \in 1..Len(q2)
        PROVE  q2[k].no \in Received(g) \cup Mentions(w) <=> k = 1 /\ x # 0
    <3>1. CASE k \in 1..Len(q)
      BY <1>1, <1>5, <3>1 DEF Accounted
    <3>2. CASE k = Len(q) + 1
      <4>1. q2[k].no \notin Received(g) \cup Mentions(w)
        BY <1>3, <1>4, <1>5, <3>2
      <4>2. ~(k = 1 /\ x # 0)
        BY <1>4, <1>10, <3>2
      <4> QED
        BY <4>1, <4>2
    <3> QED
      BY <1>6, <3>1, <3>2
  <2>2. ASSUME NEW k \in 1..Len(s2)
        PROVE  k \in Received(g) \cup Mentions(w) \cup Queued(q2)
    <3>1. CASE k \in 1..Len(s)
      <4>1. k \in Received(g) \cup Mentions(w) \cup Queued(q)
        BY <1>1, <3>1 DEF Accounted
      <4>2. Queued(q) \subseteq Queued(q2)
        BY <1>5, <1>7 DEF Queued
      <4> QED
        BY <4>1, <4>2
    <3>2. CASE k = m.no
      BY <1>5, <1>8, <3>2 DEF Queued
    <3> QED
      BY <1>2, <1>4, <1>8, <3>1, <3>2
  <2> QED
    BY <1>1, <2>1, <2>2 DEF Accounted
<1> QED
  BY <1>2, <1>3, <1>9, <1>11, <1>12 DEF StreamInv

LEMMA SuspendKeeps ==
  ASSUME NEW q, NEW w, NEW g, NEW s, StreamInv(q, 0, w, g, s),
         NEW m, NewMessage(m, s), NEW s2, Appended(s2, s, m),
         NEW b, PartOf(b, m, 0), Len(b) = m.len
  PROVE  StreamInv(q, 0, w \o b, g, s2)
<1>1. SentSound(s) /\ QueueSound(q, 0, s) /\ GotSound(g, s) /\ Whole(w, s)
      /\ Begun(w, q, 0) /\ Accounted(q, 0, w, g, s)
  BY DEF StreamInv
<1>2. Longer(s2, s, m) /\ SentSound(s2) /\ Known(m, s2) /\ Len(s) \in Nat
  BY <1>1, OneLonger
<1>3. /\ Whole(w, s2) /\ GotSound(g, s2)
      /\ \A k \in Mentions(w) \cup Received(g) : k \in 1..Len(s)
  BY <1>1, <1>2, StillSound
<1>4. m \in MsgRecord /\ m.no = Len(s) + 1 /\ m.len >= HdrLen /\ m.len \in Nat
  BY DEF NewMessage, MsgRecord
<1>5. /\ Whole(w \o b, s2) /\ Mentions(w \o b) = Mentions(w) \cup {m.no}
      /\ LastIs(w \o b, m, Len(b))
  <2>1. m.no \notin Mentions(w)
    BY <1>2, <1>3, <1>4
  <2>2. 1 <= Len(b) /\ Len(b) <= m.len
    BY <1>4, TcpPktAssumption
  <2>3. Complete(w)
    BY <1>1 DEF Begun
  <2> QED
    BY <1>2, <1>3, <2>1, <2>2, <2>3, BeginMessage
<1>6. Begun(w \o b, q, 0)
  BY <1>5 DEF LastIs, Begun, Complete
<1>7. QueueSound(q, 0, s2)
  <2>1. \A k \in 1..Len(s) : k \in 1..Len(s2) /\ s2[k] = s[k]
    BY <1>2 DEF Longer
  <2> QED
    BY <1>1, <2>1 DEF QueueSound
<1>8. Accounted(q, 0, w \o b, g, s2)
  <2>1. \A k \in 1..Len(q) : q[k].no # m.no
    BY <1>1, <1>2, <1>4 DEF QueueSound
  <2>2. m.no \notin Received(g)
    BY <1>2, <1>3, <1>4
  <2>3. \A k \in 1..Len(s2) : k \in 1..Len(s) \/ k = m.no
    BY <1>2, <1>4 DEF Longer
  <2> QED
    BY <1>1, <1>5, <2>1, <2>2, <2>3 DEF Accounted
<1> QED
  BY <1>2, <1>3, <1>5, <1>6, <1>7, <1>8 DEF StreamInv

(* The header of the first message in the queue is sent. *)
LEMMA HeaderKeeps ==
  ASSUME NEW q, NEW w, NEW g, NEW s, StreamInv(q, 0, w, g, s), q # <<>>,
         NEW b, PartOf(b, q[1], 0), Len(b) = HdrLen
  PROVE  StreamInv(q, HdrLen, w \o b, g, s)
<1> DEFINE m == q[1]
<1>1. SentSound(s) /\ QueueSound(q, 0, s) /\ GotSound(g, s) /\ Whole(w, s)
      /\ Begun(w, q, 0) /\ Accounted(q, 0, w, g, s)
  BY DEF StreamInv
<1>2. /\ 1 \in 1..Len(q) /\ Known(m, s) /\ m.len \in Nat /\ m.len >= HdrLen
      /\ HdrLen \in Nat /\ HdrLen > 0
      /\ \A j, k \in 1..Len(q) : q[j].no = q[k].no => j = k
  <2>1. q \in Seq(MsgRecord) /\ Len(q) \in Nat
    BY <1>1, QueueFacts
  <2>2. 1 \in 1..Len(q)
    BY <2>1
  <2> QED
    BY <1>1, <2>2, QueueFacts
<1>3. m.no \notin Received(g) \cup Mentions(w)
  BY <1>1, <1>2 DEF Accounted
<1> HIDE DEF m
<1>4. /\ Whole(w \o b, s) /\ Mentions(w \o b) = Mentions(w) \cup {m.no}
      /\ LastIs(w \o b, m, Len(b))
  <2>1. Complete(w) /\ 1 <= Len(b) /\ Len(b) <= m.len
    BY <1>1, <1>2 DEF Begun
  <2>2. PartOf(b, m, 0)
    BY DEF m
  <2> QED
    BY <1>1, <1>2, <1>3, <2>1, <2>2, BeginMessage
<1>5. Begun(w \o b, q, HdrLen)
  <2>1. LastIs(w \o b, q[1], HdrLen)
    BY <1>4 DEF m
  <2>2. q[1].len = HdrLen => Complete(w \o b)
    BY <2>1 DEF LastIs, Complete
  <2>3. HdrLen # 0
    BY <1>2
  <2> QED
    BY <2>1, <2>2, <2>3 DEF Begun
<1>6. QueueSound(q, HdrLen, s)
  BY <1>1 DEF QueueSound
<1>7. Accounted(q, HdrLen, w \o b, g, s)
  <2>1. \A k \in 1..Len(q) : q[k].no \notin Received(g) \cup Mentions(w)
    BY <1>1 DEF Accounted
  <2>2. \A k \in 1..Len(q) : q[k].no = m.no <=> k = 1
    BY <1>2 DEF m
  <2>3. \A k \in 1..Len(q) : q[k].no \in Received(g) \cup Mentions(w \o b) <=> k = 1 /\ HdrLen # 0
    BY <1>2, <1>3, <1>4, <2>1, <2>2
  <2> QED
    BY <1>1, <1>3, <1>4, <2>3 DEF Accounted
<1> QED
  BY <1>1, <1>4, <1>5, <1>6, <1>7 DEF StreamInv

(* The body is sent, if there is one: the message leaves the queue. *)
LEMMA BodyKeeps ==
  ASSUME NEW q, NEW w, NEW g, NEW s, StreamInv(q, HdrLen, w, g, s),
         NEW b, PartOf(b, q[1], HdrLen), Len(b) = q[1].len - HdrLen,
         NEW q2, Popped(q2, q)
  PROVE  StreamInv(q2, 0, w \o b, g, s)
<1> DEFINE m == q[1]
<1>1. SentSound(s) /\ QueueSound(q, HdrLen, s) /\ GotSound(g, s) /\ Whole(w, s)
      /\ Begun(w, q, HdrLen) /\ Accounted(q, HdrLen, w, g, s)
  BY DEF StreamInv
<1>2. /\ 1 \in 1..Len(q) /\ Known(m, s) /\ m.len \in Nat /\ m.len >= HdrLen
      /\ HdrLen \in Nat /\ HdrLen > 0 /\ q \in Seq(MsgRecord) /\ Len(q) \in Nat
      /\ \A j, k \in 1..Len(q) : q[j].no = q[k].no => j = k
  <2>1. q \in Seq(MsgRecord) /\ Len(q) \in Nat /\ q # <<>> /\ HdrLen > 0 /\ HdrLen \in Nat
    BY <1>1, QueueFacts, TcpPktAssumption
  <2>2. 1 \in 1..Len(q)
    BY <2>1
  <2>3. Known(m, s) /\ m.len \in Nat /\ m.len >= HdrLen
    BY <1>1, <2>2, QueueFacts
  <2>4. \A j, k \in 1..Len(q) : q[j].no = q[k].no => j = k
    BY <1>1, QueueFacts
  <2> QED
    BY <2>1, <2>2, <2>3, <2>4
<1>3. q2 \in Seq(MsgRecord) /\ Len(q2) = Len(q) - 1
      /\ \A k \in 1..Len(q2) : q2[k] = q[k + 1]
  BY <1>2 DEF Popped
<1>4. /\ Whole(w \o b, s) /\ Mentions(w \o b) = Mentions(w) /\ Complete(w \o b)
  <2>1. CASE m.len = HdrLen
    <3>1. b = <<>>
      BY <1>2, <2>1 DEF PartOf
    <3>2. w \in Seq(ByteRecord)
      BY <1>1, WholeTypes
    <3>3. w \o b = w
      BY <3>1, <3>2
    <3> QED
      BY <1>1, <2>1, <3>3 DEF Begun
  <2>2. CASE m.len # HdrLen
    <3>1. HdrLen < m.len /\ LastIs(w, m, HdrLen)
      BY <1>1, <1>2, <2>2 DEF Begun
    <3>2. PartOf(b, m, HdrLen) /\ Len(b) = m.len - HdrLen
      OBVIOUS
    <3> HIDE DEF m
    <3> QED
      BY <1>1, <1>2, <3>1, <3>2, EndMessage
  <2> QED
    BY <2>1, <2>2
<1> HIDE DEF m
<1>5. \A k \in 1..Len(q2) : k + 1 \in 1..Len(q) /\ k + 1 # 1
  BY <1>2, <1>3
<1>6. QueueSound(q2, 0, s)
  <2>1. \A k \in 1..Len(q2) : q2[k].no \in 1..Len(s) /\ q2[k] = s[q2[k].no]
    BY <1>1, <1>3, <1>5 DEF QueueSound
  <2>2. \A j, k \in 1..Len(q2) : q2[j].no = q2[k].no => j = k
    <3> SUFFICES ASSUME NEW j \in 1..Len(q2), NEW k \in 1..Len(q2), q2[j].no = q2[k].no
                 PROVE  j = k
      OBVIOUS
    <3>1. j + 1 = k + 1
      BY <1>2, <1>3, <1>5
    <3> QED
      BY <3>1
  <2> QED
    BY <1>3, <2>1, <2>2 DEF QueueSound
<1>7. Accounted(q2, 0, w \o b, g, s)
  <2>1. \A k \in 1..Len(q2) : q2[k].no \notin Received(g) \cup Mentions(w)
    <3> SUFFICES ASSUME NEW k \in 1..Len(q2)
                 PROVE  q2[k].no \notin Received(g) \cup Mentions(w)
      OBVIOUS
    <3>1. k + 1 \in 1..Len(q) /\ k + 1 # 1 /\ q2[k] = q[k + 1]
      BY <1>3, <1>5
    <3> QED
      BY <1>1, <3>1 DEF Accounted
  <2>2. m.no \in Received(g) \cup Mentions(w)
    BY <1>1, <1>2 DEF Accounted, m
  <2>3. ASSUME NEW y \in Queued(q)
        PROVE  y = m.no \/ y \in Queued(q2)
    <3>1. PICK k \in 1..Len(q) : y = q[k].no
      BY DEF Queued
    <3>2. CASE k = 1
      BY <3>1, <3>2 DEF m
    <3>3. CASE k # 1
      <4> DEFINE j == k - 1
      <4>1. j \in 1..Len(q2) /\ k = j + 1
        BY <1>2, <1>3, <3>3
      <4> HIDE DEF j
      <4> QED
        BY <1>3, <3>1, <4>1 DEF Queued
    <3> QED
      BY <3>2, <3>3
  <2> QED
    BY <1>1, <1>4, <2>1, <2>2, <2>3 DEF Accounted
<1>8. Begun(w \o b, q2, 0)
  BY <1>4 DEF Begun
<1> QED
  BY <1>1, <1>4, <1>6, <1>7, <1>8 DEF StreamInv

-----------------------------------------------------------------------------
(* The first message is received. *)
FrontPart(r, w, l) ==
  r \in Seq(ByteRecord) /\ Len(r) = l /\ \A i \in 1..l : r[i] = w[i]

LEMMA FrontIsMessage ==
  ASSUME NEW s, SentSound(s), NEW n \in 1..Len(s), NEW l \in Nat, l = s[n].len,
         NEW w, \A i \in 1..l : w[i] = [msg |-> n, at |-> i, len |-> l],
         NEW r, FrontPart(r, w, l)
  PROVE  r = BytesOf(s[n])
<1>1. r \in Seq(ByteRecord) /\ Len(r) = l /\ \A i \in 1..l : r[i] = w[i]
  BY DEF FrontPart
<1>2. r = [i \in 1..l |-> r[i]]
  BY <1>1
<1>3. s[n].no = n
  BY DEF SentSound
<1>4. \A i \in 1..l : r[i] = Byte(s[n], i)
  BY <1>1, <1>3 DEF Byte
<1>5. BytesOf(s[n]) = [i \in 1..l |-> Byte(s[n], i)]
  BY DEF BytesOf
<1> QED
  BY <1>2, <1>4, <1>5

LEMMA ReceiveKeeps ==
  ASSUME NEW q, NEW x, NEW w, NEW g, NEW s, StreamInv(q, x, w, g, s),
         NEW l, Arrived(w, l), NEW r, FrontPart(r, w, l), NEW v, Rest(v, w, l),
         NEW g2, Appended(g2, g, r)
  PROVE  StreamInv(q, x, v, g2, s)
<1> DEFINE n == w[1].msg
<1>1. SentSound(s) /\ QueueSound(q, x, s) /\ GotSound(g, s) /\ Whole(w, s)
      /\ Begun(w, q, x) /\ Accounted(q, x, w, g, s)
  BY DEF StreamInv
<1>2. /\ Whole(v, s) /\ Mentions(v) = Mentions(w) \ {n}
      /\ n \in 1..Len(s) /\ l = s[n].len /\ l \in Nat /\ l >= 1
      /\ \A i \in 1..l : w[i] = [msg |-> n, at |-> i, len |-> l]
      /\ Complete(w) => Complete(v)
      /\ \A m : HdrLen < m.len /\ LastIs(w, m, HdrLen) => LastIs(v, m, HdrLen)
  BY <1>1, CutMessage
<1>3. n \in Mentions(w)
  <2>1. w \in Seq(ByteRecord) /\ w # <<>>
    BY <1>1, WholeTypes DEF Arrived
  <2>2. 1 \in 1..Len(w)
    BY <2>1
  <2> QED
    BY <2>2 DEF Mentions
<1>4. n \notin Received(g)
  BY <1>1, <1>3 DEF Accounted
<1>5. r \in Seq(ByteRecord) /\ Len(r) = l /\ r[1].msg = n
  <2>1. r \in Seq(ByteRecord) /\ Len(r) = l /\ \A i \in 1..l : r[i] = w[i]
    BY DEF FrontPart
  <2>2. r[1] = w[1]
    BY <1>2, <2>1
  <2> QED
    BY <2>1, <2>2
<1>6. r = BytesOf(s[n])
  <2> HIDE DEF n
  <2> QED
    BY <1>1, <1>2, FrontIsMessage
<1>7. /\ g2 \in Seq(Seq(ByteRecord)) /\ Len(g2) = Len(g) + 1 /\ Len(g) \in Nat
      /\ \A k \in 1..Len(g) : g2[k] = g[k]
      /\ g2[Len(g) + 1] = r
  <2>1. g \in Seq(Seq(ByteRecord))
    BY <1>1 DEF GotSound
  <2> QED
    BY <1>5, <2>1 DEF Appended
<1> HIDE DEF n
<1>8. \A k \in 1..Len(g2) : k \in 1..Len(g) \/ k = Len(g) + 1
  BY <1>7
<1>9. \A k \in 1..Len(g) : k \in 1..Len(g2) /\ g[k][1].msg \in Received(g)
  BY <1>7 DEF Received
<1>10. GotSound(g2, s)
  <2>1. \A k \in 1..Len(g2) : g2[k][1].msg \in 1..Len(s) /\ g2[k] = BytesOf(s[g2[k][1].msg])
    BY <1>1, <1>2, <1>5, <1>6, <1>7, <1>8 DEF GotSound
  <2>2. \A j, k \in 1..Len(g2) : g2[j][1].msg = g2[k][1].msg => j = k
    <3>1. \A j, k \in 1..Len(g) : g[j][1].msg = g[k][1].msg => j = k
      BY <1>1 DEF GotSound
    <3>2. \A k \in 1..Len(g) : g2[k][1].msg # n /\ g2[k][1].msg = g[k][1].msg
      BY <1>4, <1>7, <1>9
    <3>3. g2[Len(g) + 1][1].msg = n
      BY <1>5, <1>7
    <3> QED
      BY <1>8, <3>1, <3>2, <3>3
  <2> QED
    BY <1>7, <2>1, <2>2 DEF GotSound
<1>11. Received(g2) = Received(g) \cup {n}
  <2>1. \A k \in 1..Len(g) : g2[k][1].msg = g[k][1].msg
    BY <1>7
  <2>2. g2[Len(g) + 1][1].msg = n /\ Len(g) + 1 \in 1..Len(g2)
    BY <1>5, <1>7
  <2>3. ASSUME NEW y \in Received(g2) PROVE y \in Received(g) \cup {n}
    <3>1. PICK k \in 1..Len(g2) : y = g2[k][1].msg
      BY DEF Received
    <3> QED
      BY <1>8, <1>9, <2>1, <2>2, <3>1
  <2>4. ASSUME NEW y \in Received(g) PROVE y \in Received(g2)
    <3>1. PICK k \in 1..Len(g) : y = g[k][1].msg
      BY DEF Received
    <3> QED
      BY <1>9, <2>1, <3>1 DEF Received
  <2>5. n \in Received(g2)
    BY <2>2 DEF Received
  <2> QED
    BY <2>3, <2>4, <2>5
<1>12. Accounted(q, x, v, g2, s)
  <2>1. Received(g2) \cup Mentions(v) = Received(g) \cup Mentions(w)
    BY <1>2, <1>3, <1>11
  <2>2. Received(g2) \cap Mentions(v) = {}
    BY <1>1, <1>2, <1>11 DEF Accounted
  <2> QED
    BY <1>1, <2>1, <2>2 DEF Accounted
<1>13. Begun(v, q, x)
  <2>1. CASE x = 0 \/ q[1].len = HdrLen
    BY <1>1, <1>2, <2>1 DEF Begun
  <2>2. CASE ~(x = 0 \/ q[1].len = HdrLen)
    <3>1. LastIs(w, q[1], HdrLen) /\ x # 0
      BY <1>1, <2>2 DEF Begun
    <3>2. q \in Seq(MsgRecord) /\ q # <<>> /\ Len(q) \in Nat
      BY <1>1, <3>1, QueueFacts
    <3>3. 1 \in 1..Len(q)
      BY <3>2
    <3>4. q[1].len \in Nat /\ q[1].len >= HdrLen /\ HdrLen \in Nat
      BY <1>1, <3>3, QueueFacts
    <3>5. HdrLen < q[1].len
      BY <2>2, <3>4
    <3>6. LastIs(v, q[1], HdrLen)
      BY <1>2, <3>1, <3>5
    <3> QED
      BY <2>2, <3>6 DEF Begun
  <2> QED
    BY <2>1, <2>2
<1> QED
  BY <1>1, <1>2, <1>10, <1>12, <1>13 DEF StreamInv

(* n bytes more are taken from stream t to what was received, r. *)
Taken(b, u, r, t, n) ==
  b = r \o SubSeq(t, 1, n) /\ u = SubSeq(t, n + 1, Len(t))

LEMMA TakeBytes ==
  ASSUME NEW r \in Seq(ByteRecord), NEW t \in Seq(ByteRecord),
         NEW n \in Nat, n <= Len(t), NEW b, NEW u, Taken(b, u, r, t, n)
  PROVE  /\ b \in Seq(ByteRecord) /\ Len(b) = Len(r) + n /\ u \in Seq(ByteRecord)
         /\ Len(b) <= Len(r \o t) /\ b \o u = r \o t
         /\ FrontPart(b, r \o t, Len(b)) /\ Rest(u, r \o t, Len(b))
         /\ \A i \in 1..Len(r) : b[i] = r[i]
<1> DEFINE a == SubSeq(t, 1, n)
           w == r \o t
<1>1. Len(t) \in Nat /\ Len(r) \in Nat
  OBVIOUS
<1>2. a \in Seq(ByteRecord) /\ Len(a) = n /\ \A i \in 1..n : a[i] = t[i]
  BY <1>1
<1>3. u \in Seq(ByteRecord) /\ Len(u) = Len(t) - n /\ \A i \in 1..Len(u) : u[i] = t[n + i]
  BY <1>1 DEF Taken
<1>4. b = r \o a
  BY DEF Taken
<1> HIDE DEF a, w
<1>5. /\ b \in Seq(ByteRecord) /\ Len(b) = Len(r) + n
      /\ \A i \in 1..Len(r) : b[i] = r[i]
      /\ \A i \in 1..Len(b) : i - Len(r) \in 1..n => b[i] = a[i - Len(r)]
      /\ \A i \in 1..Len(b) : i \in 1..Len(r) \/ i - Len(r) \in 1..n
  BY <1>2, <1>4, ConcatAt
<1>6. /\ w \in Seq(ByteRecord) /\ Len(w) = Len(r) + Len(t)
      /\ \A i \in 1..Len(r) : w[i] = r[i]
      /\ \A i \in 1..Len(w) : i - Len(r) \in 1..Len(t) => w[i] = t[i - Len(r)]
  BY ConcatAt DEF w
<1>7. \A i \in 1..Len(b) : b[i] = w[i]
  <2> SUFFICES ASSUME NEW i \in 1..Len(b) PROVE b[i] = w[i]
    OBVIOUS
  <2>1. CASE i \in 1..Len(r)
    BY <1>5, <1>6, <2>1
  <2>2. CASE i - Len(r) \in 1..n
    <3>1. b[i] = a[i - Len(r)] /\ a[i - Len(r)] = t[i - Len(r)]
      BY <1>2, <1>5, <2>2
    <3>2. i - Len(r) \in 1..Len(t) /\ i \in 1..Len(w)
      BY <1>1, <1>5, <1>6, <2>2
    <3> QED
      BY <1>6, <3>1, <3>2
  <2> QED
    BY <1>5, <2>1, <2>2
<1>8. \A i \in 1..Len(u) : u[i] = w[Len(b) + i]
  <2> SUFFICES ASSUME NEW i \in 1..Len(u) PROVE u[i] = w[Len(b) + i]
    OBVIOUS
  <2>1. Len(b) + i \in 1..Len(w) /\ (Len(b) + i) - Len(r) = n + i /\ n + i \in 1..Len(t)
    BY <1>1, <1>3, <1>5, <1>6
  <2>2. u[i] = t[n + i]
    BY <1>3
  <2> DEFINE p == Len(b) + i
  <2>3. p \in 1..Len(w) /\ p - Len(r) = n + i
    BY <2>1
  <2> HIDE DEF p
  <2>4. w[p] = t[n + i]
    BY <1>6, <2>1, <2>3
  <2> QED
    BY <2>2, <2>4 DEF p
<1>9. b \o u = w
  <2> DEFINE c == b \o u
  <2>1. /\ c \in Seq(ByteRecord) /\ Len(c) = Len(b) + Len(u)
        /\ \A i \in 1..Len(b) : c[i] = b[i]
        /\ \A i \in 1..Len(c) : i - Len(b) \in 1..Len(u) => c[i] = u[i - Len(b)]
        /\ \A i \in 1..Len(c) : i \in 1..Len(b) \/ i - Len(b) \in 1..Len(u)
    BY <1>3, <1>5, ConcatAt
  <2> HIDE DEF c
  <2>2. Len(c) = Len(w)
    BY <1>1, <1>3, <1>5, <1>6, <2>1
  <2>3. \A i \in 1..Len(c) : c[i] = w[i]
    <3> SUFFICES ASSUME NEW i \in 1..Len(c) PROVE c[i] = w[i]
      OBVIOUS
    <3>1. CASE i \in 1..Len(b)
      BY <1>7, <2>1, <3>1
    <3>2. CASE i - Len(b) \in 1..Len(u)
      <4>1. c[i] = u[i - Len(b)] /\ u[i - Len(b)] = w[Len(b) + (i - Len(b))]
        BY <1>8, <2>1, <3>2
      <4>2. Len(b) + (i - Len(b)) = i
        BY <1>5
      <4> QED
        BY <4>1, <4>2
    <3> QED
      BY <2>1, <3>1, <3>2
  <2>4. c = w
    BY <1>6, <2>1, <2>2, <2>3
  <2> QED
    BY <2>4 DEF c
<1>10. Len(b) <= Len(w) /\ Len(u) = Len(w) - Len(b)
  BY <1>1, <1>3, <1>5, <1>6
<1>11. FrontPart(b, w, Len(b))
  BY <1>5, <1>7 DEF FrontPart
<1>12. Rest(u, w, Len(b))
  BY <1>3, <1>8, <1>10 DEF Rest
<1> QED
  BY <1>3, <1>5, <1>9, <1>10, <1>11, <1>12 DEF w

(* What was received when the header, or the message, is not exceeded. *)
LEMMA BoundedTake ==
  ASSUME StreamInvariant, NEW n \in 1..Len(stream), NEW target,
         target = IF Len(rcvbuff) < HdrLen THEN HdrLen - Len(rcvbuff)
                  ELSE rcvbuff[1].len - Len(rcvbuff),
         n <= target, NEW b, NEW u, Taken(b, u, rcvbuff, stream, n)
  PROVE  /\ b \in Seq(ByteRecord) /\ b # <<>> /\ Flow # <<>>
         /\ b[1].len = Flow[1].len /\ Len(b) <= b[1].len /\ HdrLen <= b[1].len
<1>1. /\ rcvbuff \in Seq(ByteRecord) /\ stream \in Seq(ByteRecord)
      /\ SentSound(sent) /\ Whole(Flow, sent)
  BY DEF StreamInvariant, StreamInv, Unfinished
<1>2. Len(stream) \in Nat /\ Len(rcvbuff) \in Nat /\ n \in Nat /\ n <= Len(stream) /\ n > 0
  BY <1>1
<1>3. /\ b \in Seq(ByteRecord) /\ Len(b) = Len(rcvbuff) + n /\ Len(b) <= Len(Flow)
      /\ FrontPart(b, Flow, Len(b))
      /\ \A i \in 1..Len(rcvbuff) : b[i] = rcvbuff[i]
  <2>1. /\ b \in Seq(ByteRecord) /\ Len(b) = Len(rcvbuff) + n
        /\ Len(b) <= Len(rcvbuff \o stream) /\ FrontPart(b, rcvbuff \o stream, Len(b))
        /\ \A i \in 1..Len(rcvbuff) : b[i] = rcvbuff[i]
    BY <1>1, <1>2, TakeBytes
  <2> QED
    BY <2>1 DEF Flow
<1>4. Flow \in Seq(ByteRecord)
  BY <1>1, WholeTypes
<1>5. 1 \in 1..Len(b) /\ 1 \in 1..Len(Flow) /\ b # <<>> /\ Flow # <<>>
  BY <1>2, <1>3, <1>4
<1>6. b[1] = Flow[1]
  BY <1>3, <1>5 DEF FrontPart
<1>7. Flow[1].len >= HdrLen /\ Flow[1].len \in Nat /\ HdrLen \in Nat
  <2>1. Flow[1].msg \in 1..Len(sent) /\ Flow[1].len = sent[Flow[1].msg].len
    BY <1>1, <1>5 DEF Whole
  <2>2. Flow[1].len \in Nat
    BY <1>1, <1>5, WholeTypes
  <2> QED
    BY <1>1, <2>1, <2>2, TcpPktAssumption DEF SentSound
<1>8. Len(b) <= b[1].len
  <2>1. CASE Len(rcvbuff) < HdrLen
    BY <1>2, <1>3, <1>6, <1>7, <2>1
  <2>2. CASE ~(Len(rcvbuff) < HdrLen)
    <3>1. 1 \in 1..Len(rcvbuff)
      BY <1>2, <1>7, <2>2, TcpPktAssumption
    <3>2. rcvbuff[1].len = b[1].len
      BY <1>3, <3>1
    <3>3. n <= b[1].len - Len(rcvbuff)
      BY <2>2, <3>2
    <3> QED
      BY <1>2, <1>3, <1>6, <1>7, <3>3
  <2> QED
    BY <2>1, <2>2
<1> QED
  BY <1>3, <1>5, <1>6, <1>7, <1>8

LEMMA ReceiveStep ==
  ASSUME StreamInvariant, NEW n, receive(n)
  PROVE  StreamInvariant'
<1> DEFINE buff == rcvbuff \o SubSeq(stream, 1, n)
           target == IF Len(rcvbuff) < HdrLen THEN HdrLen - Len(rcvbuff)
                     ELSE rcvbuff[1].len - Len(rcvbuff)
<1>1. /\ n \in 1..Len(stream) /\ n <= target
      /\ stream' = SubSeq(stream, n + 1, Len(stream))
      /\ IF Len(buff) >= HdrLen /\ Len(buff) = buff[1].len
         THEN got' = Append(got, buff) /\ rcvbuff' = <<>>
         ELSE rcvbuff' = buff /\ got' = got
      /\ queue' = queue /\ xmt_done' = xmt_done /\ sent' = sent
  BY DEF receive
<1>2. /\ rcvbuff \in Seq(ByteRecord) /\ stream \in Seq(ByteRecord)
      /\ StreamInv(queue, xmt_done, Flow, got, sent)
  BY DEF StreamInvariant, Unfinished
<1>3. Len(stream) \in Nat /\ n \in Nat /\ n <= Len(stream)
  BY <1>1, <1>2
<1>4. /\ buff \in Seq(ByteRecord) /\ stream' \in Seq(ByteRecord)
      /\ Len(buff) <= Len(Flow) /\ buff \o stream' = Flow
      /\ FrontPart(buff, Flow, Len(buff)) /\ Rest(stream', Flow, Len(buff))
  <2> DEFINE u == SubSeq(stream, n + 1, Len(stream))
  <2>1. /\ buff \in Seq(ByteRecord) /\ u \in Seq(ByteRecord)
        /\ Len(buff) <= Len(rcvbuff \o stream) /\ buff \o u = rcvbuff \o stream
        /\ FrontPart(buff, rcvbuff \o stream, Len(buff)) /\ Rest(u, rcvbuff \o stream, Len(buff))
    <3>1. Taken(buff, u, rcvbuff, stream, n)
      BY DEF Taken
    <3> HIDE DEF buff, u
    <3> QED
      BY <1>2, <1>3, <3>1, TakeBytes
  <2> HIDE DEF buff
  <2>2. stream' = u
    BY <1>1
  <2> HIDE DEF u
  <2> QED
    BY <2>1, <2>2 DEF Flow
<1>5. /\ buff # <<>> /\ Flow # <<>>
      /\ buff[1].len = Flow[1].len /\ Len(buff) <= buff[1].len /\ HdrLen <= buff[1].len
  <2>1. Taken(buff, stream', rcvbuff, stream, n)
    BY <1>1 DEF Taken
  <2> HIDE DEF buff
  <2> QED
    BY <1>1, <2>1, BoundedTake
<1> HIDE DEF buff, target
<1>6. CASE Len(buff) >= HdrLen /\ Len(buff) = buff[1].len
  <2>1. got' = Append(got, buff) /\ rcvbuff' = <<>>
    BY <1>1, <1>6
  <2>2. Flow' = stream'
    BY <1>4, <2>1 DEF Flow
  <2>3. Arrived(Flow, Len(buff))
    BY <1>4, <1>5, <1>6 DEF Arrived
  <2>4. StreamInv(queue, xmt_done, stream', got', sent)
    <3>1. Appended(got', got, buff)
      BY <2>1 DEF Appended
    <3> QED
      BY <1>2, <1>4, <2>3, <3>1, ReceiveKeeps
  <2>5. Unfinished(rcvbuff')
    BY <2>1 DEF Unfinished
  <2> QED
    BY <1>1, <1>4, <2>2, <2>4, <2>5 DEF StreamInvariant
<1>7. CASE ~(Len(buff) >= HdrLen /\ Len(buff) = buff[1].len)
  <2>1. got' = got /\ rcvbuff' = buff
    BY <1>1, <1>7
  <2>2. Flow' = Flow
    BY <1>4, <2>1 DEF Flow
  <2>3. Len(buff) < buff[1].len
    <3>1. Len(buff) \in Nat /\ HdrLen \in Nat
      BY <1>4, TcpPktAssumption
    <3>2. buff[1].len \in Nat
      <4>1. buff[1] \in ByteRecord
        BY <1>4, <1>5
      <4> QED
        BY <4>1 DEF ByteRecord
    <3> QED
      BY <1>5, <1>7, <3>1, <3>2
  <2>4. Unfinished(rcvbuff')
    BY <1>4, <2>1, <2>3 DEF Unfinished
  <2> QED
    BY <1>1, <1>2, <1>4, <2>1, <2>2, <2>4 DEF StreamInvariant
<1> QED
  BY <1>6, <1>7

LEMMA StreamInitially ==
  ASSUME StreamInit
  PROVE  StreamInvariant
<1>1. /\ queue = <<>> /\ xmt_done = 0 /\ stream = <<>>
      /\ rcvbuff = <<>> /\ got = <<>> /\ sent = <<>>
  BY DEF StreamInit
<1>2. Flow = <<>>
  BY <1>1 DEF Flow
<1>3. \A X : <<>> \in Seq(X) /\ Len(<<>>) = 0
  OBVIOUS
<1>4. SentSound(<<>>) /\ QueueSound(<<>>, 0, <<>>) /\ GotSound(<<>>, <<>>) /\ Whole(<<>>, <<>>)
  BY <1>3 DEF SentSound, QueueSound, GotSound, Whole
<1>5. Begun(<<>>, <<>>, 0)
  BY DEF Begun, Complete
<1>6. Accounted(<<>>, 0, <<>>, <<>>, <<>>)
  BY <1>3 DEF Accounted, Received, Mentions
<1>7. StreamInv(<<>>, 0, <<>>, <<>>, <<>>)
  BY <1>4, <1>5, <1>6 DEF StreamInv
<1> QED
  BY <1>1, <1>2, <1>3, <1>7 DEF StreamInvariant, Unfinished

LEMMA NewMessages ==
  ASSUME StreamInvariant, NEW len \in BodyLens, NEW m,
         m = [no |-> Len(sent) + 1, len |-> HdrLen + len]
  PROVE  NewMessage(m, sent) /\ m \in MsgRecord /\ m.len \in Nat
<1>1. Len(sent) \in Nat
  BY DEF StreamInvariant, StreamInv, SentSound
<1>2. HdrLen \in Nat /\ len \in Nat
  BY TcpPktAssumption
<1> QED
  BY <1>1, <1>2 DEF NewMessage, MsgRecord

LEMMA QueueXpktStep ==
  ASSUME StreamInvariant, NEW len \in BodyLens, queue_xpkt(len)
  PROVE  StreamInvariant'
<1> DEFINE m == [no |-> Len(sent) + 1, len |-> HdrLen + len]
<1>1. queue' = Append(queue, m) /\ sent' = Append(sent, m)
      /\ xmt_done' = xmt_done /\ stream' = stream /\ rcvbuff' = rcvbuff /\ got' = got
  BY DEF queue_xpkt
<1>2. NewMessage(m, sent)
  BY NewMessages
<1> HIDE DEF m
<1>3. StreamInv(queue, xmt_done, Flow, got, sent)
  BY DEF StreamInvariant
<1>4. StreamInv(queue', xmt_done, Flow, got, sent')
  <2>1. Appended(sent', sent, m) /\ Appended(queue', queue, m)
    BY <1>1 DEF Appended
  <2> QED
    BY <1>2, <1>3, <2>1, QueueXpktKeeps
<1>5. Flow' = Flow
  BY <1>1 DEF Flow
<1> QED
  BY <1>1, <1>4, <1>5 DEF StreamInvariant

(* Bytes that are put on the stream follow what is on its way. *)
LEMMA FlowGrows ==
  ASSUME StreamInvariant, NEW b \in Seq(ByteRecord), stream' = stream \o b, rcvbuff' = rcvbuff
  PROVE  Flow' = Flow \o b /\ stream' \in Seq(ByteRecord)
<1>1. rcvbuff \in Seq(ByteRecord) /\ stream \in Seq(ByteRecord)
  BY DEF StreamInvariant, Unfinished
<1>2. rcvbuff \o (stream \o b) = (rcvbuff \o stream) \o b
  BY <1>1
<1> QED
  BY <1>1, <1>2 DEF Flow

LEMMA SuspendStep ==
  ASSUME StreamInvariant, NEW len \in BodyLens, sendpkt_suspend(len)
  PROVE  StreamInvariant'
<1> DEFINE m == [no |-> Len(sent) + 1, len |-> HdrLen + len]
           b == BytesOf(m)
<1>1. sent' = Append(sent, m) /\ stream' = stream \o b /\ xmt_done = 0
      /\ queue' = queue /\ xmt_done' = xmt_done /\ rcvbuff' = rcvbuff /\ got' = got
  BY DEF sendpkt_suspend
<1>2. NewMessage(m, sent) /\ m \in MsgRecord /\ m.len \in Nat
  BY NewMessages
<1> HIDE DEF m
<1>3. PartOf(b, m, 0) /\ Len(b) = m.len /\ b \in Seq(ByteRecord)
  <2>1. b = [i \in 1..m.len |-> [msg |-> m.no, at |-> i, len |-> m.len]]
    BY DEF BytesOf, Byte
  <2> HIDE DEF b
  <2>2. b \in Seq(ByteRecord)
    <3>1. \A i \in 1..m.len : [msg |-> m.no, at |-> i, len |-> m.len] \in ByteRecord
      BY <1>2 DEF MsgRecord, ByteRecord
    <3> HIDE DEF ByteRecord
    <3>2. b \in [1..m.len -> ByteRecord]
      BY <2>1, <3>1
    <3> QED
      BY <1>2, <3>2
  <2>3. Len(b) = m.len
    BY <1>2, <2>1
  <2>4. \A i \in 1..Len(b) : b[i] = [msg |-> m.no, at |-> 0 + i, len |-> m.len]
    BY <1>2, <2>1, <2>3
  <2> QED
    BY <2>2, <2>3, <2>4 DEF PartOf
<1> HIDE DEF b
<1>4. StreamInv(queue, 0, Flow, got, sent)
  BY <1>1 DEF StreamInvariant
<1>5. StreamInv(queue, 0, Flow \o b, got, sent')
  <2>1. Appended(sent', sent, m)
    BY <1>1 DEF Appended
  <2> QED
    BY <1>2, <1>3, <1>4, <2>1, SuspendKeeps
<1>6. Flow' = Flow \o b /\ stream' \in Seq(ByteRecord)
  BY <1>1, <1>3, FlowGrows
<1> QED
  BY <1>1, <1>5, <1>6 DEF StreamInvariant

(* A send() that takes all it is given sends a header, or a body. *)
LEMMA SendpktStep ==
  ASSUME ~Partial, StreamInvariant, NEW n, sendpkt(n)
  PROVE  StreamInvariant'
<1> DEFINE m       == Head(queue)
           hdr     == xmt_done < HdrLen
           to_send == IF hdr THEN HdrLen - xmt_done ELSE m.len - xmt_done
           data(i) == IF hdr \/ xmt_done = HdrLen THEN Byte(m, xmt_done + i)
                      ELSE IF i <= xmt_done - HdrLen THEN SomeByte(m)
                      ELSE Byte(m, HdrLen + i - (xmt_done - HdrLen))
           b       == [i \in 1..n |-> Byte(m, xmt_done + i)]
<1>1. /\ queue # <<>> /\ n \in 0..to_send
      /\ to_send > 0 => n > 0 /\ (Partial \/ n = to_send)
      /\ stream' = stream \o [i \in 1..n |-> data(i)]
      /\ IF ~hdr /\ n = to_send THEN queue' = Tail(queue) /\ xmt_done' = 0
         ELSE xmt_done' = xmt_done + n /\ queue' = queue
      /\ rcvbuff' = rcvbuff /\ got' = got /\ sent' = sent
  BY DEF sendpkt
<1>2. StreamInv(queue, xmt_done, Flow, got, sent)
  BY DEF StreamInvariant
<1>3. /\ xmt_done \in {0, HdrLen} /\ HdrLen \in Nat /\ HdrLen > 0
      /\ m = queue[1] /\ m \in MsgRecord /\ m.len \in Nat /\ m.no \in Nat /\ m.len >= HdrLen
  <2>1. SentSound(sent) /\ QueueSound(queue, xmt_done, sent)
    BY <1>2 DEF StreamInv
  <2>2. queue \in Seq(MsgRecord)
    BY <2>1, QueueFacts
  <2>3. 1 \in 1..Len(queue) /\ m = queue[1]
    BY <1>1, <2>2
  <2>4. m.len \in Nat /\ m.len >= HdrLen
    BY <2>1, <2>3, QueueFacts
  <2>5. m \in MsgRecord
    BY <2>2, <2>3
  <2>6. xmt_done \in {0, HdrLen}
    BY <2>1 DEF QueueSound
  <2> QED
    BY <2>3, <2>4, <2>5, <2>6, TcpPktAssumption DEF MsgRecord
<1> HIDE DEF m
<1>4. [i \in 1..n |-> data(i)] = b
  BY <1>3
<1>5. stream' = stream \o b
  BY <1>1, <1>4
<1>6. n = to_send /\ n \in Nat
  <2>1. to_send \in Nat
    BY <1>3
  <2> HIDE DEF to_send
  <2> QED
    BY <1>1, <2>1
<1>7. b \in Seq(ByteRecord) /\ Len(b) = n
      /\ \A i \in 1..Len(b) : b[i] = [msg |-> m.no, at |-> xmt_done + i, len |-> m.len]
  <2>1. xmt_done \in Nat
    BY <1>3
  <2>2. b \in Seq(ByteRecord)
    BY <1>3, <1>6, <2>1, BytesType
  <2>3. Len(b) = n
    BY <1>6
  <2> QED
    BY <2>2, <2>3 DEF Byte
<1> HIDE DEF b
<1>8. PartOf(b, queue[1], xmt_done)
  BY <1>3, <1>7 DEF PartOf
<1>9. Flow' = Flow \o b /\ stream' \in Seq(ByteRecord)
  BY <1>1, <1>5, <1>7, FlowGrows
<1>10. CASE xmt_done = 0
  <2>1. hdr /\ n = HdrLen
    BY <1>3, <1>6, <1>10
  <2>2. xmt_done' = HdrLen /\ queue' = queue
    BY <1>1, <1>3, <1>10, <2>1
  <2>3. StreamInv(queue, HdrLen, Flow \o b, got, sent)
    BY <1>1, <1>2, <1>7, <1>8, <1>10, <2>1, HeaderKeeps
  <2> QED
    BY <1>1, <1>9, <2>2, <2>3 DEF StreamInvariant
<1>11. CASE xmt_done = HdrLen
  <2>1. ~hdr /\ n = queue[1].len - HdrLen
    BY <1>3, <1>6, <1>11
  <2>2. xmt_done' = 0 /\ queue' = Tail(queue)
    BY <1>1, <1>6, <2>1
  <2>3. StreamInv(queue', 0, Flow \o b, got, sent)
    <3>1. Popped(queue', queue)
      BY <2>2 DEF Popped
    <3> QED
      BY <1>2, <1>7, <1>8, <1>11, <2>1, <3>1, BodyKeeps
  <2> QED
    BY <1>1, <1>9, <2>2, <2>3 DEF StreamInvariant
<1> QED
  BY <1>3, <1>10, <1>11

LEMMA StreamStep ==
  ASSUME ~Partial, StreamInvariant, [StreamNext]_tcpVars
  PROVE  StreamInvariant'
<1>1. ASSUME NEW len \in BodyLens, queue_xpkt(len) PROVE StreamInvariant'
  BY <1>1, QueueXpktStep
<1>2. ASSUME NEW len \in BodyLens, sendpkt_suspend(len) PROVE StreamInvariant'
  BY <1>2, SuspendStep
<1>3. ASSUME NEW n \in 0..MaxLen, sendpkt(n) PROVE StreamInvariant'
  BY <1>3, SendpktStep
<1>4. ASSUME NEW n \in 0..MaxLen, receive(n) PROVE StreamInvariant'
  BY <1>4, ReceiveStep
<1>5. CASE UNCHANGED tcpVars
  BY <1>5 DEF tcpVars, StreamInvariant, Flow
<1> QED
  BY <1>1, <1>2, <1>3, <1>4, <1>5 DEF StreamNext

(* All that was sent was received, once: as many messages. *)
LEMMA AllReceived ==
  ASSUME NEW g, NEW s, SentSound(s), GotSound(g, s), 1..Len(s) \subseteq Received(g)
  PROVE  Len(g) = Len(s)
<1> DEFINE A == 1..Len(g)
           B == 1..Len(s)
           f == [k \in A |-> g[k][1].msg]
<1>1. Len(g) \in Nat /\ Len(s) \in Nat
  BY DEF SentSound, GotSound
<1>2. \A k \in A : g[k][1].msg \in B
  BY DEF GotSound
<1>3. \A j, k \in A : g[j][1].msg = g[k][1].msg => j = k
  BY DEF GotSound
<1>4. \A y \in B : \E k \in A : g[k][1].msg = y
  BY DEF Received
<1>5. IsFiniteSet(A) /\ Cardinality(A) = Len(g) /\ Cardinality(B) = Len(s)
  <2>1. ASSUME NEW n \in Nat
        PROVE  IsFiniteSet(1..n) /\ Cardinality(1..n) = n
    <3>1. IsFiniteSet(1..n) /\ Cardinality(1..n) = IF 1 > n THEN 0 ELSE n - 1 + 1
      BY FS_Interval
    <3> QED
      BY <3>1
  <2> QED
    BY <1>1, <2>1
<1> HIDE DEF A, B
<1>6. /\ f \in [A -> B] /\ \A j, k \in A : f[j] = f[k] => j = k
      /\ \A y \in B : \E k \in A : f[k] = y
  BY <1>2, <1>3, <1>4
<1>7. DOMAIN f = A
  OBVIOUS
<1> HIDE DEF f
<1>8. ExistsBijection(A, B)
  <2>1. f \in Injection(A, B)
    BY <1>6, <1>7 DEF Injection, IsInjective
  <2>2. f \in Surjection(A, B)
    BY <1>6 DEF Surjection
  <2> QED
    BY <2>1, <2>2 DEF ExistsBijection, Bijection
<1> QED
  BY <1>5, <1>8, FS_Bijection

(* What is left unfinished is no complete message. *)
LEMMA NothingUnfinished ==
  ASSUME NEW s, NEW r, Whole(r, s), Complete(r), Unfinished(r)
  PROVE  r = <<>>
<1> SUFFICES ASSUME r # <<>> PROVE FALSE
  OBVIOUS
<1> DEFINE L == Len(r)
<1>1. r \in Seq(ByteRecord) /\ L \in Nat /\ 1 \in 1..L /\ L \in 1..L
  <2>1. r \in Seq(ByteRecord)
    BY WholeTypes
  <2> QED
    BY <2>1
<1>2. L < r[1].len /\ r[L].at = r[L].len
  BY DEF Complete, Unfinished
<1> HIDE DEF L
<1>3. r[1].at = 1 /\ r[1].len \in Nat
  <2>1. r[1].at \in Nat /\ r[1].at <= 1 /\ 1 <= r[1].at /\ r[1].len \in Nat
    BY <1>1, WholeTypes DEF L
  <2> QED
    BY <2>1
<1>4. L \in 1..r[1].len /\ L = 1 - r[1].at + L /\ L <= Len(r)
  BY <1>1, <1>2, <1>3 DEF L
<1>5. r[L] = [msg |-> r[1].msg, at |-> L, len |-> r[1].len]
  BY <1>1, <1>4, WholeAt DEF L
<1>6. r[L].at = L /\ r[L].len = r[1].len
  BY <1>5
<1> DEFINE X == r[1].len
<1>7. X = L /\ L < X
  BY <1>2, <1>6
<1> HIDE DEF X
<1> QED
  BY <1>1, <1>7

LEMMA StreamSafe ==
  ASSUME StreamInvariant
  PROVE  MessagesIntact
<1>1. /\ SentSound(sent) /\ QueueSound(queue, xmt_done, sent) /\ GotSound(got, sent)
      /\ Whole(Flow, sent) /\ Begun(Flow, queue, xmt_done)
      /\ Accounted(queue, xmt_done, Flow, got, sent)
      /\ Unfinished(rcvbuff)
  BY DEF StreamInvariant, StreamInv
<1>2. DOMAIN got = 1..Len(got)
  BY <1>1 DEF GotSound
<1>3. \A k \in DOMAIN got : got[k] = BytesOf(sent[got[k][1].msg])
  BY <1>1, <1>2 DEF GotSound
<1>4. \A j, k \in DOMAIN got : got[j] = got[k] => j = k
  BY <1>1, <1>2 DEF GotSound
<1>5. ASSUME queue = <<>>, stream = <<>>
      PROVE  Len(got) = Len(sent) /\ rcvbuff = <<>>
  <2>1. xmt_done = 0
    BY <1>1, <1>5 DEF QueueSound
  <2>2. Flow = rcvbuff
    BY <1>1, <1>5 DEF Flow, Unfinished
  <2>3. Complete(rcvbuff) /\ Whole(rcvbuff, sent)
    BY <1>1, <2>1, <2>2 DEF Begun
  <2>4. rcvbuff = <<>>
    BY <1>1, <2>3, NothingUnfinished
  <2>5. Mentions(Flow) = {} /\ Queued(queue) = {}
    BY <1>5, <2>2, <2>4 DEF Mentions, Queued
  <2>6. 1..Len(sent) \subseteq Received(got)
    BY <1>1, <2>5 DEF Accounted
  <2>7. Len(got) = Len(sent)
    BY <1>1, <2>6, AllReceived
  <2> QED
    BY <2>4, <2>7
<1> QED
  BY <1>3, <1>4, <1>5 DEF MessagesIntact

(* Whatever the receiver is given at a time, it gets the messages that     *)
(* were sent, whole and each once, those that overtake others among them,  *)
(* as long as send() takes all that it is given: a header, or a body.      *)
(* That is the assumption of sendpkt() (tcppkt.C:194); without it the      *)
(* bytes of a body are taken from the wrong place.                         *)
THEOREM MessagesArriveIntact ==
  ASSUME ~Partial
  PROVE  StreamSpec => []MessagesIntact
<1>1. StreamInit => StreamInvariant
  BY StreamInitially
<1>2. StreamInvariant /\ [StreamNext]_tcpVars => StreamInvariant'
  BY StreamStep
<1>3. StreamInvariant => MessagesIntact
  BY StreamSafe
<1> QED
  BY <1>1, <1>2, <1>3, PTL DEF StreamSpec
-----------------------------------------------------------------------------
(* Monitor: listings of tables that change.                                *)

(* Keys of n numbers; the tables have keys of 1, 2 or 3. *)
Wide(n) == {k \in Seq(Nat) : Len(k) = n}

WidthOf(t) == IF t.of = "area" THEN 1 ELSE IF t.of = "lsa" THEN 3 ELSE 2

Tables == {"area", "ifc", "nbr", "rte", "lsa"}

-----------------------------------------------------------------------------
(* The order of the keys. *)
LEMMA WideAt ==
  ASSUME NEW n \in 1..3, NEW a \in Wide(n)
  PROVE  DOMAIN a = 1..n /\ \A i \in 1..n : a[i] \in Nat
  BY DEF Wide

LEMMA WideEqual ==
  ASSUME NEW n \in 1..3, NEW a \in Wide(n), NEW b \in Wide(n), \A i \in 1..n : a[i] = b[i]
  PROVE  a = b
<1>1. a \in [1..n -> Nat] /\ b \in [1..n -> Nat]
  BY DEF Wide
<1> QED
  BY <1>1

LEMMA LessMeans ==
  ASSUME NEW n \in 1..3, NEW a \in Wide(n), NEW b \in Wide(n)
  PROVE  Less(a, b) <=>
           \/ a[1] < b[1]
           \/ n >= 2 /\ a[1] = b[1] /\ a[2] < b[2]
           \/ n = 3 /\ a[1] = b[1] /\ a[2] = b[2] /\ a[3] < b[3]
<1>1. DOMAIN a = 1..n
  BY WideAt
<1>2. ASSUME Less(a, b)
      PROVE  \/ a[1] < b[1]
             \/ n >= 2 /\ a[1] = b[1] /\ a[2] < b[2]
             \/ n = 3 /\ a[1] = b[1] /\ a[2] = b[2] /\ a[3] < b[3]
  <2>1. PICK i \in 1..n : a[i] < b[i] /\ \A j \in 1..(i - 1) : a[j] = b[j]
    BY <1>1, <1>2 DEF Less
  <2>2. CASE i = 1
    BY <2>1, <2>2
  <2>3. CASE i = 2
    <3>1. 1 \in 1..(i - 1) /\ n >= 2
      BY <2>3
    <3> QED
      BY <2>1, <2>3, <3>1
  <2>4. CASE i = 3
    <3>1. 1 \in 1..(i - 1) /\ 2 \in 1..(i - 1) /\ n = 3
      BY <2>4
    <3> QED
      BY <2>1, <2>4, <3>1
  <2> QED
    BY <2>2, <2>3, <2>4
<1>3. ASSUME NEW i \in 1..n, a[i] < b[i], \A j \in 1..(i - 1) : a[j] = b[j]
      PROVE  Less(a, b)
  BY <1>1, <1>3 DEF Less
<1>4. ASSUME a[1] < b[1] PROVE Less(a, b)
  BY <1>3, <1>4
<1>5. ASSUME n >= 2, a[1] = b[1], a[2] < b[2] PROVE Less(a, b)
  <2>1. 2 \in 1..n /\ \A j \in 1..(2 - 1) : a[j] = b[j]
    BY <1>5
  <2> QED
    BY <1>3, <1>5, <2>1
<1>6. ASSUME n = 3, a[1] = b[1], a[2] = b[2], a[3] < b[3] PROVE Less(a, b)
  <2>1. 3 \in 1..n /\ \A j \in 1..(3 - 1) : j = 1 \/ j = 2
    BY <1>6
  <2>2. \A j \in 1..(3 - 1) : a[j] = b[j]
    BY <1>6, <2>1
  <2> QED
    BY <1>3, <1>6, <2>1, <2>2
<1> QED
  BY <1>2, <1>4, <1>5, <1>6

LEMMA LessOrder ==
  ASSUME NEW n \in 1..3, NEW a \in Wide(n), NEW b \in Wide(n)
  PROVE  /\ ~(Less(a, b) /\ Less(b, a)) /\ ~Less(a, a)
         /\ a # b => Less(a, b) \/ Less(b, a)
         /\ Less(a, b) => a[1] <= b[1]
         /\ \A c \in Wide(n) : Less(a, b) /\ Less(b, c) => Less(a, c)
<1>1. /\ a[1] \in Nat /\ (n >= 2 => a[2] \in Nat) /\ (n = 3 => a[3] \in Nat)
      /\ b[1] \in Nat /\ (n >= 2 => b[2] \in Nat) /\ (n = 3 => b[3] \in Nat)
  BY WideAt
<1>2. ~(Less(a, b) /\ Less(b, a)) /\ ~Less(a, a) /\ (Less(a, b) => a[1] <= b[1])
  BY <1>1, LessMeans
<1>3. ASSUME a # b PROVE Less(a, b) \/ Less(b, a)
  <2>1. PICK i \in 1..n : a[i] # b[i]
    BY <1>3, WideEqual
  <2>2. i = 1 \/ i = 2 \/ i = 3
    OBVIOUS
  <2>3. \/ a[1] # b[1]
        \/ n >= 2 /\ a[1] = b[1] /\ a[2] # b[2]
        \/ n = 3 /\ a[1] = b[1] /\ a[2] = b[2] /\ a[3] # b[3]
    BY <2>1, <2>2
  <2> QED
    BY <1>1, <2>3, LessMeans
<1>4. ASSUME NEW c \in Wide(n), Less(a, b), Less(b, c) PROVE Less(a, c)
  <2>1. c[1] \in Nat /\ (n >= 2 => c[2] \in Nat) /\ (n = 3 => c[3] \in Nat)
    BY WideAt
  <2>2. \/ a[1] < b[1]
        \/ n >= 2 /\ a[1] = b[1] /\ a[2] < b[2]
        \/ n = 3 /\ a[1] = b[1] /\ a[2] = b[2] /\ a[3] < b[3]
    BY <1>4, LessMeans
  <2>3. \/ b[1] < c[1]
        \/ n >= 2 /\ b[1] = c[1] /\ b[2] < c[2]
        \/ n = 3 /\ b[1] = c[1] /\ b[2] = c[2] /\ b[3] < c[3]
    BY <1>4, LessMeans
  <2>4. \/ a[1] < c[1]
        \/ n >= 2 /\ a[1] = c[1] /\ a[2] < c[2]
        \/ n = 3 /\ a[1] = c[1] /\ a[2] = c[2] /\ a[3] < c[3]
    BY <1>1, <2>1, <2>2, <2>3
  <2> QED
    BY <2>4, LessMeans
<1> QED
  BY <1>2, <1>3, <1>4

(* The least key of a set of keys. *)
IsLeast(k, S) == k \in S /\ \A z \in S \ {k} : Less(k, z)

LEMMA LeastExists ==
  ASSUME NEW n \in 1..3, NEW S, S \subseteq Wide(n), IsFiniteSet(S), S # {}
  PROVE  \E k \in S : IsLeast(k, S)
<1> DEFINE T == {s \in SUBSET S : s # {} => \E k \in s : IsLeast(k, s)}
<1>1. {} \in T
  OBVIOUS
<1>2. ASSUME NEW s \in SUBSET S, s # {}, \A x \in s : s \ {x} \in T
      PROVE  s \in T
  <2>1. PICK x \in s : TRUE
    BY <1>2
  <2>2. CASE s = {x}
    <3>1. IsLeast(x, s)
      BY <2>2 DEF IsLeast
    <3> QED
      BY <3>1
  <2>3. CASE s # {x}
    <3>1. s \ {x} # {} /\ s \ {x} \in T
      BY <1>2, <2>1, <2>3
    <3>2. PICK k \in s \ {x} : IsLeast(k, s \ {x})
      BY <3>1
    <3>3. x \in Wide(n) /\ k \in Wide(n) /\ k # x /\ s \subseteq Wide(n)
      BY <2>1, <3>2
    <3>4. CASE Less(k, x)
      <4>1. IsLeast(k, s)
        BY <3>2, <3>4 DEF IsLeast
      <4> QED
        BY <3>2, <4>1
    <3>5. CASE Less(x, k)
      <4>1. ASSUME NEW z \in s \ {x} PROVE Less(x, z)
        <5>1. z = k \/ Less(k, z)
          BY <3>2 DEF IsLeast
        <5> QED
          BY <3>3, <3>5, <5>1, LessOrder
      <4>2. IsLeast(x, s)
        BY <2>1, <4>1 DEF IsLeast
      <4> QED
        BY <2>1, <4>2
    <3> QED
      BY <3>3, <3>4, <3>5, LessOrder
  <2> QED
    BY <2>2, <2>3
<1> HIDE DEF T
<1>3. SUBSET S \subseteq T
  BY <1>1, <1>2, SubsetInduction
<1>4. S \in T
  BY <1>3
<1> QED
  BY <1>4 DEF T

LEMMA LeastIs ==
  ASSUME NEW n \in 1..3, NEW S, S \subseteq Wide(n), NEW m, IsLeast(m, S)
  PROVE  Least(S) = m
<1>1. m \in S /\ \A z \in S \ {m} : Less(m, z)
  BY DEF IsLeast
<1>2. ASSUME NEW k \in S, \A z \in S \ {k} : Less(k, z)
      PROVE  k = m
  <2> SUFFICES ASSUME k # m PROVE FALSE
    OBVIOUS
  <2>1. Less(k, m) /\ Less(m, k)
    BY <1>1, <1>2
  <2> QED
    BY <1>1, <2>1, LessOrder
<1> QED
  BY <1>1, <1>2 DEF Least

LEMMA LeastFound ==
  ASSUME NEW n \in 1..3, NEW S, S \subseteq Wide(n), IsFiniteSet(S), S # {}
  PROVE  IsLeast(Least(S), S)
  BY LeastExists, LeastIs

-----------------------------------------------------------------------------
(* What a listing starts with: every entry it is about is the one it asks  *)
(* for first, or behind it.                                                *)
TableSound ==
  /\ table.of \in Tables
  /\ table.start \in Wide(WidthOf(table))
  /\ table.exact => table.of \in {"area", "rte"}
  /\ table.of = "lsa" => table.start[1] \in Nat /\ table.type \in {0, LST_RTR, LST_ASL}
                         /\ (table.client # "mon" => table.type # 0)
  /\ \A k \in KeysOf(table) : Asked(k) =>
       Less(table.start, k) \/ (table.exact /\ k = table.start)

LEMMA KeysAre ==
  ASSUME table.of \in Tables
  PROVE  /\ WidthOf(table) \in 1..3
         /\ KeysOf(table) \subseteq Wide(WidthOf(table))
         /\ IsFiniteSet(KeysOf(table)) /\ NULL \notin KeysOf(table)
         /\ table.of = "lsa" => \A k \in KeysOf(table) : k[2] \in 1..3
<1>1. CASE table.of = "area"
  <2>1. KeysOf(table) = AreaKeys /\ WidthOf(table) = 1
    BY <1>1 DEF KeysOf, WidthOf
  <2> QED
    BY <1>1, <2>1, MonitorAssumption DEF Wide
<1>2. CASE table.of = "ifc"
  <2>1. KeysOf(table) = IfcKeys /\ WidthOf(table) = 2
    BY <1>2 DEF KeysOf, WidthOf
  <2> QED
    BY <1>2, <2>1, MonitorAssumption DEF Wide
<1>3. CASE table.of = "nbr"
  <2>1. KeysOf(table) = NbrKeys /\ WidthOf(table) = 2
    BY <1>3 DEF KeysOf, WidthOf
  <2> QED
    BY <1>3, <2>1, MonitorAssumption DEF Wide
<1>4. CASE table.of = "rte"
  <2>1. KeysOf(table) = RteKeys /\ WidthOf(table) = 2
    BY <1>4 DEF KeysOf, WidthOf
  <2> QED
    BY <1>4, <2>1, MonitorAssumption DEF Wide
<1>5. CASE table.of = "lsa"
  <2>1. KeysOf(table) = LsaKeys /\ WidthOf(table) = 3
    BY <1>5 DEF KeysOf, WidthOf
  <2> QED
    BY <1>5, <2>1, MonitorAssumption DEF Wide
<1> QED
  BY <1>1, <1>2, <1>3, <1>4, <1>5 DEF Tables

(* Whatever the table: the entry with the key, or the first one behind it. *)
Behind(key) == {k \in db : Less(key, k)}

LEMMA NextLsaIsNext ==
  ASSUME NEW k \in Wide(3), db \subseteq Wide(3), IsFiniteSet(db)
  PROVE  NextLSA(k) = Least(Behind(k))
<1> DEFINE a    == k[1]
           here == {l \in db : l[1] = a /\ ((l[2] = k[2] /\ l[3] > k[3]) \/ l[2] > k[2])}
           then == {l \in db : l[1] > a}
<1>1. NextLSA(k) = IF here # {} THEN Least(here) ELSE Least(then)
  BY DEF NextLSA
<1>2. ASSUME NEW l \in db
      PROVE  /\ Less(k, l) <=> l \in here \/ l \in then
             /\ l \in here => l[1] = a
             /\ l \in then => l[1] > a
             /\ a \in Nat /\ l[1] \in Nat
  <2>1. /\ k[1] \in Nat /\ k[2] \in Nat /\ k[3] \in Nat
        /\ l[1] \in Nat /\ l[2] \in Nat /\ l[3] \in Nat /\ l \in Wide(3)
    BY WideAt
  <2>2. Less(k, l) <=>
           \/ k[1] < l[1]
           \/ k[1] = l[1] /\ k[2] < l[2]
           \/ k[1] = l[1] /\ k[2] = l[2] /\ k[3] < l[3]
    BY <2>1, LessMeans
  <2> QED
    BY <2>1, <2>2
<1>3. here \subseteq db /\ then \subseteq db
  OBVIOUS
<1> HIDE DEF here, then, a
<1>4. CASE here # {}
  <2>1. here \subseteq Wide(3) /\ IsFiniteSet(here)
    BY <1>3, FS_Subset
  <2>2. IsLeast(Least(here), here)
    BY <1>4, <2>1, LeastFound
  <2> DEFINE m == Least(here)
  <2>3. m \in here /\ \A z \in here \ {m} : Less(m, z)
    BY <2>2 DEF IsLeast
  <2> HIDE DEF m
  <2>4. ASSUME NEW z \in Behind(k) \ {m} PROVE Less(m, z)
    <3>1. z \in db /\ Less(k, z) /\ z \in Wide(3) /\ m \in db /\ m \in Wide(3)
      BY <1>3, <2>3 DEF Behind
    <3>2. CASE z \in here
      BY <2>3, <2>4, <3>2
    <3>3. CASE z \in then
      <4>1. m[1] < z[1]
        BY <1>2, <2>3, <3>1, <3>3
      <4> QED
        BY <3>1, <4>1, LessMeans
    <3> QED
      BY <1>2, <3>1, <3>2, <3>3
  <2>5. m \in Behind(k)
    BY <1>2, <1>3, <2>3 DEF Behind
  <2>6. IsLeast(m, Behind(k)) /\ Behind(k) \subseteq Wide(3)
    BY <2>4, <2>5 DEF IsLeast, Behind
  <2>7. Least(Behind(k)) = m
    BY <2>6, LeastIs
  <2> QED
    BY <1>1, <1>4, <2>7 DEF m
<1>5. CASE here = {}
  <2>1. Behind(k) = then
    BY <1>2, <1>3, <1>5 DEF Behind
  <2> QED
    BY <1>1, <1>5, <2>1
<1> QED
  BY <1>4, <1>5

LEMMA AnswerIs ==
  ASSUME table.of \in Tables, db \subseteq KeysOf(table),
         NEW e \in BOOLEAN, NEW key \in Wide(WidthOf(table))
  PROVE  monitor(table, [exact |-> e, key |-> key])
           = IF e THEN Exactly(key) ELSE Least(Behind(key))
<1> DEFINE req == [exact |-> e, key |-> key]
<1>1. req.exact = e /\ req.key = key
  OBVIOUS
<1>2. db \subseteq Wide(WidthOf(table)) /\ IsFiniteSet(db)
  BY KeysAre, FS_Subset
<1> HIDE DEF req
<1>3. CASE table.of = "area"
  <2>1. monitor(table, req) = IF e THEN Exactly(key) ELSE NextArea(key)
    BY <1>1, <1>3 DEF monitor, area_stats
  <2>2. {k \in db : k[1] > key[1]} = Behind(key)
    <3>1. WidthOf(table) = 1
      BY <1>3 DEF WidthOf
    <3>2. \A k \in db : Less(key, k) <=> key[1] < k[1]
      BY <1>2, <3>1, LessMeans
    <3>3. \A k \in db : k[1] \in Nat /\ key[1] \in Nat
      BY <1>2, <3>1, WideAt
    <3> QED
      BY <3>2, <3>3 DEF Behind
  <2> QED
    BY <2>1, <2>2 DEF NextArea, req
<1>4. ASSUME WidthOf(table) = 2, NEW k \in db
      PROVE  /\ Less(key, k) <=> key[1] < k[1] \/ (key[1] = k[1] /\ key[2] < k[2])
             /\ k[1] \in Nat /\ key[1] \in Nat /\ k[2] \in Nat /\ key[2] \in Nat
  <2>1. key \in Wide(2) /\ k \in Wide(2)
    BY <1>2, <1>4
  <2> QED
    BY <2>1, LessMeans, WideAt
<1>5. CASE table.of = "ifc"
  <2>1. monitor(table, req) = IF e THEN Exactly(key) ELSE next_ifc(key)
    BY <1>1, <1>5 DEF monitor, interface_stats
  <2>2. {i \in db : key[1] < i[1] \/ (key[1] = i[1] /\ key[2] < i[2])} = Behind(key)
    BY <1>4, <1>5 DEF WidthOf, Behind
  <2> QED
    BY <2>1, <2>2 DEF next_ifc, req
<1>6. CASE table.of = "nbr"
  <2>1. monitor(table, req) = IF e THEN Exactly(key) ELSE next_nbr(key)
    BY <1>1, <1>6 DEF monitor, neighbor_stats
  <2>2. {n \in db : key[1] <= n[1] /\ ~(key[1] = n[1] /\ key[2] >= n[2])} = Behind(key)
    <3>1. \A n \in db : Less(key, n) <=> key[1] <= n[1] /\ ~(key[1] = n[1] /\ key[2] >= n[2])
      BY <1>4, <1>6 DEF WidthOf
    <3> QED
      BY <3>1 DEF Behind
  <2> QED
    BY <2>1, <2>2 DEF next_nbr, req
<1>7. CASE table.of = "rte"
  BY <1>1, <1>7 DEF monitor, rte_stats, Behind, req
<1>8. CASE table.of = "lsa"
  <2>1. monitor(table, req) = IF e THEN Exactly(key) ELSE NextLSA(key)
    BY <1>1, <1>8 DEF monitor, lsa_stats
  <2>2. NextLSA(key) = Least(Behind(key))
    BY <1>2, <1>8, NextLsaIsNext DEF WidthOf
  <2> QED
    BY <2>1, <2>2 DEF req
<1> QED
  BY <1>3, <1>5, <1>6, <1>7, <1>8 DEF Tables, req

-----------------------------------------------------------------------------
(* A listing stands at the last entry it has; it has, in order, what was   *)
(* there all the time up to that entry, and the rest is behind it.         *)
WalkSound ==
  /\ db \subseteq KeysOf(table) /\ walk.stay \subseteq db
  /\ walk \in [exact : BOOLEAN, key : Wide(WidthOf(table)), seen : Seq(KeysOf(table)),
               stay : SUBSET KeysOf(table), changes : Nat, done : BOOLEAN]
  /\ walk.exact => walk.seen = <<>> /\ walk.key = table.start /\ table.of # "lsa" /\ ~walk.done
  /\ walk.seen # <<>> => walk.seen[Len(walk.seen)] = walk.key
  /\ table.of = "lsa" => walk.key[1] = table.start[1]

Had == ToSet(walk.seen)

Listed ==
  /\ \A i \in 1..(Len(walk.seen) - 1) : Less(walk.seen[i], walk.seen[i + 1])
  /\ \A k \in Had : Asked(k)

Ahead ==
  \A k \in walk.stay : Asked(k) =>
    k \in Had \/ Less(walk.key, k) \/ (walk.exact /\ k = walk.key)

AllHad == walk.done => \A k \in walk.stay : Asked(k) => k \in Had

MonInvariant == TableSound /\ WalkSound /\ Listed /\ Ahead /\ AllHad

LEMMA MonSafe ==
  ASSUME MonInvariant
  PROVE  ListingComplete
  BY DEF MonInvariant, Listed, AllHad, Had, ListingComplete

-----------------------------------------------------------------------------
LEMMA WideTuples ==
  /\ \A a \in Nat : <<a>> \in Wide(1) /\ <<a>>[1] = a
  /\ \A a, b \in Nat : <<a, b>> \in Wide(2) /\ <<a, b>>[1] = a /\ <<a, b>>[2] = b
  /\ \A a, b, c \in Nat : <<a, b, c>> \in Wide(3) /\ <<a, b, c>>[1] = a
                          /\ <<a, b, c>>[2] = b /\ <<a, b, c>>[3] = c
  BY DEF Wide

(* The keys of 0 are the least ones. *)
LEMMA ZeroIsLeast ==
  /\ \A k \in Wide(1) : k = << 0 >> \/ Less(<< 0 >>, k)
  /\ \A k \in Wide(2) : k = <<0, 0>> \/ Less(<<0, 0>>, k)
<1>1. ASSUME NEW k \in Wide(1), k # << 0 >> PROVE Less(<< 0 >>, k)
  <2>1. << 0 >> \in Wide(1) /\ << 0 >>[1] = 0
    BY WideTuples
  <2>2. k[1] \in Nat
    BY WideAt
  <2>3. k[1] # 0
    <3> SUFFICES ASSUME k[1] = 0 PROVE FALSE
      OBVIOUS
    <3>1. \A i \in 1..1 : k[i] = << 0 >>[i]
      BY <2>1
    <3>2. k = << 0 >>
      BY <2>1, <3>1, WideEqual
    <3> QED
      BY <1>1, <3>2
  <2> QED
    BY <2>1, <2>2, <2>3, LessMeans
<1>2. ASSUME NEW k \in Wide(2), k # <<0, 0>> PROVE Less(<<0, 0>>, k)
  <2>1. <<0, 0>> \in Wide(2) /\ <<0, 0>>[1] = 0 /\ <<0, 0>>[2] = 0
    BY WideTuples
  <2>2. k[1] \in Nat /\ k[2] \in Nat
    BY WideAt
  <2>3. ~(k[1] = 0 /\ k[2] = 0)
    <3> SUFFICES ASSUME k[1] = 0, k[2] = 0 PROVE FALSE
      OBVIOUS
    <3>1. \A i \in 1..2 : k[i] = <<0, 0>>[i]
      BY <2>1
    <3>2. k = <<0, 0>>
      BY <2>1, <3>1, WideEqual
    <3> QED
      BY <1>2, <3>2
  <2> QED
    BY <2>1, <2>2, <2>3, LessMeans
<1> QED
  BY <1>1, <1>2

(* A listing of the LSAs of area a starts before all of them. *)
LEMMA LsaStart ==
  ASSUME table.of = "lsa", NEW a \in Nat, NEW y \in Nat, table.start = <<a, y, 0>>,
         y = 0 \/ table.type = LST_ASL
  PROVE  /\ table.start \in Wide(3) /\ table.start[1] \in Nat
         /\ \A k \in KeysOf(table) : Asked(k) => Less(table.start, k)
<1>1. /\ table.start \in Wide(3) /\ table.start[1] = a
      /\ table.start[2] = y /\ table.start[3] = 0
  BY WideTuples
<1>2. ASSUME NEW k \in KeysOf(table), Asked(k) PROVE Less(table.start, k)
  <2>1. k[1] = a /\ y = 0
    BY <1>1, <1>2 DEF Asked
  <2>2. k \in Wide(3) /\ k[2] \in 1..3
    BY KeysAre DEF Tables, WidthOf
  <2> QED
    BY <1>1, <2>1, <2>2, LessMeans
<1> QED
  BY <1>1, <1>2

LEMMA AreasAre ==
  \A a \in Areas : a \in Nat
  BY MonitorAssumption DEF Areas

Begins(c, l) ==
  table = [client |-> c, of |-> l.of, exact |-> l.exact, start |-> l.start, type |-> l.type]

LEMMA ListingsSound ==
  ASSUME NEW c, NEW l \in Listings(c), Begins(c, l)
  PROVE  TableSound
<1>1. /\ table.client = c /\ table.of = l.of /\ table.exact = l.exact
      /\ table.start = l.start /\ table.type = l.type
  BY DEF Begins
<1>2. \/ l = Listing("area", TRUE, << 0 >>)
      \/ l = Listing("ifc", FALSE, <<0, 0>>) \/ l = Listing("nbr", FALSE, <<0, 0>>)
      \/ l = Listing("rte", TRUE, <<0, 0>>)
      \/ c = "mon" /\ \E a \in Areas \cup {0} : \E y \in {0, LST_ASL} : l = get_database(a, y)
      \/ c # "mon" /\ \E a \in Areas \cup {0} : \E y \in {LST_RTR, LST_ASL} :
                        l = browser_get_database(a, y)
  <2>1. CASE c = "mon"
    BY <2>1 DEF Listings, get_areas, get_interfaces, get_neighbors, get_rttbl
  <2>2. CASE c # "mon"
    BY <2>2 DEF Listings, browser_get_areas, browser_get_interfaces,
                browser_get_neighbors, browser_get_rttbl
  <2> QED
    BY <2>1, <2>2
<1>3. CASE l = Listing("area", TRUE, << 0 >>)
  <2>1. table.of = "area" /\ table.exact = TRUE /\ table.start = << 0 >>
    BY <1>1, <1>3 DEF Listing
  <2>2. WidthOf(table) = 1 /\ KeysOf(table) \subseteq Wide(1)
    BY <2>1, KeysAre DEF Tables, WidthOf
  <2> QED
    BY <2>1, <2>2, ZeroIsLeast, WideTuples DEF TableSound, Tables
<1>4. CASE l = Listing("rte", TRUE, <<0, 0>>)
  <2>1. table.of = "rte" /\ table.exact = TRUE /\ table.start = <<0, 0>>
    BY <1>1, <1>4 DEF Listing
  <2>2. WidthOf(table) = 2 /\ KeysOf(table) \subseteq Wide(2)
    BY <2>1, KeysAre DEF Tables, WidthOf
  <2> QED
    BY <2>1, <2>2, ZeroIsLeast, WideTuples DEF TableSound, Tables
<1>5. CASE l = Listing("ifc", FALSE, <<0, 0>>) \/ l = Listing("nbr", FALSE, <<0, 0>>)
  <2>1. table.of \in {"ifc", "nbr"} /\ table.exact = FALSE /\ table.start = <<0, 0>>
    BY <1>1, <1>5 DEF Listing
  <2>2. WidthOf(table) = 2 /\ KeysOf(table) \subseteq Wide(2) /\ <<0, 0>> \notin KeysOf(table)
    BY <2>1, KeysAre, MonitorAssumption DEF Tables, WidthOf, KeysOf
  <2> QED
    BY <2>1, <2>2, ZeroIsLeast, WideTuples DEF TableSound, Tables
<1>6. ASSUME NEW a \in Areas \cup {0}, NEW y \in {0, LST_ASL}, c = "mon", l = get_database(a, y)
      PROVE  TableSound
  <2>1. /\ table.of = "lsa" /\ table.exact = FALSE /\ table.start = <<a, y, 0>>
        /\ table.type = y /\ table.client = "mon"
    BY <1>1, <1>6 DEF get_database, Listing
  <2>2. a \in Nat /\ y \in Nat /\ (y = 0 \/ y = LST_ASL)
    BY AreasAre DEF LST_ASL
  <2>3. /\ table.start \in Wide(3) /\ table.start[1] \in Nat
        /\ \A k \in KeysOf(table) : Asked(k) => Less(table.start, k)
    BY <2>1, <2>2, LsaStart
  <2>4. WidthOf(table) = 3
    BY <2>1 DEF WidthOf
  <2> QED
    BY <2>1, <2>2, <2>3, <2>4 DEF TableSound, Tables
<1>7. ASSUME NEW a \in Areas \cup {0}, NEW y \in {LST_RTR, LST_ASL}, c # "mon",
             l = browser_get_database(a, y)
      PROVE  TableSound
  <2>1. /\ table.of = "lsa" /\ table.exact = FALSE /\ table.start = <<a, 0, 0>>
        /\ table.type = y /\ table.client # "mon"
    BY <1>1, <1>7 DEF browser_get_database, Listing
  <2>2. a \in Nat
    BY AreasAre
  <2>3. /\ table.start \in Wide(3) /\ table.start[1] \in Nat
        /\ \A k \in KeysOf(table) : Asked(k) => Less(table.start, k)
    BY <2>1, <2>2, LsaStart
  <2>4. WidthOf(table) = 3 /\ table.type # 0
    BY <2>1 DEF WidthOf, LST_RTR, LST_ASL
  <2> QED
    BY <2>1, <2>2, <2>3, <2>4 DEF TableSound, Tables
<1> QED
  BY <1>2, <1>3, <1>4, <1>5, <1>6, <1>7

LEMMA MonInitially ==
  ASSUME MonInit
  PROVE  MonInvariant
<1>1. PICK c \in Clients : \E l \in Listings(c) : Begins(c, l)
  BY DEF MonInit, Begins
<1>2. TableSound
  BY <1>1, ListingsSound
<1>3. /\ db \subseteq KeysOf(table)
      /\ walk = [exact |-> table.exact, key |-> table.start, seen |-> <<>>, stay |-> db,
                 changes |-> 0, done |-> FALSE]
  BY DEF MonInit
<1>4. table.exact \in BOOLEAN
  <2>1. PICK l \in Listings(c) : table.exact = l.exact
    BY <1>1 DEF Begins
  <2>2. l.exact \in BOOLEAN
    <3>1. \A of, s : Listing(of, TRUE, s).exact \in BOOLEAN /\ Listing(of, FALSE, s).exact \in BOOLEAN
      BY DEF Listing
    <3>2. \A a, y : get_database(a, y).exact \in BOOLEAN /\ browser_get_database(a, y).exact \in BOOLEAN
      BY DEF Listing, get_database, browser_get_database
    <3> QED
      BY <3>1, <3>2 DEF Listings, get_areas, get_interfaces, get_neighbors, get_rttbl,
           browser_get_areas, browser_get_interfaces, browser_get_neighbors, browser_get_rttbl
  <2> QED
    BY <2>1, <2>2
<1>5. /\ walk.exact = table.exact /\ walk.key = table.start /\ walk.seen = <<>>
      /\ walk.stay = db /\ walk.changes = 0 /\ walk.done = FALSE
  BY <1>3
<1>6. WalkSound
  <2>1. table.start \in Wide(WidthOf(table)) /\ <<>> \in Seq(KeysOf(table))
    BY <1>2 DEF TableSound
  <2>2. walk \in [exact : BOOLEAN, key : Wide(WidthOf(table)), seen : Seq(KeysOf(table)),
                  stay : SUBSET KeysOf(table), changes : Nat, done : BOOLEAN]
    BY <1>3, <1>4, <2>1
  <2>3. table.exact => table.of # "lsa"
    BY <1>2 DEF TableSound
  <2> QED
    BY <1>3, <1>5, <2>2, <2>3 DEF WalkSound
<1>7. Had = {}
  BY <1>5 DEF Had, ToSet
<1>8. Listed
  <2>1. Len(walk.seen) = 0
    BY <1>5
  <2> QED
    BY <1>7, <2>1 DEF Listed
<1>9. Ahead
  BY <1>2, <1>3, <1>5 DEF TableSound, Ahead
<1> QED
  BY <1>2, <1>5, <1>6, <1>8, <1>9 DEF MonInvariant, AllHad

-----------------------------------------------------------------------------
(* What is listed next. *)
LEMMA AppendSeen ==
  ASSUME NEW S, NEW s \in Seq(S), NEW k \in S
  PROVE  /\ Append(s, k) \in Seq(S) /\ Len(Append(s, k)) = Len(s) + 1
         /\ Append(s, k)[Len(s) + 1] = k /\ Len(s) \in Nat
         /\ \A i \in 1..Len(s) : Append(s, k)[i] = s[i]
         /\ ToSet(Append(s, k)) = ToSet(s) \cup {k}
         /\ Append(s, k) # <<>>
<1> DEFINE t == Append(s, k)
<1>1. /\ t \in Seq(S) /\ Len(t) = Len(s) + 1 /\ t[Len(s) + 1] = k /\ Len(s) \in Nat
      /\ \A i \in 1..Len(s) : t[i] = s[i]
  OBVIOUS
<1>2. DOMAIN s = 1..Len(s)
  OBVIOUS
<1> HIDE DEF t
<1>3. DOMAIN t = 1..Len(t)
  BY <1>1
<1>4. t # <<>>
  BY <1>1
<1>5. ToSet(t) = ToSet(s) \cup {k}
  <2>1. ASSUME NEW i \in 1..Len(t) PROVE t[i] \in ToSet(s) \cup {k}
    <3>1. i \in 1..Len(s) \/ i = Len(s) + 1
      BY <1>1
    <3> QED
      BY <1>1, <1>2, <3>1 DEF ToSet
  <2>2. ASSUME NEW i \in 1..Len(s) PROVE s[i] \in ToSet(t)
    <3>1. i \in 1..Len(t) /\ s[i] = t[i]
      BY <1>1
    <3> QED
      BY <1>3, <3>1 DEF ToSet
  <2>3. k \in ToSet(t)
    <3>1. Len(s) + 1 \in 1..Len(t)
      BY <1>1
    <3> QED
      BY <1>1, <1>3, <3>1 DEF ToSet
  <2>4. ToSet(t) \subseteq ToSet(s) \cup {k}
    BY <1>3, <2>1 DEF ToSet
  <2>5. ToSet(s) \subseteq ToSet(t)
    BY <1>2, <2>2 DEF ToSet
  <2> QED
    BY <2>3, <2>4, <2>5
<1> QED
  BY <1>1, <1>4, <1>5 DEF t

Lists(k)   == walk' = [walk EXCEPT !.exact = FALSE, !.key = k, !.seen = Append(@, k)]
Moves(key) == walk' = [walk EXCEPT !.exact = FALSE, !.key = key]
Ends       == walk' = [walk EXCEPT !.done = TRUE]

(* An entry k is listed that is the exact one or the first behind the key. *)
LEMMA ListStep ==
  ASSUME MonInvariant, NEW k \in db, Asked(k), ~walk.done,
         \/ walk.exact /\ k = walk.key
         \/ ~walk.exact /\ IsLeast(k, Behind(walk.key)),
         Lists(k),
         UNCHANGED <<table, db>>
  PROVE  MonInvariant'
<1>1. TableSound /\ WalkSound /\ Listed /\ Ahead
  BY DEF MonInvariant
<1> DEFINE n == WidthOf(table)
<1>2. /\ n \in 1..3 /\ KeysOf(table) \subseteq Wide(n) /\ db \subseteq Wide(n)
      /\ k \in Wide(n) /\ k \in KeysOf(table) /\ walk.key \in Wide(n)
      /\ walk.seen \in Seq(KeysOf(table)) /\ walk.stay \subseteq db
  BY <1>1, KeysAre DEF TableSound, WalkSound
<1>3. /\ walk'.exact = FALSE /\ walk'.key = k /\ walk'.seen = Append(walk.seen, k)
      /\ walk'.stay = walk.stay /\ walk'.changes = walk.changes /\ walk'.done = walk.done
      /\ walk' \in [exact : BOOLEAN, key : Wide(n), seen : Seq(KeysOf(table)),
                    stay : SUBSET KeysOf(table), changes : Nat, done : BOOLEAN]
  <2>1. walk \in [exact : BOOLEAN, key : Wide(n), seen : Seq(KeysOf(table)),
                  stay : SUBSET KeysOf(table), changes : Nat, done : BOOLEAN]
    BY <1>1 DEF WalkSound
  <2>2. Append(walk.seen, k) \in Seq(KeysOf(table))
    BY <1>2
  <2> HIDE DEF n
  <2> QED
    BY <1>2, <2>1, <2>2 DEF Lists
<1>4. /\ walk'.seen \in Seq(KeysOf(table)) /\ Len(walk'.seen) = Len(walk.seen) + 1
      /\ walk'.seen[Len(walk.seen) + 1] = k /\ Len(walk.seen) \in Nat
      /\ \A i \in 1..Len(walk.seen) : walk'.seen[i] = walk.seen[i]
      /\ Had' = Had \cup {k} /\ walk'.seen # <<>>
  BY <1>2, <1>3, AppendSeen DEF Had
<1>5. table' = table /\ db' = db
  OBVIOUS
<1>6. TableSound'
  BY <1>1, <1>5 DEF TableSound, Asked
<1>7. table.of = "lsa" => k[1] = table.start[1]
  BY DEF Asked
<1>8. WalkSound'
  BY <1>1, <1>3, <1>4, <1>5, <1>7 DEF WalkSound
<1>9. walk.seen # <<>> => Less(walk.seen[Len(walk.seen)], k)
  <2> SUFFICES ASSUME walk.seen # <<>> PROVE Less(walk.seen[Len(walk.seen)], k)
    OBVIOUS
  <2>1. ~walk.exact /\ walk.seen[Len(walk.seen)] = walk.key
    BY <1>1 DEF WalkSound
  <2> QED
    BY <2>1 DEF IsLeast, Behind
<1>10. Listed'
  <2>1. ASSUME NEW i \in 1..(Len(walk'.seen) - 1)
        PROVE  Less(walk'.seen[i], walk'.seen[i + 1])
    <3>1. i \in 1..Len(walk.seen)
      BY <1>4
    <3>2. walk'.seen[i] = walk.seen[i]
      BY <1>4, <3>1
    <3>3. CASE i = Len(walk.seen)
      <4>1. walk.seen # <<>>
        BY <3>1
      <4> QED
        BY <1>4, <1>9, <3>2, <3>3, <4>1
    <3>4. CASE i # Len(walk.seen)
      <4>1. i \in 1..(Len(walk.seen) - 1) /\ i + 1 \in 1..Len(walk.seen)
        BY <1>4, <3>1, <3>4
      <4>2. walk'.seen[i + 1] = walk.seen[i + 1]
        BY <1>4, <4>1
      <4> QED
        BY <1>1, <3>2, <4>1, <4>2 DEF Listed
    <3> QED
      BY <3>3, <3>4
  <2>2. \A z \in Had' : Asked(z)'
    BY <1>1, <1>4, <1>5 DEF Listed, Asked
  <2> QED
    BY <2>1, <2>2 DEF Listed
<1>11. Ahead'
  <2> SUFFICES ASSUME NEW z \in walk.stay, Asked(z), z \notin Had, z # k PROVE Less(k, z)
    BY <1>3, <1>4, <1>5 DEF Ahead, Asked
  <2>1. Less(walk.key, z) \/ (walk.exact /\ z = walk.key)
    BY <1>1 DEF Ahead
  <2>2. CASE walk.exact /\ k = walk.key
    BY <2>1, <2>2
  <2>3. CASE ~walk.exact /\ IsLeast(k, Behind(walk.key))
    <3>1. z \in Behind(walk.key) \ {k}
      BY <1>2, <2>1, <2>3 DEF Behind
    <3> QED
      BY <2>3, <3>1 DEF IsLeast
  <2> QED
    BY <2>2, <2>3
<1>12. AllHad'
  BY <1>3 DEF AllHad
<1> QED
  BY <1>6, <1>8, <1>10, <1>11, <1>12 DEF MonInvariant

(* Only the position is given up: the exact entry was not there, or the    *)
(* rest of a type of LSAs that is not asked for is passed over.            *)
LEMMA MoveStep ==
  ASSUME MonInvariant, ~walk.done,
         NEW key \in Wide(WidthOf(table)),
         Moves(key),
         walk.seen = <<>> \/ key = walk.key,
         table.of = "lsa" => key[1] = table.start[1],
         \A k \in walk.stay : ~Asked(k) \/ (key = walk.key /\ (walk.exact => k # key)),
         UNCHANGED <<table, db>>
  PROVE  MonInvariant'
<1>1. TableSound /\ WalkSound /\ Listed /\ Ahead
  BY DEF MonInvariant
<1> DEFINE n == WidthOf(table)
<1>3. /\ walk'.exact = FALSE /\ walk'.key = key /\ walk'.seen = walk.seen
      /\ walk'.stay = walk.stay /\ walk'.changes = walk.changes /\ walk'.done = walk.done
      /\ walk' \in [exact : BOOLEAN, key : Wide(n), seen : Seq(KeysOf(table)),
                    stay : SUBSET KeysOf(table), changes : Nat, done : BOOLEAN]
  <2>1. walk \in [exact : BOOLEAN, key : Wide(n), seen : Seq(KeysOf(table)),
                  stay : SUBSET KeysOf(table), changes : Nat, done : BOOLEAN]
    BY <1>1 DEF WalkSound
  <2> QED
    BY <2>1 DEF Moves
<1>4. table' = table /\ db' = db /\ Had' = Had
  BY <1>3 DEF Had
<1>5. TableSound'
  BY <1>1, <1>4 DEF TableSound, Asked
<1>6. WalkSound'
  BY <1>1, <1>3, <1>4 DEF WalkSound
<1>7. Listed'
  BY <1>1, <1>3, <1>4 DEF Listed, Asked
<1>8. Ahead'
  BY <1>1, <1>3, <1>4 DEF Ahead, Asked
<1>9. AllHad'
  BY <1>3 DEF AllHad
<1> QED
  BY <1>5, <1>6, <1>7, <1>8, <1>9 DEF MonInvariant

(* The listing ends, with all that is asked for in it. *)
LEMMA EndStep ==
  ASSUME MonInvariant, ~walk.exact,
         \A k \in walk.stay : Asked(k) => k \in Had,
         Ends, UNCHANGED <<table, db>>
  PROVE  MonInvariant'
<1>1. TableSound /\ WalkSound /\ Listed /\ Ahead
  BY DEF MonInvariant
<1> DEFINE n == WidthOf(table)
<1>3. /\ walk'.exact = walk.exact /\ walk'.key = walk.key /\ walk'.seen = walk.seen
      /\ walk'.stay = walk.stay /\ walk'.changes = walk.changes /\ walk'.done = TRUE
      /\ walk' \in [exact : BOOLEAN, key : Wide(n), seen : Seq(KeysOf(table)),
                    stay : SUBSET KeysOf(table), changes : Nat, done : BOOLEAN]
  <2>1. walk \in [exact : BOOLEAN, key : Wide(n), seen : Seq(KeysOf(table)),
                  stay : SUBSET KeysOf(table), changes : Nat, done : BOOLEAN]
    BY <1>1 DEF WalkSound
  <2> HIDE DEF n
  <2> QED
    BY <2>1 DEF Ends
<1>4. table' = table /\ db' = db /\ Had' = Had
  BY <1>3 DEF Had
<1>5. TableSound'
  BY <1>1, <1>4 DEF TableSound, Asked
<1>6. WalkSound'
  BY <1>1, <1>3, <1>4 DEF WalkSound
<1>7. Listed'
  BY <1>1, <1>3, <1>4 DEF Listed, Asked
<1>8. Ahead'
  BY <1>1, <1>3, <1>4 DEF Ahead, Asked
<1>9. AllHad'
  BY <1>3, <1>4 DEF AllHad, Asked
<1> QED
  BY <1>5, <1>6, <1>7, <1>8, <1>9 DEF MonInvariant

LEMMA Verdicts ==
  ASSUME TableSound, NEW k \in KeysOf(table)
  PROVE  /\ Verdict(k) \in {"list", "pass", "end"}
         /\ Verdict(k) = "list" => Asked(k)
         /\ Verdict(k) = "pass" => table.of = "lsa" /\ table.type = LST_ASL /\ k[1] = table.start[1]
         /\ Verdict(k) = "end" => table.of = "lsa" /\ (table.type = LST_ASL \/ k[1] # table.start[1])
<1>1. k # NULL
  BY KeysAre DEF TableSound
<1>2. CASE table.of # "lsa"
  BY <1>1, <1>2 DEF Verdict, Asked
<1>3. CASE table.of = "lsa"
  <2>1. k[2] \in 1..3 /\ table.type \in {0, 1, 5} /\ (table.client # "mon" => table.type # 0)
    BY <1>3, KeysAre DEF TableSound, LST_RTR, LST_ASL
  <2>2. CASE table.client = "mon"
    <3>1. Verdict(k) = IF k[1] # table.start[1] THEN "end"
                       ELSE IF k[2] # table.type /\ (table.type = 5 \/ k[2] = 5) THEN "end"
                       ELSE "list"
      BY <1>1, <1>3, <2>2 DEF Verdict, mon_Verdict, LST_ASL
    <3> QED
      BY <1>3, <2>1, <3>1 DEF Asked, LST_ASL
  <2>3. CASE table.client # "mon"
    <3>1. Verdict(k) = IF k[1] # table.start[1] THEN "end"
                       ELSE IF k[2] # table.type /\ flooding_scope(k[2]) # flooding_scope(table.type)
                       THEN "pass" ELSE "list"
      BY <1>1, <1>3, <2>3 DEF Verdict, browser_Verdict
    <3>2. /\ flooding_scope(k[2]) = "area"
          /\ flooding_scope(table.type) = IF table.type = 5 THEN "none" ELSE "area"
      BY <2>1, <2>3 DEF flooding_scope
    <3> QED
      BY <1>3, <2>1, <2>3, <3>1, <3>2 DEF Asked, LST_ASL
  <2> QED
    BY <2>2, <2>3
<1> QED
  BY <1>2, <1>3

LEMMA AskStep ==
  ASSUME MonInvariant, Ask
  PROVE  MonInvariant'
<1> DEFINE k == monitor(table, [exact |-> walk.exact, key |-> walk.key])
           v == Verdict(k)
<1>1. /\ ~walk.done
      /\ walk' = IF walk.exact /\ k = NULL THEN [walk EXCEPT !.exact = FALSE]
                 ELSE IF v = "list"
                 THEN [walk EXCEPT !.exact = FALSE, !.key = k, !.seen = Append(@, k)]
                 ELSE IF v = "pass" THEN [walk EXCEPT !.key = <<k[1], k[2] + 1, 0>>]
                 ELSE [walk EXCEPT !.done = TRUE]
      /\ UNCHANGED <<table, db>>
  BY DEF Ask
<1>2. TableSound /\ WalkSound /\ Listed /\ Ahead
  BY DEF MonInvariant
<1> DEFINE n == WidthOf(table)
<1>3. /\ n \in 1..3 /\ KeysOf(table) \subseteq Wide(n) /\ db \subseteq KeysOf(table)
      /\ db \subseteq Wide(n) /\ IsFiniteSet(db) /\ NULL \notin db
      /\ walk.key \in Wide(n) /\ walk.exact \in BOOLEAN /\ walk.stay \subseteq db
      /\ walk.seen \in Seq(KeysOf(table))
      /\ walk \in [exact : BOOLEAN, key : Wide(n), seen : Seq(KeysOf(table)),
                   stay : SUBSET KeysOf(table), changes : Nat, done : BOOLEAN]
  BY <1>2, KeysAre, FS_Subset DEF TableSound, WalkSound
<1>4. k = IF walk.exact THEN Exactly(walk.key) ELSE Least(Behind(walk.key))
  BY <1>2, <1>3, AnswerIs DEF TableSound
<1> HIDE DEF k, v, n
<1>5. walk.exact => (k = walk.key /\ k \in db) \/ (k = NULL /\ walk.key \notin db)
  BY <1>4 DEF Exactly
<1>6. ~walk.exact => \/ Behind(walk.key) = {} /\ k = NULL
                     \/ k \in db /\ IsLeast(k, Behind(walk.key))
  <2> SUFFICES ASSUME ~walk.exact, Behind(walk.key) # {}
               PROVE  k \in db /\ IsLeast(k, Behind(walk.key))
    BY <1>4 DEF Least
  <2>1. Behind(walk.key) \subseteq db
    BY DEF Behind
  <2>2. IsFiniteSet(Behind(walk.key)) /\ Behind(walk.key) \subseteq Wide(n)
    BY <1>3, <2>1, FS_Subset
  <2>3. IsLeast(k, Behind(walk.key))
    BY <1>3, <1>4, <2>2, LeastFound
  <2> QED
    BY <2>1, <2>3 DEF IsLeast
<1>7. CASE walk.exact /\ k = NULL
  <2> DEFINE key == walk.key
  <2>1. Moves(key)
    BY <1>1, <1>3, <1>7 DEF Moves
  <2>2. \A z \in walk.stay : ~Asked(z) \/ (key = walk.key /\ (walk.exact => z # key))
    BY <1>3, <1>5, <1>7
  <2>3. /\ table.of = "lsa" => key[1] = table.start[1]
        /\ walk.seen = <<>> \/ key = walk.key
        /\ key \in Wide(WidthOf(table))
    BY <1>2, <1>3 DEF WalkSound, n
  <2> HIDE DEF key
  <2> QED
    BY <1>1, <2>1, <2>2, <2>3, MoveStep
<1>8. CASE ~(walk.exact /\ k = NULL) /\ k # NULL
  <2>1. k \in db /\ k \in KeysOf(table)
    BY <1>3, <1>5, <1>6, <1>8
  <2>2. /\ v \in {"list", "pass", "end"}
        /\ v = "list" => Asked(k)
        /\ v = "pass" => table.of = "lsa" /\ table.type = LST_ASL /\ k[1] = table.start[1]
        /\ v = "end" => table.of = "lsa" /\ (table.type = LST_ASL \/ k[1] # table.start[1])
    BY <1>2, <2>1, Verdicts DEF v
  <2>3. CASE v = "list"
    <3>1. Lists(k)
      BY <1>1, <1>8, <2>3 DEF Lists
    <3>2. \/ walk.exact /\ k = walk.key
          \/ ~walk.exact /\ IsLeast(k, Behind(walk.key))
      BY <1>3, <1>5, <1>6, <1>8
    <3> QED
      BY <1>1, <2>1, <2>2, <2>3, <3>1, <3>2, ListStep
  <2>4. ASSUME table.of = "lsa"
        PROVE  walk.exact = FALSE /\ n = 3 /\ k[1] \in Nat /\ k[2] \in Nat
               /\ table.start[1] \in Nat /\ walk.key[1] = table.start[1]
    <3>1. walk.exact = FALSE /\ walk.key[1] = table.start[1] /\ table.start[1] \in Nat
      BY <1>2, <1>3, <2>4 DEF WalkSound, TableSound
    <3>2. n = 3
      BY <2>4 DEF n, WidthOf
    <3>3. k \in Wide(3)
      BY <1>3, <2>1, <3>2
    <3> QED
      BY <3>1, <3>2, <3>3, WideAt
  <2>5. CASE v = "pass"
    <3> DEFINE key == <<k[1], k[2] + 1, 0>>
    <3>1. walk' = [walk EXCEPT !.key = key]
      BY <1>1, <1>8, <2>5
    <3>2. key \in Wide(n) /\ key[1] = table.start[1]
      <4>3. table.of = "lsa" /\ k[1] = table.start[1]
        BY <2>2, <2>5
      <4>1. k[1] \in Nat /\ k[2] \in Nat /\ n = 3 /\ k[1] = table.start[1]
        BY <2>4, <4>3
      <4>2. k[2] + 1 \in Nat
        BY <4>1
      <4> QED
        BY <4>1, <4>2, WideTuples
    <3> HIDE DEF key
    <3>3. Moves(key)
      BY <1>3, <2>2, <2>4, <2>5, <3>1 DEF Moves
    <3>4. \A z : ~Asked(z)
      BY <2>2, <2>5 DEF Asked
    <3>5. walk.seen = <<>>
      <4> SUFFICES ASSUME walk.seen # <<>> PROVE FALSE
        OBVIOUS
      <4>1. 1 \in DOMAIN walk.seen
        BY <1>3
      <4>2. walk.seen[1] \in Had
        BY <4>1 DEF Had, ToSet
      <4> QED
        BY <1>2, <3>4, <4>2 DEF Listed
    <3> QED
      BY <1>1, <3>2, <3>3, <3>4, <3>5, MoveStep DEF n
  <2>6. CASE v = "end"
    <3>1. Ends
      BY <1>1, <1>8, <2>6 DEF Ends
    <3>2. ASSUME NEW z \in walk.stay, Asked(z) PROVE z \in Had
      <4>1. table.of = "lsa" /\ z[1] = table.start[1] /\ k[1] # table.start[1]
        BY <2>2, <2>6, <3>2 DEF Asked
      <4>2. ~walk.exact /\ IsLeast(k, Behind(walk.key)) /\ n = 3 /\ walk.key[1] = table.start[1]
        BY <1>6, <1>8, <2>4, <4>1
      <4>3. k \in Wide(3) /\ z \in Wide(3) /\ walk.key \in Wide(3) /\ z \in db
        BY <1>3, <2>1, <4>2
      <4>4. z \in Had \/ Less(walk.key, z)
        BY <1>2, <3>2, <4>2 DEF Ahead
      <4>5. ASSUME Less(walk.key, z) PROVE FALSE
        <5>1. Less(walk.key, k) /\ z # k
          BY <4>1, <4>2 DEF IsLeast, Behind
        <5>2. Less(k, z)
          BY <4>2, <4>3, <4>5, <5>1 DEF IsLeast, Behind
        <5>3. walk.key[1] <= k[1] /\ k[1] <= z[1]
          BY <4>3, <5>1, <5>2, LessOrder
        <5> QED
          BY <2>4, <4>1, <4>2, <5>3
      <4> QED
        BY <4>4, <4>5
    <3>3. ~walk.exact
      BY <2>2, <2>4, <2>6
    <3> QED
      BY <1>1, <3>1, <3>2, <3>3, EndStep
  <2> QED
    BY <2>2, <2>3, <2>5, <2>6
<1>9. CASE ~walk.exact /\ k = NULL
  <2>1. v = "end"
    BY <1>9 DEF v, Verdict
  <2>2. Ends
    BY <1>1, <1>9, <2>1 DEF Ends
  <2>3. Behind(walk.key) = {}
    BY <1>3, <1>6, <1>9
  <2>4. \A z \in walk.stay : Asked(z) => z \in Had
    BY <1>2, <1>3, <1>9, <2>3 DEF Ahead, Behind
  <2> QED
    BY <1>1, <1>9, <2>2, <2>4, EndStep
<1> QED
  BY <1>3, <1>7, <1>8, <1>9

LEMMA ChangeStep ==
  ASSUME MonInvariant, NEW k \in KeysOf(table), Change(k)
  PROVE  MonInvariant'
<1>1. TableSound /\ WalkSound /\ Listed /\ Ahead
  BY DEF MonInvariant
<1> DEFINE n == WidthOf(table)
<1>2. /\ ~walk.done /\ table' = table
      /\ db' = IF k \in db THEN db \ {k} ELSE db \cup {k}
      /\ walk' = [walk EXCEPT !.changes = @ + 1, !.stay = @ \ {k}]
  BY DEF Change
<1>3. walk \in [exact : BOOLEAN, key : Wide(n), seen : Seq(KeysOf(table)),
                stay : SUBSET KeysOf(table), changes : Nat, done : BOOLEAN]
  BY <1>1 DEF WalkSound
<1> HIDE DEF n
<1>4. /\ walk'.exact = walk.exact /\ walk'.key = walk.key /\ walk'.seen = walk.seen
      /\ walk'.stay = walk.stay \ {k} /\ walk'.done = walk.done
  BY <1>2, <1>3
<1>5. walk' \in [exact : BOOLEAN, key : Wide(n), seen : Seq(KeysOf(table)),
                 stay : SUBSET KeysOf(table), changes : Nat, done : BOOLEAN]
  <2>1. walk.stay \ {k} \in SUBSET KeysOf(table) /\ walk.changes + 1 \in Nat
    BY <1>3
  <2> DEFINE w1 == [walk EXCEPT !.changes = walk.changes + 1]
             w2 == [w1 EXCEPT !.stay = w1.stay \ {k}]
  <2>2. w1 \in [exact : BOOLEAN, key : Wide(n), seen : Seq(KeysOf(table)),
                stay : SUBSET KeysOf(table), changes : Nat, done : BOOLEAN]
        /\ w1.stay = walk.stay
    BY <1>3, <2>1
  <2>3. walk' = w2
    BY <1>2
  <2> HIDE DEF w1
  <2> QED
    BY <2>1, <2>2, <2>3
<1>6. Had' = Had /\ db' \subseteq KeysOf(table) /\ walk'.stay \subseteq db'
  BY <1>1, <1>2, <1>4 DEF WalkSound, Had
<1>7. TableSound'
  BY <1>1, <1>2 DEF TableSound, Asked
<1>8. WalkSound'
  BY <1>1, <1>2, <1>4, <1>5, <1>6 DEF WalkSound, n
<1>9. Listed'
  BY <1>1, <1>2, <1>4, <1>6 DEF Listed, Asked
<1>10. Ahead'
  BY <1>1, <1>2, <1>4, <1>6 DEF Ahead, Asked
<1>11. AllHad'
  BY <1>2, <1>4 DEF AllHad
<1> QED
  BY <1>7, <1>8, <1>9, <1>10, <1>11 DEF MonInvariant

(* The listing of a table by a monitoring program is in order, without     *)
(* repetition and complete, whatever entries come and go between its       *)
(* requests, the one it stands at included: the daemon finds the next      *)
(* entry by the key alone, area by area and type by type for the LSAs.     *)
THEOREM ListingAlwaysComplete == MonSpec => []ListingComplete
<1>1. MonInvariant /\ [MonNext]_monVars => MonInvariant'
  <2> SUFFICES ASSUME MonInvariant, [MonNext]_monVars PROVE MonInvariant'
    OBVIOUS
  <2>1. CASE Ask
    BY <2>1, AskStep
  <2>2. ASSUME NEW k \in KeysOf(table), Change(k) PROVE MonInvariant'
    BY <2>2, ChangeStep
  <2>3. CASE UNCHANGED monVars
    BY <2>3 DEF monVars, MonInvariant, TableSound, WalkSound, Listed, Ahead, AllHad, Had, Asked
  <2> QED
    BY <2>1, <2>2, <2>3 DEF MonNext
<1> QED
  BY <1>1, MonInitially, MonSafe, PTL DEF MonSpec
=============================================================================
