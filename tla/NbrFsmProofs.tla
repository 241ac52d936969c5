---------------------------- MODULE NbrFsmProofs ----------------------------
(***************************************************************************)
(* Proofs about NbrFsm, for any finite set of neighbours, any interfaces   *)
(* and any limit max_dds.                                                  *)
(***************************************************************************)
EXTENDS NbrFsm, FiniteSetTheorems, TLAPS

\* Removing a cell from the pending list leaves a list of neighbours.
LEMMA UnlinkType ==
    ASSUME NEW s \in Seq(Nbr), NEW n
    PROVE  Unlink(s, n) \in Seq(Nbr)
<1> DEFINE k == CHOOSE j \in DOMAIN s : s[j] = n /\ \A m \in 1..(j - 1) : s[m] # n
           m == IF Len(s) = 0 THEN 0 ELSE Len(s) - 1
<1>1. m \in Nat
  OBVIOUS
<1>2. Unlink(s, n) = [j \in 1..m |-> IF j < k THEN s[j] ELSE s[j + 1]]
  <2>1. 1..(Len(s) - 1) = 1..m
    OBVIOUS
  <2> QED  BY <2>1 DEF Unlink
<1>3. \A j \in 1..m : s[j] \in Nbr /\ s[j + 1] \in Nbr
  OBVIOUS
<1> HIDE DEF k, m
<1>4. [j \in 1..m |-> IF j < k THEN s[j] ELSE s[j + 1]] \in [1..m -> Nbr]
  BY <1>3
<1> QED  BY <1>1, <1>2, <1>4

\* The types of what nbr_fsm()'s bookkeeping assigns.
EnterTypeOK ==
    /\ n_state \in [Nbr -> NbrState]
    /\ n_rmt_init \in [Nbr -> BOOLEAN]
    /\ n_progtim \in [Nbr -> BOOLEAN]
    /\ n_lcl_inits \in Int /\ n_rmt_inits \in Int /\ n_dbx_nbrs \in Int
    /\ if_nfull \in [Ifc -> Int]
    /\ nchg \in Ifc \cup {NoIfc}

\* The types of the pending list and its flags.
PendTypeOK == n_adj_pend \in [Nbr -> BOOLEAN] /\ pend \in Seq(Nbr)

\* The types of the variables of the interface machine and the loops.
IfcTypeOK ==
    /\ if_state \in [Ifc -> {"Down", "Wait", "PP", "Multi"}]
    /\ self_dr \in [Ifc -> BOOLEAN]
    /\ drs \in [Ifc -> SUBSET Nbr]
    /\ loop \in [event : {"none", "EVAL", "DESTROY"}, left : SUBSET Nbr]
    /\ ticking \in BOOLEAN

LEMMA TypeSplit == TypeOK <=> EnterTypeOK /\ PendTypeOK /\ IfcTypeOK
  BY DEF TypeOK, EnterTypeOK, PendTypeOK, IfcTypeOK

\* The bookkeeping at the end of nbr_fsm() keeps its variables' types.
LEMMA EnterType ==
    ASSUME TypeOK, NEW n \in Nbr, NEW ns \in NbrState, NEW slot, NEW prog,
           Enter(n, ns, slot, prog)
    PROVE  EnterTypeOK'
<1> USE ConstAssumption DEF One
<1>0. NbrIfc[n] \in Ifc
  OBVIOUS
<1>1. n_state' \in [Nbr -> NbrState]
  BY DEF TypeOK, Enter
<1>2. n_rmt_init' \in [Nbr -> BOOLEAN]
  <2>1. \A was, exits : RmtInitAfter(was, slot, exits) \in BOOLEAN
    BY DEF RmtInitAfter
  <2> QED  BY <2>1 DEF TypeOK, Enter
<1>3. n_progtim' \in [Nbr -> BOOLEAN]
  <2>1. \A was, full : ProgAfter(was, prog, full) \in BOOLEAN
    BY DEF ProgAfter
  <2> QED  BY <2>1 DEF TypeOK, Enter
<1>4. n_lcl_inits' \in Int /\ n_rmt_inits' \in Int /\ n_dbx_nbrs' \in Int
  BY DEF TypeOK, Enter
<1>5. if_nfull' \in [Ifc -> Int]
  BY <1>0 DEF TypeOK, Enter
<1>6. nchg' \in Ifc \cup {NoIfc}
  BY <1>0 DEF Enter
<1> QED  BY <1>1, <1>2, <1>3, <1>4, <1>5, <1>6 DEF EnterTypeOK

\* The operations on the pending list keep its type.
LEMMA PendOpsType ==
    ASSUME TypeOK, NEW n \in Nbr,
           AddPendAdj(n) \/ DelPendAdj(n) \/ ClrThenPend(n) \/ KeepPend
    PROVE  PendTypeOK'
<1>1. pend \in Seq(Nbr) /\ Unlink(pend, n) \in Seq(Nbr)
  BY UnlinkType DEF TypeOK
<1>2. Append(pend, n) \in Seq(Nbr) /\ Append(Unlink(pend, n), n) \in Seq(Nbr)
  BY <1>1
<1>3. n_adj_pend' \in [Nbr -> BOOLEAN]
  BY DEF TypeOK, AddPendAdj, DelPendAdj, ClrThenPend, KeepPend
<1>4. pend' \in Seq(Nbr)
  BY <1>1, <1>2 DEF AddPendAdj, DelPendAdj, ClrThenPend, KeepPend
<1> QED  BY <1>3, <1>4 DEF PendTypeOK

-----------------------------------------------------------------------------
(* Every dispatch of nbr_fsm() is one of these steps.                      *)

\* n moves from its state to ns, taking a slot of kind "slot" or none.
LegalMove(os, ns, slot) ==
    \/ slot = "none" /\ ns \in {NBS_DOWN, NBS_INIT, NBS_2WAY}
    \/ /\ slot \in {"lcl", "rmt"}
       /\ os \in {NBS_INIT, NBS_2WAY} /\ ns = NBS_EXST
    \/ /\ slot = "none"
       /\ \/ os = NBS_EXST /\ ns = NBS_EXCH
          \/ os = NBS_EXCH /\ ns \in {NBS_LOAD, NBS_FULL}
          \/ os = NBS_LOAD /\ ns = NBS_FULL

\* A slot is taken only when there is one.
SlotFree(slot) ==
    /\ slot = "lcl" => n_lcl_inits < max_dds
    /\ slot = "rmt" => n_rmt_inits < max_dds

\* The progress timer is started with the slot and stopped with the lists.
ProgRule(os, ns, slot, prog) ==
    /\ prog = "start" <=> slot # "none"
    /\ os \in AdjForm /\ ns <= NBS_2WAY => prog = "stop"
    /\ prog = "stop" => ns <= NBS_2WAY

LegalEnter(n, ns, slot, prog) ==
    /\ LegalMove(n_state[n], ns, slot)
    /\ SlotFree(slot)
    /\ ProgRule(n_state[n], ns, slot, prog)
    /\ Enter(n, ns, slot, prog)

\* A step of n: a legal move, or a dispatch that finds nothing to do.
NbrMoves(n) ==
    \E ns \in NbrState, slot \in {"none", "lcl", "rmt"}, prog \in {"start", "stop", "keep"} :
        LegalEnter(n, ns, slot, prog)

NbrRests == UNCHANGED <<n_state, n_rmt_init, n_progtim, countVars>>

-----------------------------------------------------------------------------
(* Counting.                                                               *)

\* Two sets of neighbours that agree except perhaps on n.
LEMMA CardStep ==
    ASSUME NEW S \in SUBSET Nbr, NEW T \in SUBSET Nbr, NEW n \in Nbr,
           S \ {n} = T \ {n}
    PROVE  /\ Cardinality(S) \in Nat
           /\ Cardinality(T) = Cardinality(S) + One(n \in T) - One(n \in S)
<1>1. IsFiniteSet(S) /\ IsFiniteSet(T)
  BY ConstAssumption, FS_Subset
<1>2. Cardinality(S) \in Nat /\ Cardinality(T) \in Nat
  BY <1>1, FS_CardinalityType
<1>3. Cardinality(S \ {n}) = Cardinality(S) - One(n \in S)
  <2>1. Cardinality(S \ {n}) = IF n \in S THEN Cardinality(S) - 1 ELSE Cardinality(S)
    BY <1>1, FS_RemoveElement
  <2> QED  BY <1>2, <2>1 DEF One
<1>4. Cardinality(T \ {n}) = Cardinality(T) - One(n \in T)
  <2>1. Cardinality(T \ {n}) = IF n \in T THEN Cardinality(T) - 1 ELSE Cardinality(T)
    BY <1>1, FS_RemoveElement
  <2> QED  BY <1>2, <2>1 DEF One
<1> QED  BY <1>2, <1>3, <1>4 DEF One

\* The counters agree with the neighbours' states.
Counted ==
    /\ SlotsAccounted /\ SlotLimit /\ DbxCounted /\ FullCounted
    /\ ExchangeIsTimed

LEMMA EnterCounts ==
    ASSUME TypeOK, Counted, NEW n \in Nbr, NbrMoves(n)
    PROVE  Counted'
<1>1. PICK ns \in NbrState, slot \in {"none", "lcl", "rmt"}, prog \in {"start", "stop", "keep"} :
          LegalEnter(n, ns, slot, prog)
  BY DEF NbrMoves
<1> DEFINE os == n_state[n]
           exits == ExitsDbxchg(os, ns)
<1>2. os \in NbrState /\ n_rmt_init[n] \in BOOLEAN /\ n_progtim[n] \in BOOLEAN
  BY DEF TypeOK
<1>3. /\ n_state' = [n_state EXCEPT ![n] = ns]
      /\ n_rmt_init' = [n_rmt_init EXCEPT ![n] = RmtInitAfter(n_rmt_init[n], slot, exits)]
      /\ n_progtim' = [n_progtim EXCEPT ![n] = ProgAfter(n_progtim[n], prog, BecomesFull(os, ns))]
  BY <1>1 DEF LegalEnter, Enter
<1>4. /\ n_state'[n] = ns
      /\ n_rmt_init'[n] = RmtInitAfter(n_rmt_init[n], slot, exits)
      /\ n_progtim'[n] = ProgAfter(n_progtim[n], prog, BecomesFull(os, ns))
      /\ \A m \in Nbr \ {n} : /\ n_state'[m] = n_state[m]
                              /\ n_rmt_init'[m] = n_rmt_init[m]
                              /\ n_progtim'[m] = n_progtim[m]
  BY <1>3 DEF TypeOK
<1>5. LegalMove(os, ns, slot) /\ SlotFree(slot) /\ ProgRule(os, ns, slot, prog)
  BY <1>1 DEF LegalEnter
<1>6. n_rmt_init[n] => os \in DbxState
  BY DEF Counted, SlotsAccounted
<1>7. exits <=> os \in DbxState /\ ns \notin DbxState
  BY <1>2, <1>5 DEF ExitsDbxchg, BecomesFull, FallsBack, LegalMove, NbrState, DbxState,
     NBS_DOWN, NBS_INIT, NBS_2WAY, NBS_EXST, NBS_EXCH, NBS_LOAD, NBS_FULL
<1>8. slot # "none" <=> os \notin DbxState /\ ns \in DbxState
  BY <1>2, <1>5 DEF LegalMove, NbrState, DbxState,
     NBS_DOWN, NBS_INIT, NBS_2WAY, NBS_EXST, NBS_EXCH, NBS_LOAD, NBS_FULL
<1>9. n_rmt_init'[n] <=> (n_rmt_init[n] \/ slot = "rmt") /\ ~exits
  BY <1>4 DEF RmtInitAfter
<1>10. n_rmt_init'[n] => ns \in DbxState
  BY <1>6, <1>7, <1>8, <1>9
<1>11. \A m \in Nbr : n_rmt_init'[m] => n_state'[m] \in DbxState
  BY <1>4, <1>10 DEF Counted, SlotsAccounted
<1>12. n \in LclHolders <=> os \in DbxState /\ ~n_rmt_init[n]
  BY DEF LclHolders
<1>13. n \in LclHolders' <=> ns \in DbxState /\ ~n_rmt_init'[n]
  BY <1>4 DEF LclHolders
<1>14. n \in RmtHolders <=> n_rmt_init[n]
  BY <1>6 DEF RmtHolders
<1>15. n \in RmtHolders' <=> n_rmt_init'[n]
  BY <1>4, <1>10 DEF RmtHolders
<1>16. Cardinality(LclHolders') = Cardinality(LclHolders)
            + One(n \in LclHolders') - One(n \in LclHolders)
  <2>1. LclHolders \ {n} = LclHolders' \ {n}
    BY <1>4 DEF LclHolders
  <2>2. LclHolders \in SUBSET Nbr /\ LclHolders' \in SUBSET Nbr
    BY DEF LclHolders
  <2> QED  BY <2>1, <2>2, CardStep
<1>17. Cardinality(RmtHolders') = Cardinality(RmtHolders)
            + One(n \in RmtHolders') - One(n \in RmtHolders)
  <2>1. RmtHolders \ {n} = RmtHolders' \ {n}
    BY <1>4 DEF RmtHolders
  <2>2. RmtHolders \in SUBSET Nbr /\ RmtHolders' \in SUBSET Nbr
    BY DEF RmtHolders
  <2> QED  BY <2>1, <2>2, CardStep
<1>18. /\ n_lcl_inits' = n_lcl_inits + One(slot = "lcl") - One(exits /\ ~n_rmt_init[n])
       /\ n_rmt_inits' = n_rmt_inits + One(slot = "rmt") - One(exits /\ n_rmt_init[n])
  BY <1>1 DEF LegalEnter, Enter
<1>19. One(slot = "lcl") - One(exits /\ ~n_rmt_init[n])
          = One(n \in LclHolders') - One(n \in LclHolders)
  BY <1>1, <1>2, <1>7, <1>8, <1>9, <1>12, <1>13, <1>6 DEF One
<1>20. One(slot = "rmt") - One(exits /\ n_rmt_init[n])
          = One(n \in RmtHolders') - One(n \in RmtHolders)
  BY <1>1, <1>2, <1>7, <1>8, <1>9, <1>14, <1>15, <1>6 DEF One
<1>21. SlotsAccounted'
  <2>1. n_lcl_inits = Cardinality(LclHolders) /\ n_rmt_inits = Cardinality(RmtHolders)
    BY DEF Counted, SlotsAccounted
  <2>2. n_lcl_inits \in Int /\ n_rmt_inits \in Int
    BY DEF TypeOK
  <2>3. n_lcl_inits' = Cardinality(LclHolders')
    BY <1>16, <1>18, <1>19, <2>1, <2>2 DEF One
  <2>4. n_rmt_inits' = Cardinality(RmtHolders')
    BY <1>17, <1>18, <1>20, <2>1, <2>2 DEF One
  <2> QED  BY <1>11, <2>3, <2>4 DEF SlotsAccounted
<1>22. SlotLimit'
  BY <1>5, <1>18, ConstAssumption DEF Counted, SlotLimit, SlotFree, TypeOK, One
<1>23. DbxCounted'
  <2> DEFINE S == {m \in Nbr : n_state[m] \in {NBS_EXCH, NBS_LOAD}}
             T == {m \in Nbr : n_state'[m] \in {NBS_EXCH, NBS_LOAD}}
  <2>1. S \ {n} = T \ {n}
    BY <1>4
  <2>2. Cardinality(T) = Cardinality(S) + One(n \in T) - One(n \in S)
    BY <2>1, CardStep
  <2>3. /\ n \in S <=> os \in {NBS_EXCH, NBS_LOAD}
        /\ n \in T <=> ns \in {NBS_EXCH, NBS_LOAD}
    BY <1>4
  <2>4. n_dbx_nbrs' = n_dbx_nbrs + One(Begins(os, ns)) - One(BecomesFull(os, ns))
                                 - One(AbandonsDbx(os, ns))
    BY <1>1 DEF LegalEnter, Enter
  <2> HIDE DEF S, T
  <2>5. One(Begins(os, ns)) - One(BecomesFull(os, ns)) - One(AbandonsDbx(os, ns))
          = One(n \in T) - One(n \in S)
    BY <1>2, <1>5, <2>3 DEF One, Begins, BecomesFull, AbandonsDbx, FallsBack, LegalMove,
       NbrState, NBS_DOWN, NBS_INIT, NBS_2WAY, NBS_EXST, NBS_EXCH, NBS_LOAD, NBS_FULL
  <2>6. n_dbx_nbrs \in Int /\ n_dbx_nbrs = Cardinality(S)
    BY DEF TypeOK, Counted, DbxCounted, S
  <2>7. n_dbx_nbrs' = Cardinality(T)
    BY <2>2, <2>4, <2>5, <2>6 DEF One
  <2> QED  BY <2>7 DEF DbxCounted, T
<1>24. FullCounted'
  <2> SUFFICES ASSUME NEW i \in Ifc
               PROVE  if_nfull'[i] = Cardinality({m \in NbrsOf(i) : n_state'[m] = NBS_FULL})
    BY DEF FullCounted, NbrsOf
  <2> DEFINE S == {m \in NbrsOf(i) : n_state[m] = NBS_FULL}
             T == {m \in NbrsOf(i) : n_state'[m] = NBS_FULL}
  <2>0. S \in SUBSET Nbr /\ T \in SUBSET Nbr
    BY DEF NbrsOf
  <2>1. S \ {n} = T \ {n}
    BY <1>4 DEF NbrsOf
  <2>2. Cardinality(T) = Cardinality(S) + One(n \in T) - One(n \in S)
    BY <2>0, <2>1, CardStep
  <2>3. if_nfull[i] \in Int /\ if_nfull[i] = Cardinality(S)
    BY DEF TypeOK, Counted, FullCounted
  <2>4. if_nfull' = [if_nfull EXCEPT ![NbrIfc[n]] =
                       @ + One(BecomesFull(os, ns)) - One(LeavesFull(os, ns))]
    BY <1>1 DEF LegalEnter, Enter
  <2>5. CASE NbrIfc[n] = i
    <3>1. if_nfull'[i] = if_nfull[i] + One(BecomesFull(os, ns)) - One(LeavesFull(os, ns))
      BY <2>4, <2>5 DEF TypeOK
    <3>2. (n \in S <=> os = NBS_FULL) /\ (n \in T <=> ns = NBS_FULL)
      BY <1>4, <2>5 DEF NbrsOf
    <3> HIDE DEF S, T
    <3>3. One(BecomesFull(os, ns)) - One(LeavesFull(os, ns)) = One(n \in T) - One(n \in S)
      BY <3>2 DEF One, BecomesFull, LeavesFull
    <3>4. if_nfull'[i] = Cardinality(T)
      BY <2>2, <2>3, <3>1, <3>3 DEF One
    <3> QED  BY <3>4 DEF T
  <2>6. CASE NbrIfc[n] # i
    <3>1. if_nfull'[i] = if_nfull[i]
      BY <2>4, <2>6 DEF TypeOK
    <3>2. n \notin S /\ n \notin T
      BY <2>6 DEF NbrsOf
    <3>3. Cardinality(T) = Cardinality(S)
      BY <2>2, <2>3, <3>2 DEF One
    <3> QED  BY <2>3, <3>1, <3>3
  <2> QED  BY <2>5, <2>6
<1>25. ExchangeIsTimed'
  <2>1. ProgAfter(n_progtim[n], prog, BecomesFull(os, ns))
          <=> (n_progtim[n] \/ prog = "start") /\ prog # "stop" /\ ~BecomesFull(os, ns)
    BY DEF ProgAfter
  <2>2. n_progtim[n] <=> os \in DbxState
    BY DEF Counted, ExchangeIsTimed
  <2>3. n_progtim'[n] <=> ns \in DbxState
    BY <1>1, <1>2, <1>4, <1>5, <2>1, <2>2 DEF ProgRule, LegalMove, BecomesFull, NbrState,
       DbxState, AdjForm, NBS_DOWN, NBS_INIT, NBS_2WAY, NBS_EXST, NBS_EXCH, NBS_LOAD, NBS_FULL
  <2> QED  BY <1>4, <2>3 DEF Counted, ExchangeIsTimed
<1> QED  BY <1>21, <1>22, <1>23, <1>24, <1>25 DEF Counted

-----------------------------------------------------------------------------
(* The pending list.                                                       *)

\* No neighbour twice, and exactly the flagged ones.
ListMatches(flags, s) ==
    /\ \A j, k \in DOMAIN s : s[j] = s[k] => j = k
    /\ \A m \in Nbr : flags[m] <=> \E k \in DOMAIN s : s[k] = m

\* What is left when the one cell that holds n is unlinked.
LEMMA UnlinkCell ==
    ASSUME NEW s \in Seq(Nbr), NEW n \in Nbr, NEW c \in DOMAIN s, s[c] = n,
           \A j, k \in DOMAIN s : s[j] = s[k] => j = k
    PROVE  /\ DOMAIN Unlink(s, n) = 1..(Len(s) - 1)
           /\ \A j \in DOMAIN Unlink(s, n) : Unlink(s, n)[j] = s[IF j < c THEN j ELSE j + 1]
<1> DEFINE First(j) == s[j] = n /\ \A m \in 1..(j - 1) : s[m] # n
           k0 == CHOOSE j \in DOMAIN s : First(j)
           u == Unlink(s, n)
<1>1. DOMAIN s = 1..Len(s) /\ Len(s) \in Nat /\ c \in 1..Len(s)
  OBVIOUS
<1>2. First(c)
  BY <1>1
<1>3. \A j \in DOMAIN s : First(j) => j = c
  OBVIOUS
<1>4. k0 = c
  BY <1>2, <1>3
<1>5. u = [j \in 1..(Len(s) - 1) |-> IF j < c THEN s[j] ELSE s[j + 1]]
  BY <1>4 DEF Unlink
<1> HIDE DEF k0, First, u
<1> QED  BY <1>5 DEF u

\* Unlinking it takes n, and n alone, off the list.
LEMMA UnlinkOne ==
    ASSUME NEW s \in Seq(Nbr), NEW n \in Nbr, NEW c \in DOMAIN s, s[c] = n,
           \A j, k \in DOMAIN s : s[j] = s[k] => j = k
    PROVE  /\ \A j, k \in DOMAIN Unlink(s, n) : Unlink(s, n)[j] = Unlink(s, n)[k] => j = k
           /\ \A m \in Nbr : (\E k \in DOMAIN Unlink(s, n) : Unlink(s, n)[k] = m)
                                 <=> m # n /\ \E k \in DOMAIN s : s[k] = m
<1> DEFINE u == Unlink(s, n)
<1>1. DOMAIN s = 1..Len(s) /\ Len(s) \in Nat /\ c \in 1..Len(s)
  OBVIOUS
<1>2. DOMAIN u = 1..(Len(s) - 1)
  BY UnlinkCell
<1>3. \A j \in DOMAIN u : u[j] = s[IF j < c THEN j ELSE j + 1]
  BY UnlinkCell
<1> HIDE DEF u
<1>4. ASSUME NEW j \in DOMAIN u, NEW k \in DOMAIN u, u[j] = u[k]
      PROVE  j = k
  <2> DEFINE a == IF j < c THEN j ELSE j + 1
             b == IF k < c THEN k ELSE k + 1
  <2>1. a \in DOMAIN s /\ b \in DOMAIN s
    BY <1>1, <1>2
  <2>2. s[a] = s[b]
    BY <1>3, <1>4
  <2>3. a = b
    BY <2>1, <2>2
  <2> QED  BY <1>1, <1>2, <2>3
<1>5. ASSUME NEW m \in Nbr, NEW k \in DOMAIN u, u[k] = m
      PROVE  m # n /\ \E j \in DOMAIN s : s[j] = m
  <2> DEFINE a == IF k < c THEN k ELSE k + 1
  <2>1. a \in DOMAIN s /\ a # c
    BY <1>1, <1>2
  <2>2. s[a] = m
    BY <1>3, <1>5
  <2> QED  BY <2>1, <2>2
<1>6. ASSUME NEW m \in Nbr, m # n, NEW j \in DOMAIN s, s[j] = m
       PROVE  \E k \in DOMAIN u : u[k] = m
  <2> DEFINE k == IF j < c THEN j ELSE j - 1
  <2>1. j # c
    BY <1>6
  <2>2. k \in DOMAIN u /\ (IF k < c THEN k ELSE k + 1) = j
    BY <1>1, <1>2, <2>1
  <2>3. u[k] = m
    BY <1>3, <1>6, <2>2
  <2> QED  BY <2>2, <2>3
<1> QED  BY <1>4, <1>5, <1>6 DEF u

\* Appending a neighbour that is not on the list.
LEMMA AppendOne ==
    ASSUME NEW s \in Seq(Nbr), NEW n \in Nbr, \A k \in DOMAIN s : s[k] # n,
           \A j, k \in DOMAIN s : s[j] = s[k] => j = k
    PROVE  /\ \A j, k \in DOMAIN Append(s, n) : Append(s, n)[j] = Append(s, n)[k] => j = k
           /\ \A m \in Nbr : (\E k \in DOMAIN Append(s, n) : Append(s, n)[k] = m)
                                 <=> m = n \/ \E k \in DOMAIN s : s[k] = m
<1> DEFINE u == Append(s, n)
<1>1. DOMAIN s = 1..Len(s) /\ Len(s) \in Nat /\ DOMAIN u = 1..(Len(s) + 1)
  OBVIOUS
<1>2. u[Len(s) + 1] = n /\ \A k \in DOMAIN s : u[k] = s[k]
  OBVIOUS
<1> HIDE DEF u
<1>3. \A k \in DOMAIN u : k = Len(s) + 1 \/ k \in DOMAIN s
  BY <1>1
<1>4. Len(s) + 1 \in DOMAIN u /\ \A k \in DOMAIN s : k \in DOMAIN u
  BY <1>1
<1>5. \A j, k \in DOMAIN u : u[j] = u[k] => j = k
  BY <1>2, <1>3
<1>6. \A m \in Nbr : (\E k \in DOMAIN u : u[k] = m) <=> m = n \/ \E k \in DOMAIN s : s[k] = m
  BY <1>2, <1>3, <1>4
<1> QED  BY <1>5, <1>6 DEF u

\* n is on the list after the operation exactly when "on" holds; nobody
\* else comes or goes.
PendChange(n, on) ==
    /\ ListMatches(n_adj_pend, pend)'
    /\ n_adj_pend'[n] <=> on
    /\ \A m \in Nbr \ {n} : n_adj_pend'[m] = n_adj_pend[m]

LEMMA DelPendAdjEffect ==
    ASSUME TypeOK, ListMatches(n_adj_pend, pend), NEW n \in Nbr, DelPendAdj(n)
    PROVE  PendChange(n, FALSE)
<1>1. n_adj_pend' = [n_adj_pend EXCEPT ![n] = FALSE] /\ n_adj_pend \in [Nbr -> BOOLEAN]
  BY DEF DelPendAdj, TypeOK
<1>2. CASE n_adj_pend[n]
  <2>1. PICK c \in DOMAIN pend : pend[c] = n
    BY <1>2 DEF ListMatches
  <2>2. pend' = Unlink(pend, n) /\ pend \in Seq(Nbr)
    BY <1>2 DEF DelPendAdj, TypeOK
  <2>3. /\ \A j, k \in DOMAIN pend' : pend'[j] = pend'[k] => j = k
        /\ \A m \in Nbr : (\E k \in DOMAIN pend' : pend'[k] = m)
                              <=> m # n /\ \E k \in DOMAIN pend : pend[k] = m
    BY <2>1, <2>2, UnlinkOne DEF ListMatches
  <2> QED  BY <1>1, <2>3 DEF PendChange, ListMatches
<1>3. CASE ~n_adj_pend[n]
  BY <1>1, <1>3 DEF DelPendAdj, PendChange, ListMatches
<1> QED  BY <1>2, <1>3

LEMMA AddPendAdjEffect ==
    ASSUME TypeOK, ListMatches(n_adj_pend, pend), NEW n \in Nbr, AddPendAdj(n)
    PROVE  PendChange(n, TRUE)
<1>1. n_adj_pend' = [n_adj_pend EXCEPT ![n] = TRUE] /\ n_adj_pend \in [Nbr -> BOOLEAN]
  BY DEF AddPendAdj, TypeOK
<1>2. CASE ~n_adj_pend[n]
  <2>1. \A k \in DOMAIN pend : pend[k] # n
    BY <1>2 DEF ListMatches
  <2>2. pend' = Append(pend, n) /\ pend \in Seq(Nbr)
    BY <1>2 DEF AddPendAdj, TypeOK
  <2>3. /\ \A j, k \in DOMAIN pend' : pend'[j] = pend'[k] => j = k
        /\ \A m \in Nbr : (\E k \in DOMAIN pend' : pend'[k] = m)
                              <=> m = n \/ \E k \in DOMAIN pend : pend[k] = m
    BY <2>1, <2>2, AppendOne DEF ListMatches
  <2> QED  BY <1>1, <2>3 DEF PendChange, ListMatches
<1>3. CASE n_adj_pend[n]
  BY <1>1, <1>3 DEF AddPendAdj, PendChange, ListMatches
<1> QED  BY <1>2, <1>3

\* nba_clr_lists() and then AddPendAdj(): to the tail, once.
LEMMA ClrThenPendEffect ==
    ASSUME TypeOK, ListMatches(n_adj_pend, pend), NEW n \in Nbr, ~n_adj_pend[n],
           ClrThenPend(n)
    PROVE  PendChange(n, TRUE)
<1>1. AddPendAdj(n)
  BY DEF ClrThenPend, AddPendAdj
<1> QED  BY <1>1, AddPendAdjEffect

LEMMA KeepPendEffect ==
    ASSUME ListMatches(n_adj_pend, pend), NEW n \in Nbr, KeepPend
    PROVE  PendChange(n, n_adj_pend[n])
  BY DEF KeepPend, PendChange, ListMatches

-----------------------------------------------------------------------------
(* One dispatch of nbr_fsm() for neighbour n.                              *)

\* What the election wants of n is what n has, or n waits for it.
Settled(n) ==
    /\ n_state[n] = NBS_2WAY /\ adjacency_wanted(n) => n_adj_pend[n]
    /\ n_state[n] \in AdjForm => adjacency_wanted(n)

Outcome(n) ==
    /\ NbrMoves(n) \/ (NbrRests /\ nchg' = NoIfc)
    /\ PendTypeOK'
    /\ ListMatches(n_adj_pend, pend)'
    /\ \A m \in Nbr \ {n} : n_adj_pend'[m] = n_adj_pend[m]
    /\ n_adj_pend'[n] => n_state'[n] = NBS_2WAY
    /\ UNCHANGED ifcVars

NbrInv == TypeOK /\ Counted /\ PendingListSound

LEMMA EnterState ==
    ASSUME TypeOK, NEW n \in Nbr, NEW ns, NEW slot, NEW prog, Enter(n, ns, slot, prog)
    PROVE  /\ n_state'[n] = ns
           /\ \A m \in Nbr \ {n} : n_state'[m] = n_state[m]
  BY DEF TypeOK, Enter

\* A legal move with an operation on the pending list that leaves n on it
\* only in 2-Way has the outcome above.
LEMMA MoveOutcome ==
    ASSUME NbrInv, NEW n \in Nbr, NEW ns \in NbrState, NEW slot \in {"none", "lcl", "rmt"},
           NEW prog \in {"start", "stop", "keep"}, LegalEnter(n, ns, slot, prog),
           \/ DelPendAdj(n)
           \/ AddPendAdj(n) /\ ns = NBS_2WAY
           \/ ClrThenPend(n) /\ ns = NBS_2WAY /\ n_state[n] # NBS_2WAY
           \/ KeepPend /\ (ns = NBS_2WAY \/ n_state[n] # NBS_2WAY),
           UNCHANGED ifcVars
    PROVE  Outcome(n) /\ n_state'[n] = ns
<1>1. NbrMoves(n)
  BY DEF NbrMoves
<1>2. n_state'[n] = ns
  BY EnterState DEF NbrInv, LegalEnter
<1>3. TypeOK /\ ListMatches(n_adj_pend, pend)
  BY DEF NbrInv, PendingListSound, ListMatches
<1>4. n_adj_pend[n] => n_state[n] = NBS_2WAY
  BY DEF NbrInv, PendingListSound
<1>5. PendTypeOK'
  BY <1>3, PendOpsType
<1>6. CASE DelPendAdj(n)
  BY <1>1, <1>2, <1>3, <1>5, <1>6, DelPendAdjEffect DEF Outcome, PendChange
<1>7. CASE AddPendAdj(n) /\ ns = NBS_2WAY
  BY <1>1, <1>2, <1>3, <1>5, <1>7, AddPendAdjEffect DEF Outcome, PendChange
<1>8. CASE ClrThenPend(n) /\ ns = NBS_2WAY /\ n_state[n] # NBS_2WAY
  BY <1>1, <1>2, <1>3, <1>4, <1>5, <1>8, ClrThenPendEffect DEF Outcome, PendChange
<1>9. CASE KeepPend /\ (ns = NBS_2WAY \/ n_state[n] # NBS_2WAY)
  BY <1>1, <1>2, <1>3, <1>4, <1>5, <1>9, KeepPendEffect DEF Outcome, PendChange
<1> QED  BY <1>6, <1>7, <1>8, <1>9

\* Nothing happens to any neighbour.
LEMMA RestOutcome ==
    ASSUME NbrInv, NEW n \in Nbr, NothingChanges, UNCHANGED ifcVars
    PROVE  Outcome(n) /\ n_state'[n] = n_state[n] /\ n_adj_pend'[n] = n_adj_pend[n]
<1>1. NbrRests /\ nchg' = NoIfc /\ KeepPend /\ n_state' = n_state
  BY DEF NothingChanges, NbrRests, nbrVars, KeepPend
<1>2. PendTypeOK'
  BY <1>1, PendOpsType DEF NbrInv
<1>3. ListMatches(n_adj_pend, pend) /\ (n_adj_pend[n] => n_state[n] = NBS_2WAY)
  BY DEF NbrInv, PendingListSound, ListMatches
<1> QED  BY <1>1, <1>2, <1>3 DEF Outcome, KeepPend, ListMatches

\* adjacency_wanted() reads only what the interface machine writes.
LEMMA WantedStable ==
    ASSUME UNCHANGED ifcVars
    PROVE  \A n \in Nbr : adjacency_wanted(n)' <=> adjacency_wanted(n)
  BY DEF ifcVars, adjacency_wanted

\* nba_eval1() settles the neighbour, and takes it across 2-Way only from
\* Init.
LEMMA Eval1Outcome ==
    ASSUME NbrInv, NEW n \in Nbr, n_state[n] \in {NBS_INIT, NBS_2WAY}, nba_eval1(n),
           UNCHANGED ifcVars
    PROVE  Outcome(n) /\ Settled(n)' /\ n_state'[n] \in {NBS_2WAY, NBS_EXST}
<1> USE DEF NBS_DOWN, NBS_INIT, NBS_2WAY, NBS_EXST, NBS_EXCH, NBS_LOAD, NBS_FULL,
        NbrState, AdjForm, DbxState
<1>1. CASE /\ ~adjacency_wanted(n)
           /\ DelPendAdj(n)
           /\ Enter(n, NBS_2WAY, "none", "keep")
  <2>1. LegalEnter(n, NBS_2WAY, "none", "keep")
    BY <1>1 DEF LegalEnter, LegalMove, SlotFree, ProgRule, LclSlotFree, RmtSlotFree
  <2>2. Outcome(n) /\ n_state'[n] = NBS_2WAY
    BY <1>1, <2>1, MoveOutcome
  <2> QED  BY <1>1, <2>2, WantedStable DEF Settled
<1>2. CASE /\ adjacency_wanted(n)
           /\ LclSlotFree
           /\ DelPendAdj(n)
           /\ Enter(n, NBS_EXST, "lcl", "start")
  <2>1. LegalEnter(n, NBS_EXST, "lcl", "start")
    BY <1>2 DEF LegalEnter, LegalMove, SlotFree, ProgRule, LclSlotFree, RmtSlotFree
  <2>2. Outcome(n) /\ n_state'[n] = NBS_EXST
    BY <1>2, <2>1, MoveOutcome
  <2> QED  BY <1>2, <2>2, WantedStable DEF Settled
<1>3. CASE /\ adjacency_wanted(n)
           /\ ~LclSlotFree
           /\ AddPendAdj(n)
           /\ Enter(n, NBS_2WAY, "none", "keep")
  <2>1. LegalEnter(n, NBS_2WAY, "none", "keep")
    BY <1>3 DEF LegalEnter, LegalMove, SlotFree, ProgRule, LclSlotFree, RmtSlotFree
  <2>2. Outcome(n) /\ n_state'[n] = NBS_2WAY
    BY <1>3, <2>1, MoveOutcome
  <2>3. n_adj_pend'[n]
    BY <1>3 DEF NbrInv, TypeOK, AddPendAdj
  <2> QED  BY <2>2, <2>3 DEF Settled
<1> QED  BY <1>1, <1>2, <1>3 DEF nba_eval1

\* So does nba_eval2(), when it was settled before.
LEMMA Eval2Outcome ==
    ASSUME NbrInv, NEW n \in Nbr, n_state[n] \in {NBS_INIT, NBS_2WAY}, nba_eval2(n),
           UNCHANGED ifcVars
    PROVE  Outcome(n) /\ Settled(n)'
<1> USE DEF NBS_DOWN, NBS_INIT, NBS_2WAY, NBS_EXST, NBS_EXCH, NBS_LOAD, NBS_FULL,
        NbrState, AdjForm, DbxState
<1>1. CASE /\ ~adjacency_wanted(n)
           /\ KeepPend
           /\ Enter(n, NBS_2WAY, "none", "keep")
  <2>1. LegalEnter(n, NBS_2WAY, "none", "keep")
    BY <1>1 DEF LegalEnter, LegalMove, SlotFree, ProgRule, LclSlotFree, RmtSlotFree
  <2>2. Outcome(n) /\ n_state'[n] = NBS_2WAY
    BY <1>1, <2>1, MoveOutcome
  <2> QED  BY <1>1, <2>2, WantedStable DEF Settled
<1>2. CASE /\ adjacency_wanted(n)
           /\ RmtSlotFree
           /\ DelPendAdj(n)
           /\ Enter(n, NBS_EXST, "rmt", "start")
  <2>1. LegalEnter(n, NBS_EXST, "rmt", "start")
    BY <1>2 DEF LegalEnter, LegalMove, SlotFree, ProgRule, LclSlotFree, RmtSlotFree
  <2>2. Outcome(n) /\ n_state'[n] = NBS_EXST
    BY <1>2, <2>1, MoveOutcome
  <2> QED  BY <1>2, <2>2, WantedStable DEF Settled
<1>3. CASE /\ adjacency_wanted(n)
           /\ ~RmtSlotFree
           /\ AddPendAdj(n)
           /\ Enter(n, NBS_2WAY, "none", "keep")
  <2>1. LegalEnter(n, NBS_2WAY, "none", "keep")
    BY <1>3 DEF LegalEnter, LegalMove, SlotFree, ProgRule, LclSlotFree, RmtSlotFree
  <2>2. Outcome(n) /\ n_state'[n] = NBS_2WAY
    BY <1>3, <2>1, MoveOutcome
  <2>3. n_adj_pend'[n]
    BY <1>3 DEF NbrInv, TypeOK, AddPendAdj
  <2> QED  BY <2>2, <2>3 DEF Settled
<1> QED  BY <1>1, <1>2, <1>3 DEF nba_eval2

\* A neighbour that moves without an exchange being started stays settled.
LEMMA MoveSettles ==
    ASSUME NbrInv, NEW n \in Nbr, Settled(n), UNCHANGED ifcVars, NEW ns,
           n_state'[n] = ns,
           \/ ns \in {NBS_DOWN, NBS_INIT}
           \/ ns = NBS_2WAY /\ n_adj_pend'[n]
           \/ ns \in AdjForm /\ n_state[n] \in AdjForm
    PROVE  Settled(n)'
  BY WantedStable DEF Settled, AdjForm, DbxState,
     NBS_DOWN, NBS_INIT, NBS_2WAY, NBS_EXST, NBS_EXCH, NBS_LOAD, NBS_FULL

\* NBE_EVAL settles the neighbour and never takes it across 2-Way.
LEMMA EvalOutcome ==
    ASSUME NbrInv, NEW n \in Nbr, DoEval(n), UNCHANGED ifcVars
    PROVE  Outcome(n) /\ Settled(n)' /\ nchg' = NoIfc
<1> USE DEF NBS_DOWN, NBS_INIT, NBS_2WAY, NBS_EXST, NBS_EXCH, NBS_LOAD, NBS_FULL,
        NbrState, AdjForm, DbxState, Bidir
<1>1. CASE n_state[n] = NBS_2WAY /\ nba_eval1(n)
  <2>1. Outcome(n) /\ Settled(n)'
    BY <1>1, Eval1Outcome
  <2>2. nchg' = NoIfc
    BY <1>1 DEF nba_eval1, Enter, Crosses2Way
  <2> QED  BY <2>1, <2>2
<1>2. CASE n_state[n] \in AdjForm /\ nba_reeval(n)
  <2>1. LegalEnter(n, NBS_2WAY, "none", "stop") /\ DelPendAdj(n)
    BY <1>2 DEF nba_reeval, LegalEnter, LegalMove, SlotFree, ProgRule
  <2>2. Outcome(n) /\ n_state'[n] = NBS_2WAY
    BY <2>1, MoveOutcome
  <2>3. ~adjacency_wanted(n)'
    BY <1>2, WantedStable DEF nba_reeval
  <2>4. nchg' = NoIfc
    BY <1>2 DEF nba_reeval, Enter, Crosses2Way
  <2> QED  BY <2>2, <2>3, <2>4 DEF Settled
<1>3. CASE /\ n_state[n] \notin Bidir \/ (n_state[n] \in AdjForm /\ adjacency_wanted(n))
           /\ NothingChanges
  <2>1. Outcome(n) /\ n_state'[n] = n_state[n]
    BY <1>3, RestOutcome
  <2>2. Settled(n)'
    BY <1>3, <2>1, WantedStable DEF Settled
  <2> QED  BY <1>3, <2>1, <2>2 DEF NothingChanges
<1> QED  BY <1>1, <1>2, <1>3 DEF DoEval

\* nba_delete() leaves nothing of the neighbour behind.
LEMMA DeleteOutcome ==
    ASSUME NbrInv, NEW n \in Nbr, nba_delete(n), UNCHANGED ifcVars
    PROVE  Outcome(n) /\ Settled(n)'
<1> USE DEF NBS_DOWN, NBS_INIT, NBS_2WAY, NBS_EXST, NBS_EXCH, NBS_LOAD, NBS_FULL,
        NbrState, AdjForm, DbxState
<1>1. LegalEnter(n, NBS_DOWN, "none", "stop") /\ DelPendAdj(n)
  BY DEF nba_delete, LegalEnter, LegalMove, SlotFree, ProgRule
<1>2. Outcome(n) /\ n_state'[n] = NBS_DOWN
  BY <1>1, MoveOutcome
<1> QED  BY <1>2 DEF Settled

-----------------------------------------------------------------------------
(* The inductive invariant.                                                *)

\* A call that has begun is the only one, and the neighbours of a DESTROY
\* loop are on an interface that is Down, so that no election follows.
Control ==
    /\ nchg # NoIfc => loop = NoLoop /\ ~ticking
    /\ ticking => loop = NoLoop
    /\ loop.event = "DESTROY" => \A n \in loop.left : if_state[NbrIfc[n]] = "Down"

IInv == NbrInv /\ Control /\ \A n \in Nbr \ loop.left : Settled(n)

LEMMA InitInv == Init => IInv
<1> SUFFICES ASSUME Init PROVE IInv
  OBVIOUS
<1> USE ConstAssumption DEF Init
<1>1. TypeOK
  <2>1. pend \in Seq(Nbr)
    OBVIOUS
  <2>2. loop \in [event : {"none", "EVAL", "DESTROY"}, left : SUBSET Nbr]
    BY DEF NoLoop
  <2>3. n_state \in [Nbr -> NbrState]
    BY DEF NbrState
  <2>4. EnterTypeOK
    BY <2>3 DEF EnterTypeOK
  <2>5. PendTypeOK /\ IfcTypeOK
    BY <2>1, <2>2 DEF PendTypeOK, IfcTypeOK
  <2> QED  BY <2>4, <2>5, TypeSplit
<1>2. \A n \in Nbr : n_state[n] \notin DbxState /\ n_state[n] # NBS_FULL /\ n_state[n] # NBS_2WAY
                     /\ n_state[n] \notin AdjForm
  BY DEF DbxState, AdjForm, NBS_DOWN, NBS_2WAY, NBS_EXST, NBS_EXCH, NBS_LOAD, NBS_FULL
<1>3. LclHolders = {} /\ RmtHolders = {}
  BY <1>2 DEF LclHolders, RmtHolders
<1>4. {n \in Nbr : n_state[n] \in {NBS_EXCH, NBS_LOAD}} = {}
  BY <1>2 DEF DbxState
<1>5. \A i \in Ifc : {n \in NbrsOf(i) : n_state[n] = NBS_FULL} = {}
  BY <1>2 DEF NbrsOf
<1>6. Counted
  <2>0. Cardinality({}) = 0
    BY FS_EmptySet
  <2>1. SlotsAccounted /\ SlotLimit
    BY <1>3, <2>0 DEF SlotsAccounted, SlotLimit
  <2>2. DbxCounted
    BY <1>4, <2>0 DEF DbxCounted
  <2>3. FullCounted
    BY <1>5, <2>0 DEF FullCounted
  <2>4. ExchangeIsTimed
    BY <1>2 DEF ExchangeIsTimed
  <2> QED  BY <2>1, <2>2, <2>3, <2>4 DEF Counted
<1>7. PendingListSound
  BY DEF PendingListSound
<1>8. Control
  BY DEF Control, NoLoop
<1>9. \A n \in Nbr : Settled(n)
  BY <1>2 DEF Settled
<1> QED  BY <1>1, <1>6, <1>7, <1>8, <1>9 DEF IInv, NbrInv

LEMMA RestCounts ==
    ASSUME Counted, NbrRests
    PROVE  Counted'
  BY DEF NbrRests, countVars, Counted, SlotsAccounted, SlotLimit, DbxCounted, FullCounted,
     ExchangeIsTimed, LclHolders, RmtHolders

\* What one dispatch leaves of the invariant.
LEMMA OutcomeKeeps ==
    ASSUME IInv, NEW n \in Nbr, Outcome(n), Settled(n)', IfcTypeOK',
           loop.left \subseteq loop'.left \cup {n}
    PROVE  NbrInv' /\ \A m \in Nbr \ loop'.left : Settled(m)'
<1> USE DEF IInv, NbrInv
<1>1. EnterTypeOK' /\ Counted'
  <2>1. CASE NbrMoves(n)
    <3>1. Counted'
      BY <2>1, EnterCounts
    <3>2. EnterTypeOK'
      BY <2>1, EnterType DEF NbrMoves, LegalEnter
    <3> QED  BY <3>1, <3>2
  <2>2. CASE NbrRests /\ nchg' = NoIfc
    <3>1. EnterTypeOK'
      BY <2>2 DEF TypeOK, EnterTypeOK, NbrRests, countVars
    <3> QED  BY <2>2, <3>1, RestCounts
  <2> QED  BY <2>1, <2>2 DEF Outcome
<1>2. TypeOK'
  BY <1>1 DEF TypeOK, EnterTypeOK, PendTypeOK, IfcTypeOK, Outcome
<1>3. \A m \in Nbr \ {n} : n_state'[m] = n_state[m]
  BY EnterState DEF Outcome, NbrMoves, LegalEnter, NbrRests
<1>4. PendingListSound'
  <2>1. \A m \in Nbr : n_adj_pend'[m] => n_state'[m] = NBS_2WAY
    BY <1>3 DEF PendingListSound, Outcome
  <2> QED  BY <2>1 DEF PendingListSound, ListMatches, Outcome
<1>5. \A m \in Nbr \ {n} : Settled(m)' <=> Settled(m)
  BY <1>3, WantedStable DEF Settled, Outcome
<1> QED  BY <1>1, <1>2, <1>4, <1>5

\* A dispatch that starts between two events keeps the whole invariant.
LEMMA IdleOutcomeKeeps ==
    ASSUME IInv, NEW n \in Nbr, Idle, Outcome(n), Settled(n)',
           UNCHANGED <<ifcVars, loop, ticking>>
    PROVE  IInv'
<1>1. IfcTypeOK'
  BY DEF IInv, NbrInv, TypeOK, IfcTypeOK, ifcVars
<1>2. NbrInv' /\ \A m \in Nbr \ loop'.left : Settled(m)'
  BY <1>1, OutcomeKeeps
<1>3. Control'
  BY DEF Idle, Control, NoLoop
<1> QED  BY <1>2, <1>3 DEF IInv

LEMMA IdleSettled == ASSUME IInv, Idle PROVE \A n \in Nbr : Settled(n)
  BY DEF IInv, Idle, NoLoop

\* One step per event of the neighbour machine.
LEMMA NbrEventKeeps ==
    ASSUME IInv, NEW n \in Nbr,
           \/ HelloReceived(n) \/ TwoWayReceived(n) \/ OneWayReceived(n)
           \/ DDReceived(n) \/ NegotiationDone(n) \/ ExchangeDone(n)
           \/ LoadingDone(n) \/ BadSeqNoOrRequest(n) \/ AdjacencyTimeout(n)
           \/ Reevaluate(n) \/ NbrDown(n)
    PROVE  IInv'
<1> USE DEF NBS_DOWN, NBS_INIT, NBS_2WAY, NBS_EXST, NBS_EXCH, NBS_LOAD, NBS_FULL,
        NbrState, AdjForm, DbxState, Bidir, FloodState
<1>0. Idle /\ UNCHANGED <<ifcVars, loop, ticking>> /\ UNCHANGED ifcVars
  BY DEF HelloReceived, TwoWayReceived, OneWayReceived, DDReceived, NegotiationDone,
     ExchangeDone, LoadingDone, BadSeqNoOrRequest, AdjacencyTimeout, Reevaluate, NbrDown
<1>a. NbrInv /\ Settled(n) /\ n_state[n] \in NbrState
  BY <1>0, IdleSettled DEF IInv, NbrInv, TypeOK
<1>1. CASE HelloReceived(n)
  <2>1. LegalEnter(n, NBS_INIT, "none", "keep") /\ KeepPend
    BY <1>1 DEF HelloReceived, LegalEnter, LegalMove, SlotFree, ProgRule
  <2>2. Outcome(n) /\ n_state'[n] = NBS_INIT
    BY <1>0, <1>1, <1>a, <2>1, MoveOutcome DEF HelloReceived
  <2> QED  BY <1>0, <1>a, <2>2, MoveSettles, IdleOutcomeKeeps
<1>2. CASE TwoWayReceived(n)
  BY <1>0, <1>2, <1>a, Eval1Outcome, IdleOutcomeKeeps DEF TwoWayReceived
<1>3. CASE OneWayReceived(n)
  <2>1. LegalEnter(n, NBS_INIT, "none", "stop") /\ DelPendAdj(n)
    BY <1>3 DEF OneWayReceived, LegalEnter, LegalMove, SlotFree, ProgRule
  <2>2. Outcome(n) /\ n_state'[n] = NBS_INIT
    BY <1>0, <1>a, <2>1, MoveOutcome
  <2> QED  BY <1>0, <1>a, <2>2, MoveSettles, IdleOutcomeKeeps
<1>4. CASE DDReceived(n)
  BY <1>0, <1>4, <1>a, Eval2Outcome, IdleOutcomeKeeps DEF DDReceived
<1>5. CASE NegotiationDone(n)
  <2>1. LegalEnter(n, NBS_EXCH, "none", "keep") /\ KeepPend
    BY <1>5 DEF NegotiationDone, LegalEnter, LegalMove, SlotFree, ProgRule
  <2>2. Outcome(n) /\ n_state'[n] = NBS_EXCH
    BY <1>0, <1>5, <1>a, <2>1, MoveOutcome DEF NegotiationDone
  <2> QED  BY <1>0, <1>5, <1>a, <2>2, MoveSettles, IdleOutcomeKeeps DEF NegotiationDone
<1>6. CASE ExchangeDone(n)
  <2>1. PICK ns \in {NBS_LOAD, NBS_FULL} : LegalEnter(n, ns, "none", "keep") /\ KeepPend
    BY <1>6 DEF ExchangeDone, LegalEnter, LegalMove, SlotFree, ProgRule
  <2>2. Outcome(n) /\ n_state'[n] = ns
    BY <1>0, <1>6, <1>a, <2>1, MoveOutcome DEF ExchangeDone
  <2> QED  BY <1>0, <1>6, <1>a, <2>2, MoveSettles, IdleOutcomeKeeps DEF ExchangeDone
<1>7. CASE LoadingDone(n)
  <2>1. LegalEnter(n, NBS_FULL, "none", "keep") /\ KeepPend
    BY <1>7 DEF LoadingDone, LegalEnter, LegalMove, SlotFree, ProgRule
  <2>2. Outcome(n) /\ n_state'[n] = NBS_FULL
    BY <1>0, <1>7, <1>a, <2>1, MoveOutcome DEF LoadingDone
  <2> QED  BY <1>0, <1>7, <1>a, <2>2, MoveSettles, IdleOutcomeKeeps DEF LoadingDone
<1>8. CASE \/ BadSeqNoOrRequest(n)
           \/ AdjacencyTimeout(n) /\ n_state[n] \in AdjForm
  <2>1. LegalEnter(n, NBS_2WAY, "none", "stop") /\ ClrThenPend(n) /\ n_state[n] # NBS_2WAY
    BY <1>8 DEF BadSeqNoOrRequest, AdjacencyTimeout, LegalEnter, LegalMove, SlotFree, ProgRule
  <2>2. Outcome(n) /\ n_state'[n] = NBS_2WAY
    BY <1>0, <1>a, <2>1, MoveOutcome
  <2>3. n_adj_pend'[n]
    BY <1>a, <2>1 DEF ClrThenPend, NbrInv, TypeOK
  <2> QED  BY <1>0, <1>a, <2>2, <2>3, MoveSettles, IdleOutcomeKeeps
<1>9. CASE AdjacencyTimeout(n) /\ n_state[n] \notin AdjForm
  \* The progress timer runs only during an exchange.
  BY <1>9, <1>a DEF AdjacencyTimeout, NbrInv, Counted, ExchangeIsTimed
<1>10. CASE Reevaluate(n)
  BY <1>0, <1>10, <1>a, EvalOutcome, IdleOutcomeKeeps DEF Reevaluate
<1>11. CASE NbrDown(n)
  BY <1>0, <1>11, <1>a, DeleteOutcome, IdleOutcomeKeeps DEF NbrDown
<1> QED  BY <1>1, <1>2, <1>3, <1>4, <1>5, <1>6, <1>7, <1>8, <1>9, <1>10, <1>11

\* One iteration of ifa_allnbrs_event().
LEMMA VisitKeeps ==
    ASSUME IInv, NEW n \in Nbr, VisitNbr(n)
    PROVE  IInv'
<1>1. /\ nchg = NoIfc /\ n \in loop.left /\ UNCHANGED ifcVars /\ ticking' = ticking
      /\ loop' = IF loop.left = {n} THEN NoLoop ELSE [loop EXCEPT !.left = @ \ {n}]
  BY DEF VisitNbr
<1>2. NbrInv /\ Control
  BY DEF IInv
<1>3. Outcome(n) /\ Settled(n)' /\ nchg' = NoIfc
  <2>1. CASE loop.event = "EVAL" /\ DoEval(n)
    BY <1>1, <1>2, <2>1, EvalOutcome
  <2>2. CASE loop.event = "DESTROY" /\ nba_delete(n)
    <3>1. Outcome(n) /\ Settled(n)'
      BY <1>1, <1>2, <2>2, DeleteOutcome
    <3>2. if_state[NbrIfc[n]] = "Down"
      BY <1>1, <1>2, <2>2 DEF Control
    <3>3. nchg' = NoIfc
      BY <2>2, <3>2 DEF nba_delete, Enter
    <3> QED  BY <3>1, <3>3
  <2> QED  BY <2>1, <2>2 DEF VisitNbr
<1>4. loop \in [event : {"none", "EVAL", "DESTROY"}, left : SUBSET Nbr]
  BY <1>2 DEF NbrInv, TypeOK
<1>5. loop' \in [event : {"none", "EVAL", "DESTROY"}, left : SUBSET Nbr]
  BY <1>1, <1>4 DEF NoLoop
<1>6. IfcTypeOK'
  BY <1>1, <1>2, <1>5 DEF NbrInv, TypeOK, IfcTypeOK, ifcVars
<1>7. loop.left \subseteq loop'.left \cup {n}
  BY <1>1, <1>4 DEF NoLoop
<1>8. NbrInv' /\ \A m \in Nbr \ loop'.left : Settled(m)'
  BY <1>3, <1>6, <1>7, OutcomeKeeps
<1>9. ~ticking
  BY <1>1, <1>2 DEF Control, NoLoop
<1>10. loop'.event = "DESTROY" => loop.event = "DESTROY" /\ loop'.left \subseteq loop.left
  BY <1>1, <1>4 DEF NoLoop
<1>11. Control'
  BY <1>1, <1>2, <1>3, <1>9, <1>10 DEF Control, ifcVars
<1> QED  BY <1>8, <1>11 DEF IInv

\* GetNextAdj() takes the head, which is 2-Way, off the list.
LEMMA ServePops ==
    ASSUME NbrInv, TickServe
    PROVE  \E n \in Nbr : /\ n = Head(pend) /\ n_adj_pend[n] /\ n_state[n] = NBS_2WAY
                          /\ DelPendAdj(n)
<1>1. TypeOK
  BY DEF NbrInv
<1>2. pend \in Seq(Nbr) /\ pend # <<>>
  BY <1>1 DEF TickServe, CanServe, TypeOK
<1>3. PICK n \in Nbr : n = Head(pend) /\ 1 \in DOMAIN pend /\ pend[1] = n
  BY <1>2
<1>4. n_adj_pend[n] /\ n_state[n] = NBS_2WAY
  BY <1>1, <1>3 DEF NbrInv, PendingListSound
<1>5. DelPendAdj(n)
  <2>1. pend' = Tail(pend) /\ n_adj_pend' = [n_adj_pend EXCEPT ![n] = FALSE]
    BY <1>3 DEF TickServe
  <2>2. \A j \in DOMAIN pend : pend[j] = n => j = 1
    BY <1>1, <1>3 DEF NbrInv, PendingListSound
  <2> DEFINE First(j) == pend[j] = n /\ \A m \in 1..(j - 1) : pend[m] # n
  <2>3. First(1)
    BY <1>3
  <2>4. (CHOOSE j \in DOMAIN pend : First(j)) = 1
    BY <1>3, <2>2, <2>3
  <2>5. Unlink(pend, n) = [j \in 1..(Len(pend) - 1) |-> IF j < 1 THEN pend[j] ELSE pend[j + 1]]
    BY <2>4 DEF Unlink
  <2>6. \A j \in 1..(Len(pend) - 1) : ~(j < 1)
    BY <1>2
  <2>7. Unlink(pend, n) = [j \in 1..(Len(pend) - 1) |-> pend[j + 1]]
    BY <2>5, <2>6
  <2>8. Unlink(pend, n) = Tail(pend)
    <3>1. /\ Tail(pend) \in Seq(Nbr) /\ Len(Tail(pend)) = Len(pend) - 1
          /\ \A j \in 1..(Len(pend) - 1) : Tail(pend)[j] = pend[j + 1]
      BY <1>2
    <3>2. \A t \in Seq(Nbr) : t = [j \in 1..Len(t) |-> t[j]]
      OBVIOUS
    <3>3. Tail(pend) = [j \in 1..Len(Tail(pend)) |-> Tail(pend)[j]]
      BY <3>1, <3>2
    <3> QED  BY <2>7, <3>1, <3>3
  <2> QED  BY <1>4, <2>1, <2>8 DEF DelPendAdj
<1> QED  BY <1>3, <1>4, <1>5

\* The pending list is served from its head.
LEMMA ServeKeeps ==
    ASSUME IInv, TickServe
    PROVE  IInv'
<1> USE DEF NBS_DOWN, NBS_INIT, NBS_2WAY, NBS_EXST, NBS_EXCH, NBS_LOAD, NBS_FULL,
        NbrState, AdjForm, DbxState, Bidir
<1>1. NbrInv /\ Control /\ TypeOK
  BY DEF IInv, NbrInv
<1>2. PICK n \in Nbr : /\ n = Head(pend) /\ n_adj_pend[n] /\ n_state[n] = NBS_2WAY
                       /\ DelPendAdj(n)
  BY <1>1, ServePops
<1>3. n = Head(pend)
  BY <1>2
<1>4. n_adj_pend[n] /\ n_state[n] = NBS_2WAY
  BY <1>2
<1>5. DelPendAdj(n)
  BY <1>2
<1>6. UNCHANGED <<ifcVars, loop, ticking>> /\ UNCHANGED ifcVars /\ LclSlotFree
  BY DEF TickServe, CanServe, LclSlotFree
<1>7. Outcome(n) /\ Settled(n)' /\ nchg' = NoIfc
  <2>1. CASE adjacency_wanted(n) /\ Enter(n, NBS_EXST, "lcl", "start")
    <3>1. LegalEnter(n, NBS_EXST, "lcl", "start")
      BY <1>4, <1>6, <2>1 DEF LegalEnter, LegalMove, SlotFree, ProgRule, LclSlotFree, RmtSlotFree
    <3>2. Outcome(n) /\ n_state'[n] = NBS_EXST
      BY <1>1, <1>3, <1>5, <1>6, <3>1, MoveOutcome
    <3>3. nchg' = NoIfc
      BY <1>4, <2>1 DEF Enter, Crosses2Way
    <3> QED  BY <1>3, <1>6, <2>1, <3>2, <3>3, WantedStable DEF Settled
  <2>2. CASE /\ ~adjacency_wanted(n)
             /\ nchg' = NoIfc
             /\ UNCHANGED <<n_state, n_rmt_init, n_progtim, countVars>>
    <3>1. PendTypeOK'
      BY <1>1, <1>3, <1>5, PendOpsType
    <3>2. PendChange(n, FALSE)
      BY <1>1, <1>3, <1>5, DelPendAdjEffect DEF NbrInv, PendingListSound, ListMatches
    <3>3. Outcome(n)
      BY <1>6, <2>2, <3>1, <3>2 DEF Outcome, NbrRests, PendChange
    <3> QED  BY <1>3, <1>4, <1>6, <2>2, <3>3, WantedStable DEF Settled
  <2> QED  BY <1>3, <1>4, <2>1, <2>2 DEF TickServe
<1>8. IfcTypeOK'
  BY <1>1, <1>6 DEF TypeOK, IfcTypeOK, ifcVars
<1>9. NbrInv' /\ \A m \in Nbr \ loop'.left : Settled(m)'
  BY <1>3, <1>6, <1>7, <1>8, OutcomeKeeps
<1>10. Control'
  BY <1>1, <1>6, <1>7 DEF Control, ifcVars
<1> QED  BY <1>9, <1>10 DEF IInv

\* The events of an interface leave the neighbours as they are.
LEMMA IfcEventKeeps ==
    ASSUME IInv, NEW i \in Ifc,
           IfcUp(i) \/ IfcDown(i) \/ ElectionDue(i) \/ ifa_elect(i)
    PROVE  IInv'
<1>1. NbrInv /\ Control /\ TypeOK
  BY DEF IInv, NbrInv
<1>2. UNCHANGED <<nbrVars, countVars>>
  BY DEF IfcUp, IfcDown, ElectionDue, ifa_elect
<1>3. Counted'
  BY <1>1, <1>2, RestCounts DEF NbrInv, NbrRests, nbrVars
<1>4. PendingListSound'
  BY <1>1, <1>2 DEF NbrInv, PendingListSound, nbrVars
<1>5. NbrsOf(i) \subseteq Nbr
  BY DEF NbrsOf
<1>6. EnterTypeOK' /\ PendTypeOK'
  <2>1. nchg' \in Ifc \cup {NoIfc}
    BY <1>1 DEF TypeOK, IfcUp, IfcDown, ElectionDue, ifa_elect
  <2> QED  BY <1>1, <1>2, <2>1 DEF TypeOK, EnterTypeOK, PendTypeOK, nbrVars, countVars
<1>7. ASSUME NEW m \in Nbr, Settled(m), adjacency_wanted(m)' <=> adjacency_wanted(m)
      PROVE  Settled(m)'
  BY <1>2, <1>7 DEF Settled, nbrVars
<1>8. CASE IfcUp(i)
  <2>1. IfcTypeOK' /\ Control'
    BY <1>1, <1>8 DEF IfcUp, IfcTypeOK, TypeOK, Control, Idle, NoLoop
  <2>2. \A m \in Nbr \ loop'.left : Settled(m)'
    BY <1>7, <1>8 DEF IfcUp, IInv, adjacency_wanted
  <2> QED  BY <1>3, <1>4, <1>6, <2>1, <2>2, TypeSplit DEF IInv, NbrInv, TypeOK, EnterTypeOK, PendTypeOK, IfcTypeOK
<1>9. CASE IfcDown(i)
  <2>1. IfcTypeOK'
    BY <1>1, <1>5, <1>9 DEF IfcDown, IfcTypeOK, TypeOK, NoLoop
  <2>2. Control'
    BY <1>1, <1>9 DEF IfcDown, Control, Idle, NoLoop, NbrsOf, TypeOK
  <2>3. \A m \in Nbr : m \notin NbrsOf(i) => (adjacency_wanted(m)' <=> adjacency_wanted(m))
    BY <1>1, <1>9 DEF IfcDown, adjacency_wanted, NbrsOf, TypeOK
  <2>4. NbrsOf(i) \subseteq loop'.left /\ \A m \in Nbr : Settled(m)
    BY <1>9, IdleSettled DEF IfcDown, NoLoop
  <2>5. \A m \in Nbr \ loop'.left : Settled(m)'
    BY <1>7, <2>3, <2>4
  <2> QED  BY <1>3, <1>4, <1>6, <2>1, <2>2, <2>5 DEF IInv, NbrInv, TypeOK, EnterTypeOK, PendTypeOK, IfcTypeOK
<1>10. CASE ElectionDue(i)
  <2>1. IfcTypeOK' /\ UNCHANGED <<ifcVars, loop>>
    BY <1>1, <1>10 DEF ElectionDue, IfcTypeOK, TypeOK, ifcVars
  <2>2. Control'
    BY <1>1, <1>10 DEF ElectionDue, Control, Idle, NoLoop, ifcVars
  <2>3. \A m \in Nbr \ loop'.left : Settled(m)'
    BY <1>7, <2>1, WantedStable DEF IInv
  <2> QED  BY <1>3, <1>4, <1>6, <2>1, <2>2, <2>3 DEF IInv, NbrInv, TypeOK, EnterTypeOK, PendTypeOK, IfcTypeOK
<1>11. CASE ifa_elect(i)
  <2>0. nchg = i /\ loop = NoLoop /\ ~ticking
    BY <1>1, <1>11, ConstAssumption DEF ifa_elect, Control
  <2>1. PICK self \in BOOLEAN, D \in SUBSET {n \in NbrsOf(i) : n_state[n] >= NBS_2WAY} :
           /\ self_dr' = [self_dr EXCEPT ![i] = self]
           /\ drs' = [drs EXCEPT ![i] = D]
           /\ \/ self = self_dr[i] /\ D = drs[i] /\ UNCHANGED loop
              \/ NbrsOf(i) = {} /\ UNCHANGED loop
              \/ NbrsOf(i) # {} /\ loop' = [event |-> "EVAL", left |-> NbrsOf(i)]
    BY <1>11 DEF ifa_elect
  <2>2. /\ if_state' = [if_state EXCEPT ![i] = "Multi"]
        /\ nchg' = NoIfc /\ ticking' = ticking
    BY <1>11 DEF ifa_elect
  <2>3. IfcTypeOK'
    BY <1>1, <1>5, <2>1, <2>2 DEF IfcTypeOK, TypeOK
  <2>4. Control'
    BY <2>0, <2>1, <2>2 DEF Control, NoLoop
  <2>5. \A m \in Nbr : m \notin NbrsOf(i) => (adjacency_wanted(m)' <=> adjacency_wanted(m))
    BY <1>1, <2>1 DEF adjacency_wanted, NbrsOf, TypeOK
  <2>6. \A m \in Nbr : m \notin loop'.left => (adjacency_wanted(m)' <=> adjacency_wanted(m))
    BY <1>1, <2>1, <2>5 DEF adjacency_wanted, TypeOK
  <2>7. \A m \in Nbr : Settled(m)
    BY <2>0 DEF IInv, NoLoop
  <2>8. \A m \in Nbr \ loop'.left : Settled(m)'
    BY <1>7, <2>6, <2>7
  <2> QED  BY <1>3, <1>4, <1>6, <2>3, <2>4, <2>8 DEF IInv, NbrInv, TypeOK, EnterTypeOK, PendTypeOK, IfcTypeOK
<1> QED  BY <1>8, <1>9, <1>10, <1>11

LEMMA TickKeeps ==
    ASSUME IInv, TickStart \/ TickEnd
    PROVE  IInv'
<1>1. NbrInv /\ Control /\ TypeOK
  BY DEF IInv, NbrInv
<1>2. UNCHANGED <<nbrVars, countVars, ifcVars, nchg, loop>> /\ ticking' \in BOOLEAN
  BY DEF TickStart, TickEnd
<1>3. TypeOK'
  BY <1>1, <1>2 DEF TypeOK, nbrVars, countVars, ifcVars
<1>4. Counted'
  BY <1>1, <1>2, RestCounts DEF NbrInv, NbrRests, nbrVars
<1>5. PendingListSound'
  BY <1>1, <1>2 DEF NbrInv, PendingListSound, nbrVars
<1>6. Control'
  BY <1>1, <1>2 DEF TickStart, TickEnd, Control, Idle, ifcVars
<1>7. \A n \in Nbr \ loop'.left : Settled(n)'
  BY <1>2, WantedStable DEF IInv, Settled, nbrVars
<1> QED  BY <1>3, <1>4, <1>5, <1>6, <1>7 DEF IInv, NbrInv

LEMMA StutterKeeps == ASSUME IInv, UNCHANGED vars PROVE IInv'
<1>1. NbrInv /\ Control /\ UNCHANGED <<nbrVars, countVars, ifcVars, nchg, loop, ticking>>
  BY DEF IInv, vars
<1>2. TypeOK'
  BY <1>1 DEF NbrInv, TypeOK, nbrVars, countVars, ifcVars
<1>3. Counted'
  BY <1>1, RestCounts DEF NbrInv, NbrRests, nbrVars
<1>4. PendingListSound'
  BY <1>1 DEF NbrInv, PendingListSound, nbrVars
<1>5. Control'
  BY <1>1 DEF Control, ifcVars
<1>6. \A n \in Nbr \ loop'.left : Settled(n)'
  BY <1>1, WantedStable DEF IInv, Settled, nbrVars
<1> QED  BY <1>2, <1>3, <1>4, <1>5, <1>6 DEF IInv, NbrInv

LEMMA StepInv == IInv /\ [Next]_vars => IInv'
<1> SUFFICES ASSUME IInv, [Next]_vars PROVE IInv'
  OBVIOUS
<1>1. ASSUME NEW n \in Nbr,
             \/ HelloReceived(n) \/ TwoWayReceived(n) \/ OneWayReceived(n)
             \/ DDReceived(n) \/ NegotiationDone(n) \/ ExchangeDone(n)
             \/ LoadingDone(n) \/ BadSeqNoOrRequest(n) \/ AdjacencyTimeout(n)
             \/ Reevaluate(n) \/ NbrDown(n)
      PROVE  IInv'
  BY <1>1, NbrEventKeeps
<1>2. ASSUME NEW n \in Nbr, VisitNbr(n)
      PROVE  IInv'
  BY <1>2, VisitKeeps
<1>3. ASSUME NEW i \in Ifc, IfcUp(i) \/ IfcDown(i) \/ ElectionDue(i) \/ ifa_elect(i)
      PROVE  IInv'
  BY <1>3, IfcEventKeeps
<1>4. CASE TickServe
  BY <1>4, ServeKeeps
<1>5. CASE TickStart \/ TickEnd
  BY <1>5, TickKeeps
<1>6. CASE UNCHANGED vars
  BY <1>6, StutterKeeps
<1> QED  BY <1>1, <1>2, <1>3, <1>4, <1>5, <1>6 DEF Next

\* The invariant holds in every reachable state.
THEOREM Invariance == Spec => []IInv
<1>1. Init => IInv
  BY InitInv
<1>2. IInv /\ [Next]_vars => IInv'
  BY StepInv
<1> QED  BY <1>1, <1>2, PTL DEF Spec

-----------------------------------------------------------------------------
(* The results.                                                            *)

\* Type correctness of the neighbour machine.
THEOREM TypeCorrect == Spec => []TypeOK
<1>1. IInv => TypeOK
  BY DEF IInv, NbrInv
<1> QED  BY <1>1, Invariance, PTL

\* No exchange slot is leaked or given back twice, and no more than max_dds
\* of each kind are out at once.
THEOREM Throttle == Spec => []SlotsRespected
<1>1. IInv => SlotsRespected
  BY DEF IInv, NbrInv, Counted, SlotsRespected
<1> QED  BY <1>1, Invariance, PTL

\* The counters that maxage_free() and nl_raw_orig() read are exact.
THEOREM CountersExact == Spec => []CountsExact
<1>1. IInv => CountsExact
  BY DEF IInv, NbrInv, Counted, CountsExact
<1> QED  BY <1>1, Invariance, PTL

\* The pending list has no duplicate, no stray and no freed neighbour.
THEOREM PendingSound == Spec => []PendingListSound
<1>1. IInv => PendingListSound
  BY DEF IInv, NbrInv
<1> QED  BY <1>1, Invariance, PTL

\* A slot is held exactly while the timer that takes it back is running.
THEOREM Timed == Spec => []ExchangeIsTimed
<1>1. IInv => ExchangeIsTimed
  BY DEF IInv, NbrInv, Counted
<1> QED  BY <1>1, Invariance, PTL

\* Every neighbour has, or waits for, what the election wants of it.
THEOREM ElectionHonoured == Spec => []AsElected
<1>1. IInv => AsElected
  BY DEF IInv, Settled, AsElected, NotStranded, AdjacencyJustified
<1> QED  BY <1>1, Invariance, PTL

-----------------------------------------------------------------------------
(* The order of the pending list.                                          *)

\* What PendingIsFIFO says of one step.
InOrder ==
    \A a, b \in Nbr :
        /\ n_adj_pend[a] /\ n_adj_pend'[a] /\ n_adj_pend'[b]
        /\ a # b
        /\ n_adj_pend[b] => Before(pend, a, b)
        => Before(pend', a, b)

LEMMA UnlinkKeepsOrder ==
    ASSUME NEW s \in Seq(Nbr), NEW n \in Nbr, NEW c \in DOMAIN s, s[c] = n,
           \A j, k \in DOMAIN s : s[j] = s[k] => j = k,
           NEW a \in Nbr \ {n}, NEW b \in Nbr \ {n}, Before(s, a, b)
    PROVE  Before(Unlink(s, n), a, b)
<1> DEFINE u == Unlink(s, n)
           To(j) == IF j < c THEN j ELSE j - 1
<1>1. DOMAIN s = 1..Len(s) /\ Len(s) \in Nat /\ c \in 1..Len(s)
  OBVIOUS
<1>2. DOMAIN u = 1..(Len(s) - 1) /\ \A j \in DOMAIN u : u[j] = s[IF j < c THEN j ELSE j + 1]
  BY UnlinkCell
<1>3. PICK j \in DOMAIN s, k \in DOMAIN s : j < k /\ s[j] = a /\ s[k] = b
  BY DEF Before
<1>4. j # c /\ k # c
  BY <1>3
<1> HIDE DEF u
<1>5. To(j) \in DOMAIN u /\ To(k) \in DOMAIN u /\ To(j) < To(k)
  BY <1>1, <1>2, <1>3, <1>4
<1>6. (IF To(j) < c THEN To(j) ELSE To(j) + 1) = j /\ (IF To(k) < c THEN To(k) ELSE To(k) + 1) = k
  BY <1>1, <1>4
<1>7. u[To(j)] = a /\ u[To(k)] = b
  BY <1>2, <1>3, <1>5, <1>6
<1> QED  BY <1>5, <1>7 DEF Before, u

LEMMA AppendKeepsOrder ==
    ASSUME NEW s \in Seq(Nbr), NEW n \in Nbr, NEW a \in Nbr, NEW k \in DOMAIN s, s[k] = a
    PROVE  /\ Before(Append(s, n), a, n)
           /\ \A b : Before(s, a, b) => Before(Append(s, n), a, b)
<1> DEFINE u == Append(s, n)
<1>1. DOMAIN s = 1..Len(s) /\ Len(s) \in Nat /\ DOMAIN u = 1..(Len(s) + 1)
  OBVIOUS
<1>2. u[Len(s) + 1] = n /\ \A j \in DOMAIN s : u[j] = s[j]
  OBVIOUS
<1> HIDE DEF u
<1>3. k < Len(s) + 1 /\ Len(s) + 1 \in DOMAIN u /\ \A j \in DOMAIN s : j \in DOMAIN u
  BY <1>1
<1>4. Before(u, a, n)
  BY <1>2, <1>3 DEF Before
<1>5. \A b : Before(s, a, b) => Before(u, a, b)
  BY <1>2, <1>3 DEF Before
<1> QED  BY <1>4, <1>5 DEF u

\* Each operation on the list keeps the order.
LEMMA DelPendAdjInOrder ==
    ASSUME NbrInv, NEW n \in Nbr, DelPendAdj(n)
    PROVE  InOrder
<1>1. pend \in Seq(Nbr) /\ n_adj_pend \in [Nbr -> BOOLEAN]
  BY DEF NbrInv, TypeOK
<1>2. ListMatches(n_adj_pend, pend)
  BY DEF NbrInv, PendingListSound, ListMatches
<1>3. CASE n_adj_pend[n]
  <2>1. PICK c \in DOMAIN pend : pend[c] = n
    BY <1>2, <1>3 DEF ListMatches
  <2>2. pend' = Unlink(pend, n) /\ n_adj_pend' = [n_adj_pend EXCEPT ![n] = FALSE]
    BY <1>3 DEF DelPendAdj
  <2>3. SUFFICES ASSUME NEW a \in Nbr, NEW b \in Nbr, n_adj_pend'[a], n_adj_pend'[b],
                        n_adj_pend[b] => Before(pend, a, b)
                 PROVE  Before(pend', a, b)
    BY DEF InOrder
  <2>4. a # n /\ b # n /\ Before(pend, a, b)
    BY <1>1, <2>2, <2>3
  <2> QED  BY <1>1, <1>2, <2>1, <2>2, <2>4, UnlinkKeepsOrder DEF ListMatches
<1>4. CASE ~n_adj_pend[n]
  <2>1. pend' = pend /\ \A b \in Nbr : n_adj_pend'[b] => n_adj_pend[b]
    BY <1>1, <1>4 DEF DelPendAdj
  <2> QED  BY <2>1 DEF InOrder
<1> QED  BY <1>3, <1>4

LEMMA AddPendAdjInOrder ==
    ASSUME NbrInv, NEW n \in Nbr, AddPendAdj(n)
    PROVE  InOrder
<1>1. pend \in Seq(Nbr) /\ n_adj_pend' = [n_adj_pend EXCEPT ![n] = TRUE]
      /\ n_adj_pend \in [Nbr -> BOOLEAN]
  BY DEF NbrInv, TypeOK, AddPendAdj
<1>2. ListMatches(n_adj_pend, pend)
  BY DEF NbrInv, PendingListSound, ListMatches
<1>3. SUFFICES ASSUME NEW a \in Nbr, NEW b \in Nbr, n_adj_pend[a], n_adj_pend'[b],
                      n_adj_pend[b] => Before(pend, a, b)
               PROVE  Before(pend', a, b)
  BY DEF InOrder
<1>4. PICK k \in DOMAIN pend : pend[k] = a
  BY <1>2, <1>3 DEF ListMatches
<1>5. CASE n_adj_pend[n]
  BY <1>1, <1>3, <1>5 DEF AddPendAdj
<1>6. CASE ~n_adj_pend[n]
  <2>1. pend' = Append(pend, n) /\ (b = n \/ Before(pend, a, b))
    BY <1>1, <1>3, <1>6 DEF AddPendAdj
  <2> QED  BY <1>1, <1>4, <2>1, AppendKeepsOrder
<1> QED  BY <1>5, <1>6

LEMMA KeepPendInOrder == ASSUME KeepPend PROVE InOrder
  BY DEF KeepPend, InOrder

\* nba_clr_lists() finds a neighbour that has left 2-Way off the list.
LEMMA ClrThenPendInOrder ==
    ASSUME NbrInv, NEW n \in Nbr, n_state[n] # NBS_2WAY, ClrThenPend(n)
    PROVE  InOrder
<1>1. ~n_adj_pend[n]
  BY DEF NbrInv, PendingListSound
<1>2. AddPendAdj(n)
  BY <1>1 DEF ClrThenPend, AddPendAdj
<1> QED  BY <1>2, AddPendAdjInOrder

LEMMA EvalInOrder ==
    ASSUME NbrInv, NEW n \in Nbr, DoEval(n) \/ nba_eval1(n) \/ nba_eval2(n) \/ nba_delete(n)
    PROVE  InOrder
<1>1. DelPendAdj(n) \/ AddPendAdj(n) \/ KeepPend
  BY DEF DoEval, nba_eval1, nba_eval2, nba_reeval, nba_delete, NothingChanges, nbrVars, KeepPend
<1> QED  BY <1>1, DelPendAdjInOrder, AddPendAdjInOrder, KeepPendInOrder

LEMMA StepInOrder == IInv /\ [Next]_vars => InOrder
<1> SUFFICES ASSUME IInv, [Next]_vars PROVE InOrder
  OBVIOUS
<1>1. NbrInv
  BY DEF IInv
<1>2. ASSUME NEW n \in Nbr,
             \/ TwoWayReceived(n) \/ DDReceived(n) \/ Reevaluate(n) \/ NbrDown(n)
             \/ VisitNbr(n)
      PROVE  InOrder
  <2>1. DoEval(n) \/ nba_eval1(n) \/ nba_eval2(n) \/ nba_delete(n)
    BY <1>2 DEF TwoWayReceived, DDReceived, Reevaluate, NbrDown, VisitNbr
  <2> QED  BY <1>1, <2>1, EvalInOrder
<1>3. ASSUME NEW n \in Nbr,
             \/ HelloReceived(n) \/ NegotiationDone(n) \/ ExchangeDone(n) \/ LoadingDone(n)
      PROVE  InOrder
  BY <1>3, KeepPendInOrder DEF HelloReceived, NegotiationDone, ExchangeDone, LoadingDone
<1>4. ASSUME NEW n \in Nbr, OneWayReceived(n)
      PROVE  InOrder
  BY <1>1, <1>4, DelPendAdjInOrder DEF OneWayReceived
<1>5. ASSUME NEW n \in Nbr, BadSeqNoOrRequest(n) \/ AdjacencyTimeout(n)
      PROVE  InOrder
  <2>1. \/ n_state[n] # NBS_2WAY /\ ClrThenPend(n)
        \/ KeepPend
    BY <1>5 DEF BadSeqNoOrRequest, AdjacencyTimeout, FloodState, AdjForm, DbxState, KeepPend,
       NBS_2WAY, NBS_EXST, NBS_EXCH, NBS_LOAD, NBS_FULL
  <2> QED  BY <1>1, <2>1, ClrThenPendInOrder, KeepPendInOrder
<1>6. CASE TickServe
  BY <1>1, <1>6, ServePops, DelPendAdjInOrder
<1>7. CASE \/ \E i \in Ifc : IfcUp(i) \/ IfcDown(i) \/ ElectionDue(i) \/ ifa_elect(i)
           \/ TickStart \/ TickEnd \/ UNCHANGED vars
  <2>1. KeepPend
    BY <1>7 DEF IfcUp, IfcDown, ElectionDue, ifa_elect, TickStart, TickEnd, vars, nbrVars, KeepPend
  <2> QED  BY <2>1, KeepPendInOrder
<1> QED  BY <1>2, <1>3, <1>4, <1>5, <1>6, <1>7 DEF Next

(* The list of neighbours that wait for an exchange slot is a queue: who   *)
(* stays on it is never overtaken, and who joins it goes behind the others *)
(* (AddPendAdj, DelPendAdj and GetNextAdj, nbrfsm.C).                      *)
THEOREM QueueIsFIFO == Spec => PendingIsFIFO
<1>1. IInv /\ [Next]_vars => [InOrder]_vars
  BY StepInOrder
<1> QED  BY <1>1, Invariance, PTL DEF Spec, PendingIsFIFO, InOrder
=============================================================================
