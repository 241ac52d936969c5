------------------------------ MODULE LsaRxmt ------------------------------
(***************************************************************************)
(* The retransmission lists of spfack.C: for each neighbour the LSAs that  *)
(* were flooded to it and not acknowledged yet, kept on three lists        *)
(* (flooded, just retransmitted, retransmitted in vain) with a count of    *)
(* all three, a window and a timer; and for each LSA the number of lists   *)
(* it is on, on which its removal from the database depends.               *)
(*                                                                         *)
(* A list points at LSA objects.  An object that anything points at is     *)
(* not overwritten: a new instance gets an object of its own, and the old  *)
(* one stays on the lists, invalid, until they are cleaned.                *)
(*                                                                         *)
(* Init, Next and the like have names of their own here, so that a run can *)
(* extend this module along with Flooding.                                 *)
(***************************************************************************)
EXTENDS Integers, Sequences, FiniteSets, SequencesExt, Selection

CONSTANTS
  Nbr,         \* neighbours
  Id,          \* LSAs, by LS type, link state ID and advertising router
  NULL,        \* no LSA, no neighbour
  Copies,      \* bound: objects of one LSA at the same time
  PktSize,     \* LSAs that fit in an Update
  MaxWindow,   \* OSPF::max_rxmt_window
  MaxInstalls  \* bound: instances installed

Object == Id \X (1..Copies)

ASSUME LsaRxmtAssumption ==
  /\ IsFiniteSet(Nbr) /\ IsFiniteSet(Id) /\ NULL \notin Nbr \cup Object
  /\ {Copies, PktSize, MaxWindow} \subseteq Nat \ {0} /\ MaxInstalls \in Nat

VARIABLES
  nbr,         \* the neighbours' records
  db,          \* the object that is in the database
  lsa_rxmt,    \* LSA::lsa_rxmt
  maxage,      \* objects of age MaxAge
  ripe,        \* objects held for RxmtInterval (since_received())
  installs     \* instances installed so far

listVars == <<nbr, db, lsa_rxmt, maxage, ripe, installs>>

(* The states of a neighbour that matter here: below Exchange, describing  *)
(* the database (Exchange or Loading), and Full.                           *)
NbrRecord == [state : {"Below", "Exchange", "Full"}, ddlst : SUBSET Object,
              rxlst : Seq(Object), pend : Seq(Object), failed : Seq(Object),
              rxmt_count : Nat, window : 1..MaxWindow, timer : BOOLEAN]

NewNbr == [state |-> "Below", ddlst |-> {}, rxlst |-> <<>>, pend |-> <<>>,
           failed |-> <<>>, rxmt_count |-> 0, window |-> 1, timer |-> FALSE]

OnLists(b) == ToSet(b.rxlst) \cup ToSet(b.pend) \cup ToSet(b.failed)

ListsType ==
  /\ nbr \in [Nbr -> NbrRecord]
  /\ \A n \in Nbr : Len(nbr[n].rxlst) + Len(nbr[n].pend) + Len(nbr[n].failed)
                      <= Cardinality(Object)
  /\ db \in [Id -> Object \cup {NULL}]
  /\ \A i \in Id : db[i] # NULL => db[i][1] = i
  /\ lsa_rxmt \in [Object -> 0..Cardinality(Nbr)]
  /\ maxage \subseteq Object /\ ripe \subseteq Object
  /\ installs \in 0..MaxInstalls

valid(o) == db[o[1]] = o

Referenced(N) == UNION {OnLists(N[n]) \cup N[n].ddlst : n \in Nbr}

ListsInit ==
  /\ nbr = [n \in Nbr |-> NewNbr]
  /\ db = [i \in Id |-> NULL]
  /\ lsa_rxmt = [o \in Object |-> 0]
  /\ maxage = {} /\ ripe = {}
  /\ installs = 0

-----------------------------------------------------------------------------
(* LsaList *)
Without(s, o) == Keep(s, ToSet(s) \ {o})

garbage_collect(s) == Keep(s, {o \in ToSet(s) : valid(o)})

(* A list whose first element is valid, which is how get_next_rxmt() leaves *)
(* the lists it looks into.                                                 *)
FromFirstValid(s) ==
  IF \E i \in DOMAIN s : valid(s[i])
  THEN LET i == CHOOSE j \in DOMAIN s :
                  valid(s[j]) /\ \A k \in 1..(j - 1) : ~valid(s[k])
       IN  SubSeq(s, i, Len(s))
  ELSE <<>>

WithRxlst(b, s)  == [b EXCEPT !.rxlst = s, !.rxmt_count = @ - (Len(b.rxlst) - Len(s))]
WithFailed_Uncounted(b, s) == [b EXCEPT !.failed = s]

WithFailed(b, s) == [b EXCEPT !.failed = s, !.rxmt_count = @ - (Len(b.failed) - Len(s))]

start_timer(b) == [b EXCEPT !.timer = TRUE]

(* The LSA to retransmit next: the oldest one flooded, if it has been held *)
(* for RxmtInterval, otherwise the first of those that failed.  wait says  *)
(* that the flooded ones are too young.                                    *)
get_next_rxmt(b) ==
  LET b1    == WithRxlst(b, FromFirstValid(b.rxlst))
      ready == b1.rxlst # <<>> /\ Head(b1.rxlst) \in ripe
      b2    == IF ready THEN b1 ELSE WithFailed(b1, FromFirstValid(b1.failed))
  IN  [nbr  |-> b2,
       wait |-> b1.rxlst # <<>> /\ ~ready,
       lsa  |-> IF ready THEN Head(b2.rxlst)
                ELSE IF b2.failed # <<>> THEN Head(b2.failed) ELSE NULL]

(* The chosen LSA goes from its list to the pending list. *)
ToPending(b, o) ==
  [b EXCEPT !.rxlst = Without(@, o), !.failed = Without(@, o), !.pend = Append(@, o)]

(* One turn of the loop of rxmt_updates(); st.pkts counts the packets begun *)
(* and st.space the room in the last one.                                   *)
FillTurn(st) ==
  LET g    == get_next_rxmt(st.nbr)
      pkts == IF st.space = 0 THEN st.pkts + 1 ELSE st.pkts
  IN  IF g.lsa = NULL
      THEN [st EXCEPT !.nbr = g.nbr, !.wait = g.wait, !.more = FALSE]
      ELSE IF pkts > st.nbr.window
      THEN [st EXCEPT !.nbr = g.nbr, !.pkts = pkts, !.more = FALSE]
      ELSE [st EXCEPT !.nbr = ToPending(g.nbr, g.lsa), !.pkts = pkts,
                      !.space = (IF @ = 0 THEN PktSize ELSE @) - 1]

rxmt_updates(b) ==
  LET n == Len(b.rxlst) + Len(b.failed) + 1
      turn[i \in 0..n] ==
        IF i = 0 THEN [nbr |-> b, pkts |-> 0, space |-> 0, wait |-> FALSE, more |-> TRUE]
        ELSE IF turn[i - 1].more THEN FillTurn(turn[i - 1]) ELSE turn[i - 1]
      end == turn[n]
  IN  IF end.pkts > 0 \/ end.wait THEN start_timer(end.nbr) ELSE end.nbr

(* The last pending retransmission is acknowledged: the window doubles and *)
(* the next ones are sent at once.                                         *)
remove_from_pending_rxmt_NoRestart(b, o) ==
  LET b1 == [b EXCEPT !.pend = Without(@, o)]
  IN  IF b1.pend # <<>> THEN b1
      ELSE [b1 EXCEPT !.window = IF 2 * @ > MaxWindow THEN MaxWindow ELSE 2 * @,
                      !.timer = FALSE]

remove_from_pending_rxmt(b, o) ==
  LET b1 == [b EXCEPT !.pend = Without(@, o)]
  IN  IF b1.pend # <<>> THEN b1
      ELSE rxmt_updates([b1 EXCEPT !.window = IF 2 * @ > MaxWindow THEN MaxWindow ELSE 2 * @,
                                   !.timer = FALSE])

remove_from_rxlist(b, o) ==
  LET b1 == IF o \in ToSet(b.rxlst) THEN [b EXCEPT !.rxlst = Without(@, o)]
            ELSE IF o \in ToSet(b.pend) THEN remove_from_pending_rxmt(b, o)
            ELSE [b EXCEPT !.failed = Without(@, o)]
  IN  [b1 EXCEPT !.rxmt_count = @ - 1]

add_to_rxlist(b, o) ==
  LET b1 == [b EXCEPT !.rxlst = Append(@, o), !.rxmt_count = @ + 1]
  IN  IF b1.rxmt_count = 1 THEN start_timer(b1) ELSE b1

clear_rxmt_list(b) ==
  [b EXCEPT !.rxlst = <<>>, !.pend = <<>>, !.failed = <<>>, !.rxmt_count = 0,
            !.window = 1, !.timer = FALSE]

-----------------------------------------------------------------------------
(* The fields of an object that is no longer in the database are not read  *)
(* any more; they are reset here.                                          *)
Update(N, D, X, M, R) ==
  LET live == {D[i] : i \in Id}
  IN  /\ nbr' = N
      /\ db' = D
      /\ lsa_rxmt' = [o \in Object |-> IF o \in live THEN X[o] ELSE 0]
      /\ maxage' = M \cap live
      /\ ripe' = R \cap live

(* The object of a new instance: the database's own if nothing points at   *)
(* it, MaxAge_list included, otherwise a new one (the first free of the    *)
(* bounded number).                                                        *)
NewObject(i, busy) ==
  {<<i, k>> : k \in {m \in 1..Copies : <<i, m>> \notin busy /\
                                       \A l \in 1..(m - 1) : <<i, l>> \in busy}}

ObjectFor(i) ==
  IF db[i] # NULL /\ db[i] \notin Referenced(nbr) \cup maxage THEN {db[i]}
  ELSE NewObject(i, Referenced(nbr) \cup {db[i]})

(* AddLSA() and flood(): the instance is put on the list of every          *)
(* neighbour that is at least in Exchange, but for the one it came from    *)
(* and those that have it, as it answers a request made of them.           *)
Flood(i, from, old) ==
  \E o \in ObjectFor(i), has \in SUBSET {n \in Nbr : nbr[n].state = "Exchange"} :
    LET to == {n \in Nbr \ has : nbr[n].state # "Below" /\ n # from}
    IN  Update([n \in Nbr |-> IF n \in to THEN add_to_rxlist(nbr[n], o) ELSE nbr[n]],
                  [db EXCEPT ![i] = o],
                  [lsa_rxmt EXCEPT ![o] = Cardinality(to)],
                  IF old THEN maxage \cup {o} ELSE maxage \ {o},
                  ripe \ {o})

(* An instance is received from a neighbour or originated here.  One that  *)
(* is MaxAge is flushed here only if it is in the database, and received   *)
(* otherwise only while a database is being described.                     *)
Install(i, from, old) ==
  /\ installs < MaxInstalls
  /\ from # NULL => nbr[from].state # "Below"
  /\ old /\ db[i] = NULL =>
       from # NULL /\ \E n \in Nbr : nbr[n].state = "Exchange"
  /\ Flood(i, from, old)
  /\ installs' = installs + 1

(* A neighbour acknowledges the database's instance, by an Acknowledgment  *)
(* or by sending it; for any other instance nothing happens.               *)
recv_ack_hdr(n, i) ==
  /\ nbr[n].state # "Below"
  /\ db[i] # NULL
  /\ db[i] \in OnLists(nbr[n])
  /\ Update([nbr EXCEPT ![n] = remove_from_rxlist(@, db[i])], db,
               [lsa_rxmt EXCEPT ![db[i]] = @ - 1], maxage, ripe)
  /\ UNCHANGED installs

(* A neighbour enters Exchange with a list of the whole database. *)
NegotiationDone(n) ==
  /\ nbr[n].state = "Below"
  /\ Update([nbr EXCEPT ![n].state = "Exchange",
                           ![n].ddlst = {db[i] : i \in Id} \ {NULL}],
               db, lsa_rxmt, maxage, ripe)
  /\ UNCHANGED installs

(* send_dd() takes an object from the list: an invalid one is skipped, one *)
(* of age MaxAge is sent and retransmitted, another is described.          *)
send_dd_SkipsCount(n, o) ==
  LET b == [nbr[n] EXCEPT !.ddlst = @ \ {o}]
      dying == valid(o) /\ o \in maxage
  IN  /\ o \in nbr[n].ddlst
      /\ Update([nbr EXCEPT ![n] = IF dying THEN add_to_rxlist(b, o) ELSE b], db,
                   lsa_rxmt, maxage, ripe)
      /\ UNCHANGED installs

send_dd(n, o) ==
  LET b == [nbr[n] EXCEPT !.ddlst = @ \ {o}]
      dying == valid(o) /\ o \in maxage
  IN  /\ o \in nbr[n].ddlst
      /\ Update([nbr EXCEPT ![n] = IF dying THEN add_to_rxlist(b, o) ELSE b], db,
                   IF dying THEN [lsa_rxmt EXCEPT ![o] = @ + 1] ELSE lsa_rxmt,
                   maxage, ripe)
      /\ UNCHANGED installs

LoadingDone(n) ==
  /\ nbr[n].state = "Exchange"
  /\ nbr[n].ddlst = {}
  /\ nbr' = [nbr EXCEPT ![n].state = "Full"]
  /\ UNCHANGED <<db, lsa_rxmt, maxage, ripe, installs>>

(* A neighbour falls below Exchange: nba_clr_lists(). *)
NbrDown(n) ==
  /\ nbr[n].state # "Below"
  /\ Update([nbr EXCEPT ![n] = [clear_rxmt_list(@) EXCEPT !.state = "Below", !.ddlst = {}]],
               db,
               [o \in Object |-> IF o \in OnLists(nbr[n]) THEN lsa_rxmt[o] - 1 ELSE lsa_rxmt[o]],
               maxage, ripe)
  /\ UNCHANGED installs

(* The timer has fired: what was pending has failed, the window closes and *)
(* retransmission goes on; invalid objects are removed from the lists.     *)
TimerAction(b) ==
  LET b1 == [b EXCEPT !.timer = FALSE, !.failed = @ \o b.pend, !.pend = <<>>]
      g  == get_next_rxmt(b1)
      b2 == rxmt_updates(IF g.lsa = NULL THEN g.nbr ELSE [g.nbr EXCEPT !.window = 1])
      b3 == WithRxlst(b2, garbage_collect(b2.rxlst))
  IN  WithFailed(b3, garbage_collect(b3.failed))

LsaRxmtTimer(n) ==
  /\ nbr[n].timer
  /\ Update([nbr EXCEPT ![n] = TimerAction(@)], db, lsa_rxmt, maxage, ripe)
  /\ UNCHANGED installs

(* A second passes that makes an object old enough to be retransmitted. *)
Ripen(o) ==
  /\ valid(o) /\ o \notin ripe
  /\ ripe' = ripe \cup {o}
  /\ UNCHANGED <<nbr, db, lsa_rxmt, maxage, installs>>

(* free_maxage_lsas(): an LSA of age MaxAge that no neighbour has still to *)
(* acknowledge leaves the database, unless a database is being described.  *)
MayFree_AnyTime(i) == lsa_rxmt[db[i]] = 0

MayFree(i) ==
  /\ lsa_rxmt[db[i]] = 0
  /\ \A n \in Nbr : nbr[n].state # "Exchange"

FreeMaxAge(i) ==
  /\ db[i] \in maxage
  /\ MayFree(i)
  /\ Update(nbr, [db EXCEPT ![i] = NULL], lsa_rxmt, maxage, ripe)
  /\ UNCHANGED installs

ListsNext ==
  \/ \E i \in Id, from \in Nbr \cup {NULL}, old \in BOOLEAN : Install(i, from, old)
  \/ \E n \in Nbr : \E i \in Id : recv_ack_hdr(n, i)
  \/ \E n \in Nbr : \E o \in nbr[n].ddlst : send_dd(n, o)
  \/ \E n \in Nbr : NegotiationDone(n) \/ LoadingDone(n) \/ NbrDown(n) \/ LsaRxmtTimer(n)
  \/ \E o \in Object : Ripen(o)
  \/ \E i \in Id : FreeMaxAge(i)

(* A timer that is started again and again, and would change something,    *)
(* fires: strong fairness of LsaRxmtTimer(n), its enabling condition spelt *)
(* out.                                                                    *)
TimerFires(n) ==
  []<>(nbr[n].timer /\ TimerAction(nbr[n]) # nbr[n]) => []<><<LsaRxmtTimer(n)>>_listVars

ListsFairness ==
  /\ \A n \in Nbr : TimerFires(n)
  /\ \A o \in Object : WF_listVars(Ripen(o))

ListsSpec == ListsInit /\ [][ListsNext]_listVars /\ ListsFairness

-----------------------------------------------------------------------------
(* What a neighbour has still to acknowledge, as the database sees it. *)
Waiting(n, i) == db[i] # NULL /\ db[i] \in OnLists(nbr[n])

(* rxmt_count, adjusted in six places, is the length of the three lists.   *)
CountIsExact ==
  \A n \in Nbr : nbr[n].rxmt_count =
                   Len(nbr[n].rxlst) + Len(nbr[n].pend) + Len(nbr[n].failed)

(* An object is on one list of a neighbour at most, and once: remove()     *)
(* stops at the first place it finds.                                      *)
OnOneList ==
  \A n \in Nbr : Cardinality(OnLists(nbr[n])) =
                   Len(nbr[n].rxlst) + Len(nbr[n].pend) + Len(nbr[n].failed)

(* lsa_rxmt of an LSA in the database is the number of neighbours that     *)
(* have to acknowledge it, though invalid objects leave the lists without  *)
(* being counted.                                                          *)
RxmtIsExact ==
  \A i \in Id : db[i] # NULL =>
    lsa_rxmt[db[i]] = Cardinality({n \in Nbr : Waiting(n, i)})

(* While something is to be acknowledged the timer runs: it is stopped and *)
(* started by hand on every path.                                          *)
TimerRuns == \A n \in Nbr : nbr[n].rxmt_count > 0 => nbr[n].timer

(* Three accounts of what is to be acknowledged agree, the lists of every  *)
(* neighbour, the neighbour's rxmt_count, and the LSA's lsa_rxmt, which    *)
(* decides whether the LSA may be freed; and the timer runs by them.       *)
ListsConsistent == ListsType /\ CountIsExact /\ OnOneList /\ RxmtIsExact /\ TimerRuns

(* A MaxAge LSA leaves the database only when no neighbour that might hold *)
(* the previous instance has still to hear of it: none waits for it, and   *)
(* none has a description of the database outstanding.                     *)
FlushedEverywhere ==
  [][\A i \in Id : db[i] # NULL /\ db'[i] = NULL =>
       \A n \in Nbr : ~Waiting(n, i) /\ db[i] \notin nbr[n].ddlst]_listVars

(* An instance that waits for an acknowledgment is retransmitted in time:  *)
(* neither the window nor other LSAs keep it from being sent.              *)
Retransmitted ==
  \A n \in Nbr, i \in Id :
    []<>(~Waiting(n, i) \/ db[i] \in ToSet(nbr[n].pend))
=============================================================================
