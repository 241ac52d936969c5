------------------------------ MODULE LsaLife ------------------------------
(***************************************************************************)
(* The life of one LSA that this router originates, a network-LSA: it is   *)
(* originated when its contents change, put off if the last instance is    *)
(* younger than MinLSInterval, refreshed, corrected when an instance of it *)
(* comes back from the network, flushed when it is not wanted any more or  *)
(* when its sequence number cannot grow, and withdrawn at shutdown.        *)
(*                                                                         *)
(* The database's copy is a record db; the functions of spforig.C, lsdb.C  *)
(* and dbage.C that pass it on are operators from copy to copy, nested as  *)
(* the calls are.  A body is a number that is its checksum too.  The       *)
(* neighbours are represented by what the LSA can tell of them: whether    *)
(* there are any to flood to and whether one is describing its database.   *)
(***************************************************************************)
EXTENDS Integers, FiniteSets

CONSTANTS
  Body,           \* the contents the LSA may have
  None,           \* no LSA
  MaxLSSeq,       \* the largest sequence number; InitLSSeq is 1
  MinLSInterval, LSRefreshTime, MaxAge, MaxAgeDiff,
  MaxCountdown,   \* seconds granted to a shutdown
  MaxChanges,     \* bound: changes of the contents
  MaxOld,         \* bound: instances that come back from the network
  MaxRestarts     \* bound: restarts of the router

Copy == [seq : 0..MaxLSSeq, body : Body, age : 0..MaxAge, deferring : BOOLEAN,
         rollover : BOOLEAN, unacked : BOOLEAN, listed : BOOLEAN]

ASSUME LsaLifeAssumption ==
  /\ Body \subseteq Nat /\ IsFiniteSet(Body) /\ None \notin Body \cup Copy
  /\ MaxLSSeq \in Nat /\ MaxLSSeq > 1
  /\ 0 < MinLSInterval /\ MinLSInterval < LSRefreshTime /\ LSRefreshTime < MaxAge
  /\ {MinLSInterval, LSRefreshTime, MaxAge, MaxAgeDiff, MaxCountdown} \subseteq Nat
  /\ {MaxChanges, MaxOld, MaxRestarts} \subseteq Nat

(* 0x80000000 and 0x80000001 of the code's signed 32-bit numbers. *)
InvalidLSSeq == 0
InitLSSeq == 1

VARIABLES
  db,         \* the database's copy
  want,       \* what the router would originate (nl_raw_orig())
  phase,      \* OSPF::shutdown_phase; 3 when the process has stopped
  countdown,
  adj,        \* some neighbour is at least in Exchange
  dbx,        \* and some one is in Exchange or Loading (n_dbx_nbrs > 0)
  net,        \* instances that other routers may hold
  changes, olds, restarts

bounds == <<changes, olds, restarts>>
vars == <<db, want, phase, countdown, adj, dbx, net, bounds>>

TypeOK ==
  /\ db \in Copy \cup {None}
  /\ want \in Body \cup {None}
  /\ phase \in 0..3 /\ countdown \in (0..MaxCountdown) \cup {1}
  /\ adj \in BOOLEAN /\ dbx \in BOOLEAN /\ (dbx => adj)
  /\ net \subseteq [seq : 0..MaxLSSeq, body : Body]
  /\ changes \in 0..MaxChanges /\ olds \in 0..MaxOld /\ restarts \in 0..MaxRestarts

Init ==
  /\ db = None /\ want = None
  /\ phase = 0 /\ countdown = 0
  /\ adj = FALSE /\ dbx = FALSE
  /\ net = {}
  /\ changes = 0 /\ olds = 0 /\ restarts = 0

-----------------------------------------------------------------------------
shutting_down == phase > 0

maxage_free == ~dbx

(* Signed arithmetic on 32 bits: MaxLSSeq + 1 is InvalidLSSeq. *)
Successor(seq) == (seq + 1) % (MaxLSSeq + 1)

(* Whether instance x is more recent than y. *)
Newer(x, y) ==
  \/ x.seq > y.seq
  \/ /\ x.seq = y.seq
     /\ \/ x.body > y.body
        \/ /\ x.body = y.body
           /\ \/ x.age = MaxAge /\ y.age # MaxAge
              \/ ~(x.age # MaxAge /\ y.age = MaxAge) /\ x.age + MaxAgeDiff < y.age

cmp_contents(d, x) ==
  \/ d.age # x.age /\ MaxAge \in {d.age, x.age}
  \/ d.body # x.body

(* The copy is replaced; it is put on MaxAge_list if it is to be flushed.  *)
(* Only the mark of a rollover survives.                                   *)
AddLSA_KeepsNothing(d, x) ==
  [seq |-> x.seq, body |-> x.body, age |-> x.age, deferring |-> FALSE,
   rollover |-> FALSE, unacked |-> FALSE, listed |-> x.age = MaxAge]

AddLSA(d, x) ==
  [seq |-> x.seq, body |-> x.body, age |-> x.age, deferring |-> FALSE,
   rollover |-> d # None /\ d.rollover, unacked |-> FALSE, listed |-> x.age = MaxAge]

flood(d) == [d EXCEPT !.unacked = adj]

age_prematurely(d) == flood(AddLSA(d, [d EXCEPT !.age = MaxAge]))

lsa_flush(d) == IF d # None /\ d.age # MaxAge THEN age_prematurely(d) ELSE d

lsa_reorig(d, seq, w, forced) ==
  LET x == [seq |-> seq, body |-> w, age |-> 0]
  IN  IF d # None /\ ~cmp_contents(d, x) /\ ~forced THEN d ELSE flood(AddLSA(d, x))

(* ospf_get_seqno() and the origination that depends on its answer: too    *)
(* soon, no larger number, or the next one.                                *)
Originate_NoRollover(d, w, forced) ==
  IF shutting_down THEN d
  ELSE IF d = None THEN lsa_reorig(d, InitLSSeq, w, forced)
  ELSE IF ~forced /\ d.age < MinLSInterval THEN [d EXCEPT !.deferring = TRUE]
  ELSE lsa_reorig(d, Successor(d.seq), w, forced)

Originate(d, w, forced) ==
  IF shutting_down THEN d
  ELSE IF d = None THEN lsa_reorig(d, InitLSSeq, w, forced)
  ELSE IF ~forced /\ d.age < MinLSInterval THEN [d EXCEPT !.deferring = TRUE]
  ELSE IF d.seq = MaxLSSeq THEN age_prematurely([d EXCEPT !.rollover = TRUE])
  ELSE lsa_reorig(d, Successor(d.seq), w, forced)

nl_orig(d, w, forced) ==
  IF w = None THEN lsa_flush(d) ELSE Originate(d, w, forced)

reoriginate(d, forced) == nl_orig(d, want, forced)

(* A more recent instance x of the router's own LSA has been received. *)
self_originated(d, x) ==
  LET d1 == AddLSA(d, x)
  IN  IF d = None \/ d.age = MaxAge THEN lsa_flush(d1)
      ELSE IF x.seq = MaxLSSeq THEN lsa_flush([d1 EXCEPT !.rollover = TRUE])
      ELSE reoriginate(flood(d1), TRUE)

-----------------------------------------------------------------------------
InstanceOf(d) == IF d = None THEN {} ELSE {[seq |-> d.seq, body |-> d.body]}

Install(d) ==
  /\ db' = d
  /\ net' = net \cup InstanceOf(d)

Running == phase < 3

(* The interface becomes or ceases to be DR, or a neighbour Full. *)
Change(w) ==
  /\ Running /\ changes < MaxChanges /\ w # want
  /\ want' = w
  /\ Install(nl_orig(db, w, FALSE))
  /\ changes' = changes + 1
  /\ UNCHANGED <<phase, countdown, adj, dbx, olds, restarts>>

IsNews(d, x) == IF d = None THEN TRUE ELSE Newer(x, d)

HasChanges(d, x) == IF d = None THEN TRUE ELSE cmp_contents(d, x)

(* recv_update() of an instance that some router still holds, of any age.  *)
(* An instance as recent as the database's is acknowledged, an older one   *)
(* answered; neither changes the database.                                 *)
recv_update(o, age) ==
  LET x == [seq |-> o.seq, body |-> o.body, age |-> age]
  IN  /\ Running /\ adj /\ olds < MaxOld
      /\ age = MaxAge /\ db = None => ~maxage_free
      /\ IsNews(db, x)
      /\ IF HasChanges(db, x)
         THEN Install(self_originated(db, x))
         ELSE \E others \in BOOLEAN :
                Install([AddLSA(db, x) EXCEPT !.unacked = others])
      /\ olds' = olds + 1
      /\ UNCHANGED <<want, phase, countdown, adj, dbx, changes, restarts>>

recv_ack ==
  /\ Running /\ db # None /\ db.unacked
  /\ db' = [db EXCEPT !.unacked = FALSE]
  /\ UNCHANGED <<want, phase, countdown, adj, dbx, net, bounds>>

(* Neighbours come and go; with the last one goes what it had to           *)
(* acknowledge.                                                            *)
Neighbors(a, x) ==
  /\ Running /\ <<a, x>> # <<adj, dbx>> /\ (x => a)
  /\ adj' = a /\ dbx' = x
  /\ db' = IF db # None /\ ~a THEN [db EXCEPT !.unacked = FALSE] ELSE db
  /\ UNCHANGED <<want, phase, countdown, net, bounds>>

shutdown ==
  /\ phase = 0
  /\ phase' = 1 /\ countdown' = MaxCountdown
  /\ UNCHANGED <<db, want, adj, dbx, net, bounds>>

-----------------------------------------------------------------------------
(* dbage(): a copy in an age bin becomes a second older, and the bins of   *)
(* three ages are looked into.                                             *)
deferred_lsas(d) ==
  IF d.age = MinLSInterval /\ d.deferring
  THEN reoriginate([d EXCEPT !.deferring = FALSE], FALSE) ELSE d

refresh_lsas(d) == IF d.age = LSRefreshTime THEN reoriginate(d, TRUE) ELSE d

maxage_lsas(d) == IF d.age = MaxAge /\ ~d.listed THEN age_prematurely(d) ELSE d

Aged(d) ==
  IF d = None \/ d.age = MaxAge THEN d
  ELSE maxage_lsas(refresh_lsas(deferred_lsas([d EXCEPT !.age = @ + 1])))

(* A flushed copy that everyone has acknowledged leaves the database, or   *)
(* is originated anew with the first sequence number.                      *)
MayFree(d) == d # None /\ d.listed /\ ~d.unacked /\ maxage_free

free_maxage_lsas_MarkStays(d) ==
  IF ~MayFree(d) THEN d
  ELSE IF d.rollover
  THEN reoriginate([d EXCEPT !.listed = FALSE, !.seq = InvalidLSSeq], TRUE)
  ELSE None

free_maxage_lsas(d) ==
  IF ~MayFree(d) THEN d
  ELSE IF d.rollover
  THEN reoriginate([d EXCEPT !.listed = FALSE, !.rollover = FALSE, !.seq = InvalidLSSeq], TRUE)
  ELSE None

(* The shutdown moves on when nothing is being flushed any more, other     *)
(* LSAs included, or at its deadline: the network-LSA is flushed in phase  *)
(* 1 and the process stops in phase 2.                                     *)
shutdown_continue_InOneStep(d) ==
  /\ phase' = 3 /\ countdown' = 0
  /\ db' = d

shutdown_continue(d) ==
  IF phase = 1 THEN /\ phase' = 2 /\ countdown' = 1
                    /\ db' = lsa_flush(d)
  ELSE /\ phase' = 3 /\ countdown' = 0
       /\ db' = d

InFlush(d) == IF d = None THEN FALSE ELSE d.listed

(* A flush that ends has reached every router. *)
dbage ==
  LET d1 == Aged(db)
      d2 == free_maxage_lsas(d1)
  IN  /\ Running
      /\ \/ /\ ~shutting_down
            /\ db' = d2 /\ UNCHANGED <<phase, countdown>>
         \/ /\ shutting_down
            /\ countdown <= 1 \/ ~InFlush(d2)
            /\ shutdown_continue(d2)
         \/ /\ shutting_down /\ countdown > 1
            /\ countdown' = countdown - 1
            /\ db' = d2 /\ UNCHANGED phase
      /\ net' = (IF MayFree(d1) THEN {} ELSE net) \cup InstanceOf(db')
      /\ UNCHANGED <<want, adj, dbx, bounds>>

(* The process stops, after a shutdown or not, and starts again with an    *)
(* empty database; what it has originated is still in the network.         *)
Restart ==
  /\ restarts < MaxRestarts
  /\ restarts' = restarts + 1
  /\ db' = None /\ want' = None
  /\ phase' = 0 /\ countdown' = 0
  /\ adj' = FALSE /\ dbx' = FALSE
  /\ UNCHANGED <<net, changes, olds>>

Next ==
  \/ \E w \in Body \cup {None} : Change(w)
  \/ \E o \in net, age \in 0..MaxAge : recv_update(o, age)
  \/ recv_ack
  \/ \E a \in BOOLEAN, x \in BOOLEAN : Neighbors(a, x)
  \/ shutdown
  \/ dbage
  \/ Restart

(* The tick comes every second, now and then when no neighbour is          *)
(* describing its database; neighbours acknowledge what they are sent.     *)
TickDue == db # None /\ ~dbx /\ (db.age < MaxAge \/ MayFree(db))

Fairness ==
  /\ []<>TickDue => []<><<dbage /\ ~dbx>>_vars
  /\ []<>~dbx
  /\ WF_vars(recv_ack)

Spec == Init /\ [][Next]_vars /\ Fairness

-----------------------------------------------------------------------------
(* What the database holds of this LSA only ever gets more recent, as the  *)
(* other routers judge it.  The exception is the restart of the sequence   *)
(* numbers: the largest one has been flushed then, and everyone who may    *)
(* hold it has acknowledged the flush.                                     *)
InstancesGetNewer ==
  [][db # None /\ db' # None =>
       \/ /\ db'.seq = db.seq /\ db'.body = db.body
          /\ db.age = MaxAge => db'.age = MaxAge
       \/ Newer(db', db)
       \/ db.seq = MaxLSSeq /\ ~db.unacked /\ ~dbx /\ (db.age = MaxAge \/ ~adj)]_vars

(* A copy marked for a restart of its sequence numbers is being flushed:   *)
(* the mark outlives the object it was set on, and must not outlive the    *)
(* flush.                                                                  *)
RolloverIsFlushed ==
  /\ TypeOK
  /\ db # None => (db.rollover => db.seq = MaxLSSeq /\ db.age = MaxAge /\ db.listed)

(* The process does not stop before its LSA has been flushed. *)
GoodbyeIsSaid == phase = 3 /\ db # None => db.age = MaxAge

(* A flush that others wait for, the restart of the sequence numbers or    *)
(* the end of the process, is carried out before they go on.               *)
FlushIsFinished == RolloverIsFlushed /\ GoodbyeIsSaid

(* What the copy in the database does not say yet has been put off: "the   *)
(* origination should be put off until later" (ospf_get_seqno()).          *)
ChangeIsPutOff ==
  db # None /\ ~shutting_down /\ want # None /\ db.age # MaxAge =>
    db.body = want \/ db.deferring

(* When the contents have settled the database says so again and again:    *)
(* deferral, refresh, rollover and copies that come back end in it.  After *)
(* a restart an old instance with these contents may be taken over that is *)
(* beyond LSRefreshTime, is not refreshed and not originated again.        *)
Advertised ==
  <>[](want # None /\ phase = 0 /\ restarts = 0) =>
    []<>(IF db = None THEN FALSE ELSE db.age # MaxAge /\ db.body = want)
=============================================================================
