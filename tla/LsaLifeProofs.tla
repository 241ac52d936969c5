--------------------------- MODULE LsaLifeProofs ---------------------------
(***************************************************************************)
(* Proofs about LsaLife, for any contents, sequence numbers, ages and      *)
(* bounds: a flush is finished before anything is built on it, and the     *)
(* database's copy only gets more recent.                                  *)
(*                                                                         *)
(* Every function that changes a copy is one of a few: it is flushed,      *)
(* replaced by an instance with the next number, marked to be put off, or  *)
(* left alone.  Succeeds says what all of these have in common, and        *)
(* everything else about them follows from it.                             *)
(***************************************************************************)
EXTENDS LsaLife, TLAPS

(* The mark of a rollover is on a copy that is being flushed. *)
Marked(d) == d.rollover => d.seq = MaxLSSeq /\ d.age = MaxAge /\ d.listed

(* An instance, as it is originated or received. *)
IsInstance(x) == x.seq \in 0..MaxLSSeq /\ x.body \in Body /\ x.age \in 0..MaxAge

(* Copy e is as recent as d, and flushed if d is. *)
Advances(d, e) ==
  \/ e.seq > d.seq
  \/ e.seq = d.seq /\ e.body = d.body /\ (d.age = MaxAge => e.age = MaxAge)

(* What the functions that originate and flush may make of copy d. *)
Succeeds(d, e) ==
  /\ e \in Copy /\ Marked(e)
  /\ Advances(d, e)
  /\ e.age \in {0, d.age} \/ (e.age = MaxAge /\ e.listed)
  /\ (e.unacked => d.unacked \/ adj)
  /\ e.rollover /\ ~d.rollover => d.seq = MaxLSSeq /\ (e.unacked <=> adj)

(* The strengthening of FlushIsFinished: the process that may stop at its  *)
(* next step has flushed the LSA already, and the mark of a rollover and   *)
(* an acknowledgment that is waited for are on a copy that can have them.  *)
LifeInv ==
  /\ TypeOK
  /\ db # None => Marked(db) /\ (db.unacked => adj)
  /\ phase > 1 /\ db # None => db.age = MaxAge

-----------------------------------------------------------------------------
LEMMA Numbers ==
  /\ MaxAge \in Nat /\ MinLSInterval \in Nat /\ LSRefreshTime \in Nat
  /\ 0 < MinLSInterval /\ MinLSInterval < LSRefreshTime /\ LSRefreshTime < MaxAge
  /\ MaxAgeDiff \in Nat /\ MaxLSSeq \in Nat /\ MaxLSSeq > 1 /\ MaxCountdown \in Nat
BY LsaLifeAssumption

LEMMA Copies ==
  /\ None \notin Copy /\ None \notin Body
  /\ \A d \in Copy : /\ d # None
                     /\ d.seq \in 0..MaxLSSeq /\ d.body \in Body /\ d.age \in 0..MaxAge
                     /\ d.deferring \in BOOLEAN /\ d.rollover \in BOOLEAN
                     /\ d.unacked \in BOOLEAN /\ d.listed \in BOOLEAN
BY LsaLifeAssumption DEF Copy

LEMMA AddLSAIsCopy ==
  ASSUME NEW d \in Copy \cup {None}, NEW x, IsInstance(x)
  PROVE  /\ AddLSA(d, x) \in Copy
         /\ AddLSA(d, x).seq = x.seq /\ AddLSA(d, x).body = x.body
         /\ AddLSA(d, x).age = x.age
         /\ (AddLSA(d, x).rollover <=> d # None /\ d.rollover)
         /\ (AddLSA(d, x).listed <=> x.age = MaxAge)
         /\ ~AddLSA(d, x).unacked
BY DEF AddLSA, Copy, IsInstance

LEMMA FloodIsCopy ==
  ASSUME NEW d \in Copy, adj \in BOOLEAN
  PROVE  /\ flood(d) \in Copy
         /\ flood(d).seq = d.seq /\ flood(d).body = d.body /\ flood(d).age = d.age
         /\ (flood(d).rollover <=> d.rollover) /\ (flood(d).listed <=> d.listed)
         /\ (flood(d).unacked <=> adj)
BY DEF flood, Copy

LEMMA FlushIsCopy ==
  ASSUME NEW d \in Copy, adj \in BOOLEAN
  PROVE  /\ age_prematurely(d) \in Copy
         /\ age_prematurely(d).seq = d.seq /\ age_prematurely(d).body = d.body
         /\ age_prematurely(d).age = MaxAge
         /\ (age_prematurely(d).rollover <=> d.rollover)
         /\ age_prematurely(d).listed
         /\ (age_prematurely(d).unacked <=> adj)
<1> DEFINE x == [d EXCEPT !.age = MaxAge]
           a == AddLSA(d, x)
<1>1. x.seq = d.seq /\ x.body = d.body /\ x.age = MaxAge
  BY DEF Copy
<1>2. IsInstance(x)
  BY <1>1, Copies, Numbers DEF IsInstance
<1> HIDE DEF x
<1>3. /\ a \in Copy /\ a.seq = d.seq /\ a.body = d.body /\ a.age = MaxAge
      /\ (a.rollover <=> d.rollover) /\ a.listed
  BY <1>1, <1>2, AddLSAIsCopy, Copies
<1> HIDE DEF a
<1>4. age_prematurely(d) = flood(a)
  BY DEF age_prematurely, a, x
<1> QED
  BY <1>3, <1>4, FloodIsCopy

(* Marking a copy, or taking a mark away. *)
LEMMA MarksAreCopies ==
  ASSUME NEW d \in Copy, NEW b \in BOOLEAN
  PROVE  /\ LET e == [d EXCEPT !.deferring = b]
            IN  e \in Copy /\ e.seq = d.seq /\ e.body = d.body /\ e.age = d.age
                /\ (e.rollover <=> d.rollover) /\ (e.unacked <=> d.unacked) /\ (e.listed <=> d.listed)
         /\ LET e == [d EXCEPT !.rollover = b]
            IN  e \in Copy /\ e.seq = d.seq /\ e.body = d.body /\ e.age = d.age
                /\ (e.rollover <=> b) /\ (e.unacked <=> d.unacked) /\ (e.listed <=> d.listed)
         /\ LET e == [d EXCEPT !.unacked = b]
            IN  e \in Copy /\ e.seq = d.seq /\ e.body = d.body /\ e.age = d.age
                /\ (e.rollover <=> d.rollover) /\ (e.unacked <=> b) /\ (e.listed <=> d.listed)
BY DEF Copy

-----------------------------------------------------------------------------
LEMMA FlushSucceeds ==
  ASSUME NEW d \in Copy, Marked(d), adj \in BOOLEAN
  PROVE  /\ Succeeds(d, lsa_flush(d))
         /\ lsa_flush(d).age = MaxAge
<1>1. CASE d.age # MaxAge
  <2>1. lsa_flush(d) = age_prematurely(d)
    BY <1>1, Copies DEF lsa_flush
  <2> QED
    BY <1>1, <2>1, FlushIsCopy, Copies DEF Succeeds, Advances, Marked
<1>2. CASE d.age = MaxAge
  <2>1. lsa_flush(d) = d
    BY <1>2 DEF lsa_flush
  <2> QED
    BY <1>2, <2>1 DEF Succeeds, Advances
<1> QED
  BY <1>1, <1>2

LEMMA NewInstance ==
  ASSUME NEW d \in Copy \cup {None}, NEW seq \in 0..MaxLSSeq, NEW w \in Body,
         adj \in BOOLEAN
  PROVE  LET e == flood(AddLSA(d, [seq |-> seq, body |-> w, age |-> 0]))
         IN  /\ e \in Copy /\ e.seq = seq /\ e.body = w /\ e.age = 0
             /\ (e.rollover <=> d # None /\ d.rollover) /\ (e.unacked <=> adj)
<1> DEFINE x == [seq |-> seq, body |-> w, age |-> 0]
           a == AddLSA(d, x)
<1>1. IsInstance(x)
  BY Numbers DEF IsInstance
<1>2. /\ a \in Copy /\ a.seq = seq /\ a.body = w /\ a.age = 0
      /\ (a.rollover <=> d # None /\ d.rollover)
  BY <1>1, AddLSAIsCopy
<1> HIDE DEF a
<1>3. /\ flood(a) \in Copy /\ flood(a).seq = seq /\ flood(a).body = w /\ flood(a).age = 0
      /\ (flood(a).rollover <=> d # None /\ d.rollover) /\ (flood(a).unacked <=> adj)
  BY <1>2, FloodIsCopy
<1> QED
  BY <1>3 DEF a

LEMMA OriginateSucceeds ==
  ASSUME NEW d \in Copy, Marked(d), NEW w \in Body \cup {None}, NEW forced \in BOOLEAN,
         adj \in BOOLEAN
  PROVE  /\ Succeeds(d, nl_orig(d, w, forced))
         /\ shutting_down /\ d.age = MaxAge => nl_orig(d, w, forced) = d
<1> DEFINE e == nl_orig(d, w, forced)
<1>1. CASE w = None
  BY <1>1, FlushSucceeds DEF nl_orig, lsa_flush
<1>2. CASE w # None /\ shutting_down
  <2>1. e = d
    BY <1>2 DEF nl_orig, Originate
  <2> QED
    BY <2>1 DEF Succeeds, Advances
<1>3. CASE w # None /\ ~shutting_down /\ ~forced /\ d.age < MinLSInterval
  <2> DEFINE m == [d EXCEPT !.deferring = TRUE]
  <2>1. e = m
    BY <1>3, Copies DEF nl_orig, Originate
  <2>2. /\ m \in Copy /\ m.seq = d.seq /\ m.body = d.body /\ m.age = d.age
        /\ (m.rollover <=> d.rollover) /\ (m.unacked <=> d.unacked) /\ (m.listed <=> d.listed)
    BY MarksAreCopies
  <2> HIDE DEF e, m
  <2>3. Succeeds(d, e)
    BY <2>1, <2>2 DEF Succeeds, Advances, Marked
  <2> QED
    BY <2>3, <1>3 DEF e
<1>4. CASE w # None /\ ~shutting_down /\ ~(~forced /\ d.age < MinLSInterval) /\ d.seq = MaxLSSeq
  <2> DEFINE m == [d EXCEPT !.rollover = TRUE]
  <2>1. e = age_prematurely(m)
    BY <1>4, Copies DEF nl_orig, Originate
  <2>2. /\ m \in Copy /\ m.seq = d.seq /\ m.body = d.body
    BY MarksAreCopies
  <2> HIDE DEF m, e
  <2>3. /\ e \in Copy /\ e.seq = d.seq /\ e.body = d.body /\ e.age = MaxAge
        /\ e.listed /\ (e.unacked <=> adj)
    BY <2>1, <2>2, FlushIsCopy
  <2>4. Succeeds(d, e)
    BY <2>3, <1>4 DEF Succeeds, Advances, Marked
  <2> QED
    BY <2>4, <1>4 DEF e
<1>5. CASE w # None /\ ~shutting_down /\ ~(~forced /\ d.age < MinLSInterval) /\ d.seq # MaxLSSeq
  <2>1. e = lsa_reorig(d, Successor(d.seq), w, forced)
    BY <1>5, Copies DEF nl_orig, Originate
  <2>2. /\ Successor(d.seq) = d.seq + 1 /\ d.seq + 1 \in 0..MaxLSSeq
    <3>1. d.seq \in 0..MaxLSSeq /\ d.seq + 1 < MaxLSSeq + 1
      BY <1>5, Copies, Numbers
    <3>2. (d.seq + 1) % (MaxLSSeq + 1) = d.seq + 1
      BY <3>1, Numbers
    <3> QED
      BY <3>1, <3>2, Numbers DEF Successor
  <2> DEFINE n == flood(AddLSA(d, [seq |-> d.seq + 1, body |-> w, age |-> 0]))
  <2>3. e = d \/ e = n
    BY <2>1, <2>2 DEF lsa_reorig
  <2>4. /\ n \in Copy /\ n.seq = d.seq + 1 /\ n.body = w /\ n.age = 0
        /\ (n.rollover <=> d.rollover) /\ (n.unacked <=> adj)
    BY <2>2, <1>5, NewInstance, Copies
  <2> HIDE DEF n, e
  <2>5. Succeeds(d, d)
    BY DEF Succeeds, Advances
  <2>6. Succeeds(d, n)
    BY <2>4, <1>5, Copies DEF Succeeds, Advances, Marked
  <2> QED
    BY <2>3, <2>5, <2>6, <1>5 DEF e
<1> QED
  BY <1>1, <1>2, <1>3, <1>4, <1>5

-----------------------------------------------------------------------------
(* The tick: one second more, and what was put off, refreshed or too old. *)
LEMMA AgedSucceeds ==
  ASSUME NEW d \in Copy, Marked(d), want \in Body \cup {None}, adj \in BOOLEAN
  PROVE  /\ Aged(d) \in Copy /\ Marked(Aged(d))
         /\ Advances(d, Aged(d))
         /\ (Aged(d).unacked => d.unacked \/ adj)
         /\ d.age = MaxAge => Aged(d) = d
         /\ Aged(d).rollover /\ ~d.rollover => d.seq = MaxLSSeq /\ (Aged(d).unacked <=> adj)
<1>1. CASE d.age = MaxAge
  <2>1. Aged(d) = d
    BY <1>1 DEF Aged
  <2> QED
    BY <2>1 DEF Advances
<1>2. CASE d.age # MaxAge
  <2> DEFINE o == [d EXCEPT !.age = @ + 1]
             c == [o EXCEPT !.deferring = FALSE]
             x == nl_orig(c, want, FALSE)
             y == nl_orig(o, want, TRUE)
             z == age_prematurely(o)
  <2>1. /\ o \in Copy /\ o.seq = d.seq /\ o.body = d.body /\ o.age = d.age + 1
        /\ ~o.rollover /\ ~d.rollover /\ (o.unacked <=> d.unacked)
    BY <1>2, Numbers DEF Copy, Marked
  <2>2. Aged(d) = maxage_lsas(refresh_lsas(deferred_lsas(o)))
    BY <1>2, Copies DEF Aged
  <2> HIDE DEF o
  <2>3. /\ c \in Copy /\ c.seq = d.seq /\ c.body = d.body /\ c.age = d.age + 1
        /\ ~c.rollover /\ (c.unacked <=> d.unacked)
    BY <2>1, MarksAreCopies
  <2> HIDE DEF c
  <2>4. Marked(o) /\ Marked(c)
    BY <2>1, <2>3 DEF Marked
  <2>5. Succeeds(c, x) /\ Succeeds(o, y)
    BY <2>1, <2>3, <2>4, OriginateSucceeds
  <2>6. /\ z \in Copy /\ z.seq = d.seq /\ z.body = d.body /\ z.age = MaxAge
        /\ ~z.rollover /\ (z.unacked <=> adj)
    BY <2>1, FlushIsCopy
  <2> HIDE DEF x, y, z
  <2>7. CASE o.age = MinLSInterval /\ o.deferring
    <3>1. deferred_lsas(o) = x
      BY <2>7 DEF deferred_lsas, reoriginate, c, x
    <3>2. x.age # LSRefreshTime /\ (x.age = MaxAge => x.listed)
      BY <2>1, <2>3, <2>5, <2>7, Numbers DEF Succeeds
    <3>3. Aged(d) = x
      BY <2>2, <3>1, <3>2 DEF refresh_lsas, maxage_lsas
    <3> QED
      BY <3>3, <1>2, <2>1, <2>3, <2>5 DEF Succeeds, Advances
  <2>8. CASE o.age = LSRefreshTime
    <3>0. o.age # MinLSInterval
      BY <2>8, Numbers
    <3>1. deferred_lsas(o) = o
      BY <3>0 DEF deferred_lsas
    <3>2. refresh_lsas(o) = y
      BY <2>8 DEF refresh_lsas, reoriginate, y
    <3>3. y.age = MaxAge => y.listed
      BY <2>5, <2>8, Numbers DEF Succeeds
    <3>4. Aged(d) = y
      BY <2>2, <3>1, <3>2, <3>3 DEF maxage_lsas
    <3> QED
      BY <3>4, <1>2, <2>1, <2>5 DEF Succeeds, Advances
  <2>9. CASE ~(o.age = MinLSInterval /\ o.deferring) /\ o.age # LSRefreshTime
    <3>1. deferred_lsas(o) = o /\ refresh_lsas(o) = o
      BY <2>9 DEF deferred_lsas, refresh_lsas
    <3>2. Aged(d) \in {o, z}
      BY <2>2, <3>1 DEF maxage_lsas, z
    <3> QED
      BY <3>2, <1>2, <2>1, <2>4, <2>6 DEF Advances, Marked
  <2> QED
    BY <2>7, <2>8, <2>9
<1> QED
  BY <1>1, <1>2

(* A flush that has ended: the copy goes, or is originated anew. *)
LEMMA FreeEnds ==
  ASSUME NEW d \in Copy, Marked(d), want \in Body \cup {None}, adj \in BOOLEAN,
         d.unacked => adj
  PROVE  LET e == free_maxage_lsas(d)
         IN  /\ e \in Copy \cup {None}
             /\ e # None => Marked(e) /\ (e.unacked => adj)
             /\ shutting_down /\ e # None /\ d.age = MaxAge => e.age = MaxAge
             /\ e # None => e = d \/ (d.rollover /\ ~d.unacked /\ ~dbx)
<1> DEFINE l == [d EXCEPT !.listed = FALSE]
           m == [l EXCEPT !.rollover = FALSE]
           f == [m EXCEPT !.seq = InvalidLSSeq]
           e == nl_orig(f, want, TRUE)
<1>1. CASE ~MayFree(d)
  BY <1>1 DEF free_maxage_lsas
<1>2. CASE MayFree(d) /\ ~d.rollover
  BY <1>2 DEF free_maxage_lsas
<1>3. CASE MayFree(d) /\ d.rollover
  <2>1. /\ l \in Copy /\ l.age = d.age /\ (l.unacked <=> d.unacked)
    BY DEF Copy
  <2> HIDE DEF l
  <2>2. /\ m \in Copy /\ ~m.rollover /\ m.age = d.age /\ (m.unacked <=> d.unacked)
    BY <2>1, MarksAreCopies
  <2> HIDE DEF m
  <2>3. /\ f \in Copy /\ ~f.rollover /\ f.age = d.age /\ (f.unacked <=> d.unacked)
    BY <2>2, Numbers DEF Copy, InvalidLSSeq
  <2>4. f = [d EXCEPT !.listed = FALSE, !.rollover = FALSE, !.seq = InvalidLSSeq]
    BY DEF f, m, l
  <2>5. free_maxage_lsas(d) = e
    BY <1>3, <2>4 DEF free_maxage_lsas, reoriginate
  <2> HIDE DEF f
  <2>6. Marked(f)
    BY <2>3 DEF Marked
  <2>7. Succeeds(f, e) /\ (shutting_down /\ f.age = MaxAge => e = f)
    BY <2>3, <2>6, OriginateSucceeds
  <2> HIDE DEF e
  <2> QED
    BY <1>3, <2>3, <2>5, <2>7 DEF Succeeds, MayFree, maxage_free
<1> QED
  BY <1>1, <1>2, <1>3

(* What is received of this LSA is flushed, or answered by a newer one. *)
LEMMA SelfOriginatedAnswers ==
  ASSUME NEW d \in Copy \cup {None}, d # None => Marked(d), want \in Body \cup {None},
         NEW x, IsInstance(x), adj = TRUE,
         IsNews(d, x)
  PROVE  /\ self_originated(d, x) \in Copy
         /\ Marked(self_originated(d, x))
         /\ Advances(x, self_originated(d, x))
         /\ shutting_down /\ (d # None => d.age = MaxAge) =>
              self_originated(d, x).age = MaxAge
<1> DEFINE a == AddLSA(d, x)
           e == self_originated(d, x)
<1>1. /\ a \in Copy /\ a.seq = x.seq /\ a.body = x.body /\ a.age = x.age
      /\ (a.rollover <=> d # None /\ d.rollover) /\ (a.listed <=> x.age = MaxAge)
  BY AddLSAIsCopy
<1>2. CASE d = None \/ d.age = MaxAge
  <2>1. e = lsa_flush(a)
    BY <1>2 DEF self_originated
  <2>2. a.rollover => a.seq = MaxLSSeq
    BY <1>1, Copies, Numbers DEF Marked, IsNews, Newer, IsInstance
  <2> HIDE DEF a
  <2>3. lsa_flush(a) = IF a.age = MaxAge THEN a ELSE age_prematurely(a)
    BY <1>1, Copies DEF lsa_flush
  <2> HIDE DEF e
  <2>4. /\ e \in Copy /\ e.seq = x.seq /\ e.body = x.body /\ e.age = MaxAge
        /\ e.listed /\ (e.rollover <=> a.rollover)
    BY <1>1, <2>1, <2>3, FlushIsCopy
  <2>5. Marked(e) /\ Advances(x, e)
    BY <1>1, <2>2, <2>4 DEF Marked, Advances
  <2> QED
    BY <2>4, <2>5 DEF e
<1>3. CASE d # None /\ d.age # MaxAge /\ x.seq = MaxLSSeq
  <2> DEFINE m == [a EXCEPT !.rollover = TRUE]
  <2>1. e = lsa_flush(m)
    BY <1>3 DEF self_originated
  <2> HIDE DEF a
  <2>2. /\ m \in Copy /\ m.seq = x.seq /\ m.body = x.body /\ m.age = x.age
        /\ (m.listed <=> x.age = MaxAge)
    <3>1. TRUE \in BOOLEAN /\ a \in Copy
      BY <1>1
    <3>2. LET w == [a EXCEPT !.rollover = TRUE]
          IN  /\ w \in Copy /\ w.seq = a.seq /\ w.body = a.body /\ w.age = a.age
              /\ (w.listed <=> a.listed)
      BY <3>1, MarksAreCopies
    <3> QED
      BY <1>1, <3>2
  <2> HIDE DEF m
  <2>3. lsa_flush(m) = IF m.age = MaxAge THEN m ELSE age_prematurely(m)
    BY <2>2, Copies DEF lsa_flush
  <2> HIDE DEF e
  <2>4. /\ e \in Copy /\ e.seq = x.seq /\ e.body = x.body /\ e.age = MaxAge /\ e.listed
    BY <2>1, <2>2, <2>3, FlushIsCopy
  <2>5. Marked(e) /\ Advances(x, e)
    BY <1>3, <2>4 DEF Marked, Advances
  <2> QED
    BY <2>4, <2>5 DEF e
<1>4. CASE d # None /\ d.age # MaxAge /\ x.seq # MaxLSSeq
  <2> DEFINE f == flood(a)
  <2>1. e = nl_orig(f, want, TRUE)
    BY <1>4 DEF self_originated, reoriginate
  <2> HIDE DEF a
  <2>2. /\ f \in Copy /\ f.seq = x.seq /\ f.body = x.body /\ f.age = x.age
        /\ (f.rollover <=> a.rollover)
    BY <1>1, FloodIsCopy
  <2> HIDE DEF f, e
  <2>3. Marked(f)
    BY <1>1, <1>4, <2>2 DEF Marked
  <2>4. Succeeds(f, e)
    BY <2>1, <2>2, <2>3, OriginateSucceeds
  <2>5. e \in Copy /\ Marked(e) /\ Advances(x, e)
    BY <2>2, <2>4 DEF Succeeds, Advances
  <2> QED
    BY <1>4, <2>5 DEF e
<1> QED
  BY <1>2, <1>3, <1>4

(* More recent than what is more recent, when something has changed. *)
LEMMA NewerStill ==
  ASSUME NEW d \in Copy, NEW x, NEW e,
         IsInstance(x), e \in Copy,
         Newer(x, d), cmp_contents(d, x), Advances(x, e)
  PROVE  Newer(e, d)
<1>1. d.seq \in Nat /\ x.seq \in Nat /\ e.seq \in Nat
  BY Copies, Numbers DEF IsInstance
<1>2. d.body \in Nat /\ x.body \in Nat /\ e.body \in Nat
  BY Copies, LsaLifeAssumption DEF IsInstance
<1>3. d.age \in 0..MaxAge
  BY Copies
<1>4. CASE x.seq > d.seq
  BY <1>1, <1>4 DEF Newer, Advances
<1>5. CASE x.seq = d.seq /\ x.body > d.body
  BY <1>1, <1>2, <1>5 DEF Newer, Advances
<1>6. CASE x.seq = d.seq /\ x.body = d.body /\ x.age = MaxAge /\ d.age # MaxAge
  BY <1>1, <1>6 DEF Newer, Advances
<1>7. CASE /\ x.seq = d.seq /\ x.body = d.body /\ ~(x.age # MaxAge /\ d.age = MaxAge)
           /\ x.age + MaxAgeDiff < d.age
  BY <1>3, <1>7, Numbers DEF cmp_contents
<1> QED
  BY <1>4, <1>5, <1>6, <1>7 DEF Newer

-----------------------------------------------------------------------------
(* What InstancesGetNewer says of one step. *)
GetsNewer ==
  db # None /\ db' # None =>
    \/ /\ db'.seq = db.seq /\ db'.body = db.body
       /\ db.age = MaxAge => db'.age = MaxAge
    \/ Newer(db', db)
    \/ db.seq = MaxLSSeq /\ ~db.unacked /\ ~dbx /\ (db.age = MaxAge \/ ~adj)

(* The copy that a step leaves, and the rest of LifeInv. *)
CopyFits(d) ==
  /\ d \in Copy \cup {None}
  /\ d # None => Marked(d) /\ (d.unacked => adj')
  /\ phase' > 1 /\ d # None => d.age = MaxAge

RestFits ==
  /\ want' \in Body \cup {None}
  /\ phase' \in 0..3 /\ countdown' \in (0..MaxCountdown) \cup {1}
  /\ adj' \in BOOLEAN /\ dbx' \in BOOLEAN /\ (dbx' => adj')
  /\ changes' \in 0..MaxChanges /\ olds' \in 0..MaxOld /\ restarts' \in 0..MaxRestarts

LEMMA Fits ==
  ASSUME LifeInv, CopyFits(db'), RestFits, net' \subseteq net \cup InstanceOf(db')
  PROVE  LifeInv'
<1>1. InstanceOf(db') \subseteq [seq : 0..MaxLSSeq, body : Body]
  BY Copies DEF CopyFits, InstanceOf
<1>2. TypeOK'
  BY <1>1 DEF CopyFits, RestFits, LifeInv, TypeOK
<1> QED
  BY <1>2 DEF CopyFits, LifeInv, Marked

LEMMA AdvancesIsNewer ==
  ASSUME NEW d \in Copy, NEW e \in Copy, Advances(d, e)
  PROVE  \/ /\ e.seq = d.seq /\ e.body = d.body
            /\ d.age = MaxAge => e.age = MaxAge
         \/ Newer(e, d)
BY DEF Advances, Newer

-----------------------------------------------------------------------------
LEMMA ChangeKeeps ==
  ASSUME LifeInv, NEW w \in Body \cup {None}, Change(w)
  PROVE  LifeInv' /\ GetsNewer
<1>1. /\ db \in Copy \cup {None} /\ adj \in BOOLEAN /\ phase \in 0..2
      /\ db' = nl_orig(db, w, FALSE) /\ want' = w /\ UNCHANGED <<phase, adj>>
      /\ net' \subseteq net \cup InstanceOf(db')
  BY DEF LifeInv, TypeOK, Change, Install, Running
<1>2. RestFits
  BY LsaLifeAssumption DEF LifeInv, TypeOK, Change, RestFits
<1>3. CASE db = None
  <2>1. CASE w = None \/ shutting_down
    <3>1. db' = None
      BY <1>1, <1>3, <2>1 DEF nl_orig, lsa_flush, Originate
    <3> QED
      BY <1>1, <1>2, <3>1, <1>3, Fits DEF CopyFits, GetsNewer
  <2>2. CASE w # None /\ ~shutting_down
    <3>1. db' = flood(AddLSA(None, [seq |-> InitLSSeq, body |-> w, age |-> 0]))
      BY <1>1, <1>3, <2>2 DEF nl_orig, Originate, lsa_reorig
    <3>2. InitLSSeq \in 0..MaxLSSeq
      BY Numbers DEF InitLSSeq
    <3>3. db' \in Copy /\ ~db'.rollover /\ (db'.unacked <=> adj)
      <4> DEFINE n == flood(AddLSA(None, [seq |-> InitLSSeq, body |-> w, age |-> 0]))
      <4>1. w \in Body /\ None \in Copy \cup {None}
        BY <2>2
      <4>2. n \in Copy /\ (n.rollover <=> None # None /\ None.rollover) /\ (n.unacked <=> adj)
        BY <1>1, <3>2, <4>1, NewInstance
      <4> QED
        BY <3>1, <4>2
    <3>4. CopyFits(db')
      <4>1. ~(phase' > 1)
        BY <1>1, <2>2 DEF shutting_down
      <4>2. Marked(db')
        BY <3>3 DEF Marked
      <4> QED
        BY <1>1, <3>3, <4>1, <4>2 DEF CopyFits
    <3> QED
      BY <1>1, <1>2, <1>3, <3>4, Fits DEF GetsNewer
  <2> QED
    BY <2>1, <2>2
<1>4. CASE db # None
  <2>1. db \in Copy /\ Marked(db) /\ (db.unacked => adj) /\ (phase > 1 => db.age = MaxAge)
    BY <1>1, <1>4 DEF LifeInv
  <2>2. /\ Succeeds(db, db')
        /\ shutting_down /\ db.age = MaxAge => db' = db
    BY <1>1, <2>1, OriginateSucceeds
  <2>3. CopyFits(db')
    <3>1. db' \in Copy /\ Marked(db') /\ (db'.unacked => adj)
      BY <2>1, <2>2 DEF Succeeds
    <3>2. phase' > 1 => shutting_down /\ phase > 1
      BY <1>1 DEF shutting_down
    <3> QED
      BY <1>1, <2>1, <2>2, <3>1, <3>2 DEF CopyFits
  <2>4. GetsNewer
    BY <2>1, <2>2, AdvancesIsNewer DEF GetsNewer, Succeeds
  <2> QED
    BY <1>1, <1>2, <2>3, <2>4, Fits
<1> QED
  BY <1>3, <1>4

LEMMA RecvUpdateKeeps ==
  ASSUME LifeInv, NEW o \in net, NEW age \in 0..MaxAge, recv_update(o, age)
  PROVE  LifeInv' /\ GetsNewer
<1> DEFINE x == [seq |-> o.seq, body |-> o.body, age |-> age]
           a == AddLSA(db, x)
<1>1. /\ db \in Copy \cup {None} /\ adj = TRUE /\ want \in Body \cup {None}
      /\ UNCHANGED <<want, phase, countdown, adj, dbx, changes, restarts>>
      /\ o \in [seq : 0..MaxLSSeq, body : Body]
      /\ db # None => Marked(db)
      /\ phase > 1 /\ db # None => db.age = MaxAge
      /\ phase \in 0..2
  BY DEF LifeInv, TypeOK, recv_update, Running
<1>2. IsInstance(x) /\ IsNews(db, x)
  BY <1>1 DEF recv_update, IsInstance
<1>3. RestFits
  BY LsaLifeAssumption DEF LifeInv, TypeOK, recv_update, RestFits
<1>4. CASE HasChanges(db, x)
  <2>1. db' = self_originated(db, x) /\ net' \subseteq net \cup InstanceOf(db')
    BY <1>4 DEF recv_update, Install
  <2> HIDE DEF x
  <2>2. /\ db' \in Copy /\ Marked(db') /\ Advances(x, db')
        /\ shutting_down /\ (db # None => db.age = MaxAge) => db'.age = MaxAge
    BY <1>1, <1>2, <2>1, SelfOriginatedAnswers
  <2>3. CopyFits(db')
    BY <1>1, <2>2 DEF CopyFits, shutting_down
  <2>4. db # None => Newer(db', db)
    BY <1>1, <1>2, <1>4, <2>2, NewerStill DEF IsNews, HasChanges
  <2> QED
    BY <1>3, <2>1, <2>3, <2>4, Fits DEF GetsNewer
<1>5. CASE ~HasChanges(db, x)
  <2>1. PICK others \in BOOLEAN : /\ db' = [a EXCEPT !.unacked = others]
                                  /\ net' \subseteq net \cup InstanceOf(db')
    BY <1>5 DEF recv_update, Install
  <2>2. db # None /\ db \in Copy /\ Newer(x, db) /\ ~cmp_contents(db, x) /\ Marked(db)
    BY <1>1, <1>2, <1>5 DEF HasChanges, IsNews
  <2>3. /\ x.body = db.body /\ (x.age = MaxAge <=> db.age = MaxAge)
        /\ x.seq >= db.seq /\ (db.seq = MaxLSSeq => db.age # MaxAge)
    <3>1. x.body = db.body /\ (x.age = MaxAge <=> db.age = MaxAge)
      BY <2>2 DEF cmp_contents
    <3>2. /\ x.seq \in 0..MaxLSSeq /\ db.seq \in 0..MaxLSSeq /\ db.body \in Nat
          /\ x.age \in 0..MaxAge /\ db.age \in 0..MaxAge
      BY <1>2, <2>2, Copies, LsaLifeAssumption DEF IsInstance
    <3> HIDE DEF x
    <3> QED
      BY <2>2, <3>1, <3>2, Numbers DEF Newer
  <2>4. ~db.rollover
    BY <2>2, <2>3 DEF Marked
  <2>5. a \in Copy /\ a.seq = x.seq /\ a.body = x.body /\ a.age = x.age /\ ~a.rollover
    BY <1>1, <1>2, <2>2, <2>4, AddLSAIsCopy
  <2> HIDE DEF a, x
  <2> DEFINE e == [a EXCEPT !.unacked = others]
  <2>6. e \in Copy /\ e.seq = x.seq /\ e.body = x.body /\ e.age = x.age /\ ~e.rollover
    <3>1. others \in BOOLEAN
      BY <2>1
    <3>2. /\ e \in Copy /\ e.seq = a.seq /\ e.body = a.body /\ e.age = a.age
          /\ (e.rollover <=> a.rollover)
      BY <2>5, <3>1 DEF Copy
    <3> QED
      BY <2>5, <3>2
  <2> HIDE DEF e
  <2>7. CopyFits(e)
    BY <1>1, <2>2, <2>3, <2>6 DEF CopyFits, Marked
  <2>8. Advances(db, e)
    BY <2>2, <2>3, <2>6, Copies, Numbers DEF Advances
  <2>10. db' = e
    BY <2>1 DEF e
  <2>9. GetsNewer
    BY <2>2, <2>6, <2>10, <2>8, AdvancesIsNewer DEF GetsNewer
  <2> QED
    BY <1>3, <2>1, <2>7, <2>9, <2>10, Fits
<1> QED
  BY <1>4, <1>5

(* The mark of an acknowledgment that is waited for goes. *)
LEMMA Acked ==
  ASSUME NEW d \in Copy, Marked(d)
  PROVE  LET e == [d EXCEPT !.unacked = FALSE]
         IN  e \in Copy /\ Marked(e) /\ ~e.unacked
             /\ e.seq = d.seq /\ e.body = d.body /\ e.age = d.age
<1> DEFINE e == [d EXCEPT !.unacked = FALSE]
<1>1. /\ e \in Copy /\ e.seq = d.seq /\ e.body = d.body /\ e.age = d.age
      /\ (e.rollover <=> d.rollover) /\ ~e.unacked /\ (e.listed <=> d.listed)
  BY MarksAreCopies
<1> HIDE DEF e
<1>2. Marked(e)
  BY <1>1 DEF Marked
<1> QED
  BY <1>1, <1>2 DEF e

LEMMA AckKeeps ==
  ASSUME LifeInv, recv_ack
  PROVE  LifeInv' /\ GetsNewer
<1> DEFINE e == [db EXCEPT !.unacked = FALSE]
<1>1. /\ db \in Copy /\ Marked(db) /\ (phase > 1 => db.age = MaxAge) /\ phase \in 0..3
      /\ db' = e /\ UNCHANGED <<want, phase, countdown, adj, dbx, net, bounds>>
  BY DEF LifeInv, TypeOK, recv_ack
<1>2. e \in Copy /\ Marked(e) /\ ~e.unacked /\ e.seq = db.seq /\ e.body = db.body /\ e.age = db.age
  BY <1>1, Acked
<1> HIDE DEF e
<1>3. CopyFits(e)
  BY <1>1, <1>2 DEF CopyFits
<1>4. RestFits
  BY <1>1 DEF RestFits, LifeInv, TypeOK, bounds
<1> QED
  BY <1>1, <1>2, <1>3, <1>4, Fits DEF GetsNewer

LEMMA NeighborsKeep ==
  ASSUME LifeInv, NEW a \in BOOLEAN, NEW x \in BOOLEAN, Neighbors(a, x)
  PROVE  LifeInv' /\ GetsNewer
<1> DEFINE e == [db EXCEPT !.unacked = FALSE]
<1>1. /\ UNCHANGED <<want, phase, countdown, net, bounds>> /\ phase \in 0..3
      /\ adj' = a /\ dbx' = x /\ (x => a) /\ db \in Copy \cup {None}
      /\ db # None => Marked(db) /\ (phase > 1 => db.age = MaxAge)
  BY DEF LifeInv, TypeOK, Neighbors
<1>2. RestFits
  BY <1>1 DEF RestFits, LifeInv, TypeOK, bounds
<1>3. CASE db # None /\ ~a
  <2>1. db' = e
    BY <1>3 DEF Neighbors
  <2>2. e \in Copy /\ Marked(e) /\ ~e.unacked /\ e.seq = db.seq /\ e.body = db.body /\ e.age = db.age
    BY <1>1, <1>3, Acked
  <2> HIDE DEF e
  <2>3. CopyFits(e)
    BY <1>1, <1>3, <2>2 DEF CopyFits
  <2> QED
    BY <1>1, <1>2, <2>1, <2>2, <2>3, Fits DEF GetsNewer
<1>4. CASE db = None \/ a
  <2>1. db' = db
    BY <1>4 DEF Neighbors
  <2>2. CopyFits(db')
    BY <1>1, <1>4, <2>1 DEF CopyFits, Marked
  <2> QED
    BY <1>1, <1>2, <2>1, <2>2, Fits DEF GetsNewer
<1> QED
  BY <1>3, <1>4

LEMMA ShutdownKeeps ==
  ASSUME LifeInv, shutdown
  PROVE  LifeInv' /\ GetsNewer
<1>1. /\ UNCHANGED <<db, want, adj, dbx, net, bounds>> /\ phase' = 1 /\ countdown' = MaxCountdown
  BY DEF shutdown
<1>2. RestFits
  BY <1>1, Numbers DEF RestFits, LifeInv, TypeOK, bounds
<1>3. CopyFits(db')
  BY <1>1 DEF CopyFits, LifeInv, TypeOK, Marked
<1> QED
  BY <1>1, <1>2, <1>3, Fits DEF GetsNewer

LEMMA RestartKeeps ==
  ASSUME LifeInv, Restart
  PROVE  LifeInv' /\ GetsNewer
<1>1. /\ db' = None /\ want' = None /\ phase' = 0 /\ countdown' = 0
      /\ adj' = FALSE /\ dbx' = FALSE /\ net' = net
  BY DEF Restart
<1>2. RestFits
  <2>1. /\ changes' = changes /\ olds' = olds /\ restarts' = restarts + 1 /\ restarts < MaxRestarts
        /\ changes \in 0..MaxChanges /\ olds \in 0..MaxOld /\ restarts \in 0..MaxRestarts
    BY DEF LifeInv, TypeOK, Restart
  <2>2. MaxRestarts \in Nat /\ restarts' \in 0..MaxRestarts
    BY <2>1, LsaLifeAssumption
  <2>3. adj' \in BOOLEAN /\ dbx' \in BOOLEAN /\ (dbx' => adj')
    BY <1>1
  <2>4. phase' \in 0..3 /\ countdown' \in (0..MaxCountdown) \cup {1}
    BY <1>1, Numbers
  <2> QED
    BY <1>1, <2>1, <2>2, <2>3, <2>4 DEF RestFits
<1>3. CopyFits(db')
  BY <1>1 DEF CopyFits
<1> QED
  BY <1>1, <1>2, <1>3, Fits DEF GetsNewer

(* The tick.  What it may do out of order is to restart the numbers, and   *)
(* then the largest one was in the database and nobody waits for it.       *)
LEMMA TickKeeps ==
  ASSUME LifeInv, dbage
  PROVE  LifeInv' /\ GetsNewer
<1> DEFINE d == Aged(db)
           e == free_maxage_lsas(d)
<1>1. /\ phase \in 0..2 /\ countdown \in (0..MaxCountdown) \cup {1}
      /\ db \in Copy \cup {None} /\ want \in Body \cup {None} /\ adj \in BOOLEAN
      /\ UNCHANGED <<want, adj, dbx, bounds>>
      /\ net' \subseteq net \cup InstanceOf(db')
      /\ db # None => Marked(db) /\ (db.unacked => adj) /\ (phase > 1 => db.age = MaxAge)
  BY DEF LifeInv, TypeOK, dbage, Running
<1>2. \/ db' = e /\ UNCHANGED phase
      \/ db' = e /\ phase' = 3 /\ phase = 2
      \/ db' = lsa_flush(e) /\ phase' = 2 /\ phase = 1
  BY <1>1 DEF dbage, shutdown_continue, shutting_down
<1>3. RestFits
  <2>1. phase' \in 0..3
    BY <1>1, <1>2
  <2>2. \/ countdown' = countdown
        \/ countdown' = countdown - 1 /\ countdown > 1
        \/ countdown' \in {0, 1}
    BY DEF dbage, shutdown_continue
  <2>3. countdown' \in (0..MaxCountdown) \cup {1}
    BY <1>1, <2>2, Numbers
  <2>4. /\ changes \in 0..MaxChanges /\ olds \in 0..MaxOld /\ restarts \in 0..MaxRestarts
        /\ dbx \in BOOLEAN /\ (dbx => adj)
    BY DEF LifeInv, TypeOK
  <2> QED
    BY <1>1, <2>1, <2>3, <2>4 DEF RestFits, bounds
<1>4. CASE db = None
  <2>1. d = None
    BY <1>4 DEF Aged
  <2>2. e = None
    BY <2>1 DEF free_maxage_lsas, MayFree
  <2>3. db' = None
    BY <1>2, <2>2 DEF lsa_flush
  <2> QED
    BY <1>1, <1>3, <1>4, <2>3, Fits DEF CopyFits, GetsNewer
<1>5. CASE db # None
  <2>1. /\ d \in Copy /\ Marked(d) /\ Advances(db, d)
        /\ (d.unacked => db.unacked \/ adj)
        /\ db.age = MaxAge => d = db
        /\ d.rollover /\ ~db.rollover => db.seq = MaxLSSeq /\ (d.unacked <=> adj)
    BY <1>1, <1>5, AgedSucceeds
  <2>2. d.unacked => adj
    BY <1>1, <1>5, <2>1
  <2> HIDE DEF d
  <2>3. /\ e \in Copy \cup {None}
        /\ e # None => Marked(e) /\ (e.unacked => adj)
        /\ shutting_down /\ e # None /\ d.age = MaxAge => e.age = MaxAge
        /\ e # None => e = d \/ (d.rollover /\ ~d.unacked /\ ~dbx)
    BY <1>1, <2>1, <2>2, FreeEnds
  <2> HIDE DEF e
  <2>4. e # None => Succeeds(e, lsa_flush(e)) /\ lsa_flush(e).age = MaxAge
    BY <1>1, <2>3, FlushSucceeds
  <2>5. e = None => lsa_flush(e) = None
    BY DEF lsa_flush
  <2>6. CopyFits(db')
    <3>1. CASE db' = e /\ (phase' = phase \/ (phase' = 3 /\ phase = 2))
      <4>1. phase' > 1 => phase > 1 /\ shutting_down
        BY <1>1, <3>1 DEF shutting_down
      <4>2. phase' > 1 => d.age = MaxAge
        BY <1>1, <1>5, <2>1, <4>1
      <4> QED
        BY <1>1, <2>3, <3>1, <4>1, <4>2 DEF CopyFits
    <3>2. CASE db' = lsa_flush(e)
      <4>1. CASE e = None
        BY <2>5, <3>2, <4>1 DEF CopyFits
      <4>2. CASE e # None
        BY <1>1, <2>3, <2>4, <3>2, <4>2 DEF CopyFits, Succeeds
      <4> QED
        BY <4>1, <4>2
    <3> QED
      BY <1>2, <3>1, <3>2
  <2>7. GetsNewer
    <3>1. SUFFICES ASSUME db' # None
                   PROVE  \/ /\ db'.seq = db.seq /\ db'.body = db.body
                             /\ db.age = MaxAge => db'.age = MaxAge
                          \/ Newer(db', db)
                          \/ db.seq = MaxLSSeq /\ ~db.unacked /\ ~dbx /\ (db.age = MaxAge \/ ~adj)
      BY DEF GetsNewer
    <3>2. e # None /\ (db' = e \/ db' = lsa_flush(e))
      BY <1>2, <2>5, <3>1
    <3>3. CASE e = d
      <4>1. db' \in Copy /\ Advances(d, db')
        BY <2>1, <2>4, <3>2, <3>3 DEF Succeeds, Advances
      <4>2. Advances(db, db')
        BY <1>1, <1>5, <2>1, <4>1, Copies, Numbers DEF Advances
      <4> QED
        BY <1>1, <1>5, <4>1, <4>2, AdvancesIsNewer
    <3>4. CASE d.rollover /\ ~d.unacked /\ ~dbx
      <4>1. CASE db.age = MaxAge
        BY <1>1, <1>5, <2>1, <3>4, <4>1 DEF Marked
      <4>2. CASE db.age # MaxAge
        <5>1. ~db.rollover
          BY <1>1, <1>5, <4>2 DEF Marked
        <5>2. db.seq = MaxLSSeq /\ ~adj
          BY <2>1, <3>4, <5>1
        <5> QED
          BY <1>1, <1>5, <3>4, <5>2
      <4> QED
        BY <4>1, <4>2
    <3> QED
      BY <2>3, <3>2, <3>3, <3>4
  <2> QED
    BY <1>1, <1>3, <2>6, <2>7, Fits
<1> QED
  BY <1>4, <1>5

-----------------------------------------------------------------------------
LEMMA LifeInit == Init => LifeInv
<1> SUFFICES ASSUME Init PROVE LifeInv
  OBVIOUS
<1>1. changes \in 0..MaxChanges /\ olds \in 0..MaxOld /\ restarts \in 0..MaxRestarts
  BY LsaLifeAssumption DEF Init
<1>2. phase \in 0..3 /\ countdown \in (0..MaxCountdown) \cup {1} /\ ~(phase > 1)
  BY Numbers DEF Init
<1>3. adj \in BOOLEAN /\ dbx \in BOOLEAN /\ (dbx => adj)
  BY DEF Init
<1> QED
  BY <1>1, <1>2, <1>3 DEF Init, LifeInv, TypeOK

LEMMA LifeStep == LifeInv /\ [Next]_vars => LifeInv' /\ [GetsNewer]_vars
<1> SUFFICES ASSUME LifeInv, [Next]_vars PROVE LifeInv' /\ [GetsNewer]_vars
  OBVIOUS
<1>1. CASE UNCHANGED vars
  BY <1>1 DEF vars, bounds, LifeInv, TypeOK, Marked
<1>2. CASE Next
  <2>1. LifeInv' /\ GetsNewer
    BY <1>2, ChangeKeeps, RecvUpdateKeeps, AckKeeps, NeighborsKeep, ShutdownKeeps,
       TickKeeps, RestartKeeps DEF Next
  <2> QED
    BY <2>1
<1> QED
  BY <1>1, <1>2

LEMMA LifeInvariant == Spec => []LifeInv
BY LifeInit, LifeStep, PTL DEF Spec

(* A flush that others wait for is carried out before they go on: a copy   *)
(* whose numbers are to start again is being flushed (ospf_get_seqno(),    *)
(* spforig.C), and the process that has stopped (shutdown_continue()) has  *)
(* flushed its LSA.                                                        *)
THEOREM FlushIsAlwaysFinished == Spec => []FlushIsFinished
<1>1. LifeInv => FlushIsFinished
  BY DEF LifeInv, FlushIsFinished, RolloverIsFlushed, GoodbyeIsSaid, Marked
<1> QED
  BY <1>1, LifeInvariant, PTL

(* What the database holds of the LSA only gets more recent, but for the   *)
(* restart of the numbers after the largest one was flushed and the flush  *)
(* acknowledged.                                                           *)
THEOREM InstancesAlwaysGetNewer == Spec => InstancesGetNewer
<1>1. LifeInv /\ [Next]_vars =>
        [db # None /\ db' # None =>
           \/ /\ db'.seq = db.seq /\ db'.body = db.body
              /\ db.age = MaxAge => db'.age = MaxAge
           \/ Newer(db', db)
           \/ db.seq = MaxLSSeq /\ ~db.unacked /\ ~dbx /\ (db.age = MaxAge \/ ~adj)]_vars
  BY LifeStep DEF GetsNewer
<1> QED
  BY <1>1, LifeInvariant, PTL DEF Spec, InstancesGetNewer
=============================================================================
