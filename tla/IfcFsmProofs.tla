---------------------------- MODULE IfcFsmProofs ----------------------------
(***************************************************************************)
(* Proofs about IfcFsm, for any finite set of routers, any priorities and  *)
(* any bounds on failures, Hellos and reconfigurations.                    *)
(***************************************************************************)
EXTENDS IfcFsm, MCDRElection, Recursion, FiniteSetTheorems, WellFoundedInduction, TLAPS

(***************************************************************************)
(* The choice of the election.                                             *)
(***************************************************************************)

\* Candidates that differ in their IDs.
AreCandidates(S) ==
    /\ \A c \in S : c.id \in Router /\ c.pri \in Nat
    /\ \A c, d \in S : c.id = d.id => c = d

\* Candidates that are better than a.
BetterIds(S, a) == {q \in Router : \E c \in S : c.id = q /\ ~Better(a, c)}

\* Candidates are ordered by priority and ID, so one of them is the best.
LEMMA SomeIsBest ==
    ASSUME NEW S, AreCandidates(S), S # {}
    PROVE  \E a \in S : \A b \in S : Better(a, b)
<1> DEFINE T == {BetterIds(S, a) : a \in S}
<1>1. IsWellFoundedOn(StrictSubsetOrdering(Router), SUBSET Router)
  <2>1. IsWellFoundedOn(StrictSubsetOrdering(Router), FiniteSubsetsOf(Router))
    BY FS_StrictSubsetOrderingWellFounded
  <2>2. FiniteSubsetsOf(Router) = SUBSET Router
    BY FS_FiniteSubsetsOfFinite, RouterAssumption
  <2> QED
    BY <2>1, <2>2, Zenon
<1>2. T \subseteq SUBSET Router /\ T # {}
  <2>1. \A a : BetterIds(S, a) \in SUBSET Router
    BY DEF BetterIds
  <2> QED
    BY <2>1
<1>3. PICK x \in T : \A y \in T : ~(<<y, x>> \in StrictSubsetOrdering(Router))
  <2> HIDE DEF T
  <2> QED
    BY <1>1, <1>2, WFMin
<1>4. PICK a \in S : x = BetterIds(S, a)
  BY <1>3
<1>5. SUFFICES ASSUME NEW b \in S, ~Better(a, b) PROVE FALSE
  OBVIOUS
<1>6. BetterIds(S, b) \subseteq BetterIds(S, a)
  <2> SUFFICES ASSUME NEW q \in Router, NEW c \in S, c.id = q, ~Better(b, c)
               PROVE  ~Better(a, c)
    BY DEF BetterIds
  <2>1. /\ a.id \in Nat /\ b.id \in Nat /\ c.id \in Nat
        /\ a.pri \in Nat /\ b.pri \in Nat /\ c.pri \in Nat
    BY RouterAssumption DEF AreCandidates
  <2> QED
    BY <1>5, <2>1 DEF Better
<1>7. b.id \in BetterIds(S, a) /\ b.id \notin BetterIds(S, b)
  <2>1. b.id \in Router /\ b.id \in Nat /\ b.pri \in Nat
    BY RouterAssumption DEF AreCandidates
  <2>2. Better(b, b)
    BY <2>1 DEF Better
  <2> QED
    BY <1>5, <2>1, <2>2 DEF BetterIds, AreCandidates
<1>8. <<BetterIds(S, b), x>> \in StrictSubsetOrdering(Router)
  BY <1>4, <1>6, <1>7 DEF StrictSubsetOrdering, BetterIds
<1> QED
  BY <1>3, <1>8

\* The best of a set of candidates is one of them, better than the others.
LEMMA BestIsBest ==
    ASSUME NEW S, AreCandidates(S)
    PROVE  /\ S = {} => Best(S) = None
           /\ S # {} => \E a \in S : Best(S) = a.id /\ \A b \in S : Better(a, b)
  BY SomeIsBest DEF Best

-----------------------------------------------------------------------------
(***************************************************************************)
(* One election.                                                           *)
(***************************************************************************)

\* if_dr_p is right when there is a DR.
PointerRight(f) == f.dr # None => f.dr_p = IF f.dr = f.me THEN None ELSE f.dr

\* What an address that has been elected is.
MayLead(f, a) ==
    /\ a \in Bidirectional(f) \cup {f.me, None}
    /\ a = f.me => f.drpri > 0

\* f and g differ in what an election decides only.
SameNbrs(f, g) == g.me = f.me /\ g.drpri = f.drpri /\ g.nbr = f.nbr

\* The best DR is the router itself: no better neighbour declares itself DR.
Unchallenged(f) == \A c \in Candidates(f) : c.is_dr => ~Better(c, Self(f))

\* No neighbour declares itself DR or Backup.
Unclaimed(f) == \A c \in Candidates(f) : ~c.is_dr /\ ~c.is_bdr

LEMMA Ids ==
    /\ None \notin Router /\ Freed \notin Router /\ Freed # None
    /\ \A r \in Router : r \in Nat /\ r \notin Others(r) /\ r # None
    /\ \A p \in Pris \cup {0} : p \in Nat
  BY RouterAssumption, IfcAssumption DEF None, Freed, Others

\* The routers an interface takes part in an election with, and itself.
LEMMA ElectionCandidates ==
    ASSUME NEW r \in Router, NEW f \in IfcRecord(r)
    PROVE  /\ AreCandidates(Candidates(f) \cup {Self(f)})
           /\ Self(f).id = r /\ Self(f).pri = f.drpri
           /\ \A c \in Candidates(f) : c.id \in Bidirectional(f)
           /\ Bidirectional(f) \subseteq Others(r)
<1>1. /\ f.me = r /\ f.drpri \in Nat /\ f.nbr \in [Others(r) -> NbrRecord]
  BY Ids DEF IfcRecord
<1>2. Self(f).id = r /\ Self(f).pri = f.drpri
  BY <1>1 DEF Self
<1>3. Bidirectional(f) \subseteq Others(r)
  BY <1>1 DEF Bidirectional
<1>4. \A c \in Candidates(f) : /\ c.id \in Bidirectional(f) /\ c.pri = f.nbr[c.id].pri
                               /\ c.is_dr = declared_dr(f, c.id)
                               /\ c.is_bdr = declared_bdr(f, c.id)
  BY DEF Candidates
<1>5. \A q \in Others(r) : f.nbr[q].pri \in Nat
  BY <1>1, Ids DEF NbrRecord
<1>6. \A c, d \in Candidates(f) : c.id = d.id => c = d
  BY DEF Candidates
<1>7. \A c \in Candidates(f) : c.id \in Router /\ c.id # r /\ c.pri \in Nat
  BY <1>3, <1>4, <1>5 DEF Others
<1>8. AreCandidates(Candidates(f) \cup {Self(f)})
  BY <1>1, <1>2, <1>6, <1>7 DEF AreCandidates
<1> QED
  BY <1>2, <1>3, <1>4, <1>8

LEMMA SubCandidates ==
    ASSUME NEW S, AreCandidates(S), NEW T \in SUBSET S
    PROVE  AreCandidates(T)
  BY DEF AreCandidates

\* The Backup elected.
LEMMA BdrElected ==
    ASSUME NEW r \in Router, NEW f \in IfcRecord(r)
    PROVE  /\ MayLead(f, BdrChoice(Self(f), Candidates(f)))
           /\ /\ f.bdr = r /\ f.dr # r /\ f.drpri > 0 /\ Unclaimed(f)
              => BdrChoice(Self(f), Candidates(f)) = r
<1> DEFINE me == Self(f)
           all == {c \in Candidates(f) \cup {me} : c.pri > 0 /\ ~c.is_dr}
           declared == {c \in all : c.is_bdr}
           S == IF declared # {} THEN declared ELSE all
           b == BdrChoice(me, Candidates(f))
<1>1. AreCandidates(S)
  BY ElectionCandidates, SubCandidates
<1>2. b = Best(S)
  BY DEF BdrChoice
<1>3. f.me = r /\ me.id = r /\ me.pri = f.drpri
  BY ElectionCandidates DEF IfcRecord
<1>4. b = None \/ \E c \in all : b = c.id
  <2>1. S \subseteq all
    OBVIOUS
  <2> HIDE DEF S, b, all
  <2> QED
    BY <1>1, <1>2, <2>1, BestIsBest
<1>5. MayLead(f, b)
  <2>1. \A c \in all : MayLead(f, c.id)
    BY <1>3, ElectionCandidates, Ids DEF MayLead, Others
  <2>2. MayLead(f, None)
    BY <1>3, Ids DEF MayLead
  <2> HIDE DEF b, all
  <2> QED
    BY <1>4, <2>1, <2>2
<1>6. ASSUME f.bdr = r, f.dr # r, f.drpri > 0, Unclaimed(f)
      PROVE  b = r
  <2>1. me.is_bdr /\ ~me.is_dr
    BY <1>3, <1>6 DEF Self
  <2>2. S = {me}
    BY <1>3, <1>6, <2>1 DEF Unclaimed
  <2> HIDE DEF S, b
  <2> QED
    BY <1>1, <1>2, <1>3, <2>2, BestIsBest
<1> QED
  BY <1>5, <1>6

\* The DR elected.
LEMMA DrElected ==
    ASSUME NEW r \in Router, NEW f \in IfcRecord(r)
    PROVE  /\ MayLead(f, DrChoice(Self(f), Candidates(f)))
           /\ /\ f.dr = r /\ f.drpri > 0 /\ Unchallenged(f)
              => DrChoice(Self(f), Candidates(f)) = r
           /\ f.dr # r /\ Unclaimed(f) => DrChoice(Self(f), Candidates(f)) = None
<1> DEFINE me == Self(f)
           S == {c \in Candidates(f) \cup {me} : c.is_dr /\ c.pri > 0}
           d == DrChoice(me, Candidates(f))
<1>1. AreCandidates(S)
  BY ElectionCandidates, SubCandidates
<1>2. d = Best(S)
  BY DEF DrChoice
<1>3. f.me = r /\ me.id = r /\ me.pri = f.drpri
  BY ElectionCandidates DEF IfcRecord
<1>4. /\ S = {} => d = None
      /\ S # {} => \E c \in S : d = c.id /\ \A e \in S : Better(c, e)
  <2> HIDE DEF S, d
  <2> QED
    BY <1>1, <1>2, BestIsBest
<1>5. MayLead(f, d)
  <2>1. ASSUME NEW c \in S
        PROVE  MayLead(f, c.id)
    <3>1. CASE c = me
      BY <1>3, <3>1, Ids DEF MayLead
    <3>2. CASE c # me
      <4>1. c.id \in Bidirectional(f) /\ c.id \in Others(r)
        BY <3>2, ElectionCandidates
      <4>2. c.id # f.me
        BY <1>3, <4>1 DEF Others
      <4> QED
        BY <4>1, <4>2 DEF MayLead
    <3> QED
      BY <3>1, <3>2
  <2>2. MayLead(f, None)
    BY <1>3, Ids DEF MayLead
  <2> HIDE DEF d, S
  <2> QED
    BY <1>4, <2>1, <2>2
<1>6. ASSUME f.dr = r, f.drpri > 0, Unchallenged(f)
      PROVE  d = r
  <2>1. me \in S
    BY <1>3, <1>6 DEF Self
  <2>2. \A c \in S : c = me \/ ~Better(c, me)
    BY <1>6 DEF Unchallenged
  <2> HIDE DEF S, d
  <2> QED
    BY <1>3, <1>4, <2>1, <2>2
<1>7. ASSUME f.dr # r, Unclaimed(f)
      PROVE  d = None
  <2>1. ~me.is_dr
    BY <1>3, <1>7 DEF Self
  <2>2. S = {}
    BY <1>7, <2>1 DEF Unclaimed
  <2> HIDE DEF S, d
  <2> QED
    BY <1>4, <2>2
<1> QED
  BY <1>5, <1>6, <1>7

\* What one pass decides.
Decided(f, g) ==
    /\ SameNbrs(f, g)
    /\ MayLead(f, g.dr) /\ MayLead(f, g.bdr)
    /\ PointerRight(g)

LEMMA PassDecides ==
    ASSUME NEW r \in Router, NEW f \in IfcRecord(r), PointerRight(f),
           NEW helping \in BOOLEAN
    PROVE  /\ ElectPass(f, helping) \in IfcRecord(r)
           /\ Decided(f, ElectPass(f, helping))
<1> DEFINE b == BdrChoice(Self(f), Candidates(f))
           e == DrChoice(Self(f), Candidates(f))
           d == IF e = None THEN b ELSE e
           g == ElectPass(f, helping)
<1>1. MayLead(f, b) /\ MayLead(f, d) /\ MayLead(f, None)
  <2>1. MayLead(f, None)
    BY Ids DEF MayLead, IfcRecord
  <2> QED
    BY <2>1, BdrElected, DrElected
<1>2. f.me = r /\ Bidirectional(f) \subseteq Others(r) /\ DOMAIN f.nbr = Others(r)
  BY ElectionCandidates DEF IfcRecord
<1>3. /\ b \in Router \cup {None} /\ d \in Router \cup {None}
      /\ d \in Others(r) \cup {r, None}
  BY <1>1, <1>2 DEF MayLead, Others
<1>4. NbrPtr(f, d) = IF d = r \/ d = None THEN None ELSE d
  BY <1>2, <1>3, Ids DEF NbrPtr, Others
<1>5. g = IF f.dr_p = Freed /\ helping
          THEN [f EXCEPT !.bdr = b]
          ELSE [f EXCEPT !.bdr = b, !.dr = d, !.dr_p = NbrPtr(f, d)]
  BY DEF ElectPass
<1> HIDE DEF b, d, g, e
<1>6. CASE f.dr_p = Freed /\ helping
  <2>1. f.dr = None
    BY <1>6, Ids DEF PointerRight, IfcRecord
  <2>2. g = [f EXCEPT !.bdr = b]
    BY <1>5, <1>6
  <2>3. g \in IfcRecord(r)
    BY <2>2, <1>3 DEF IfcRecord
  <2>4. SameNbrs(f, g) /\ g.dr = None /\ g.bdr = b
    BY <2>1, <2>2 DEF SameNbrs, IfcRecord
  <2> QED
    BY <1>1, <2>3, <2>4 DEF Decided, PointerRight, g
<1>7. CASE ~(f.dr_p = Freed /\ helping)
  <2>1. g = [f EXCEPT !.bdr = b, !.dr = d, !.dr_p = NbrPtr(f, d)]
    BY <1>5, <1>7
  <2>2. NbrPtr(f, d) \in Others(r) \cup {None, Freed}
    BY <1>3, <1>4
  <2>3. g \in IfcRecord(r)
    BY <2>1, <2>2, <1>3 DEF IfcRecord
  <2>4. SameNbrs(f, g) /\ g.dr = d /\ g.bdr = b /\ g.dr_p = NbrPtr(f, d)
    BY <2>1 DEF SameNbrs, IfcRecord
  <2>5. PointerRight(g)
    BY <1>2, <1>4, <2>4 DEF PointerRight, SameNbrs
  <2> QED
    BY <1>1, <2>3, <2>4, <2>5 DEF Decided, g
<1> QED
  BY <1>6, <1>7

\* What one pass does with the roles of the router itself.
LEMMA PassRoles ==
    ASSUME NEW r \in Router, NEW f \in IfcRecord(r), PointerRight(f),
           NEW helping \in BOOLEAN
    PROVE  /\ f.dr = r /\ f.drpri > 0 /\ Unchallenged(f) => ElectPass(f, helping).dr = r
           /\ /\ f.dr # r /\ f.dr # None /\ f.bdr = r /\ f.drpri > 0 /\ Unclaimed(f)
              => ElectPass(f, helping).dr = r
<1> DEFINE b == BdrChoice(Self(f), Candidates(f))
           e == DrChoice(Self(f), Candidates(f))
           d == IF e = None THEN b ELSE e
           g == ElectPass(f, helping)
<1>1. g = IF f.dr_p = Freed /\ helping
          THEN [f EXCEPT !.bdr = b]
          ELSE [f EXCEPT !.bdr = b, !.dr = d, !.dr_p = NbrPtr(f, d)]
  BY DEF ElectPass
<1>2. ASSUME f.dr # None PROVE g.dr = d
  <2>1. f.dr_p # Freed
    BY <1>2, Ids DEF PointerRight, IfcRecord
  <2> HIDE DEF b, d, g
  <2> QED
    BY <1>1, <2>1 DEF IfcRecord
<1>3. f.dr = r /\ f.drpri > 0 /\ Unchallenged(f) => d = r /\ f.dr # None
  BY DrElected, Ids
<1>4. f.dr # r /\ f.bdr = r /\ f.drpri > 0 /\ Unclaimed(f) => d = r
  BY DrElected, BdrElected
<1> HIDE DEF d
<1> QED
  BY <1>2, <1>3, <1>4

LEMMA SameNbrsSameVoters ==
    ASSUME NEW f, NEW g, SameNbrs(f, g)
    PROVE  /\ Bidirectional(g) = Bidirectional(f)
           /\ Candidates(g) = Candidates(f)
           /\ \A a : MayLead(g, a) <=> MayLead(f, a)
           /\ \A c : Better(c, Self(g)) <=> Better(c, Self(f))
           /\ Unchallenged(g) <=> Unchallenged(f)
           /\ Unclaimed(g) <=> Unclaimed(f)
<1>1. g.me = f.me /\ g.drpri = f.drpri /\ g.nbr = f.nbr
  BY DEF SameNbrs
<1>2. Bidirectional(g) = Bidirectional(f)
  BY <1>1 DEF Bidirectional
<1>3. Candidates(g) = Candidates(f)
  BY <1>1, <1>2 DEF Candidates, declared_dr, declared_bdr
<1>4. \A a : MayLead(g, a) <=> MayLead(f, a)
  BY <1>1, <1>2 DEF MayLead
<1>5. Self(g).id = Self(f).id /\ Self(g).pri = Self(f).pri
  BY <1>1 DEF Self
<1>6. \A c : Better(c, Self(g)) <=> Better(c, Self(f))
  BY <1>5 DEF Better
<1>7. Unchallenged(g) <=> Unchallenged(f)
  BY <1>3, <1>6 DEF Unchallenged
<1> QED
  BY <1>2, <1>3, <1>4, <1>6, <1>7 DEF Unclaimed

-----------------------------------------------------------------------------
(***************************************************************************)
(* What an election leaves, and what each of the handlers leaves.          *)
(***************************************************************************)

\* State, addresses and pointer agree.
Coherent(f) ==
    /\ f.state \in {"Down", "Wait"} => f.dr = None /\ f.bdr = None
    /\ f.state \in Multi => f.state = Role(f) /\ MayLead(f, f.dr) /\ MayLead(f, f.bdr)
    /\ PointerRight(f)

\* A router that was DR is DR, unless it is ineligible or challenged.
Stays(f, g) ==
    f.state = "DR" /\ g.state # "DR" =>
        g.state = "Down" \/ g.drpri = 0 \/ ~Unchallenged(g)

\* A Backup that lost the DR is DR, unless a neighbour claims a role.
Follows(f, g) ==
    /\ f.state = "Backup" /\ g.state # "Down"
    /\ f.dr \in Bidirectional(f) \ Bidirectional(g)
    /\ Unclaimed(g)
    => g.state = "DR"

LEMMA ElectionDecides ==
    ASSUME NEW r \in Router, NEW f \in IfcRecord(r), PointerRight(f),
           NEW helping \in BOOLEAN
    PROVE  /\ ifa_elect(f, helping) \in IfcRecord(r)
           /\ SameNbrs(f, ifa_elect(f, helping))
           /\ Coherent(ifa_elect(f, helping))
           /\ ifa_elect(f, helping).state \in Multi
           /\ f.dr = r /\ ifa_elect(f, helping).state # "DR" =>
                f.drpri = 0 \/ ~Unchallenged(f)
           /\ /\ f.dr # r /\ f.dr # None /\ f.bdr = r /\ f.drpri > 0 /\ Unclaimed(f)
              => ifa_elect(f, helping).state = "DR"
<1> DEFINE g == ElectPass(f, helping)
           h == IF PassRepeats(f, g) THEN ElectPass(g, helping) ELSE g
           e == ifa_elect(f, helping)
<1>1. g \in IfcRecord(r) /\ Decided(f, g) /\ PointerRight(g)
  BY PassDecides DEF Decided
<1>2. e = [h EXCEPT !.state = Role(h)]
  BY DEF ifa_elect
<1>3. f.me = r /\ f.drpri \in Nat
  BY Ids DEF IfcRecord
<1>4. /\ f.dr = r /\ f.drpri > 0 /\ Unchallenged(f) => g.dr = r
      /\ /\ f.dr # r /\ f.dr # None /\ f.bdr = r /\ f.drpri > 0 /\ Unclaimed(f)
         => g.dr = r
  BY PassRoles
<1>5. Unclaimed(f) => Unchallenged(f)
  BY DEF Unclaimed, Unchallenged
<1> HIDE DEF g
<1>6. h \in IfcRecord(r) /\ Decided(f, h)
  <2>1. ElectPass(g, helping) \in IfcRecord(r) /\ Decided(g, ElectPass(g, helping))
    BY <1>1, PassDecides
  <2>2. Decided(f, ElectPass(g, helping))
    BY <1>1, <2>1, SameNbrsSameVoters DEF Decided, SameNbrs
  <2> QED
    BY <1>1, <2>1, <2>2
<1>7. g.dr = r /\ f.drpri > 0 /\ Unchallenged(f) => h.dr = r
  <2>1. g.drpri = f.drpri /\ (Unchallenged(g) <=> Unchallenged(f))
    BY <1>1, SameNbrsSameVoters DEF Decided, SameNbrs
  <2>2. g.dr = r /\ g.drpri > 0 /\ Unchallenged(g) => ElectPass(g, helping).dr = r
    BY <1>1, PassRoles
  <2> QED
    BY <2>1, <2>2
<1> HIDE DEF h, e
<1>8. Role(h) \in Multi
  BY DEF Role, Multi
<1>9. e \in IfcRecord(r)
  BY <1>2, <1>6, <1>8 DEF IfcRecord
<1>10. /\ e.state = Role(h) /\ e.me = h.me /\ e.drpri = h.drpri /\ e.nbr = h.nbr
       /\ e.dr = h.dr /\ e.bdr = h.bdr /\ e.dr_p = h.dr_p
  BY <1>2, <1>6 DEF IfcRecord
<1>11. SameNbrs(f, e)
  BY <1>6, <1>10 DEF Decided, SameNbrs
<1>12. Coherent(e)
  <2>1. Role(e) = Role(h)
    BY <1>10 DEF Role
  <2>2. MayLead(e, e.dr) /\ MayLead(e, e.bdr) /\ PointerRight(e)
    BY <1>6, <1>10, <1>11, SameNbrsSameVoters DEF Decided, PointerRight
  <2> QED
    BY <1>8, <1>10, <2>1, <2>2 DEF Coherent, Multi
<1>13. h.dr = r => e.state = "DR"
  BY <1>3, <1>6, <1>10 DEF Role, Decided, SameNbrs
<1>14. e.state \in Multi
  BY <1>8, <1>10
<1>15. f.dr = r /\ e.state # "DR" => f.drpri = 0 \/ ~Unchallenged(f)
  BY <1>3, <1>4, <1>7, <1>13
<1>16. f.dr # r /\ f.dr # None /\ f.bdr = r /\ f.drpri > 0 /\ Unclaimed(f) => e.state = "DR"
  BY <1>4, <1>5, <1>7, <1>13
<1> QED
  BY <1>9, <1>11, <1>12, <1>14, <1>15, <1>16 DEF e

\* f is what a handler has made of a coherent record before an election.
Ready(f) ==
    /\ f.state \in {"Down", "Wait"} => f.dr = None /\ f.bdr = None
    /\ PointerRight(f)

\* NeighborChange makes a record that is ready coherent.
LEMMA ChangeDecides ==
    ASSUME NEW r \in Router, NEW f \in IfcRecord(r), Ready(f),
           NEW helping \in BOOLEAN
    PROVE  /\ NeighborChange(f, helping) \in IfcRecord(r)
           /\ Coherent(NeighborChange(f, helping))
           /\ SameNbrs(f, NeighborChange(f, helping))
           /\ f.state \in Multi <=> NeighborChange(f, helping).state \in Multi
           /\ f.state \in Multi /\ f.dr = r /\ NeighborChange(f, helping).state # "DR" =>
                f.drpri = 0 \/ ~Unchallenged(f)
           /\ /\ f.state \in Multi /\ Unclaimed(f)
              /\ f.dr # r /\ f.dr # None /\ f.bdr = r /\ f.drpri > 0
              => NeighborChange(f, helping).state = "DR"
<1>1. CASE f.state \in Multi
  <2>1. NeighborChange(f, helping) = ifa_elect(f, helping)
    BY <1>1 DEF NeighborChange
  <2> QED
    BY <1>1, <2>1, ElectionDecides DEF Ready
<1>2. CASE f.state \notin Multi
  <2>1. NeighborChange(f, helping) = f
    BY <1>2 DEF NeighborChange
  <2>2. Coherent(f)
    BY <1>2 DEF Coherent, Ready
  <2> QED
    BY <1>2, <2>1, <2>2 DEF SameNbrs
<1> QED
  BY <1>1, <1>2

LEMMA WaitOverDecides ==
    ASSUME NEW r \in Router, NEW f \in IfcRecord(r), Coherent(f),
           NEW helping \in BOOLEAN
    PROVE  /\ WaitOver(f, helping) \in IfcRecord(r)
           /\ Coherent(WaitOver(f, helping))
           /\ SameNbrs(f, WaitOver(f, helping))
           /\ f.state # "Wait" => WaitOver(f, helping) = f
<1>1. CASE f.state = "Wait"
  <2>1. WaitOver(f, helping) = ifa_elect(f, helping)
    BY <1>1 DEF WaitOver
  <2> QED
    BY <1>1, <2>1, ElectionDecides DEF Coherent
<1>2. CASE f.state # "Wait"
  <2>1. WaitOver(f, helping) = f
    BY <1>2 DEF WaitOver
  <2> QED
    BY <1>2, <2>1 DEF SameNbrs
<1> QED
  BY <1>1, <1>2

\* The role and what goes with it of a router that is DR or Backup.
LEMMA Leader ==
    ASSUME NEW r \in Router, NEW f \in IfcRecord(r), Coherent(f)
    PROVE  /\ f.state = "DR" => f.dr = r
           /\ f.state = "Backup" => f.dr # r /\ f.bdr = r /\ f.drpri > 0
           /\ f.dr # None => f.state \in Multi
  BY DEF Coherent, Role, Multi, MayLead, IfcRecord

\* The record with a neighbour in another state is ready for an election.
SetNbr(f, q, np) == [f EXCEPT !.nbr[q] = np]

LEMMA SetNbrReady ==
    ASSUME NEW r \in Router, NEW f \in IfcRecord(r), Coherent(f),
           NEW q \in Others(r), NEW np \in NbrRecord
    PROVE  LET g == SetNbr(f, q, np) IN
           /\ g \in IfcRecord(r) /\ Ready(g)
           /\ g.me = r /\ g.state = f.state /\ g.drpri = f.drpri
           /\ g.dr = f.dr /\ g.bdr = f.bdr /\ g.nbr[q] = np
           /\ Bidirectional(g) \ {q} = Bidirectional(f) \ {q}
           /\ q \in Bidirectional(g) <=> np.state = "2Way"
           /\ (np.state = "2Way" <=> f.nbr[q].state = "2Way") => Coherent(g)
<1> DEFINE g == SetNbr(f, q, np)
<1>1. f.me = r /\ f.nbr \in [Others(r) -> NbrRecord]
  BY DEF IfcRecord
<1>2. /\ g \in IfcRecord(r) /\ g.me = r /\ g.state = f.state /\ g.drpri = f.drpri
      /\ g.dr = f.dr /\ g.bdr = f.bdr /\ g.dr_p = f.dr_p
      /\ g.nbr = [f.nbr EXCEPT ![q] = np]
  BY DEF IfcRecord, SetNbr
<1> HIDE DEF g
<1>3. Ready(g)
  <2>1. PointerRight(g)
    BY <1>1, <1>2 DEF Coherent, PointerRight
  <2> QED
    BY <1>2, <2>1 DEF Ready, Coherent
<1>4. /\ Bidirectional(g) \ {q} = Bidirectional(f) \ {q}
      /\ q \in Bidirectional(g) <=> np.state = "2Way"
      /\ g.nbr[q] = np
  BY <1>1, <1>2 DEF Bidirectional
<1>5. ASSUME np.state = "2Way" <=> f.nbr[q].state = "2Way"
      PROVE  Coherent(g)
  <2>1. Bidirectional(g) = Bidirectional(f)
    BY <1>1, <1>4, <1>5 DEF Bidirectional
  <2>2. \A a : MayLead(g, a) <=> MayLead(f, a)
    BY <1>1, <1>2, <2>1 DEF MayLead
  <2>3. Role(g) = Role(f)
    BY <1>1, <1>2 DEF Role
  <2> QED
    BY <1>2, <1>3, <2>2, <2>3 DEF Coherent, Ready
<1> QED
  BY <1>2, <1>3, <1>4, <1>5 DEF g

\* f, g: the record before and after a handler.
Handled(r, f, g) ==
    /\ g \in IfcRecord(r)
    /\ Coherent(g)
    /\ Stays(f, g)
    /\ Follows(f, g)

LEMMA NbrMovesHandled ==
    ASSUME NEW r \in Router, NEW f \in IfcRecord(r), Coherent(f),
           NEW q \in Others(r), NEW np \in NbrRecord, NEW helping \in BOOLEAN
    PROVE  /\ Handled(r, f, NbrMoves(f, q, np, helping))
           /\ Bidirectional(NbrMoves(f, q, np, helping)) \ {q} = Bidirectional(f) \ {q}
           /\ q \in Bidirectional(NbrMoves(f, q, np, helping)) <=> np.state = "2Way"
           /\ f.state \in Multi => NbrMoves(f, q, np, helping).state \in Multi
<1> DEFINE g == SetNbr(f, q, np)
           h == NbrMoves(f, q, np, helping)
<1>1. /\ g \in IfcRecord(r) /\ Ready(g)
      /\ g.me = r /\ g.state = f.state /\ g.drpri = f.drpri
      /\ g.dr = f.dr /\ g.bdr = f.bdr /\ g.nbr[q] = np
      /\ Bidirectional(g) \ {q} = Bidirectional(f) \ {q}
      /\ q \in Bidirectional(g) <=> np.state = "2Way"
      /\ (np.state = "2Way" <=> f.nbr[q].state = "2Way") => Coherent(g)
  BY SetNbrReady
<1>2. q \in Bidirectional(f) <=> f.nbr[q].state = "2Way"
  BY DEF Bidirectional, IfcRecord
<1>3. h = IF (np.state = "2Way") # (f.nbr[q].state = "2Way")
          THEN NeighborChange(g, helping) ELSE g
  BY DEF NbrMoves, SetNbr
<1> HIDE DEF g
<1>4. CASE np.state = "2Way" <=> f.nbr[q].state = "2Way"
  <2>1. h = g
    BY <1>3, <1>4
  <2>2. Bidirectional(g) = Bidirectional(f)
    BY <1>1, <1>2, <1>4
  <2> QED
    BY <1>1, <1>4, <2>1, <2>2 DEF Handled, Stays, Follows
<1>5. CASE ~(np.state = "2Way" <=> f.nbr[q].state = "2Way")
  <2>1. h = NeighborChange(g, helping)
    BY <1>3, <1>5
  <2> HIDE DEF h
  <2>2. /\ h \in IfcRecord(r) /\ Coherent(h) /\ SameNbrs(g, h)
        /\ g.state \in Multi <=> h.state \in Multi
        /\ g.state \in Multi /\ g.dr = r /\ h.state # "DR" =>
              g.drpri = 0 \/ ~Unchallenged(g)
        /\ /\ g.state \in Multi /\ Unclaimed(g)
           /\ g.dr # r /\ g.dr # None /\ g.bdr = r /\ g.drpri > 0
           => h.state = "DR"
    BY <1>1, <2>1, ChangeDecides
  <2>3. /\ Bidirectional(h) = Bidirectional(g) /\ h.drpri = g.drpri
        /\ Unchallenged(h) <=> Unchallenged(g)
        /\ Unclaimed(h) <=> Unclaimed(g)
    BY <2>2, SameNbrsSameVoters DEF SameNbrs
  <2>4. Stays(f, h)
    BY <1>1, <2>2, <2>3, Leader DEF Stays, Multi
  <2>5. Follows(f, h)
    <3>1. None \notin Bidirectional(f)
      BY ElectionCandidates, Ids DEF Others
    <3> QED
      BY <1>1, <2>2, <2>3, <3>1, Leader DEF Follows, Multi
  <2> QED
    BY <1>1, <2>2, <2>3, <2>4, <2>5 DEF Handled, h
<1> QED
  BY <1>4, <1>5

Hello ==
    [pri : Pris \cup {0}, dr : Router \cup {None}, bdr : Router \cup {None},
     heard : BOOLEAN, sent : BOOLEAN]

LEMMA Recv1WayHandled ==
    ASSUME NEW r \in Router, NEW f \in IfcRecord(r), Coherent(f),
           NEW q \in Others(r), NEW h \in Hello, NEW helping \in BOOLEAN
    PROVE  Handled(r, f, Recv1Way(f, q, h, helping))
<1>1. [state |-> "Init", pri |-> h.pri, dr |-> h.dr, bdr |-> h.bdr] \in NbrRecord
  BY DEF Hello, NbrRecord
<1> QED
  BY <1>1, NbrMovesHandled DEF Recv1Way

LEMMA Recv2WayHandled ==
    ASSUME NEW r \in Router, NEW f \in IfcRecord(r), Coherent(f),
           NEW q \in Others(r), NEW h \in Hello, NEW helping \in BOOLEAN,
           NEW garbage \in BOOLEAN
    PROVE  Handled(r, f, Recv2Way(f, q, h, helping, garbage))
<1> DEFINE np == [state |-> "2Way", pri |-> h.pri, dr |-> h.dr, bdr |-> h.bdr]
           g == NbrMoves(f, q, np, helping)
           k == Recv2Way(f, q, h, helping, garbage)
<1>1. np \in NbrRecord /\ np.state = "2Way"
  BY DEF Hello, NbrRecord
<1>2. /\ Handled(r, f, g)
      /\ Bidirectional(g) \ {q} = Bidirectional(f) \ {q} /\ q \in Bidirectional(g)
      /\ f.state \in Multi => g.state \in Multi
  <2> HIDE DEF np
  <2> QED
    BY <1>1, NbrMovesHandled
<1>3. \/ g.state = "Wait" /\ k = WaitOver(g, helping)
      \/ k = NeighborChange(g, helping)
      \/ k = g
  BY DEF Recv2Way
<1> HIDE DEF np, g, k
<1>4. g \in IfcRecord(r) /\ Coherent(g) /\ Bidirectional(f) \subseteq Bidirectional(g)
  BY <1>2 DEF Handled
<1>5. CASE g.state = "Wait" /\ k = WaitOver(g, helping)
  <2>1. k \in IfcRecord(r) /\ Coherent(k)
    BY <1>4, <1>5, WaitOverDecides
  <2>2. f.state \notin Multi
    BY <1>2, <1>5 DEF Multi
  <2> QED
    BY <2>1, <2>2 DEF Handled, Stays, Follows, Multi, k
<1>6. CASE k = NeighborChange(g, helping)
  <2>1. Ready(g)
    BY <1>4 DEF Ready, Coherent
  <2>2. /\ k \in IfcRecord(r) /\ Coherent(k) /\ SameNbrs(g, k)
        /\ g.state \in Multi /\ g.dr = r /\ k.state # "DR" =>
              g.drpri = 0 \/ ~Unchallenged(g)
    BY <1>4, <1>6, <2>1, ChangeDecides
  <2>3. /\ Bidirectional(k) = Bidirectional(g) /\ k.drpri = g.drpri
        /\ Unchallenged(k) <=> Unchallenged(g)
    BY <2>2, SameNbrsSameVoters DEF SameNbrs
  <2>4. Stays(f, k)
    BY <1>2, <1>4, <2>2, <2>3, Leader DEF Handled, Stays, Multi
  <2>5. Follows(f, k)
    BY <1>4, <2>3 DEF Follows
  <2> QED
    BY <2>2, <2>4, <2>5 DEF Handled, k
<1>7. CASE k = g
  BY <1>2, <1>7 DEF k
<1> QED
  BY <1>3, <1>5, <1>6, <1>7

LEMMA WaitOverHandled ==
    ASSUME NEW r \in Router, NEW f \in IfcRecord(r), Coherent(f),
           f.state = "Wait", NEW helping \in BOOLEAN
    PROVE  Handled(r, f, WaitOver(f, helping))
  BY WaitOverDecides DEF Handled, Stays, Follows

\* The interface that comes up has no DR.
Started(f) == [f EXCEPT !.state = IF f.drpri = 0 THEN "Other" ELSE "Wait"]

LEMMA StartHandled ==
    ASSUME NEW r \in Router, NEW f \in IfcRecord(r), Coherent(f),
           f.state = "Down"
    PROVE  Handled(r, f, Started(f))
<1> DEFINE g == Started(f)
<1>1. g \in IfcRecord(r) /\ g.state \in {"Other", "Wait"}
  BY DEF Started, IfcRecord, Multi
<1>2. /\ f.dr = None /\ f.bdr = None
      /\ g.dr = None /\ g.bdr = None /\ g.me = r
  BY DEF Started, IfcRecord, Coherent
<1> HIDE DEF g
<1>3. MayLead(g, None) /\ Role(g) = "Other" /\ PointerRight(g)
  BY <1>2, Ids DEF MayLead, Role, PointerRight
<1>4. Coherent(g)
  BY <1>1, <1>2, <1>3 DEF Coherent, Multi
<1> QED
  BY <1>1, <1>4 DEF Handled, Stays, Follows, g

LEMMA DeletedType ==
    ASSUME NEW np \in NbrRecord
    PROVE  Deleted(np) \in NbrRecord /\ Deleted(np).state # "2Way"
  BY DEF Deleted, NbrRecord

LEMMA ResetHandled ==
    ASSUME NEW r \in Router, NEW f \in IfcRecord(r), Coherent(f)
    PROVE  Handled(r, f, ResetIfc(f))
<1> DEFINE nbrs == [q \in DOMAIN f.nbr |-> Deleted(f.nbr[q])]
           g == ResetIfc(f)
<1>1. nbrs \in [Others(r) -> NbrRecord]
  BY DeletedType DEF IfcRecord
<1>2. g = [f EXCEPT !.state = "Down", !.dr = None, !.bdr = None, !.nbr = nbrs]
  BY DEF ResetIfc
<1> HIDE DEF nbrs, g
<1>3. g \in IfcRecord(r) /\ g.state = "Down" /\ g.dr = None /\ g.bdr = None
  BY <1>1, <1>2 DEF IfcRecord
<1>4. Coherent(g)
  BY <1>3 DEF Coherent, PointerRight, Multi
<1> QED
  BY <1>3, <1>4 DEF Handled, Stays, Follows, g

LEMMA FreeHandled ==
    ASSUME NEW r \in Router, NEW f \in IfcRecord(r), Coherent(f)
    PROVE  Handled(r, f, FreeDownNbrs(f))
<1> DEFINE down == {q \in DOMAIN f.nbr : f.nbr[q].state = "Down"}
           nbrs == [q \in DOMAIN f.nbr |-> IF q \in down THEN NoNbr ELSE f.nbr[q]]
           g == FreeDownNbrs(f)
<1>1. f.me = r /\ f.nbr \in [Others(r) -> NbrRecord] /\ DOMAIN f.nbr = Others(r)
  BY DEF IfcRecord
<1>2. nbrs \in [Others(r) -> NbrRecord]
  <2>1. NoNbr \in NbrRecord
    BY DEF NoNbr, NbrRecord
  <2> QED
    BY <1>1, <2>1
<1>3. g = [f EXCEPT !.nbr = nbrs, !.dr_p = IF f.dr_p \in down THEN Freed ELSE f.dr_p]
  BY DEF FreeDownNbrs, IfcRecord
<1>4. /\ DOMAIN nbrs = Others(r)
      /\ \A q \in Others(r) : nbrs[q].state = "2Way" <=> f.nbr[q].state = "2Way"
  BY <1>1 DEF NoNbr
<1>5. /\ down \cap Bidirectional(f) = {}
      /\ None \notin down /\ r \notin down
  BY <1>1, Ids DEF Bidirectional, Others
<1> HIDE DEF down, nbrs, g
<1>6. /\ g \in IfcRecord(r) /\ g.me = r /\ g.state = f.state /\ g.drpri = f.drpri
      /\ g.dr = f.dr /\ g.bdr = f.bdr /\ g.nbr = nbrs
      /\ g.dr_p = IF f.dr_p \in down THEN Freed ELSE f.dr_p
  BY <1>1, <1>2, <1>3 DEF IfcRecord
<1>7. Bidirectional(g) = Bidirectional(f)
  BY <1>1, <1>4, <1>6 DEF Bidirectional
<1>8. \A a : MayLead(g, a) <=> MayLead(f, a)
  BY <1>1, <1>6, <1>7 DEF MayLead
<1>9. PointerRight(g)
  <2>1. f.dr # None => MayLead(f, f.dr)
    BY Leader DEF Coherent
  <2>2. f.dr # None => f.dr_p \notin down
    BY <1>1, <1>5, <2>1 DEF Coherent, PointerRight, MayLead
  <2> QED
    BY <1>1, <1>6, <2>2 DEF Coherent, PointerRight
<1>10. Role(g) = Role(f)
  BY <1>1, <1>6 DEF Role
<1>11. Coherent(g)
  BY <1>6, <1>8, <1>9, <1>10 DEF Coherent
<1>12. Stays(f, g) /\ Follows(f, g)
  BY <1>6, <1>7 DEF Stays, Follows
<1> QED
  BY <1>6, <1>11, <1>12 DEF Handled, g

LEMMA SetPriHandled ==
    ASSUME NEW r \in Router, NEW f \in IfcRecord(r), Coherent(f),
           NEW p \in Pris, NEW helping \in BOOLEAN
    PROVE  Handled(r, f, SetPri(f, p, helping))
<1> DEFINE g == [f EXCEPT !.drpri = p]
           k == SetPri(f, p, helping)
<1>1. /\ g \in IfcRecord(r) /\ g.me = f.me /\ g.state = f.state
      /\ g.dr = f.dr /\ g.bdr = f.bdr /\ g.nbr = f.nbr /\ g.dr_p = f.dr_p
  BY DEF IfcRecord
<1>2. k = NeighborChange(g, helping)
  BY DEF SetPri
<1> HIDE DEF g, k
<1>3. Ready(g)
  BY <1>1 DEF Ready, Coherent, PointerRight
<1>4. /\ k \in IfcRecord(r) /\ Coherent(k) /\ SameNbrs(g, k)
      /\ g.state \in Multi /\ g.dr = r /\ k.state # "DR" =>
            g.drpri = 0 \/ ~Unchallenged(g)
  BY <1>1, <1>2, <1>3, ChangeDecides
<1>5. /\ Bidirectional(k) = Bidirectional(f) /\ k.drpri = g.drpri
      /\ Unchallenged(k) <=> Unchallenged(g)
  BY <1>1, <1>4, SameNbrsSameVoters DEF SameNbrs, Bidirectional
<1>6. Stays(f, k)
  BY <1>1, <1>4, <1>5, Leader DEF Stays, Multi
<1>7. Follows(f, k)
  BY <1>5 DEF Follows
<1> QED
  BY <1>4, <1>6, <1>7 DEF Handled, k

-----------------------------------------------------------------------------
(***************************************************************************)
(* The invariant.                                                          *)
(***************************************************************************)

\* Every router's record is coherent.
IfcInv == TypeOK /\ \A r \in Router : Coherent(ifc[r])

\* What a step does to the routers.
AllStayAndFollow == \A r \in Router : Stays(ifc[r], ifc'[r]) /\ Follows(ifc[r], ifc'[r])

Counting == downs' \in 0..MaxDowns /\ repris' \in 0..MaxRepris

\* A handler of r changes the record of r.
LEMMA HandlerKeeps ==
    ASSUME IfcInv, NEW r \in Router, NEW g, Handled(r, ifc[r], g),
           ifc' = [ifc EXCEPT ![r] = g],
           \A s \in Router : net'[s] \in [Others(s) -> Hello], DOMAIN net' = Router,
           Counting
    PROVE  IfcInv' /\ AllStayAndFollow
<1>1. DOMAIN ifc = Router /\ \A s \in Router : ifc[s] \in IfcRecord(s) /\ Coherent(ifc[s])
  BY DEF IfcInv, TypeOK
<1>2. DOMAIN ifc' = Router /\ ifc'[r] = g /\ \A s \in Router \ {r} : ifc'[s] = ifc[s]
  BY <1>1
<1>3. \A s \in Router : Handled(s, ifc[s], ifc'[s])
  BY <1>1, <1>2 DEF Handled, Stays, Follows
<1>4. TypeOK'
  BY <1>2, <1>3 DEF TypeOK, Handled, Hello, Counting
<1> QED
  BY <1>3, <1>4 DEF IfcInv, AllStayAndFollow, Handled

\* Nothing happens to the records.
LEMMA QuietKeeps ==
    ASSUME IfcInv, ifc' = ifc,
           \A s \in Router : net'[s] \in [Others(s) -> Hello], DOMAIN net' = Router,
           Counting
    PROVE  IfcInv' /\ AllStayAndFollow
<1>1. TypeOK'
  BY DEF IfcInv, TypeOK, Hello, Counting
<1> QED
  BY <1>1 DEF IfcInv, AllStayAndFollow, Stays, Follows

LEMMA NetStays ==
    ASSUME IfcInv
    PROVE  /\ \A s \in Router : net[s] \in [Others(s) -> Hello]
           /\ DOMAIN net = Router
           /\ downs \in 0..MaxDowns /\ repris \in 0..MaxRepris
  BY DEF IfcInv, TypeOK, Hello

LEMMA SendKeeps ==
    ASSUME IfcInv, NEW r \in Router, NEW q \in Others(r), SendHello(r, q)
    PROVE  IfcInv' /\ AllStayAndFollow
<1> DEFINE h == [pri |-> ifc[r].drpri, dr |-> ifc[r].dr, bdr |-> ifc[r].bdr,
                 heard |-> ifc[r].nbr[q].state \in {"Init", "2Way"}, sent |-> TRUE]
<1>1. ifc' = ifc /\ net' = [net EXCEPT ![r][q] = h] /\ UNCHANGED <<downs, repris>>
  BY DEF SendHello
<1>2. h \in Hello
  BY DEF Hello, IfcInv, TypeOK, IfcRecord
<1> HIDE DEF h
<1>3. DOMAIN net' = Router /\ \A s \in Router : net'[s] \in [Others(s) -> Hello]
  BY <1>1, <1>2, NetStays
<1> QED
  BY <1>1, <1>3, NetStays, QuietKeeps DEF Counting

LEMMA RecvKeeps ==
    ASSUME IfcInv, NEW r \in Router, NEW q \in Others(r), RecvHello(r, q)
    PROVE  IfcInv' /\ AllStayAndFollow
<1>1. /\ net' = [net EXCEPT ![q][r] = NoHello] /\ UNCHANGED <<downs, repris>>
      /\ q \in Router /\ r \in Others(q)
  BY DEF RecvHello, Others
<1>2. NoHello \in Hello
  BY DEF Hello, NoHello
<1>3. DOMAIN net' = Router /\ \A s \in Router : net'[s] \in [Others(s) -> Hello]
  BY <1>1, <1>2, NetStays
<1>4. CASE ifc' = ifc
  BY <1>1, <1>3, <1>4, NetStays, QuietKeeps DEF Counting
<1>5. CASE ifc' # ifc
  <2>1. PICK helping \in FreedReads, garbage \in BOOLEAN :
           ifc' = [ifc EXCEPT ![r] = IF net[q][r].heard
                                     THEN Recv2Way(@, q, net[q][r], helping, garbage)
                                     ELSE Recv1Way(@, q, net[q][r], helping)]
    BY <1>5 DEF RecvHello
  <2> DEFINE h == net[q][r]
             g == IF h.heard THEN Recv2Way(ifc[r], q, h, helping, garbage)
                  ELSE Recv1Way(ifc[r], q, h, helping)
  <2>2. ifc' = [ifc EXCEPT ![r] = g]
    BY <2>1 DEF IfcInv, TypeOK
  <2>3. /\ h \in Hello /\ ifc[r] \in IfcRecord(r) /\ Coherent(ifc[r])
        /\ helping \in BOOLEAN
    BY <1>1, <2>1, NetStays, IfcAssumption DEF IfcInv, TypeOK
  <2> HIDE DEF h
  <2>4. Handled(r, ifc[r], g)
    BY <2>1, <2>3, Recv1WayHandled, Recv2WayHandled
  <2> HIDE DEF g
  <2> QED
    BY <1>1, <1>3, <2>2, <2>4, NetStays, HandlerKeeps DEF Counting
<1> QED
  BY <1>4, <1>5

LEMMA UpKeeps ==
    ASSUME IfcInv, NEW r \in Router, IfcUp(r)
    PROVE  IfcInv' /\ AllStayAndFollow
<1>1. /\ ifc[r].state = "Down"
      /\ ifc' = [ifc EXCEPT ![r] = Started(ifc[r])]
      /\ UNCHANGED <<net, downs, repris>>
  BY DEF IfcUp, Started, IfcInv, TypeOK
<1>2. Handled(r, ifc[r], Started(ifc[r]))
  BY <1>1, StartHandled DEF IfcInv, TypeOK
<1> QED
  BY <1>1, <1>2, NetStays, HandlerKeeps DEF Counting

LEMMA WaitKeeps ==
    ASSUME IfcInv, NEW r \in Router, WaitTimer(r)
    PROVE  IfcInv' /\ AllStayAndFollow
<1>1. PICK helping \in FreedReads : ifc' = [ifc EXCEPT ![r] = WaitOver(ifc[r], helping)]
  BY DEF WaitTimer, IfcInv, TypeOK
<1>2. ifc[r].state = "Wait" /\ UNCHANGED <<net, downs, repris>>
  BY DEF WaitTimer
<1>3. Handled(r, ifc[r], WaitOver(ifc[r], helping))
  BY <1>1, <1>2, WaitOverHandled, IfcAssumption DEF IfcInv, TypeOK
<1> QED
  BY <1>1, <1>2, <1>3, NetStays, HandlerKeeps DEF Counting

LEMMA DownKeeps ==
    ASSUME IfcInv, NEW r \in Router, IfcDown(r)
    PROVE  IfcInv' /\ AllStayAndFollow
<1>1. /\ ifc' = [ifc EXCEPT ![r] = ResetIfc(ifc[r])]
      /\ downs < MaxDowns /\ downs' = downs + 1
      /\ UNCHANGED <<net, repris>>
  BY DEF IfcDown, IfcInv, TypeOK
<1>2. Handled(r, ifc[r], ResetIfc(ifc[r]))
  BY ResetHandled DEF IfcInv, TypeOK
<1>3. downs' \in 0..MaxDowns
  BY <1>1, NetStays, IfcAssumption
<1> QED
  BY <1>1, <1>2, <1>3, NetStays, HandlerKeeps DEF Counting

LEMMA InactiveKeeps ==
    ASSUME IfcInv, NEW r \in Router, NEW q \in Others(r), NbrInactive(r, q)
    PROVE  IfcInv' /\ AllStayAndFollow
<1>1. PICK helping \in FreedReads :
          ifc' = [ifc EXCEPT ![r] = NbrMoves(ifc[r], q, Deleted(ifc[r].nbr[q]), helping)]
  BY DEF NbrInactive, IfcInv, TypeOK
<1>2. UNCHANGED <<net, downs, repris>>
  BY DEF NbrInactive
<1>3. Deleted(ifc[r].nbr[q]) \in NbrRecord
  BY DeletedType DEF IfcInv, TypeOK, IfcRecord
<1>4. Handled(r, ifc[r], NbrMoves(ifc[r], q, Deleted(ifc[r].nbr[q]), helping))
  BY <1>1, <1>3, NbrMovesHandled, IfcAssumption DEF IfcInv, TypeOK
<1> QED
  BY <1>1, <1>2, <1>4, NetStays, HandlerKeeps DEF Counting

LEMMA TickKeeps ==
    ASSUME IfcInv, NEW r \in Router, Tick(r)
    PROVE  IfcInv' /\ AllStayAndFollow
<1>1. ifc' = [ifc EXCEPT ![r] = FreeDownNbrs(ifc[r])] /\ UNCHANGED <<net, downs, repris>>
  BY DEF Tick, IfcInv, TypeOK
<1>2. Handled(r, ifc[r], FreeDownNbrs(ifc[r]))
  BY FreeHandled DEF IfcInv, TypeOK
<1> QED
  BY <1>1, <1>2, NetStays, HandlerKeeps DEF Counting

LEMMA CfgKeeps ==
    ASSUME IfcInv, NEW r \in Router, CfgPri(r)
    PROVE  IfcInv' /\ AllStayAndFollow
<1>1. PICK p \in Pris, helping \in FreedReads :
          ifc' = [ifc EXCEPT ![r] = SetPri(ifc[r], p, helping)]
  BY DEF CfgPri, IfcInv, TypeOK
<1>2. repris < MaxRepris /\ repris' = repris + 1 /\ UNCHANGED <<net, downs>>
  BY DEF CfgPri
<1>3. Handled(r, ifc[r], SetPri(ifc[r], p, helping))
  BY <1>1, SetPriHandled, IfcAssumption DEF IfcInv, TypeOK
<1>4. repris' \in 0..MaxRepris
  BY <1>2, NetStays, IfcAssumption
<1> QED
  BY <1>1, <1>2, <1>3, <1>4, NetStays, HandlerKeeps DEF Counting

-----------------------------------------------------------------------------
LEMMA IfcInit == Init => IfcInv
<1> SUFFICES ASSUME Init PROVE IfcInv
  OBVIOUS
<1>1. NoNbr \in NbrRecord /\ NoHello \in Hello
  BY DEF NoNbr, NbrRecord, NoHello, Hello
<1>2. ASSUME NEW r \in Router
      PROVE  ifc[r] \in IfcRecord(r) /\ Coherent(ifc[r]) /\ net[r] \in [Others(r) -> Hello]
  <2>1. [q \in Others(r) |-> NoNbr] \in [Others(r) -> NbrRecord]
    BY <1>1
  <2>2. ifc[r] \in IfcRecord(r)
    BY <2>1, IfcAssumption DEF Init, IfcRecord
  <2>3. ifc[r].state = "Down" /\ ifc[r].dr = None /\ ifc[r].bdr = None
    BY DEF Init
  <2>4. Coherent(ifc[r])
    BY <2>3 DEF Coherent, PointerRight, Multi
  <2> QED
    BY <1>1, <2>2, <2>4 DEF Init
<1>3. downs \in 0..MaxDowns /\ repris \in 0..MaxRepris
  BY IfcAssumption DEF Init
<1>4. DOMAIN ifc = Router /\ DOMAIN net = Router
  BY DEF Init
<1> QED
  BY <1>2, <1>3, <1>4 DEF IfcInv, TypeOK, Hello

LEMMA IfcStep == IfcInv /\ [Next]_vars => IfcInv' /\ AllStayAndFollow
<1> SUFFICES ASSUME IfcInv, [Next]_vars PROVE IfcInv' /\ AllStayAndFollow
  OBVIOUS
<1>1. CASE UNCHANGED vars
  <2>1. ifc' = ifc /\ net' = net /\ downs' = downs /\ repris' = repris
    BY <1>1 DEF vars
  <2> QED
    BY <2>1, NetStays, QuietKeeps DEF Counting
<1>2. CASE Next
  BY <1>2, SendKeeps, RecvKeeps, InactiveKeeps, UpKeeps, WaitKeeps, DownKeeps,
     TickKeeps, CfgKeeps DEF Next
<1> QED
  BY <1>1, <1>2

LEMMA IfcInvariant == Spec => []IfcInv
BY IfcInit, IfcStep, PTL DEF Spec

(* State, addresses and pointer agree on a router's role and on the DR,    *)
(* and the DR and the Backup it has elected are routers it has 2-Way       *)
(* communication with (ifa_elect(), ifcfsm.C).                             *)
THEOREM RolesAlwaysCoherent == Spec => []RolesCoherent
<1>1. IfcInv => RolesCoherent
  <2> SUFFICES ASSUME IfcInv PROVE RolesCoherent
    OBVIOUS
  <2>1. \A r \in Router : ifc[r].me = r /\ Coherent(ifc[r])
    BY DEF IfcInv, TypeOK, IfcRecord
  <2> QED
    BY <2>1 DEF RolesCoherent, StateMatchesRole, LeadersAreNeighbors, PointerMatchesDR,
       IfcInv, Coherent, MayLead, PointerRight
<1> QED
  BY <1>1, IfcInvariant, PTL

(* A DR keeps its role against any newcomer, and the Backup follows it     *)
(* when it is lost (ifa_elect(), ifcfsm.C).                                *)
THEOREM RolesPassOnInOrder == Spec => Succession
<1>1. IfcInv /\ [Next]_vars => [DRStays /\ BackupFollows]_vars
  <2> SUFFICES ASSUME IfcInv, [Next]_vars PROVE DRStays /\ BackupFollows
    OBVIOUS
  <2>1. AllStayAndFollow
    BY IfcStep
  <2>2. DRStays
    BY <2>1 DEF AllStayAndFollow, Stays, Unchallenged, DRStays
  <2>3. BackupFollows
    BY <2>1 DEF AllStayAndFollow, Follows, Unclaimed, BackupFollows
  <2> QED
    BY <2>2, <2>3
<1> QED
  BY <1>1, IfcInvariant, PTL DEF Spec, Succession

-----------------------------------------------------------------------------
(***************************************************************************)
(* The loops of the election compute the choice.  Each is a function       *)
(* defined by recursion on the number of neighbours that were looked at.   *)
(***************************************************************************)

LEMMA CandidateType ==
    ASSUME NEW c \in Candidate
    PROVE  c.id \in Nat /\ c.pri \in Nat /\ Better(c, c)
<1>1. c.id \in Nat /\ c.pri \in Nat
  BY RouterAssumption DEF Candidate
<1> QED
  BY <1>1 DEF Better

\* What the loop for the Backup holds.
BdrAcc == [win : Router \cup {None}, declared : BOOLEAN, c_pri : Nat, c_id : Nat]

LEMMA BdrStepType ==
    ASSUME NEW acc \in BdrAcc, NEW np \in Candidate
    PROVE  BdrStep(acc, np) \in BdrAcc
  BY RouterAssumption DEF BdrStep, BdrAcc, Candidate

LEMMA BdrWalk ==
    ASSUME NEW me \in Candidate, NEW list \in Seq(Candidate)
    PROVE  \E w :
               /\ w[0] = BdrStart(me)
               /\ \A k \in 1..Len(list) : w[k] = BdrStep(w[k - 1], list[k])
               /\ BdrLoop(me, list) = w[Len(list)]
<1> DEFINE N == Len(list)
           F == [p \in BdrAcc \X (1..N) |-> BdrStep(p[1], list[p[2]])]
           IsWalk(w) ==
               w = [k \in 0..N |-> IF k = 0 THEN BdrStart(me) ELSE BdrStep(w[k - 1], list[k])]
<1>1. /\ N \in Nat /\ F \in [BdrAcc \X (1..N) -> BdrAcc]
      /\ \A k \in 1..N : \A a \in BdrAcc : F[<<a, k>>] = BdrStep(a, list[k])
  BY BdrStepType
<1>2. BdrStart(me) \in BdrAcc
  BY RouterAssumption DEF BdrStart, BdrAcc, Candidate
<1>3. BdrLoop(me, list) = (CHOOSE x : IsWalk(x))[N]
  BY DEF BdrLoop
<1> HIDE DEF F, N
<1>4. PICK w \in [0..N -> BdrAcc] : Iterates(w, N, BdrStart(me), F)
  BY <1>1, <1>2, IterationExists
<1>5. \A k \in 0..N : IF k = 0 THEN w[k] = BdrStart(me)
                               ELSE w[k] = BdrStep(w[k - 1], list[k])
  BY <1>1, <1>4 DEF Iterates
<1>6. IsWalk(w)
  BY <1>5
<1> DEFINE v == CHOOSE x : IsWalk(x)
<1>7. IsWalk(v)
  <2> HIDE DEF IsWalk
  <2> QED BY <1>6
<1>8. v[0] = BdrStart(me) /\ \A k \in 1..N : v[k] = BdrStep(v[k - 1], list[k])
  <2> HIDE DEF v
  <2> QED BY <1>1, <1>7
<1> HIDE DEF v
<1> QED
  BY <1>3, <1>8 DEF v, N

LEMMA LastIsBest ==
    ASSUME NEW S, AreCandidates(S), NEW a \in S, \A b \in S : Better(a, b)
    PROVE  Best(S) = a.id
<1>1. PICK c \in S : Best(S) = c.id /\ \A b \in S : Better(c, b)
  BY BestIsBest
<1>2. a.id \in Nat /\ a.pri \in Nat /\ c.id \in Nat /\ c.pri \in Nat
  BY RouterAssumption DEF AreCandidates
<1>3. Better(a, c) /\ Better(c, a)
  BY <1>1
<1> QED
  BY <1>1, <1>2, <1>3 DEF Better

\* The routers a walk has come to after k neighbours.
Seen(me, list, k) == {me} \cup {list[j] : j \in 1..k}

BdrEligible(S) == {c \in S : c.pri > 0 /\ ~c.is_dr}
BdrDeclared(S) == {c \in S : c.pri > 0 /\ ~c.is_dr /\ c.is_bdr}

\* acc stands for the best of the candidates in S.
BdrBest(acc, S) ==
    IF BdrDeclared(S) # {}
    THEN /\ acc.declared
         /\ \E a \in BdrDeclared(S) :
               /\ acc.win = a.id /\ acc.c_id = a.id /\ acc.c_pri = a.pri
               /\ \A b \in BdrDeclared(S) : Better(a, b)
    ELSE /\ ~acc.declared
         /\ IF BdrEligible(S) = {} THEN acc.win = None /\ acc.c_id = 0 /\ acc.c_pri = 0
            ELSE \E a \in BdrEligible(S) :
                   /\ acc.win = a.id /\ acc.c_id = a.id /\ acc.c_pri = a.pri
                   /\ \A b \in BdrEligible(S) : Better(a, b)

LEMMA BdrStepBest ==
    ASSUME NEW S \in SUBSET Candidate, NEW acc, BdrBest(acc, S), NEW np \in Candidate
    PROVE  BdrBest(BdrStep(acc, np), S \cup {np})
<1> DEFINE T == S \cup {np}
           bcc == BdrStep(acc, np)
<1>1. /\ \A c \in T : c.id \in Nat /\ c.pri \in Nat /\ c.is_dr \in BOOLEAN /\ c.is_bdr \in BOOLEAN
  BY RouterAssumption DEF Candidate
<1>2. \A a, b, c \in T : Better(a, b) /\ Better(b, c) => Better(a, c)
  BY <1>1 DEF Better
<1>3. \A a \in T : Better(a, a)
  BY <1>1 DEF Better
<1>4. BdrEligible(T) = IF np.pri > 0 /\ ~np.is_dr THEN BdrEligible(S) \cup {np} ELSE BdrEligible(S)
  BY DEF BdrEligible
<1>5. BdrDeclared(T) = IF np.pri > 0 /\ ~np.is_dr /\ np.is_bdr
                       THEN BdrDeclared(S) \cup {np} ELSE BdrDeclared(S)
  BY DEF BdrDeclared
<1>6. BdrDeclared(S) \subseteq BdrEligible(S) /\ BdrEligible(S) \subseteq T /\ np \in T
  BY DEF BdrDeclared, BdrEligible
<1>7. CASE np.pri = 0 \/ np.is_dr
  <2>1. bcc = acc
    BY <1>7 DEF BdrStep, BdrSkips
  <2>2. BdrEligible(T) = BdrEligible(S) /\ BdrDeclared(T) = BdrDeclared(S)
    BY <1>1, <1>4, <1>5, <1>7
  <2> QED
    BY <2>1, <2>2 DEF BdrBest
<1>8. CASE np.pri > 0 /\ ~np.is_dr /\ BdrDeclared(S) # {}
  <2>1. PICK a \in BdrDeclared(S) :
               /\ acc.win = a.id /\ acc.c_id = a.id /\ acc.c_pri = a.pri
               /\ \A b \in BdrDeclared(S) : Better(a, b)
    BY <1>8 DEF BdrBest
  <2>2. acc.declared
    BY <1>8 DEF BdrBest
  <2>3. CASE ~np.is_bdr
    BY <1>5, <1>8, <2>2, <2>3, <2>1 DEF BdrStep, BdrSkips, BdrBest
  <2>4. CASE np.is_bdr /\ Beaten(np, acc)
    <3>1. bcc = acc
      BY <1>8, <2>2, <2>4 DEF BdrStep, BdrSkips
    <3>2. Better(a, np)
      BY <1>1, <1>6, <2>1, <2>4 DEF Beaten, Better
    <3> QED
      BY <1>5, <1>8, <2>1, <2>2, <2>4, <3>1, <3>2 DEF BdrBest
  <2>5. CASE np.is_bdr /\ ~Beaten(np, acc)
    <3>1. bcc = [win |-> np.id, declared |-> np.is_bdr, c_pri |-> np.pri, c_id |-> np.id]
      BY <1>1, <1>8, <2>2, <2>5 DEF BdrStep, BdrSkips
    <3>2. Better(np, a)
      BY <1>1, <1>6, <2>1, <2>5 DEF Beaten, Better
    <3>3. \A b \in BdrDeclared(T) : Better(np, b)
      BY <1>2, <1>3, <1>5, <1>6, <2>1, <3>2
    <3>4. np \in BdrDeclared(T)
      BY <1>5, <1>8, <2>5
    <3> QED
      BY <2>5, <3>1, <3>3, <3>4 DEF BdrBest
  <2> QED
    BY <2>3, <2>4, <2>5
<1>9. CASE np.pri > 0 /\ ~np.is_dr /\ BdrDeclared(S) = {}
  <2>1. ~acc.declared
    BY <1>9 DEF BdrBest
  <2>2. CASE np.is_bdr
    <3>1. bcc = [win |-> np.id, declared |-> np.is_bdr, c_pri |-> np.pri, c_id |-> np.id]
      BY <1>1, <1>9, <2>1, <2>2 DEF BdrStep, BdrSkips
    <3>2. BdrDeclared(T) = {np} /\ Better(np, np)
      BY <1>3, <1>5, <1>6, <1>9, <2>2
    <3>3. bcc.declared /\ bcc.win = np.id /\ bcc.c_id = np.id /\ bcc.c_pri = np.pri
      BY <2>2, <3>1
    <3> HIDE DEF bcc, T
    <3>4. BdrBest(bcc, T)
      BY <3>2, <3>3 DEF BdrBest
    <3> QED
      BY <3>4 DEF bcc, T
  <2>3. CASE ~np.is_bdr
    <3>1. BdrDeclared(T) = {} /\ BdrEligible(T) = BdrEligible(S) \cup {np}
      BY <1>4, <1>5, <1>9, <2>3
    <3>2. CASE Beaten(np, acc)
      <4>1. bcc = acc
        BY <1>9, <2>1, <2>3, <3>2 DEF BdrStep, BdrSkips
      <4>2. BdrEligible(S) # {}
        BY <1>1, <1>6, <1>9, <3>2 DEF BdrBest, Beaten
      <4>3. PICK a \in BdrEligible(S) :
                   /\ acc.win = a.id /\ acc.c_id = a.id /\ acc.c_pri = a.pri
                   /\ \A b \in BdrEligible(S) : Better(a, b)
        BY <1>9, <4>2 DEF BdrBest
      <4>4. Better(a, np)
        BY <1>1, <1>6, <3>2, <4>3 DEF Beaten, Better
      <4> QED
        BY <2>1, <3>1, <4>1, <4>3, <4>4 DEF BdrBest
    <3>3. CASE ~Beaten(np, acc)
      <4>1. bcc = [win |-> np.id, declared |-> np.is_bdr, c_pri |-> np.pri, c_id |-> np.id]
        BY <1>1, <1>9, <2>1, <2>3, <3>3 DEF BdrStep, BdrSkips
      <4>2. \A b \in BdrEligible(S) : Better(np, b)
        <5>1. CASE BdrEligible(S) = {}
          BY <5>1
        <5>2. CASE BdrEligible(S) # {}
          <6>1. PICK a \in BdrEligible(S) :
                   /\ acc.win = a.id /\ acc.c_id = a.id /\ acc.c_pri = a.pri
                   /\ \A b \in BdrEligible(S) : Better(a, b)
            BY <1>9, <5>2 DEF BdrBest
          <6>2. Better(np, a)
            BY <1>1, <1>6, <3>3, <6>1 DEF Beaten, Better
          <6> QED
            BY <1>2, <1>6, <6>1, <6>2
        <5> QED
          BY <5>1, <5>2
      <4>3. np \in BdrEligible(T) /\ \A b \in BdrEligible(T) : Better(np, b)
        BY <1>3, <1>6, <3>1, <4>2
      <4> QED
        BY <2>3, <3>1, <4>1, <4>3 DEF BdrBest
    <3> QED
      BY <3>2, <3>3
  <2> QED
    BY <2>2, <2>3
<1> QED
  BY <1>1, <1>6, <1>7, <1>8, <1>9

\* What the walk holds in the end is the choice.
LEMMA BdrLoopBest ==
    ASSUME NEW me \in Candidate, NEW list \in Seq(Candidate)
    PROVE  BdrBest(BdrLoop(me, list), Seen(me, list, Len(list)))
<1> DEFINE N == Len(list)
<1>1. PICK v : /\ v[0] = BdrStart(me)
               /\ \A k \in 1..N : v[k] = BdrStep(v[k - 1], list[k])
               /\ BdrLoop(me, list) = v[N]
  BY BdrWalk
<1>2. N \in Nat /\ \A k \in 1..N : list[k] \in Candidate
  OBVIOUS
<1> DEFINE S == {k \in Nat : k <= N => BdrBest(v[k], Seen(me, list, k))}
<1> HIDE DEF N
<1>3. 0 \in S
  <2>1. Seen(me, list, 0) = {me}
    BY DEF Seen
  <2>2. Better(me, me)
    BY CandidateType
  <2>3. BdrBest(BdrStart(me), {me})
    <3> DEFINE a == BdrStart(me)
    <3>1. CASE ~me.is_dr /\ me.pri # 0
      <4>1. /\ a.declared <=> me.is_bdr
            /\ a.win = me.id /\ a.c_id = me.id /\ a.c_pri = me.pri
        BY <3>1 DEF BdrStart
      <4>2. BdrEligible({me}) = {me}
        BY <3>1 DEF BdrEligible, Candidate
      <4>3. BdrDeclared({me}) = IF me.is_bdr THEN {me} ELSE {}
        BY <3>1 DEF BdrDeclared, Candidate
      <4> HIDE DEF a
      <4>4. BdrBest(a, {me})
        BY <2>2, <4>1, <4>2, <4>3 DEF BdrBest
      <4> QED
        BY <4>4 DEF a
    <3>2. CASE me.is_dr \/ me.pri = 0
      <4>1. ~a.declared /\ a.win = None /\ a.c_id = 0 /\ a.c_pri = 0
        BY <3>2 DEF BdrStart
      <4>2. BdrEligible({me}) = {} /\ BdrDeclared({me}) = {}
        BY <3>2 DEF BdrEligible, BdrDeclared
      <4> HIDE DEF a
      <4>3. BdrBest(a, {me})
        BY <4>1, <4>2 DEF BdrBest
      <4> QED
        BY <4>3 DEF a
    <3> QED
      BY <3>1, <3>2
  <2> QED
    BY <1>1, <2>1, <2>3
<1>4. ASSUME NEW k \in Nat, k \in S
      PROVE  k + 1 \in S
  <2> SUFFICES ASSUME k + 1 <= N PROVE BdrBest(v[k + 1], Seen(me, list, k + 1))
    OBVIOUS
  <2>1. v[k + 1] = BdrStep(v[k], list[k + 1]) /\ list[k + 1] \in Candidate
    BY <1>1, <1>2
  <2>2. Seen(me, list, k + 1) = Seen(me, list, k) \cup {list[k + 1]}
    BY DEF Seen
  <2>3. Seen(me, list, k) \in SUBSET Candidate
    BY <1>2 DEF Seen
  <2>4. BdrBest(v[k], Seen(me, list, k))
    BY <1>2, <1>4
  <2> HIDE DEF S
  <2> QED
    BY <2>1, <2>2, <2>3, <2>4, BdrStepBest
<1>5. N \in S
  <2> HIDE DEF S
  <2> QED
    BY <1>2, <1>3, <1>4, SetInduction
<1> QED
  BY <1>1, <1>5 DEF N

DrEligible(S) == {c \in S : c.is_dr /\ c.pri > 0}

DrBest(acc, S) ==
    IF DrEligible(S) = {} THEN acc.win = None /\ acc.c_pri = 0
    ELSE \E a \in DrEligible(S) :
            /\ acc.win = a.id /\ acc.c_id = a.id /\ acc.c_pri = a.pri
            /\ \A b \in DrEligible(S) : Better(a, b)

LEMMA DrStepBest ==
    ASSUME NEW S \in SUBSET Candidate, NEW acc, DrBest(acc, S), NEW np \in Candidate
    PROVE  DrBest(DrStep(acc, np), S \cup {np})
<1> DEFINE T == S \cup {np}
           bcc == DrStep(acc, np)
<1>1. /\ \A c \in T : c.id \in Nat /\ c.pri \in Nat /\ c.is_dr \in BOOLEAN
  BY RouterAssumption DEF Candidate
<1>2. \A a, b, c \in T : Better(a, b) /\ Better(b, c) => Better(a, c)
  BY <1>1 DEF Better
<1>3. \A a \in T : Better(a, a)
  BY <1>1 DEF Better
<1>4. DrEligible(T) = IF np.is_dr /\ np.pri > 0 THEN DrEligible(S) \cup {np} ELSE DrEligible(S)
  BY DEF DrEligible
<1>5. DrEligible(S) \subseteq T /\ np \in T
  BY DEF DrEligible
<1>6. CASE np.pri = 0 \/ ~np.is_dr
  <2>1. bcc = acc
    BY <1>6 DEF DrStep, DrSkips
  <2>2. DrEligible(T) = DrEligible(S)
    BY <1>1, <1>4, <1>6
  <2> QED
    BY <2>1, <2>2 DEF DrBest
<1>7. CASE np.pri > 0 /\ np.is_dr
  <2>1. DrEligible(T) = DrEligible(S) \cup {np}
    BY <1>4, <1>7
  <2>2. CASE Beaten(np, acc)
    <3>1. bcc = acc
      BY <1>7, <2>2 DEF DrStep, DrSkips
    <3>2. DrEligible(S) # {}
      BY <1>1, <1>5, <1>7, <2>2 DEF DrBest, Beaten
    <3>3. PICK a \in DrEligible(S) :
            /\ acc.win = a.id /\ acc.c_id = a.id /\ acc.c_pri = a.pri
            /\ \A b \in DrEligible(S) : Better(a, b)
      BY <3>2 DEF DrBest
    <3>4. Better(a, np)
      BY <1>1, <1>5, <2>2, <3>3 DEF Beaten, Better
    <3> QED
      BY <2>1, <3>1, <3>3, <3>4 DEF DrBest
  <2>3. CASE ~Beaten(np, acc)
    <3>1. bcc = [win |-> np.id, c_pri |-> np.pri, c_id |-> np.id]
      BY <1>1, <1>7, <2>3 DEF DrStep, DrSkips
    <3>2. \A b \in DrEligible(S) : Better(np, b)
      <4>1. CASE DrEligible(S) = {}
        BY <4>1
      <4>2. CASE DrEligible(S) # {}
        <5>1. PICK a \in DrEligible(S) :
                /\ acc.win = a.id /\ acc.c_id = a.id /\ acc.c_pri = a.pri
                /\ \A b \in DrEligible(S) : Better(a, b)
          BY <4>2 DEF DrBest
        <5>2. Better(np, a)
          BY <1>1, <1>5, <2>3, <5>1 DEF Beaten, Better
        <5> QED
          BY <1>2, <1>5, <5>1, <5>2
      <4> QED
        BY <4>1, <4>2
    <3>3. np \in DrEligible(T) /\ \A b \in DrEligible(T) : Better(np, b)
      BY <1>3, <1>5, <2>1, <3>2
    <3> QED
      BY <3>1, <3>3 DEF DrBest
  <2> QED
    BY <2>2, <2>3
<1> QED
  BY <1>1, <1>5, <1>6, <1>7

\* What the loop for the DR holds.
DrAcc == [win : Router \cup {None}, c_pri : Nat, c_id : Nat]

LEMMA DrStepType ==
    ASSUME NEW acc \in DrAcc, NEW np \in Candidate
    PROVE  DrStep(acc, np) \in DrAcc
  BY RouterAssumption DEF DrStep, DrAcc, Candidate

LEMMA DrWalk ==
    ASSUME NEW me \in Candidate, NEW list \in Seq(Candidate)
    PROVE  \E w :
               /\ w[0] = DrStart(me, BdrLoop(me, list).c_id)
               /\ \A k \in 1..Len(list) : w[k] = DrStep(w[k - 1], list[k])
               /\ DrLoop(me, list) = w[Len(list)]
<1> DEFINE N == Len(list)
           F == [p \in DrAcc \X (1..N) |-> DrStep(p[1], list[p[2]])]
           IsWalk(w) ==
               w = [k \in 0..N |-> IF k = 0 THEN DrStart(me, BdrLoop(me, list).c_id)
                                             ELSE DrStep(w[k - 1], list[k])]
<1>1. /\ N \in Nat /\ F \in [DrAcc \X (1..N) -> DrAcc]
      /\ \A k \in 1..N : \A a \in DrAcc : F[<<a, k>>] = DrStep(a, list[k])
  BY DrStepType
<1>2. DrStart(me, BdrLoop(me, list).c_id) \in DrAcc
  <2>1. BdrLoop(me, list).c_id \in Nat
    <3>1. \A c \in Seen(me, list, Len(list)) : c.id \in Nat
      <4>1. \A c \in Seen(me, list, Len(list)) : c \in Candidate
        BY DEF Seen
      <4> QED
        BY <4>1, CandidateType
    <3> QED
      BY <3>1, BdrLoopBest DEF BdrBest, BdrDeclared, BdrEligible
  <2> QED
    BY <2>1, RouterAssumption DEF DrStart, DrAcc, Candidate
<1>3. DrLoop(me, list) = (CHOOSE x : IsWalk(x))[N]
  BY DEF DrLoop
<1> HIDE DEF F, N
<1>4. PICK w \in [0..N -> DrAcc] : Iterates(w, N, DrStart(me, BdrLoop(me, list).c_id), F)
  BY <1>1, <1>2, IterationExists
<1>5. \A k \in 0..N : IF k = 0 THEN w[k] = DrStart(me, BdrLoop(me, list).c_id)
                               ELSE w[k] = DrStep(w[k - 1], list[k])
  BY <1>1, <1>4 DEF Iterates
<1>6. IsWalk(w)
  BY <1>5
<1> DEFINE v == CHOOSE x : IsWalk(x)
<1>7. IsWalk(v)
  <2> HIDE DEF IsWalk
  <2> QED BY <1>6
<1>8. v[0] = DrStart(me, BdrLoop(me, list).c_id) /\ \A k \in 1..N : v[k] = DrStep(v[k - 1], list[k])
  <2> HIDE DEF v
  <2> QED BY <1>1, <1>7
<1> HIDE DEF v
<1> QED
  BY <1>3, <1>8 DEF v, N

LEMMA DrLoopBest ==
    ASSUME NEW me \in Candidate, NEW list \in Seq(Candidate)
    PROVE  DrBest(DrLoop(me, list), Seen(me, list, Len(list)))
<1> DEFINE N == Len(list)
<1>1. PICK v : /\ v[0] = DrStart(me, BdrLoop(me, list).c_id)
               /\ \A k \in 1..N : v[k] = DrStep(v[k - 1], list[k])
               /\ DrLoop(me, list) = v[N]
  BY DrWalk
<1>2. N \in Nat /\ \A k \in 1..N : list[k] \in Candidate
  OBVIOUS
<1> DEFINE S == {k \in Nat : k <= N => DrBest(v[k], Seen(me, list, k))}
<1> HIDE DEF N
<1>3. 0 \in S
  <2>1. Seen(me, list, 0) = {me}
    BY DEF Seen
  <2>2. Better(me, me)
    BY CandidateType
  <2>3. DrBest(DrStart(me, BdrLoop(me, list).c_id), {me})
    <3> DEFINE a == DrStart(me, BdrLoop(me, list).c_id)
    <3>1. CASE me.is_dr /\ me.pri # 0
      <4>1. a.win = me.id /\ a.c_id = me.id /\ a.c_pri = me.pri
        BY <3>1 DEF DrStart
      <4>2. DrEligible({me}) = {me}
        BY <3>1 DEF DrEligible, Candidate
      <4> HIDE DEF a
      <4>3. DrBest(a, {me})
        BY <2>2, <4>1, <4>2 DEF DrBest
      <4> QED
        BY <4>3 DEF a
    <3>2. CASE ~me.is_dr \/ me.pri = 0
      <4>1. a.win = None /\ a.c_pri = 0
        BY <3>2 DEF DrStart
      <4>2. DrEligible({me}) = {}
        BY <3>2 DEF DrEligible
      <4> HIDE DEF a
      <4>3. DrBest(a, {me})
        BY <4>1, <4>2 DEF DrBest
      <4> QED
        BY <4>3 DEF a
    <3> QED
      BY <3>1, <3>2
  <2> QED
    BY <1>1, <2>1, <2>3
<1>4. ASSUME NEW k \in Nat, k \in S
      PROVE  k + 1 \in S
  <2> SUFFICES ASSUME k + 1 <= N PROVE DrBest(v[k + 1], Seen(me, list, k + 1))
    OBVIOUS
  <2>1. v[k + 1] = DrStep(v[k], list[k + 1]) /\ list[k + 1] \in Candidate
    BY <1>1, <1>2
  <2>2. Seen(me, list, k + 1) = Seen(me, list, k) \cup {list[k + 1]}
    BY DEF Seen
  <2>3. Seen(me, list, k) \in SUBSET Candidate
    BY <1>2 DEF Seen
  <2>4. DrBest(v[k], Seen(me, list, k))
    BY <1>2, <1>4
  <2> HIDE DEF S
  <2> QED
    BY <2>1, <2>2, <2>3, <2>4, DrStepBest
<1>5. N \in S
  <2> HIDE DEF S
  <2> QED
    BY <1>2, <1>3, <1>4, SetInduction
<1> QED
  BY <1>1, <1>5 DEF N


(* The loops of ifa_elect() (ifcfsm.C) elect the Backup and the DR that    *)
(* are best by priority and ID, in whatever order the neighbours are       *)
(* linked: two routers that hold the same neighbour data elect the same.   *)
THEOREM LoopsComputeChoice ==
    ASSUME NEW me \in Candidate, NEW list \in Seq(Candidate),
           AreCandidates(Seen(me, list, Len(list)))
    PROVE  /\ BdrLoop(me, list).win = BdrChoice(me, {list[k] : k \in DOMAIN list})
           /\ DrLoop(me, list).win = DrChoice(me, {list[k] : k \in DOMAIN list})
<1> DEFINE all == Seen(me, list, Len(list))
           nbrs == {list[k] : k \in DOMAIN list}
<1>1. all = nbrs \cup {me}
  BY DEF Seen
<1>2. /\ BdrChoice(me, nbrs) = Best(IF BdrDeclared(all) # {} THEN BdrDeclared(all)
                                    ELSE BdrEligible(all))
      /\ DrChoice(me, nbrs) = Best(DrEligible(all))
  <2>1. BdrDeclared(all) = {c \in BdrEligible(all) : c.is_bdr}
    BY DEF BdrDeclared, BdrEligible
  <2> HIDE DEF nbrs, all
  <2> QED
    BY <1>1, <2>1 DEF BdrChoice, DrChoice, BdrEligible, DrEligible
<1>3. AreCandidates(BdrDeclared(all)) /\ AreCandidates(BdrEligible(all))
      /\ AreCandidates(DrEligible(all))
  BY SubCandidates DEF BdrDeclared, BdrEligible, DrEligible
<1>4. BdrBest(BdrLoop(me, list), all) /\ DrBest(DrLoop(me, list), all)
  BY BdrLoopBest, DrLoopBest
<1> HIDE DEF all, nbrs
<1>5. BdrLoop(me, list).win = BdrChoice(me, nbrs)
  <2>1. CASE BdrDeclared(all) # {}
    BY <1>2, <1>3, <1>4, <2>1, LastIsBest DEF BdrBest
  <2>2. CASE BdrDeclared(all) = {} /\ BdrEligible(all) # {}
    BY <1>2, <1>3, <1>4, <2>2, LastIsBest DEF BdrBest
  <2>3. CASE BdrDeclared(all) = {} /\ BdrEligible(all) = {}
    BY <1>2, <1>4, <2>3 DEF BdrBest, Best
  <2> QED
    BY <2>1, <2>2, <2>3
<1>6. DrLoop(me, list).win = DrChoice(me, nbrs)
  <2>1. CASE DrEligible(all) # {}
    BY <1>2, <1>3, <1>4, <2>1, LastIsBest DEF DrBest
  <2>2. CASE DrEligible(all) = {}
    BY <1>2, <1>4, <2>2 DEF DrBest, Best
  <2> QED
    BY <2>1, <2>2
<1> QED
  BY <1>5, <1>6 DEF nbrs

(* A router and its neighbours, in any order. *)
ElectInvariant ==
    /\ own \in Candidate /\ own.id = OwnId
    /\ nbrlist \in Seq(Candidate)
    /\ \A k \in DOMAIN nbrlist : nbrlist[k].id # OwnId
    /\ \A j, k \in DOMAIN nbrlist : nbrlist[j].id = nbrlist[k].id => j = k

LEMMA ElectInitially == ElectInit => ElectInvariant
<1> SUFFICES ASSUME ElectInit PROVE ElectInvariant
  OBVIOUS
<1>1. own \in Candidate /\ own.id = OwnId
  BY ElectAssumption DEF ElectInit, Candidate
<1>2. Cardinality(Nbrs) \in Nat
  BY RouterAssumption, FS_CardinalityType, FS_Subset DEF Nbrs
<1> DEFINE N == Cardinality(Nbrs)
           C == [id : Nbrs, pri : 0..MaxPri, is_dr : BOOLEAN, is_bdr : BOOLEAN]
<1>7. nbrlist \in [1..N -> C] /\ \A j, k \in DOMAIN nbrlist : j < k => nbrlist[j].id < nbrlist[k].id
  BY DEF ElectInit
<1>8. \A c \in C : c \in Candidate /\ c.id \in Nbrs
  BY ElectAssumption DEF Candidate, Nbrs
<1> HIDE DEF N, C
<1>3. /\ nbrlist \in [1..N -> Candidate]
      /\ \A k \in DOMAIN nbrlist : nbrlist[k].id \in Nbrs
      /\ \A j, k \in DOMAIN nbrlist : j < k => nbrlist[j].id < nbrlist[k].id
  BY <1>7, <1>8
<1>4. nbrlist \in Seq(Candidate)
  BY <1>2, <1>3 DEF N
<1>5. \A k \in DOMAIN nbrlist : nbrlist[k].id # OwnId /\ nbrlist[k].id \in Nat
  BY <1>3, RouterAssumption DEF Nbrs
<1>6. \A j, k \in DOMAIN nbrlist : nbrlist[j].id = nbrlist[k].id => j = k
  BY <1>2, <1>3, <1>5 DEF N
<1> QED
  BY <1>1, <1>4, <1>5, <1>6 DEF ElectInvariant

LEMMA ElectStep == ElectInvariant /\ [SwapNbrs]_electVars => ElectInvariant'
<1> SUFFICES ASSUME ElectInvariant, [SwapNbrs]_electVars PROVE ElectInvariant'
  OBVIOUS
<1>1. CASE SwapNbrs
  <2>1. PICK k \in 1..(Len(nbrlist) - 1) :
          nbrlist' = [nbrlist EXCEPT ![k] = nbrlist[k + 1], ![k + 1] = nbrlist[k]]
    BY <1>1 DEF SwapNbrs
  <2>2. nbrlist \in Seq(Candidate) /\ k \in DOMAIN nbrlist /\ k + 1 \in DOMAIN nbrlist
    BY DEF ElectInvariant
  <2> DEFINE From(j) == IF j = k THEN k + 1 ELSE IF j = k + 1 THEN k ELSE j
  <2>3. nbrlist' \in Seq(Candidate) /\ DOMAIN nbrlist' = DOMAIN nbrlist
    BY <2>1, <2>2
  <2>4. \A j \in DOMAIN nbrlist : From(j) \in DOMAIN nbrlist /\ nbrlist'[j] = nbrlist[From(j)]
    BY <2>1, <2>2
  <2>5. \A i, j \in DOMAIN nbrlist : From(i) = From(j) => i = j
    BY <2>2
  <2> HIDE DEF From
  <2>6. \A j \in DOMAIN nbrlist' : nbrlist'[j].id # OwnId
    BY <2>3, <2>4 DEF ElectInvariant
  <2>7. \A i, j \in DOMAIN nbrlist' : nbrlist'[i].id = nbrlist'[j].id => i = j
    BY <2>3, <2>4, <2>5 DEF ElectInvariant
  <2> QED
    BY <1>1, <2>3, <2>6, <2>7 DEF ElectInvariant, SwapNbrs
<1>2. CASE UNCHANGED electVars
  BY <1>2 DEF ElectInvariant, electVars
<1> QED
  BY <1>1, <1>2

(* The loops of ifa_elect() elect the choice, for any number of routers,   *)
(* any priorities and declarations, and in any order of the list.          *)
THEOREM LoopsAlwaysElectChoice == ElectSpec => []LoopsElectChoice
<1>1. ElectInvariant => LoopsElectChoice
  <2> SUFFICES ASSUME ElectInvariant PROVE LoopsElectChoice
    OBVIOUS
  <2>1. own \in Candidate /\ nbrlist \in Seq(Candidate)
    BY DEF ElectInvariant
  <2>2. AreCandidates(Seen(own, nbrlist, Len(nbrlist)))
    <3>1. Seen(own, nbrlist, Len(nbrlist)) = {own} \cup NbrSet
      BY <2>1 DEF Seen, NbrSet
    <3>2. \A c \in {own} \cup NbrSet : c.id \in Router /\ c.pri \in Nat
      <4>1. {own} \cup NbrSet \subseteq Candidate
        BY <2>1 DEF NbrSet
      <4> QED
        BY <4>1 DEF Candidate
    <3>3. \A c, d \in {own} \cup NbrSet : c.id = d.id => c = d
      BY DEF ElectInvariant, NbrSet
    <3> QED
      BY <3>1, <3>2, <3>3 DEF AreCandidates
  <2> QED
    BY <2>1, <2>2, LoopsComputeChoice DEF LoopsElectChoice, NbrSet
<1> QED
  BY <1>1, ElectInitially, ElectStep, PTL DEF ElectSpec
=============================================================================
