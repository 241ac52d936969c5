----------------------------- MODULE Recursion ------------------------------
(***************************************************************************)
(* Induction over the natural numbers and functions defined by recursion   *)
(* over them, stated with sets and functions in place of the operators of  *)
(* NaturalsInduction, so that the facts can be cited with any instance;    *)
(* and what Keep returns.                                                  *)
(***************************************************************************)
EXTENDS Integers, Sequences, FiniteSets, Selection, WellFoundedInduction, FiniteSetTheorems, TLAPS

\* A set that has 0, and with each number the next, has all of them.
LEMMA SetInduction ==
    ASSUME NEW S, 0 \in S, \A n \in Nat : n \in S => n + 1 \in S
    PROVE  Nat \subseteq S
<1> DEFINE R == {e \in Nat \X Nat : e[1] < e[2]}
<1> SUFFICES ASSUME Nat \ S # {} PROVE FALSE
  OBVIOUS
<1>1. IsWellFoundedOn(R, Nat)
  BY NatLessThanWellFounded DEF OpToRel
<1>2. PICK x \in Nat \ S : \A y \in Nat \ S : ~(<<y, x>> \in R)
  <2>1. Nat \ S \subseteq Nat
    OBVIOUS
  <2> HIDE DEF R
  <2> QED
    BY <1>1, <2>1, WFMin
<1>3. x # 0 /\ x - 1 \in Nat
  OBVIOUS
<1>4. x - 1 \notin S /\ <<x - 1, x>> \in R
  BY <1>3
<1> QED
  BY <1>2, <1>3, <1>4

\* f is what "base" becomes by the steps F of the numbers up to m.
Iterates(f, m, base, F) ==
    f = [k \in 0..m |-> IF k = 0 THEN base ELSE F[<<f[k - 1], k>>]]

\* There is such a function, and its values are of the type of its steps.
LEMMA IterationExists ==
    ASSUME NEW N \in Nat, NEW X, NEW base \in X, NEW F \in [X \X (1..N) -> X]
    PROVE  \E f \in [0..N -> X] : Iterates(f, N, base, F)
<1> DEFINE S == {m \in Nat : m <= N => \E f \in [0..m -> X] : Iterates(f, m, base, F)}
<1>1. 0 \in S
  <2>1. Iterates([k \in 0..0 |-> base], 0, base, F)
    BY DEF Iterates
  <2> QED
    BY <2>1
<1>2. ASSUME NEW m \in Nat, m \in S
      PROVE  m + 1 \in S
  <2> SUFFICES ASSUME m + 1 <= N
               PROVE  \E f \in [0..(m + 1) -> X] : Iterates(f, m + 1, base, F)
    OBVIOUS
  <2>1. PICK g \in [0..m -> X] : Iterates(g, m, base, F)
    BY <1>2
  <2>2. F[<<g[m], m + 1>>] \in X
    OBVIOUS
  <2> DEFINE h == [k \in 0..(m + 1) |-> IF k <= m THEN g[k] ELSE F[<<g[m], m + 1>>]]
  <2>3. h \in [0..(m + 1) -> X]
    BY <2>2
  <2>4. \A k \in 0..m : g[k] = IF k = 0 THEN base ELSE F[<<g[k - 1], k>>]
    BY <2>1 DEF Iterates
  <2>5. ASSUME NEW k \in 0..(m + 1)
        PROVE  h[k] = IF k = 0 THEN base ELSE F[<<h[k - 1], k>>]
    <3>1. CASE k = 0
      <4>1. 0 \in 0..m /\ 0 \in 0..(m + 1) /\ 0 <= m
        OBVIOUS
      <4>2. g[0] = base
        BY <2>4, <4>1
      <4>3. h[0] = g[0]
        BY <4>1
      <4> HIDE DEF h
      <4> QED
        BY <3>1, <4>2, <4>3
    <3>2. CASE k \in 1..m
      <4>1. h[k] = g[k] /\ h[k - 1] = g[k - 1] /\ g[k] = F[<<g[k - 1], k>>]
        BY <2>4, <3>2
      <4> HIDE DEF h
      <4> QED
        BY <3>2, <4>1
    <3>3. CASE k = m + 1
      <4>1. h[k] = F[<<g[m], m + 1>>] /\ h[k - 1] = g[m]
        BY <3>3
      <4> HIDE DEF h
      <4> QED
        BY <3>3, <4>1
    <3> QED
      BY <3>1, <3>2, <3>3
  <2>6. Iterates(h, m + 1, base, F)
    BY <2>5 DEF Iterates
  <2> QED
    BY <2>3, <2>6
<1>3. N \in S
  <2> HIDE DEF S
  <2> QED
    BY <1>1, <1>2, SetInduction
<1> QED
  BY <1>3

\* What holds of the first value, and of a value when of the one before, holds of all.
LEMMA AllValues ==
    ASSUME NEW N \in Nat, NEW X, NEW v, v[0] \in X, \A k \in 1..N : v[k - 1] \in X => v[k] \in X
    PROVE  \A k \in 0..N : v[k] \in X
<1> DEFINE S == {k \in Nat : k <= N => v[k] \in X}
<1>1. 0 \in S
  OBVIOUS
<1>2. ASSUME NEW k \in Nat, k \in S
      PROVE  k + 1 \in S
  <2> SUFFICES ASSUME k + 1 <= N
               PROVE  v[k + 1] \in X
    OBVIOUS
  <2>1. k + 1 \in 1..N /\ (k + 1) - 1 = k
    OBVIOUS
  <2>2. v[k] \in X
    BY <1>2
  <2> QED
    BY <2>1, <2>2
<1>3. Nat \subseteq S
  <2> HIDE DEF S
  <2> QED
    BY <1>1, <1>2, SetInduction
<1> QED
  BY <1>3

(* v[k] is what has been kept of the first k elements, and of elements of  *)
(* X; the last value is Keep's.                                            *)
Keeping(s, S, X, v) ==
    /\ v[0] = <<>>
    /\ \A k \in 1..Len(s) :
         v[k] = IF s[k] \in S THEN Append(v[k - 1], s[k]) ELSE v[k - 1]
    /\ \A k \in 0..Len(s) : v[k] \in Seq(X \cap S)
    /\ Keep(s, S) = v[Len(s)]

LEMMA KeepUnrolled ==
    ASSUME NEW X, NEW s \in Seq(X), NEW S
    PROVE  \E v : Keeping(s, S, X, v)
<1> DEFINE N == Len(s)
           Y == Seq(X \cap S)
           F == [p \in Y \X (1..N) |-> IF s[p[2]] \in S THEN Append(p[1], s[p[2]]) ELSE p[1]]
           IsKept(w) ==
             w = [k \in 0..N |-> IF k = 0 THEN <<>>
                                 ELSE IF s[k] \in S THEN Append(w[k - 1], s[k]) ELSE w[k - 1]]
<1>1. /\ N \in Nat /\ <<>> \in Y
      /\ \A k \in 1..N : \A a \in Y : (IF s[k] \in S THEN Append(a, s[k]) ELSE a) \in Y
  OBVIOUS
<1>2. F \in [Y \X (1..N) -> Y]
  BY <1>1
<1>3. \A k \in 1..N : \A a \in Y : F[<<a, k>>] = IF s[k] \in S THEN Append(a, s[k]) ELSE a
  OBVIOUS
<1>4. Keep(s, S) = (CHOOSE w : IsKept(w))[N]
  BY DEF Keep
<1> HIDE DEF F, N, Y
<1>5. PICK f \in [0..N -> Y] : Iterates(f, N, <<>>, F)
  BY <1>1, <1>2, IterationExists
<1>6. \A k \in 0..N : IF k = 0 THEN f[k] = <<>>
                      ELSE f[k] = IF s[k] \in S THEN Append(f[k - 1], s[k]) ELSE f[k - 1]
  BY <1>1, <1>3, <1>5 DEF Iterates
<1>7. IsKept(f)
  BY <1>6
<1> DEFINE v == CHOOSE w : IsKept(w)
<1>8. IsKept(v)
  <2> HIDE DEF IsKept
  <2> QED
    BY <1>7
<1>9. /\ v[0] = <<>>
      /\ \A k \in 1..N : v[k] = IF s[k] \in S THEN Append(v[k - 1], s[k]) ELSE v[k - 1]
  <2> HIDE DEF v
  <2>1. \A k \in 0..N : v[k] = IF k = 0 THEN <<>>
                                ELSE IF s[k] \in S THEN Append(v[k - 1], s[k]) ELSE v[k - 1]
    BY <1>8, Zenon
  <2>2. 0 \in 0..N /\ \A k \in 1..N : k \in 0..N /\ k # 0
    BY <1>1
  <2> QED
    BY <2>1, <2>2
<1> HIDE DEF v
<1>10. \A k \in 0..N : v[k] \in Y
  <2>1. v[0] \in Y /\ \A k \in 1..N : v[k - 1] \in Y => v[k] \in Y
    BY <1>1, <1>9
  <2> QED
    BY <1>1, <2>1, AllValues
<1>11. Keep(s, S) = v[N]
  BY <1>4 DEF v
<1> QED
  BY <1>9, <1>10, <1>11 DEF N, Y, Keeping

\* Keep gives a sequence, of elements of both.
LEMMA KeepIsSequence ==
    ASSUME NEW X, NEW s \in Seq(X), NEW S
    PROVE  Keep(s, S) \in Seq(X \cap S)
<1>1. Len(s) \in 0..Len(s)
  OBVIOUS
<1> QED
  BY <1>1, KeepUnrolled DEF Keeping

\* A set that has {}, and a subset of S when all its subsets with an element less, has all of them.
LEMMA SubsetInduction ==
    ASSUME NEW S, IsFiniteSet(S), NEW T, {} \in T,
           \A s \in SUBSET S : s # {} /\ (\A x \in s : s \ {x} \in T) => s \in T
    PROVE  SUBSET S \subseteq T
<1> DEFINE Sizes == {n \in Nat : \A s \in SUBSET S : Cardinality(s) = n => s \in T}
<1>1. \A s \in SUBSET S : IsFiniteSet(s) /\ Cardinality(s) \in Nat
  BY FS_Subset, FS_CardinalityType
<1>2. 0 \in Sizes
  <2>1. \A s \in SUBSET S : Cardinality(s) = 0 => s = {}
    BY <1>1, FS_EmptySet
  <2> QED
    BY <2>1
<1>3. ASSUME NEW n \in Nat, n \in Sizes
      PROVE  n + 1 \in Sizes
  <2> SUFFICES ASSUME NEW s \in SUBSET S, Cardinality(s) = n + 1
               PROVE  s \in T
    OBVIOUS
  <2>1. s # {}
    <3>1. Cardinality({}) = 0 /\ n + 1 # 0
      BY FS_EmptySet
    <3> QED
      BY <3>1
  <2>2. ASSUME NEW x \in s
        PROVE  s \ {x} \in T
    <3>1. Cardinality(s \ {x}) = Cardinality(s) - 1
      BY <1>1, FS_RemoveElement
    <3>2. Cardinality(s \ {x}) = n
      BY <3>1
    <3> QED
      BY <1>3, <3>2
  <2> QED
    BY <2>1, <2>2
<1>4. Nat \subseteq Sizes
  <2> HIDE DEF Sizes
  <2> QED
    BY <1>2, <1>3, SetInduction
<1> QED
  BY <1>1, <1>4

\* f is what "base" becomes by the steps F of the elements of the subsets of S, as FoldSet takes them.
FoldIs(f, S, base, F) ==
    f = [s \in SUBSET S |->
           IF s = {} THEN base
           ELSE F[<<f[s \ {CHOOSE x \in s : TRUE}], CHOOSE x \in s : TRUE>>]]

\* There is such a function, and its values are of the type of its steps.
LEMMA FoldExists ==
    ASSUME NEW S, IsFiniteSet(S), NEW X, NEW base \in X, NEW F \in [X \X S -> X]
    PROVE  \E f \in [SUBSET S -> X] : FoldIs(f, S, base, F)
<1> DEFINE Of(s) == CHOOSE x \in s : TRUE
           Small(n) == {s \in SUBSET S : Cardinality(s) <= n}
           Is(f, s) == f[s] = IF s = {} THEN base ELSE F[<<f[s \ {Of(s)}], Of(s)>>]
           Sizes == {n \in Nat : \E f \in [Small(n) -> X] : \A s \in Small(n) : Is(f, s)}
<1>1. \A s \in SUBSET S : IsFiniteSet(s) /\ Cardinality(s) \in Nat
  BY FS_Subset, FS_CardinalityType
<1>2. \A s \in SUBSET S : s # {} => Of(s) \in s
  OBVIOUS
<1>3. ASSUME NEW s \in SUBSET S, s # {}
      PROVE  /\ Of(s) \in S /\ s \ {Of(s)} \in SUBSET S
             /\ Cardinality(s \ {Of(s)}) = Cardinality(s) - 1
  <2>1. Of(s) \in s
    BY <1>2, <1>3
  <2> HIDE DEF Of
  <2> QED
    BY <1>1, <2>1, FS_RemoveElement
<1>4. 0 \in Sizes
  <2> DEFINE f == [s \in Small(0) |-> base]
  <2>1. \A s \in Small(0) : s = {}
    <3>1. \A s \in SUBSET S : Cardinality(s) = 0 => s = {}
      BY <1>1, FS_EmptySet
    <3> QED
      BY <1>1, <3>1
  <2>2. \A s \in Small(0) : Is(f, s)
    BY <2>1
  <2>3. f \in [Small(0) -> X]
    OBVIOUS
  <2> HIDE DEF f, Small, Is
  <2> QED
    BY <2>2, <2>3
<1>5. ASSUME NEW n \in Nat, n \in Sizes
      PROVE  n + 1 \in Sizes
  <2>1. PICK g \in [Small(n) -> X] : \A s \in Small(n) : Is(g, s)
    BY <1>5
  <2> DEFINE h == [s \in Small(n + 1) |-> IF s \in Small(n) THEN g[s] ELSE F[<<g[s \ {Of(s)}], Of(s)>>]]
  <2>2. ASSUME NEW s \in Small(n + 1), s # {}
        PROVE  /\ s \ {Of(s)} \in Small(n) /\ s \ {Of(s)} \in Small(n + 1)
               /\ Of(s) \in S
    <3>1. /\ s \in SUBSET S /\ Cardinality(s) \in Nat /\ Cardinality(s) <= n + 1
          /\ Of(s) \in S /\ s \ {Of(s)} \in SUBSET S
          /\ Cardinality(s \ {Of(s)}) = Cardinality(s) - 1
      BY <1>1, <1>3, <2>2
    <3> HIDE DEF Of
    <3> QED
      BY <3>1
  <2>3. {} \in Small(n)
    BY FS_EmptySet
  <2>4. \A s \in Small(n + 1) : s \notin Small(n) => s # {} /\ F[<<g[s \ {Of(s)}], Of(s)>>] \in X
    <3> SUFFICES ASSUME NEW s \in Small(n + 1), s \notin Small(n)
                 PROVE  s # {} /\ F[<<g[s \ {Of(s)}], Of(s)>>] \in X
      OBVIOUS
    <3>1. s # {}
      BY <2>3
    <3>2. s \ {Of(s)} \in Small(n) /\ Of(s) \in S
      BY <2>2, <3>1
    <3> HIDE DEF Of, Small
    <3> QED
      BY <3>1, <3>2
  <2>5. h \in [Small(n + 1) -> X]
    <3> HIDE DEF Small, Of
    <3> QED
      BY <2>4
  <2>6. ASSUME NEW s \in Small(n + 1)
        PROVE  Is(h, s)
    <3>1. h[s] = IF s \in Small(n) THEN g[s] ELSE F[<<g[s \ {Of(s)}], Of(s)>>]
      <4> HIDE DEF Small, Of
      <4> QED
        OBVIOUS
    <3>2. s # {} => h[s \ {Of(s)}] = g[s \ {Of(s)}]
      <4> SUFFICES ASSUME s # {}
                   PROVE  h[s \ {Of(s)}] = g[s \ {Of(s)}]
        OBVIOUS
      <4>1. s \ {Of(s)} \in Small(n) /\ s \ {Of(s)} \in Small(n + 1)
        BY <2>2
      <4> HIDE DEF Small, Of
      <4> QED
        BY <4>1
    <3>3. s \in Small(n) => Is(g, s)
      BY <2>1
    <3> HIDE DEF h, Small, Of
    <3> QED
      BY <2>4, <3>1, <3>2, <3>3
  <2> HIDE DEF h, Small, Is
  <2> QED
    BY <2>5, <2>6
<1>6. Cardinality(S) \in Sizes
  <2>1. Cardinality(S) \in Nat
    BY FS_CardinalityType
  <2>2. Nat \subseteq Sizes
    <3> HIDE DEF Sizes
    <3> QED
      BY <1>4, <1>5, SetInduction
  <2> QED
    BY <2>1, <2>2
<1>7. Small(Cardinality(S)) = SUBSET S
  <2>1. \A s \in SUBSET S : Cardinality(s) <= Cardinality(S)
    BY FS_Subset
  <2> QED
    BY <2>1
<1>8. PICK f \in [SUBSET S -> X] : \A s \in SUBSET S : Is(f, s)
  <2> HIDE DEF Small, Is
  <2>1. \E f \in [Small(Cardinality(S)) -> X] : \A s \in Small(Cardinality(S)) : Is(f, s)
    BY <1>6
  <2> QED
    BY <1>7, <2>1
<1>9. FoldIs(f, S, base, F)
  BY <1>8 DEF FoldIs
<1> QED
  BY <1>9
=============================================================================
