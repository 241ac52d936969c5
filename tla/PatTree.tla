------------------------------ MODULE PatTree ------------------------------
(***************************************************************************)
(* The Patricia tree of pat.C, pointer by pointer.  An entry is inner node *)
(* and leaf at once: it tests one bit of the key that is looked up, and a  *)
(* pointer to an entry that tests no later bit ends the way down.  The     *)
(* daemon keeps its next hops in such a tree, the simulator its database   *)
(* statistics, the browser its value pairs.                                *)
(*                                                                         *)
(* An entry is named by its key, a sequence of bytes; the empty sequence   *)
(* is the dummy entry that init() puts at the root.                        *)
(***************************************************************************)
EXTENDS Integers, FiniteSets, SequencesExt

CONSTANT Key       \* the keys of the entries

PatAssumption == Key \subseteq Seq(0..255) \ {<<>>}

VARIABLE pat

Dummy  == <<>>
Entry  == Key \cup {Dummy}
MaxBit == 10000            \* 0xffffffff in the code

\* Bit i of a key: its bytes, then its length in bits (low bit first), then
\* zeros.
bit_check(k, i) ==
  LET bitlen == 8 * Len(k)
      bitOf(n, b) == (n \div 2^b) % 2 = 1
  IN  IF i < bitlen THEN bitOf(k[(i \div 8) + 1], 7 - (i % 8))
      ELSE i < bitlen + 32 /\ bitOf(bitlen, i - bitlen)

init ==
  [root |-> Dummy, size |-> 0, in |-> {},
   zeroptr |-> [e \in Entry |-> Dummy], oneptr |-> [e \in Entry |-> Dummy],
   chkbit |-> [e \in Entry |-> MaxBit]]

-----------------------------------------------------------------------------
Child(t, e, k) == IF bit_check(k, t.chkbit[e]) THEN t.oneptr[e] ELSE t.zeroptr[e]

(* The entries on the way down for a key; the last one is where a pointer  *)
(* leads back up, or stays.                                                *)
Way(t, k) ==
  LET way[n \in 1..(Cardinality(Entry) + 1)] ==
        IF n = 1 THEN [seq |-> <<t.root>>, end |-> FALSE]
        ELSE LET w == way[n - 1]
                 p == Last(w.seq)
                 c == Child(t, p, k)
             IN  IF w.end THEN w
                 ELSE [seq |-> Append(w.seq, c), end |-> t.chkbit[p] >= t.chkbit[c]]
  IN  way[Cardinality(Entry) + 1].seq

find(t, k) == IF Last(Way(t, k)) = k THEN k ELSE Dummy

(* The entry at the end of a way is compared with the new key as far as    *)
(* the new key has bytes.                                                  *)
FirstDifference(k, other) ==
  LET differ == {i \in 0..(8 * Len(k) - 1) : bit_check(k, i) # bit_check(other, i)}
  IN  IF differ = {} THEN 8 * Len(k) ELSE Min(differ)

SetChild(t, e, k, c) ==
  IF bit_check(k, t.chkbit[e]) THEN [t EXCEPT !.oneptr[e] = c] ELSE [t EXCEPT !.zeroptr[e] = c]

(* The new entry, testing bit i, above the entry c. *)
PutAbove(t, k, i, c) ==
  [t EXCEPT !.chkbit[k] = i, !.in = @ \cup {k}, !.size = @ + 1,
            !.zeroptr[k] = IF bit_check(k, i) THEN c ELSE k,
            !.oneptr[k] = IF bit_check(k, i) THEN k ELSE c]

add(t, k) ==
  LET way == Way(t, k)
      i   == FirstDifference(k, Last(way))
      at  == CHOOSE n \in 2..Len(way) :
               LET here(m) == \/ t.chkbit[way[m]] >= i
                              \/ t.chkbit[way[m]] <= t.chkbit[way[m - 1]]
               IN  here(n) /\ \A m \in 2..(n - 1) : ~here(m)
  IN  IF t.size = 0 \/ t.chkbit[t.root] > i
      THEN [PutAbove(t, k, i, t.root) EXCEPT !.root = k]
      ELSE SetChild(PutAbove(t, k, i, way[at]), way[at - 1], k, k)

(* remove(): the entry p whose pointer leads up to the removed one is      *)
(* taken out of its own place, and takes the place of the removed one.     *)
remove_LeavesHole(t, k) ==
  LET way == Way(t, k)
      n   == Len(way)
      p   == way[n - 1]
      g   == way[IF n = 2 THEN 1 ELSE n - 2]
      up  == IF t.zeroptr[p] = k THEN t.oneptr[p] ELSE t.zeroptr[p]
      t1  == [SetChild(t, g, k, up) EXCEPT !.size = @ - 1, !.in = @ \ {k}]
      head == [t1 EXCEPT !.root = IF k = t.root THEN up ELSE @]
  IN  IF p = k THEN head
      ELSE [head EXCEPT !.root = IF k = t.root THEN p ELSE @, !.chkbit[p] = t1.chkbit[k],
                        !.zeroptr[p] = t1.zeroptr[k], !.oneptr[p] = t1.oneptr[k]]

remove(t, k) ==
  LET way == Way(t, k)
      n   == Len(way)
      p   == way[n - 1]
      g   == way[IF n = 2 THEN 1 ELSE n - 2]
      gg  == LET j == CHOOSE j \in 1..n : way[j] = k /\ \A m \in 1..(j - 1) : way[m] # k
             IN  way[IF j = 1 THEN 1 ELSE j - 1]
      up  == IF t.zeroptr[p] = k THEN t.oneptr[p] ELSE t.zeroptr[p]
      t1  == [SetChild(t, g, k, up) EXCEPT !.size = @ - 1, !.in = @ \ {k}]
      t2  == IF k = t.root THEN [t1 EXCEPT !.root = IF p = k THEN up ELSE p]
             ELSE IF p = k THEN t1 ELSE SetChild(t1, gg, k, p)
  IN  IF Last(way) # k THEN t
      ELSE IF p = k THEN t2
      ELSE [t2 EXCEPT !.chkbit[p] = t1.chkbit[k],
                      !.zeroptr[p] = t2.zeroptr[k], !.oneptr[p] = t2.oneptr[k]]

(* The entry is deleted after it was removed. *)
Deleted(t, k) == [t EXCEPT !.zeroptr[k] = Dummy, !.oneptr[k] = Dummy, !.chkbit[k] = MaxBit]

-----------------------------------------------------------------------------
Init == pat = init

\* Callers look a key up before they add it.
AddKey(k) == k \notin pat.in /\ find(pat, k) = Dummy /\ pat' = add(pat, k)
RemoveKey(k) == k \in pat.in /\ pat' = Deleted(remove(pat, k), k)

Next == \E k \in Key : AddKey(k) \/ RemoveKey(k)

Spec == Init /\ [][Next]_pat

-----------------------------------------------------------------------------
TypeOK ==
  /\ pat.root \in Entry /\ pat.size \in Nat /\ pat.in \subseteq Key
  /\ pat.zeroptr \in [Entry -> Entry] /\ pat.oneptr \in [Entry -> Entry]
  /\ pat.chkbit \in [Entry -> Nat]

(* A key is found exactly when it is in the tree, after any additions and  *)
(* removals: "We're doing exact match, including length" (pat.h:9).  An    *)
(* addition that tests a bit in which two keys below do not differ, or a   *)
(* removal that loses a pointer up, hides entries that are not involved.   *)
LookupExact ==
  /\ TypeOK
  /\ pat.size = Cardinality(pat.in)
  /\ \A k \in Key : find(pat, k) = (IF k \in pat.in THEN k ELSE Dummy)
=============================================================================
