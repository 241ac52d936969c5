------------------------------ MODULE AvlTree ------------------------------
(***************************************************************************)
(* The balanced tree of avl.C, pointer by pointer, with the singly linked  *)
(* list that threads its items in order, and the iterator AVLsearch, which *)
(* survives changes of the tree by looking its place up again.  Nearly     *)
(* every table of the daemon is such a tree.                               *)
(*                                                                         *)
(* The pair of keys of an item is one number here, compared as the pairs   *)
(* are; 0 stands for the pair (0, 0).  Two items may have the same key:    *)
(* adding one replaces the other.  An item is added when it is new and     *)
(* freed when it is removed, as everywhere in the daemon.  Reference       *)
(* counts are left out (module LsaRxmt has those of LSAs).                 *)
(***************************************************************************)
EXTENDS Integers, FiniteSets, SequencesExt

CONSTANTS
  Item,        \* objects of class AVLitem
  Key,         \* their keys
  NULL,
  MaxIter      \* bound: items in a tree that is iterated through

AvlAssumption ==
  /\ IsFiniteSet(Item) /\ NULL \notin Item
  /\ Key \in [Item -> Nat \ {0}]
  /\ MaxIter \in Nat

VARIABLES
  tree,        \* the AVLtree and the links of its items
  iter,        \* an AVLsearch
  answer       \* what its next() has returned in this step, and where it stood

vars == <<tree, iter, answer>>

EmptyTree ==
  [root |-> NULL, sllhead |-> NULL, count |-> 0,
   left |-> [x \in Item |-> NULL], right |-> [x \in Item |-> NULL],
   balance |-> [x \in Item |-> 0], sll |-> [x \in Item |-> NULL],
   in_db |-> [x \in Item |-> FALSE]]

-----------------------------------------------------------------------------
(* No balanced tree is deeper. *)
MaxDepth == (Cardinality(Item) \div 2) + 1

(* The way down to a key: the items visited, up to the one that has it.    *)
ChildFor(t, x, k) == IF k < Key[x] THEN t.left[x] ELSE t.right[x]

Walk(t, k) ==
  LET way[n \in 0..MaxDepth] ==
        IF n = 0 THEN IF t.root = NULL THEN <<>> ELSE <<t.root>>
        ELSE LET w == way[n - 1]
             IN  IF w = <<>> THEN w
                 ELSE IF Key[Last(w)] = k \/ ChildFor(t, Last(w), k) = NULL THEN w
                 ELSE Append(w, ChildFor(t, Last(w), k))
  IN  way[MaxDepth]

(* The item that precedes a key: the last one at which the way turned to   *)
(* the right, unless the way ends at the number before it.                 *)
previous(t, k) ==
  LET lower == SelectSeq(Walk(t, k - 1), LAMBDA x : Key[x] <= k - 1)
  IN  IF k = 0 \/ lower = <<>> THEN NULL ELSE Last(lower)

(* One pointer at an item is turned to another one. *)
Redirect(t, p, x, to) ==
  IF p = NULL THEN [t EXCEPT !.root = to]
  ELSE IF t.left[p] = x THEN [t EXCEPT !.left[p] = to] ELSE [t EXCEPT !.right[p] = to]

Hang(t, p, k, x) ==
  IF p = NULL THEN [t EXCEPT !.root = x]
  ELSE IF k < Key[p] THEN [t EXCEPT !.left[p] = x] ELSE [t EXCEPT !.right[p] = x]

(* The ordered list.  The predecessor is looked up in the tree. *)
LinkSll(t, x) ==
  LET p == previous(t, Key[x])
  IN  IF p = NULL THEN [t EXCEPT !.sll[x] = t.sllhead, !.sllhead = x]
      ELSE [t EXCEPT !.sll[x] = t.sll[p], !.sll[p] = x]

SetSllBefore(t, k, x) ==
  LET p == previous(t, k)
  IN  IF p = NULL THEN [t EXCEPT !.sllhead = x] ELSE [t EXCEPT !.sll[p] = x]

-----------------------------------------------------------------------------
(* Rotations.  Each one returns the tree and the item on top.              *)
leftRotate(t, y) ==
  LET p == t.right[y] IN [t EXCEPT !.left[p] = y, !.right[y] = t.left[p]]

rightRotate(t, y) ==
  LET p == t.left[y] IN [t EXCEPT !.right[p] = y, !.left[y] = t.right[p]]

shiftLeft(t, y) ==
  LET s == t.right[y]
      even == t.balance[s] = 1
  IN  [tree |-> [leftRotate(t, y) EXCEPT !.balance[s] = IF even THEN 0 ELSE -1,
                                         !.balance[y] = IF even THEN 0 ELSE 1],
       top |-> s]

shiftRight(t, y) ==
  LET s == t.left[y]
      even == t.balance[s] = -1
  IN  [tree |-> [rightRotate(t, y) EXCEPT !.balance[s] = IF even THEN 0 ELSE 1,
                                          !.balance[y] = IF even THEN 0 ELSE -1],
       top |-> s]

Is(b) == IF b THEN 1 ELSE 0

shiftLeftThenRight(t, y) ==
  LET s  == t.left[y]
      gs == t.right[s]
      b  == t.balance[gs]
      t1 == [leftRotate(t, s) EXCEPT !.left[y] = gs]
  IN  [tree |-> [rightRotate(t1, y) EXCEPT !.balance[y] = Is(b = -1),
                                           !.balance[s] = -Is(b = 1),
                                           !.balance[gs] = 0],
       top |-> gs]

shiftRightThenLeft(t, y) ==
  LET s  == t.right[y]
      gs == t.left[s]
      b  == t.balance[gs]
      t1 == [rightRotate(t, s) EXCEPT !.right[y] = gs]
  IN  [tree |-> [leftRotate(t1, y) EXCEPT !.balance[y] = -Is(b = 1),
                                          !.balance[s] = Is(b = -1),
                                          !.balance[gs] = 0],
       top |-> gs]

(* An item two levels out of balance is rotated, twice if its child leans  *)
(* the other way.                                                          *)
Rotate(t, y) ==
  IF t.balance[y] = -2
  THEN IF t.balance[t.left[y]] = 1 THEN shiftLeftThenRight(t, y) ELSE shiftRight(t, y)
  ELSE IF t.balance[y] = 2
  THEN IF t.balance[t.right[y]] = -1 THEN shiftRightThenLeft(t, y) ELSE shiftLeft(t, y)
  ELSE [tree |-> t, top |-> y]

-----------------------------------------------------------------------------
(* An item that left the tree is freed. *)
Freed(t, x) ==
  [t EXCEPT !.left[x] = NULL, !.right[x] = NULL, !.balance[x] = 0, !.sll[x] = NULL]

(* The item takes the place of one with the same key. *)
Replace(t, x, way) ==
  LET old == Last(way)
      up  == IF Len(way) = 1 THEN NULL ELSE way[Len(way) - 1]
      t1  == [Redirect(t, up, old, x) EXCEPT
                !.left[x] = t.left[old], !.right[x] = t.right[old],
                !.balance[x] = t.balance[old], !.sll[x] = t.sll[old],
                !.in_db[x] = TRUE, !.in_db[old] = FALSE]
  IN  Freed(SetSllBefore(t1, Key[x], x), old)

(* The balance point: the last item on the way that leans, or the root. *)
BalancePoint(t, way) ==
  LET leans == {i \in DOMAIN way : t.balance[way[i]] # 0}
  IN  IF leans = {} THEN 1 ELSE CHOOSE i \in leans : \A j \in leans : j <= i

Insert(t, x, way) ==
  LET k   == Key[x]
      b   == BalancePoint(t, way)
      low == {way[i] : i \in b..Len(way)}
      t1  == [Hang(t, Last(way), k, x) EXCEPT
                !.in_db[x] = TRUE,
                !.balance = [y \in Item |-> IF y \notin low THEN t.balance[y]
                                            ELSE IF k < Key[y] THEN t.balance[y] - 1
                                            ELSE t.balance[y] + 1]]
      r   == Rotate(t1, way[b])
  IN  LinkSll(Hang(r.tree, IF b = 1 THEN NULL ELSE way[b - 1], k, r.top), x)

add(t, x) ==
  LET way == Walk(t, Key[x])
  IN  IF way = <<>>
      THEN LinkSll([t EXCEPT !.root = x, !.in_db[x] = TRUE, !.count = @ + 1], x)
      ELSE IF Key[Last(way)] = Key[x] THEN Replace(t, x, way)
      ELSE [Insert(t, x, way) EXCEPT !.count = @ + 1]

-----------------------------------------------------------------------------
(* remove(): the item is cut out, and the stack holds the items above the  *)
(* place where the tree lost one.                                          *)
Cut(t, x, above) ==
  LET up    == IF above = <<>> THEN NULL ELSE Last(above)
      child == IF t.left[x] = NULL THEN t.right[x] ELSE t.left[x]
  IN  [tree |-> Redirect(t, up, x, child), stack |-> above, child |-> child,
       imbal |-> IF up = NULL THEN 0 ELSE IF t.left[up] = x THEN 1 ELSE -1]

(* An item with two children gives its place to its predecessor. *)
RightSpine(t, x) ==
  LET way[n \in 0..MaxDepth] ==
        IF n = 0 THEN <<x>>
        ELSE IF t.right[Last(way[n - 1])] = NULL THEN way[n - 1]
        ELSE Append(way[n - 1], t.right[Last(way[n - 1])])
  IN  way[MaxDepth]

CutInner(t, x, above) ==
  LET spine == RightSpine(t, t.left[x])
      q     == Last(spine)
      near  == Len(spine) = 1
      t1    == Redirect(t, IF near THEN x ELSE spine[Len(spine) - 1], q, t.left[q])
      t2    == [t1 EXCEPT !.left[q] = t1.left[x], !.right[q] = t1.right[x],
                          !.balance[q] = t1.balance[x]]
  IN  [tree  |-> Redirect(t2, IF above = <<>> THEN NULL ELSE Last(above), x, q),
       stack |-> above \o <<q>> \o Front(spine),
       child |-> t.left[q], imbal |-> IF near THEN 1 ELSE -1]

(* Whether the subtree that was rotated is as high as before. *)
HeightKept(t, y) ==
  \/ t.balance[y] = -2 /\ t.balance[t.left[y]] = 0
  \/ t.balance[y] = 2 /\ t.balance[t.right[y]] = 0

(* The balance of an item after the subtree at child became lower. *)
Lean(t, y, child, imbal) ==
  t.balance[y] + (IF child = NULL THEN imbal
                  ELSE IF t.left[y] = child THEN 1
                  ELSE IF t.right[y] = child THEN -1 ELSE 0)

ClimbTurn_OnAndOn(a, y, i) ==
  LET t1 == IF a.rotated THEN Hang(a.tree, y, Key[a.child], a.child) ELSE a.tree
      t2 == [t1 EXCEPT !.balance[y] = Lean(t1, y, a.child, a.imbal)]
      r  == Rotate(t2, y)
  IN  [a EXCEPT !.tree = r.tree, !.child = r.top,
                !.rotated = t2.balance[y] \in {-2, 2},
                !.stop = IF t2.balance[y] \in {-1, 1} THEN i ELSE 0]

(* One turn of the loop back up the stack, at stack[i]. *)
ClimbTurn(a, y, i) ==
  LET t1 == IF a.rotated THEN Hang(a.tree, y, Key[a.child], a.child) ELSE a.tree
      t2 == [t1 EXCEPT !.balance[y] = Lean(t1, y, a.child, a.imbal)]
      r  == Rotate(t2, y)
  IN  IF a.rotated /\ a.kept THEN [a EXCEPT !.tree = t1, !.stop = i]
      ELSE [a EXCEPT !.tree = r.tree, !.child = r.top,
                     !.rotated = t2.balance[y] \in {-2, 2},
                     !.kept = @ \/ HeightKept(t2, y),
                     !.stop = IF t2.balance[y] \in {-1, 1} THEN i ELSE 0]

Climb(c) ==
  LET start == [tree |-> c.tree, child |-> c.child, imbal |-> c.imbal,
                rotated |-> FALSE, kept |-> FALSE, stop |-> 0]
      turn[n \in 0..Len(c.stack)] ==
        LET i == Len(c.stack) - n + 1
        IN  IF n = 0 THEN start
            ELSE IF turn[n - 1].stop # 0 THEN turn[n - 1]
            ELSE ClimbTurn(turn[n - 1], c.stack[i], i)
      end == turn[Len(c.stack)]
  IN  IF end.stop = 0 THEN [end.tree EXCEPT !.root = end.child]
      ELSE IF end.stop = 1 THEN [end.tree EXCEPT !.root = c.stack[1]]
      ELSE end.tree

remove(t, x) ==
  LET above == Front(Walk(t, Key[x]))
      t1    == [SetSllBefore(t, Key[x], t.sll[x]) EXCEPT !.count = @ - 1, !.in_db[x] = FALSE]
      inner == t.left[x] # NULL /\ t.right[x] # NULL
  IN  Freed(Climb(IF inner THEN CutInner(t1, x, above) ELSE Cut(t1, x, above)), x)

-----------------------------------------------------------------------------
(* The iterator.  pos is the key after which it is to go on: the last one  *)
(* it returned, or the one it was sought to.                               *)
NoIter == [c_index |-> 0, current |-> NULL, synced |-> TRUE, pos |-> 0, on |-> FALSE]
NoAnswer == [called |-> FALSE, item |-> NULL, after |-> 0]

seek(t, it, k) ==
  LET p == previous(t, k + 1)
  IN  IF t.root = NULL THEN [it EXCEPT !.c_index = k, !.current = NULL]
      ELSE [it EXCEPT !.current = p, !.c_index = IF p = NULL THEN k ELSE Key[p]]

Resync_Stays(t, it) == it

(* After a change of the tree the place is looked up again. *)
Resync(t, it) ==
  IF it.synced THEN it
  ELSE IF it.current = NULL THEN [it EXCEPT !.synced = TRUE]
  ELSE [seek(t, it, it.c_index) EXCEPT !.synced = TRUE]

next(t, it) ==
  LET i1 == Resync(t, it)
      x  == IF i1.current = NULL THEN t.sllhead ELSE t.sll[i1.current]
  IN  IF t.root = NULL THEN [iter |-> it, item |-> NULL]
      ELSE IF x = NULL THEN [iter |-> i1, item |-> NULL]
      ELSE [iter |-> [i1 EXCEPT !.current = x, !.c_index = Key[x], !.pos = Key[x]], item |-> x]

-----------------------------------------------------------------------------
Init ==
  /\ tree = EmptyTree
  /\ iter = NoIter
  /\ answer = NoAnswer

Changed ==
  /\ iter' = IF iter.on THEN [iter EXCEPT !.synced = FALSE] ELSE iter
  /\ answer' = NoAnswer

AddItem(x) ==
  /\ ~tree.in_db[x]
  /\ iter.on => tree.count < MaxIter
  /\ tree' = add(tree, x)
  /\ Changed

RemoveItem(x) ==
  /\ tree.in_db[x]
  /\ tree' = remove(tree, x)
  /\ Changed

(* next() ends the iteration or moves it on. *)
Step(it) ==
  LET n == next(tree, it)
  IN  /\ iter' = IF n.item = NULL THEN NoIter ELSE n.iter
      /\ answer' = [called |-> TRUE, item |-> n.item, after |-> it.pos]
      /\ UNCHANGED tree

(* An iteration begins, at the head or after a key; every caller asks for  *)
(* the first item before anything changes.                                 *)
Begin ==
  /\ tree.count <= MaxIter
  /\ \E k \in {0} \cup {Key[x] : x \in Item} :
       Step([seek(tree, NoIter, k) EXCEPT !.pos = k, !.on = TRUE])

Go == iter.on /\ Step(iter)

Next ==
  \/ \E x \in Item : AddItem(x) \/ RemoveItem(x)
  \/ Begin
  \/ Go

Spec == Init /\ [][Next]_vars

-----------------------------------------------------------------------------
(* What the tree is to be, independent of how it was built.                *)
InOrder(t) ==
  LET below[n \in 0..MaxDepth] ==
        [x \in Item \cup {NULL} |->
           IF x = NULL \/ n = 0 THEN <<>>
           ELSE below[n - 1][t.left[x]] \o <<x>> \o below[n - 1][t.right[x]]]
  IN  below[MaxDepth][t.root]

Heights(t) ==
  LET below[n \in 0..MaxDepth] ==
        [x \in Item \cup {NULL} |->
           IF x = NULL \/ n = 0 THEN 0
           ELSE 1 + Max({below[n - 1][t.left[x]], below[n - 1][t.right[x]]})]
  IN  below[MaxDepth]

OrderedList(t) ==
  LET list[n \in 0..Cardinality(Item)] ==
        IF n = 0 THEN IF t.sllhead = NULL THEN <<>> ELSE <<t.sllhead>>
        ELSE LET l == list[n - 1]
             IN  IF l = <<>> THEN l
                 ELSE IF t.sll[Last(l)] = NULL THEN l ELSE Append(l, t.sll[Last(l)])
  IN  list[Cardinality(Item)]

TypeOK ==
  /\ tree \in [root : Item \cup {NULL}, sllhead : Item \cup {NULL}, count : Nat,
              left : [Item -> Item \cup {NULL}], right : [Item -> Item \cup {NULL}],
              balance : [Item -> -1..1], sll : [Item -> Item \cup {NULL}],
              in_db : [Item -> BOOLEAN]]
  /\ iter.current \in Item \cup {NULL}

(* After any adds, replacements and removals the tree holds the items that *)
(* were added and not removed, in the order of their keys; the list says   *)
(* the same as the tree; and every balance is the difference of two        *)
(* heights, so that no way down is long.  One link or balance that a       *)
(* rotation leaves behind loses a subtree or sets the next rotation wrong. *)
TreeSound ==
  LET items == InOrder(tree)
      h     == Heights(tree)
  IN  /\ TypeOK
      /\ \A i \in 1..(Len(items) - 1) : Key[items[i]] < Key[items[i + 1]]
      /\ ToSet(items) = {x \in Item : tree.in_db[x]}
      /\ OrderedList(tree) = items
      /\ tree.count = Len(items)
      /\ \A x \in ToSet(items) : tree.balance[x] = h[tree.right[x]] - h[tree.left[x]]

(* next() returns the item that follows the one it returned before,        *)
(* whatever was added, replaced or removed in between, that one included:  *)
(* nothing is met twice, and nothing that stays in the tree is missed.     *)
IterationExact ==
  answer.called =>
    LET later == {x \in Item : tree.in_db[x] /\ Key[x] > answer.after}
    IN  IF answer.item = NULL THEN later = {}
        ELSE answer.item \in later /\ \A x \in later : Key[answer.item] <= Key[x]
=============================================================================
