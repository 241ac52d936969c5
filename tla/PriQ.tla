-------------------------------- MODULE PriQ --------------------------------
(***************************************************************************)
(* The priority queue of priq.C: a binary heap of nodes linked by pointers *)
(* (root, left, right, parent), in which the place of the last node is     *)
(* found from the binary digits of the number of nodes.                    *)
(*                                                                         *)
(* A queue is a record q of the pointers of every element and of nelts; c  *)
(* gives each element its key.  The pointers of a removed element, which   *)
(* the code leaves as they were and priq_add() resets, are null here.      *)
(***************************************************************************)
EXTENDS Integers, FiniteSets

CONSTANTS
  Elt,    \* the elements that may be queued, a finite set
  NULL    \* the null pointer, not one of them

EmptyQ ==
  LET none == [e \in Elt |-> NULL]
  IN  [root |-> NULL, nelts |-> 0, left |-> none, right |-> none, parent |-> none]

(* Keys: the smaller cost first and, of equal costs, the larger tie. *)
costs_less(a, b) ==
  \/ a.cost < b.cost
  \/ a.cost = b.cost /\ a.tie > b.tie

(* The node at position n of the complete tree, the root being position 1: *)
(* the digits of n after the first say where to turn on the way down.      *)
NodeAt(q, n) ==
  LET at[i \in 1..n] ==
        IF i = 1 THEN q.root
        ELSE IF i % 2 = 1 THEN q.right[at[i \div 2]] ELSE q.left[at[i \div 2]]
  IN  at[n]

(* Child ch and its parent p change places, their subtrees staying where   *)
(* they are.                                                               *)
node_swap(q, p, ch) ==
  LET gp     == q.parent[p]
      isLeft == q.left[p] = ch
      other  == IF isLeft THEN q.right[p] ELSE q.left[p]
  IN  [q EXCEPT
        !.root = IF gp = NULL THEN ch ELSE @,
        !.left = [e \in Elt |->
           CASE e = ch                     -> IF isLeft THEN p ELSE other
             [] e = p                      -> q.left[ch]
             [] e = gp /\ q.left[e] = p    -> ch
             [] OTHER                      -> q.left[e]],
        !.right = [e \in Elt |->
           CASE e = ch                     -> IF isLeft THEN other ELSE p
             [] e = p                      -> q.right[ch]
             [] e = gp /\ q.left[e] # p /\ q.right[e] = p -> ch
             [] OTHER                      -> q.right[e]],
        !.parent = [e \in Elt |->
           CASE e = ch                     -> gp
             [] e = p                      -> ch
             [] e = other                  -> ch
             [] e \in {q.left[ch], q.right[ch]} -> p
             [] OTHER                      -> q.parent[e]]]

(* The two loops that restore the order, from node e towards the root and  *)
(* towards the leaves.  Each turn does nothing once the order holds, and   *)
(* there are fewer turns than elements.                                    *)
UpTurn(q, c, e) ==
  IF q.parent[e] # NULL /\ costs_less(c[e], c[q.parent[e]])
  THEN node_swap(q, q.parent[e], e) ELSE q

WalkUp(q, c, e) ==
  LET turn[n \in 0..Cardinality(Elt)] == IF n = 0 THEN q ELSE UpTurn(turn[n - 1], c, e)
  IN  turn[Cardinality(Elt)]

SmallestOf_LeftFirst(q, c, e) ==
  LET l == q.left[e]
      r == q.right[e]
  IN  IF l # NULL /\ costs_less(c[l], c[e]) THEN l
      ELSE IF r # NULL /\ costs_less(c[r], c[e]) THEN r ELSE e

SmallestOf(q, c, e) ==
  LET l == q.left[e]
      r == q.right[e]
      s == IF l # NULL /\ costs_less(c[l], c[e]) THEN l ELSE e
  IN  IF r # NULL /\ costs_less(c[r], c[s]) THEN r ELSE s

DownTurn(q, c, e) ==
  IF SmallestOf(q, c, e) = e THEN q ELSE node_swap(q, e, SmallestOf(q, c, e))

WalkDown(q, c, e) ==
  LET turn[n \in 0..Cardinality(Elt)] == IF n = 0 THEN q ELSE DownTurn(turn[n - 1], c, e)
  IN  turn[Cardinality(Elt)]

priq_gethead(q) == q.root

priq_add(q, c, e) ==
  LET n   == q.nelts + 1
      new == [q EXCEPT !.nelts = n, !.left[e] = NULL, !.right[e] = NULL,
                       !.parent[e] = NULL]
      p   == NodeAt(new, n \div 2)
  IN  IF q.root = NULL THEN [new EXCEPT !.root = e]
      ELSE LET hung == IF n % 2 = 1 THEN [new EXCEPT !.right[p] = e, !.parent[e] = p]
                       ELSE [new EXCEPT !.left[p] = e, !.parent[e] = p]
           IN  WalkUp(hung, c, e)

(* The last node is cut off; unless it is the one to delete, it takes the  *)
(* place of that one and moves down or up from there.                      *)
CutLast(q, last) ==
  LET p == q.parent[last]
  IN  IF p = NULL THEN [q EXCEPT !.nelts = @ - 1]
      ELSE IF q.left[p] = last THEN [q EXCEPT !.nelts = @ - 1, !.left[p] = NULL]
      ELSE [q EXCEPT !.nelts = @ - 1, !.right[p] = NULL]

Replace(q, e, by) ==
  LET p    == q.parent[e]
      kids == {q.left[e], q.right[e]} \ {NULL}
  IN  [q EXCEPT
        !.root = IF p = NULL THEN by ELSE @,
        !.left = [x \in Elt |->
           IF x = by THEN q.left[e] ELSE IF x = p /\ q.left[x] = e THEN by ELSE q.left[x]],
        !.right = [x \in Elt |->
           IF x = by THEN q.right[e]
           ELSE IF x = p /\ q.left[x] # e /\ q.right[x] = e THEN by ELSE q.right[x]],
        !.parent = [x \in Elt |->
           IF x = by THEN p ELSE IF x \in kids THEN by ELSE q.parent[x]]]

Restore_DownOnly(q, c, e) == WalkDown(q, c, e)

Restore(q, c, e) == WalkUp(WalkDown(q, c, e), c, e)

Unlinked(q, e) == [q EXCEPT !.left[e] = NULL, !.right[e] = NULL, !.parent[e] = NULL]

priq_delete(q, c, e) ==
  LET last == NodeAt(q, q.nelts)
      cut  == CutLast(q, last)
      rest == IF last = e THEN [cut EXCEPT !.root = IF @ = last THEN NULL ELSE @]
              ELSE Restore(Replace(cut, e, last), c, last)
  IN  IF q.nelts = 0 THEN q ELSE Unlinked(rest, e)

-----------------------------------------------------------------------------
(* The elements that can be reached from the root. *)
Queued(q) ==
  LET Below(S) == (S \cup {q.left[e] : e \in S} \cup {q.right[e] : e \in S}) \ {NULL}
      reach[n \in 0..Cardinality(Elt)] ==
        IF n = 0 THEN {q.root} \ {NULL} ELSE Below(reach[n - 1])
  IN  reach[Cardinality(Elt)]

(* Positions 1 to nelts hold the queued elements, each one once, and every *)
(* parent pointer leads back up the tree.                                  *)
WellShaped(q) ==
  /\ q.nelts = Cardinality(Queued(q))
  /\ {NodeAt(q, n) : n \in 1..q.nelts} = Queued(q)
  /\ \A e \in Queued(q) : \A x \in {q.left[e], q.right[e]} \ {NULL} : q.parent[x] = e
  /\ q.root # NULL => q.parent[q.root] = NULL

(* No element precedes its parent. *)
Ordered(q, c) ==
  \A e \in Queued(q) : q.parent[e] # NULL => ~costs_less(c[e], c[q.parent[e]])
=============================================================================
