---------------------------- MODULE PrefixTable ----------------------------
(***************************************************************************)
(* The routing table as a table of prefixes: INtbl of rte.C, and SimRttbl  *)
(* of the simulated router, which has the same code.  Entries are never    *)
(* taken out, a route that is lost becomes invalid.  Each entry points to  *)
(* the longest other entry that contains it, so that a lookup starts at    *)
(* the entry before the address and goes up.                               *)
(*                                                                         *)
(* An address has W bits.  The tree that holds the entries is an ordered   *)
(* set here (module AvlTree).                                              *)
(***************************************************************************)
EXTENDS Integers, FiniteSets

CONSTANTS
  W,         \* bits of an address: 32 in the code
  Prefix,    \* pairs of a network number and a mask length
  NULL

Addr == 0..(2^W - 1)

PrefixAssumption ==
  /\ W \in Nat /\ NULL \notin Prefix
  /\ \A p \in Prefix : p[1] \in Addr /\ p[2] \in 0..W /\ p[1] % 2^(W - p[2]) = 0

VARIABLES
  rtes,      \* the entries that were added
  valid,     \* those that are valid routes (or reachable)
  prefix     \* their pointers

table == <<rtes, valid, prefix>>

matches(p, a) == a - (a % 2^(W - p[2])) = p[1]

is_child(p, o) == matches(o, p[1]) /\ p[2] >= o[2]

(* The order of the tree: by network number, then by mask. *)
Before(p, o) == p[1] < o[1] \/ (p[1] = o[1] /\ p[2] < o[2])

\* The last entry of S, and the entries from p on.
LastOf(S) == IF S = {} THEN NULL ELSE CHOOSE p \in S : \A o \in S \ {p} : Before(o, p)

(* From an entry up, the first one in S. *)
Up(f, p, S) ==
  LET up[n \in 0..(W + 1)] ==
        IF n = 0 THEN p
        ELSE IF up[n - 1] = NULL \/ up[n - 1] \in S THEN up[n - 1]
        ELSE f[up[n - 1]]
  IN  up[W + 1]

(* The children follow their parent in the tree, without a gap.  One that  *)
(* has a closer parent keeps it.                                           *)
Children(S, p) ==
  {c \in S : /\ Before(p, c)
             /\ \A o \in S : Before(p, o) /\ (o = c \/ Before(o, c)) => is_child(o, p)}

Adopted_All(f, S, p) == [c \in S |-> IF c \in Children(S, p) THEN p ELSE f[c]]

Adopted(f, S, p) ==
  [c \in S |-> IF c \in Children(S, p) /\ ~(f[c] # NULL /\ is_child(f[c], p)) THEN p ELSE f[c]]

Add(p) ==
  /\ p \notin rtes
  /\ LET before == LastOf({o \in rtes : Before(o, p)})
         parent == Up(prefix, before, {o \in rtes : is_child(p, o)})
         f      == [o \in rtes \cup {p} |-> IF o = p THEN parent ELSE prefix[o]]
     IN  prefix' = Adopted(f, rtes \cup {p}, p)
  /\ rtes' = rtes \cup {p}
  /\ UNCHANGED valid

(* An entry becomes a valid route, or is no longer one. *)
Turn(p) ==
  /\ p \in rtes
  /\ valid' = IF p \in valid THEN valid \ {p} ELSE valid \cup {p}
  /\ UNCHANGED <<rtes, prefix>>

best_match(a) ==
  LET host == <<a, W>>
      prev == IF host \in rtes THEN host ELSE LastOf({p \in rtes : p[1] <= a})
  IN  Up(prefix, prev, {p \in valid : matches(p, a)})

Init == rtes = {} /\ valid = {} /\ prefix = <<>>

Next == \E p \in Prefix : Add(p) \/ Turn(p)

(* Every address is routed by the longest valid prefix that contains it,   *)
(* in whatever order the prefixes were added and whichever are valid now:  *)
(* one that is added between two others has to come between their pointers *)
(* too.                                                                    *)
LongestMatch ==
  \A a \in Addr :
    LET m == {p \in valid : matches(p, a)}
    IN  best_match(a) = IF m = {} THEN NULL
                        ELSE CHOOSE p \in m : \A o \in m : o[2] <= p[2]
=============================================================================
