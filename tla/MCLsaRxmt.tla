----------------------------- MODULE MCLsaRxmt -----------------------------
(***************************************************************************)
(* What has to be flooded reaches every router and is acknowledged: one    *)
(* LSA among four routers (Flooding), or the retransmission lists of one   *)
(* router (LsaRxmt).  A behavior is about one of the two, chosen in its    *)
(* initial state, and the other does not move.                             *)
(***************************************************************************)
EXTENDS Flooding, LsaRxmt

VARIABLE part

allVars == <<part, vars, listVars>>

-----------------------------------------------------------------------------
(* The routers are 1 to 4.  A network "lan" and point-to-point links "p"   *)
(* and "q", each perhaps unused.                                           *)
Wired(lan, p, q, dr, bdr, mayfail, late) ==
  [attached |-> [lan |-> lan, p |-> p, q |-> q],
   dr  |-> [lan |-> dr, p |-> None, q |-> None],
   bdr |-> [lan |-> bdr, p |-> None, q |-> None],
   mayfail |-> mayfail, late |-> late]

MCWirings == {
  \* A chain, on which instances overtake one another.
  Wired({}, {1, 4}, {1, 3}, None, None, {}, 2),
  \* A network with a DR and a Backup; the originator is neither.
  Wired({1, 2, 3, 4}, {}, {}, 1, 2, {1, 2, 4}, 0),
  \* The originator is behind a router that is neither.
  Wired({1, 2, 3}, {3, 4}, {}, 1, 2, {1, 2, 4}, 0)}

MCInit == part \in {"lists", "flooding"} /\ ListsInit /\ Init

MCNext ==
  \/ part = "lists" /\ ListsNext /\ UNCHANGED <<part, vars>>
  \/ part = "flooding" /\ Next /\ UNCHANGED <<part, listVars>>

MCSpec ==
  /\ MCInit /\ [][MCNext]_allVars
  /\ \/ part = "lists" /\ ListsFairness
     \/ part = "flooding" /\ Fairness
=============================================================================
