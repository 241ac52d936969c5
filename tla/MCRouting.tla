----------------------------- MODULE MCRouting -----------------------------
(***************************************************************************)
(* A router with an interface on a transit network and two parallel links   *)
(* to router 3, the second of them unnumbered.  Prefixes: the transit       *)
(* network's (1), the first link's (2), one behind routers 2 and 3 (3), and *)
(* one of another area (4).                                                 *)
(***************************************************************************)
EXTENDS Routing

MCNetDest == [n \in {10} |-> 1]
MCNetHosts == [n \in {10} |-> {11, 12, 13}]

MCIfc ==
  (1 :> [kind |-> "dr", nbr |-> 10, cost |-> 2, addr |-> 11, subnet |-> 1,
         hosts |-> {11, 12, 13}]) @@
  (2 :> [kind |-> "pp", nbr |-> 3, cost |-> 2, addr |-> 21, subnet |-> 2,
         hosts |-> {21, 23}]) @@
  (3 :> [kind |-> "pp", nbr |-> 3, cost |-> 2, addr |-> 31, subnet |-> NULL,
         hosts |-> {}])

(* Router 2 sits on the network, router 3 there and on both links; the      *)
(* network-LSA may miss router 2.                                           *)
Links3(c) ==
  <<LT_TR(10, c, 13), LT_TR(1, 2, 23), LT_STUB(2, 2), LT_TR(1, 2, 33),
    LT_STUB(3, 1)>>
MCBodies ==
  (2 :> {NULL, <<LT_TR(10, 2, 12), LT_STUB(3, 1)>>}) @@
  (3 :> {Links3(2), <<LT_TR(10, 1, 13), LT_STUB(3, 2), LT_STUB(4, 2)>>}) @@
  (10 :> {NULL, NetLinks(<<1, 2, 3>>)})

MCStates == <<{"full", "gone"}, {"full", "down"}, {}>>
MCAdverts ==
  4 :> ((2 :> {1, LSInfinity}) @@ (3 :> {2}))
=============================================================================
