---------------------------- MODULE MCDDExchange ----------------------------
(* TLC instances of DDExchange.                                            *)
EXTENDS DDExchange

CONSTANTS a, b

\* Each router originates one LSA, which the other does not have.
OwnOrigin == [l \in Lsa |-> IF l = a THEN 1 ELSE 2]
OwnDb == [r \in 1..2 |-> [l \in Lsa |-> IF OwnOrigin[l] = r THEN 1 ELSE 0]]
=============================================================================
