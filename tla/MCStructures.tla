---------------------------- MODULE MCStructures ----------------------------
(***************************************************************************)
(* The daemon's data structures and sequential algorithms, in one run: a   *)
(* behavior is about one of them, chosen in its initial state.             *)
(***************************************************************************)
EXTENDS Integers, FiniteSets, Sequences, TLC, PPAdj, Membership, TcpPkt, Monitor, MCDRElection

CONSTANTS
  Which,       \* the structures this run is about
  Keys, Twice, MaxIter,      \* AvlTree
  oneshot1, oneshot2, oneshot3, oneshot4, interval1, interval2     \* TimerQ

VARIABLES
  which,
  tree, iter, answer,
  pat,
  rtes, valid, prefix,
  timerq, cost, active, fired

avlVars == <<tree, iter, answer>>
routeVars == <<rtes, valid, prefix>>
timerVars == <<timerq, cost, active, fired>>
vars == <<which, avlVars, pat, routeVars, electVars, monVars, tcpVars, timerVars,
          linkVars, phyVars>>

\* One item for each key, and a second one for some.
Items == (Keys \X {1}) \cup (Twice \X {2})
A == INSTANCE AvlTree WITH Item <- Items, Key <- [x \in Items |-> x[1]]

\* Keys of one length, as the next hops and the statistics have.
SameLength == {<< 0 >>, << 1 >>, << 2 >>, << 3 >>, <<64>>, <<128>>, <<192>>, <<255>>}
P == INSTANCE PatTree WITH Key <- SameLength

MCPrefixes == {<<0, 0>>, <<0, 1>>, <<4, 1>>, <<4, 2>>, <<0, 3>>, <<4, 3>>, <<5, 3>>, <<6, 3>>}
R == INSTANCE PrefixTable WITH W <- 3, Prefix <- MCPrefixes

\* The keys of the tables.
MCAreaKeys == {<< 0 >>, << 1 >>, << 2 >>, << 3 >>}
MCIfcKeys  == {<<1, 0>>, <<1, 5>>, <<2, 0>>, <<2, 3>>}
MCNbrKeys  == {<<1, 2>>, <<1, 5>>, <<2, 2>>, <<2, 3>>}
MCRteKeys  == {<<0, 0>>, <<4, 1>>, <<4, 2>>, <<5, 3>>}
MCLsaKeys  == {<<0, 1, 1>>, <<0, 2, 1>>, <<1, 1, 1>>, <<1, 1, 2>>, <<1, 3, 1>>, <<2, 1, 1>>}

Q == INSTANCE TimerQ WITH
       OneShot  <- {oneshot1, oneshot2, oneshot3, oneshot4},
       Interval <- {interval1, interval2},
       Period   <- [t \in {interval1, interval2} |-> 2],
       MaxDelay <- 2,
       MaxLate  <- 1

\* Two broadcast interfaces on one physical interface, a serial line on another.
MCIfPhyint == <<"eth0", "eth0", "ppp0">>

\* Timers of one class are interchangeable (three of them are enough to say so).
TimerSymmetry == Permutations({oneshot1, oneshot2, oneshot3}) \cup Permutations({interval1, interval2})

ASSUME StructuresAssumption ==
  /\ A!AvlAssumption
  /\ P!PatAssumption
  /\ R!PrefixAssumption
  /\ Q!TimerQAssumption

-----------------------------------------------------------------------------
\* An election without neighbours.
Alone ==
  own = [id |-> OwnId, pri |-> 0, is_dr |-> FALSE, is_bdr |-> FALSE] /\ nbrlist = <<>>

Init ==
  /\ which \in Which
  /\ A!Init
  /\ P!Init
  /\ R!Init
  /\ IF which = "election" THEN ElectInit ELSE Alone
  /\ MonInit /\ (which # "monitor" => db = {} /\ table.of = "area" /\ table.client = "mon")
  /\ StreamInit
  /\ Q!Init
  /\ LinksInit /\ (which # "links" => decides /\ \A l \in Link : pp.cost[l] = 1)
  /\ GroupsInit /\ (which # "groups" => running = {})

Avl ==
  /\ which = "avl" /\ A!Next
  /\ UNCHANGED <<which, pat, routeVars, electVars, monVars, tcpVars, timerVars, linkVars, phyVars>>

Pat ==
  /\ which = "pat" /\ P!Next
  /\ UNCHANGED <<which, avlVars, routeVars, electVars, monVars, tcpVars, timerVars, linkVars, phyVars>>

Prefix ==
  /\ which = "prefix" /\ R!Next
  /\ UNCHANGED <<which, avlVars, pat, electVars, monVars, tcpVars, timerVars, linkVars, phyVars>>

Election ==
  /\ which = "election" /\ SwapNbrs
  /\ UNCHANGED <<which, avlVars, pat, routeVars, monVars, tcpVars, timerVars, linkVars, phyVars>>

Mon ==
  /\ which = "monitor" /\ MonNext
  /\ UNCHANGED <<which, avlVars, pat, routeVars, electVars, tcpVars, timerVars, linkVars, phyVars>>

Tcp ==
  /\ which = "tcp" /\ StreamNext
  /\ UNCHANGED <<which, avlVars, pat, routeVars, electVars, monVars, timerVars, linkVars, phyVars>>

Timers ==
  /\ which = "timers" /\ Q!Next
  /\ UNCHANGED <<which, avlVars, pat, routeVars, electVars, monVars, tcpVars, linkVars, phyVars>>

ParallelLinks ==
  /\ which = "links" /\ LinksNext
  /\ UNCHANGED <<which, avlVars, pat, routeVars, electVars, monVars, tcpVars, timerVars, phyVars>>

Groups ==
  /\ which = "groups" /\ GroupsNext
  /\ UNCHANGED <<which, avlVars, pat, routeVars, electVars, monVars, tcpVars, timerVars, linkVars>>

Next == ParallelLinks \/ Groups \/ Timers \/ Avl \/ Pat \/ Prefix \/ Election \/ Mon \/ Tcp

Spec == Init /\ [][Next]_vars

-----------------------------------------------------------------------------
(* The AVL trees stay ordered, threaded and balanced, and an iteration    *)
(* over a tree that changes misses and repeats nothing.                    *)
TreeSound == which = "avl" => A!TreeSound /\ A!IterationExact

(* A key is found in the Patricia tree exactly when it is there, and the   *)
(* longest valid prefix of the routing table for every address.            *)
LookupExact ==
  /\ which = "pat" => P!LookupExact
  /\ which = "prefix" => R!LongestMatch

(* The linked heap of the timers is one, and holds the active ones.        *)
HeapSound == which = "timers" => Q!HeapSound

(* The heap implements alarms that know no heap: timers fire in the order  *)
(* of their deadlines, none before its time and none after it was stopped. *)
KeepsAlarms == Q!KeepsAlarms
=============================================================================
