------------------------------- MODULE TimerQ -------------------------------
(***************************************************************************)
(* The timers of timer.C on the priority queue of priq.C, and the loop of  *)
(* OSPF::tick() that fires them.                                           *)
(*                                                                         *)
(* start(), stop() and restart() may be called at any moment, by a packet  *)
(* handler or by the action of a timer that has just fired.  Deadlines are *)
(* counted from the present: a second that passes lowers those of all      *)
(* running timers, which leaves their order alone.  The random part of an  *)
(* interval is any value the code can draw.                                *)
(***************************************************************************)
EXTENDS Integers, FiniteSets

CONSTANTS
  OneShot,     \* objects of class Timer
  Interval,    \* objects of class ITimer
  Period,      \* ITimer::period
  MaxDelay,    \* the longest interval of a single-shot timer
  MaxLate,     \* bound: how late tick() may come to a timer
  NULL

TTimer == OneShot \cup Interval

TimerQAssumption ==
  /\ IsFiniteSet(TTimer) /\ OneShot \cap Interval = {} /\ NULL \notin TTimer
  /\ MaxDelay \in Nat \ {0} /\ MaxLate \in Nat
  /\ Period \in [Interval -> 1..MaxDelay]

VARIABLES
  timerq,      \* the priority queue
  cost,        \* cost0 and cost1 of a running timer, 0 for the others
  active,      \* Timer::active
  fired        \* the timer whose action() ran in the last step, if one did

vars == <<timerq, cost, active, fired>>

Q == INSTANCE PriQ WITH Elt <- TTimer

Key(c) == [t \in TTimer |-> [cost |-> c[t], tie |-> 0]]

TypeOK ==
  /\ timerq \in [root : TTimer \cup {NULL}, nelts : 0..Cardinality(TTimer),
                 left : [TTimer -> TTimer \cup {NULL}],
                 right : [TTimer -> TTimer \cup {NULL}],
                 parent : [TTimer -> TTimer \cup {NULL}]]
  /\ cost \in [TTimer -> -MaxLate..MaxDelay]
  /\ active \in [TTimer -> BOOLEAN]
  /\ fired \in TTimer \cup {NULL}

Init ==
  /\ timerq = Q!EmptyQ
  /\ cost = [t \in TTimer |-> 0]
  /\ active = [t \in TTimer |-> FALSE]
  /\ fired = NULL

(* The delay until a timer fires for the first time after start(). *)
Delays(t) == 1..(IF t \in Interval THEN Period[t] ELSE MaxDelay)

Enqueue(q, c, t, d) ==
  /\ cost' = [c EXCEPT ![t] = d]
  /\ timerq' = Q!priq_add(q, Key(cost'), t)

start(t) ==
  /\ ~active[t]
  /\ active' = [active EXCEPT ![t] = TRUE]
  /\ \E d \in Delays(t) : Enqueue(timerq, cost, t, d)
  /\ fired' = NULL

stop(t) ==
  /\ active[t]
  /\ active' = [active EXCEPT ![t] = FALSE]
  /\ timerq' = Q!priq_delete(timerq, Key(cost), t)
  /\ cost' = [cost EXCEPT ![t] = 0]
  /\ fired' = NULL

restart(t) ==
  /\ active[t]
  /\ \E d \in Delays(t) : Enqueue(Q!priq_delete(timerq, Key(cost), t), cost, t, d)
  /\ UNCHANGED active
  /\ fired' = NULL

(* One turn of the loop of tick(): the head is taken off the queue and     *)
(* fire() is called, which queues an interval timer again.                 *)
IsDue(t) == t # NULL /\ cost[t] <= 0

fire(t) ==
  LET rest == Q!priq_delete(timerq, Key(cost), t)
  IN  /\ fired' = t
      /\ IF t \in Interval
         THEN /\ Enqueue(rest, cost, t, cost[t] + Period[t])
              /\ UNCHANGED active
         ELSE /\ timerq' = rest
              /\ active' = [active EXCEPT ![t] = FALSE]
              /\ cost' = [cost EXCEPT ![t] = 0]

tick ==
  LET head == Q!priq_gethead(timerq)
  IN  IsDue(head) /\ fire(head)

(* The clock moves on, while the process waits or is busy. *)
TimePasses ==
  /\ \A t \in TTimer : active[t] => cost[t] > -MaxLate
  /\ cost' = [t \in TTimer |-> IF active[t] THEN cost[t] - 1 ELSE 0]
  /\ fired' = NULL
  /\ UNCHANGED <<timerq, active>>

Next ==
  \/ \E t \in TTimer : start(t) \/ stop(t) \/ restart(t)
  \/ tick
  \/ TimePasses

Spec == Init /\ [][Next]_vars

-----------------------------------------------------------------------------
(* The links form the complete tree that NodeAt() navigates by.  Every add *)
(* and delete relinks up to five nodes by hand, and one pointer left       *)
(* behind would lose a subtree of timers.                                  *)
QueueWellShaped == Q!WellShaped(timerq)

(* The head is the timer that is due first, in every subtree: swaps on the *)
(* way down and up after a deletion in the middle must leave it so.        *)
QueueOrdered == Q!Ordered(timerq, Key(cost))

(* A timer is in the queue exactly when it is active.  priq_delete() does  *)
(* not look whether its argument is queued: stop() of a timer marked       *)
(* active that is not would take another one out.                          *)
ActiveIsQueued == Q!Queued(timerq) = {t \in TTimer : active[t]}

(* The linked heap is one, and it holds the timers that are active. *)
HeapSound == TypeOK /\ QueueWellShaped /\ QueueOrdered /\ ActiveIsQueued

(* The queue implements the alarms it stands for: timers fire in the order *)
(* of their deadlines, none before its time and none after it was stopped. *)
Promise == INSTANCE Alarms WITH due <- [t \in {u \in TTimer : active[u]} |-> cost[t]],
                                rings <- fired

KeepsAlarms == Promise!Spec
=============================================================================
