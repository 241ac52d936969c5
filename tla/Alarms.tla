------------------------------- MODULE Alarms -------------------------------
(***************************************************************************)
(* What the timers of the daemon promise: an alarm that is set goes off    *)
(* once its time has come, earlier deadlines first, and one that is        *)
(* cancelled does not.  There is no queue here: due gives each alarm that  *)
(* is set the time it has left, negative when it is late, and rings is the *)
(* one that goes off in a step.                                            *)
(***************************************************************************)
EXTENDS Integers

CONSTANTS OneShot, Interval, Period, MaxDelay, NULL

VARIABLES due, rings

Alarm == OneShot \cup Interval
IsSet == DOMAIN due

With(t, d) == [u \in IsSet \cup {t} |-> IF u = t THEN d ELSE due[u]]
Without(t) == [u \in IsSet \ {t} |-> due[u]]

Init == due = [t \in {} |-> 0] /\ rings = NULL

Set(t) ==
  /\ t \notin IsSet
  /\ \E d \in 1..MaxDelay : due' = With(t, d)
  /\ rings' = NULL

Cancel(t) ==
  /\ t \in IsSet
  /\ due' = Without(t)
  /\ rings' = NULL

Defer(t) ==
  /\ t \in IsSet
  /\ \E d \in 1..MaxDelay : due' = With(t, d)
  /\ rings' = NULL

(* An interval alarm is set again, a period after it was due. *)
GoesOff(t) ==
  /\ t \in IsSet
  /\ due[t] <= 0
  /\ \A u \in IsSet : due[t] <= due[u]
  /\ due' = IF t \in Interval THEN With(t, due[t] + Period[t]) ELSE Without(t)
  /\ rings' = t

TimePasses ==
  /\ due' = [t \in IsSet |-> due[t] - 1]
  /\ rings' = NULL

Next ==
  \/ \E t \in Alarm : Set(t) \/ Cancel(t) \/ Defer(t) \/ GoesOff(t)
  \/ TimePasses

Spec == Init /\ [][Next]_<<due, rings>>
=============================================================================
