SPECIFICATION MCSpec
CONSTANTS
  Which = {"config", "lockstep"}
  Router = {"r1", "r2"}
  Owners <- MCOwners
  Db <- MCDb
  Units = 2
  Prefix = {"n1"}
  Area = {"a", "b"}
  Preempt = FALSE
  MaxLines = 5
  MaxTicks = 2
  MaxPkts = 3
  MaxStarts = 3
  NULL = NULL
INVARIANTS
  ConfigDelivered
  InLockstep
  MapsAgree
PROPERTY
  TimeGoesOn
CHECK_DEADLOCK FALSE
