SPECIFICATION MCSpec
CONSTANTS
  Which = {"config"}
  Router = {"r1", "r2"}
  Owners <- MCOwners
  Db <- MCDb
  Units = 2
  Prefix = {"n1"}
  Area = {"a", "b"}
  Preempt = TRUE
  MaxLines = 3
  MaxTicks = 2
  MaxPkts = 2
  MaxStarts = 3
  NULL = NULL
INVARIANT
  ConfigDelivered
CHECK_DEADLOCK FALSE
