SPECIFICATION FairSpec
CONSTANTS
  a = a
  b = b
  Lsa = {a, b}
  Origin <- OwnOrigin
  InitDb <- OwnDb
  DDSize = 1
  ReqSize = 1
  ChanSize = 3
  MaxLosses = 1
  MaxOrigs = 1
  MaxAborts = 1
  MaxEarly = 1
INVARIANTS
  SequenceInStep
  FullMeansInStep
PROPERTIES
  Synchronized
CHECK_DEADLOCK FALSE
