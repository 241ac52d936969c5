SPECIFICATION MCSpec
CONSTANTS
  Router = {1, 2, 3, 4}
  Link = {"lan", "p", "q"}
  Wirings <- MCWirings
  Origin = 4
  None = None
  NULL = NULL
  MaxInst = 2
  MaxLoss = 1
  MaxFail = 1
  Nbr = {n1, n2}
  Id = {a, b}
  Copies = 2
  PktSize = 1
  MaxWindow = 2
  MaxInstalls = 2
INVARIANTS
  ListsConsistent
  NoneForgotten
  ReachesAll
PROPERTIES
  Retransmitted
  FlushedEverywhere
  Replicates
  FloodingEnds
CHECK_DEADLOCK FALSE
