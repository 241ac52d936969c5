SPECIFICATION Spec
CONSTANTS
  Which = {"avl", "pat", "prefix", "election", "monitor", "tcp", "timers", "links", "groups"}
  Keys = {1, 2, 3, 4, 5, 6, 7, 8, 9, 10, 11, 12}
  Twice = {3}
  MaxIter = 3
  AreaKeys <- MCAreaKeys
  IfcKeys <- MCIfcKeys
  NbrKeys <- MCNbrKeys
  RteKeys <- MCRteKeys
  LsaKeys <- MCLsaKeys
  Clients = {"mon", "browser"}
  MaxChanges = 3
  HdrLen = 2
  BodyLens = {0, 1, 3}
  MaxMsgs = 3
  Partial = FALSE
  oneshot1 = oneshot1
  oneshot2 = oneshot2
  oneshot3 = oneshot3
  oneshot4 = oneshot4
  interval1 = interval1
  interval2 = interval2
  NULL = NULL
  Router = {1, 2, 3, 4}
  OwnId = 2
  MaxPri = 1
  Links = 3
  Costs = {1, 2}
  PPAdjLimit = 2
  max_dds = 1
  Ifc = {1, 2, 3}
  Phyint = {"eth0", "ppp0"}
  Broadcast = {1, 2}
  if_phyint <- MCIfPhyint
  MaxRef = 4
SYMMETRY TimerSymmetry
INVARIANTS
  TreeSound
  LookupExact
  LoopsElectChoice
  ListingComplete
  MessagesIntact
  HeapSound
  LinksAggregated
  MembershipExact
PROPERTIES
  KeepsAlarms
CHECK_DEADLOCK FALSE
