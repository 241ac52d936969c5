SPECIFICATION FairSpec
CONSTANTS
  n1 = n1
  n2 = n2
  n3 = n3
  lan = lan
  pp = pp
  NoIfc = NoIfc
  Nbr = {n1, n2, n3}
  Ifc = {lan, pp}
  NbrIfc <- MixedIfc
  DRIfc = {lan}
  max_dds = 1
INVARIANTS
  TypeOK
  SlotsRespected
  CountsExact
  PendingListSound
  ExchangeIsTimed
  AsElected
PROPERTIES
  PendingIsFIFO
  SlotReleased
  PendingServed
