SPECIFICATION Spec
CONSTANTS
  Self = 1
  Routers = {1, 2, 3}
  Nets = {10}
  NetDest <- MCNetDest
  NetHosts <- MCNetHosts
  Bodies <- MCBodies
  Ifcs = {1, 2, 3}
  Ifc <- MCIfc
  States <- MCStates
  Start = {3}
  Dests = {1, 2, 3, 4}
  Abrs = {2, 3}
  Adverts <- MCAdverts
  MaxPath = 3
  Lags = TRUE
  Remnants = {4}
  Fragile = {4}
  MaxPending = 1
  LSInfinity = 1000
  NULL = NULL
INVARIANTS
  KernelFollows
