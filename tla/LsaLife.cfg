SPECIFICATION Spec
CONSTANTS
  Body = {1, 2}
  None = None
  MaxLSSeq = 3
  MinLSInterval = 1
  LSRefreshTime = 3
  MaxAge = 5
  MaxAgeDiff = 2
  MaxCountdown = 2
  MaxChanges = 3
  MaxOld = 2
  MaxRestarts = 1
INVARIANTS
  FlushIsFinished
PROPERTIES
  InstancesGetNewer
  Advertised
CHECK_DEADLOCK FALSE
