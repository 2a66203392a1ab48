SPECIFICATION Spec
CONSTANTS
  m1 = m1
  m2 = m2
  Models <- OneModel
  Budget = 0
  WordSize = 16
  MaxRequests = 3
  Touched = {2}
  MaxLoads = 1
  MaxSteps = 2
  RuntimeMb <- NoCharge
  CallerWaits = "nothing"
  Pauses = FALSE
INVARIANTS
  InflightIsUnfinishedWork
  SettledExactlyOnce
  QueueOrder
  ViewIsExact
  CancelStopsStream
PROPERTIES
  CallbackCancelIsImmediate
  SilentAfterClose
  ImplementsStream
