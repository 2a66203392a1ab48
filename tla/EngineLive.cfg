SPECIFICATION Spec
CONSTANTS
  m1 = m1
  m2 = m2
  Models <- OneModel
  Budget = 0
  WordSize = 16
  MaxRequests = 2
  Touched = {1}
  MaxLoads = 2
  MaxSteps = 1
  RuntimeMb <- NoCharge
  CallerWaits = "nothing"
  Pauses = TRUE
INVARIANTS
  MarkerIsInProgress
PROPERTIES
  CloseReturns
  EveryRequestSettles
