SPECIFICATION Spec
CONSTANTS
  m1 = m1
  m2 = m2
  Models <- TwoModels
  Budget = 3
  WordSize = 16
  MaxRequests = 1
  Touched = {1}
  MaxLoads = 2
  MaxSteps = 1
  RuntimeMb <- FitsAlone
  CallerWaits = "nothing"
  Pauses = FALSE
INVARIANTS
  RunningModelStays
