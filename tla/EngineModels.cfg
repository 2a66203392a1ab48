SPECIFICATION Spec
CONSTANTS
  m1 = m1
  m2 = m2
  Models <- TwoModels
  Budget = 3
  WordSize = 16
  MaxRequests = 2
  Touched = {1}
  MaxLoads = 3
  MaxSteps = 1
  RuntimeMb <- OddCharges
  CallerWaits = "retired"
  Pauses = FALSE
SYMMETRY ModelSymmetry
INVARIANTS
  TypeOK
  BooksMatchModels
  MarkerNamesCulprit
  RunningModelStays
