SPECIFICATION Spec
CONSTANTS
  m1 = m1
  m2 = m2
  m3 = m3
  Models <- ThreeModels
  Budget = 4
  WordSize = 32
  RuntimeMb <- Amounts
  MaxClock = 5
CHECK_DEADLOCK FALSE
INVARIANTS
  WalkIsVictims
PROPERTIES
  EvictionSuffices
  EvictsNoMore
