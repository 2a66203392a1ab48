SPECIFICATION Spec
CONSTANTS
  k1 = k1
  k2 = k2
  Keys <- TwoKeys
  DepthCap = 1
  MaxCalls <- PairAndSingle
  Pauses = TRUE
INVARIANTS
  TurnsDoNotOverlap
  MutatingRunsAlone
  UnansweredIsParked
  LoopIsHeldOrSettled
PROPERTIES
  EveryLoopEnds
