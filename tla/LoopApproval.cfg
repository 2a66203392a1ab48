SPECIFICATION Spec
CONSTANTS
  k1 = k1
  k2 = k2
  Keys <- OneKey
  DepthCap = 1
  MaxCalls <- PairAndSingle
  Pauses = FALSE
PROPERTY EveryApprovalResolves
