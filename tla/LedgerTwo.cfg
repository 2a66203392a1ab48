SPECIFICATION Spec
CONSTANTS
  d1 = d1
  d2 = d2
  a1 = a1
  a2 = a2
  Drivers <- TwoDrivers
  Addresses <- TwoAddresses
  MaxTokens = 3
SYMMETRY LedgerSymmetry
INVARIANTS
  HeldUnlessTaken
  MissedOnlyIfTaken
  LedgerBalances
  OnlyUnfinishedHold
  ClosedHoldsNothing
