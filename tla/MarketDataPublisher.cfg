SPECIFICATION PFairSpec
CONSTANTS
  N = 3
  Value = {1, 2, 3}
  MaxAhead = 7
INVARIANTS
  IndicesAgree
  ForwardsWhatItSent
PROPERTIES
  IsFifo
  Drains
