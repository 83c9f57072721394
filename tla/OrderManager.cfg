SPECIFICATION FairSpec
CONSTANTS
  Price = {1, 2}
  Clip = 2
  MaxOrderSize = 2
  MaxPosition = 3
  MaxOrders = 4
INVARIANTS
  ResponsesFitSlots
  PositionWithinRisk
  SettledAgree
PROPERTY CancelEnds
