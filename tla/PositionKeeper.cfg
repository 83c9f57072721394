SPECIFICATION PositionSpec
CONSTANTS
  Price = {1, 2, 4}
  Qty = {1, 2}
  Garbage = {0, 3}
  MaxFills = 4
INVARIANTS
  PnlOffByInitialCost
  AverageIsAPrice
CHECK_DEADLOCK FALSE
