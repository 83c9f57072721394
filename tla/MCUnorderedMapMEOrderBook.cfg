SPECIFICATION Spec
CONSTANTS
  N = 4
  ClientId = {0, 1}
  OrderId = {o1, o2}
  Price = {3, 4}
  Qty = {1, 2}
  ME_MAX_PRICE_LEVELS = 4
  MaxOrders = 4
  QtyModulus = 16
SYMMETRY Symmetry
VIEW View
INVARIANTS
  NextNotHeld
  AbortMeansFull
  BlocksAreLinked
PROPERTY ImplementsBook
CHECK_DEADLOCK FALSE
