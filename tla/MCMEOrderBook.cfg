SPECIFICATION FairSpec
CONSTANTS
  ClientId = {c1, c2}
  OrderId = {o1, o2}
  Price = {3, 4, 5}
  Qty = {1, 2}
  ME_MAX_PRICE_LEVELS = 4
  MaxOrders = 3
  QtyModulus = 16
INVARIANTS
  EntriesAgree
  FifoIsTimeOrder
  NotCrossed
PROPERTIES
  FillsBestFirst
  RequestCompletes
