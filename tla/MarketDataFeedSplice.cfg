SPECIFICATION Spec
CONSTANTS
  NumTickers = 1
  Qty = {1}
  MaxSeq = 3
  MaxFaults = 3
INVARIANT InSync
