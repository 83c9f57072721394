SPECIFICATION Spec
CONSTANTS
  Client = {a, b}
  MaxPending = 3
  StableSize = 2
  MaxRequests = 2
  MaxSessions = 2
  Restarting = {a}
  MaxTime = 1
  Filling = {a}
INVARIANTS
  RequestsInOrder
  ResponsesFit
  RequestsConserved
CHECK_DEADLOCK FALSE
