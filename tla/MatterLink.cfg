SPECIFICATION MCSpec
CONSTANTS
  Window = 3
  MaxCounter = 6
  Payload = {p1, p2}
  Calls = 3
  MaxArrivals = 2
  MaxAttempts = 3
INVARIANTS
  NonceUnique
  WindowFaithful
  DuplicateOnlyAtEdge
  CommissionedKept
PROPERTIES
  WatchersEnd
  FailedReverts
CHECK_DEADLOCK FALSE
