SPECIFICATION Spec
CONSTANTS
  Window = 3
  MaxCounter = 6
  Payload = {p1, p2}
INVARIANT
  NoDuplicateAccepted
CHECK_DEADLOCK FALSE
