SPECIFICATION Spec
CONSTANTS
  Writers = {w1, w2, w3}
  Clients = {c1}
  Streams = {s1}
  MaxWrites = 3
  MaxDrops = 0
  MaxStops = 0
INVARIANTS
  ChangesShown
CHECK_DEADLOCK FALSE
