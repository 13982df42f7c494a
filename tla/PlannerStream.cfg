SPECIFICATION Spec
CONSTANTS
  Writers = {w1, w2}
  Clients = {c1}
  Streams = {s1, s2}
  MaxWrites = 3
  MaxDrops = 1
  MaxStops = 1
INVARIANTS
  BroadcastSound
PROPERTIES
  StreamsServe
CHECK_DEADLOCK FALSE
