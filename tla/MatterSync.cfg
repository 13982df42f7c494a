SPECIFICATION SyncSpec
CONSTANTS
  None = None
  Null = Null
  Full = 1
  Buffer = 1
  MaxMoves = 2
  MaxFaults = 1
  MaxNoise = 1
  MaxLost = 2
INVARIANTS
  CallsHold
PROPERTIES
  Converges
