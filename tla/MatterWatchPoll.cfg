SPECIFICATION SyncSpec
CONSTANTS
  None = None
  Null = Null
  Full = 1
  Buffer = 3
  MaxMoves = 2
  MaxFaults = 1
  MaxNoise = 0
  MaxLost = 0
PROPERTIES
  ReflectsDevice
