SPECIFICATION Spec
CONSTANTS
  Procs = {p1, p2}
  Builds <- AllBuilds
  None = None
  Legacy = 1
  MaxCrashes = 1
  MaxAccepts = 1
INVARIANTS
  RecordedIffApplied
  OpensOwnSchema
PROPERTIES
  Opens
CHECK_DEADLOCK FALSE
