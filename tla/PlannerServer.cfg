SPECIFICATION MCSpec
CONSTANTS
  Last = 2
  Plans <- AllPlans
  Given <- FirstPlans
  DayLen = 6
  Window = 2
  Devices = {d1}
  MaxClock = 8
  MaxHalts = 1
  MaxSlow = 1
  MaxEdits = 1
  Requests = {r1, r2, r3}
  Kinds = {"login", "reset", "add"}
  Names = {ann, eve}
  Family = {ann}
  Slots = 2
  Threshold = 1
  LockSteps <- Steps
  IpWindow = 1
  IpMax = 1
  UnknownThreshold = 2
  UnknownLock = 2
  MaxTicks = 3
  MaxResets = 1
SYMMETRY RequestSymmetry
INVARIANTS
  RemindersHold
  LoginLimited
  SessionsCurrent
  SlotsReturned
CHECK_DEADLOCK FALSE
