SPECIFICATION MCSpec
CONSTANTS
  Buffer = 2
  Device = {d1, d2}
  Tx = {t1, t2}
  None = None
  Top = 5
  StatusCap = 1
  MaxStarts = 3
  SeqMod = 4
  AckCap = 2
  DataCap = 1
  Requests = 3
  MaxLoss = 1
  MaxExtra = 1
  Devices <- TheDevices
  Gangs <- TheGangs
  Lumi = {"wall"}
  Positions = {50, 120}
  Lifts = {255}
  MaxBoots = 2
  MaxActs = 3
INVARIANTS
  HomeConverges
  NoLostWakeup
  ButtonDetermined
  InStepWithNcp
  KeyKept
  GangShown
PROPERTIES
  ComesToRest
  IntentSpec
  NeverOrphans
  RadiosServe
CHECK_DEADLOCK FALSE
