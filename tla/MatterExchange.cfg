SPECIFICATION Spec
CONSTANTS
  Scenarios <- AllScenarios
INVARIANTS
  ReplyMatches
  AtMostOnce
  DeliveredInOrder
  LossTolerated
PROPERTIES
  LoopsEnd
CHECK_DEADLOCK FALSE
