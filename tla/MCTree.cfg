SPECIFICATION TreeSpec
CONSTANTS
  NoSymbol = NoSymbol
  NoOr = NoOr
  NoBocage = NoBocage
  NoOrder = NoOrder
  G <- Twofold
  NullCount <- NullCounts
  Rank <- Ranks
  Ordinals <- Current
  MaxPauses = 1
  EarlemeThreshold = 3
  WarningThreshold = 99
  Lengths = {1}
  TokenValues = {0}
  Activations <- TwofoldActivations
  ExpectationXsys = {"a"}
INVARIANTS
  TreeTypeOK
  EveryParseOnce
  InUseIsExact
  MetricTellsAmbiguity
  ActiveEventsAreNotSkipped
PROPERTIES
  PausedTreeIsStill
  TreeCallsReturn
  CallsReturn
