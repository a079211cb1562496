SPECIFICATION ValueSpec
CONSTANTS
  NoSymbol = NoSymbol
  NoOr = NoOr
  NoBocage = NoBocage
  NoOrder = NoOrder
  NoValuator = NoValuator
  G <- Listing
  NullCount <- NullCounts
  Rank <- Ranks
  Ordinals <- Current
  MaxPauses = 1
  EarlemeThreshold = 4
  WarningThreshold = 9
  Lengths = {1}
  TokenValues = {1}
  Activations <- NoActivations
  ExpectationXsys = {}
  SettableXsys = {"B"}
  SettableRules = {"lv"}
INVARIANTS
  BocageIsExact
  StepsValueTheTree
  ArgumentsAreTheChildren
PROPERTIES
  ValuedIsSettled
