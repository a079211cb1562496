SPECIFICATION BocageSpec
CONSTANTS
  NoSymbol = NoSymbol
  NoOr = NoOr
  NoBocage = NoBocage
  G <- TrailingNull
  NullCount <- NullCounts
  Ordinals <- Current
  EarlemeThreshold = 5
  WarningThreshold = 9
  Lengths = {1}
  TokenValues = {0}
  Activations <- NoActivations
  ExpectationXsys = {}
INVARIANTS
  CausesExist
