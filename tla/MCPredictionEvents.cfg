SPECIFICATION Spec
CONSTANTS
  NoSymbol = NoSymbol
  G <- Nullable
  EarlemeThreshold = 4
  WarningThreshold = 9
  Lengths = {1, 2}
  TokenValues = {0}
  Activations <- NoActivations
  ExpectationXsys = {}
INVARIANTS
  PredictedOnlyWhenAcceptable
