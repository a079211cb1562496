SPECIFICATION Spec
CONSTANTS
  NoSymbol = NoSymbol
  G <- RightPieces
  EarlemeThreshold = 4
  WarningThreshold = 99
  Lengths = {1}
  TokenValues = {0}
  Activations <- NoActivations
  ExpectationXsys = {}
INVARIANTS
  ReportIsFull
