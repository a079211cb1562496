SPECIFICATION Spec
CONSTANTS
  NoSymbol = NoSymbol
  G <- Barred
  EarlemeThreshold = 4
  WarningThreshold = 4
  Lengths = {0, 1, 2, 4}
  TokenValues = {0, 1}
  Activations <- NoActivations
  ExpectationXsys = {"u"}
INVARIANTS
  TypeOK
  PendingTokens
  FurthestIsBacked
  PredecessorExists
  ExhaustionIsExact
  LockedSymbolsKeepTheirKind
PROPERTIES
  RejectionIsHarmless
