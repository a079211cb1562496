SPECIFICATION BocageSpec
CONSTANTS
  NoSymbol = NoSymbol
  NoOr = NoOr
  NoBocage = NoBocage
  G <- Merging
  NullCount <- NullCounts
  Ordinals <- Several
  EarlemeThreshold = 4
  WarningThreshold = 9
  Lengths = {1, 2}
  TokenValues = {0}
  Activations <- NoActivations
  ExpectationXsys = {}
INVARIANTS
  LeoItemsAreFaithful
  EventsAreThoseOfEarley
  BocageIsExact
  ReportIsFull
  ChartIsComplete
  ItemsAreEarley
PROPERTIES
  ImplementsParser
