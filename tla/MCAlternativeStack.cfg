SPECIFICATION Spec
CONSTANTS
  Alternatives <- SmallAlternatives
  Earlemes = {1, 2, 3}
  NoToken = NoToken
INVARIANTS
  Sorted
PROPERTIES
  SearchEnds
  ImplementsSet
