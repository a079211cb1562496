SPECIFICATION Spec
CONSTANTS
  IntMax = 15
  MaxRhsLength = 6
  MaxString = 3
  Ids = {0, 1, 2, 7}
  Booleans = {0, 1, 2}
  Minimums = {0, 1}
  RightSides <- Sides
  Ranks <- RankChoices
  Beginnings <- SequenceBeginnings
INVARIANTS
  NulledWithIsNullable
CHECK_DEADLOCK FALSE
