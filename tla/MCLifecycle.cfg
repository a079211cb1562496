SPECIFICATION Spec
CONSTANTS
  Object = {x1, x2, x3, x4, x5, x6}
  NoObject = NoObject
  MaxHandles = 2
  MaxShared = 1
  MaxLost = 1
SYMMETRY Permuted
INVARIANTS
  NothingInUseIsFreed
  NothingUnusedIsKept
  ValuatorsHoldTheirTree
