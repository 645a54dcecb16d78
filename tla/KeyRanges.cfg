CONSTANTS
  Key = {1, 2, 3, 4, 5}
  Resident = {3, 5}
  Nil = Nil
  PathOf <- PathsOfKeys
  RangeLen = 3
  MayFail = TRUE
SPECIFICATION KeyRangesSpec
INVARIANTS
  RangesCoverKind
  RangesOverlapOnlyAtFirst
PROPERTY KeyRangesReturns
CHECK_DEADLOCK FALSE
