CONSTANTS
  Key = {1, 2, 3}
  Resident = {1, 3}
  Nil = Nil
  PathOf <- PathsOfKeys
  BatchSize = 2
  RangeLen = 1
  MayFail = FALSE
  Worker = {w1, w2}
  Valid = {TRUE, FALSE}
  Poisons <- PoisonOrNot
  MaxFaults = 2
SPECIFICATION Spec
CHECK_DEADLOCK FALSE
SYMMETRY Symmetry
INVARIANTS
  TypeOK
  NoEntityLost
  DrainedMeansSynced
  NoDoubleWork
  RowsSentOnce
PROPERTIES
  FollowUpsShrink
  ImplementsAtLeastOnce
