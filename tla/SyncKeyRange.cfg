CONSTANTS
  Key = {1, 2, 3, 4, 5}
  Resident = {1, 3, 4}
  Nil = Nil
  BatchSize = 3
  ChunkSize = 2
  MaxErrors = 1
SPECIFICATION Spec
INVARIANTS
  TypeOK
  OkMeansIngested
  FollowUpIsShorter
  NoRepeats
PROPERTY KeepsPromise
CHECK_DEADLOCK FALSE
