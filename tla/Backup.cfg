CONSTANTS
  Key = {1, 2, 3, 4}
  Resident = {1, 3, 4}
  Nil = Nil
  DumpBatch = 2
  WriterMayFail = TRUE
  Contents <- SpecialContents
  Entity = {1, 2, 3, 4}
  None = None
  LoadBatch = 2
  MaxFiles = 2
SPECIFICATION Spec
INVARIANTS
  TypeOK
  DumpIsComplete
  LoadsInOrder
  RestoredWhenOk
  ComesBack
  OneTripSettles
PROPERTY BackupEnds
CHECK_DEADLOCK FALSE
