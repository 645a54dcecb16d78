CONSTANTS
  Key = {1, 2, 3, 4}
  Resident = {1, 3, 4}
  Nil = Nil
  DumpBatch = 2
  WriterMayFail = TRUE
  Contents <- SpecialContents
  Entity = {1, 2, 3, 4}
  None = None
  LoadBatch = 2
  MaxFiles = 2
SPECIFICATION Spec
INVARIANT FloatsSurvive
CHECK_DEADLOCK FALSE
