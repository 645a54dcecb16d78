CONSTANTS
  Name = {"a-b", "a_b", "--key--", "--timestamp--"}
  MakeFieldName <- Underscored
  Contents <- Kinds
  Excludes <- NamesExcluded
SPECIFICATION Spec
INVARIANTS
  TypeOK
  FieldsAreUnique
  RowsFitTable
  RowIsAsMapped
  OkMeansStored
  OneSpoilsAll
PROPERTIES
  IngestEnds
  VisitsRunOut
CHECK_DEADLOCK FALSE
