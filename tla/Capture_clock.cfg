SPECIFICATION Spec
CONSTANTS
  WordSize = 256
  Slot = {s1}
  Lists <- MCLists
  Commands = {"INSERT"}
  Database <- MCDatabase
  ScannedWord <- MCScanned
  TableName <- MCTableName
  MaxTables = 1
  MaxSessions = 1
  MaxStatements = 2
  MaxOpens = 1
  MaxChanges = 2
  MaxDuration = 1
  AlwaysSignsOff = TRUE
INVARIANT
  AdHocHasNoClock
CHECK_DEADLOCK FALSE
