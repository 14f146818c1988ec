SPECIFICATION Spec
CONSTANTS
  WordSize = 256
  Slot = {s1}
  Lists <- MCLists
  Commands = {"INSERT"}
  Database <- MCDatabase
  ScannedWord <- MCScanned
  TableName <- MCTableName
  MaxTables = 1
  MaxSessions = 2
  MaxStatements = 2
  MaxOpens = 1
  MaxChanges = 2
  MaxDuration = 1
  AlwaysSignsOff = FALSE
INVARIANT
  DbIsOwn
CHECK_DEADLOCK FALSE
