SPECIFICATION Spec
CONSTANTS
  WordSize = 256
  Slot = {s1}
  Lists <- MCLists
  Commands = {"SELECT", "INSERT"}
  Database <- MCDatabase
  ScannedWord <- MCScanned
  TableName <- MCTableName
  MaxTables = 1
  MaxSessions = 2
  MaxStatements = 2
  MaxOpens = 2
  MaxChanges = 2
  MaxDuration = 2
  AlwaysSignsOff = TRUE
INVARIANTS
  TypeOK
  ObservedIsExact
  ObservedIsPermitted
  SeqFollowsOrder
  NoOrphanState
  DbIsOwn
  DbFollowsSession
PROPERTY
  PermittedIsLogged
CHECK_DEADLOCK FALSE
