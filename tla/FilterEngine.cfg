SPECIFICATION Spec
CONSTANTS
  WordSize = 256
  SchemaEntries <- MCSchemaEntries
  TableEntries <- MCTableEntries
  ConnEntries <- MCConnEntries
  Databases <- MCDatabases
  TableNames <- MCTableNames
  MaxEntries = 2
INVARIANTS
  MatchTableIsUnion
  MatchSchemaIsUnion
