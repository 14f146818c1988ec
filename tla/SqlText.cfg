SPECIFICATION Spec
CONSTANTS
  Tasks = {"command", "use", "mask", "list", "escape"}
  MaxPieces = 2
INVARIANTS
  ExtractFindsCommand
  UseNamesSchema
  MaskHidesExactly
  ListIsItsEntries
  EscapesReadBack
CHECK_DEADLOCK FALSE
