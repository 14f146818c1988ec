SPECIFICATION Spec
CONSTANTS
  Tasks = {"documented mask"}
  MaxPieces = 1
INVARIANT
  DocumentedFormsAreMasked
CHECK_DEADLOCK FALSE
