SPECIFICATION Spec
CONSTANTS
  Tasks = {"commented use"}
  MaxPieces = 1
INVARIANT
  CommentedUseIsIgnored
CHECK_DEADLOCK FALSE
