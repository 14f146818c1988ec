SPECIFICATION Spec
CONSTANTS
  QueueMax = 2
  Threshold = 2
  MaxEvents = 5
INVARIANTS
  TypeOK
  Control
  QueueConservation
  PendingBounded
  EveryEventAccounted
  RowsInOrder
  InsertOnlyWhenPinned
  ConnectionBounded
  NothingHeldAfterExit
PROPERTY
  ShutdownDrains
