SPECIFICATION FairSpec
CONSTANTS
  Thread = {t1, t2}
  Capacity = 2
  MaxStatements = 3
  MaxThrown = 1
INVARIANTS
  TypeOK
  NothingLeaks
  NoUseAfterFree
  NeverTracesItself
  CountersHonest
PROPERTY
  UninstallReturns
CHECK_DEADLOCK FALSE
