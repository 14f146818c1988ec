SPECIFICATION FairSpec
CONSTANTS
  Thread = {t1, t2}
  Path = {"p", "empty"}
  InitialPath = "p"
  MaxLines = 3
  MaxUpdates = 2
INVARIANTS
  TypeOK
  NeverWritesClosed
  NoHandleLeak
  FileFollowsPathUnlessDangling
  FailuresShow
PROPERTY
  CallsReturn
