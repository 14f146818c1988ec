SPECIFICATION Spec
CONSTANTS
  Thread = {t1}
  Path = {"p", "q"}
  InitialPath = "p"
  MaxLines = 2
  MaxUpdates = 1
INVARIANT
  FileFollowsPath
