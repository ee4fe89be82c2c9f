SPECIFICATION FairSpec
CONSTANTS
  None = None
  Name = {"a", "b", "c"}
  Data = {"old", "new"}
  FoldOf <- MCFoldOf
  FirstContent <- TwoFiles
  MaxNode = 3
  Pid = {p1, p2, p3}
  Thread = {t1, t2}
  Calls <- WritesOnly
  MaxCalls = 2
  MaxCrashes = 2
  MaxFailures = 1
  MaxRenameFailures = 1
  MaxReuse = 1
PROPERTIES
  Recovers
  CallsEnd
