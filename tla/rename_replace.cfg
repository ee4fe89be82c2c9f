SPECIFICATION Spec
CONSTANTS
  None = None
  Name = {"a", "b", "c"}
  Data = {"old", "new"}
  FoldOf <- MCFoldOf
  FirstContent <- TwoFiles
  MaxNode = 3
  Pid = {p1, p2, p3}
  Thread = {t1, t2}
  Calls <- AllCalls
  MaxCalls = 3
  MaxCrashes = 1
  MaxFailures = 0
  MaxRenameFailures = 0
  MaxReuse = 0
SYMMETRY ImageSymmetry
INVARIANT ReplacedNameSurvives
