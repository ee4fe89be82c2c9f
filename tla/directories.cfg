SPECIFICATION Spec
CONSTANTS
  None = None
  Handle = {h1, h2}
  Name = {"A", "a", "b"}
  FoldOf <- MCFoldOf
  Sorted <- MCSorted
  MaxNode = 3
  Path <- Paths
  FirstTrees <- Trees
SYMMETRY HandleSymmetry
INVARIANTS
  TypeOK
  
  
PROPERTY
  OnlyWhatWasOpened
CHECK_DEADLOCK FALSE
