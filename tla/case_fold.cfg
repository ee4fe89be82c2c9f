SPECIFICATION Spec
CONSTANTS
  None = None
  Name = {"a", "A"}
  Data <- MCData
  FoldOf <- MCFoldOf
  FirstContent <- OneFile
  MaxNode = 2
  Handle = {h1, h2}
  Byte = {0, 1}
  MaxSize = 2
  Shared = Shared
  MaxFailures = 0
SYMMETRY HandleSymmetry
INVARIANT NamesApart
