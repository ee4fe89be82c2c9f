SPECIFICATION Spec
CONSTANTS
  None = None
  Name = {"a", "b"}
  Data <- MCData
  FoldOf <- MCFoldOf
  FirstContent <- OneFile
  MaxNode = 2
  Handle = {h1, h2}
  Byte = {0, 1}
  MaxSize = 1
  Shared = Shared
  MaxFailures = 1
SYMMETRY HandleSymmetry
INVARIANTS
  TypeOK
  ReadsSeeWrites
  FlushedIsStored
  NoOrphans
PROPERTIES
  CleanupStores
  LinksSeen
CHECK_DEADLOCK FALSE
