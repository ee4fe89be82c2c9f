SPECIFICATION Spec
CONSTANTS
  None = None
  Empty = Empty
  Handle = {h1, h2}
  Flag = {"hidden"}
  Mode = {"default", "set"}
  DefaultMode = "default"
  EaName <- MCEaName
  CaseKey <- MCCaseKey
  Direct <- MCDirect
  Critical = {"symlink"}
  SymlinkEa = "symlink"
  FileSystemOwned = {"owned"}
  EaValue = {"v", Empty}
  EaRequests <- Lists
  FirstFiles <- Files
SYMMETRY HandleSymmetry
INVARIANTS
  TypeOK
  ListedWritesBack
  SymlinkHasTarget
  AttributesAsAsked
PROPERTIES
  NoNewCollision
  ProtectedStays
  LinksAreMadeOfEmptyFiles
CHECK_DEADLOCK FALSE
