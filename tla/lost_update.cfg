SPECIFICATION Spec
CONSTANTS
  None = None
  Torn = Torn
  Target <- MCTarget
  Partition <- MCPartition
  Image <- MCImage
  Region <- MCRegion
  RegionOf <- MCRegionOf
  ScanName <- MCScanName
  ScanRank <- MCScanRank
  Letter = {1, 2, 3}
  SysLetters = {}
  Pid = {p1, p2, p3}
  InitialMounts <- FreshInstall
  SvcRequests <- NoRequests
  CliRequests <- PolicyRequests
  SyncTicks = 1
  MaxEdits = 1
  MaxMediaEvents = 1
  MaxFaults = 1
  MaxCrashes = 0
  MaxStops = 1
  FirstUsed <- Unused
SYMMETRY PidSymmetry
INVARIANT SavedPolicyPreserved
