SPECIFICATION Spec
CONSTANTS
  None = None
  Torn = Torn
  Target <- MCTarget
  Partition <- MCPartition
  Image <- MCImage
  Region <- MCRegion
  RegionOf <- MCRegionOf
  ScanName <- MCScanName
  ScanRank <- MCScanRank
  Letter = {1, 2, 3}
  SysLetters = {}
  Pid = {p1, p2, p3, p4}
  InitialMounts <- WithOldAlias
  SvcRequests <- SetRequests
  CliRequests <- NoRequests
  SyncTicks = 1
  MaxEdits = 1
  MaxMediaEvents = 1
  MaxFaults = 1
  MaxCrashes = 1
  MaxStops = 1
  FirstUsed <- CrashOrNot
SYMMETRY PidSymmetry
INVARIANTS
  TypeOK
  OneWorkerPerRegion
  WorkerInv
  
  SavedPolicyPreserved
  StoppedLeavesNoWorker
