SPECIFICATION Spec
CONSTANTS
  None = None
  Torn = Torn
  Service = Service
  Client = {c1, c2}
  Target <- MCTarget
  Partition <- MCTarget
  Image = {}
  Region <- MCRegion
  RegionOf <- MCRegionOf
  ScanName <- MCScanName
  ScanRank <- MCScanRank
  Letter = {1, 2}
  FirstTables <- MCFirstTables
  Commands <- MCCommands
  Present = {"r1"}
  DriveSets = {{2}}
  MaxFaults = 1
INVARIANTS TypeOK  TableKept
PROPERTY CommandsEnd
