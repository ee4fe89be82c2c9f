SPECIFICATION Spec
CONSTANTS
  None = None
  Target <- MCTarget
  Partition <- MCPartition
  Image <- MCImage
  Region <- MCRegion
  RegionOf <- MCRegionOf
  ScanName <- MCScanName
  ScanRank <- MCScanRank
  Letter = {1, 2, 3, 4, 5}
  InitialLists <- MCInitialLists
  PreferredLists <- MCPreferredLists
  InUseSets <- MCInUseSets
  MaxPasses = 3
PROPERTIES
  ListsComputeTables
  SecondPassIsIdle
INVARIANT
  OneEntryPerRegion
