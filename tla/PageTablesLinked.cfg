CONSTANTS
  Archs <- Masked
  Entries = 3
  PoolSize = 5
  PageSize = 2
  AddrMod = 180
  FieldPages = 81
  PoolBase = 84
  Regions <- LowRegions
  Unmapped = Unmapped
SPECIFICATION Spec
INVARIANTS WalkStaysInTables
