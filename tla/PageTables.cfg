CONSTANTS
  Archs <- AllArchs
  Entries = 3
  PoolSize = 5
  PageSize = 2
  AddrMod = 180
  FieldPages = 81
  PoolBase = 75
  Regions <- LowRegions
  Unmapped = Unmapped
SPECIFICATION Spec
INVARIANTS TypeOK TreeShape 
PROPERTIES KeepsPromise CallReturns
