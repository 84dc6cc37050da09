CONSTANTS
  Archs <- AllArchs
  Kernels = {TRUE, FALSE}
  Contexts = {c1, c2}
  Regions <- MCRegions
  Counters <- MCCounters
  CoreIds <- MCCoreIds
  U32 = 2
  Levels = 2
  Entries = 3
  PoolSize = 2
  PageSize = 2
  FieldPages = 23
  PoolBase = 20
  Expiries <- MCExpiries
  Requests <- MCRequests
  MaxNow = 1
  None = None
SYMMETRY ContextSymmetry
SPECIFICATION Spec
INVARIANTS TypeOK OkMeansGranted CounterIsTheOneGranted OnlyGrantedPages MappedWhenOk
