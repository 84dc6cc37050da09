CONSTANTS
  Archs <- AllArchs
  Kernels = {TRUE, FALSE}
  Lines = {1, 2, 3}
  NoLine = NoLine
  Reserved = 2
  TableSize = 3
  Handlers = {h1}
  NoHandler = NoHandler
  Targets = {0}
  Cores = 1
  U32 = 4
SPECIFICATION Spec
INVARIANTS TypeOK NoBorrowPanic MaskHolds EveryClaimEnded
PROPERTY EveryIrqDispatched
