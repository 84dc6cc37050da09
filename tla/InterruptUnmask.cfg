CONSTANTS
  Archs <- Riscv
  Kernels = {TRUE}
  Lines = {1, 2}
  NoLine = NoLine
  Reserved = 2
  TableSize = 3
  Handlers = {h1}
  NoHandler = NoHandler
  Targets = {0}
  Cores = 1
  U32 = 4
SPECIFICATION Spec
PROPERTY UnmaskRedelivers
