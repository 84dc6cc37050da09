SPECIFICATION Spec
CONSTANTS
  Archs = {"x86_64", "arm64", "riscv64"}
  Harts = {0, 1}
  BssWords = 2
  Types <- MCTypes
  Strides <- MCStrides
  StructSize = 2
  MaxMapSize = 7
  MaxRegions = 2
  MaxTables = 3
  MadtSize = 3
  Bases = {b1, b2}
  DefaultGicd = qemu
  Regs <- MCRegs
  MaxDepth = 3
  DefaultMemory <- MCMemory
  DefaultPlic <- MCPlic
  None = none
  ImageStart = 1
  ImageEnd = 2
  StackStart = 1
  StackEnd = 2
  VmaBase = 100
INVARIANTS
  TypeOK
  EntryContract
  ReadsInsideMap
  ManifestIsFirmwareMap
  TracksOpenNode
  
PROPERTIES
  BootEnds
