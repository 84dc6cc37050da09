CONSTANTS
  Archs = {"x86_64", "arm64", "riscv64"}
  Harts = {0, 1}
  BssWords = 2
SPECIFICATION EntrySpec
INVARIANT EntryGetsFirmwarePointer
CHECK_DEADLOCK FALSE
