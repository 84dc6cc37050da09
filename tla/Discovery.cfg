CONSTANTS
  Machines <- MCMachines
  NDevices = 2
  NFunctions = 2
  Cards <- MCCards
  Absent = Absent
  Buses <- MCBuses
  MaxCompute = 2
  MaxDomains = 2
  MaxPlugs = 1
  Tcc = 2
  Readouts = {0, 1}
  Tokens = {t1}
SPECIFICATION RSpec
INVARIANTS TypeOK BarsRestored ListIsCurrent QueriesSafe
PROPERTY ScanEnds
