CONSTANTS
  Archs <- AllArchs
  Freqs <- MCFreqs
  NsPerSec = 3
  TickMax = 12
  Deadlines <- MCDeadlines
  Horizon = 9
  NoDeadline = NoDeadline
SPECIFICATION Spec
INVARIANTS TypeOK ArmedIsProgrammed AssertedOnlyWhenDue
PROPERTIES EveryDeadlineFires
