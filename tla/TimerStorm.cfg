CONSTANTS
  Archs <- LevelArchs
  Freqs <- MCFreqs
  NsPerSec = 3
  TickMax = 12
  Deadlines <- MCDeadlines
  Horizon = 9
  NoDeadline = NoDeadline
SPECIFICATION Spec
INVARIANT FiresOnce
