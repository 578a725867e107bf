SPECIFICATION Spec
CONSTANTS
  D = 4
  Width = 3
  HalfHeight = 1
  HalfWidth = 1
  P1 = 8
  P2 = 79
  None = None
  Callers = {c1, c2}
  MaxThreads = 3
  MaxCalls = 3
  Threads = 2
  ChunkCount = 3
  Height = 4
  RowsPerClaim = 2
  RingRows = 2
  RowsPerTake = 2
  Rows = 2
  Grey = {0, 2}
  Cost = {0, 48}
  Images <- MiniImages
  Sums = {0, 1, 3, 4}
  Ratios <- MiniRatios
  Fractions <- MiniFractions
  Widths <- MiniWidths
  ThreadCounts = {1, 2, 3, 4}
INVARIANTS ThreadsDisjoint EveryPixelOnce WorkOutlivesItsUse ComputesReference
PROPERTIES JobsReturn PoolKeepsPromise
