SPECIFICATION Spec
CONSTANTS
  NotANumber = NotANumber
  Segments = {s1, s2}
  MaxRuns = 3
  MaxReloads = 1
  RefusedVersions = {2}
  Depth = 2
  MaxPorts = 2
  MaxFrames = 3
  MaxDetectors = 3
  Period = 24
  NominalVblank = 5
  VblankMin = 2
  VblankMax = 12
  Deadband = 1
  LockedBelow = 3
  OutlierAbove = 5
  OutliersToRelock = 3
  HistoryLength = 3
  LateBy = 7
  MaxLate = 2
  Buffers = 2
  MaxExposed = 3
  FramePeriod = 10
  Skews = {0, 5}
  PairTolerance = 3
  MaxLines = 4
  MaxCommands = 1
  Requests = {r1, r2}
  ControlIds = {i1, i2}
  MaxControls = 3
  MaxTaken = 3
  Captures = {c1, c2}
  Patience = 1
INVARIANTS AnswersOwnRun DetectionsOfFrame CapturesAreTrue
PROPERTIES ComputesAsDefined RequestsEnd PhaseLocks
CHECK_DEADLOCK FALSE
