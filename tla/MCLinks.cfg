SPECIFICATION Spec
CONSTANTS
  Locals = {n1}
  BackoffCap = 4
  MaxDisruptions = 3
  MaxTyped = 2
  Devices = {d1, d2}
  BackoffLimit = 4
  MaxLosses = 1
  MaxLinesTyped = 1
  Peers = {n1}
  Values = {"a", "b"}
  StaleAfter = 2
  MaxMail = 3
  MaxGatewayDisruptions = 2
  BridgeTimeout = 1
  Grace = 1
  Timeout = 1
  SequenceSize = 2
  MaxCrashes = 1
  MaxSwitches = 2
  Sensors <- MiniSensors
  Signed = {"vesc"}
  Noise <- MiniNoise
  Readings <- MiniReadings
  CheckFrom = 5
  Tolerance = 1
  SilentAfter = 2
  Hold = 3
  NodeOrder <- TwoNodes
  TextOf <- Texts
  LogCap = 3
  ShellCap = 3
  FeedCap = 3
  ColumnCap <- Columns
  NormalRect <- Rects
  MaximizedRect <- Maximized
  HistoryCap = 2
  PageRows = 2
  Bytes <- Typed
  MaxInput = 2
  Uses <- MiniUses
INVARIANTS
  PanesAreTrue
  LinksAreTrue
PROPERTY LinksSettle
CHECK_DEADLOCK FALSE
