SPECIFICATION FairSpec
CONSTANTS
  Actuators <- MiniActuators
  Sources <- MiniSources
  NoSource = "nil"
  SourceMap <- MiniMap
  Fitted <- OptionalSources
  DefaultLevel = "manual"
  HealthTimeout = 1
INVARIANTS
  TypeOK
  RoutedAsDecided
PROPERTIES
  JustifiedAfterLoop
  RefinesAuthority
  BrakeWins
  SwitchDownUnlatches
  SilentFusionEndsRos
