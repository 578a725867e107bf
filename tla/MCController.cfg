SPECIFICATION FairSpec
CONSTANTS
  DigitalPins <- TwoPins
  HeartbeatTimeout = 1
  MaxRetries = 1
INVARIANTS
  TypeOK
  OffUnlessReady
PROPERTIES
  GuardedLoop
  SilenceShutsDown
  ResetRecovers
