SPECIFICATION Spec
CONSTANTS
  DigitalPins <- TwoPins
  HeartbeatTimeout = 1
  MaxRetries = 1
INVARIANT
  ReadyOnlyAdopted
