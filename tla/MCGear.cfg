SPECIFICATION FairGearSpec
CONSTANTS
  Components <- Hands
  NoComponent = "nil"
INVARIANT
  LoopEndsSafe
PROPERTIES
  EngagedOnlyNearStandstill
  ContactOffParks
  RequestServed
