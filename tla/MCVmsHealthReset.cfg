SPECIFICATION Spec
CONSTANTS
  front = front
  rear = rear
  request = request
  Controllers <- Pair
  Callers <- Requests
  BootResetDelay = 6
  ResetDuration = 2
  BootPeriod = 10
INVARIANT
  ResetHeld
