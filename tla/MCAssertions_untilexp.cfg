SPECIFICATION ScenesSpec
CONSTANTS
  TicksPerSecond = 2
  TTL = 3
  Leeway = 1
  MaxSkew = 1
  RememberFor = 0
  KeepPrevious = TRUE
  Damages <- AllDamages
  MaxKeys = 3
  MaxAssertions = 2
  MaxPresented = 2
  MaxTicks = 9
INVARIANT AcceptedOnce
CHECK_DEADLOCK FALSE
