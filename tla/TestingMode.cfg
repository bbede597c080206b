SPECIFICATION TestingFairSpec
CONSTANTS
  InTestingMode = TRUE
  AirSize = 1
  QueueSize = 1
  MaxPresses = 1
INVARIANTS
  FiredOnce
  UplinkCloses
PROPERTIES
  LeavingDisarms
