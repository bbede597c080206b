SPECIFICATION FairSpec
CONSTANTS
  Dual = TRUE
  NeverStop = FALSE
  QueueDepth = 2
  Flights = 3
  Stops = 1
INVARIANTS
  OneLogPerFlight
  NotStuck
PROPERTIES
  NoneCutOff
  LogCloses
  Rearms
