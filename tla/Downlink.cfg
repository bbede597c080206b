SPECIFICATION MCSpec
CONSTANTS
  N = 5
  W = 2
  LostAfter = 7
  ScanAfter = 3
  Observers <- MCObservers
  Telemetry = "telemetry"
  FsmPeriod = 2
  Period <- MCPeriod
  MinStay = 22
  MaxLate = 3
INVARIANTS
  RunningTotal
  LqIsRatio
  BoostedInFlight
PROPERTIES
  FadesBeforeLost
  NoPhaseMissed
