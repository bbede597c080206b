SPECIFICATION FairSpec
CONSTANTS
  backup = backup
  payload = payload
  pad = pad
  Timer = {backup}
  TimerInit <- MCTimerInit
  TimerExec <- MCTimerExec
  Actions <- MCActions
  QueueSize = 2
  UniqueArg = {TRUE, FALSE}
  GroundEvents <- MCGroundEvents
  Packets <- MCPackets
  TestingEnabled = TRUE
INVARIANTS
  NoFireOnPad
  AnnouncedIsAccounted
PROPERTIES
  StaysArmed
  ApogeeIsExecuted
CHECK_DEADLOCK FALSE
