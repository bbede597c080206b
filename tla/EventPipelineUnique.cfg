SPECIFICATION Spec
CONSTANTS
  backup = backup
  payload = payload
  pad = pad
  Timer = {backup, payload, pad}
  TimerInit <- MCTimerInit
  TimerExec <- MCTimerExec
  Actions <- MCActions
  QueueSize = 4
  UniqueArg = {TRUE, FALSE}
  GroundEvents <- MCGroundEvents
  Packets = {}
  TestingEnabled = FALSE
PROPERTIES
  UniqueEvents
CHECK_DEADLOCK FALSE
