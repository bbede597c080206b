CONSTANTS
  Callers = {Peripherals}
  Peripherals = Peripherals
  MaxRequests = 5
  MaxRecords = 6
  CmdQueueSize = 10
  QueueSize = 3
  PreLimit = 2
  BlockSize = 2
SPECIFICATION FairSpec
INVARIANTS
  FileDiscipline
  PreRecorded
  LogIsOneRun
PROPERTIES
  SettlesToStatus
CHECK_DEADLOCK FALSE
