SPECIFICATION FlashSpec
CONSTANTS
  Firmware = {1, 2}
  Values = {"default", "user"}
  Factory = "default"
  SyncPeriod = 2
  Capacity = 6
  MaxFlights = 3
  MaxBlocks = 4
  Absent = Absent
INVARIANTS
  OnlyTheTailIsLost
PROPERTIES
  LogsAreKept
  BootFindsSettings
