SPECIFICATION FairSpec
CONSTANTS
  TxPeriod = 10
  Spans = {9, 11, 12}
  Airtime = 3
  Hops = 7
  LostAfter = 4
  ScanAfter = 2
  Bidirectional = TRUE
INVARIANTS
  InStep
  AnswerIsHeard
PROPERTIES
  GivesUpLate
  Reconnects
