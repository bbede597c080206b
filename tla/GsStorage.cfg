SPECIFICATION FairSpec
CONSTANTS
  QueueDepth = 1
  MayTimeOut = {"auto", "share", "parse"}
  MayFail = TRUE
  Samples = {"flight"}
INVARIANTS
  NeverBoth
  RecorderWorksMounted
  HmiWorksMounted
PROPERTIES
  FlashComesBack
