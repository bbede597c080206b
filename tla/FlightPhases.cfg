SPECIFICATION FairSpec
CONSTANTS
  Threshold <- MCThreshold
  TickModulus = 8
  MinApogeeTicks = 3
  MaxStepTicks = 2
  MaxAscentTicks = 6
PROPERTIES
  Debounced
  ApogeeGate
  WalksPhaseGraph
  PersistentConditionLeaves
