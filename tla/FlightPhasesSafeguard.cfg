SPECIFICATION Spec
CONSTANTS
  Threshold <- MCThreshold
  TickModulus = 8
  MinApogeeTicks = 3
  MaxStepTicks = 2
  MaxAscentTicks = 6
PROPERTIES
  SafeguardFromLiftoff
