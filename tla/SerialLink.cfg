SPECIFICATION SerialFairSpec
CONSTANTS
  Frames <- MCFrames
  Periodic <- MCPeriodic
  Ops = {1}
  MaxLength = 1
  FifoSize = 3
  MaxSilence = 1
  NoFrame = NoFrame
PROPERTIES
  FifoIsQueue
  FramesInOrder
  ReceptionResumes
  Resyncs
