SPECIFICATION StatSpec
CONSTANTS
  N = 2
  NumFrames = 1
  Capacity = 1
  BusyPoll = TRUE
  Batch = 2
  RefillThreshold = 0
  RxOffsets = {0}
  RejectionLimit = 1
  SampleCapacity = 1
  MaxPackets = 2
PROPERTY BurstEndsRun
