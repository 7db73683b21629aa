SPECIFICATION StopSpec
CONSTANTS
  N = 2
  NumFrames = 2
  Capacity = 2
  BusyPoll = FALSE
  Batch = 1
  RefillThreshold = 2
  RxOffsets = {1}
PROPERTY StopEnds
