SPECIFICATION FairSpec
CONSTANTS
  N = 2
  NumFrames = 2
  Capacity = 2
  BusyPoll = FALSE
  Batch = 2
  RefillThreshold = 0
  RxOffsets = {1}
PROPERTIES
  TxFramesComeBack
  ReceptionIsFed
  FillReachesDriver
