SPECIFICATION Spec
CONSTANTS
  N = 2
  NumFrames = 3
  Capacity = 3
  BusyPoll = TRUE
  Batch = 2
  RefillThreshold = 0
  RxOffsets = {1}
INVARIANTS
  TypeOK
  FrameConservation
  OutstandingExact
  NothingOverflows
  FrameBasesOnly
  NothingLeftStaged
PROPERTY OwnershipSpec
