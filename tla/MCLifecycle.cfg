SPECIFICATION Spec
CONSTANT MayThrow = TRUE
INVARIANTS
  WorkerOwnsLiveRings
  RedirectedToPreparedWorker
  NothingLeftBehind
  ExitCodeTellsFailure
  MetadataExplainsExit
PROPERTIES
  StopLeadsToExit
  StartupCompletes
