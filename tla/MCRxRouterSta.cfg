CONSTANTS
  Operations <- StaOperations
  ConnectionSteps <- StaSteps
  FrameTypes <- StaFrames
  Relevant <- StaRelevant
  Concurrent = FALSE
  Compatible <- NoPairs
  QUEUE_DEPTH = 2
  None = None
SPECIFICATION Spec
INVARIANTS
  TypeOK
  OperationsExclude
  WaitsForSomething
