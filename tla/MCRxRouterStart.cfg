CONSTANTS
  Operations <- StaOperations
  ConnectionSteps <- StaSteps
  FrameTypes <- StaFrames
  Relevant <- StaRelevant
  Concurrent = FALSE
  Compatible <- NoPairs
  QUEUE_DEPTH = 1
  None = None
SPECIFICATION FairSpec
PROPERTIES
  StartReturns
