CONSTANTS
  TX_BUFFER_COUNT = 2
  Queues = {q1}
  Buffers = {b1, b2}
  NoBuffer = NoBuffer
  MaxCounter = 4
  RunnerMayStop = FALSE
SPECIFICATION FairSpec
PROPERTIES
  FramesAreTransmitted
  WaitersResolve
  AbandonedBuffersReturn
