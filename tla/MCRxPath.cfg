\* One more buffer than can be left behind; queues of one frame.
\* A scan takes the same frames from the router as an association.
SPECIFICATION FairSpec
CONSTANTS
  RX_BUFFER_COUNT = 5
  RX_QUEUE_LEN = 1
  QUEUE_DEPTH = 1
  Operations = {"Associate", "Handshake"}
  Frames <- SomeFrames
  None = None
INVARIANT ReferencesAreExact
PROPERTIES RadioKeepsReceiving
