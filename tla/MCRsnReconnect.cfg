\* Two connections with retried handshake messages and data in both directions.
SPECIFICATION Spec
CONSTANTS
  Protected = TRUE
  Keys = {k1, k2}
  KeyIds = {1, 2}
  MaxNonce = 2
  MaxHandshake = 3
  MaxCounter = 3
  MaxPn = 2
  MaxGroupPn = 1
  RX_QUEUE_LEN = 1
  MaxTxPn = 2
  None = None
SYMMETRY KeySymmetry
INVARIANT NoPacketNumberReused
PROPERTY CountersOnlyGrow
CHECK_DEADLOCK FALSE
