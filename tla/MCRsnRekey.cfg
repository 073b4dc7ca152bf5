\* One connection whose group key is replaced twice, so that a key ID is reused.
SPECIFICATION Spec
CONSTANTS
  Protected = FALSE
  Keys = {k1, k2, k3}
  KeyIds = {1, 2}
  MaxNonce = 1
  MaxHandshake = 2
  MaxCounter = 4
  MaxPn = 1
  MaxGroupPn = 1
  RX_QUEUE_LEN = 2
  MaxTxPn = 2
  None = None
SYMMETRY KeySymmetry
INVARIANTS NoFrameTwice AckMeansInstalled
CHECK_DEADLOCK FALSE
