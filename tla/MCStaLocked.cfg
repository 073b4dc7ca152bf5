SPECIFICATION Spec
CONSTANTS
  Networks = {open, wpa}
  Rsn = {wpa}
  KEY_SLOT_COUNT = 10
  handshake_retries = 1
  None = None
INVARIANT ConnectedIsLocked
