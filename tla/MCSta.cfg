\* Two protected networks and an open one; key slots for two connections.
SPECIFICATION FairSpec
CONSTANTS
  Networks = {open, home, work}
  Rsn = {home, work}
  KEY_SLOT_COUNT = 10
  handshake_retries = 1
  None = None
INVARIANTS ConnectedHoldsChannel KeysInstalled RunnerServesConnection
PROPERTY LinkFollowsState
