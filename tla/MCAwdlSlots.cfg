SPECIFICATION Spec
CONSTANTS
  Start = 1100000
  Horizon = 2300000
  Epochs <- SomeEpochs
  Sequences <- SomeSequences
  OwnChannel = 6
  SendTimes = {900}
  TxDeltas = {0, 600}
  MaxTxDelta = 600
  Jitter = {700}
  StaleTimeout = 1000000
  None = None
INVARIANTS ClockFollowsPeer MsduInSlot MifsKeepComing
CHECK_DEADLOCK FALSE
