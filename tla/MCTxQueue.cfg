CONSTANTS
  TX_BUFFER_COUNT = 2
  Queues = {q1}
  Buffers = {b1, b2}
  NoBuffer = NoBuffer
  MaxCounter = 4
  RunnerMayStop = TRUE
SPECIFICATION Spec
SYMMETRY Symmetry
INVARIANTS
  TypeOK
  BuffersHaveOneOwner
  NoPanic
  InterestIsCurrent
  NoLostWakeup
  NoneOnlyIfOverwrittenOrAborted
PROPERTIES ImplementsFifo
