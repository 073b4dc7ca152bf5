CONSTANTS
  i1 = i1
  i2 = i2
  Interfaces = {i1, i2}
  Scanners = {i1, i2}
  Connectors = {i1, i2}
  Channels = {c1, c2, bad}
  ValidChannels = {c1, c2}
  None = None
SPECIFICATION FairSpec
INVARIANTS TypeOK OnlyInvalidLocksLeak RadioOnHomeChannel OperationsHaveConsent
PROPERTIES SharedChannelIsFixed I1BeginReturns
