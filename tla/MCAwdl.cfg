\* Starts, stops and dropped starts, silent and changing peers, a full event queue and a
\* timeout that changes.
SPECIFICATION FairSpec
CONSTANTS
  p1 = p1
  p2 = p2
  Self = self
  SELF_METRIC = 2
  None = None
  Peers = {p1, p2}
  Adverts <- MixedAdverts
  PEER_CACHE_SIZE = 2
  EVENT_QUEUE_DEPTH = 1
  Timeouts = {1, 2}
INVARIANTS MasterIsFollowed SessionStartsFresh SessionHoldsChannel StalePeersLeave EventsTellPeers
PROPERTY SignalsAreObeyed
