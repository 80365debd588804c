\* Three clients, two life times of a connection.
SPECIFICATION FairSpec
CONSTANTS
  Clients = {1, 2, 3}
  kPCDeadTimeoutMs = 1
  Start = 2
  MaxTime = 6
  CleanPeriod = 1
  Compounds <- MCCompounds
INVARIANTS TypeOK AssertHoldsWithVideo FeedbackReachesLivePeer RequestsNameTheirSource PeersOfEachOther
PROPERTIES ActiveConnectionKept SilentConnectionRemoved
CHECK_DEADLOCK FALSE
