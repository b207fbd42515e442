SPECIFICATION AdapterSpec
CONSTANTS
  Hosts <- MCHosts
  Address <- MCAddress
  Segments <- MCSegments
  LossRates = {0, 3277}
INVARIANTS
  AcceptedAsSent
  OnlyThePeer
  PeersUnderstandEachOther
PROPERTY LockedForGood
