SPECIFICATION FairSpec
CONSTANTS
  Clients = {a, b, c}
  MaxLinks = 2
  MaxBegins = 2
  MaxPeers = 1
INVARIANTS
  SuccessIsHighSpeed
  BondsBounded
PROPERTIES
  Reachable
CHECK_DEADLOCK FALSE
