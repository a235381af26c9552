SPECIFICATION Spec
CONSTANTS
  Peers = {p1, p2}
  MaxPeers = 1
  CacheTtl = 1
  NodeTtl = 2
  Movers = {p1}
  MaxAddr = 2
  MaxGen = 2
  Own <- KeptByApplication
  None = None
  Shared = Shared
INVARIANTS TypeOK NoGhosts
PROPERTIES NewestWins Tracked
