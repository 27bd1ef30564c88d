SPECIFICATION FairSpec
CONSTANTS
  MaxClients = 1
  Peers = {p1, p2}
  NoPeer = NoPeer
  Sessions = 2
  ShortWrites = FALSE
PROPERTIES StaleIsClosed PendingIsServed
