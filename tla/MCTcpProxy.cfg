SPECIFICATION Spec
SYMMETRY Symmetry
CONSTANTS
  MaxClients = 2
  Peers = {p1, p2, p3}
  NoPeer = NoPeer
  Sessions = 3
  ShortWrites = FALSE
INVARIANTS TypeOK SameSession SocketsOwned
PROPERTY StreamIntact
