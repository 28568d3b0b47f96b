\* Five connections to two paths come and go; constructors may throw.
CONSTANTS
  Clients = {c1, c2, c3, c4, c5}
  Paths = {memory, disk}
  NoServer = NoServer
  NoPath = NoPath
SPECIFICATION Spec
SYMMETRY Symmetry
INVARIANTS
  RefCountExact
  ServerOutlivesClients
  LocksFollowServer
