\* A connection per thread; one makes every kind of call, one queries.
CONSTANTS
  t1 = t1
  t2 = t2
  c1 = c1
  c2 = c2
  Threads = {t1, t2}
  Conns = {c1, c2}
  Uses <- OwnConnections
  Names = {df}
  Bindings = {p1}
  Kinds <- OneStreams
  MaxObjects = 3
  NoThread = NoThread
  NoName = NoName
SPECIFICATION Spec
INVARIANTS
  TypeOK
  ParametersCleared
  OwnTables
