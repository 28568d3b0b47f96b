\* Two threads query one connection, one of them with parameters.
CONSTANTS
  t1 = t1
  t2 = t2
  c1 = c1
  c2 = c2
  Threads = {t1, t2}
  Conns = {c1}
  Uses <- OneConnection
  Names = {df}
  Bindings = {p1}
  Kinds <- QueriesOnly
  MaxObjects = 1
  NoThread = NoThread
  NoName = NoName
SPECIFICATION Spec
INVARIANTS
  NoLockCycle
