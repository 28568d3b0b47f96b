\* Two threads, streams and statements of every kind, inserts and the close.
CONSTANTS
  Threads = {t1, t2}
  Handles = {h1, h2}
  two = two
  fails = fails
  ddl = ddl
  Statements = {two, fails, ddl}
  Selects = {two, fails}
  Blocks <- SomeBlocks
  Failing = {fails}
  MaxRows = 3
  UsePython = TRUE
  NoThread = NoThread
  NoHandle = NoHandle
  NoQuery = NoQuery
  NoContext = NoContext
SPECIFICATION Spec
SYMMETRY Symmetry
INVARIANTS
  OneStatement
  RowsInOrder
  StreamsOwnRows
  ExclusiveIsServed
PROPERTIES
  EndedGetsNothing
