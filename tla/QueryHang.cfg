\* A statement is run while a stream is open.
CONSTANTS
  Threads = {t1, t2}
  Handles = {h1}
  two = two
  fails = fails
  ddl = ddl
  Statements = {two, fails, ddl}
  Selects = {two, fails}
  Blocks <- SomeBlocks
  Failing = {fails}
  MaxRows = 3
  UsePython = TRUE
  NoThread = NoThread
  NoHandle = NoHandle
  NoQuery = NoQuery
  NoContext = NoContext
SPECIFICATION Spec
INVARIANT NoHang
