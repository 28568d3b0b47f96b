\* Two INSERTs, an OPTIMIZE FINAL and a DROP, with one cleaning thread and
\* neither mutations nor crashes.
CONSTANTS
  Tasks = {k1}
  MaxRows = 2
  MaxLevel = 1
  MaxDrops = 1
  MaxCrashes = 0
  MaxMutations = 0
  MaxReads = 0
  MaxOptimizes = 1
  Deletable = {}
  MaxStatements = 4
  Keep = 1
  Cleaners = {c1}
  NoPart = NoPart
SPECIFICATION Spec
CHECK_DEADLOCK FALSE
INVARIANTS
  DroppedStayDropped
