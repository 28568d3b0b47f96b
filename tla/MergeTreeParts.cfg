\* Four statements out of three INSERTs, two ALTERs, a DROP, an OPTIMIZE and a
\* SELECT; one crash, two merges or mutations at a time, two cleaning threads.
CONSTANTS
  Tasks = {k1, k2}
  MaxRows = 3
  MaxLevel = 1
  MaxDrops = 1
  MaxCrashes = 1
  MaxMutations = 2
  MaxReads = 1
  MaxOptimizes = 1
  Deletable = {2}
  MaxStatements = 4
  Keep = 1
  Cleaners = {c1, c2}
  NoPart = NoPart
SYMMETRY Symmetry
SPECIFICATION Spec
CHECK_DEADLOCK FALSE
INVARIANTS
  RowsVisibleOnce
  NothingResurrected
  ReplacesItsSources
  MutationsInOrder
  HeldPartsOnDisk
PROPERTIES
  OnlyClearedIntersect
  DoneStaysDone
