\* Three INSERTs and an ALTER ... DELETE that empties the second part; no crash:
\* the directories are what a start would find.
CONSTANTS
  Tasks = {k1}
  MaxRows = 3
  MaxLevel = 1
  MaxDrops = 0
  MaxCrashes = 0
  MaxMutations = 1
  MaxReads = 0
  MaxOptimizes = 0
  Deletable = {2}
  MaxStatements = 4
  Keep = 1
  Cleaners = {c1}
  NoPart = NoPart
SPECIFICATION Spec
CHECK_DEADLOCK FALSE
INVARIANTS
  NeverIntersect
