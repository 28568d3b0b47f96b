\* Two slots, and a third thread for a slot that is given up and taken again.
CONSTANTS
  t1 = t1
  t2 = t2
  t3 = t3
  t4 = t4
  w1 = w1
  w2 = w2
  w3 = w3
  Tasks = {t1, t2, t3, t4}
  Roots = {t1}
  Ready <- MCReady
  Async = {t3}
  NoTask = NoTask
  Workers = {w1, w2, w3}
  Main = Main
  NumThreads = 2
  TooManyIdle = 4
SPECIFICATION FairSpec
INVARIANTS
  NoPipelineStuck
  SlotsCounted
  TaskInOnePlace
PROPERTY
  QueryEnds
