\* Two threads, two streams on one connection of the C build, a queue of two
\* chunks and a format that may end before its stream does.
CONSTANTS
  Threads = {t1, t2}
  Streams = {s1, s2}
  Chunks = {c1, end}
  BadChunks = {}
  EndChunks = {end}
  MaxFill = 2
  MaxAppends = 2
  ConcurrentClose = FALSE
  UsePython = FALSE
  NoStream = NoStream
  NoThread = NoThread
  NoChunk = NoChunk
SPECIFICATION Spec
SYMMETRY Symmetry
INVARIANTS
  TypeOK
  SettingsRestored
  WorkerOwnsConnection
  FinaliserOwnsSlot
PROPERTIES
  ImplementsContract
