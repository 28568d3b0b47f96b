\* Two threads race on one stream of the Python build: a queue of two chunks, one
\* that the parser refuses, and a format that may end before its stream does.
CONSTANTS
  Threads = {t1, t2}
  Streams = {s1}
  Chunks = {c1, c2, bad, end}
  BadChunks = {bad}
  EndChunks = {end}
  MaxFill = 2
  MaxAppends = 2
  ConcurrentClose = FALSE
  UsePython = TRUE
  NoStream = NoStream
  NoThread = NoThread
  NoChunk = NoChunk
SPECIFICATION FairSpec
INVARIANTS
  OutcomeTrue
  AcceptedInOrder
  NoUseAfterFree
  NeverCancelFinished

  
