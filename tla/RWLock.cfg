\* Four requests, two of them of one query; one of that query and the
\* background thread give up at a deadline.
CONSTANTS
  a1 = a1
  a2 = a2
  b = b
  n = n
  qa = qa
  qb = qb
  Requests <- MCRequests
  Queries = {qa, qb}
  NoQuery = NoQuery
  QueryOf <- MCQueryOf
  Timed = {a2, n}
  MaxGroups = 4
SPECIFICATION FairSpec
INVARIANTS
  Exclusion
  CountsExact
  AssertionsHold
  ReadersWaitForWriters
PROPERTIES
  PhaseFair
  OwnReaderNeverWaits
  EveryRequestEnds
