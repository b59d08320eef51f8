CONSTANTS
  Workers = {w1, w2}
  Concurrency = 1
  Clients = {k1}
  Roots = {p1, p2}
  MaxJobs = 2
  MaxTime = 1
  p1 = p1
  p2 = p2
  Setups <- TheSetups
SPECIFICATION FairSpec
INVARIANTS
  TypeOK
  ChecksAreOfTheRow
PROPERTY EveryJobEnds
