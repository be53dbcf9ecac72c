CONSTANTS
  g1 = g1
  None = None
  Cmds = {c1, c2}
  GVKs = {g1}
  GvkOf <- MCGvkOf
  Workers = {w1, w2}
  Capacity = 1
SPECIFICATION FairSpec
INVARIANTS JoinedMeansQuiet OpenBreakerHolds
PROPERTIES ImplementsBus AcceptedIsServed FullQueueLetsThrough
CHECK_DEADLOCK FALSE
