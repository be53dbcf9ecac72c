CONSTANTS
  None = None
  Procs = {p1}
  Requeues = TRUE
  Specs <- MCSpecs
  Invalid <- MCInvalid
  Refs = {main}
  Commits = {a}
  MaxRetry = 1
  MaxFaults = 2
SPECIFICATION FairSpec
INVARIANTS TypeOK BuiltOnce TeardownIsComplete
PROPERTIES NewRunMatchesShip RequestIsAnswered DeletionCompletes
CHECK_DEADLOCK FALSE
