CONSTANTS
  None = None
  Procs = {p1}
  Requeues = TRUE
  Specs <- MCSpecs
  Invalid <- MCInvalid
  Refs = {main}
  Commits = {a, b}
  MaxRetry = 0
  MaxFaults = 0
SPECIFICATION Spec
INVARIANT RunBuildsItsCommit
CHECK_DEADLOCK FALSE
