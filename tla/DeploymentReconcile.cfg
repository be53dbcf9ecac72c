SPECIFICATION FairSpec
INVARIANTS TypeOK StatusIsTrue TeardownIsComplete
PROPERTIES SuccessIsComplete DeclaredIsApplied
CONSTANTS
  a = a
  b = b
  c = c
  Units = {a, b, c}
  Specs <- MCSpecs
  Images = {i1}
  Rejected = {a}
  Held = {a}
  MaxFaults = 1
  None = None
CHECK_DEADLOCK FALSE
