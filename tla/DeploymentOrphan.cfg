SPECIFICATION Spec
INVARIANT TeardownLeavesNothing
CONSTANTS
  a = a
  b = b
  c = c
  Units = {a, b, c}
  Specs <- MCSpecs
  Images = {i1}
  Rejected = {}
  Held = {}
  MaxFaults = 1
  None = None
CHECK_DEADLOCK FALSE
