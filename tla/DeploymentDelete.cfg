SPECIFICATION FairSpec
PROPERTY DeletionIsTornDown
CONSTANTS
  a = a
  b = b
  c = c
  Units = {a, b, c}
  Specs <- MCSpecs
  Images = {i1}
  Rejected = {}
  Held = {}
  MaxFaults = 0
  None = None
CHECK_DEADLOCK FALSE
