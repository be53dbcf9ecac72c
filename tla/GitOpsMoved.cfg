CONSTANTS
  a = a
  b = b
  i1 = i1
  i2 = i2
  r1 = r1
  r2 = r2
  None = None
  Units = {a, b}
  Images = {i1, i2}
  Repos = {r1, r2}
  Wants <- MCMoving
  MaxOther = 0
  MaxFaults = 0
SPECIFICATION Spec
INVARIANT ClonesTheRepo
CHECK_DEADLOCK FALSE
