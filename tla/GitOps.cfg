CONSTANTS
  a = a
  b = b
  i1 = i1
  i2 = i2
  r1 = r1
  r2 = r2
  None = None
  Units = {a, b}
  Images = {i1, i2}
  Repos = {r1}
  Wants <- MCWants
  MaxOther = 1
  MaxFaults = 1
SPECIFICATION FairSpec
INVARIANTS TypeOK PublishedFirst KustHasSource
PROPERTIES OthersKept DeclaredIsPublished TeardownCompletes
CHECK_DEADLOCK FALSE
