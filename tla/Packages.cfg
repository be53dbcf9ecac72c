SPECIFICATION FairSpec
INVARIANTS TypeOK NoStrayBinding
PROPERTIES AppKeepsItsRights RightsComeBack DeletionCompletes
CONSTANTS
  Packages <- MCPackages
  Specs = {good, bad}
  Unresolved = {bad}
  Roles = {r1, r2}
  MaxFaults = 2
  None = None
CHECK_DEADLOCK FALSE
