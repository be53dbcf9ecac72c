CONSTANTS
  Reconcilers = {r1}
  Observers = {o1}
  Steps = 3
SPECIFICATION FairSpec
INVARIANTS TypeOK 
PROPERTIES  MergesAtomically CallsReturn
CHECK_DEADLOCK FALSE
