SPECIFICATION Spec
CONSTANTS
  Names <- MCNames
  Changing <- MCChanging
  Setups <- MCSetups
  Variants <- MCVariants
  MaxChanges = 2
  MaxFaults = 1
INVARIANT TypeOK
PROPERTY HitIsOwn
PROPERTY InvalidateDropsOwn
CHECK_DEADLOCK FALSE
