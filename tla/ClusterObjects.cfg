SPECIFICATION FairSpec
CONSTANTS
  Crs <- MCCrs
  Changing <- MCChanging
  Setups <- MCSetups
  MaxChanges = 2
  MaxFaults = 1
INVARIANTS TypeOK StackFirst DoneStays
PROPERTIES TornDown SecretsArrive
CHECK_DEADLOCK FALSE
