CONSTANTS
  MaxMsg = 2
  Limit = 1
  Faults = TRUE
  Temp = Temp
  None = None
SPECIFICATION FairSpec
INVARIANTS NoDuplicates HeardStaysVisible
PROPERTY LiveMessageShown
CHECK_DEADLOCK FALSE
