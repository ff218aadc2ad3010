SPECIFICATION Spec
CONSTANTS
  NRuns = 2
  NDrafts = 1
  MaxChanges = 0
  MaxWrites = 0
  MaxCrashes = 1
  MaxFaults = 0
INVARIANTS
  OfferedBackup
CHECK_DEADLOCK FALSE
