SPECIFICATION Spec
CONSTANTS
  NRuns = 2
  NDrafts = 1
  MaxChanges = 1
  MaxWrites = 0
  MaxCrashes = 1
  MaxFaults = 1
INVARIANTS
  ReadyIsHealthy
CHECK_DEADLOCK FALSE
