SPECIFICATION Spec
CONSTANTS
  NRuns = 1
  NDrafts = 1
  MaxChanges = 1
  MaxWrites = 0
  MaxCrashes = 0
  MaxFaults = 1
PROPERTIES
  LostVerdictStaysOpen
CHECK_DEADLOCK FALSE
