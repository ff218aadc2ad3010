SPECIFICATION Spec
CONSTANTS
  MaxReplay = 2
  Capacity = 1
  Recovers = TRUE
  AfterReconnect = FALSE
  Retries = 1
  WireRoom = 1
  MaxEvents = 2
  MaxBreaks = 1
  MaxRestarts = 1
  MaxFaults = 0
  MayAbort = FALSE
INVARIANTS
  NothingMissed
CHECK_DEADLOCK FALSE
