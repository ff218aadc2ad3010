SPECIFICATION FairSpec
CONSTANTS
  a = a
  b = b
  c = c
  r1 = r1
  r2 = r2
  w1 = w1
  w2 = w2
  None = None
  NoOne = NoOne
  Boot = Boot
  Parts = {"apply", "handles", "lifecycle", "drains"}
  NRuns = 2
  NDrafts = 1
  MaxChanges = 1
  MaxWrites = 0
  ApplyCrashes = 1
  ApplyFaults = 1
  Stores = {a, b, c}
  Calls = {r1, r2, w1}
  On <- MCOnThree
  StoreWrites = {w1}
  TwoPhase = {w1}
  Deleted = {a}
  MaxOpen = 1
  HandleFaults = 2
  MaxSweeps = 1
  Shutdown = TRUE
  Resources = {db1}
  Ops = {o1, o2}
  LostMarks = FALSE
  LifeFaults = 1
  LifeCrashes = 1
  Consumers = {c1, c2}
  Expiries = {3}
  Timeouts = {1}
  MaxTime = 2
  MaxDrains = 2
  MaxMoves = 0
  DrainFaults = 0
PROPERTIES
  EveryCallSettles
  InterruptedWorkSettles
  FailedDrainsAreUndone
CHECK_DEADLOCK FALSE
