SPECIFICATION Spec
CONSTANTS
  a = a
  b = b
  c = c
  r1 = r1
  r2 = r2
  w1 = w1
  w2 = w2
  None = None
  NoOne = NoOne
  Boot = Boot
  Parts = {"apply", "handles", "lifecycle", "drains"}
  NRuns = 2
  NDrafts = 1
  MaxChanges = 1
  MaxWrites = 1
  ApplyCrashes = 2
  ApplyFaults = 2
  Stores = {a, b, c}
  Calls = {r1, r2, w1, w2}
  On <- MCOnBoth
  StoreWrites = {w1, w2}
  TwoPhase = {w1}
  Deleted = {a}
  MaxOpen = 2
  HandleFaults = 2
  MaxSweeps = 1
  Shutdown = TRUE
  Resources = {db1}
  Ops = {o1, o2, o3}
  LostMarks = TRUE
  LifeFaults = 2
  LifeCrashes = 1
  Consumers = {c1, c2}
  Expiries = {2, 3}
  Timeouts = {2}
  MaxTime = 2
  MaxDrains = 2
  MaxMoves = 1
  DrainFaults = 1
INVARIANTS
  RunsAreSafe
PROPERTIES
  HandlesAreSafe
  VerdictIsTrue
  ResourcesAreWhole
  LeasesAreWhole
\* Every run, call and drain ends at the bounds.
CHECK_DEADLOCK FALSE
