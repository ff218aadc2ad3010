SPECIFICATION Spec
CONSTANTS
  c1 = c1
  c2 = c2
  w1 = w1
  w2 = w2
  r = r
  j1 = j1
  j2 = j2
  j3 = j3
  Parts = {"stream", "admission", "execution", "queue", "pages"}
  Recovers = TRUE
  AfterReconnect = FALSE
  MaxEvents = 4
  MaxRestarts = 0
  StreamFaults = 1
  MayAbort = TRUE
  Calls = {c1, c2}
  CallOf <- PairCallOf
  MaxConcurrent = 2
  CallFaults = 0
  Actions <- OneAction
  Timed = {j1}
  Concurrency = 2
  MaxLaunches = 2
  PageFaults = 1
INVARIANTS
  StreamIsWhole
PROPERTIES
  CallsAreSafe
  InspectionIsClean
\* Every call and job ends at the bounds.
CHECK_DEADLOCK FALSE
