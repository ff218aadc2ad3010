SPECIFICATION FairSpec
CONSTANTS
  c1 = c1
  c2 = c2
  w1 = w1
  w2 = w2
  r = r
  j1 = j1
  j2 = j2
  j3 = j3
  Parts = {"stream", "execution", "pages"}
  Recovers = FALSE
  AfterReconnect = TRUE
  MaxEvents = 2
  MaxRestarts = 0
  StreamFaults = 1
  MayAbort = FALSE
  Calls = {c1}
  CallOf <- OneCallOf
  MaxConcurrent = 1
  CallFaults = 1
  Actions <- NoActions
  Timed = {j1, j2}
  Concurrency = 1
  MaxLaunches = 1
  PageFaults = 0
PROPERTIES
  StreamsGoOn
  CallsEnd
\* Every call and job ends at the bounds.
CHECK_DEADLOCK FALSE
