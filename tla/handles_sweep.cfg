SPECIFICATION Spec
CONSTANTS
  a = a
  b = b
  c = c
  r1 = r1
  r2 = r2
  w1 = w1
  w2 = w2
  Resources = {a, b}
  Calls = {r1, r2, w1, w2}
  On <- MCOnTwo
  Writes = {}
  TwoPhase = {}
  Deleted = {}
  MaxOpen = 2
  MaxFaults = 0
  MaxSweeps = 1
  Shutdown = FALSE
INVARIANTS
  NobodyCut
CHECK_DEADLOCK FALSE
