SPECIFICATION FairSpec
CONSTANTS
  a = a
  b = b
  c = c
  r1 = r1
  r2 = r2
  w1 = w1
  w2 = w2
  Resources = {a, b}
  Calls = {r1, w1}
  On <- MCOnWaiting
  Writes = {w1}
  TwoPhase = {}
  Deleted = {}
  MaxOpen = 1
  MaxFaults = 0
  MaxSweeps = 0
  Shutdown = FALSE
PROPERTIES
  IdleGivesWay
CHECK_DEADLOCK FALSE
