SPECIFICATION Spec
CONSTANTS
  None = None
  s1 = s1
  s2 = s2
  c1 = c1
  c2 = c2
  Sources = {s1, s2}
  Callers = {c1, c2}
  Kind <- MCKind
  MaxCalls = 2
  MaxEdits = 1
  MaxBuilds = 2
  MaxFaults = 0
  MaxCrashes = 1
  MaxStops = 0
INVARIANTS
  LastGoodIsKept
CHECK_DEADLOCK FALSE
