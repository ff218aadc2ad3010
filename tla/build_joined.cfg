SPECIFICATION Spec
CONSTANTS
  None = None
  s1 = s1
  s2 = s2
  c1 = c1
  c2 = c2
  Sources = {s1, s2}
  Callers = {c1, c2}
  Kind <- MCKind
  MaxCalls = 3
  MaxEdits = 0
  MaxBuilds = 2
  MaxFaults = 0
  MaxCrashes = 0
  MaxStops = 0
INVARIANTS
  OnlyCancellersAbort
CHECK_DEADLOCK FALSE
