SPECIFICATION Spec
CONSTANTS
  None = None
  s1 = s1
  s2 = s2
  p1 = p1
  p2 = p2
  m1 = m1
  r1 = r1
  r2 = r2
  x1 = x1
  x2 = x2
  Slugs = {s1}
  Publishes = {p1, p2}
  Metas = {}
  Recoveries = {}
  SlugOf <- MCOneSlugP
  Initial = {s1}
  Readers = {x1}
  MaxFaults = 0
  MaxCrashes = 1
INVARIANTS
  StartupRestores
CHECK_DEADLOCK FALSE
