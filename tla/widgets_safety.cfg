SPECIFICATION Spec
CONSTANTS
  None = None
  s1 = s1
  i1 = i1
  i2 = i2
  c1 = c1
  c2 = c2
  Parts = {"publication", "deletion", "build"}
  Slugs = {s1}
  Publishes = {p1, p2}
  Metas = {m1}
  Recoveries = {r1}
  Initial = {s1}
  Readers = {x1}
  PubFaults = 1
  PubCrashes = 1
  Items = {i1, i2}
  Mounts = {m1}
  Rebuilding = TRUE
  MaxPlans = 2
  MaxEdits = 2
  MaxAborts = 1
  DelFaults = 1
  DelCrashes = 1
  Sources = {v1, v2}
  MaxCalls = 2
  SourceEdits = 1
  MaxBuilds = 2
  BuildFaults = 1
  BuildCrashes = 1
  MaxStops = 0
INVARIANTS
  LiveIsVerified
PROPERTIES
  ReadersSeeWhole
  LastGoodIsKept
  OnlyReviewedRemoved
  EnsureIsFresh
\* Every operation ends at the bounds.
CHECK_DEADLOCK FALSE
