SPECIFICATION FairSpec
CONSTANTS
  None = None
  s1 = s1
  i1 = i1
  i2 = i2
  c1 = c1
  c2 = c2
  Parts = {"publication", "deletion", "build"}
  Slugs = {s1}
  Publishes = {p1}
  Metas = {m1}
  Recoveries = {}
  Initial = {s1}
  Readers = {x1, x2}
  PubFaults = 1
  PubCrashes = 1
  Items = {i1, i2}
  Mounts = {m1}
  Rebuilding = TRUE
  MaxPlans = 1
  MaxEdits = 1
  MaxAborts = 1
  DelFaults = 1
  DelCrashes = 1
  Sources = {v1}
  MaxCalls = 2
  SourceEdits = 0
  MaxBuilds = 2
  BuildFaults = 1
  BuildCrashes = 0
  MaxStops = 1
PROPERTIES
  WaitersAreServed
  DeletionConverges
CHECK_DEADLOCK FALSE
