SPECIFICATION FairSpec
CONSTANTS
  None = None
  i1 = i1
  i2 = i2
  m1 = m1
  Items = {i1, i2}
  TypeOfItem <- MCTypeOfItem
  Mounts = {m1}
  Rebuilding = TRUE
  MaxPlans = 1
  MaxEdits = 0
  MaxAborts = 0
  MaxFaults = 0
  MaxCrashes = 0
PROPERTIES
  ScansAreServed
CHECK_DEADLOCK FALSE
