SPECIFICATION FairSpec
CONSTANTS
  None = None
  i1 = i1
  i2 = i2
  m1 = m1
  Items = {i1, i2}
  TypeOfItem <- MCTypeOfItem
  Mounts = {m1}
  Rebuilding = FALSE
  MaxPlans = 1
  MaxEdits = 1
  MaxAborts = 1
  MaxFaults = 0
  MaxCrashes = 0
PROPERTIES
  RetrySucceeds
CHECK_DEADLOCK FALSE
