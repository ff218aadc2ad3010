SPECIFICATION MCFairSpec
CONSTANTS
  x = x
  y = y
  c1 = c1
  c2 = c2
  c3 = c3
  r1 = r1
  r2 = r2
  Items = {x, y}
  Ids = {c1, c2, c3}
  RemoteIds = {r1, r2}
  Edits <- MCEdits
  RemoteEdit <- MCRemoteEdit
  Absent = Absent
  None = None
  Capacity = 2
  MaxFaults = 1
INVARIANTS
  AcceptedIsCommitted
  ShownIsAcceptedAndPending
  HistoryIsSound
PROPERTIES
  AnswersAreTakenRight
  Converges
\* The commands run out.
CHECK_DEADLOCK FALSE
