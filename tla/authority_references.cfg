SPECIFICATION Spec
CONSTANTS
  Items <- MCItems
  p = p
  q = q
  Root = Root
  Foreign = Foreign
  addP = addP
  addQ = addQ
  rootQ = rootQ
  clipQ = clipQ
  dropP = dropP
  moveP = moveP
  patchP = patchP
  sameP = sameP
  Commands = {addP, clipQ, dropP}
  Catalogue <- MCCommandCatalogue
  ForeignBatches <- MCForeignBatches
  Readers = {s}
  Deletions = {}
  MaxAttempts = 2
  MaxReplay = 1
  MaxTouched = 2
  MaxCalls = 1
  MaxForeign = 0
  MaxFaults = 0
  MaxRestarts = 0
  MaxInterrupts = 0
  MaxOpens = 1
INVARIANTS
  DocumentReadable
CHECK_DEADLOCK FALSE
