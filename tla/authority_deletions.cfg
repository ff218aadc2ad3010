SPECIFICATION FairSpec
CONSTANTS
  Items <- MCItems
  p = p
  q = q
  Root = Root
  Foreign = Foreign
  addP = addP
  addQ = addQ
  rootQ = rootQ
  clipQ = clipQ
  dropP = dropP
  moveP = moveP
  patchP = patchP
  sameP = sameP
  Commands = {addP}
  Catalogue <- MCCommandCatalogue
  ForeignBatches <- MCForeignBatches
  Readers = {s}
  Deletions = {d, e}
  MaxAttempts = 2
  MaxReplay = 1
  MaxTouched = 2
  MaxCalls = 1
  MaxForeign = 0
  MaxFaults = 1
  MaxRestarts = 0
  MaxInterrupts = 1
  MaxOpens = 2
INVARIANTS
  TypeOK
PROPERTIES
  DeletionsExclude
  ClaimIsResolved
  EveryoneIsServed
\* Every command is called at most once.
CHECK_DEADLOCK FALSE
