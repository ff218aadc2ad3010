SPECIFICATION Spec
CONSTANTS
  Items <- MCItems
  p = p
  q = q
  Root = Root
  Foreign = Foreign
  addP = addP
  addQ = addQ
  rootQ = rootQ
  clipQ = clipQ
  dropP = dropP
  moveP = moveP
  patchP = patchP
  sameP = sameP
  Commands = {addP, dropP}
  Catalogue <- MCCommandCatalogue
  ForeignBatches <- MCForeignBatches
  Readers = {s}
  Deletions = {}
  MaxAttempts = 2
  MaxReplay = 1
  MaxTouched = 2
  MaxCalls = 2
  MaxForeign = 1
  MaxFaults = 1
  MaxRestarts = 1
  MaxInterrupts = 0
  MaxOpens = 2
INVARIANTS
  CommittedOnce
  AcknowledgedIsCommitted
  StreamHasNoGap
  StateIsSound
PROPERTIES
  VerdictsAreTrue
  ImplementsContract
\* Every command is called at most twice.
CHECK_DEADLOCK FALSE
