SPECIFICATION FairSpec
CONSTANTS
  a = a
  b = b
  add = add
  edit = edit
  again = again
  after = after
  read = read
  batch = batch
  inner = inner
  row = row
  None = None
  Items = {a, b}
  Tasks = {add, read, batch, inner}
  Kind <- MCKind
  Key <- MCKey
  Changes <- MCChanges
  Expected <- MCExpected
  Parent <- MCParent
  Queries = {q}
  MaxAttempts = 2
  MaxFaults = 1
INVARIANTS
  SingleOwner
  NothingIntrudes
  PageSpansOneCommit
PROPERTIES
  ImplementsContract
  EveryCallSettles
\* Every operation ends.
CHECK_DEADLOCK FALSE
