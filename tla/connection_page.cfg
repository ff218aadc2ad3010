SPECIFICATION Spec
CONSTANTS
  a = a
  b = b
  add = add
  edit = edit
  again = again
  after = after
  read = read
  batch = batch
  inner = inner
  row = row
  None = None
  Items = {a, b}
  Tasks = {add}
  Kind <- MCKind
  Key <- MCKey
  Changes <- MCChanges
  Expected <- MCExpected
  Parent <- MCParent
  Queries = {q}
  MaxAttempts = 2
  MaxFaults = 0
INVARIANTS
  PageWasCommitted
CHECK_DEADLOCK FALSE
