SPECIFICATION Spec
CONSTANTS
  k1 = k1  k2 = k2  v1 = v1  v2 = v2  t1 = t1  t2 = t2
  Key = {k1, k2}
  Value = {v1, v2}
  Thread = {t1, t2}
  Size <- MCSize
  PageSize = 2
  BufSize = 4
  Retries = 1
  MaxFile = 3
  MaxFailures = 1
  None = None
  Junk = Junk
SYMMETRY Symmetric
INVARIANTS
  BufferNeverOverflows
  PutInLog
  GetReturnsOwnValue
  IndexedInLog
PROPERTIES
  FlushedIsFound
  ImplementsAtomicPuts
