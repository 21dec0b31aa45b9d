SPECIFICATION Spec
CONSTANTS
  k1 = k1  k2 = k2  k3 = k3  k4 = k4  v1 = v1  v2 = v2  t1 = t1  t2 = t2
  Key = {k1, k2}
  Value = {v1, v2}
  Thread = {t1}
  Owner <- OneOwner
  SharedReads = FALSE
  Deletes = FALSE
  Overwrites = TRUE
  DirtyStrings = FALSE
  CacheSize = 2
  LogBuf = 2
  WriteBuf = 4
  MaxLog = 3
  MaxFaults = 0
  Garbage = Garbage
  None = None
INVARIANT ReadsAreRegular
