SPECIFICATION Spec
CONSTANTS
  k1 = k1  k2 = k2  k3 = k3  k4 = k4  v1 = v1  v2 = v2  t1 = t1  t2 = t2
  Key = {k1, k2, k3, k4}
  Value = {v1, v2}
  Thread = {t1, t2}
  Owner <- OwnerEach
  SharedReads = FALSE
  Deletes = TRUE
  Overwrites = FALSE
  DirtyStrings = FALSE
  CacheSize = 1
  LogBuf = 2
  WriteBuf = 3
  MaxLog = 4
  MaxFaults = 1
  Garbage = Garbage
  None = None
SYMMETRY Symmetric
CONSTRAINT UpToFirstFault
INVARIANTS   CopiesAgree
