SPECIFICATION Spec
CONSTANTS
  k1 = k1  k2 = k2  v1 = v1  v2 = v2  t1 = t1  t2 = t2
  Key = {k1, k2}
  Value = {v1, v2}
  Thread = {t1, t2}
  Owner <- OwnerEach
  Deletes = TRUE
  NulValues = {}
  PutsDuringGC = FALSE
  MinFile = 2
  MaxSeq = 3
  MaxGC = 0
  MaxFaults = 1
  MaxReopens = 1
  Mangled = Mangled
  None = None
CHECK_DEADLOCK FALSE
INVARIANTS  GarbageIsDead NeverAnothersRecord 
