SPECIFICATION Spec
CONSTANTS
  k1 = k1  k2 = k2  v1 = v1  v2 = v2  t1 = t1  t2 = t2
  Key = {k1, k2}
  Value = {v1}
  Thread = {t1}
  Owner <- OneOwner
  Deletes = FALSE
  NulValues = {}
  PutsDuringGC = TRUE
  MinFile = 2
  MaxSeq = 3
  MaxGC = 1
  MaxFaults = 0
  MaxReopens = 0
  Mangled = Mangled
  None = None
CHECK_DEADLOCK FALSE
PROPERTY ListProtected
