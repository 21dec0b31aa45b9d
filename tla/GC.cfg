SPECIFICATION FairSpec
CONSTANTS
  v1 = v1  v2 = v2
  Key = {1, 2}
  Value = {v1, v2}
  Workers = 2
  LogBuf = 2
  MaxLog = 3
  MaxGC = 2
  None = None
CHECK_DEADLOCK FALSE
INVARIANTS  SpaceReclaimed
PROPERTY CollectionEnds
