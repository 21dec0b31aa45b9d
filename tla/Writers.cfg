SPECIFICATION FairSpec
CONSTANTS
  t1 = t1  t2 = t2  t3 = t3
  Thread = {t1, t2, t3}
  Flusher = {t2}
  ByteSize <- Sizes
  Unit = 2
  MaxCalls = 3
  MaxFaults = 1
  MaxSwitches = 1
  None = None
CHECK_DEADLOCK FALSE
INVARIANTS NoUseAfterReturn AloneAtTheLog 
  
