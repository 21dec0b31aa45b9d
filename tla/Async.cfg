SPECIFICATION PFairSpec
CONSTANTS
  c1 = c1  c2 = c2  w1 = w1  w2 = w2
  Producer = {c1, c2}
  Worker = {w1, w2}
  Task <- Reads
  QueueSize = 3
  MaxNum = 2
  MaxCalls = 1
  None = None
CHECK_DEADLOCK FALSE
INVARIANTS PermitsAccount GracefulDrains  
PROPERTIES DestroyReturns ImplementsTaskQueue PrefetchReturns
