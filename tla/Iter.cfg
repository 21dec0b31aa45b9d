SPECIFICATION Spec
CONSTANTS
  MaxEntries = 9
  PrefetchDepth = 4
  AllFlushed = TRUE
  Reseeks = {FALSE}
  SkipsValue = {FALSE}
  Deletes = {TRUE}
  Garbage = Garbage
  None = None
CHECK_DEADLOCK FALSE
INVARIANTS  ValueIsCurrent
