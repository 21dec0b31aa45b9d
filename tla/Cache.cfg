SPECIFICATION Spec
CONSTANTS
  k1 = k1  k2 = k2  k3 = k3  v1 = v1  v2 = v2  t1 = t1  t2 = t2
  h1 = h1  h2 = h2  h3 = h3  h4 = h4
  Key = {k1, k2, k3}
  Value = {v1, v2}
  Thread = {t1, t2}
  Handle = {h1, h2, h3, h4}
  Charges = {1, 2}
  Capacities = {1, 3}
  Capacity = 3
  MoveOnLookup = TRUE
  None = None
SYMMETRY Symmetric
INVARIANTS NoUseAfterFree RefsCountHolders TableMatchesList NothingLeaks UsageIsExact
PROPERTIES GrowsOnlyWhenPinned ImplementsPinnedMap
