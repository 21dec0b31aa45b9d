------------------------ MODULE CacheShardRefinement ------------------------
(***************************************************************************)
(* Proof that a cache shard implements PinnedMap: a step on the table maps *)
(* to the step on the map, and freeing after the unlock to a stutter.      *)
(***************************************************************************)
EXTENDS CacheShardProofs

MapsTable ==
  /\ \A h \in table : heap[h].key \in Key /\ heap[h].val \in Value
                        /\ CachedMap[heap[h].key] = heap[h].val
  /\ \A k \in Key : (\A h \in table : heap[h].key # k) => CachedMap[k] = None

\* CachedMap is the map of the table's entries.
LEMMA CachedMapFacts == IInv => MapsTable
<1> SUFFICES ASSUME IInv PROVE MapsTable
  OBVIOUS
<1>1. \A h \in table : heap[h].key \in Key /\ heap[h].val \in Value
  BY DEF IInv, TypeOK, NoUseAfterFree, Entry
<1>2. ASSUME NEW h \in table PROVE CachedMap[heap[h].key] = heap[h].val
  <2>1. h \in FindPointer(heap[h].key)
    BY DEF FindPointer
  <2>2. \A g \in FindPointer(heap[h].key) : g = h
    BY DEF FindPointer, IInv, TableMatchesList
  <2>3. (CHOOSE g \in FindPointer(heap[h].key) : TRUE) = h
    BY <2>1, <2>2
  <2> QED
    BY <1>1, <2>1, <2>3 DEF CachedMap
<1>3. ASSUME NEW k \in Key, \A h \in table : heap[h].key # k PROVE CachedMap[k] = None
  <2>1. FindPointer(k) = {}
    BY <1>3, Zenon DEF FindPointer
  <2> QED
    BY <2>1 DEF CachedMap
<1> QED
  BY <1>1, <1>2, <1>3 DEF MapsTable

\* An entry of the table is what its key maps to, now and after a step.
LEMMA MapsNow ==
  ASSUME MapsTable, NEW h \in table, NEW k, heap[h].key = k
  PROVE  CachedMap[k] = heap[h].val
BY Zenon DEF MapsTable

LEMMA MapsNext ==
  ASSUME MapsTable', NEW h \in table', NEW k, heap'[h].key = k, NEW v, heap'[h].val = v
  PROVE  CachedMap'[k] = v
BY Zenon DEF MapsTable

\* Both mappings are functions, so that they can be compared point by point.
LEMMA MapExt ==
  /\ CachedMap = [x \in Key |-> CachedMap[x]]
  /\ CachedMap' = [x \in Key |-> CachedMap'[x]]
BY DEF CachedMap

LEMMA PinExt ==
  /\ PinnedEntries = [u \in Thread |-> PinnedEntries[u]]
  /\ PinnedEntries' = [u \in Thread |-> PinnedEntries'[u]]
BY DEF PinnedEntries

\* A step that leaves the held handle of a thread and the key and value at it
\* alone leaves what the thread has pinned alone.
LEMMA PinFrame ==
  ASSUME NEW u \in Thread, held'[u] = held[u],
         held[u] # None => /\ heap'[held[u]].key = heap[held[u]].key
                           /\ heap'[held[u]].val = heap[held[u]].val
  PROVE  PinnedEntries'[u] = PinnedEntries[u]
BY Zenon DEF PinnedEntries

\* A step that keeps the table, and the keys and values of its entries, keeps
\* the map.
LEMMA MapFrame ==
  ASSUME table' = table,
         \A h \in table : heap'[h].key = heap[h].key /\ heap'[h].val = heap[h].val
  PROVE  CachedMap' = CachedMap
<1>1. \A k \in Key : FindPointer(k)' = FindPointer(k)
  BY DEF FindPointer
<1>2. \A k \in Key : \A h \in FindPointer(k) : heap'[h].val = heap[h].val
  BY DEF FindPointer
<1>3. \A k \in Key : FindPointer(k) # {} =>
        (CHOOSE h \in FindPointer(k) : TRUE) \in FindPointer(k)
  OBVIOUS
<1>4. \A k \in Key : CachedMap'[k] = CachedMap[k]
  BY <1>1, <1>2, <1>3, Zenon DEF CachedMap
<1> QED
  BY <1>4 DEF CachedMap

\* A new key: the evicted keys are forgotten and the new value is mapped.
LEMMA InsertNewRefines ==
  ASSUME IInv, IInv', NEW t \in Thread, NEW k \in Key, NEW v \in Value, NEW c \in Charges,
         Ready(t), NEW h \in Handle, heap[h] = None,
         NEW e, e = [key |-> k, val |-> v, charge |-> c, refs |-> 0, inCache |-> TRUE],
         NEW E, E = EvictFromLRU(c),
         FindPointer(k) \cap TableRemove(E) = {},
         InsertNew(t, h, e, E)
  PROVE  Map!Insert(t, k, v)
<1> USE CacheAssumption
<1> DEFINE n == [e EXCEPT !.refs = 1]
           D == {heap[g].key : g \in E}
<1>1. n \in Entry /\ n.key = k /\ n.val = v
  <2>1. e \in Entry /\ e.key = k /\ e.val = v
    BY NewEntry, Zenon
  <2> QED
    BY <2>1, EntryRefs, Zenon
<1>2. /\ heap' = [heap EXCEPT ![h] = n]
      /\ table' = (table \ E) \cup {h}
      /\ held' = [held EXCEPT ![t] = h]
  BY EvictedFacts DEF InsertNew, n
<1> HIDE DEF n
<1>3. heap'[h] = n /\ \A x \in Handle : x # h => heap'[x] = heap[x]
  BY <1>1, <1>2, Zenon DEF IInv, TypeOK
<1>4. E \subseteq table /\ \A g \in table \ E : heap[g].key # k
  BY EvictedFacts, Zenon DEF FindPointer
<1>5. h \notin table /\ \A u \in Thread : held[u] # h
  BY FreshFacts, Zenon
<1>6. \A g \in table \ E : g \in Handle /\ heap'[g] = heap[g]
  BY <1>3, <1>5, Zenon DEF IInv, TypeOK
<1>7. MapsTable /\ MapsTable'
  <2>1. (IInv => MapsTable)'
    BY CachedMapFacts, PTL
  <2> QED
    BY <2>1, CachedMapFacts
<1>8. PinnedEntries[t] = None
  BY Zenon DEF Ready, PinnedEntries
<1>9. CachedMap'[k] = v
  <2>1. h \in table' /\ heap'[h].key = k /\ heap'[h].val = v
    BY <1>1, <1>2, <1>3
  <2> QED
    BY <2>1, <1>7, MapsNext, Zenon
<1>10. CachedMap[k] = None \/ k \in D
  <2>1. CASE \E g \in table : heap[g].key = k
    BY <2>1, <1>4, Zenon
  <2>2. CASE \A g \in table : heap[g].key # k
    BY <2>2, <1>7, Zenon DEF MapsTable
  <2> QED
    BY <2>1, <2>2, Zenon
<1>11. ASSUME NEW x \in Key, x # k, x \in D PROVE CachedMap'[x] = None
  <2>1. PICK g \in E : heap[g].key = x
    BY <1>11
  <2>2. \A f \in table \ E : heap[f].key # x
    BY <2>1, <1>4 DEF IInv, TableMatchesList
  <2>3. \A f \in table' : heap'[f].key # x
    BY <2>2, <1>1, <1>2, <1>3, <1>6, <1>11, Zenon
  <2> QED
    BY <2>3, <1>7, Zenon DEF MapsTable
<1>12. ASSUME NEW x \in Key, x # k, x \notin D PROVE CachedMap'[x] = CachedMap[x]
  <2>1. CASE \E g \in table : heap[g].key = x
    <3>1. PICK g \in table : heap[g].key = x
      BY <2>1, Zenon
    <3>2. g \in table \ E
      BY <3>1, <1>12, Zenon
    <3>3. g \in table' /\ heap'[g].key = x /\ heap'[g].val = heap[g].val
      BY <3>1, <3>2, <1>2, <1>6
    <3>4. CachedMap[x] = heap[g].val
      BY <3>1, <1>7, MapsNow, Zenon
    <3> QED
      BY <3>3, <3>4, <1>7, MapsNext, Zenon
  <2>2. CASE \A g \in table : heap[g].key # x
    <3>1. \A g \in table' : heap'[g].key # x
      BY <2>2, <1>1, <1>2, <1>3, <1>6, <1>12, Zenon
    <3> QED
      BY <3>1, <2>2, <1>7, Zenon DEF MapsTable
  <2> QED
    BY <2>1, <2>2, Zenon
<1>13. CachedMap' = [x \in Key |->
                 IF x = k THEN (IF CachedMap[k] = None \/ k \in D THEN v ELSE CachedMap[k])
                 ELSE IF x \in D THEN None ELSE CachedMap[x]]
  <2>1. CachedMap' = [x \in Key |-> CachedMap'[x]]
    BY MapExt
  <2> HIDE DEF D
  <2> QED
    BY <2>1, <1>9, <1>10, <1>11, <1>12, Zenon
<1>14. D \in SUBSET Key
  BY <1>4, <1>7, Zenon DEF MapsTable
<1>15. PinnedEntries' = [PinnedEntries EXCEPT ![t] = [key |-> k, val |-> CachedMap'[k]]]
  <2>1. held'[t] = h /\ \A u \in Thread : u # t => held'[u] = held[u]
    BY <1>2 DEF IInv, TypeOK
  <2>2. PinnedEntries'[t] = [key |-> k, val |-> CachedMap'[k]]
    BY <2>1, <1>1, <1>3, <1>9, Zenon DEF PinnedEntries
  <2>3. ASSUME NEW u \in Thread, u # t PROVE PinnedEntries'[u] = PinnedEntries[u]
    <3>1. held[u] # None => heap'[held[u]] = heap[held[u]]
      BY <1>3, <1>5 DEF IInv, TypeOK
    <3> QED
      BY <2>1, <2>3, <3>1, PinFrame, Zenon
  <2>4. PinnedEntries' = [u \in Thread |-> PinnedEntries'[u]]
    BY PinExt
  <2>5. PinnedEntries = [u \in Thread |-> PinnedEntries[u]]
    BY PinExt
  <2> QED
    BY <2>2, <2>3, <2>4, <2>5
<1> HIDE DEF D
<1> QED
  BY <1>8, <1>13, <1>14, <1>15, Zenon DEF Map!Insert

\* A key that is cached: the evicted keys are forgotten, the key keeps its value.
LEMMA InsertExistingRefines ==
  ASSUME IInv, IInv', NEW t \in Thread, NEW k \in Key, NEW v \in Value, NEW c \in Charges,
         Ready(t), NEW h \in Handle, heap[h] = None,
         NEW e, NEW E, E = EvictFromLRU(c),
         NEW o \in FindPointer(k) \cap TableRemove(E),
         InsertExisting(t, h, e, E, o)
  PROVE  Map!Insert(t, k, v)
<1> USE CacheAssumption
<1> DEFINE D == {heap[g].key : g \in E}
<1>0. /\ E \subseteq table
      /\ o \in table /\ o \in Handle /\ o \notin E /\ heap[o] \in Entry /\ heap[o].key = k
  <2>1. E \subseteq table /\ o \in table /\ o \notin E /\ heap[o].key = k
    <3>1. E \subseteq table /\ TableRemove(E) = table \ E
      BY EvictedFacts
    <3>2. o \in FindPointer(k) /\ o \in TableRemove(E)
      OBVIOUS
    <3> QED
      BY <3>1, <3>2, Zenon DEF FindPointer
  <2> QED
    BY <2>1, Zenon DEF IInv, TypeOK, NoUseAfterFree
<1>1. heap[o].refs + 1 \in Nat
  BY <1>0 DEF Entry
<1> DEFINE n == [heap[o] EXCEPT !.refs = heap[o].refs + 1]
<1>2. n.key = k /\ n.val = heap[o].val
  BY <1>0, <1>1, EntryRefs
<1>3. /\ heap' = [heap EXCEPT ![h] = e, ![o] = n]
      /\ table' = table \ E
      /\ held' = [held EXCEPT ![t] = o]
  <2>1. heap' = [heap EXCEPT ![h] = e, ![o] = n]
    BY <1>0, Zenon DEF InsertExisting, IInv, TypeOK
  <2> QED
    BY <2>1, EvictedFacts, Zenon DEF InsertExisting
<1> HIDE DEF n
<1>4. heap'[o] = n /\ \A x \in Handle : x # h /\ x # o => heap'[x] = heap[x]
  BY <1>0, <1>3 DEF IInv, TypeOK
<1>5. h \notin table /\ \A u \in Thread : held[u] # h
  BY FreshFacts, Zenon
<1>6. \A x \in Handle : x # h => heap'[x].key = heap[x].key /\ heap'[x].val = heap[x].val
  BY <1>0, <1>2, <1>4, Zenon
<1>7. MapsTable /\ MapsTable'
  <2>1. (IInv => MapsTable)'
    BY CachedMapFacts, PTL
  <2> QED
    BY <2>1, CachedMapFacts
<1>8. PinnedEntries[t] = None
  BY Zenon DEF Ready, PinnedEntries
<1>8a. \A g \in table : g \in Handle /\ heap'[g].key = heap[g].key /\ heap'[g].val = heap[g].val
  BY <1>5, <1>6 DEF IInv, TypeOK
<1>9. CachedMap[k] = heap[o].val /\ CachedMap[k] # None /\ CachedMap'[k] = CachedMap[k]
  <2>1. CachedMap[k] = heap[o].val /\ heap[o].val \in Value
    BY <1>0, <1>7, Zenon DEF MapsTable
  <2>2. o \in table' /\ heap'[o].key = k /\ heap'[o].val = heap[o].val
    BY <1>0, <1>3, <1>8a, Zenon
  <2>3. CachedMap'[k] = heap[o].val
    BY <2>2, <1>7 DEF MapsTable
  <2> QED
    BY <2>1, <2>3, Zenon
<1>10. k \notin D
  BY <1>0 DEF IInv, TableMatchesList
<1>11. ASSUME NEW x \in Key, x \in D PROVE CachedMap'[x] = None
  <2>1. PICK g \in E : heap[g].key = x
    BY <1>11
  <2>2. \A f \in table \ E : heap[f].key # x
    BY <2>1, <1>0, Zenon DEF IInv, TableMatchesList
  <2>3. \A f \in table' : heap'[f].key # x
    BY <2>2, <1>3, <1>8a, Zenon
  <2> QED
    BY <2>3, <1>7, Zenon DEF MapsTable
<1>12. ASSUME NEW x \in Key, x \notin D PROVE CachedMap'[x] = CachedMap[x]
  <2>1. CASE \E g \in table : heap[g].key = x
    <3>1. PICK g \in table : heap[g].key = x
      BY <2>1
    <3>2. g \in table' /\ heap'[g].key = x /\ heap'[g].val = heap[g].val
      BY <3>1, <1>3, <1>8a, <1>12, Zenon
    <3>3. CachedMap[x] = heap[g].val
      BY <3>1, <1>7, MapsNow, Zenon
    <3> QED
      BY <3>2, <3>3, <1>7, MapsNext, Zenon
  <2>2. CASE \A g \in table : heap[g].key # x
    <3>1. \A g \in table' : heap'[g].key # x
      BY <2>2, <1>3, <1>8a, Zenon
    <3> QED
      BY <3>1, <2>2, <1>7, Zenon DEF MapsTable
  <2> QED
    BY <2>1, <2>2, Zenon
<1>13. CachedMap' = [x \in Key |->
                 IF x = k THEN (IF CachedMap[k] = None \/ k \in D THEN v ELSE CachedMap[k])
                 ELSE IF x \in D THEN None ELSE CachedMap[x]]
  <2>1. CachedMap' = [x \in Key |-> CachedMap'[x]]
    BY MapExt
  <2> HIDE DEF D
  <2> QED
    BY <2>1, <1>9, <1>10, <1>11, <1>12, Zenon
<1>14. D \in SUBSET Key
  BY <1>0, <1>7 DEF MapsTable
<1>15. PinnedEntries' = [PinnedEntries EXCEPT ![t] = [key |-> k, val |-> CachedMap'[k]]]
  <2>1. held'[t] = o /\ \A u \in Thread : u # t => held'[u] = held[u]
    BY <1>3 DEF IInv, TypeOK
  <2>2. PinnedEntries'[t] = [key |-> k, val |-> CachedMap'[k]]
    BY <2>1, <1>0, <1>8a, <1>9 DEF PinnedEntries
  <2>3. ASSUME NEW u \in Thread, u # t PROVE PinnedEntries'[u] = PinnedEntries[u]
    <3>1. held[u] # None => /\ heap'[held[u]].key = heap[held[u]].key
                            /\ heap'[held[u]].val = heap[held[u]].val
      BY <1>5, <1>6 DEF IInv, TypeOK
    <3> QED
      BY <2>1, <2>3, <3>1, PinFrame, Zenon
  <2>4. PinnedEntries' = [u \in Thread |-> PinnedEntries'[u]]
    BY PinExt
  <2>5. PinnedEntries = [u \in Thread |-> PinnedEntries[u]]
    BY PinExt
  <2> QED
    BY <2>2, <2>3, <2>4, <2>5, Zenon
<1> HIDE DEF D
<1> QED
  BY <1>8, <1>13, <1>14, <1>15, Zenon DEF Map!Insert

\* Freeing what was evicted is invisible.
LEMMA FreeRefines ==
  ASSUME IInv, NEW t \in Thread, Free(t)
  PROVE  UNCHANGED <<CachedMap, PinnedEntries>>
<1> USE CacheAssumption
<1>1. PICK h \in todo[t] : heap' = [heap EXCEPT ![h] = None]
  BY Zenon DEF Free
<1>2. table' = table /\ held' = held
  BY DEF Free
<1>3. h \in Handle /\ h \notin table /\ \A u \in Thread : held[u] # h
  BY DEF IInv, TypeOK, NoUseAfterFree
<1>4. \A x \in Handle : x # h => heap'[x] = heap[x]
  BY <1>1, Zenon DEF IInv, TypeOK
<1>5. \A x \in table : heap'[x] = heap[x]
  BY <1>3, <1>4, Zenon DEF IInv, TypeOK
<1>6. CachedMap' = CachedMap
  BY <1>2, <1>5, MapFrame, Zenon
<1>7. \A u \in Thread : held[u] # None => heap'[held[u]] = heap[held[u]]
  BY <1>3, <1>4, Zenon DEF IInv, TypeOK
<1>8. \A u \in Thread : PinnedEntries'[u] = PinnedEntries[u]
  BY <1>2, <1>7, PinFrame, Zenon
<1>9. PinnedEntries' = PinnedEntries
  BY <1>8 DEF PinnedEntries
<1> QED
  BY <1>6, <1>9, Zenon

LEMMA LookupRefines ==
  ASSUME IInv, NEW t \in Thread, NEW k \in Key, Lookup(t, k)
  PROVE  Map!Lookup(t, k)
<1> USE CacheAssumption
<1>1. PICK h \in FindPointer(k) :
        /\ heap' = [heap EXCEPT ![h].refs = @ + 1]
        /\ held' = [held EXCEPT ![t] = h]
  BY Zenon DEF Lookup
<1>2. table' = table /\ held[t] = None
  BY DEF Lookup, Ready
<1>3. h \in table /\ h \in Handle /\ heap[h] \in Entry /\ heap[h].key = k
  BY DEF FindPointer, IInv, TableMatchesList, TypeOK, NoUseAfterFree
<1>4. heap[h].refs + 1 \in Nat
  BY <1>3 DEF Entry
<1>5. \A x \in Handle : heap'[x].key = heap[x].key /\ heap'[x].val = heap[x].val
  <2> DEFINE n == [heap[h] EXCEPT !.refs = heap[h].refs + 1]
  <2>1. n.key = heap[h].key /\ n.val = heap[h].val
    BY <1>3, <1>4, EntryRefs
  <2>2. heap' = [heap EXCEPT ![h] = n]
    BY <1>1, Zenon
  <2> HIDE DEF n
  <2> QED
    BY <2>1, <2>2 DEF IInv, TypeOK
<1>6. CachedMap' = CachedMap
  BY <1>2, <1>5, MapFrame, Zenon DEF IInv, TypeOK
<1>7. CachedMap[k] = heap[h].val /\ CachedMap[k] # None
  BY <1>3, CachedMapFacts DEF MapsTable
<1>8. held'[t] = h /\ \A u \in Thread : u # t => held'[u] = held[u]
  BY <1>1, Zenon DEF IInv, TypeOK
<1>9. PinnedEntries'[t] = [key |-> k, val |-> CachedMap[k]]
  BY <1>3, <1>5, <1>7, <1>8 DEF PinnedEntries
<1>10. ASSUME NEW u \in Thread, u # t PROVE PinnedEntries'[u] = PinnedEntries[u]
  BY <1>5, <1>8, <1>10, PinFrame, Zenon DEF IInv, TypeOK
<1>11. PinnedEntries' = [PinnedEntries EXCEPT ![t] = [key |-> k, val |-> CachedMap[k]]]
  <2>1. PinnedEntries' = [u \in Thread |-> PinnedEntries'[u]]
    BY PinExt
  <2>2. PinnedEntries = [u \in Thread |-> PinnedEntries[u]]
    BY PinExt
  <2> QED
    BY <2>1, <2>2, <1>9, <1>10
<1>12. PinnedEntries[t] = None
  BY <1>2, Zenon DEF PinnedEntries
<1> QED
  BY <1>6, <1>7, <1>11, <1>12 DEF Map!Lookup

\* Also when the last reference frees an erased entry.
LEMMA ReleaseRefines ==
  ASSUME IInv, IInv', NEW t \in Thread, Release(t)
  PROVE  Map!Release(t)
<1> USE CacheAssumption
<1>1. PICK h \in list : h = held[t]
  BY DEF Release, IInv, NoUseAfterFree
<1>2. held' = [held EXCEPT ![t] = None] /\ table' = table /\ held[t] # None
  BY Zenon DEF Release
<1>3. h \in Handle /\ heap[h] \in Entry
  BY DEF IInv, TypeOK, NoUseAfterFree
<1>4. \A x \in Handle : x # h => heap'[x] = heap[x]
  <2>1. heap' = [heap EXCEPT ![h] = None] \/ heap' = [heap EXCEPT ![h].refs = @ - 1]
    BY <1>1 DEF Release
  <2> QED
    BY <2>1 DEF IInv, TypeOK
<1>5. heap'[h] # None => heap'[h].key = heap[h].key /\ heap'[h].val = heap[h].val
  <2>1. CASE heap' = [heap EXCEPT ![h] = None]
    BY <2>1, <1>3, Zenon DEF IInv, TypeOK
  <2>2. CASE heap' = [heap EXCEPT ![h].refs = @ - 1]
    <3>1. HasRefs(h)
      BY <1>1, RefsPositive DEF IInv
    <3>2. heap[h].refs - 1 \in Nat
      BY <3>1, <1>3 DEF HasRefs, Entry
    <3> DEFINE n == [heap[h] EXCEPT !.refs = heap[h].refs - 1]
    <3>3. n.key = heap[h].key /\ n.val = heap[h].val
      BY <1>3, <3>2, EntryRefs
    <3>4. heap' = [heap EXCEPT ![h] = n]
      BY <2>2, Zenon
    <3> HIDE DEF n
    <3> QED
      BY <3>3, <3>4, <1>3 DEF IInv, TypeOK
  <2> QED
    BY <2>1, <2>2, <1>1, Zenon DEF Release
<1>6. CachedMap' = CachedMap
  <2>1. \A x \in table : heap'[x] # None
    BY <1>2, Zenon DEF IInv, NoUseAfterFree
  <2>2. \A x \in table : heap'[x].key = heap[x].key /\ heap'[x].val = heap[x].val
    BY <2>1, <1>4, <1>5, Zenon DEF IInv, TypeOK
  <2> QED
    BY <2>2, <1>2, MapFrame, Zenon
<1>7. held'[t] = None /\ \A u \in Thread : u # t => held'[u] = held[u]
  BY <1>2, Zenon DEF IInv, TypeOK
<1>8. ASSUME NEW u \in Thread, u # t PROVE PinnedEntries'[u] = PinnedEntries[u]
  <2>1. held[u] # None => held[u] \in Handle /\ heap'[held[u]] # None
    BY <1>7, <1>8, Zenon DEF IInv, TypeOK, NoUseAfterFree
  <2>2. held[u] # None => /\ heap'[held[u]].key = heap[held[u]].key
                          /\ heap'[held[u]].val = heap[held[u]].val
    BY <2>1, <1>4, <1>5
  <2> QED
    BY <2>2, <1>7, <1>8, PinFrame, Zenon
<1>9. PinnedEntries' = [PinnedEntries EXCEPT ![t] = None]
  <2>1. PinnedEntries' = [u \in Thread |-> PinnedEntries'[u]]
    BY PinExt
  <2>2. PinnedEntries = [u \in Thread |-> PinnedEntries[u]]
    BY PinExt
  <2>3. PinnedEntries'[t] = None
    BY <1>7 DEF PinnedEntries
  <2> QED
    BY <2>1, <2>2, <2>3, <1>8, Zenon
<1>10. PinnedEntries[t] # None
  <2>1. heap[h].key \in Key /\ heap[h].val \in Value
    BY <1>3, Zenon DEF Entry
  <2>2. PinnedEntries[t] = [key |-> heap[h].key, val |-> heap[h].val]
    BY <1>1, <1>2, Zenon DEF PinnedEntries
  <2>3. PinnedEntries[t] \in [key : Key, val : Value]
    BY <2>1, <2>2
  <2> QED
    BY <2>3, PinAssumption
<1> QED
  BY <1>6, <1>9, <1>10 DEF Map!Release

LEMMA EraseRefines ==
  ASSUME IInv, IInv', NEW t \in Thread, NEW k \in Key, Erase(t, k)
  PROVE  Map!Erase(k)
<1> USE CacheAssumption
<1>1. PICK h \in FindPointer(k) :
        /\ table' = table \ {h}
        /\ heap' = [heap EXCEPT ![h].inCache = FALSE]
  BY Zenon DEF Erase
<1>2. held' = held
  BY Zenon DEF Erase
<1>3. h \in table /\ h \in Handle /\ heap[h] \in Entry /\ heap[h].key = k
  BY Zenon DEF FindPointer, IInv, TypeOK, NoUseAfterFree
<1>4. \A x \in Handle : heap'[x].key = heap[x].key /\ heap'[x].val = heap[x].val
  <2> DEFINE n == [heap[h] EXCEPT !.inCache = FALSE]
  <2>1. n.key = heap[h].key /\ n.val = heap[h].val
    BY <1>3, EntryErased
  <2>2. heap' = [heap EXCEPT ![h] = n]
    BY <1>1
  <2> HIDE DEF n
  <2> QED
    BY <2>1, <2>2 DEF IInv, TypeOK
<1>5. MapsTable /\ MapsTable'
  <2>1. (IInv => MapsTable)'
    BY CachedMapFacts, PTL
  <2> QED
    BY <2>1, CachedMapFacts
<1>6. \A x \in table : x \in Handle /\ heap'[x].key = heap[x].key /\ heap'[x].val = heap[x].val
  BY <1>4 DEF IInv, TypeOK
<1>7. CachedMap'[k] = None
  <2>1. \A x \in table \ {h} : heap[x].key # k
    BY <1>3, Zenon DEF IInv, TableMatchesList
  <2>2. \A x \in table' : heap'[x].key # k
    BY <2>1, <1>1, <1>6, Zenon
  <2> QED
    BY <2>2, <1>5, Zenon DEF MapsTable
<1>8. ASSUME NEW y \in Key, y # k PROVE CachedMap'[y] = CachedMap[y]
  <2>1. CASE \E g \in table : heap[g].key = y
    <3>1. PICK g \in table : heap[g].key = y
      BY <2>1
    <3>2. g \in table' /\ heap'[g].key = y /\ heap'[g].val = heap[g].val
      BY <3>1, <1>1, <1>3, <1>6, <1>8, Zenon
    <3>3. CachedMap[y] = heap[g].val
      BY <3>1, <1>5, MapsNow, Zenon
    <3> QED
      BY <3>2, <3>3, <1>5, MapsNext, Zenon
  <2>2. CASE \A g \in table : heap[g].key # y
    <3>1. \A g \in table' : heap'[g].key # y
      BY <2>2, <1>1, <1>6
    <3> QED
      BY <3>1, <2>2, <1>5, Zenon DEF MapsTable
  <2> QED
    BY <2>1, <2>2
<1>9. CachedMap' = [CachedMap EXCEPT ![k] = None]
  <2>1. CachedMap' = [x \in Key |-> CachedMap'[x]]
    BY MapExt
  <2>2. CachedMap = [x \in Key |-> CachedMap[x]]
    BY MapExt
  <2> QED
    BY <2>1, <2>2, <1>7, <1>8
<1>10. PinnedEntries' = PinnedEntries
  <2>1. \A u \in Thread : PinnedEntries'[u] = PinnedEntries[u]
    BY <1>2, <1>4, PinFrame, Zenon DEF IInv, TypeOK
  <2> QED
    BY <2>1 DEF PinnedEntries
<1> QED
  BY <1>9, <1>10 DEF Map!Erase

\* The shard with its deferred frees, reference counts and evictions implements
\* PinnedMap.
THEOREM ShardImplementsMap == Spec => ImplementsPinnedMap
<1>1. Init => Map!Init
  <2> SUFFICES ASSUME Init PROVE Map!Init
    OBVIOUS
  <2>1. \A k \in Key : FindPointer(k) = {}
    BY DEF Init, FindPointer
  <2>2. CachedMap = [k \in Key |-> None]
    BY <2>1 DEF CachedMap
  <2>3. PinnedEntries = [t \in Thread |-> None]
    BY DEF Init, PinnedEntries
  <2> QED
    BY <2>2, <2>3 DEF Map!Init
<1>2. IInv /\ IInv' /\ [Next]_vars => [Map!Next]_<<CachedMap, PinnedEntries>>
  <2> SUFFICES ASSUME IInv, IInv', [Next]_vars
               PROVE  Map!Next \/ UNCHANGED <<CachedMap, PinnedEntries>>
    OBVIOUS
  <2>1. ASSUME NEW t \in Thread, NEW k \in Key, NEW v \in Value, NEW c \in Charges,
               Insert(t, k, v, c)
        PROVE  Map!Insert(t, k, v)
    <3> DEFINE e == [key |-> k, val |-> v, charge |-> c, refs |-> 0, inCache |-> TRUE]
               E == EvictFromLRU(c)
    <3>1. PICK h \in Handle :
            /\ heap[h] = None
            /\ \/ FindPointer(k) \cap TableRemove(E) = {} /\ InsertNew(t, h, e, E)
               \/ \E o \in FindPointer(k) \cap TableRemove(E) : InsertExisting(t, h, e, E, o)
      BY <2>1, Zenon DEF Insert
    <3>2. Ready(t)
      BY <2>1, Zenon DEF Insert
    <3> HIDE DEF e, E
    <3>3. CASE FindPointer(k) \cap TableRemove(E) = {} /\ InsertNew(t, h, e, E)
      BY <3>1, <3>2, <3>3, InsertNewRefines, Zenon DEF e, E
    <3>4. CASE \E o \in FindPointer(k) \cap TableRemove(E) : InsertExisting(t, h, e, E, o)
      BY <3>1, <3>2, <3>4, InsertExistingRefines, Zenon DEF E
    <3> QED
      BY <3>1, <3>3, <3>4
  <2>2. ASSUME NEW c \in Capacities, SetCapacity(c)
        PROVE  UNCHANGED <<CachedMap, PinnedEntries>>
    BY <2>2 DEF SetCapacity, CachedMap, PinnedEntries, FindPointer
  <2>3. CASE UNCHANGED vars
    BY <2>3 DEF vars, CachedMap, PinnedEntries, FindPointer
  <2>4. ASSUME NEW t \in Thread, NEW k \in Key, Lookup(t, k) PROVE Map!Next
    BY <2>4, LookupRefines DEF Map!Next
  <2>5. ASSUME NEW t \in Thread, NEW k \in Key, Erase(t, k) PROVE Map!Next
    BY <2>5, EraseRefines DEF Map!Next
  <2>6. ASSUME NEW t \in Thread, Release(t) PROVE Map!Next
    BY <2>6, ReleaseRefines DEF Map!Next
  <2>7. ASSUME NEW t \in Thread, NEW k \in Key, NEW v \in Value, NEW c \in Charges,
               Insert(t, k, v, c)
        PROVE  Map!Next
    BY <2>7, <2>1 DEF Map!Next
  <2> QED
    BY <2>2, <2>3, <2>4, <2>5, <2>6, <2>7, FreeRefines DEF Next
<1> QED
  BY <1>1, <1>2, Inductive, PTL DEF Spec, ImplementsPinnedMap, Map!Spec, Map!vars
=============================================================================
