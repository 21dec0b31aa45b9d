-------------------------- MODULE CacheShardProofs --------------------------
(***************************************************************************)
(* Proofs about CacheShard, for every set of keys, values, threads and     *)
(* addresses, every capacity and both policies.                            *)
(*                                                                         *)
(* The sums (usage_, and how much EvictFromLRU has to remove) are never    *)
(* looked into: all that is used of EvictFromLRU is that it picks linked   *)
(* entries without references.                                             *)
(***************************************************************************)
EXTENDS CacheShard, FiniteSetTheorems, TLAPS

Holders(h) == {t \in Thread : held[t] = h}

IInv ==
  /\ TypeOK
  /\ NoUseAfterFree
  /\ RefsCountHolders
  /\ TableMatchesList
  /\ NothingLeaks

-----------------------------------------------------------------------------
(* Reference counts.                                                       *)

\* An entry that no caller holds has a count of 0, one that some caller holds
\* does not.
LEMMA RefsPositive ==
  ASSUME TypeOK, RefsCountHolders, NEW h \in list
  PROVE  HasRefs(h) <=> \E t \in Thread : held[t] = h
<1>1. IsFiniteSet(Holders(h))
  BY CacheAssumption, FS_Subset DEF Holders
<1>2. heap[h].refs = Cardinality(Holders(h))
  BY DEF RefsCountHolders, Holders
<1>3. Cardinality(Holders(h)) \in Nat
  BY <1>1, FS_CardinalityType
<1>4. Cardinality(Holders(h)) = 0 <=> Holders(h) = {}
  BY <1>1, FS_EmptySet
<1>5. Holders(h) = {} <=> ~ \E t \in Thread : held[t] = h
  BY DEF Holders
<1> QED
  BY <1>2, <1>3, <1>4, <1>5 DEF HasRefs

\* A thread that takes a handle is one more holder of it.
LEMMA HoldersTake ==
  ASSUME TypeOK, NEW t \in Thread, NEW h \in Handle, held[t] = None,
         held' = [held EXCEPT ![t] = h]
  PROVE  /\ Cardinality(Holders(h)') = Cardinality(Holders(h)) + 1
         /\ \A g \in Handle : g # h => Holders(g)' = Holders(g)
<1>1. IsFiniteSet(Holders(h))
  BY CacheAssumption, FS_Subset DEF Holders
<1>2. t \notin Holders(h)
  BY CacheAssumption DEF Holders
<1>3. Holders(h)' = Holders(h) \cup {t}
  BY DEF Holders, TypeOK
<1>4. \A g \in Handle : g # h => Holders(g)' = Holders(g)
  BY CacheAssumption DEF Holders, TypeOK
<1> QED
  BY <1>1, <1>2, <1>3, <1>4, FS_AddElement, Zenon

\* A thread that releases its handle is one holder less.
LEMMA HoldersDrop ==
  ASSUME TypeOK, NEW t \in Thread, NEW h \in Handle, held[t] = h,
         held' = [held EXCEPT ![t] = None]
  PROVE  /\ Cardinality(Holders(h)') = Cardinality(Holders(h)) - 1
         /\ \A g \in Handle : g # h => Holders(g)' = Holders(g)
<1>1. IsFiniteSet(Holders(h))
  BY CacheAssumption, FS_Subset DEF Holders
<1>2. t \in Holders(h)
  BY DEF Holders
<1>3. Holders(h)' = Holders(h) \ {t}
  BY CacheAssumption DEF Holders, TypeOK
<1>4. \A g \in Handle : g # h => Holders(g)' = Holders(g)
  BY CacheAssumption DEF Holders, TypeOK
<1> QED
  BY <1>1, <1>2, <1>3, <1>4, FS_RemoveElement, Zenon

-----------------------------------------------------------------------------
(* Entries.                                                                *)

\* An entry whose count changes is an entry with the same other fields.
LEMMA EntryRefs ==
  ASSUME NEW e \in Entry, NEW n \in Nat
  PROVE  /\ [e EXCEPT !.refs = n] \in Entry
         /\ [e EXCEPT !.refs = n].refs = n
         /\ [e EXCEPT !.refs = n].key = e.key
         /\ [e EXCEPT !.refs = n].val = e.val
         /\ [e EXCEPT !.refs = n].inCache = e.inCache
BY DEF Entry

\* So is one that is marked as erased.
LEMMA EntryErased ==
  ASSUME NEW e \in Entry
  PROVE  /\ [e EXCEPT !.inCache = FALSE] \in Entry
         /\ [e EXCEPT !.inCache = FALSE].refs = e.refs
         /\ [e EXCEPT !.inCache = FALSE].key = e.key
         /\ [e EXCEPT !.inCache = FALSE].val = e.val
         /\ [e EXCEPT !.inCache = FALSE].inCache = FALSE
BY Zenon DEF Entry

\* The entry Insert allocates.
LEMMA NewEntry ==
  ASSUME NEW k \in Key, NEW v \in Value, NEW c \in Charges, NEW e,
         e = [key |-> k, val |-> v, charge |-> c, refs |-> 0, inCache |-> TRUE]
  PROVE  e \in Entry /\ e.key = k /\ e.val = v /\ e.refs = 0 /\ e.inCache = TRUE
BY DEF Entry

\* Evicted entries are linked and without references; removing them from the
\* table by key removes them and nothing else.
LEMMA EvictedFacts ==
  ASSUME IInv, NEW c, NEW E, E = EvictFromLRU(c)
  PROVE  /\ E \subseteq table
         /\ E \subseteq list
         /\ \A h \in E : ~HasRefs(h) /\ heap[h] # None
         /\ \A h \in E, u \in Thread : held[u] # h /\ h \notin todo[u]
         /\ TableRemove(E) = table \ E
<1>1. E \subseteq list /\ \A h \in E : ~HasRefs(h)
  BY DEF EvictFromLRU
<1>2. E \subseteq table
  BY <1>1 DEF IInv, TableMatchesList
<1>3. \A h \in E, u \in Thread : held[u] # h
  BY <1>1, RefsPositive DEF IInv
<1>4. \A h \in E : heap[h] # None /\ \A u \in Thread : h \notin todo[u]
  BY <1>1 DEF IInv, NoUseAfterFree
<1>5. TableRemove(E) = table \ E
  <2>1. \A g \in table, h \in E : heap[g].key = heap[h].key => g = h
    BY <1>2 DEF IInv, TableMatchesList
  <2> QED
    BY <1>2, <2>1 DEF TableRemove
<1> QED
  BY <1>1, <1>2, <1>3, <1>4, <1>5

\* A free address is nowhere in the shard.
LEMMA FreshFacts ==
  ASSUME IInv, NEW h \in Handle, heap[h] = None
  PROVE  /\ h \notin list /\ h \notin table
         /\ \A u \in Thread : held[u] # h /\ h \notin todo[u]
         /\ Holders(h) = {}
BY CacheAssumption DEF IInv, NoUseAfterFree, Holders

\* The order stays one of addresses.
LEMMA OrderType ==
  ASSUME older \in SUBSET (Handle \X Handle), list \in SUBSET Handle,
         NEW S, NEW T, NEW h \in Handle
  PROVE  /\ LRU_Remove(S) \subseteq Handle \X Handle
         /\ LRU_Insert(LRU_Remove(S), list \ T, h) \subseteq Handle \X Handle
<1>1. LRU_Remove(S) \subseteq Handle \X Handle
  BY DEF LRU_Remove
<1>2. (list \ T) \X {h} \subseteq Handle \X Handle
  OBVIOUS
<1> QED
  BY <1>1, <1>2 DEF LRU_Insert

-----------------------------------------------------------------------------
(* Every action preserves the invariant.                                   *)

LEMMA InsertNewInv ==
  ASSUME IInv, NEW t \in Thread, NEW k \in Key, NEW v \in Value, NEW c \in Charges,
         Ready(t), NEW h \in Handle, heap[h] = None,
         NEW e, e = [key |-> k, val |-> v, charge |-> c, refs |-> 0, inCache |-> TRUE],
         NEW E, E = EvictFromLRU(c),
         FindPointer(k) \cap TableRemove(E) = {},
         InsertNew(t, h, e, E), capacity' = capacity
  PROVE  IInv'
<1> USE CacheAssumption
<1>e. e \in Entry /\ e.key = k /\ e.refs = 0 /\ e.inCache = TRUE
  BY NewEntry, Zenon
<1>n. DEFINE n == [e EXCEPT !.refs = 1]
<1>1. n \in Entry /\ n.refs = 1 /\ n.key = k /\ n.inCache = TRUE
  BY <1>e, EntryRefs, Zenon
<1> HIDE DEF n
<1>2. /\ heap' = [heap EXCEPT ![h] = n]
      /\ table' = (table \ E) \cup {h}
      /\ list' = (list \ E) \cup {h}
      /\ held' = [held EXCEPT ![t] = h]
      /\ todo' = [todo EXCEPT ![t] = E]
  BY EvictedFacts DEF InsertNew, n
<1>3. /\ E \subseteq table /\ E \subseteq list
      /\ \A x \in E : heap[x] # None
      /\ \A x \in E, u \in Thread : held[u] # x /\ x \notin todo[u]
  BY EvictedFacts
<1>4. /\ h \notin list /\ h \notin table
      /\ \A u \in Thread : held[u] # h /\ h \notin todo[u]
      /\ Holders(h) = {}
  BY FreshFacts
<1>5. held[t] = None /\ todo[t] = {}
  BY DEF Ready
<1>6. heap'[h] = n /\ n # None /\ \A x \in Handle : x # h => heap'[x] = heap[x]
  BY <1>1, <1>2 DEF IInv, TypeOK
<1>7. held'[t] = h /\ todo'[t] = E /\ \A u \in Thread : u # t => held'[u] = held[u] /\ todo'[u] = todo[u]
  BY <1>2 DEF IInv, TypeOK
<1>8. TypeOK'
  <2>1. older' \subseteq Handle \X Handle
    BY OrderType, Zenon DEF IInv, TypeOK, InsertNew
  <2>2. heap' \in [Handle -> Entry \cup {None}]
    BY <1>1, <1>2 DEF IInv, TypeOK
  <2>3. held' \in [Thread -> Handle \cup {None}] /\ todo' \in [Thread -> SUBSET Handle]
    BY <1>2, <1>3 DEF IInv, TypeOK
  <2> QED
    BY <1>2, <2>1, <2>2, <2>3 DEF IInv, TypeOK
<1>9. NoUseAfterFree'
  <2>1. \A x \in (table \cup list)' : heap'[x] # None
    BY <1>2, <1>6 DEF IInv, NoUseAfterFree, TypeOK
  <2>2. \A u \in Thread : held'[u] # None => heap'[held'[u]] # None /\ held'[u] \in list'
    BY <1>2, <1>3, <1>6, <1>7 DEF IInv, NoUseAfterFree, TypeOK
  <2>3. \A x \in todo'[t] :
          /\ heap'[x] # None
          /\ x \notin (table \cup list)'
          /\ \A w \in Thread : held'[w] # x /\ (w # t => x \notin todo'[w])
    BY <1>2, <1>3, <1>4, <1>6, <1>7 DEF IInv, TypeOK
  <2>4. \A u \in Thread : u # t => \A x \in todo'[u] :
          /\ heap'[x] # None
          /\ x \notin (table \cup list)'
          /\ \A w \in Thread : held'[w] # x /\ (w # u => x \notin todo'[w])
    <3> SUFFICES ASSUME NEW u \in Thread, u # t, NEW x \in todo[u]
                 PROVE  /\ heap'[x] # None
                        /\ x \notin (table \cup list)'
                        /\ \A w \in Thread : held'[w] # x /\ (w # u => x \notin todo'[w])
      BY <1>7
    <3>1. x \in Handle /\ x # h /\ x \notin E
      BY <1>3, <1>4 DEF IInv, TypeOK
    <3>2. /\ heap[x] # None
          /\ x \notin table \cup list
          /\ \A w \in Thread : held[w] # x /\ (w # u => x \notin todo[w])
      BY DEF IInv, NoUseAfterFree
    <3> QED
      BY <3>1, <3>2, <1>2, <1>6, <1>7
  <2> QED
    BY <2>1, <2>2, <2>3, <2>4 DEF NoUseAfterFree
<1>10. RefsCountHolders'
  <2>1. Cardinality(Holders(h)') = 1 /\ \A g \in Handle : g # h => Holders(g)' = Holders(g)
    <3>1. Cardinality(Holders(h)) = 0
      BY <1>4, FS_EmptySet
    <3>2. TypeOK /\ held[t] = None /\ held' = [held EXCEPT ![t] = h]
      BY <1>2, <1>5 DEF IInv
    <3>3. /\ Cardinality(Holders(h)') = Cardinality(Holders(h)) + 1
          /\ \A g \in Handle : g # h => Holders(g)' = Holders(g)
      BY <3>2, HoldersTake, Zenon
    <3> QED
      BY <3>1, <3>3
  <2>2. \A g \in list : heap[g].refs = Cardinality(Holders(g))
    BY DEF IInv, RefsCountHolders, Holders
  <2>3. \A g \in list' : heap'[g].refs = Cardinality(Holders(g)')
    BY <2>1, <2>2, <1>1, <1>2, <1>4, <1>6 DEF IInv, TypeOK
  <2> QED
    BY <2>3 DEF RefsCountHolders, Holders
<1>11. TableMatchesList'
  <2>1. \A g \in table \ E : heap[g].key # k
    BY EvictedFacts DEF FindPointer
  <2>2. \A g \in list' : g # h => g \in list /\ g \notin E /\ heap'[g] = heap[g] /\ HasRefs(g)' = HasRefs(g)
    BY <1>2, <1>6 DEF IInv, TypeOK, HasRefs
  <2>3. (table \subseteq list)'
    BY <1>2, Zenon DEF IInv, TableMatchesList
  <2>4. \A f, g \in table' : heap'[f].key = heap'[g].key => f = g
    BY <1>1, <1>2, <1>6, <2>1, <2>2, <2>3 DEF IInv, TableMatchesList
  <2>5. \A g \in list' : heap'[g].inCache <=> g \in table'
    BY <1>1, <1>2, <1>6, <2>2 DEF IInv, TableMatchesList
  <2>6. \A g \in list' \ table' : HasRefs(g)'
    BY <1>2, <2>2, Zenon DEF IInv, TableMatchesList
  <2> QED
    BY <2>3, <2>4, <2>5, <2>6 DEF TableMatchesList
<1>12. NothingLeaks'
  <2> SUFFICES ASSUME NEW x \in Handle, heap'[x] # None
               PROVE  x \in list' \/ \E u \in Thread : x \in todo'[u]
    BY DEF NothingLeaks
  <2>1. CASE x = h
    BY <2>1, <1>2
  <2>2. CASE x # h /\ x \in list
    BY <2>2, <1>2, <1>7, Zenon
  <2>3. CASE x # h /\ x \notin list
    <3>1. PICK u \in Thread : x \in todo[u]
      BY <2>3, <1>6 DEF IInv, NothingLeaks
    <3> QED
      BY <3>1, <1>5, <1>7, Zenon
  <2> QED
    BY <2>1, <2>2, <2>3
<1> QED
  BY <1>8, <1>9, <1>10, <1>11, <1>12 DEF IInv

LEMMA InsertExistingInv ==
  ASSUME IInv, NEW t \in Thread, NEW k \in Key, NEW v \in Value, NEW c \in Charges,
         Ready(t), NEW h \in Handle, heap[h] = None,
         NEW e, e = [key |-> k, val |-> v, charge |-> c, refs |-> 0, inCache |-> TRUE],
         NEW E, E = EvictFromLRU(c),
         NEW o \in FindPointer(k) \cap TableRemove(E),
         InsertExisting(t, h, e, E, o), capacity' = capacity
  PROVE  IInv'
<1> USE CacheAssumption
<1>e. e \in Entry /\ e.inCache = TRUE
  BY NewEntry, Zenon
<1>0. o \in table /\ o \in list /\ o \in Handle /\ o \notin E /\ heap[o] \in Entry
  <2>1. o \in table /\ o \in list /\ o \notin E
    BY EvictedFacts DEF FindPointer, IInv, TableMatchesList
  <2> QED
    BY <2>1 DEF IInv, TypeOK, NoUseAfterFree
<1>h. heap[o].refs \in Nat /\ heap[o].refs + 1 \in Nat
  BY <1>0 DEF Entry
<1> DEFINE n == [heap[o] EXCEPT !.refs = heap[o].refs + 1]
<1>1. /\ n \in Entry /\ n.refs = heap[o].refs + 1
      /\ n.key = heap[o].key /\ n.inCache = heap[o].inCache
  BY <1>0, <1>h, EntryRefs
<1>2. /\ heap' = [heap EXCEPT ![h] = e, ![o] = n]
      /\ table' = table \ E
      /\ list' = list \ E
      /\ held' = [held EXCEPT ![t] = o]
      /\ todo' = [todo EXCEPT ![t] = E \cup {h}]
  <2>1. h # o
    BY <1>0
  <2>2. heap' = [heap EXCEPT ![h] = e, ![o] = n]
    BY <2>1, <1>0, Zenon DEF InsertExisting, IInv, TypeOK
  <2> QED
    BY <2>2, EvictedFacts, Zenon DEF InsertExisting
<1> HIDE DEF n
<1>3. /\ E \subseteq table /\ E \subseteq list
      /\ \A x \in E : heap[x] # None
      /\ \A x \in E, u \in Thread : held[u] # x /\ x \notin todo[u]
  BY EvictedFacts
<1>4. /\ h \notin list /\ h \notin table
      /\ \A u \in Thread : held[u] # h /\ h \notin todo[u]
  BY FreshFacts, Zenon
<1>5. held[t] = None /\ todo[t] = {}
  BY DEF Ready
<1>6. heap'[h] = e /\ heap'[o] = n /\ \A x \in Handle : x # h /\ x # o => heap'[x] = heap[x]
  BY <1>0, <1>2, <1>4, Zenon DEF IInv, TypeOK
<1>6a. \A x \in Handle : heap'[x] # None <=> (heap[x] # None \/ x = h)
  BY <1>0, <1>1, <1>6, <1>e
<1>6b. \A x \in list : heap'[x].key = heap[x].key /\ heap'[x].inCache = heap[x].inCache
  BY <1>1, <1>4, <1>6 DEF IInv, TypeOK
<1>7. /\ held'[t] = o /\ todo'[t] = E \cup {h}
      /\ \A u \in Thread : u # t => held'[u] = held[u] /\ todo'[u] = todo[u]
  BY <1>2 DEF IInv, TypeOK
<1>8. TypeOK'
  <2>1. older' \subseteq Handle \X Handle
    BY OrderType, Zenon DEF IInv, TypeOK, InsertExisting
  <2>2. heap' \in [Handle -> Entry \cup {None}]
    BY <1>e, <1>1, <1>2, Zenon DEF IInv, TypeOK
  <2>3. held' \in [Thread -> Handle \cup {None}] /\ todo' \in [Thread -> SUBSET Handle]
    BY <1>0, <1>2, <1>3, Zenon DEF IInv, TypeOK
  <2> QED
    BY <1>2, <2>1, <2>2, <2>3, Zenon DEF IInv, TypeOK
<1>9. NoUseAfterFree'
  <2>1. \A x \in (table \cup list)' : heap'[x] # None
    BY <1>2, <1>6a, Zenon DEF IInv, NoUseAfterFree, TypeOK
  <2>2. \A u \in Thread : held'[u] # None => heap'[held'[u]] # None /\ held'[u] \in list'
    BY <1>0, <1>2, <1>3, <1>6a, <1>7 DEF IInv, NoUseAfterFree, TypeOK
  <2>3. \A x \in todo'[t] :
          /\ heap'[x] # None
          /\ x \notin (table \cup list)'
          /\ \A w \in Thread : held'[w] # x /\ (w # t => x \notin todo'[w])
    <3>1. \A x \in E \cup {h} : x \in Handle /\ heap'[x] # None
      BY <1>3, <1>6a DEF IInv, TypeOK
    <3>2. \A x \in E \cup {h} : x \notin (table \cup list)'
      BY <1>2, <1>4, Zenon
    <3>3. \A x \in E \cup {h}, w \in Thread : held'[w] # x
      BY <1>0, <1>3, <1>4, <1>7, Zenon
    <3>4. \A x \in E \cup {h}, w \in Thread : w # t => x \notin todo'[w]
      BY <1>3, <1>4, <1>7
    <3> QED
      BY <3>1, <3>2, <3>3, <3>4, <1>7, Zenon
  <2>4. \A u \in Thread : u # t => \A x \in todo'[u] :
          /\ heap'[x] # None
          /\ x \notin (table \cup list)'
          /\ \A w \in Thread : held'[w] # x /\ (w # u => x \notin todo'[w])
    <3> SUFFICES ASSUME NEW u \in Thread, u # t, NEW x \in todo[u]
                 PROVE  /\ heap'[x] # None
                        /\ x \notin (table \cup list)'
                        /\ \A w \in Thread : held'[w] # x /\ (w # u => x \notin todo'[w])
      BY <1>7
    <3>1. x \in Handle /\ x # h /\ x \notin E
      BY <1>3, <1>4 DEF IInv, TypeOK
    <3>2. /\ heap[x] # None
          /\ x \notin table \cup list
          /\ \A w \in Thread : held[w] # x /\ (w # u => x \notin todo[w])
      BY DEF IInv, NoUseAfterFree
    <3>3. \A w \in Thread : held'[w] # x
      BY <3>2, <1>0, <1>7
    <3>4. \A w \in Thread : w # u => x \notin todo'[w]
      BY <3>1, <3>2, <1>7
    <3>5. heap'[x] # None /\ x \notin (table \cup list)'
      BY <3>1, <3>2, <1>2, <1>6a, Zenon
    <3> QED
      BY <3>3, <3>4, <3>5
  <2> QED
    BY <2>1, <2>2, <2>3, <2>4, Zenon DEF NoUseAfterFree
<1>10. RefsCountHolders'
  <2>1. TypeOK /\ held[t] = None /\ held' = [held EXCEPT ![t] = o]
    BY <1>2, <1>5 DEF IInv
  <2>2. /\ Cardinality(Holders(o)') = Cardinality(Holders(o)) + 1
        /\ \A g \in Handle : g # o => Holders(g)' = Holders(g)
    BY <1>0, <2>1, HoldersTake, Zenon
  <2>3. \A g \in list : heap[g].refs = Cardinality(Holders(g))
    BY Zenon DEF IInv, RefsCountHolders, Holders
  <2>4. \A g \in list' : g \in list /\ g \in Handle /\ g # h
    BY <1>2, <1>4, Zenon DEF IInv, TypeOK
  <2>5. \A g \in list' : g # o => heap'[g].refs = Cardinality(Holders(g)')
    BY <2>2, <2>3, <2>4, <1>6, Zenon
  <2>6. heap'[o].refs = Cardinality(Holders(o)')
    BY <2>2, <2>3, <1>0, <1>1, <1>6
  <2>7. \A g \in list' : heap'[g].refs = Cardinality(Holders(g)')
    BY <2>5, <2>6, Zenon
  <2> QED
    BY <2>7 DEF RefsCountHolders, Holders
<1>11. TableMatchesList'
  <2>1. (table \subseteq list)'
    BY <1>2 DEF IInv, TableMatchesList
  <2>2. \A f, g \in table' : heap'[f].key = heap'[g].key => f = g
    BY <1>2, <1>6b DEF IInv, TableMatchesList
  <2>3. \A g \in list' : heap'[g].inCache <=> g \in table'
    BY <1>2, <1>6b, Zenon DEF IInv, TableMatchesList
  <2>4. \A g \in list' \ table' : HasRefs(g)'
    <3> SUFFICES ASSUME NEW g \in list' \ table'
                 PROVE  HasRefs(g)'
      OBVIOUS
    <3>1. g \in list /\ g \notin table
      BY <1>2, <1>3, Zenon
    <3>2. heap'[g] = heap[g]
      BY <3>1, <1>0, <1>4, <1>6, Zenon DEF IInv, TypeOK
    <3> QED
      BY <3>1, <3>2 DEF IInv, TableMatchesList, HasRefs
  <2> QED
    BY <2>1, <2>2, <2>3, <2>4 DEF TableMatchesList
<1>12. NothingLeaks'
  <2> SUFFICES ASSUME NEW x \in Handle, heap'[x] # None
               PROVE  x \in list' \/ \E u \in Thread : x \in todo'[u]
    BY Zenon DEF NothingLeaks
  <2>1. CASE x = h
    BY <2>1, <1>7, Zenon
  <2>2. CASE x # h /\ x \in list
    BY <2>2, <1>2, <1>7, Zenon
  <2>3. CASE x # h /\ x \notin list
    <3>1. PICK u \in Thread : x \in todo[u]
      BY <2>3, <1>6a DEF IInv, NothingLeaks
    <3> QED
      BY <3>1, <1>5, <1>7, Zenon
  <2> QED
    BY <2>1, <2>2, <2>3, Zenon
<1> QED
  BY <1>8, <1>9, <1>10, <1>11, <1>12 DEF IInv

LEMMA FreeInv ==
  ASSUME IInv, NEW t \in Thread, Free(t)
  PROVE  IInv'
<1> USE CacheAssumption
<1>1. PICK h \in todo[t] :
        /\ heap' = [heap EXCEPT ![h] = None]
        /\ todo' = [todo EXCEPT ![t] = todo[t] \ {h}]
  BY Zenon DEF Free
<1>2. UNCHANGED <<table, list, older, capacity, held>>
  BY DEF Free
<1>3. /\ h \in Handle /\ h \notin table \cup list
      /\ \A u \in Thread : held[u] # h /\ (u # t => h \notin todo[u])
  BY DEF IInv, TypeOK, NoUseAfterFree
<1>4. heap'[h] = None /\ \A x \in Handle : x # h => heap'[x] = heap[x]
  BY <1>1, <1>3 DEF IInv, TypeOK
<1>5. todo'[t] = todo[t] \ {h} /\ \A u \in Thread : u # t => todo'[u] = todo[u]
  BY <1>1 DEF IInv, TypeOK
<1>6. \A x \in list : x \in Handle /\ heap'[x] = heap[x]
  BY <1>3, <1>4 DEF IInv, TypeOK
<1>7. TypeOK'
  BY <1>1, <1>2 DEF IInv, TypeOK
<1>8. NoUseAfterFree'
  <2>1. \A x \in (table \cup list)' : heap'[x] # None
    BY <1>2, <1>6 DEF IInv, NoUseAfterFree, TableMatchesList
  <2>2. \A u \in Thread : held'[u] # None => heap'[held'[u]] # None /\ held'[u] \in list'
    BY <1>2, <1>6, Zenon DEF IInv, NoUseAfterFree
  <2>3. \A u \in Thread : \A x \in todo'[u] :
          /\ x \in todo[u]
          /\ heap'[x] # None
    BY <1>3, <1>4, <1>5 DEF IInv, NoUseAfterFree, TypeOK
  <2>4. \A u, w \in Thread : \A x \in todo'[u] :
          x \notin table \cup list /\ held[w] # x /\ (w # u => x \notin todo'[w])
    BY <2>3, <1>5, Zenon DEF IInv, NoUseAfterFree
  <2> QED
    BY <1>2, <2>1, <2>2, <2>3, <2>4, Zenon DEF NoUseAfterFree
<1>9. RefsCountHolders'
  BY <1>2, <1>6 DEF IInv, RefsCountHolders
<1>10. TableMatchesList'
  BY <1>2, <1>6 DEF IInv, TableMatchesList, HasRefs
<1>11. NothingLeaks'
  BY <1>2, <1>4, <1>5 DEF IInv, NothingLeaks
<1> QED
  BY <1>7, <1>8, <1>9, <1>10, <1>11 DEF IInv

LEMMA LookupInv ==
  ASSUME IInv, NEW t \in Thread, NEW k \in Key, Lookup(t, k)
  PROVE  IInv'
<1> USE CacheAssumption
<1>1. PICK h \in FindPointer(k) :
        /\ heap' = [heap EXCEPT ![h].refs = @ + 1]
        /\ older' = IF MoveOnLookup
                    THEN LRU_Insert(LRU_Remove({h}), list \ {h}, h)
                    ELSE older
        /\ held' = [held EXCEPT ![t] = h]
  BY Zenon DEF Lookup
<1>2. UNCHANGED <<table, list, capacity, todo>> /\ held[t] = None /\ todo[t] = {}
  BY DEF Lookup, Ready
<1>3. h \in table /\ h \in list /\ h \in Handle /\ heap[h] \in Entry
  BY DEF FindPointer, IInv, TableMatchesList, TypeOK, NoUseAfterFree
<1>4. heap[h].refs \in Nat /\ heap[h].refs + 1 \in Nat
  BY <1>3 DEF Entry
<1> DEFINE n == [heap[h] EXCEPT !.refs = heap[h].refs + 1]
<1>5. /\ n \in Entry /\ n.refs = heap[h].refs + 1
      /\ n.key = heap[h].key /\ n.inCache = heap[h].inCache
  BY <1>3, <1>4, EntryRefs
<1>6. heap' = [heap EXCEPT ![h] = n]
  BY <1>1
<1> HIDE DEF n
<1>7. heap'[h] = n /\ n # None /\ \A x \in Handle : x # h => heap'[x] = heap[x]
  BY <1>3, <1>5, <1>6 DEF IInv, TypeOK
<1>8. held'[t] = h /\ \A u \in Thread : u # t => held'[u] = held[u]
  BY <1>1 DEF IInv, TypeOK
<1>9. \A x \in Handle : heap'[x] # None <=> heap[x] # None
  BY <1>3, <1>7
<1>10. \A x \in list : heap'[x].key = heap[x].key /\ heap'[x].inCache = heap[x].inCache
  BY <1>5, <1>7 DEF IInv, TypeOK
<1>11. TypeOK'
  <2>1. older' \subseteq Handle \X Handle
    BY <1>1, <1>3, OrderType, Zenon DEF IInv, TypeOK
  <2>2. heap' \in [Handle -> Entry \cup {None}]
    BY <1>5, <1>6, Zenon DEF IInv, TypeOK
  <2>3. held' \in [Thread -> Handle \cup {None}]
    BY <1>1, <1>3 DEF IInv, TypeOK
  <2> QED
    BY <1>2, <2>1, <2>2, <2>3 DEF IInv, TypeOK
<1>12. NoUseAfterFree'
  <2>1. \A x \in (table \cup list)' : heap'[x] # None
    BY <1>2, <1>9, Zenon DEF IInv, NoUseAfterFree, TypeOK
  <2>2. \A u \in Thread : held'[u] # None => heap'[held'[u]] # None /\ held'[u] \in list'
    BY <1>2, <1>3, <1>8, <1>9, Zenon DEF IInv, NoUseAfterFree, TypeOK
  <2>3. \A u \in Thread : \A x \in todo'[u] : heap'[x] # None /\ x \notin (table \cup list)'
    BY <1>2, <1>9, Zenon DEF IInv, NoUseAfterFree, TypeOK
  <2>4. \A u, w \in Thread : \A x \in todo'[u] : held'[w] # x /\ (w # u => x \notin todo'[w])
    BY <1>2, <1>3, <1>8 DEF IInv, NoUseAfterFree
  <2> QED
    BY <2>1, <2>2, <2>3, <2>4, Zenon DEF NoUseAfterFree
<1>13. RefsCountHolders'
  <2>1. TypeOK /\ held[t] = None /\ held' = [held EXCEPT ![t] = h]
    BY <1>1, <1>2 DEF IInv
  <2>2. /\ Cardinality(Holders(h)') = Cardinality(Holders(h)) + 1
        /\ \A g \in Handle : g # h => Holders(g)' = Holders(g)
    BY <1>3, <2>1, HoldersTake, Zenon
  <2>3. \A g \in list : heap[g].refs = Cardinality(Holders(g))
    BY Zenon DEF IInv, RefsCountHolders, Holders
  <2>4. \A g \in list' : heap'[g].refs = Cardinality(Holders(g)')
    BY <2>2, <2>3, <1>2, <1>5, <1>7 DEF IInv, TypeOK
  <2> QED
    BY <2>4 DEF RefsCountHolders, Holders
<1>14. TableMatchesList'
  <2>1. \A g \in list' \ table' : HasRefs(g)'
    BY <1>2, <1>3, <1>7, Zenon DEF IInv, TableMatchesList, HasRefs, TypeOK
  <2>2. \A f, g \in table' : heap'[f].key = heap'[g].key => f = g
    BY <1>2, <1>10 DEF IInv, TableMatchesList
  <2>3. (table \subseteq list)' /\ \A g \in list' : heap'[g].inCache <=> g \in table'
    BY <1>2, <1>10 DEF IInv, TableMatchesList
  <2> QED
    BY <2>1, <2>2, <2>3, Zenon DEF TableMatchesList
<1>15. NothingLeaks'
  BY <1>2, <1>9 DEF IInv, NothingLeaks
<1> QED
  BY <1>11, <1>12, <1>13, <1>14, <1>15 DEF IInv

LEMMA ReleaseInv ==
  ASSUME IInv, NEW t \in Thread, Release(t)
  PROVE  IInv'
<1> USE CacheAssumption
<1>0. PICK h \in list : h = held[t]
  BY DEF Release, IInv, NoUseAfterFree
<1>1. /\ held' = [held EXCEPT ![t] = None]
      /\ UNCHANGED <<table, capacity, todo>>
      /\ h # None
  BY <1>0 DEF Release
<1>2. h \in list /\ h \in Handle /\ heap[h] \in Entry
  BY <1>1, Zenon DEF IInv, TypeOK, NoUseAfterFree
<1>3. /\ heap[h].refs = Cardinality(Holders(h))
      /\ heap[h].refs \in Nat
      /\ heap[h].refs > 0
  <2>1. HasRefs(h)
    BY <1>0, RefsPositive DEF IInv
  <2> QED
    BY <2>1, <1>2 DEF IInv, RefsCountHolders, Holders, HasRefs, Entry
<1>4. /\ Cardinality(Holders(h)') = Cardinality(Holders(h)) - 1
      /\ \A g \in Handle : g # h => Holders(g)' = Holders(g)
  <2>1. TypeOK
    BY DEF IInv
  <2> QED
    BY <1>0, <1>1, <1>2, <2>1, HoldersDrop, Zenon
<1>5. held'[t] = None /\ \A u \in Thread : u # t => held'[u] = held[u]
  BY <1>1, Zenon DEF IInv, TypeOK
<1>6. \A g \in list : heap[g].refs = Cardinality(Holders(g))
  BY DEF IInv, RefsCountHolders, Holders
<1>7. held' \in [Thread -> Handle \cup {None}]
  BY <1>1 DEF IInv, TypeOK
<1>8. CASE /\ heap[h].refs = 1 /\ ~heap[h].inCache
           /\ list' = list \ {h}
           /\ older' = LRU_Remove({h})
           /\ heap' = [heap EXCEPT ![h] = None]
  <2>1. h \notin table
    BY <1>2, <1>8 DEF IInv, TableMatchesList
  <2>2. heap'[h] = None /\ \A x \in Handle : x # h => heap'[x] = heap[x]
    BY <1>2, <1>8 DEF IInv, TypeOK
  <2>3. \A x \in list' : x \in list /\ x \in Handle /\ x # h /\ heap'[x] = heap[x]
    BY <1>8, <2>2 DEF IInv, TypeOK
  <2>4. \A u \in Thread : held'[u] # h
    <3>1. IsFiniteSet(Holders(h)')
      BY FS_Subset, Zenon DEF Holders
    <3>2. Cardinality(Holders(h)') = 0
      BY <1>3, <1>4, <1>8
    <3>3. Holders(h)' = {}
      BY <3>1, <3>2, FS_EmptySet
    <3> QED
      BY <3>3 DEF Holders
  <2>5. TypeOK'
    <3>1. older' \subseteq Handle \X Handle
      BY <1>2, <1>8, OrderType, Zenon DEF IInv, TypeOK
    <3>2. heap' \in [Handle -> Entry \cup {None}]
      BY <1>8 DEF IInv, TypeOK
    <3> QED
      BY <1>1, <1>7, <1>8, <3>1, <3>2, Zenon DEF IInv, TypeOK
  <2>6. NoUseAfterFree'
    <3>1. \A x \in (table \cup list)' : heap'[x] # None
      BY <1>1, <2>1, <2>2, <2>3, Zenon DEF IInv, NoUseAfterFree, TypeOK
    <3>2. \A u \in Thread : held'[u] # None => heap'[held'[u]] # None /\ held'[u] \in list'
      BY <1>5, <1>8, <2>2, <2>4, Zenon DEF IInv, NoUseAfterFree, TypeOK
    <3>3. \A u \in Thread : \A x \in todo'[u] :
            x \in Handle /\ x # h /\ heap'[x] # None /\ x \notin (table \cup list)'
      <4>1. \A u \in Thread : \A x \in todo'[u] :
              x \in Handle /\ heap[x] # None /\ x \notin table \cup list
        BY <1>1 DEF IInv, NoUseAfterFree, TypeOK
      <4> QED
        BY <4>1, <1>1, <1>2, <1>8, <2>2
    <3>4. \A u, w \in Thread : \A x \in todo'[u] : held[w] # x /\ (w # u => x \notin todo'[w])
      BY <1>1 DEF IInv, NoUseAfterFree
    <3>5. \A u, w \in Thread : \A x \in todo'[u] : held'[w] # x
      BY <3>3, <3>4, <1>5, Zenon
    <3> QED
      BY <3>1, <3>2, <3>3, <3>4, <3>5, Zenon DEF NoUseAfterFree
  <2>7. RefsCountHolders'
    <3>1. \A g \in list' : heap'[g].refs = Cardinality(Holders(g)')
      BY <1>4, <1>6, <2>3
    <3> QED
      BY <3>1 DEF RefsCountHolders, Holders
  <2>8. TableMatchesList'
    <3>1. (table \subseteq list)'
      BY <1>1, <1>8, <2>1, Zenon DEF IInv, TableMatchesList
    <3>2. \A f, g \in table' : heap'[f].key = heap'[g].key => f = g
      BY <1>1, <2>3, <3>1 DEF IInv, TableMatchesList
    <3>3. \A g \in list' : heap'[g].inCache <=> g \in table'
      BY <1>1, <2>3, Zenon DEF IInv, TableMatchesList
    <3>4. \A g \in list' \ table' : HasRefs(g)'
      BY <1>1, <2>3, Zenon DEF IInv, TableMatchesList, HasRefs
    <3> QED
      BY <3>1, <3>2, <3>3, <3>4, Zenon DEF TableMatchesList
  <2>9. NothingLeaks'
    BY <1>1, <1>8, <2>2, Zenon DEF IInv, NothingLeaks
  <2> QED
    BY <2>5, <2>6, <2>7, <2>8, <2>9, Zenon DEF IInv
<1>9. CASE /\ ~(heap[h].refs = 1 /\ ~heap[h].inCache)
           /\ heap' = [heap EXCEPT ![h].refs = @ - 1]
           /\ UNCHANGED <<list, older>>
  <2> DEFINE n == [heap[h] EXCEPT !.refs = heap[h].refs - 1]
  <2>1. heap[h].refs - 1 \in Nat
    BY <1>3
  <2>2. /\ n \in Entry /\ n.refs = heap[h].refs - 1
        /\ n.key = heap[h].key /\ n.inCache = heap[h].inCache
    BY <1>2, <2>1, EntryRefs
  <2>3. heap' = [heap EXCEPT ![h] = n]
    BY <1>9
  <2> HIDE DEF n
  <2>4. heap'[h] = n /\ n # None /\ \A x \in Handle : x # h => heap'[x] = heap[x]
    BY <1>2, <2>2, <2>3 DEF IInv, TypeOK
  <2>5. \A x \in Handle : heap'[x] # None <=> heap[x] # None
    BY <1>2, <2>4, Zenon
  <2>6. \A x \in list : heap'[x].key = heap[x].key /\ heap'[x].inCache = heap[x].inCache
    BY <2>2, <2>4 DEF IInv, TypeOK
  <2>7. TypeOK'
    <3>1. heap' \in [Handle -> Entry \cup {None}]
      BY <2>2, <2>3, Zenon DEF IInv, TypeOK
    <3> QED
      BY <1>1, <1>7, <1>9, <3>1 DEF IInv, TypeOK
  <2>8. NoUseAfterFree'
    <3>1. \A x \in (table \cup list)' : heap'[x] # None
      BY <1>1, <1>9, <2>5 DEF IInv, NoUseAfterFree, TypeOK
    <3>2. \A u \in Thread : held'[u] # None => heap'[held'[u]] # None /\ held'[u] \in list'
      BY <1>5, <1>9, <2>5 DEF IInv, NoUseAfterFree, TypeOK
    <3>3. \A u \in Thread : \A x \in todo'[u] : x \in Handle /\ heap'[x] # None /\ x \notin (table \cup list)'
      BY <1>1, <1>9, <2>5, Zenon DEF IInv, NoUseAfterFree, TypeOK
    <3>4. \A u, w \in Thread : \A x \in todo'[u] : held'[w] # x /\ (w # u => x \notin todo'[w])
      BY <1>1, <1>5, <3>3 DEF IInv, NoUseAfterFree
    <3> QED
      BY <3>1, <3>2, <3>3, <3>4 DEF NoUseAfterFree
  <2>9. RefsCountHolders'
    <3>1. \A g \in list' : heap'[g].refs = Cardinality(Holders(g)')
      BY <1>3, <1>4, <1>6, <1>9, <2>2, <2>4 DEF IInv, TypeOK
    <3> QED
      BY <3>1 DEF RefsCountHolders, Holders
  <2>10. TableMatchesList'
    <3>1. (table \subseteq list)'
      BY <1>1, <1>9 DEF IInv, TableMatchesList
    <3>2. \A f, g \in table' : heap'[f].key = heap'[g].key => f = g
      BY <1>1, <2>6, <3>1, <1>9 DEF IInv, TableMatchesList
    <3>3. \A g \in list' : heap'[g].inCache <=> g \in table'
      BY <1>1, <1>9, <2>6 DEF IInv, TableMatchesList
    <3>4. \A g \in list' \ table' : HasRefs(g)'
      <4> SUFFICES ASSUME NEW g \in list, g \notin table
                   PROVE  HasRefs(g)'
        BY <1>1, <1>9
      <4>1. CASE g = h
        <5>1. ~heap[h].inCache
          BY <4>1, Zenon DEF IInv, TableMatchesList
        <5> QED
          BY <5>1, <4>1, <1>3, <1>9, <2>2, <2>4 DEF HasRefs
      <4>2. CASE g # h
        BY <4>2, <2>4 DEF IInv, TypeOK, TableMatchesList, HasRefs
      <4> QED
        BY <4>1, <4>2
    <3> QED
      BY <3>1, <3>2, <3>3, <3>4 DEF TableMatchesList
  <2>11. NothingLeaks'
    BY <1>1, <1>9, <2>5 DEF IInv, NothingLeaks
  <2> QED
    BY <2>7, <2>8, <2>9, <2>10, <2>11 DEF IInv
<1> QED
  BY <1>0, <1>8, <1>9 DEF Release

LEMMA EraseInv ==
  ASSUME IInv, NEW t \in Thread, NEW k \in Key, Erase(t, k)
  PROVE  IInv'
<1> USE CacheAssumption
<1>1. PICK h \in FindPointer(k) :
        /\ table' = table \ {h}
        /\ heap' = [heap EXCEPT ![h].inCache = FALSE]
        /\ \/ /\ ~HasRefs(h)
              /\ list' = list \ {h}
              /\ older' = LRU_Remove({h})
              /\ todo' = [todo EXCEPT ![t] = {h}]
           \/ /\ HasRefs(h)
              /\ UNCHANGED <<list, older, todo>>
  BY Zenon DEF Erase
<1>2. UNCHANGED <<capacity, held>> /\ todo[t] = {}
  BY Zenon DEF Erase
<1>3. h \in table /\ h \in list /\ h \in Handle /\ heap[h] \in Entry
  BY DEF FindPointer, IInv, TableMatchesList, TypeOK, NoUseAfterFree
<1>4. \A u \in Thread : h \notin todo[u]
  BY <1>3 DEF IInv, NoUseAfterFree
<1> DEFINE n == [heap[h] EXCEPT !.inCache = FALSE]
<1>5. /\ n \in Entry /\ n.refs = heap[h].refs
      /\ n.key = heap[h].key /\ n.inCache = FALSE
  BY <1>3, EntryErased
<1>6. heap' = [heap EXCEPT ![h] = n]
  BY <1>1
<1> HIDE DEF n
<1>7. heap'[h] = n /\ n # None /\ \A x \in Handle : x # h => heap'[x] = heap[x]
  BY <1>3, <1>5, <1>6, Zenon DEF IInv, TypeOK
<1>8. \A x \in Handle : heap'[x] # None <=> heap[x] # None
  BY <1>3, <1>7
<1>9. \A x \in list : heap'[x].key = heap[x].key /\ heap'[x].refs = heap[x].refs
  BY <1>5, <1>7 DEF IInv, TypeOK
<1>10. heap' \in [Handle -> Entry \cup {None}]
  BY <1>5, <1>6, Zenon DEF IInv, TypeOK
<1>11. list' \subseteq list /\ \A x \in list : x # h => x \in list'
  BY <1>1
<1>12. RefsCountHolders'
  <2>1. \A g \in list' : heap'[g].refs = Cardinality(Holders(g)')
    BY <1>2, <1>9, <1>11, Zenon DEF IInv, RefsCountHolders, Holders
  <2> QED
    BY <2>1 DEF RefsCountHolders, Holders
<1>13. \A f, g \in table' : heap'[f].key = heap'[g].key => f = g
  BY <1>1, <1>9 DEF IInv, TableMatchesList
<1>14. (table \subseteq list)'
  BY <1>1, <1>11 DEF IInv, TableMatchesList
<1>15. \A g \in list' : heap'[g].inCache <=> g \in table'
  BY <1>1, <1>5, <1>7, <1>11, Zenon DEF IInv, TypeOK, TableMatchesList
<1>16. CASE /\ ~HasRefs(h)
            /\ list' = list \ {h}
            /\ older' = LRU_Remove({h})
            /\ todo' = [todo EXCEPT ![t] = {h}]
  <2>1. \A u \in Thread : held[u] # h
    BY <1>3, <1>16, RefsPositive DEF IInv
  <2>2. todo'[t] = {h} /\ \A u \in Thread : u # t => todo'[u] = todo[u]
    BY <1>16 DEF IInv, TypeOK
  <2>3. TypeOK'
    <3>1. older' \subseteq Handle \X Handle
      BY <1>3, <1>16, OrderType, Zenon DEF IInv, TypeOK
    <3>2. todo' \in [Thread -> SUBSET Handle]
      BY <1>3, <1>16 DEF IInv, TypeOK
    <3> QED
      BY <1>1, <1>2, <1>10, <1>16, <3>1, <3>2, Zenon DEF IInv, TypeOK
  <2>4. NoUseAfterFree'
    <3>1. \A x \in (table \cup list)' : heap'[x] # None
      BY <1>1, <1>8, <1>11, Zenon DEF IInv, NoUseAfterFree, TypeOK
    <3>2. \A u \in Thread : held'[u] # None => heap'[held'[u]] # None /\ held'[u] \in list'
      BY <1>2, <1>8, <1>11, <2>1 DEF IInv, NoUseAfterFree, TypeOK
    <3>3. \A u \in Thread : \A x \in todo'[u] : heap'[x] # None /\ x \notin (table \cup list)'
      BY <1>1, <1>3, <1>7, <1>8, <1>16, <2>2 DEF IInv, NoUseAfterFree, TypeOK
    <3>4. \A u, w \in Thread : \A x \in todo[u] : held[w] # x /\ (w # u => x \notin todo[w])
      BY DEF IInv, NoUseAfterFree
    <3>5. \A u, w \in Thread : \A x \in todo'[u] : held'[w] # x
      BY <1>2, <2>1, <2>2, <3>4
    <3>6. \A u, w \in Thread : \A x \in todo'[u] : w # u => x \notin todo'[w]
      BY <1>4, <2>2, <3>4
    <3> QED
      BY <3>1, <3>2, <3>3, <3>5, <3>6 DEF NoUseAfterFree
  <2>5. \A g \in list' \ table' : HasRefs(g)'
    BY <1>1, <1>9, <1>16, Zenon DEF IInv, TableMatchesList, HasRefs
  <2>6. NothingLeaks'
    <3> SUFFICES ASSUME NEW x \in Handle, heap[x] # None
                 PROVE  x \in list' \/ \E u \in Thread : x \in todo'[u]
      BY <1>8, Zenon DEF NothingLeaks
    <3>1. CASE x = h
      BY <3>1, <2>2, Zenon
    <3>2. CASE x # h /\ x \in list
      BY <3>2, <1>11, Zenon
    <3>3. CASE x \notin list
      <4>1. PICK u \in Thread : x \in todo[u]
        BY <3>3, Zenon DEF IInv, NothingLeaks
      <4> QED
        BY <4>1, <1>2, <2>2, Zenon
    <3> QED
      BY <3>1, <3>2, <3>3
  <2> QED
    BY <2>3, <2>4, <2>5, <2>6, <1>12, <1>13, <1>14, <1>15, Zenon DEF IInv, TableMatchesList
<1>17. CASE HasRefs(h) /\ UNCHANGED <<list, older, todo>>
  <2>1. TypeOK'
    BY <1>1, <1>2, <1>10, <1>17, Zenon DEF IInv, TypeOK
  <2>2. NoUseAfterFree'
    <3>1. \A x \in (table \cup list)' : heap'[x] # None
      BY <1>1, <1>8, <1>11 DEF IInv, NoUseAfterFree, TypeOK
    <3>2. \A u \in Thread : held'[u] # None => heap'[held'[u]] # None /\ held'[u] \in list'
      BY <1>2, <1>8, <1>17 DEF IInv, NoUseAfterFree, TypeOK
    <3>3. \A u \in Thread : \A x \in todo'[u] : heap'[x] # None /\ x \notin (table \cup list)'
      BY <1>1, <1>8, <1>17, Zenon DEF IInv, NoUseAfterFree, TypeOK
    <3>4. \A u, w \in Thread : \A x \in todo'[u] : held'[w] # x /\ (w # u => x \notin todo'[w])
      BY <1>2, <1>17 DEF IInv, NoUseAfterFree
    <3> QED
      BY <3>1, <3>2, <3>3, <3>4 DEF NoUseAfterFree
  <2>3. \A g \in list' \ table' : HasRefs(g)'
    BY <1>1, <1>9, <1>17, Zenon DEF IInv, TableMatchesList, HasRefs
  <2>4. NothingLeaks'
    BY <1>8, <1>17 DEF IInv, NothingLeaks
  <2> QED
    BY <2>1, <2>2, <2>3, <2>4, <1>12, <1>13, <1>14, <1>15 DEF IInv, TableMatchesList
<1> QED
  BY <1>1, <1>16, <1>17

\* The invariant holds initially and every step preserves it.
THEOREM Inductive == Spec => []IInv
<1>1. Init => IInv
  BY CacheAssumption DEF Init, IInv, TypeOK, NoUseAfterFree, RefsCountHolders,
     TableMatchesList, NothingLeaks
<1>2. IInv /\ [Next]_vars => IInv'
  <2> SUFFICES ASSUME IInv, [Next]_vars PROVE IInv'
    OBVIOUS
  <2>1. ASSUME NEW t \in Thread, NEW k \in Key, NEW v \in Value, NEW c \in Charges,
               Insert(t, k, v, c)
        PROVE  IInv'
    <3> DEFINE e == [key |-> k, val |-> v, charge |-> c, refs |-> 0, inCache |-> TRUE]
               E == EvictFromLRU(c)
    <3>1. PICK h \in Handle :
            /\ heap[h] = None
            /\ \/ FindPointer(k) \cap TableRemove(E) = {} /\ InsertNew(t, h, e, E)
               \/ \E o \in FindPointer(k) \cap TableRemove(E) : InsertExisting(t, h, e, E, o)
      BY <2>1, Zenon DEF Insert
    <3>2. Ready(t) /\ capacity' = capacity
      BY <2>1, Zenon DEF Insert
    <3> HIDE DEF e, E
    <3>3. CASE FindPointer(k) \cap TableRemove(E) = {} /\ InsertNew(t, h, e, E)
      BY <3>1, <3>2, <3>3, InsertNewInv, Zenon DEF e, E
    <3>4. CASE \E o \in FindPointer(k) \cap TableRemove(E) : InsertExisting(t, h, e, E, o)
      BY <3>1, <3>2, <3>4, InsertExistingInv, Zenon DEF e, E
    <3> QED
      BY <3>1, <3>3, <3>4
  <2>2. ASSUME NEW c \in Capacities, SetCapacity(c) PROVE IInv'
    BY <2>2, CacheAssumption DEF SetCapacity, IInv, TypeOK, NoUseAfterFree,
       RefsCountHolders, TableMatchesList, NothingLeaks, HasRefs
  <2>3. CASE UNCHANGED vars
    BY <2>3 DEF vars, IInv, TypeOK, NoUseAfterFree, RefsCountHolders,
       TableMatchesList, NothingLeaks, HasRefs
  <2> QED
    BY <2>1, <2>2, <2>3, FreeInv, LookupInv, ReleaseInv, EraseInv DEF Next
<1> QED
  BY <1>1, <1>2, PTL DEF Spec

\* Every variable keeps its type.
THEOREM TypeCorrect == Spec => []TypeOK
<1>1. IInv => TypeOK
  BY DEF IInv
<1> QED
  BY <1>1, Inductive, PTL

\* Whatever the threads do between a critical section and the Free after it, no
\* freed memory is reachable and none is freed twice.
THEOREM FreeAfterUnlockIsSafe == Spec => []NoUseAfterFree
<1>1. IInv => NoUseAfterFree
  BY DEF IInv
<1> QED
  BY <1>1, Inductive, PTL

\* A reference count is the number of callers that hold the entry.
THEOREM RefsAreExact == Spec => []RefsCountHolders
<1>1. IInv => RefsCountHolders
  BY DEF IInv
<1> QED
  BY <1>1, Inductive, PTL

\* The hash table and the list agree.
THEOREM TableAndListAgree == Spec => []TableMatchesList
<1>1. IInv => TableMatchesList
  BY DEF IInv
<1> QED
  BY <1>1, Inductive, PTL

\* No entry is lost without being freed.
THEOREM NoEntryLeaks == Spec => []NothingLeaks
<1>1. IInv => NothingLeaks
  BY DEF IInv
<1> QED
  BY <1>1, Inductive, PTL

-----------------------------------------------------------------------------
(* The list stays a linear order.                                          *)

\* Unlinking entries leaves the others ordered as they were.
LEMMA UnlinkKeepsOrder ==
  ASSUME ListIsOrdered, NEW S, list' = list \ S, older' = LRU_Remove(S)
  PROVE  ListIsOrdered'
<1>1. older' = {p \in older : p[1] \notin S /\ p[2] \notin S}
  BY DEF LRU_Remove
<1>2. \A g, h \in list' : <<g, h>> \in older' <=> <<g, h>> \in older
  BY <1>1
<1>3. older' \subseteq list' \X list'
  BY <1>1 DEF ListIsOrdered
<1> QED
  BY <1>2, <1>3 DEF ListIsOrdered

\* So does linking an entry behind all of them.
LEMMA LinkKeepsOrder ==
  ASSUME ListIsOrdered, NEW S, NEW h, h \notin list \ S,
         list' = (list \ S) \cup {h}, older' = LRU_Insert(LRU_Remove(S), list \ S, h)
  PROVE  ListIsOrdered'
<1>1. older' = {p \in older : p[1] \notin S /\ p[2] \notin S} \cup ((list \ S) \X {h})
  BY DEF LRU_Remove, LRU_Insert
<1>2. \A f, g \in list \ S : <<f, g>> \in older' <=> <<f, g>> \in older
  BY <1>1, Zenon
<1>3. \A g \in list \ S : <<g, h>> \in older'
  BY <1>1, Zenon
<1>4. \A g \in list' : <<h, g>> \notin older'
  <2> SUFFICES ASSUME NEW g \in list', <<h, g>> \in older' PROVE FALSE
    OBVIOUS
  <2>1. <<h, g>> \in {p \in older : p[1] \notin S /\ p[2] \notin S}
    BY <1>1, Zenon
  <2>2. <<h, g>> \in older /\ h \notin S
    BY <2>1
  <2> QED
    BY <2>2 DEF ListIsOrdered
<1>5. older' \subseteq list' \X list'
  BY <1>1, Zenon DEF ListIsOrdered
<1>6. \A f, g \in list' : f # g => (<<f, g>> \in older' <=> <<g, f>> \notin older')
  BY <1>2, <1>3, <1>4, Zenon DEF ListIsOrdered
<1>7. \A g \in list' : <<g, g>> \notin older'
  BY <1>2, <1>4, Zenon DEF ListIsOrdered
<1>8. \A e, f, g \in list' : <<e, f>> \in older' /\ <<f, g>> \in older' => <<e, g>> \in older'
  BY <1>2, <1>3, <1>4 DEF ListIsOrdered
<1> QED
  BY <1>5, <1>6, <1>7, <1>8, Zenon DEF ListIsOrdered

\* Eviction always has an oldest entry to start from: lru_ is a linear order of
\* the linked entries after any sequence of inserts, hits, erases and releases.
THEOREM ListStaysOrdered == Spec => []ListIsOrdered
<1>1. Init => ListIsOrdered
  BY DEF Init, ListIsOrdered
<1>2. IInv /\ ListIsOrdered /\ [Next]_vars => ListIsOrdered'
  <2> SUFFICES ASSUME IInv, ListIsOrdered, [Next]_vars PROVE ListIsOrdered'
    OBVIOUS
  <2>0. ASSUME UNCHANGED <<list, older>> PROVE ListIsOrdered'
    BY <2>0 DEF ListIsOrdered
  <2>1. ASSUME NEW t \in Thread, NEW k \in Key, NEW v \in Value, NEW c \in Charges,
               Insert(t, k, v, c)
        PROVE  ListIsOrdered'
    <3> DEFINE e == [key |-> k, val |-> v, charge |-> c, refs |-> 0, inCache |-> TRUE]
               E == EvictFromLRU(c)
    <3>1. PICK h \in Handle :
            /\ heap[h] = None
            /\ \/ InsertNew(t, h, e, E)
               \/ \E o \in FindPointer(k) \cap TableRemove(E) : InsertExisting(t, h, e, E, o)
      BY <2>1, Zenon DEF Insert
    <3> HIDE DEF e, E
    <3>2. CASE InsertNew(t, h, e, E)
      <4>1. h \notin list \ E
        BY <3>1, FreshFacts
      <4> QED
        BY <4>1, <3>2, LinkKeepsOrder, Zenon DEF InsertNew
    <3>3. CASE \E o \in FindPointer(k) \cap TableRemove(E) : InsertExisting(t, h, e, E, o)
      BY <3>3, UnlinkKeepsOrder DEF InsertExisting
    <3> QED
      BY <3>1, <3>2, <3>3
  <2>2. ASSUME NEW t \in Thread, NEW k \in Key, Lookup(t, k) PROVE ListIsOrdered'
    <3>1. PICK h \in FindPointer(k) :
            older' = IF MoveOnLookup
                     THEN LRU_Insert(LRU_Remove({h}), list \ {h}, h)
                     ELSE older
      BY <2>2, Zenon DEF Lookup
    <3>2. list' = list /\ h \in list
      BY <2>2 DEF Lookup, FindPointer, IInv, TableMatchesList
    <3>3. CASE MoveOnLookup
      <4>1. list' = (list \ {h}) \cup {h} /\ h \notin list \ {h}
        BY <3>2
      <4>2. older' = LRU_Insert(LRU_Remove({h}), list \ {h}, h)
        BY <3>1, <3>3
      <4> QED
        BY <4>1, <4>2, LinkKeepsOrder
    <3>4. CASE ~MoveOnLookup
      BY <3>1, <3>2, <3>4, <2>0
    <3> QED
      BY <3>3, <3>4
  <2>3. ASSUME NEW t \in Thread, NEW k \in Key, Erase(t, k) PROVE ListIsOrdered'
    <3>1. PICK h \in FindPointer(k) :
            \/ list' = list \ {h} /\ older' = LRU_Remove({h})
            \/ UNCHANGED <<list, older>>
      BY <2>3, Zenon DEF Erase
    <3> QED
      BY <3>1, <2>0, UnlinkKeepsOrder
  <2>4. ASSUME NEW t \in Thread, Release(t) PROVE ListIsOrdered'
    <3>1. PICK h : \/ list' = list \ {h} /\ older' = LRU_Remove({h})
                   \/ UNCHANGED <<list, older>>
      BY <2>4, Zenon DEF Release
    <3> QED
      BY <3>1, <2>0, UnlinkKeepsOrder
  <2>5. ASSUME NEW t \in Thread, Free(t) PROVE ListIsOrdered'
    BY <2>5, <2>0 DEF Free
  <2>6. ASSUME NEW c \in Capacities, SetCapacity(c) PROVE ListIsOrdered'
    BY <2>6, <2>0 DEF SetCapacity
  <2>7. CASE UNCHANGED vars
    BY <2>7, <2>0 DEF vars
  <2> QED
    BY <2>1, <2>2, <2>3, <2>4, <2>5, <2>6, <2>7 DEF Next
<1> QED
  BY <1>1, <1>2, Inductive, PTL DEF Spec
=============================================================================
