----------------------------- MODULE CacheShard -----------------------------
(***************************************************************************)
(* One shard of the LRU cache (src/src/cache/lru_cache.cc) or of the FIFO  *)
(* cache (src/src/cache/fifo_cache.cc).  The two differ in Lookup only: an *)
(* LRU hit moves the entry to the newest position.                         *)
(*                                                                         *)
(* Every method runs under mutex_, but Insert and Erase free the entries   *)
(* they removed after they have unlocked: an action is a critical section, *)
(* and Free is a step of its own that other threads' steps may precede.    *)
(* Handles are addresses: a freed one may be allocated again.              *)
(*                                                                         *)
(* The circular list lru_ is the set list with its order: <<g, h>> in      *)
(* older when g is nearer to lru_.next, where eviction starts.  The hash   *)
(* table is the set of handles in it; its buckets are left out.            *)
(***************************************************************************)
EXTENDS Integers, FiniteSets, FiniteSetsExt

CONSTANTS
  Key, Value, Thread,
  Handle,       \* bound: the addresses memory is allocated from
  Charges,      \* CalcTotalCharge() of the entries callers insert
  Capacities,   \* the capacities SetCapacity is called with
  Capacity,     \* the capacity at construction
  MoveOnLookup, \* TRUE for the LRU shard, FALSE for the FIFO shard
  None

Entry == [key : Key, val : Value, charge : Charges, refs : Nat, inCache : BOOLEAN]

ASSUME CacheAssumption ==
  /\ IsFiniteSet(Thread)
  /\ Charges \subseteq Nat
  /\ Capacities \subseteq Nat
  /\ Capacity \in Nat
  /\ MoveOnLookup \in BOOLEAN
  /\ None \notin Handle \cup Entry
  /\ None \notin Value

ASSUME PinAssumption == None \notin [key : Key, val : Value]

VARIABLES
  heap,      \* heap[h]: the entry at address h, or None when h is free
  table,     \* table_: the handles the hash table holds
  list,      \* the handles linked in lru_
  older,     \* the order of lru_
  usage,     \* usage_
  capacity,  \* capacity_
  held,      \* the handle each thread has been returned and not released
  todo       \* the handles each thread still has to Free

vars == <<heap, table, list, older, usage, capacity, held, todo>>

Init ==
  /\ heap = [h \in Handle |-> None]
  /\ table = {}
  /\ list = {}
  /\ older = {}
  /\ usage = 0
  /\ capacity = Capacity
  /\ held = [t \in Thread |-> None]
  /\ todo = [t \in Thread |-> {}]

-----------------------------------------------------------------------------

\* Between two calls: what the previous one had to free is freed.
Ready(t) == held[t] = None /\ todo[t] = {}

HasRefs(h) == heap[h].refs > 0

SumCharges(S) == MapThenSumSet(LAMBDA h : heap[h].charge, S)

\* table_.Lookup: the handles of key k in the table, at most one.
FindPointer(k) == {h \in table : heap[h].key = k}

\* Mutant: the room for the new entry itself is not counted.
EvictFromLRUIgnoresCharge(charge) ==
  {h \in list :
     /\ ~HasRefs(h)
     /\ usage - SumCharges({g \in list : ~HasRefs(g) /\ <<g, h>> \in older}) > capacity}

\* EvictFromLRU walks from the oldest entry on and removes the ones without
\* references until the charge fits: an entry goes when it has no references
\* and, with all older ones of that kind gone, there is still no room.
EvictFromLRU(charge) ==
  {h \in list :
     /\ ~HasRefs(h)
     /\ usage - SumCharges({g \in list : ~HasRefs(g) /\ <<g, h>> \in older})
          + charge > capacity}

\* EvictFromLRU takes an entry out of the table by its key.
TableRemove(S) == {g \in table : \A h \in S : heap[g].key # heap[h].key}

\* The order after unlinking the handles in S.
LRU_Remove(S) == {p \in older : p[1] \notin S /\ p[2] \notin S}

\* The order after linking h behind the handles in S.
LRU_Insert(order, S, h) == order \cup (S \X {h})

\* Insert's critical section, with the entry e at h and the handles in E
\* evicted: the key is new.
InsertNew(t, h, e, E) ==
  /\ heap' = [heap EXCEPT ![h] = [e EXCEPT !.refs = 1]]
  /\ table' = TableRemove(E) \cup {h}
  /\ list' = (list \ E) \cup {h}
  /\ older' = LRU_Insert(LRU_Remove(E), list \ E, h)
  /\ usage' = usage - SumCharges(E) + e.charge
  /\ held' = [held EXCEPT ![t] = h]
  /\ todo' = [todo EXCEPT ![t] = E]

\* Mutant: the existing entry is returned without taking a reference.
InsertExistingNoRef(t, h, e, E, o) ==
  /\ heap' = [heap EXCEPT ![h] = e]
  /\ table' = TableRemove(E)
  /\ list' = list \ E
  /\ older' = LRU_Remove(E)
  /\ usage' = usage - SumCharges(E)
  /\ held' = [held EXCEPT ![t] = o]
  /\ todo' = [todo EXCEPT ![t] = E \cup {h}]

\* Mutant: the new handle is not given to the list of handles to free.
InsertExistingLeaks(t, h, e, E, o) ==
  /\ heap' = [heap EXCEPT ![h] = e, ![o].refs = @ + 1]
  /\ table' = TableRemove(E)
  /\ list' = list \ E
  /\ older' = LRU_Remove(E)
  /\ usage' = usage - SumCharges(E)
  /\ held' = [held EXCEPT ![t] = o]
  /\ todo' = [todo EXCEPT ![t] = E]

\* Mutant: the new entry is charged although it is not linked.
InsertExistingCharged(t, h, e, E, o) ==
  /\ heap' = [heap EXCEPT ![h] = e, ![o].refs = @ + 1]
  /\ table' = TableRemove(E)
  /\ list' = list \ E
  /\ older' = LRU_Remove(E)
  /\ usage' = usage - SumCharges(E) + e.charge
  /\ held' = [held EXCEPT ![t] = o]
  /\ todo' = [todo EXCEPT ![t] = E \cup {h}]

\* Mutant: the existing entry takes the new value in place.
InsertExistingOverwrites(t, h, e, E, o) ==
  /\ heap' = [heap EXCEPT ![h] = e, ![o].refs = @ + 1, ![o].val = e.val]
  /\ table' = TableRemove(E)
  /\ list' = list \ E
  /\ older' = LRU_Remove(E)
  /\ usage' = usage - SumCharges(E)
  /\ held' = [held EXCEPT ![t] = o]
  /\ todo' = [todo EXCEPT ![t] = E \cup {h}]

\* "entry already exist": the caller gets the existing entry o, and h is freed
\* with the evicted ones.
InsertExisting(t, h, e, E, o) ==
  /\ heap' = [heap EXCEPT ![h] = e, ![o].refs = @ + 1]
  /\ table' = TableRemove(E)
  /\ list' = list \ E
  /\ older' = LRU_Remove(E)
  /\ usage' = usage - SumCharges(E)
  /\ held' = [held EXCEPT ![t] = o]
  /\ todo' = [todo EXCEPT ![t] = E \cup {h}]

Insert(t, k, v, c) ==
  /\ Ready(t)
  /\ \E h \in Handle :
       /\ heap[h] = None
       /\ LET e   == [key |-> k, val |-> v, charge |-> c, refs |-> 0, inCache |-> TRUE]
              E   == EvictFromLRU(c)
              old == FindPointer(k) \cap TableRemove(E)
          IN  \/ old = {} /\ InsertNew(t, h, e, E)
              \/ \E o \in old : InsertExisting(t, h, e, E, o)
  /\ UNCHANGED capacity

\* The deleter and the delete after the unlock, one handle at a time.
Free(t) ==
  /\ \E h \in todo[t] :
       /\ heap' = [heap EXCEPT ![h] = None]
       /\ todo' = [todo EXCEPT ![t] = @ \ {h}]
  /\ UNCHANGED <<table, list, older, usage, capacity, held>>

\* A hit; a miss changes nothing.
Lookup(t, k) ==
  /\ Ready(t)
  /\ \E h \in FindPointer(k) :
       /\ heap' = [heap EXCEPT ![h].refs = @ + 1]
       /\ older' = IF MoveOnLookup
                   THEN LRU_Insert(LRU_Remove({h}), list \ {h}, h)
                   ELSE older
       /\ held' = [held EXCEPT ![t] = h]
  /\ UNCHANGED <<table, list, usage, capacity, todo>>

\* An entry that was erased meanwhile goes with its last reference.
Release(t) ==
  /\ held[t] # None
  /\ todo[t] = {}
  /\ held' = [held EXCEPT ![t] = None]
  /\ LET h == held[t]
     IN  \/ /\ heap[h].refs = 1 /\ ~heap[h].inCache
            /\ list' = list \ {h}
            /\ older' = LRU_Remove({h})
            /\ usage' = usage - heap[h].charge
            /\ heap' = [heap EXCEPT ![h] = None]
         \/ /\ ~(heap[h].refs = 1 /\ ~heap[h].inCache)
            /\ heap' = [heap EXCEPT ![h].refs = @ - 1]
            /\ UNCHANGED <<list, older, usage>>
  /\ UNCHANGED <<table, capacity, todo>>

\* Mutant: the entry is freed although callers hold it.
EraseIgnoresRefs(t, k) ==
  /\ todo[t] = {}
  /\ \E h \in FindPointer(k) :
       /\ table' = table \ {h}
       /\ heap' = [heap EXCEPT ![h].inCache = FALSE]
       /\ list' = list \ {h}
       /\ older' = LRU_Remove({h})
       /\ usage' = usage - heap[h].charge
       /\ todo' = [todo EXCEPT ![t] = {h}]
  /\ UNCHANGED <<capacity, held>>

\* Mutant: an entry in use is not marked as erased.
EraseLeavesInCache(t, k) ==
  /\ todo[t] = {}
  /\ \E h \in FindPointer(k) :
       /\ table' = table \ {h}
       /\ \/ /\ ~HasRefs(h)
             /\ list' = list \ {h}
             /\ older' = LRU_Remove({h})
             /\ usage' = usage - heap[h].charge
             /\ todo' = [todo EXCEPT ![t] = {h}]
          \/ /\ HasRefs(h)
             /\ UNCHANGED <<list, older, usage, todo>>
  /\ UNCHANGED <<heap, capacity, held>>

\* Also while the caller holds a handle.
Erase(t, k) ==
  /\ todo[t] = {}
  /\ \E h \in FindPointer(k) :
       /\ table' = table \ {h}
       /\ heap' = [heap EXCEPT ![h].inCache = FALSE]
       /\ \/ /\ ~HasRefs(h)
             /\ list' = list \ {h}
             /\ older' = LRU_Remove({h})
             /\ usage' = usage - heap[h].charge
             /\ todo' = [todo EXCEPT ![t] = {h}]
          \/ /\ HasRefs(h)
             /\ UNCHANGED <<list, older, usage, todo>>
  /\ UNCHANGED <<capacity, held>>

SetCapacity(c) ==
  /\ capacity' = c
  /\ UNCHANGED <<heap, table, list, older, usage, held, todo>>

Next ==
  \/ \E t \in Thread, k \in Key :
       \/ \E v \in Value, c \in Charges : Insert(t, k, v, c)
       \/ Lookup(t, k)
       \/ Erase(t, k)
  \/ \E t \in Thread : Free(t) \/ Release(t)
  \/ \E c \in Capacities : SetCapacity(c)

Spec == Init /\ [][Next]_vars

-----------------------------------------------------------------------------
(* Properties.                                                             *)

\* The types of the state; that usage is a natural number is UsageIsExact's.
TypeOK ==
  /\ heap \in [Handle -> Entry \cup {None}]
  /\ table \in SUBSET Handle
  /\ list \in SUBSET Handle
  /\ older \in SUBSET (Handle \X Handle)
  /\ capacity \in Nat
  /\ held \in [Thread -> Handle \cup {None}]
  /\ todo \in [Thread -> SUBSET Handle]

\* A handle that a thread holds, that the table finds or that is linked in the
\* list is never freed memory, and nobody but its owner can reach a handle that
\* waits to be freed: freeing after the unlock is safe.
NoUseAfterFree ==
  /\ \A h \in table \cup list : heap[h] # None
  /\ \A t \in Thread : held[t] # None => heap[held[t]] # None /\ held[t] \in list
  /\ \A t \in Thread : \A h \in todo[t] :
       /\ heap[h] # None
       /\ h \notin table \cup list
       /\ \A u \in Thread : held[u] # h /\ (u # t => h \notin todo[u])

\* refs counts the callers that hold the entry, so that an entry is evicted or
\* freed exactly when the last of them is gone.
RefsCountHolders ==
  \A h \in list : heap[h].refs = Cardinality({t \in Thread : held[t] = h})

\* The table has at most one entry for a key and every one is linked in the
\* list; an entry that is linked but not in the table was erased while in use.
TableMatchesList ==
  /\ table \subseteq list
  /\ \A g, h \in table : heap[g].key = heap[h].key => g = h
  /\ \A h \in list : heap[h].inCache <=> h \in table
  /\ \A h \in list \ table : HasRefs(h)

\* Every allocated entry is in the list or about to be freed: none is leaked
\* by an eviction, an erase or an insert of a key that exists.
NothingLeaks ==
  \A h \in Handle : heap[h] # None => h \in list \/ \E t \in Thread : h \in todo[t]

\* usage_ is what the linked entries are charged, so the unsigned subtractions
\* (assert(usage_ >= charge), compiled out) never wrap.
UsageIsExact == usage = SumCharges(list)

\* lru_ is a linear order of the linked entries.
ListIsOrdered ==
  /\ older \subseteq list \X list
  /\ \A g, h \in list : g # h => (<<g, h>> \in older <=> <<h, g>> \notin older)
  /\ \A h \in list : <<h, h>> \notin older
  /\ \A f, g, h \in list : <<f, g>> \in older /\ <<g, h>> \in older => <<f, h>> \in older

\* The cache grows beyond its capacity only when every entry left is in use.
GrowsOnlyWhenPinned ==
  [][usage' > usage =>
       usage' <= capacity \/ \A h \in list' : heap'[h].refs > 0]_vars

\* The refinement mapping: what the table maps a key to, and what a caller reads
\* through the handle it holds.
CachedMap ==
  [k \in Key |-> IF FindPointer(k) = {} THEN None
                 ELSE heap[CHOOSE h \in FindPointer(k) : TRUE].val]

PinnedEntries ==
  [t \in Thread |-> IF held[t] = None THEN None
                    ELSE [key |-> heap[held[t]].key, val |-> heap[held[t]].val]]

Map == INSTANCE PinnedMap WITH map <- CachedMap, pin <- PinnedEntries

\* The shard implements PinnedMap: what a caller reads through a handle is the
\* entry it was given, until it releases it.
ImplementsPinnedMap == Map!Spec
=============================================================================
