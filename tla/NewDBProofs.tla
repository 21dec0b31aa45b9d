----------------------------- MODULE NewDBProofs ----------------------------
(***************************************************************************)
(* Proofs about NewDB, for every set of keys, values and threads: physical *)
(* keys are handed out within the bound, and no key reads a record of      *)
(* another.                                                                *)
(*                                                                         *)
(* Nothing is proved of what the collector sorts, drops and erases: that   *)
(* rests on CHOOSE and on Cardinality of what is picked by it.             *)
(***************************************************************************)
EXTENDS NewDB, FiniteSetTheorems, TLAPS

Val == Value \cup {None, Mangled}
MaybePhysicalKey == PhysicalKey \cup {None}
EarlySteps == PutSteps \ {"put_key", "put_value"}
LateSteps == {"put_key", "put_value"}
Op == [pc : PutSteps \cup {"idle", "get_value", "get_ret"}, key : Key \cup {None},
       val : Val, pkey : MaybePhysicalKey, may : SUBSET Val]

\* The threads that have not got their physical key yet.
Early == {u \in Thread : op[u].pc \in EarlySteps}

TypeOK ==
  /\ keydb \in [Key -> MaybePhysicalKey]
  /\ valuedb \in [PhysicalKey -> {None} \cup [key : Key, val : Value]]
  /\ sequence \in Nat /\ issued \in Nat /\ reopens \in Nat
  /\ op \in [Thread -> Op]
  /\ truth \in [Key -> SUBSET Val]

\* What an operation knows at its steps.
StepsOK ==
  \A t \in Thread :
    /\ op[t].pc \in PutSteps => op[t].key \in Key /\ Owner[op[t].key] = t /\ op[t].val \in Value
    /\ op[t].pc \in LateSteps \cup {"get_value"} => op[t].pkey \in PhysicalKey

\* Every Put that has begun will find a number within the bound.
Bounded == sequence <= issued /\ issued + Cardinality(Early) <= MaxSeq

\* The numbers are handed out in order and kept apart: a number is stored for
\* one key only, and not at all before its Put has got to it.
Apart ==
  /\ \A k \in Key : keydb[k] # None => keydb[k] < sequence
  /\ \A p \in PhysicalKey : valuedb[p] # None => p < sequence
  /\ \A j, k \in Key : keydb[j] = keydb[k] /\ keydb[j] # None => j = k
  /\ \A k \in Key : keydb[k] # None /\ valuedb[keydb[k]] # None => valuedb[keydb[k]].key = k
  /\ \A t \in Thread : op[t].pc \in LateSteps => op[t].pkey < sequence
  /\ \A t \in Thread : op[t].pc = "put_key" =>
       valuedb[op[t].pkey] = None /\ \A k \in Key : keydb[k] # op[t].pkey
  /\ \A t \in Thread : op[t].pc = "put_value" =>
       \A k \in Key : keydb[k] = op[t].pkey <=> k = op[t].key
  /\ \A t, u \in Thread : op[t].pc \in LateSteps /\ op[u].pc \in LateSteps /\ t # u =>
       op[t].pkey # op[u].pkey

IInv == TypeOK /\ StepsOK /\ Bounded /\ (reopens = 0 => Apart)

-----------------------------------------------------------------------------
(* The bound.                                                              *)

LEMMA EarlyFinite ==
  IsFiniteSet(Early) /\ Cardinality(Early) \in Nat
BY NewDBAssumption, FS_Subset, FS_CardinalityType DEF Early

LEMMA BoundedKept ==
  ASSUME Bounded, TypeOK, issued' = issued, sequence' \in Nat, sequence' <= sequence,
         Early' \subseteq Early
  PROVE  Bounded'
<1>1. Cardinality(Early') <= Cardinality(Early) /\ Cardinality(Early') \in Nat
  BY EarlyFinite, FS_Subset, FS_CardinalityType
<1> QED
  BY <1>1, EarlyFinite, NewDBAssumption DEF Bounded, TypeOK

-----------------------------------------------------------------------------
(* Steps that leave the numbers apart: they store nothing new, and start   *)
(* no Put that has its number already.                                     *)
LEMMA ApartKept ==
  ASSUME TypeOK, StepsOK, Apart,
         sequence' = sequence,
         keydb' \in [Key -> MaybePhysicalKey],
         \A k \in Key : keydb'[k] = keydb[k] \/ (keydb'[k] = None /\ ~Writing(k)),
         \A p \in PhysicalKey : valuedb'[p] = valuedb[p] \/ valuedb'[p] = None,
         \A t \in Thread : op'[t].pc \in LateSteps =>
           op'[t].pc = op[t].pc /\ op'[t].pkey = op[t].pkey /\ op'[t].key = op[t].key
  PROVE  Apart'
<1>1. \A k \in Key : keydb'[k] # None => keydb'[k] < sequence'
  BY DEF Apart
<1>2. \A p \in PhysicalKey : valuedb'[p] # None => p < sequence'
  BY DEF Apart
<1>3. \A j, k \in Key : keydb'[j] = keydb'[k] /\ keydb'[j] # None => j = k
  BY DEF Apart
<1>4. \A k \in Key : keydb'[k] # None /\ valuedb'[keydb'[k]] # None => valuedb'[keydb'[k]].key = k
  BY DEF Apart, TypeOK, MaybePhysicalKey
<1>5. \A t \in Thread : op'[t].pc \in LateSteps => op'[t].pkey < sequence'
  BY DEF Apart
<1>6. \A t \in Thread : op'[t].pc = "put_key" =>
        valuedb'[op'[t].pkey] = None /\ \A k \in Key : keydb'[k] # op'[t].pkey
  BY NewDBAssumption DEF Apart, LateSteps, StepsOK, PhysicalKey
<1>7. \A t \in Thread : op'[t].pc = "put_value" =>
        \A k \in Key : keydb'[k] = op'[t].pkey <=> k = op'[t].key
  BY NewDBAssumption DEF Apart, LateSteps, StepsOK, PhysicalKey, Writing, PutSteps
<1>8. \A t, u \in Thread : op'[t].pc \in LateSteps /\ op'[u].pc \in LateSteps /\ t # u =>
        op'[t].pkey # op'[u].pkey
  BY DEF Apart
<1> QED
  BY <1>1, <1>2, <1>3, <1>4, <1>5, <1>6, <1>7, <1>8 DEF Apart

-----------------------------------------------------------------------------
(* The actions.                                                            *)

LEMMA InitIInv == Init => IInv
<1> SUFFICES ASSUME Init PROVE IInv
  OBVIOUS
<1>1. Early = {}
  BY DEF Init, Early, EarlySteps, Idle, PutSteps
<1>2. TypeOK
  BY DEF Init, TypeOK, Idle, Op, Val, MaybePhysicalKey, PutSteps
<1>3. StepsOK
  BY DEF Init, StepsOK, Idle, PutSteps, LateSteps
<1>4. Bounded
  BY <1>1, FS_EmptySet, NewDBAssumption DEF Init, Bounded
<1>5. Apart
  BY DEF Init, Apart, Idle, LateSteps
<1> QED
  BY <1>2, <1>3, <1>4, <1>5 DEF IInv

LEMMA StartPutIInv ==
  ASSUME IInv, NEW t \in Thread, NEW k \in Key, NEW v \in Value, StartPut(t, k, v)
  PROVE  IInv'
<1> DEFINE o == [Idle EXCEPT !.pc = "put_read", !.key = k, !.val = v]
<1>1. UNCHANGED <<keydb, valuedb, sequence, issued, truth, reopens>> /\ Owner[k] = t
  BY DEF StartPut, stores, hist
<1>2. op'[t] = o /\ \A u \in Thread \ {t} :
        op'[u] = IF op[u].key = k THEN [op[u] EXCEPT !.may = @ \cup {v}] ELSE op[u]
  BY DEF StartPut, Begin
<1>3. o \in Op /\ o.pc = "put_read" /\ o.key = k /\ o.val = v
  BY DEF Op, Idle, Val, MaybePhysicalKey, PutSteps
<1> HIDE DEF o
<1>4. \A u \in Thread \ {t} : /\ op'[u] \in Op
                              /\ op'[u].pc = op[u].pc /\ op'[u].key = op[u].key
                              /\ op'[u].val = op[u].val /\ op'[u].pkey = op[u].pkey
  <2> TAKE u \in Thread \ {t}
  <2>1. op[u] \in Op /\ v \in Val
    BY DEF IInv, TypeOK, Val
  <2>2. CASE op[u].key = k
    <3>1. op'[u] = [op[u] EXCEPT !.may = @ \cup {v}]
      BY <1>2, <2>2
    <3>2. op[u].may \cup {v} \in SUBSET Val
      BY <2>1 DEF Op
    <3> QED
      BY <2>1, <3>1, <3>2 DEF Op
  <2>3. CASE op[u].key # k
    BY <1>2, <2>1, <2>3
  <2> QED
    BY <2>2, <2>3
<1>5. TypeOK'
  <2>1. op' \in [Thread -> Op]
    <3>1. op' = [u \in Thread |-> op'[u]]
      BY DEF StartPut, Begin
    <3> QED
      BY <1>2, <1>3, <1>4, <3>1
  <2> QED
    BY <1>1, <2>1 DEF IInv, TypeOK
<1>6. StepsOK'
  BY <1>1, <1>2, <1>3, <1>4 DEF IInv, StepsOK, LateSteps
<1>7. Bounded'
  <2>1. Early' = Early \cup {t} /\ t \notin Early
    BY <1>2, <1>3, <1>4 DEF StartPut, At, Early, EarlySteps, PutSteps
  <2>2. issued + Cardinality(Early) < MaxSeq
    BY DEF StartPut, Early, EarlySteps
  <2>3. Cardinality(Early') = Cardinality(Early) + 1
    BY <2>1, EarlyFinite, FS_AddElement
  <2> QED
    BY <1>1, <2>2, <2>3, EarlyFinite, NewDBAssumption DEF IInv, Bounded, TypeOK
<1>8. ASSUME reopens' = 0 PROVE Apart'
  <2>1. \A u \in Thread : op'[u].pc \in LateSteps =>
          op'[u].pc = op[u].pc /\ op'[u].pkey = op[u].pkey /\ op'[u].key = op[u].key
    BY <1>2, <1>3, <1>4 DEF LateSteps
  <2> QED
    BY <1>1, <1>8, <2>1, ApartKept DEF IInv, TypeOK
<1> QED
  BY <1>5, <1>6, <1>7, <1>8 DEF IInv

\* The steps of an operation that store nothing: whatever becomes of the one
\* thread, it is not in a late step and makes no new demand on the bound.
LEMMA OneThreadIInv ==
  ASSUME IInv, NEW t \in Thread, NEW o \in Op,
         op' = [op EXCEPT ![t] = o],
         UNCHANGED <<keydb, valuedb, sequence, issued, truth, reopens>>,
         o.pc \notin LateSteps,
         o.pc \in PutSteps => op[t].pc \in EarlySteps /\ o.key = op[t].key /\ o.val = op[t].val,
         o.pc = "get_value" => o.pkey \in PhysicalKey
  PROVE  IInv'
<1>1. op'[t] = o /\ \A u \in Thread \ {t} : op'[u] = op[u]
  BY DEF IInv, TypeOK
<1>2. TypeOK'
  BY DEF IInv, TypeOK
<1>3. StepsOK'
  BY <1>1 DEF IInv, StepsOK, EarlySteps
<1>4. Bounded'
  <2>1. Early' \subseteq Early
    BY <1>1 DEF Early, EarlySteps
  <2> QED
    BY <2>1, BoundedKept DEF IInv, TypeOK
<1>5. ASSUME reopens' = 0 PROVE Apart'
  BY <1>1, <1>5, ApartKept DEF IInv, TypeOK
<1> QED
  BY <1>2, <1>3, <1>4, <1>5 DEF IInv

LEMMA ReadStepsIInv ==
  ASSUME IInv, NEW t \in Thread, PutRead(t) \/ PutCollect(t) \/ GetValue(t) \/ Return(t)
  PROVE  IInv'
<1>1. op[t] \in Op /\ UNCHANGED <<keydb, valuedb, sequence, issued, truth, reopens>>
  BY DEF IInv, TypeOK, PutRead, PutCollect, GetValue, Return, stores, hist
<1>2. CASE PutRead(t)
  <2>1. op[t].key \in Key /\ op[t].pc = "put_read"
    BY <1>2 DEF PutRead, At, IInv, StepsOK, PutSteps
  <2>2. PICK p \in MaybePhysicalKey :
          op' = [op EXCEPT ![t] = [op[t] EXCEPT !.pc = "put_collect", !.pkey = p]]
    <3>1. CASE op' = [op EXCEPT ![t].pc = "put_collect", ![t].pkey = keydb[op[t].key]]
      BY <2>1, <3>1 DEF IInv, TypeOK, Op
    <3>2. CASE op' = [op EXCEPT ![t].pc = "put_collect"]
      BY <1>1, <3>2 DEF IInv, TypeOK, Op
    <3> QED
      BY <1>2, <3>1, <3>2 DEF PutRead, Goto
  <2> DEFINE o == [op[t] EXCEPT !.pc = "put_collect", !.pkey = p]
  <2>3. o \in Op /\ o.pc = "put_collect" /\ o.key = op[t].key /\ o.val = op[t].val
    BY <1>1, <2>2 DEF Op, PutSteps
  <2> HIDE DEF o
  <2>4. op' = [op EXCEPT ![t] = o]
    BY <2>2 DEF o
  <2> QED
    BY <1>1, <2>1, <2>3, <2>4, OneThreadIInv DEF LateSteps, EarlySteps, PutSteps
<1>3. CASE PutCollect(t)
  <2> DEFINE o == [op[t] EXCEPT !.pc = "put_seq"]
  <2>1. o \in Op /\ o.pc = "put_seq" /\ o.key = op[t].key /\ o.val = op[t].val
    BY <1>1 DEF Op, PutSteps
  <2>2. op' = [op EXCEPT ![t] = o] /\ op[t].pc = "put_collect"
    BY <1>3 DEF PutCollect, Goto, At
  <2> HIDE DEF o
  <2> QED
    BY <1>1, <2>1, <2>2, OneThreadIInv DEF LateSteps, EarlySteps, PutSteps
<1>4. CASE GetValue(t)
  <2>1. op[t].pkey \in PhysicalKey
    BY <1>4 DEF GetValue, At, IInv, StepsOK
  <2>2. PICK w \in Val : op' = [op EXCEPT ![t] = [op[t] EXCEPT !.pc = "get_ret", !.val = w]]
    <3> DEFINE r == valuedb[op[t].pkey]
               found == IF r = None THEN None ELSE CString(r.val)
    <3>1. found \in Val
      BY <2>1 DEF IInv, TypeOK, CString, Val
    <3> HIDE DEF found
    <3>2. CASE op' = [op EXCEPT ![t].pc = "get_ret", ![t].val = found]
      BY <3>1, <3>2 DEF IInv, TypeOK, Op
    <3>3. CASE op' = [op EXCEPT ![t].pc = "get_ret"]
      BY <1>1, <3>3 DEF IInv, TypeOK, Op
    <3> QED
      BY <1>4, <3>2, <3>3 DEF GetValue, Goto, found
  <2> DEFINE o == [op[t] EXCEPT !.pc = "get_ret", !.val = w]
  <2>3. o \in Op /\ o.pc = "get_ret"
    BY <1>1, <2>2 DEF Op
  <2> HIDE DEF o
  <2>4. op' = [op EXCEPT ![t] = o]
    BY <2>2 DEF o
  <2> QED
    BY <1>1, <2>3, <2>4, OneThreadIInv DEF LateSteps, PutSteps
<1>5. CASE Return(t)
  <2>1. Idle \in Op /\ Idle.pc = "idle"
    BY DEF Idle, Op, Val, MaybePhysicalKey
  <2>2. op' = [op EXCEPT ![t] = Idle]
    BY <1>5 DEF Return
  <2> QED
    BY <1>1, <2>1, <2>2, OneThreadIInv DEF LateSteps, PutSteps
<1> QED
  BY <1>2, <1>3, <1>4, <1>5

LEMMA GetKeyIInv ==
  ASSUME IInv, NEW t \in Thread, NEW k \in Key, GetKey(t, k)
  PROVE  IInv'
<1> DEFINE may == truth[k] \cup (IF Writing(k) THEN {op[Owner[k]].val} ELSE {})
           get(p) == [Idle EXCEPT !.key = k, !.pkey = p,
                        !.pc = IF p = None THEN "get_ret" ELSE "get_value", !.may = may]
<1>1. UNCHANGED <<keydb, valuedb, sequence, issued, truth, reopens>>
  BY DEF GetKey, stores, hist
<1>2. PICK p \in MaybePhysicalKey : op' = [op EXCEPT ![t] = get(p)]
  <2>1. keydb[k] \in MaybePhysicalKey /\ None \in MaybePhysicalKey
    BY DEF IInv, TypeOK, MaybePhysicalKey
  <2> QED
    BY <2>1 DEF GetKey
<1>3. may \in SUBSET Val
  BY NewDBAssumption DEF IInv, TypeOK, Op
<1> HIDE DEF may
<1>4. get(p) \in Op /\ get(p).pkey = p /\ get(p).pc \in {"get_ret", "get_value"}
      /\ (get(p).pc = "get_value" => p # None)
  BY <1>2, <1>3 DEF Idle, Op, Val
<1> HIDE DEF get
<1> QED
  BY <1>1, <1>2, <1>4, OneThreadIInv DEF LateSteps, PutSteps, MaybePhysicalKey

LEMMA DeleteIInv ==
  ASSUME IInv, NEW t \in Thread, NEW k \in Key, Delete(t, k)
  PROVE  IInv'
<1>1. UNCHANGED <<valuedb, sequence, issued, reopens>>
  BY DEF Delete
<1>2. \A u \in Thread : /\ op'[u] \in Op
                        /\ op'[u].pc = op[u].pc /\ op'[u].key = op[u].key
                        /\ op'[u].val = op[u].val /\ op'[u].pkey = op[u].pkey
  <2> TAKE u \in Thread
  <2>1. op[u] \in Op /\ op'[u] = IF op[u].key = k THEN [op[u] EXCEPT !.may = @ \cup {None}] ELSE op[u]
    BY DEF IInv, TypeOK, Delete
  <2>2. CASE op[u].key = k
    <3>1. op'[u] = [op[u] EXCEPT !.may = @ \cup {None}]
      BY <2>1, <2>2
    <3>2. op[u].may \cup {None} \in SUBSET Val
      BY <2>1 DEF Op, Val
    <3> QED
      BY <2>1, <3>1, <3>2 DEF Op
  <2>3. CASE op[u].key # k
    BY <2>1, <2>3
  <2> QED
    BY <2>2, <2>3
<1>3. keydb' = keydb \/ keydb' = [keydb EXCEPT ![k] = None]
  BY DEF Delete
<1>4. TypeOK'
  <2>1. op' = [u \in Thread |-> op'[u]]
    BY DEF Delete
  <2>2. op' \in [Thread -> Op]
    BY <1>2, <2>1
  <2>3. keydb' \in [Key -> MaybePhysicalKey]
    BY <1>3 DEF IInv, TypeOK, MaybePhysicalKey
  <2>4. truth' \in [Key -> SUBSET Val]
    BY DEF Delete, IInv, TypeOK, Val
  <2> QED
    BY <1>1, <2>2, <2>3, <2>4 DEF IInv, TypeOK
<1>5. StepsOK'
  BY <1>2 DEF IInv, StepsOK
<1>6. Bounded'
  <2>1. Early' = Early
    BY <1>2 DEF Early
  <2> QED
    BY <1>1, <2>1, BoundedKept DEF IInv, TypeOK
<1>7. ASSUME reopens' = 0 PROVE Apart'
  <2>1. ~Writing(k)
    BY DEF Delete, At, Writing, PutSteps
  <2>2. \A j \in Key : keydb'[j] = keydb[j] \/ (keydb'[j] = None /\ ~Writing(j))
    BY <1>3, <2>1 DEF IInv, TypeOK
  <2> QED
    BY <1>1, <1>2, <1>4, <1>7, <2>2, ApartKept DEF IInv, TypeOK
<1> QED
  BY <1>4, <1>5, <1>6, <1>7 DEF IInv

\* get_new_seq: the number is new, so that nothing is stored under it.
LEMMA PutSeqIInv ==
  ASSUME IInv, NEW t \in Thread, PutSeq(t)
  PROVE  IInv'
<1>1. UNCHANGED <<keydb, valuedb, truth, reopens>> /\ sequence' = sequence + 1 /\ issued' = issued + 1
  BY DEF PutSeq, stores
<1>2. op[t] \in Op /\ op[t].pc = "put_seq" /\ t \in Early
  BY DEF IInv, TypeOK, PutSeq, At, Early, EarlySteps, PutSteps
<1>3. /\ IsFiniteSet(Early) /\ Cardinality(Early) \in Nat
      /\ Cardinality(Early \ {t}) = Cardinality(Early) - 1
      /\ Cardinality(Early \ {t}) \in Nat
  BY <1>2, EarlyFinite, FS_RemoveElement, FS_CardinalityType
<1>4. sequence \in PhysicalKey
  BY <1>3, NewDBAssumption DEF IInv, TypeOK, Bounded, PhysicalKey
<1> DEFINE o == [op[t] EXCEPT !.pc = "put_key", !.pkey = sequence]
<1>5. o \in Op /\ o.pc = "put_key" /\ o.pkey = sequence /\ o.key = op[t].key /\ o.val = op[t].val
  BY <1>2, <1>4 DEF Op, PutSteps, MaybePhysicalKey
<1>6. op' = [op EXCEPT ![t] = o]
  BY DEF PutSeq
<1> HIDE DEF o
<1>7. op'[t] = o /\ \A u \in Thread \ {t} : op'[u] = op[u]
  BY <1>6 DEF IInv, TypeOK
<1>8. TypeOK'
  BY <1>1, <1>5, <1>6 DEF IInv, TypeOK
<1>9. StepsOK'
  BY <1>2, <1>4, <1>5, <1>7 DEF IInv, StepsOK, PutSteps, LateSteps
<1>10. Bounded'
  <2>1. Early' = Early \ {t}
    BY <1>5, <1>7 DEF Early, EarlySteps
  <2> QED
    BY <1>1, <1>3, <2>1, NewDBAssumption DEF IInv, TypeOK, Bounded
<1>11. ASSUME reopens' = 0 PROVE Apart'
  <2>1. Apart /\ sequence \in Nat /\ sequence' = sequence + 1
    BY <1>1, <1>11 DEF IInv, TypeOK
  <2>2. \A k \in Key : keydb[k] # sequence
    BY <2>1, NewDBAssumption DEF Apart
  <2>3. valuedb[sequence] = None
    BY <1>4, <2>1 DEF Apart
  <2>4. \A u \in Thread \ {t} : op[u].pc \in LateSteps => op[u].pkey # sequence /\ op[u].pkey < sequence + 1
    BY <2>1 DEF Apart, IInv, StepsOK, PhysicalKey
  <2>5. \A k \in Key : keydb'[k] # None => keydb'[k] < sequence'
    BY <1>1, <2>1 DEF Apart, IInv, TypeOK, MaybePhysicalKey, PhysicalKey
  <2>6. \A p \in PhysicalKey : valuedb'[p] # None => p < sequence'
    BY <1>1, <2>1 DEF Apart, PhysicalKey
  <2>7. \A u \in Thread : op'[u].pc \in LateSteps => op'[u].pkey < sequence'
    BY <1>1, <1>5, <1>7, <2>1, <2>4
  <2>8. \A u \in Thread : op'[u].pc = "put_key" =>
          valuedb'[op'[u].pkey] = None /\ \A k \in Key : keydb'[k] # op'[u].pkey
    BY <1>1, <1>5, <1>7, <2>1, <2>2, <2>3 DEF Apart
  <2>9. \A u \in Thread : op'[u].pc = "put_value" =>
          \A k \in Key : keydb'[k] = op'[u].pkey <=> k = op'[u].key
    BY <1>1, <1>5, <1>7, <2>1 DEF Apart
  <2>10. \A s, u \in Thread : op'[s].pc \in LateSteps /\ op'[u].pc \in LateSteps /\ s # u =>
           op'[s].pkey # op'[u].pkey
    BY <1>5, <1>7, <2>1, <2>4 DEF Apart
  <2> QED
    BY <1>1, <2>1, <2>5, <2>6, <2>7, <2>8, <2>9, <2>10 DEF Apart
<1> QED
  BY <1>8, <1>9, <1>10, <1>11 DEF IInv

\* The number of the Put gets into keydb_; the Put goes on or has failed.
LEMMA PutKeyIInv ==
  ASSUME IInv, NEW t \in Thread, PutKey(t)
  PROVE  IInv'
<1> DEFINE k == op[t].key
           p == op[t].pkey
<1>1. op[t] \in Op /\ op[t].pc = "put_key" /\ k \in Key /\ p \in PhysicalKey /\ op[t].val \in Val
  BY DEF IInv, TypeOK, StepsOK, PutKey, At, PutSteps, LateSteps, Op
<1>2. UNCHANGED <<valuedb, sequence, issued, reopens>>
  BY DEF PutKey
<1>3. keydb' = keydb \/ keydb' = [keydb EXCEPT ![k] = p]
  BY DEF PutKey
<1>4. PICK o \in Op : /\ op' = [op EXCEPT ![t] = o]
                      /\ \/ o.pc = "idle"
                         \/ /\ o.pc = "put_value" /\ o.key = k /\ o.pkey = p /\ o.val = op[t].val
                            /\ keydb' = [keydb EXCEPT ![k] = p]
  <2>1. CASE op' = [op EXCEPT ![t].pc = "put_value"] /\ keydb' = [keydb EXCEPT ![k] = p]
    <3> DEFINE o == [op[t] EXCEPT !.pc = "put_value"]
    <3>1. o \in Op /\ o.pc = "put_value" /\ o.key = k /\ o.pkey = p /\ o.val = op[t].val
      BY <1>1 DEF Op, PutSteps
    <3>2. op' = [op EXCEPT ![t] = o]
      BY <2>1
    <3> QED
      BY <2>1, <3>1, <3>2
  <2>2. CASE op' = [op EXCEPT ![t] = Idle]
    <3>1. Idle \in Op /\ Idle.pc = "idle"
      BY DEF Idle, Op, Val, MaybePhysicalKey
    <3> QED
      BY <2>2, <3>1
  <2> QED
    BY <2>1, <2>2 DEF PutKey, Goto, Complete
<1>5. op'[t] = o /\ \A u \in Thread \ {t} : op'[u] = op[u]
  BY <1>4 DEF IInv, TypeOK
<1>6. TypeOK'
  <2>1. keydb' \in [Key -> MaybePhysicalKey]
    BY <1>1, <1>3 DEF IInv, TypeOK, MaybePhysicalKey
  <2>2. truth' \in [Key -> SUBSET Val]
    <3>1. truth[k] \cup {op[t].val} \in SUBSET Val
      BY <1>1 DEF IInv, TypeOK
    <3>2. truth' = truth \/ truth' = [truth EXCEPT ![k] = truth[k] \cup {op[t].val}]
      BY DEF PutKey, Complete
    <3> QED
      BY <1>1, <3>1, <3>2 DEF IInv, TypeOK
  <2> QED
    BY <1>2, <1>4, <2>1, <2>2 DEF IInv, TypeOK
<1>7. StepsOK'
  BY <1>1, <1>4, <1>5 DEF IInv, StepsOK, PutSteps, LateSteps
<1>8. Bounded'
  <2>1. Early' \subseteq Early
    BY <1>4, <1>5 DEF Early, EarlySteps, PutSteps
  <2> QED
    BY <1>2, <2>1, BoundedKept DEF IInv, TypeOK
<1>9. ASSUME reopens' = 0, keydb' # [keydb EXCEPT ![k] = p] PROVE Apart'
  <2>1. keydb' = keydb /\ o.pc = "idle"
    BY <1>3, <1>4, <1>9
  <2> QED
    BY <1>2, <1>5, <1>9, <2>1, ApartKept DEF IInv, TypeOK, LateSteps
<1>10. ASSUME reopens' = 0, keydb' = [keydb EXCEPT ![k] = p] PROVE Apart'
  <2>1. Apart
    BY <1>2, <1>10 DEF IInv
  <2>2. /\ keydb'[k] = p /\ \A j \in Key \ {k} : keydb'[j] = keydb[j]
        /\ p < sequence /\ valuedb[p] = None /\ \A j \in Key : keydb[j] # p
    BY <1>1, <1>10, <2>1 DEF Apart, IInv, TypeOK, LateSteps
  <2> HIDE DEF k, p
  <2>3. \A j \in Key : keydb'[j] # None => keydb'[j] < sequence'
    BY <1>2, <2>1, <2>2 DEF Apart
  <2>4. \A i, j \in Key : keydb'[i] = keydb'[j] /\ keydb'[i] # None => i = j
    BY <2>1, <2>2 DEF Apart
  <2>5. \A j \in Key : keydb'[j] # None /\ valuedb'[keydb'[j]] # None => valuedb'[keydb'[j]].key = j
    BY <1>2, <2>1, <2>2 DEF Apart
  <2>6. \A u \in Thread \ {t} : op[u].pc \in LateSteps => op[u].pkey # p
    BY <1>1, <2>1 DEF Apart, LateSteps, p
  <2>7. valuedb' = valuedb /\ sequence' = sequence
    BY <1>2
  <2>8. op'[t].pc \in LateSteps =>
          op'[t].pc = "put_value" /\ op'[t].key = k /\ op'[t].pkey = p
    BY <1>4, <1>5 DEF LateSteps
  <2>9. \A u \in Thread \ {t} : op'[u] = op[u]
    BY <1>5
  <2>10. \A u \in Thread : op'[u].pc \in LateSteps => op'[u].pkey < sequence'
    <3>1. \A u \in Thread : op[u].pc \in LateSteps => op[u].pkey < sequence
      BY <2>1 DEF Apart
    <3> QED
      BY <2>2, <2>7, <2>8, <2>9, <3>1
  <2>11. \A u \in Thread : op'[u].pc = "put_key" =>
           valuedb'[op'[u].pkey] = None /\ \A j \in Key : keydb'[j] # op'[u].pkey
    <3> SUFFICES ASSUME NEW u \in Thread, op'[u].pc = "put_key"
                 PROVE  valuedb'[op'[u].pkey] = None /\ \A j \in Key : keydb'[j] # op'[u].pkey
      OBVIOUS
    <3>1. u # t
      BY <2>8 DEF LateSteps
    <3>2. op'[u] = op[u] /\ op[u].pc = "put_key"
      BY <2>9, <3>1
    <3>3. valuedb[op[u].pkey] = None /\ \A j \in Key : keydb[j] # op[u].pkey
      BY <2>1, <3>2 DEF Apart
    <3>4. op[u].pkey # p
      BY <2>6, <3>1, <3>2 DEF LateSteps
    <3> QED
      BY <2>2, <2>7, <3>2, <3>3, <3>4
  <2>12. \A u \in Thread : op'[u].pc = "put_value" =>
           \A j \in Key : keydb'[j] = op'[u].pkey <=> j = op'[u].key
    <3> SUFFICES ASSUME NEW u \in Thread, op'[u].pc = "put_value", NEW j \in Key
                 PROVE  keydb'[j] = op'[u].pkey <=> j = op'[u].key
      OBVIOUS
    <3>1. CASE u = t
      BY <2>2, <2>8, <3>1 DEF LateSteps
    <3>2. CASE u # t
      <4>1. op'[u] = op[u] /\ op[u].pc = "put_value"
        BY <2>9, <3>2
      <4>2. keydb[j] = op[u].pkey <=> j = op[u].key
        BY <2>1, <4>1 DEF Apart
      <4>3. op[u].pkey # p
        BY <2>6, <3>2, <4>1 DEF LateSteps
      <4>4. op[u].key # k
        BY <1>1, <3>2, <4>1 DEF IInv, StepsOK, PutSteps, k
      <4> QED
        BY <2>2, <4>1, <4>2, <4>3, <4>4
    <3> QED
      BY <3>1, <3>2
  <2>13. \A s, u \in Thread : op'[s].pc \in LateSteps /\ op'[u].pc \in LateSteps /\ s # u =>
           op'[s].pkey # op'[u].pkey
    <3>1. \A s, u \in Thread : op[s].pc \in LateSteps /\ op[u].pc \in LateSteps /\ s # u =>
            op[s].pkey # op[u].pkey
      BY <2>1 DEF Apart
    <3> QED
      BY <2>6, <2>8, <2>9, <3>1
  <2>14. \A q \in PhysicalKey : valuedb'[q] # None => q < sequence'
    BY <2>1, <2>7 DEF Apart
  <2> QED
    BY <2>3, <2>4, <2>5, <2>10, <2>11, <2>12, <2>13, <2>14 DEF Apart
<1> QED
  BY <1>6, <1>7, <1>8, <1>9, <1>10 DEF IInv

\* The record is stored under the number that only its key maps to.
LEMMA PutValueIInv ==
  ASSUME IInv, NEW t \in Thread, PutValue(t)
  PROVE  IInv'
<1> DEFINE k == op[t].key
           p == op[t].pkey
           r == [key |-> k, val |-> op[t].val]
<1>1. op[t].pc = "put_value" /\ k \in Key /\ p \in PhysicalKey /\ op[t].val \in Value
  BY DEF IInv, StepsOK, PutValue, At, PutSteps, LateSteps
<1>2. UNCHANGED <<keydb, sequence, issued, reopens>> /\ op' = [op EXCEPT ![t] = Idle]
  BY DEF PutValue, Complete
<1>3. valuedb' = valuedb \/ valuedb' = [valuedb EXCEPT ![p] = r]
  BY DEF PutValue
<1>4. /\ op'[t].pc = "idle" /\ Idle \in Op
      /\ \A u \in Thread \ {t} : op'[u] = op[u]
  BY <1>2 DEF IInv, TypeOK, Idle, Op, Val, MaybePhysicalKey
<1>5. TypeOK'
  <2>1. valuedb' \in [PhysicalKey -> {None} \cup [key : Key, val : Value]]
    BY <1>1, <1>3 DEF IInv, TypeOK
  <2>2. truth' \in [Key -> SUBSET Val]
    <3>1. truth[k] \cup {op[t].val} \in SUBSET Val /\ {op[t].val} \in SUBSET Val
      BY <1>1 DEF IInv, TypeOK, Val
    <3>2. \/ truth' = [truth EXCEPT ![k] = {op[t].val}]
          \/ truth' = [truth EXCEPT ![k] = truth[k] \cup {op[t].val}]
      BY DEF PutValue, Complete
    <3> QED
      BY <1>1, <3>1, <3>2 DEF IInv, TypeOK
  <2> QED
    BY <1>2, <1>4, <2>1, <2>2 DEF IInv, TypeOK
<1>6. StepsOK'
  BY <1>4 DEF IInv, StepsOK, PutSteps, LateSteps
<1>7. Bounded'
  <2>1. Early' \subseteq Early
    BY <1>4 DEF Early, EarlySteps, PutSteps
  <2> QED
    BY <1>2, <2>1, BoundedKept DEF IInv, TypeOK
<1>8. ASSUME reopens' = 0, valuedb' = valuedb PROVE Apart'
  BY <1>2, <1>4, <1>8, ApartKept DEF IInv, TypeOK, LateSteps
<1>9. ASSUME reopens' = 0, valuedb' = [valuedb EXCEPT ![p] = r] PROVE Apart'
  <2>1. Apart
    BY <1>2, <1>9 DEF IInv
  <2>2. /\ valuedb'[p].key = k /\ \A q \in PhysicalKey \ {p} : valuedb'[q] = valuedb[q]
        /\ p < sequence /\ \A j \in Key : keydb[j] = p <=> j = k
    BY <1>1, <1>9, <2>1 DEF Apart, IInv, TypeOK, LateSteps
  <2> HIDE DEF k, p, r
  <2>3. keydb' = keydb /\ sequence' = sequence
    BY <1>2
  <2>4. \A u \in Thread : op'[u].pc \in LateSteps => op'[u] = op[u]
    BY <1>4 DEF LateSteps
  <2>5. \A q \in PhysicalKey : valuedb'[q] # None => q < sequence'
    BY <2>1, <2>2, <2>3 DEF Apart
  <2>6. \A j \in Key : keydb'[j] # None /\ valuedb'[keydb'[j]] # None => valuedb'[keydb'[j]].key = j
    <3> SUFFICES ASSUME NEW j \in Key, keydb[j] # None, valuedb'[keydb[j]] # None
                 PROVE  valuedb'[keydb[j]].key = j
      BY <2>3
    <3>1. keydb[j] \in PhysicalKey
      BY DEF IInv, TypeOK, MaybePhysicalKey
    <3>2. CASE keydb[j] = p
      BY <2>2, <3>2
    <3>3. CASE keydb[j] # p
      <4>1. valuedb'[keydb[j]] = valuedb[keydb[j]]
        BY <2>2, <3>1, <3>3
      <4>2. valuedb[keydb[j]] # None => valuedb[keydb[j]].key = j
        BY <2>1 DEF Apart
      <4> QED
        BY <4>1, <4>2
    <3> QED
      BY <3>2, <3>3
  <2>7. \A u \in Thread : op'[u].pc = "put_key" =>
          valuedb'[op'[u].pkey] = None /\ \A j \in Key : keydb'[j] # op'[u].pkey
    <3> SUFFICES ASSUME NEW u \in Thread, op'[u].pc = "put_key"
                 PROVE  valuedb'[op[u].pkey] = None /\ \A j \in Key : keydb[j] # op[u].pkey
      BY <2>3, <2>4 DEF LateSteps
    <3>1. op[u].pc = "put_key"
      BY <2>4 DEF LateSteps
    <3>2. op[u].pkey \in PhysicalKey
      BY <3>1 DEF LateSteps, IInv, StepsOK
    <3>3. valuedb[op[u].pkey] = None
      BY <2>1, <3>1 DEF Apart
    <3>4. \A j \in Key : keydb[j] # op[u].pkey
      BY <2>1, <3>1 DEF Apart
    <3>5. op[u].pkey # p
      BY <1>1, <2>2, <3>4 DEF k
    <3>6. valuedb'[op[u].pkey] = valuedb[op[u].pkey]
      BY <2>2, <3>2, <3>5
    <3> QED
      BY <3>3, <3>4, <3>6
  <2>8. \A u \in Thread : op'[u].pc \in LateSteps => op'[u].pkey < sequence'
    BY <2>1, <2>3, <2>4 DEF Apart
  <2>9. \A u \in Thread : op'[u].pc = "put_value" =>
          \A j \in Key : keydb'[j] = op'[u].pkey <=> j = op'[u].key
    BY <2>1, <2>3, <2>4 DEF Apart, LateSteps
  <2>10. \A s, u \in Thread : op'[s].pc \in LateSteps /\ op'[u].pc \in LateSteps /\ s # u =>
           op'[s].pkey # op'[u].pkey
    <3>1. \A s, u \in Thread : op[s].pc \in LateSteps /\ op[u].pc \in LateSteps /\ s # u =>
            op[s].pkey # op[u].pkey
      BY <2>1 DEF Apart
    <3> QED
      BY <2>4, <3>1
  <2>11. \A j \in Key : keydb'[j] # None => keydb'[j] < sequence'
    BY <2>1, <2>3 DEF Apart
  <2>12. \A i, j \in Key : keydb'[i] = keydb'[j] /\ keydb'[i] # None => i = j
    BY <2>1, <2>3 DEF Apart
  <2> QED
    BY <2>5, <2>6, <2>7, <2>8, <2>9, <2>10, <2>11, <2>12 DEF Apart
<1> QED
  BY <1>3, <1>5, <1>6, <1>7, <1>8, <1>9 DEF IInv

LEMMA RestartIInv ==
  ASSUME IInv, Restart
  PROVE  IInv'
<1>1. /\ UNCHANGED <<keydb, valuedb, issued>> /\ sequence' = 0 /\ reopens' = reopens + 1
      /\ op' = [t \in Thread |-> Idle]
  BY DEF Restart, stores
<1>2. Idle \in Op /\ Idle.pc = "idle"
  BY DEF Idle, Op, Val, MaybePhysicalKey
<1>3. truth' \in [Key -> SUBSET Val]
  <2>1. \A k \in Key : op[Owner[k]].val \in Val /\ truth[k] \in SUBSET Val
    BY NewDBAssumption DEF IInv, TypeOK, Op
  <2> QED
    BY <2>1 DEF Restart
<1>4. TypeOK'
  BY <1>1, <1>2, <1>3 DEF IInv, TypeOK
<1>5. StepsOK'
  BY <1>1, <1>2 DEF StepsOK, PutSteps, LateSteps
<1>6. Bounded'
  <2>1. Early' \subseteq Early
    BY <1>1, <1>2 DEF Early, EarlySteps, PutSteps
  <2> QED
    BY <1>1, <2>1, BoundedKept DEF IInv, TypeOK
<1>7. reopens' # 0
  BY <1>1 DEF IInv, TypeOK
<1> QED
  BY <1>4, <1>5, <1>6, <1>7 DEF IInv

\* The collector only ever drops records.
LEMMA CollectorIInv ==
  ASSUME IInv, vLogGCWorker \/ UNCHANGED vars
  PROVE  IInv'
<1>1. UNCHANGED <<keydb, sequence, issued, op, truth, reopens>>
  BY DEF vLogGCWorker, GCSort, GCFiles, GCReady, GCNotReady, GCErase, vars, stores, hist
<1>2. valuedb' = valuedb \/ \E G : valuedb' = Filtered(G)
  BY DEF vLogGCWorker, GCSort, GCFiles, GCReady, GCNotReady, GCErase, vars, stores
<1>3. /\ valuedb' \in [PhysicalKey -> {None} \cup [key : Key, val : Value]]
      /\ \A p \in PhysicalKey : valuedb'[p] = valuedb[p] \/ valuedb'[p] = None
  BY <1>2 DEF Filtered, IInv, TypeOK
<1>4. TypeOK' /\ StepsOK'
  BY <1>1, <1>3 DEF IInv, TypeOK, StepsOK
<1>5. Bounded'
  BY <1>1 DEF IInv, Bounded, Early
<1>6. ASSUME reopens' = 0 PROVE Apart'
  BY <1>1, <1>3, <1>6, ApartKept DEF IInv, TypeOK
<1> QED
  BY <1>4, <1>5, <1>6 DEF IInv

LEMMA NextIInv ==
  ASSUME IInv, [Next]_vars
  PROVE  IInv'
<1>1. ASSUME NEW t \in Thread, NEW k \in Key, NEW v \in Value, StartPut(t, k, v) PROVE IInv'
  BY <1>1, StartPutIInv
<1>2. ASSUME NEW t \in Thread, NEW k \in Key, Delete(t, k) \/ GetKey(t, k) PROVE IInv'
  BY <1>2, DeleteIInv, GetKeyIInv
<1>3. ASSUME NEW t \in Thread, PutRead(t) \/ PutCollect(t) \/ GetValue(t) \/ Return(t) PROVE IInv'
  BY <1>3, ReadStepsIInv
<1>4. ASSUME NEW t \in Thread, PutSeq(t) \/ PutKey(t) \/ PutValue(t) PROVE IInv'
  BY <1>4, PutSeqIInv, PutKeyIInv, PutValueIInv
<1>5. CASE Restart
  BY <1>5, RestartIInv
<1>6. CASE vLogGCWorker \/ UNCHANGED vars
  BY <1>6, CollectorIInv
<1> QED
  BY <1>1, <1>2, <1>3, <1>4, <1>5, <1>6 DEF Next

\* IInv is inductive, for all keys, values and threads and whatever calls fail: no
\* number is handed out twice until the database is opened again, so that the
\* physical keys of two keys, stored or about to be, are apart.
THEOREM Inductive == Spec => []IInv
<1>1. Init => IInv
  BY InitIInv
<1>2. IInv /\ [Next]_vars => IInv'
  BY NextIInv
<1> QED
  BY <1>1, <1>2, PTL DEF Spec

\* For all keys, values and threads, whatever calls fail and however Puts, Gets,
\* Deletes and collections interleave: until the database is opened again, no key
\* maps to a record of another key.
THEOREM OwnRecords == Spec => []NeverAnothersRecord
<1>1. IInv => NeverAnothersRecord
  BY DEF IInv, Apart, NeverAnothersRecord
<1> QED
  BY <1>1, Inductive, PTL
=============================================================================
