----------------------------- MODULE DataProofs -----------------------------
(***************************************************************************)
(* Proofs about what a running function meets: the key-value store, its    *)
(* own invocation, and the writer that stores the row of it.  The store    *)
(* implements the expiring map and its page walks miss nothing; answers    *)
(* and workers belong to one invocation at a time; and the writer's places *)
(* and bytes add up.                                                       *)
(***************************************************************************)
EXTENDS AsyncWriter, Invocation, KVStore, FiniteSetTheorems, SequenceTheorems,
        WellFoundedInduction, TLAPS

-----------------------------------------------------------------------------
(* Order and size.  Every set of numbers has a least one, which is what    *)
(* stands in for induction below.                                          *)

LEMMA LeastNumber ==
  ASSUME NEW T, T \subseteq Nat, T # {}
  PROVE  \E x \in T : \A y \in T : x <= y
  <1> DEFINE R == {ss \in Nat \X Nat : ss[1] < ss[2]}
  <1>1. IsWellFoundedOn(R, Nat)
    BY NatLessThanWellFounded, Zenon DEF OpToRel
  <1>2. PICK x \in T : \A y \in T : ~ (<<y, x>> \in R)
    <2> HIDE DEF R
    <2> QED
      BY WFMin, <1>1, Zenon
  <1>3. \A y \in T : ~ (y < x)
    BY <1>2
  <1> QED
    BY <1>3

\* A finite set of numbers has an upper bound: the smallest that had none
\* would have a smaller one without a bound inside it.
LEMMA FiniteIsBounded ==
  ASSUME NEW S, S \subseteq Nat, IsFiniteSet(S)
  PROVE  \E m \in Nat : \A j \in S : j < m
  <1> DEFINE Unbounded(R) == \A m \in Nat : \E j \in R : ~ (j < m)
             T == {n \in Nat : \E R \in SUBSET Nat : IsFiniteSet(R) /\ Cardinality(R) = n /\ Unbounded(R)}
  <1> SUFFICES ASSUME Unbounded(S)
               PROVE  FALSE
    OBVIOUS
  <1>1. T # {} /\ T \subseteq Nat
    BY FS_CardinalityType
  <1>2. PICK n \in T : \A y \in T : n <= y
    BY <1>1, LeastNumber
  <1>3. PICK R \in SUBSET Nat : IsFiniteSet(R) /\ Cardinality(R) = n /\ Unbounded(R)
    BY <1>2
  <1>4. PICK x \in R : TRUE
    BY <1>3
  <1>5. IsFiniteSet(R \ {x}) /\ Cardinality(R \ {x}) = n - 1 /\ n \in Nat
    BY <1>2, <1>3, <1>4, FS_RemoveElement
  <1>6. Cardinality(R \ {x}) \in Nat
    BY <1>5, FS_CardinalityType
  <1>7. R \ {x} \in SUBSET Nat /\ n - 1 \notin T
    <2>1. R \ {x} \in SUBSET Nat
      OBVIOUS
    <2>2. \A y \in T : y # n - 1
      <3> HIDE DEF T
      <3> QED
        BY <1>1, <1>2, <1>5
    <2> QED
      BY <2>1, <2>2
  <1>8. ~ Unbounded(R \ {x})
    BY <1>5, <1>6, <1>7
  <1>9. PICK m \in Nat : \A j \in R \ {x} : j < m
    BY <1>8
  <1>10. x \in Nat /\ m + x + 1 \in Nat
    BY <1>4
  <1>11. \A j \in R : j \in Nat /\ j < m + x + 1
    BY <1>9, <1>10
  <1> QED
    BY <1>3, <1>10, <1>11

Below(S, k) == {j \in S : j < k}

\* In a finite set of numbers every position is taken.
LEMMA PositionTaken ==
  ASSUME NEW S, S \subseteq Nat, IsFiniteSet(S), NEW n \in Nat, n < Cardinality(S)
  PROVE  \E k \in S : Cardinality(Below(S, k)) = n
  <1> DEFINE T == {m \in Nat : Cardinality(Below(S, m)) > n}
  <1>1. \A m : IsFiniteSet(Below(S, m)) /\ Cardinality(Below(S, m)) \in Nat
    BY FS_Subset, FS_CardinalityType DEF Below
  <1>2. T # {}
    <2>1. PICK m \in Nat : \A j \in S : j < m
      BY FiniteIsBounded
    <2>2. Below(S, m) = S
      BY <2>1 DEF Below
    <2> QED
      BY <2>2
  <1>3. PICK m \in T : \A y \in T : m <= y
    BY <1>2, LeastNumber
  <1>4. m # 0
    <2>1. \A j \in S : j \in Nat /\ ~ (j < 0)
      OBVIOUS
    <2>2. Below(S, 0) = {}
      BY <2>1 DEF Below
    <2> QED
      BY <1>3, <2>2, FS_EmptySet
  <1>5. PICK k \in Nat : m = k + 1
    BY <1>3, <1>4
  <1>6. ~ (Cardinality(Below(S, k)) > n)
    BY <1>3, <1>5
  <1>a. \A j \in S : j \in Nat /\ (j < m <=> (j < k \/ j = k)) /\ ~ (k < k)
    BY <1>5
  <1>7. k \in S
    <2> SUFFICES ASSUME k \notin S
                 PROVE  FALSE
      OBVIOUS
    <2>1. Below(S, m) = Below(S, k)
      BY <1>a DEF Below
    <2> QED
      BY <1>3, <1>6, <2>1
  <1>8. Below(S, m) = Below(S, k) \cup {k} /\ k \notin Below(S, k)
    BY <1>a, <1>7 DEF Below
  <1>9. Cardinality(Below(S, m)) = Cardinality(Below(S, k)) + 1
    BY <1>1, <1>8, FS_AddElement
  <1> QED
    BY <1>1, <1>3, <1>6, <1>7, <1>9
-----------------------------------------------------------------------------
(* The key-value store.                                                    *)

KVRows == [there : BOOLEAN, val : KVValues, exp : 0 .. MaxKVNow + 1]
PutRows == [on : BOOLEAN, key : KVKeys \cup {0}, val : KVValues, ttl : KVTTLs, at : 0 .. MaxKVNow]
Pagers == [on : BOOLEAN, cursor : KVKeys \cup {0}, seen : SUBSET KVKeys]

\* A put that waits took its time in the past, for a key that is used.
PutsKnow ==
  \A c \in DOMAIN putting : putting[c].on => putting[c].key \in UsedKeys /\ putting[c].at \in 1 .. kvNow

\* A walk under way has been shown every steady key up to its cursor.
WalkKnows ==
  /\ ~pager.on => pager = IdlePager
  /\ pager.on => steady \subseteq Listed /\ \A k \in steady : k <= pager.cursor => k \in pager.seen

KVInv == KVTypeOK /\ PutsKnow /\ WalkKnows

\* The statements and transactions that the callers come down to.
KVOperation ==
  \/ \E c \in DOMAIN putting, k \in UsedKeys, v \in KVValues, ttl \in KVTTLs : KVPutCall(c, k, v, ttl)
  \/ \E c \in DOMAIN putting : KVPut(c) \/ KVPutCancelled(c)
  \/ \E k \in UsedKeys : KVDelete(k)
  \/ \E k \in UsedKeys, d \in KVDeltas, ttl \in KVTTLs : KVIncr(k, d, ttl)
  \/ \E k \in UsedKeys, v \in KVValues, ttl \in KVTTLs : KVCASInsert(k, v, ttl)
  \/ \E k \in UsedKeys, e \in KVValues, v \in KVValues, ttl \in KVTTLs : KVCASSwap(k, e, v, ttl)
  \/ SdkBatch \/ KVSweepExpired \/ KVListWithCursor \/ KVCascade \/ KVClock

\* The values that the callers write are values.
LEMMA KVConstants ==
  /\ Text \in KVValues /\ Minus \in KVValues /\ JsonInt(0) \in KVValues /\ JsonInt(1) \in KVValues
  /\ NoRow \in KVRows /\ IdlePut \in PutRows /\ IdlePager \in Pagers
  /\ \A v \in KVValues, e \in 0 .. MaxKVNow + 1 : Row(v, e) \in KVRows
  <1>1. 0 \in Int64 /\ 1 \in Int64
    BY KVAssumption DEF KVAssumption, Int64, Lowest
  <1>2. Text \in KVValues /\ Minus \in KVValues /\ JsonInt(0) \in KVValues /\ JsonInt(1) \in KVValues
    BY <1>1 DEF KVValues
  <1>3. 0 \in 0 .. MaxKVNow + 1 /\ 0 \in 0 .. MaxKVNow
    BY KVAssumption DEF KVAssumption
  <1> QED
    BY <1>2, <1>3 DEF NoRow, KVRows, Row, IdlePut, PutRows, KVTTLs, IdlePager, Pagers

LEMMA StepIsOperation ==
  ASSUME KVNext
  PROVE  KVOperation
  <1>1. CASE KVReads
    BY <1>1 DEF KVReads, SdkList, OperatorList, kv_list, KVOperation
  <1>2. CASE KVClock
    BY <1>2 DEF KVOperation
  <1>3. CASE KVWrites
    <2>1. ASSUME NEW k \in UsedKeys, SdkDelete(k) \/ OperatorDelete(k) \/ kv_delete(k)
          PROVE  KVOperation
      BY <2>1 DEF SdkDelete, OperatorDelete, kv_delete, KVOperation
    <2>2. ASSUME NEW k \in UsedKeys, NEW ttl \in KVTTLs,
                 SdkCAS(k, ttl) \/ OperatorCAS(k, ttl) \/ kv_cas(k, ttl)
          PROVE  KVOperation
      <3>1. \/ \E v \in KVValues : KVCASInsert(k, v, ttl)
            \/ \E e \in KVValues, v \in KVValues : KVCASSwap(k, e, v, ttl)
        BY <2>2, KVConstants DEF SdkCAS, OperatorCAS, kv_cas
      <3> QED
        BY <3>1 DEF KVOperation
    <2>3. ASSUME NEW k \in UsedKeys, NEW ttl \in KVTTLs, NEW c \in DOMAIN putting,
                 SdkPut(c, k, ttl) \/ OperatorPut(c, k, ttl) \/ kv_put(c, k, ttl)
          PROVE  KVOperation
      <3>1. \E v \in KVValues : KVPutCall(c, k, v, ttl)
        BY <2>3, KVConstants DEF SdkPut, OperatorPut, kv_put
      <3> QED
        BY <3>1 DEF KVOperation
    <2>4. ASSUME NEW k \in UsedKeys, NEW ttl \in KVTTLs,
                 OperatorIncr(k, 1, ttl) \/ kv_incr(k, 0, ttl) \/ \E d \in KVDeltas : SdkIncr(k, d, ttl)
          PROVE  KVOperation
      <3>1. \E d \in KVDeltas : KVIncr(k, d, ttl)
        BY <2>4 DEF OperatorIncr, kv_incr, SdkIncr, KVDeltas
      <3> QED
        BY <3>1 DEF KVOperation
    <2>5. ASSUME NEW c \in DOMAIN putting, KVPut(c) \/ KVPutCancelled(c)
          PROVE  KVOperation
      BY <2>5 DEF KVOperation
    <2>6. CASE SdkBatch \/ KVSweepExpired \/ KVCascade
      BY <2>6 DEF KVOperation
    <2> QED
      BY <1>3, <2>1, <2>2, <2>3, <2>4, <2>5, <2>6, Zenon DEF KVWrites
  <1> QED
    BY <1>1, <1>2, <1>3 DEF KVNext

\* The integers wrap around within their range.
LEMMA IncreasedIsValue ==
  ASSUME NEW n \in Int64 \cup {0}, NEW d \in KVDeltas
  PROVE  FmtIntStr(Wrap(n + d)) \in KVValues
  <1>1. PICK h \in Nat \ {0} : h = 2 * HalfRange
    BY KVAssumption DEF KVAssumption
  <1>2. n \in Int /\ d \in Int /\ HalfRange \in Nat /\ Lowest = -HalfRange /\ Lowest \in Int
    BY KVAssumption DEF KVAssumption, Int64, Lowest, KVDeltas
  <1>3. PICK m \in Int : m = n + d - Lowest
    BY <1>2
  <1>4. m % h \in 0 .. h - 1
    BY <1>1, <1>3
  <1>5. Wrap(n + d) = (m % h) + Lowest
    BY <1>1, <1>2, <1>3, SMT DEF Wrap
  <1>6. Wrap(n + d) \in Int64
    BY <1>1, <1>2, <1>4, <1>5 DEF Int64
  <1> QED
    BY <1>6, KVConstants DEF FmtIntStr, KVValues

\* The types, as facts for the steps below.
LEMMA KVTypes ==
  ASSUME KVTypeOK
  PROVE  /\ UsedKeys \subseteq KVKeys /\ kv \in [UsedKeys -> KVRows]
         /\ kvNow \in 1 .. MaxKVNow /\ kvNow \in Nat
         /\ putting \in [DOMAIN putting -> PutRows] /\ DOMAIN putting \subseteq KVCallers
         /\ pager \in Pagers /\ steady \subseteq KVKeys
         /\ \A k \in UsedKeys : kv[k] \in KVRows
         /\ \A c \in DOMAIN putting : putting[c] \in PutRows
         /\ KVKeys \subseteq Nat \ {0} /\ MaxKVNow \in Nat
  <1>1. /\ UsedKeys \subseteq KVKeys /\ kv \in [UsedKeys -> KVRows]
        /\ putting \in [DOMAIN putting -> PutRows] /\ DOMAIN putting \subseteq KVCallers
        /\ pager \in Pagers /\ steady \subseteq KVKeys
    BY DEF KVTypeOK, KVRows, PutRows, Pagers
  <1>2. kvNow \in 1 .. MaxKVNow /\ KVKeys \subseteq Nat \ {0} /\ MaxKVNow \in Nat
    BY KVAssumption DEF KVTypeOK, KVAssumption
  <1> QED
    BY <1>1, <1>2

\* A row of the table replaced by another row.
LEMMA OneRowWritten ==
  ASSUME KVTypeOK, NEW k \in UsedKeys, NEW row \in KVRows, kv' = [kv EXCEPT ![k] = row]
  PROVE  /\ DOMAIN kv' = UsedKeys /\ kv' \in [UsedKeys -> KVRows]
         /\ kv'[k] = row /\ \A j \in UsedKeys \ {k} : kv'[j] = kv[j]
  BY KVTypes DEF UsedKeys

\* The rows a put leaves and the expiry a CAS or an increment writes.
LEMMA WrittenRows ==
  ASSUME KVTypeOK, NEW row \in KVRows, NEW ttl \in KVTTLs, NEW v \in KVValues
  PROVE  /\ \A at \in 0 .. kvNow : Upserted(row, v, ttl, at) \in KVRows
         /\ WriteExpiry(row, ttl) \in 0 .. MaxKVNow + 1 /\ Row(v, WriteExpiry(row, ttl)) \in KVRows
  <1>1. row.exp \in 0 .. MaxKVNow + 1 /\ row.there \in BOOLEAN
    BY DEF KVRows
  <1>2. ttl \in {-1, 0, 1} /\ kvNow \in 1 .. MaxKVNow /\ MaxKVNow \in Nat
    BY KVTypes DEF KVTTLs, NoTTL
  <1>3. ASSUME NEW at \in 0 .. kvNow
        PROVE  Upserted(row, v, ttl, at) \in KVRows
    <2>1. PICK e : e = IF ttl # NoTTL \/ ~row.there THEN (IF ttl > 0 THEN at + ttl ELSE 0)
                       ELSE IF row.exp # 0 /\ row.exp <= at THEN 0 ELSE row.exp
      OBVIOUS
    <2>2. e \in 0 .. MaxKVNow + 1
      BY <1>1, <1>2, <2>1 DEF NoTTL
    <2>3. Upserted(row, v, ttl, at) = Row(v, e)
      BY <2>1 DEF Upserted
    <2> QED
      BY <2>2, <2>3, KVConstants
  <1>4. WriteExpiry(row, ttl) \in 0 .. MaxKVNow + 1
    BY <1>1, <1>2 DEF WriteExpiry, NoTTL
  <1> QED
    BY <1>3, <1>4, KVConstants

\* What the transaction of a batch leaves of the table, whatever its two
\* operations are.
LEMMA BatchRows ==
  ASSUME KVTypeOK, NEW op \in BatchOps, NEW rows_ \in [UsedKeys -> KVRows]
  PROVE  /\ BatchOp(rows_, op) \in [UsedKeys -> KVRows]
         /\ \A j \in UsedKeys \ {op.key} : BatchOp(rows_, op)[j] = rows_[j]
         /\ op.key \in UsedKeys
         /\ BatchOp(rows_, op)[op.key] \in {NoRow, Upserted(rows_[op.key], Text, NoTTL, kvNow)}
  <1>1. op.op \in {"put", "delete"} /\ op.key \in UsedKeys /\ op.ttl = NoTTL
    BY DEF BatchOps
  <1>2. Upserted(rows_[op.key], Text, NoTTL, kvNow) \in KVRows /\ NoRow \in KVRows
    <2>1. NoTTL \in KVTTLs /\ kvNow \in 0 .. kvNow
      BY KVTypes DEF KVTTLs
    <2>2. rows_[op.key] \in KVRows
      BY <1>1
    <2> QED
      BY <2>1, <2>2, WrittenRows, KVConstants
  <1>3. CASE op.op = "put"
    <2>1. BatchOp(rows_, op) = [rows_ EXCEPT ![op.key] = Upserted(rows_[op.key], Text, NoTTL, kvNow)]
      BY <1>1, <1>3 DEF BatchOp
    <2> QED
      BY <1>1, <1>2, <2>1
  <1>4. CASE op.op = "delete"
    <2>1. BatchOp(rows_, op) = [rows_ EXCEPT ![op.key] = NoRow]
      BY <1>1, <1>4 DEF BatchOp
    <2> QED
      BY <1>1, <1>2, <2>1
  <1> QED
    BY <1>1, <1>3, <1>4

\* The page and its cursor: without a cursor the page is all that is left,
\* with one it is all that is left up to it.
LEMMA PageAndCursor ==
  ASSUME KVTypeOK, NEW c, c = NextCursor(Remaining)
  PROVE  /\ c \in KVKeys \cup {0} /\ Page \subseteq KVKeys
         /\ c = 0 => Page = Remaining
         /\ c # 0 => \A k \in Remaining : k <= c => k \in Page
  <1>1. Remaining \subseteq KVKeys /\ Page \subseteq Remaining /\ Remaining \subseteq Nat
    BY KVTypes DEF Remaining, Page, Listed
  <1>2. IsFiniteSet(Remaining) /\ Cardinality(Remaining) \in Nat
    BY <1>1, KVAssumption, FS_Subset, FS_CardinalityType DEF KVAssumption
  <1>3. PageLimit \in Nat \ {0} /\ 0 \notin KVKeys
    BY KVAssumption DEF KVAssumption
  <1>4. \A k : IsFiniteSet(Below(Remaining, k)) /\ Cardinality(Below(Remaining, k)) \in Nat
    BY <1>2, FS_Subset, FS_CardinalityType DEF Below
  <1>5. Page = {k \in Remaining : Cardinality(Below(Remaining, k)) < PageLimit}
    BY DEF Page, Below
  <1>6. CASE Cardinality(Remaining) > PageLimit
    <2>1. c = CHOOSE k \in Remaining : Cardinality(Below(Remaining, k)) = PageLimit - 1
      BY <1>6 DEF NextCursor, Below
    <2>2. PageLimit - 1 \in Nat /\ PageLimit - 1 < Cardinality(Remaining)
      BY <1>2, <1>3, <1>6
    <2>3. \E k \in Remaining : Cardinality(Below(Remaining, k)) = PageLimit - 1
      BY <1>1, <1>2, <2>2, PositionTaken
    <2>4. c \in Remaining /\ Cardinality(Below(Remaining, c)) = PageLimit - 1
      BY <2>1, <2>3, Zenon
    <2>5. ASSUME NEW k \in Remaining, k <= c
          PROVE  k \in Page
      <3>1. \A j \in Remaining : j \in Nat /\ (j < k => j < c)
        BY <1>1, <2>4, <2>5
      <3>2. Below(Remaining, k) \subseteq Below(Remaining, c)
        BY <3>1 DEF Below
      <3>3. Cardinality(Below(Remaining, k)) <= Cardinality(Below(Remaining, c))
        BY <3>2, <1>4, FS_Subset
      <3> QED
        BY <1>3, <1>4, <1>5, <2>4, <3>3
    <2> QED
      BY <1>1, <1>3, <2>4, <2>5
  <1>7. CASE ~ (Cardinality(Remaining) > PageLimit)
    <2>1. c = 0
      BY <1>7 DEF NextCursor
    <2>2. ASSUME NEW k \in Remaining
          PROVE  k \in Page
      <3>1. k \in Nat /\ ~ (k < k)
        BY <1>1
      <3>2. Below(Remaining, k) \in SUBSET Remaining /\ Below(Remaining, k) # Remaining
        BY <3>1 DEF Below
      <3>3. /\ Cardinality(Below(Remaining, k)) <= Cardinality(Remaining)
            /\ Cardinality(Remaining) # Cardinality(Below(Remaining, k))
        BY <1>2, <3>2, FS_Subset
      <3> QED
        BY <1>2, <1>3, <1>4, <1>5, <1>7, <3>3
    <2> QED
      BY <1>1, <2>1, <2>2
  <1> QED
    BY <1>6, <1>7

KVDone == {"none", "put", "late put", "delete", "incr", "swap", "batch", "clear"}

\* What a step owes to the types.
LEMMA KVTypesKept ==
  ASSUME KVTypeOK, KVNext, kv' \in [UsedKeys -> KVRows], kvFn' \in BOOLEAN,
         kvNow' \in 1 .. MaxKVNow, putting' \in [DOMAIN putting -> PutRows], pager' \in Pagers,
         did' \in KVDone
  PROVE  KVTypeOK' /\ UsedKeys' = UsedKeys
  <1>1. DOMAIN kv' = UsedKeys /\ UsedKeys' = UsedKeys /\ DOMAIN putting' = DOMAIN putting
    BY DEF UsedKeys
  <1>2. UsedKeys \subseteq KVKeys /\ DOMAIN putting \subseteq KVCallers /\ walks \in BOOLEAN
    BY DEF KVTypeOK
  <1>3. walks' = walks /\ steady' \subseteq Listed'
    BY DEF KVNext
  <1>4. Listed' \subseteq KVKeys
    BY <1>1, <1>2 DEF Listed
  <1> QED
    BY <1>1, <1>2, <1>3, <1>4 DEF KVTypeOK, KVRows, PutRows, Pagers, KVDone

\* What a caller sees of a row at time t, and of a table.
Nothing == [there |-> FALSE]
SeenAt(row, t) == IF row.there /\ (row.exp = 0 \/ ~ (row.exp < t)) THEN row ELSE Nothing
View(rows_, t) == [k \in KVKeys |-> IF k \in DOMAIN rows_ THEN SeenAt(rows_[k], t) ELSE Nothing]

\* The map that the store stands for, before and after a step.
LEMMA MapIsView ==
  /\ [k \in KVKeys |-> KVGet(k)] = View(kv, kvNow)
  /\ [k \in KVKeys |-> KVGet(k)]' = View(kv', kvNow')
  BY DEF View, SeenAt, KVGet, Present, UsedKeys, Nothing

\* A write of one row, as a caller sees it.
LEMMA ViewOfWrite ==
  ASSUME KVTypeOK, NEW k \in UsedKeys, NEW row \in KVRows, kv' = [kv EXCEPT ![k] = row], NEW t
  PROVE  View(kv', t) = [View(kv, t) EXCEPT ![k] = SeenAt(row, t)]
  <1>1. /\ DOMAIN kv' = UsedKeys /\ kv'[k] = row /\ \A j \in UsedKeys \ {k} : kv'[j] = kv[j]
        /\ UsedKeys \subseteq KVKeys /\ DOMAIN kv = UsedKeys
    BY OneRowWritten, KVTypes DEF UsedKeys
  <1>2. \A j \in KVKeys : View(kv', t)[j] = [View(kv, t) EXCEPT ![k] = SeenAt(row, t)][j]
    BY <1>1 DEF View
  <1> QED
    BY <1>2 DEF View

\* A row that is seen is an entry of the map.
LEMMA SeenIsEntry ==
  ASSUME NEW v, NEW e
  PROVE  SeenAt(Row(v, e), kvNow) = IF e = 0 \/ ~ (e < kvNow) THEN TheMap!Entry(v, e) ELSE TheMap!Gone
  BY DEF SeenAt, Row, TheMap!Entry, TheMap!Gone, Nothing

LEMMA SeenIsAlive ==
  ASSUME KVTypeOK, NEW v, NEW e \in Nat
  PROVE  SeenAt(Row(v, e), kvNow) = TheMap!Alive(v, e)
  <1>1. kvNow \in Nat
    BY KVTypes
  <1>2. (e >= kvNow) <=> ~ (e < kvNow)
    BY <1>1
  <1> QED
    BY <1>2, SeenIsEntry DEF TheMap!Alive

\* A put that took its time at `at` leaves what the map allows, also when the
\* key expired while the put waited.
LEMMA PutIsAfterPut ==
  ASSUME KVTypeOK, NEW row \in KVRows, NEW v \in KVValues, NEW ttl \in KVTTLs, NEW at \in 1 .. kvNow
  PROVE  SeenAt(Upserted(row, v, ttl, at), kvNow)
           \in TheMap!AfterPut(SeenAt(row, kvNow), v, ttl, at)
  <1>1. PICK e : e = IF ttl # NoTTL \/ ~row.there THEN (IF ttl > 0 THEN at + ttl ELSE 0)
                     ELSE IF row.exp # 0 /\ row.exp <= at THEN 0 ELSE row.exp
    OBVIOUS
  <1>2. Upserted(row, v, ttl, at) = Row(v, e)
    BY <1>1 DEF Upserted
  <1>3. row.exp \in Nat /\ row.there \in BOOLEAN /\ kvNow \in Nat /\ at \in Nat /\ at <= kvNow
    BY KVTypes DEF KVRows
  <1>4. ttl \in {-1, 0, 1} /\ NoTTL = -1
    BY DEF KVTTLs, NoTTL
  <1>5. e \in Nat
    BY <1>1, <1>3, <1>4
  <1> DEFINE m == SeenAt(row, kvNow)
  <1>6. m.there <=> row.there /\ (row.exp = 0 \/ ~ (row.exp < kvNow))
    BY <1>3 DEF SeenAt, Nothing
  <1>7. m.there => m = row
    BY <1>6 DEF SeenAt
  <1>8. SeenAt(Row(v, e), kvNow) = TheMap!Alive(v, e)
    BY <1>5, SeenIsAlive
  <1>9. CASE ttl = NoTTL /\ row.there /\ ~m.there /\ row.exp > at
    <2>1. e = row.exp /\ e # 0 /\ e < kvNow /\ at < kvNow
      BY <1>1, <1>3, <1>4, <1>6, <1>9
    <2>2. SeenAt(Row(v, e), kvNow) = TheMap!Gone
      BY <2>1, SeenIsEntry
    <2> HIDE DEF m
    <2>3. TheMap!Gone \in TheMap!AfterPut(m, v, ttl, at)
      BY <1>9, <2>1 DEF TheMap!AfterPut
    <2> QED
      BY <1>2, <2>2, <2>3 DEF m
  <1>10. CASE ~ (ttl = NoTTL /\ row.there /\ ~m.there /\ row.exp > at)
    <2>1. e \in TheMap!Expiry(m, ttl, at)
      <3>1. CASE ttl # NoTTL
        BY <1>1, <1>4, <3>1 DEF TheMap!Expiry
      <3>2. CASE ttl = NoTTL /\ ~m.there
        <4>1. e = 0
          BY <1>1, <1>3, <1>4, <1>6, <1>10, <3>2
        <4> HIDE DEF m
        <4> QED
          BY <3>2, <4>1 DEF TheMap!Expiry
      <3>3. CASE ttl = NoTTL /\ m.there
        <4>1. e = row.exp \/ (e = 0 /\ row.exp = kvNow)
          BY <1>1, <1>3, <1>4, <1>6, <3>3
        <4>2. m.exp = row.exp
          BY <1>7, <3>3
        <4> HIDE DEF m
        <4> QED
          BY <3>3, <4>1, <4>2 DEF TheMap!Expiry
      <3> QED
        BY <3>1, <3>2, <3>3
    <2> HIDE DEF m
    <2>2. TheMap!Alive(v, e) \in TheMap!AfterPut(m, v, ttl, at)
      BY <2>1 DEF TheMap!AfterPut
    <2> QED
      BY <1>2, <1>8, <2>2 DEF m
  <1> QED
    BY <1>9, <1>10

\* The expiry a CAS or an increment writes is the one of the map.
LEMMA ExpiryIsMaps ==
  ASSUME KVTypeOK, NEW row \in KVRows, NEW ttl \in KVTTLs
  PROVE  WriteExpiry(row, ttl) \in TheMap!Expiry(SeenAt(row, kvNow), ttl, kvNow)
  <1>1. PICK m : m = SeenAt(row, kvNow)
    OBVIOUS
  <1>2. row.exp \in Nat /\ row.there \in BOOLEAN /\ kvNow \in Nat
    BY KVTypes DEF KVRows
  <1>3. ttl \in {-1, 0, 1} /\ NoTTL = -1
    BY DEF KVTTLs, NoTTL
  <1>4. (m.there <=> Present(row)) /\ (Present(row) => m.exp = row.exp)
    BY <1>1, <1>2 DEF SeenAt, Nothing, Present
  <1>5. WriteExpiry(row, ttl) \in TheMap!Expiry(m, ttl, kvNow)
    BY <1>3, <1>4 DEF WriteExpiry, TheMap!Expiry
  <1> QED
    BY <1>1, <1>5

LEMMA ExpireSeen ==
  ASSUME NEW K \in SUBSET {k \in KVKeys : View(kv, kvNow)[k].there /\ View(kv, kvNow)[k].exp = kvNow},
         View(kv', kvNow') = [k \in KVKeys |-> IF k \in K THEN TheMap!Gone ELSE View(kv, kvNow)[k]]
  PROVE  TheMap!MapExpire
  <1>1. \A k \in KVKeys : [j \in KVKeys |-> KVGet(j)][k] = View(kv, kvNow)[k]
    BY MapIsView
  <1>2. K \in SUBSET {k \in KVKeys : /\ [j \in KVKeys |-> KVGet(j)][k].there
                                     /\ [j \in KVKeys |-> KVGet(j)][k].exp = kvNow}
    BY <1>1
  <1>3. [k \in KVKeys |-> KVGet(k)]' =
           [k \in KVKeys |-> IF k \in K THEN TheMap!Gone ELSE [j \in KVKeys |-> KVGet(j)][k]]
    BY <1>1, MapIsView
  <1> QED
    BY <1>2, <1>3, Zenon DEF TheMap!MapExpire

\* Steps of the map, in terms of what is seen of the table.
LEMMA ViewSteps ==
  ASSUME kvNow' = kvNow
  PROVE  /\ \A k \in KVKeys, t \in Nat, v \in KVValues, ttl \in KVTTLs :
              \A e \in TheMap!AfterPut(View(kv, kvNow)[k], v, ttl, t) :
                 View(kv', kvNow') = [View(kv, kvNow) EXCEPT ![k] = e] => TheMap!MapPut(k, t)
         /\ \A k \in KVKeys : View(kv', kvNow') = [View(kv, kvNow) EXCEPT ![k] = TheMap!Gone] => TheMap!MapDelete(k)
         /\ \A k \in KVKeys, v \in KVValues, ttl \in KVTTLs :
              \A e \in TheMap!Expiry(View(kv, kvNow)[k], ttl, kvNow) :
                 View(kv', kvNow') = [View(kv, kvNow) EXCEPT ![k] = TheMap!Alive(v, e)] => TheMap!MapSwap(k)
         /\ View(kv', kvNow') = View(kv, kvNow) => TheMap!MapExpire
  <1>1. ASSUME NEW k \in KVKeys, NEW t \in Nat, NEW v \in KVValues, NEW ttl \in KVTTLs,
               NEW e \in TheMap!AfterPut(View(kv, kvNow)[k], v, ttl, t),
               View(kv', kvNow') = [View(kv, kvNow) EXCEPT ![k] = e]
        PROVE  TheMap!MapPut(k, t)
    BY <1>1, MapIsView, Zenon DEF TheMap!MapPut
  <1>2. ASSUME NEW k \in KVKeys, View(kv', kvNow') = [View(kv, kvNow) EXCEPT ![k] = TheMap!Gone]
        PROVE  TheMap!MapDelete(k)
    BY <1>2, MapIsView, Zenon DEF TheMap!MapDelete
  <1>3. ASSUME NEW k \in KVKeys, NEW v \in KVValues, NEW ttl \in KVTTLs,
               NEW e \in TheMap!Expiry(View(kv, kvNow)[k], ttl, kvNow),
               View(kv', kvNow') = [View(kv, kvNow) EXCEPT ![k] = TheMap!Alive(v, e)]
        PROVE  TheMap!MapSwap(k)
    BY <1>3, MapIsView, Zenon DEF TheMap!MapSwap
  <1>4. ASSUME View(kv', kvNow') = View(kv, kvNow)
        PROVE  TheMap!MapExpire
    <2>1. {} \in SUBSET {k \in KVKeys : View(kv, kvNow)[k].there /\ View(kv, kvNow)[k].exp = kvNow}
      OBVIOUS
    <2>2. View(kv, kvNow) = [k \in KVKeys |-> IF k \in {} THEN TheMap!Gone ELSE View(kv, kvNow)[k]]
      BY DEF View
    <2> QED
      BY <1>4, <2>1, <2>2, ExpireSeen
  <1> QED
    BY <1>1, <1>2, <1>3, <1>4

\* One operation: the types, what the waiting puts know, and the step of the
\* map that it is.
KVStepOK == KVTypeOK' /\ PutsKnow' /\ TheMap!MapNext

LEMMA PutsKnowKept ==
  ASSUME PutsKnow, KVTypeOK, UsedKeys' = UsedKeys, kvNow' \in Nat, kvNow <= kvNow', UNCHANGED putting
  PROVE  PutsKnow'
  <1>1. kvNow \in Nat
    BY KVTypes
  <1> QED
    BY <1>1 DEF PutsKnow

\* An operation that only writes one row.
LEMMA RowWriteKeeps ==
  ASSUME KVInv, KVNext, NEW k \in UsedKeys, NEW row \in KVRows, kv' = [kv EXCEPT ![k] = row],
         UNCHANGED <<kvFn, kvNow, putting, pager>>, did' \in KVDone
  PROVE  /\ KVTypeOK' /\ PutsKnow' /\ k \in KVKeys
         /\ View(kv', kvNow') = [View(kv, kvNow) EXCEPT ![k] = SeenAt(row, kvNow)]
         /\ View(kv, kvNow)[k] = SeenAt(kv[k], kvNow)
  <1>1. KVTypeOK /\ PutsKnow
    BY DEF KVInv
  <1>2. kv' \in [UsedKeys -> KVRows]
    BY <1>1, OneRowWritten
  <1>3. kvFn \in BOOLEAN
    BY <1>1 DEF KVTypeOK
  <1>4. KVTypeOK' /\ UsedKeys' = UsedKeys
    BY <1>1, <1>2, <1>3, KVTypes, KVTypesKept
  <1>5. PutsKnow'
    BY <1>1, <1>4, KVTypes, PutsKnowKept
  <1>6. k \in KVKeys /\ View(kv, kvNow)[k] = SeenAt(kv[k], kvNow)
    BY <1>1, KVTypes DEF View, UsedKeys
  <1>7. View(kv', kvNow) = [View(kv, kvNow) EXCEPT ![k] = SeenAt(row, kvNow)]
    BY <1>1, ViewOfWrite
  <1>8. kvNow' = kvNow
    OBVIOUS
  <1> QED
    BY <1>4, <1>5, <1>6, <1>7, <1>8

LEMMA DeleteStep ==
  ASSUME KVInv, KVNext, NEW k \in UsedKeys, KVDelete(k)
  PROVE  KVStepOK
  <1>1. kv' = [kv EXCEPT ![k] = NoRow] /\ did' = "delete" /\ UNCHANGED <<kvFn, kvNow, putting, pager>>
    BY DEF KVDelete
  <1>2. SeenAt(NoRow, kvNow) = TheMap!Gone
    BY DEF SeenAt, NoRow, TheMap!Gone, Nothing
  <1>3. /\ KVTypeOK' /\ PutsKnow' /\ k \in KVKeys
        /\ View(kv', kvNow') = [View(kv, kvNow) EXCEPT ![k] = TheMap!Gone]
    BY <1>1, <1>2, KVConstants, RowWriteKeeps DEF KVDone
  <1>4. TheMap!MapDelete(k)
    BY <1>1, <1>3, ViewSteps
  <1> QED
    BY <1>1, <1>3, <1>4 DEF KVStepOK, TheMap!MapNext

LEMMA CASStep ==
  ASSUME KVInv, KVNext, NEW k \in UsedKeys, NEW v \in KVValues, NEW ttl \in KVTTLs,
         KVCASInsert(k, v, ttl) \/ \E e \in KVValues : KVCASSwap(k, e, v, ttl)
  PROVE  KVStepOK
  <1>1. /\ kv' = [kv EXCEPT ![k] = Row(v, WriteExpiry(kv[k], ttl))] /\ did' = "swap"
        /\ UNCHANGED <<kvFn, kvNow, putting, pager>>
    BY DEF KVCASInsert, KVCASSwap
  <1>2. KVTypeOK /\ kv[k] \in KVRows
    BY KVTypes DEF KVInv
  <1>3. PICK x \in 0 .. MaxKVNow + 1 : x = WriteExpiry(kv[k], ttl)
    BY <1>2, WrittenRows
  <1>4. Row(v, x) \in KVRows /\ SeenAt(Row(v, x), kvNow) = TheMap!Alive(v, x)
    BY <1>2, KVConstants, SeenIsAlive, KVTypes
  <1>5. /\ KVTypeOK' /\ PutsKnow' /\ k \in KVKeys
        /\ View(kv', kvNow') = [View(kv, kvNow) EXCEPT ![k] = TheMap!Alive(v, x)]
        /\ View(kv, kvNow)[k] = SeenAt(kv[k], kvNow)
    <2>1. kv' = [kv EXCEPT ![k] = Row(v, x)] /\ did' \in KVDone
      BY <1>1, <1>3 DEF KVDone
    <2>2. PICK row \in KVRows : row = Row(v, x)
      BY <1>4
    <2>3. SeenAt(row, kvNow) = TheMap!Alive(v, x) /\ kv' = [kv EXCEPT ![k] = row]
      BY <1>4, <2>1, <2>2
    <2> QED
      BY <1>1, <2>1, <2>3, RowWriteKeeps, ZenonT(60)
  <1>6. x \in TheMap!Expiry(View(kv, kvNow)[k], ttl, kvNow)
    BY <1>2, <1>3, <1>5, ExpiryIsMaps
  <1>7. TheMap!MapSwap(k)
    BY <1>1, <1>5, <1>6, ViewSteps
  <1> QED
    BY <1>1, <1>5, <1>7 DEF KVStepOK, TheMap!MapNext

LEMMA IncrStep ==
  ASSUME KVInv, KVNext, NEW k \in UsedKeys, NEW d \in KVDeltas, NEW ttl \in KVTTLs, KVIncr(k, d, ttl)
  PROVE  KVStepOK
  <1>1. PICK v : v = IF Present(kv[k]) THEN kv[k].val ELSE JsonInt(0)
    OBVIOUS
  <1>2. /\ kv' = [kv EXCEPT ![k] = Row(Increased(v, d), WriteExpiry(kv[k], ttl))] /\ did' = "incr"
        /\ UNCHANGED <<kvFn, kvNow, putting, pager>>
        /\ Present(kv[k]) => IsInteger(kv[k].val)
    BY <1>1 DEF KVIncr, Increased, JsonInt
  <1>3. KVTypeOK /\ kv[k] \in KVRows
    BY KVTypes DEF KVInv
  <1>4. Increased(v, d) \in KVValues
    <2>1. kv[k].val \in KVValues
      BY <1>3 DEF KVRows
    <2>2. v.n \in Int64 \cup {0}
      BY <1>1, <1>2, <2>1 DEF KVValues, JsonInt, Text, Minus
    <2> QED
      BY <2>2, IncreasedIsValue DEF Increased
  <1>5. PICK x \in 0 .. MaxKVNow + 1 : x = WriteExpiry(kv[k], ttl)
    BY <1>3, <1>4, WrittenRows
  <1>6. Row(Increased(v, d), x) \in KVRows /\ SeenAt(Row(Increased(v, d), x), kvNow) = TheMap!Alive(Increased(v, d), x)
    BY <1>3, <1>4, KVConstants, SeenIsAlive, KVTypes
  <1>7. /\ KVTypeOK' /\ PutsKnow' /\ k \in KVKeys
        /\ View(kv', kvNow') = [View(kv, kvNow) EXCEPT ![k] = TheMap!Alive(Increased(v, d), x)]
        /\ View(kv, kvNow)[k] = SeenAt(kv[k], kvNow)
    <2>1. kv' = [kv EXCEPT ![k] = Row(Increased(v, d), x)] /\ did' \in KVDone
      BY <1>2, <1>5 DEF KVDone
    <2>2. PICK row \in KVRows : row = Row(Increased(v, d), x)
      BY <1>6
    <2>3. SeenAt(row, kvNow) = TheMap!Alive(Increased(v, d), x) /\ kv' = [kv EXCEPT ![k] = row]
      BY <1>6, <2>1, <2>2
    <2> QED
      BY <1>2, <2>1, <2>3, RowWriteKeeps, ZenonT(60)
  <1>8. x \in TheMap!Expiry(View(kv, kvNow)[k], ttl, kvNow)
    BY <1>3, <1>5, <1>7, ExpiryIsMaps
  <1>9. /\ View(kv, kvNow)[k].there <=> Present(kv[k])
        /\ View(kv, kvNow)[k].there => View(kv, kvNow)[k].val = kv[k].val
    BY <1>3, <1>7 DEF SeenAt, Present, Nothing, KVRows
  <1>10. TheMap!MapIncr(k)
    <2>1. PICK m : m = [j \in KVKeys |-> KVGet(j)] /\ m = View(kv, kvNow)
      BY MapIsView
    <2>2. /\ m[k].there => IsInteger(m[k].val)
          /\ v = IF m[k].there THEN m[k].val ELSE JsonInt(0)
      BY <1>1, <1>2, <1>9, <2>1
    <2>3. [j \in KVKeys |-> KVGet(j)]' = [m EXCEPT ![k] = TheMap!Alive(Increased(v, d), x)]
      BY <1>7, <2>1, MapIsView
    <2>4. x \in TheMap!Expiry(m[k], ttl, kvNow)
      BY <1>8, <2>1
    <2> QED
      BY <2>1, <2>2, <2>3, <2>4, Zenon DEF TheMap!MapIncr
  <1> QED
    BY <1>2, <1>7, <1>10 DEF KVStepOK, TheMap!MapNext

\* An operation that leaves the table and the clock alone shows nothing.
LEMMA QuietStep ==
  ASSUME KVInv, KVNext, UNCHANGED <<kv, kvFn, kvNow>>, did' = "none",
         putting' \in [DOMAIN putting -> PutRows], pager' \in Pagers
  PROVE  KVTypeOK' /\ UsedKeys' = UsedKeys /\ TheMap!MapNext
  <1>1. KVTypeOK /\ kvFn \in BOOLEAN
    BY DEF KVInv, KVTypeOK
  <1>2. KVTypeOK' /\ UsedKeys' = UsedKeys
    BY <1>1, KVTypes, KVTypesKept DEF KVDone
  <1>3. TheMap!MapExpire
    BY ViewSteps
  <1> QED
    BY <1>2, <1>3 DEF TheMap!MapNext

LEMMA PutCallStep ==
  ASSUME KVInv, KVNext, NEW c \in DOMAIN putting, NEW k \in UsedKeys, NEW v \in KVValues,
         NEW ttl \in KVTTLs, KVPutCall(c, k, v, ttl)
  PROVE  KVStepOK
  <1>1. PICK p : p = [on |-> TRUE, key |-> k, val |-> v, ttl |-> ttl, at |-> kvNow]
    OBVIOUS
  <1>2. putting' = [putting EXCEPT ![c] = p] /\ did' = "none" /\ UNCHANGED <<kv, kvFn, kvNow, pager>>
    BY <1>1 DEF KVPutCall
  <1>3. KVTypeOK /\ PutsKnow
    BY DEF KVInv
  <1>4. kvNow \in 0 .. MaxKVNow /\ kvNow \in 1 .. kvNow /\ k \in KVKeys
    BY <1>3, KVTypes
  <1>5. p \in PutRows
    BY <1>1, <1>4 DEF PutRows
  <1>6. /\ putting' \in [DOMAIN putting -> PutRows] /\ DOMAIN putting' = DOMAIN putting
        /\ putting'[c] = p /\ \A e \in DOMAIN putting \ {c} : putting'[e] = putting[e]
    BY <1>2, <1>3, <1>5, KVTypes
  <1>7. KVTypeOK' /\ UsedKeys' = UsedKeys /\ TheMap!MapNext
    BY <1>2, <1>3, <1>6, KVTypes, QuietStep
  <1>8. PutsKnow'
    BY <1>1, <1>2, <1>3, <1>4, <1>6, <1>7 DEF PutsKnow
  <1> QED
    BY <1>7, <1>8 DEF KVStepOK

\* A put that ends leaves what the others know.
LEMMA PutEnds ==
  ASSUME KVInv, NEW c \in DOMAIN putting, putting' = [putting EXCEPT ![c] = IdlePut],
         UsedKeys' = UsedKeys, kvNow' = kvNow
  PROVE  PutsKnow' /\ putting' \in [DOMAIN putting -> PutRows]
  <1>1. KVTypeOK /\ PutsKnow
    BY DEF KVInv
  <1>2. /\ putting' \in [DOMAIN putting -> PutRows] /\ DOMAIN putting' = DOMAIN putting
        /\ putting'[c] = IdlePut /\ \A e \in DOMAIN putting \ {c} : putting'[e] = putting[e]
    BY <1>1, KVTypes, KVConstants
  <1>3. ~IdlePut.on
    BY DEF IdlePut
  <1> QED
    BY <1>1, <1>2, <1>3 DEF PutsKnow

LEMMA PutCancelledStep ==
  ASSUME KVInv, KVNext, NEW c \in DOMAIN putting, KVPutCancelled(c)
  PROVE  KVStepOK
  <1>1. putting' = [putting EXCEPT ![c] = IdlePut] /\ did' = "none" /\ UNCHANGED <<kv, kvFn, kvNow, pager>>
    BY DEF KVPutCancelled
  <1>2. UsedKeys' = UsedKeys /\ KVTypeOK
    BY <1>1 DEF UsedKeys, KVInv
  <1>3. PutsKnow' /\ putting' \in [DOMAIN putting -> PutRows]
    BY <1>1, <1>2, PutEnds
  <1> QED
    BY <1>1, <1>2, <1>3, KVTypes, QuietStep DEF KVStepOK

LEMMA PutStep ==
  ASSUME KVInv, KVNext, NEW c \in DOMAIN putting, KVPut(c)
  PROVE  KVStepOK
  <1>1. PICK p : p = putting[c]
    OBVIOUS
  <1>2. /\ p.on /\ kv' = IF kvFn THEN [kv EXCEPT ![p.key] = Upserted(kv[p.key], p.val, p.ttl, p.at)] ELSE kv
        /\ putting' = [putting EXCEPT ![c] = IdlePut] /\ UNCHANGED <<kvFn, kvNow, pager>>
        /\ did' = IF ~kvFn THEN "none" ELSE IF p.at < kvNow THEN "late put" ELSE "put"
    BY <1>1 DEF KVPut
  <1>3. KVTypeOK /\ PutsKnow /\ kvFn \in BOOLEAN /\ kvNow \in Nat /\ kvNow \in 1 .. MaxKVNow
    BY KVTypes DEF KVInv, KVTypeOK
  <1>4. p.key \in UsedKeys /\ p.at \in 1 .. kvNow /\ p.val \in KVValues /\ p.ttl \in KVTTLs
    BY <1>1, <1>2, <1>3, KVTypes DEF PutsKnow, PutRows
  <1>5. CASE ~kvFn
    <2>1. UNCHANGED <<kv, kvFn, kvNow, pager>> /\ UsedKeys' = UsedKeys /\ did' = "none"
      BY <1>2, <1>5 DEF UsedKeys
    <2>2. PutsKnow' /\ putting' \in [DOMAIN putting -> PutRows]
      BY <1>2, <2>1, PutEnds
    <2> QED
      BY <1>3, <2>1, <2>2, KVTypes, QuietStep DEF KVStepOK
  <1>6. CASE kvFn
    <2>1. PICK row : row = Upserted(kv[p.key], p.val, p.ttl, p.at)
      OBVIOUS
    <2>2. kv[p.key] \in KVRows /\ p.at \in 0 .. kvNow
      BY <1>3, <1>4, KVTypes
    <2>3. row \in KVRows
      BY <1>3, <1>4, <2>1, <2>2, WrittenRows
    <2>4. kv' = [kv EXCEPT ![p.key] = row]
      BY <1>2, <1>6, <2>1
    <2>5. kv' \in [UsedKeys -> KVRows] /\ UsedKeys' = UsedKeys
      BY <1>3, <1>4, <2>3, <2>4, OneRowWritten DEF UsedKeys
    <2>6. PutsKnow' /\ putting' \in [DOMAIN putting -> PutRows]
      BY <1>2, <2>5, PutEnds
    <2>7. did' \in {"late put", "put"} /\ did' \in KVDone
      BY <1>2, <1>6 DEF KVDone
    <2>8. KVTypeOK'
      BY <1>2, <1>3, <2>5, <2>6, <2>7, KVTypes, KVTypesKept
    <2>9. p.key \in KVKeys /\ View(kv, kvNow)[p.key] = SeenAt(kv[p.key], kvNow)
      BY <1>3, <1>4, KVTypes DEF View, UsedKeys
    <2>10. View(kv', kvNow') = [View(kv, kvNow) EXCEPT ![p.key] = SeenAt(row, kvNow)]
      <3>1. View(kv', kvNow) = [View(kv, kvNow) EXCEPT ![p.key] = SeenAt(row, kvNow)]
        BY <1>3, <1>4, <2>3, <2>4, ViewOfWrite
      <3> QED
        BY <1>2, <3>1
    <2>11. SeenAt(row, kvNow) \in TheMap!AfterPut(View(kv, kvNow)[p.key], p.val, p.ttl, p.at)
      BY <1>3, <1>4, <2>1, <2>2, <2>9, PutIsAfterPut
    <2>12. p.at \in Nat /\ kvNow' = kvNow
      <3>1. p.at \in Nat
        BY <1>3, <1>4
      <3> QED
        BY <1>2, <3>1
    <2>13. TheMap!MapPut(p.key, p.at)
      BY <1>4, <2>9, <2>10, <2>11, <2>12, ViewSteps
    <2>14. CASE p.at < kvNow
      <3>1. did' = "late put"
        BY <1>2, <1>6, <2>14
      <3>2. p.at \in 1 .. kvNow - 1
        BY <1>3, <1>4, <2>14
      <3> QED
        BY <2>6, <2>8, <2>9, <2>12, <2>13, <3>1, <3>2 DEF KVStepOK, TheMap!MapNext
    <2>15. CASE ~ (p.at < kvNow)
      <3>1. did' = "put" /\ p.at = kvNow
        BY <1>2, <1>3, <1>4, <1>6, <2>15
      <3> QED
        BY <2>6, <2>8, <2>9, <2>12, <2>13, <3>1 DEF KVStepOK, TheMap!MapNext
    <2> QED
      BY <2>14, <2>15
  <1> QED
    BY <1>3, <1>5, <1>6

\* A put after a put in one transaction is one put.
LEMMA PutTwice ==
  ASSUME KVTypeOK, NEW row \in KVRows
  PROVE  Upserted(Upserted(row, Text, NoTTL, kvNow), Text, NoTTL, kvNow) = Upserted(row, Text, NoTTL, kvNow)
  <1>1. row.exp \in Nat /\ kvNow \in Nat
    BY KVTypes DEF KVRows
  <1>2. PICK e : e = IF ~row.there THEN 0 ELSE IF row.exp # 0 /\ row.exp <= kvNow THEN 0 ELSE row.exp
    OBVIOUS
  <1>3. Upserted(row, Text, NoTTL, kvNow) = Row(Text, e)
    BY <1>2 DEF Upserted, NoTTL
  <1>4. Row(Text, e).there /\ Row(Text, e).exp = e
    BY DEF Row
  <1>5. e = 0 \/ ~ (e # 0 /\ e <= kvNow)
    BY <1>1, <1>2
  <1>6. Upserted(Row(Text, e), Text, NoTTL, kvNow) = Row(Text, e)
    BY <1>4, <1>5 DEF Upserted
  <1> QED
    BY <1>3, <1>6

LEMMA BatchStep ==
  ASSUME KVInv, KVNext, SdkBatch
  PROVE  KVStepOK
  <1>1. PICK first \in BatchOps, second \in BatchOps : KVBatch(first, second)
    BY DEF SdkBatch
  <1>2. PICK mid : mid = BatchOp(kv, first)
    OBVIOUS
  <1>3. kv' = BatchOp(mid, second) /\ did' = "batch" /\ UNCHANGED <<kvFn, kvNow, putting, pager>>
    BY <1>1, <1>2 DEF KVBatch
  <1>4. KVTypeOK /\ PutsKnow /\ kvFn \in BOOLEAN
    BY DEF KVInv, KVTypeOK
  <1> DEFINE U(r) == Upserted(r, Text, NoTTL, kvNow)
  <1>5. mid \in [UsedKeys -> KVRows] /\ \A k \in UsedKeys : mid[k] \in {kv[k], NoRow, U(kv[k])}
    <2>1. kv \in [UsedKeys -> KVRows]
      BY <1>4, KVTypes
    <2> QED
      BY <1>2, <1>4, <2>1, BatchRows
  <1>6. kv' \in [UsedKeys -> KVRows] /\ \A k \in UsedKeys : kv'[k] \in {mid[k], NoRow, U(mid[k])}
    BY <1>3, <1>4, <1>5, BatchRows
  <1>7. KVTypeOK' /\ UsedKeys' = UsedKeys
    BY <1>3, <1>4, <1>6, KVTypes, KVTypesKept DEF KVDone
  <1>8. PutsKnow'
    BY <1>3, <1>4, <1>7, KVTypes, PutsKnowKept
  <1> DEFINE m == View(kv, kvNow)
  <1>9. ASSUME NEW k \in KVKeys
        PROVE  \/ View(kv', kvNow)[k] \in {TheMap!Gone, m[k]}
               \/ \E e \in {TheMap!Gone, m[k]} : View(kv', kvNow)[k] \in TheMap!AfterPut(e, Text, NoTTL, kvNow)
    <2>1. CASE k \notin UsedKeys
      <3>1. View(kv', kvNow)[k] = Nothing
        BY <1>7, <2>1 DEF View, UsedKeys
      <3> QED
        BY <3>1 DEF TheMap!Gone, Nothing
    <2>2. CASE k \in UsedKeys
      <3>1. /\ View(kv', kvNow)[k] = SeenAt(kv'[k], kvNow) /\ m[k] = SeenAt(kv[k], kvNow)
        BY <1>7, <2>2 DEF View, UsedKeys
      <3>2. SeenAt(NoRow, kvNow) = TheMap!Gone /\ NoRow \in KVRows /\ kv[k] \in KVRows
        BY <1>4, <2>2, KVTypes, KVConstants DEF SeenAt, NoRow, TheMap!Gone, Nothing
      <3>3. kv'[k] \in {kv[k], NoRow, U(kv[k]), U(NoRow)}
        BY <1>4, <1>5, <1>6, <2>2, <3>2, PutTwice
      <3>4. kvNow \in 1 .. kvNow /\ NoTTL \in KVTTLs
        BY <1>4, KVTypes DEF KVTTLs
      <3>5. /\ SeenAt(U(kv[k]), kvNow) \in TheMap!AfterPut(m[k], Text, NoTTL, kvNow)
            /\ SeenAt(U(NoRow), kvNow) \in TheMap!AfterPut(TheMap!Gone, Text, NoTTL, kvNow)
        <4> HIDE DEF m
        <4> QED
          BY <1>4, <3>1, <3>2, <3>4, KVConstants, PutIsAfterPut
      <3> HIDE DEF m, U
      <3> QED
        BY <3>1, <3>2, <3>3, <3>5
    <2> QED
      BY <2>1, <2>2
  <1>10. TheMap!MapBatch
    <2>1. /\ \A k \in KVKeys : [j \in KVKeys |-> KVGet(j)][k] = m[k]
          /\ \A k \in KVKeys : [j \in KVKeys |-> KVGet(j)]'[k] = View(kv', kvNow)[k]
      BY <1>3, MapIsView
    <2>2. Text \in KVValues /\ NoTTL \in KVTTLs
      BY KVConstants DEF KVTTLs
    <2> HIDE DEF m
    <2> SUFFICES ASSUME NEW k \in KVKeys
                 PROVE  \/ [j \in KVKeys |-> KVGet(j)]'[k] \in {TheMap!Gone, [j \in KVKeys |-> KVGet(j)][k]}
                        \/ \E v \in KVValues, ttl \in KVTTLs, e \in {TheMap!Gone, [j \in KVKeys |-> KVGet(j)][k]} :
                              [j \in KVKeys |-> KVGet(j)]'[k] \in TheMap!AfterPut(e, v, ttl, kvNow)
      BY Zenon DEF TheMap!MapBatch
    <2> QED
      BY <1>9, <2>1, <2>2
  <1> QED
    BY <1>3, <1>7, <1>8, <1>10 DEF KVStepOK, TheMap!MapNext

LEMMA SweepStep ==
  ASSUME KVInv, KVNext, KVSweepExpired
  PROVE  KVStepOK
  <1>1. /\ kv' = [k \in UsedKeys |-> IF kv[k].exp # 0 /\ kv[k].exp <= kvNow THEN NoRow ELSE kv[k]]
        /\ did' = "none" /\ UNCHANGED <<kvFn, kvNow, putting, pager>>
    BY DEF KVSweepExpired
  <1>2. KVTypeOK /\ PutsKnow /\ kvFn \in BOOLEAN /\ kvNow \in Nat
    BY KVTypes DEF KVInv, KVTypeOK
  <1>3. kv' \in [UsedKeys -> KVRows]
    BY <1>1, <1>2, KVTypes, KVConstants
  <1>4. KVTypeOK' /\ UsedKeys' = UsedKeys
    BY <1>1, <1>2, <1>3, KVTypes, KVTypesKept DEF KVDone
  <1>5. PutsKnow'
    BY <1>1, <1>2, <1>4, KVTypes, PutsKnowKept
  <1>6. PICK m : m = View(kv, kvNow)
    OBVIOUS
  <1> DEFINE K == {k \in KVKeys : m[k].there /\ m[k].exp = kvNow}
  <1>7. ASSUME NEW k \in KVKeys
        PROVE  View(kv', kvNow)[k] = IF k \in K THEN TheMap!Gone ELSE m[k]
    <2>1. CASE k \notin UsedKeys
      <3>1. View(kv', kvNow)[k] = Nothing /\ m[k] = Nothing
        BY <1>4, <1>6, <2>1 DEF View, UsedKeys
      <3> QED
        BY <3>1 DEF TheMap!Gone, Nothing
    <2>2. CASE k \in UsedKeys
      <3>1. /\ View(kv', kvNow)[k] = SeenAt(kv'[k], kvNow) /\ m[k] = SeenAt(kv[k], kvNow)
        BY <1>4, <1>6, <2>2 DEF View, UsedKeys
      <3>2. SeenAt(NoRow, kvNow) = TheMap!Gone /\ Nothing = TheMap!Gone /\ ~Nothing.there
        BY DEF SeenAt, NoRow, TheMap!Gone, Nothing
      <3>3. kv[k].exp \in Nat /\ kv[k].there \in BOOLEAN
        BY <1>2, <2>2, KVTypes DEF KVRows
      <3>4. CASE kv[k].exp # 0 /\ kv[k].exp <= kvNow
        <4>1. kv'[k] = NoRow
          BY <1>1, <2>2, <3>4
        <4>2. m[k] = Nothing \/ k \in K
          <5>1. CASE kv[k].there /\ kv[k].exp = kvNow
            <6>1. m[k] = kv[k]
              BY <1>2, <3>1, <5>1 DEF SeenAt
            <6> QED
              BY <5>1, <6>1
          <5>2. CASE ~ (kv[k].there /\ kv[k].exp = kvNow)
            <6>1. ~ (kv[k].there /\ (kv[k].exp = 0 \/ ~ (kv[k].exp < kvNow)))
              BY <1>2, <3>3, <3>4, <5>2
            <6> QED
              BY <3>1, <6>1 DEF SeenAt
          <5> QED
            BY <5>1, <5>2
        <4> QED
          BY <3>1, <3>2, <4>1, <4>2
      <3>5. CASE ~ (kv[k].exp # 0 /\ kv[k].exp <= kvNow)
        <4>1. kv'[k] = kv[k]
          BY <1>1, <2>2, <3>5
        <4>2. k \notin K
          <5>1. SUFFICES ASSUME m[k].there, m[k].exp = kvNow
                         PROVE  FALSE
            OBVIOUS
          <5>2. m[k] = kv[k]
            BY <3>1, <3>2, <5>1 DEF SeenAt
          <5>3. kvNow # 0
            BY <1>2, KVTypes
          <5> QED
            BY <1>2, <3>3, <3>5, <5>1, <5>2, <5>3
        <4> QED
          BY <3>1, <4>1, <4>2
      <3> QED
        BY <3>4, <3>5
    <2> QED
      BY <2>1, <2>2
  <1>8. TheMap!MapExpire
    <2>1. View(kv', kvNow) = [k \in KVKeys |-> IF k \in K THEN TheMap!Gone ELSE m[k]]
      <3> HIDE DEF K
      <3> QED
        BY <1>7 DEF View
    <2>2. kvNow' = kvNow
      BY <1>1
    <2>3. K \in SUBSET {k \in KVKeys : View(kv, kvNow)[k].there /\ View(kv, kvNow)[k].exp = kvNow}
      BY <1>6
    <2> HIDE DEF K
    <2> QED
      BY <1>6, <2>1, <2>2, <2>3, ExpireSeen
  <1> QED
    BY <1>1, <1>4, <1>5, <1>8 DEF KVStepOK, TheMap!MapNext

LEMMA CascadeStep ==
  ASSUME KVInv, KVNext, KVCascade
  PROVE  KVStepOK
  <1>1. /\ kv' = [k \in UsedKeys |-> NoRow] /\ kvFn' = FALSE /\ did' = "clear"
        /\ UNCHANGED <<kvNow, putting, pager>>
    BY DEF KVCascade
  <1>2. KVTypeOK /\ PutsKnow
    BY DEF KVInv
  <1>3. kv' \in [UsedKeys -> KVRows]
    BY <1>1, KVConstants
  <1>4. KVTypeOK' /\ UsedKeys' = UsedKeys
    BY <1>1, <1>2, <1>3, KVTypes, KVTypesKept DEF KVDone
  <1>5. PutsKnow'
    BY <1>1, <1>2, <1>4, KVTypes, PutsKnowKept
  <1>6. \A k \in KVKeys : View(kv', kvNow')[k] = TheMap!Gone
    BY <1>1 DEF View, SeenAt, NoRow, TheMap!Gone, Nothing
  <1>7. View(kv', kvNow') = [k \in KVKeys |-> TheMap!Gone]
    BY <1>6 DEF View
  <1>8. TheMap!MapClear
    BY <1>7, MapIsView DEF TheMap!MapClear
  <1> QED
    BY <1>1, <1>4, <1>5, <1>8 DEF KVStepOK, TheMap!MapNext

LEMMA ClockStep ==
  ASSUME KVInv, KVNext, KVClock
  PROVE  KVStepOK
  <1>1. kvNow < MaxKVNow /\ kvNow' = kvNow + 1 /\ did' = "none" /\ UNCHANGED <<kv, kvFn, putting, pager>>
    BY DEF KVClock
  <1>2. KVTypeOK /\ PutsKnow /\ kvFn \in BOOLEAN /\ kvNow \in Nat /\ kvNow \in 1 .. MaxKVNow /\ MaxKVNow \in Nat
    BY KVTypes DEF KVInv, KVTypeOK
  <1>3. kvNow' \in 1 .. MaxKVNow /\ kvNow' \in Nat /\ kvNow <= kvNow'
    BY <1>1, <1>2
  <1>4. KVTypeOK' /\ UsedKeys' = UsedKeys
    BY <1>1, <1>2, <1>3, KVTypes, KVTypesKept DEF KVDone
  <1>5. PutsKnow'
    BY <1>1, <1>2, <1>3, <1>4, PutsKnowKept
  <1>6. PICK m : m = View(kv, kvNow)
    OBVIOUS
  <1>7. ASSUME NEW k \in KVKeys
        PROVE  View(kv', kvNow')[k] =
                 IF m[k].there /\ m[k].exp # 0 /\ m[k].exp < kvNow' THEN TheMap!Gone ELSE m[k]
    <2>1. CASE k \notin UsedKeys
      <3>1. View(kv', kvNow')[k] = Nothing /\ m[k] = Nothing
        BY <1>4, <1>6, <2>1 DEF View, UsedKeys
      <3> QED
        BY <3>1 DEF TheMap!Gone, Nothing
    <2>2. CASE k \in UsedKeys
      <3>1. /\ View(kv', kvNow')[k] = SeenAt(kv[k], kvNow') /\ m[k] = SeenAt(kv[k], kvNow)
        BY <1>1, <1>4, <1>6, <2>2 DEF View, UsedKeys
      <3>2. Nothing = TheMap!Gone /\ ~Nothing.there
        BY DEF TheMap!Gone, Nothing
      <3>3. kv[k].exp \in Nat /\ kv[k].there \in BOOLEAN
        BY <1>2, <2>2, KVTypes DEF KVRows
      <3>4. kv[k].exp < kvNow => kv[k].exp < kvNow'
        BY <1>1, <1>2, <3>3
      <3> QED
        BY <3>1, <3>2, <3>3, <3>4 DEF SeenAt
    <2> QED
      BY <2>1, <2>2
  <1>8. View(kv', kvNow') = [k \in KVKeys |-> IF m[k].there /\ m[k].exp # 0 /\ m[k].exp < kvNow' THEN TheMap!Gone
                                              ELSE m[k]]
    BY <1>7 DEF View
  <1>9. TheMap!MapTick
    <2>1. \A k \in KVKeys : [j \in KVKeys |-> KVGet(j)][k] = m[k]
      BY <1>6, MapIsView
    <2>2. [j \in KVKeys |-> KVGet(j)]' =
             [k \in KVKeys |-> IF /\ [j \in KVKeys |-> KVGet(j)][k].there /\ [j \in KVKeys |-> KVGet(j)][k].exp # 0
                                  /\ [j \in KVKeys |-> KVGet(j)][k].exp < kvNow'
                               THEN TheMap!Gone ELSE [j \in KVKeys |-> KVGet(j)][k]]
      BY <1>8, <2>1, MapIsView
    <2> QED
      BY <1>1, <2>2, Zenon DEF TheMap!MapTick
  <1> QED
    BY <1>1, <1>4, <1>5, <1>9 DEF KVStepOK, TheMap!MapNext

LEMMA ListStep ==
  ASSUME KVInv, KVNext, KVListWithCursor
  PROVE  KVStepOK
  <1>1. PICK c : c = NextCursor(Remaining)
    OBVIOUS
  <1>2. /\ pager' = IF c = 0 THEN IdlePager ELSE [on |-> TRUE, cursor |-> c, seen |-> pager.seen \cup Page]
        /\ did' = "none" /\ UNCHANGED <<kv, kvFn, kvNow, putting>>
    BY <1>1 DEF KVListWithCursor
  <1>3. KVTypeOK /\ PutsKnow
    BY DEF KVInv
  <1>4. c \in KVKeys \cup {0} /\ Page \subseteq KVKeys
    BY <1>1, <1>3, PageAndCursor
  <1>5. pager.seen \subseteq KVKeys
    BY <1>3, KVTypes DEF Pagers
  <1>6. pager' \in Pagers
    BY <1>2, <1>4, <1>5, KVConstants DEF Pagers
  <1>7. KVTypeOK' /\ UsedKeys' = UsedKeys /\ TheMap!MapNext
    BY <1>2, <1>3, <1>6, KVTypes, QuietStep
  <1>8. PutsKnow'
    BY <1>2, <1>3, <1>7, KVTypes, PutsKnowKept
  <1> QED
    BY <1>7, <1>8 DEF KVStepOK

LEMMA KVStep ==
  ASSUME KVInv, KVNext
  PROVE  KVStepOK
  <1>1. KVOperation
    BY StepIsOperation
  <1> QED
    BY <1>1, DeleteStep, CASStep, IncrStep, PutCallStep, PutCancelledStep, PutStep, BatchStep, SweepStep,
       CascadeStep, ClockStep, ListStep DEF KVOperation

\* The walk: what the client has been shown.
LEMMA WalkStep ==
  ASSUME KVInv, KVNext
  PROVE  /\ WalkKnows'
         /\ pager.on /\ ~pager'.on => steady \subseteq pager.seen \cup Page
  <1>1. KVTypeOK /\ WalkKnows /\ KVTypeOK'
    BY KVStep DEF KVInv, KVStepOK
  <1>2. steady' = IF ~pager'.on THEN {} ELSE Listed' \cap (IF pager.on THEN steady ELSE UsedKeys)
    BY DEF KVNext
  <1>3. CASE UNCHANGED pager
    BY <1>1, <1>2, <1>3 DEF WalkKnows, IdlePager
  <1>4. CASE KVListWithCursor
    <2>1. PICK c : c = NextCursor(Remaining)
      OBVIOUS
    <2>2. /\ pager' = IF c = 0 THEN IdlePager ELSE [on |-> TRUE, cursor |-> c, seen |-> pager.seen \cup Page]
          /\ UNCHANGED <<kv, kvNow>>
      BY <1>4, <2>1 DEF KVListWithCursor
    <2>3. /\ c \in KVKeys \cup {0} /\ c = 0 => Page = Remaining
          /\ c # 0 => \A k \in Remaining : k <= c => k \in Page
      BY <1>1, <2>1, PageAndCursor
    <2>4. Listed' = Listed /\ Listed \subseteq KVKeys /\ KVKeys \subseteq Nat \ {0}
      BY <1>1, <2>2, KVTypes DEF Listed, UsedKeys
    <2>5. pager.cursor \in Nat
      BY <1>1, KVTypes DEF Pagers
    <2>6. ASSUME NEW k \in Listed, pager.on => k \in steady
          PROVE  k \in pager.seen \/ k \in Remaining
      <3>1. k \in Nat /\ k # 0
        BY <2>4
      <3>2. CASE k <= pager.cursor
        <4>1. pager.on
          BY <1>1, <3>1, <3>2 DEF WalkKnows, IdlePager
        <4> QED
          BY <1>1, <2>6, <3>2, <4>1 DEF WalkKnows
      <3>3. CASE k > pager.cursor
        BY <3>3 DEF Remaining
      <3> QED
        BY <2>5, <3>1, <3>2, <3>3
    <2>7. CASE c = 0
      <3>1. pager' = IdlePager /\ ~pager'.on
        BY <2>2, <2>7 DEF IdlePager
      <3>2. pager.on => steady \subseteq Listed
        BY <1>1 DEF WalkKnows
      <3>3. pager.on => steady \subseteq pager.seen \cup Page
        BY <2>3, <2>6, <2>7, <3>2
      <3> QED
        BY <3>1, <3>3 DEF WalkKnows, IdlePager
    <2>8. CASE c # 0
      <3>1. pager'.on /\ pager'.cursor = c /\ pager'.seen = pager.seen \cup Page
        BY <2>2, <2>8
      <3>2. steady' = Listed' \cap (IF pager.on THEN steady ELSE UsedKeys)
        BY <1>2, <3>1
      <3>3. ASSUME NEW k \in steady', k <= c
            PROVE  k \in pager.seen \cup Page
        BY <2>3, <2>4, <2>6, <2>8, <3>2, <3>3
      <3> QED
        BY <3>1, <3>2, <3>3 DEF WalkKnows
    <2> QED
      BY <2>7, <2>8
  <1>5. UNCHANGED pager \/ KVListWithCursor
    <2>1. KVOperation
      BY StepIsOperation
    <2> QED
      BY <2>1 DEF KVOperation, KVPutCall, KVPut, KVPutCancelled, KVDelete, KVIncr, KVCASInsert, KVCASSwap,
                  SdkBatch, KVBatch, KVSweepExpired, KVCascade, KVClock
  <1> QED
    BY <1>3, <1>4, <1>5

LEMMA KVInitInv == KVInit => KVInv /\ TheMap!MapInit
  <1> SUFFICES ASSUME KVInit
               PROVE  KVInv /\ TheMap!MapInit
    OBVIOUS
  <1>1. /\ kv = [k \in KVKeys |-> NoRow] /\ kvNow = 1 /\ did = "none" /\ kvFn = TRUE /\ walks = TRUE
        /\ putting = [c \in KVCallers |-> IdlePut] /\ pager = IdlePager /\ steady = {}
    BY DEF KVInit, KVStart
  <1>2. UsedKeys = KVKeys /\ kv \in [UsedKeys -> KVRows] /\ DOMAIN putting = KVCallers
    BY <1>1, KVConstants DEF UsedKeys
  <1>3. putting \in [DOMAIN putting -> PutRows] /\ pager \in Pagers
    BY <1>1, KVConstants
  <1>4. kvNow \in 1 .. MaxKVNow
    BY <1>1, KVAssumption DEF KVAssumption
  <1>5. KVTypeOK
    BY <1>1, <1>2, <1>3, <1>4 DEF KVTypeOK, KVRows, PutRows, Pagers
  <1>6. PutsKnow /\ WalkKnows
    BY <1>1 DEF PutsKnow, WalkKnows, IdlePut, IdlePager
  <1>7. \A k \in KVKeys : KVGet(k) = TheMap!Gone
    BY <1>1 DEF KVGet, Present, NoRow, TheMap!Gone
  <1> QED
    BY <1>1, <1>5, <1>6, <1>7 DEF KVInv, TheMap!MapInit

LEMMA KVNextInv == KVInv /\ [KVNext]_kvVars => KVInv'
  <1> SUFFICES ASSUME KVInv, [KVNext]_kvVars
               PROVE  KVInv'
    OBVIOUS
  <1>1. CASE KVNext
    BY <1>1, KVStep, WalkStep DEF KVInv, KVStepOK
  <1>2. CASE UNCHANGED kvVars
    BY <1>2 DEF kvVars, KVInv, KVTypeOK, UsedKeys, PutsKnow, WalkKnows, Listed
  <1> QED
    BY <1>1, <1>2

\* The key-value store is the expiring map: rows that wait for the sweep never
\* show, whichever operation meets them and however long a put waited.
THEOREM StoreImplementsMap == KVSpec => KVIsExpiringMap
  <1>1. KVInv /\ [KVNext]_kvVars => [TheMap!MapNext]_TheMap!mapVars
    <2> SUFFICES ASSUME KVInv, [KVNext]_kvVars
                 PROVE  [TheMap!MapNext]_TheMap!mapVars
      OBVIOUS
    <2>1. CASE KVNext
      BY <2>1, KVStep DEF KVStepOK
    <2>2. CASE UNCHANGED kvVars
      <3>1. [k \in KVKeys |-> KVGet(k)]' = [k \in KVKeys |-> KVGet(k)]
        BY <2>2, MapIsView DEF kvVars
      <3> QED
        BY <2>2, <3>1 DEF kvVars, TheMap!mapVars
    <2> QED
      BY <2>1, <2>2
  <1> QED
    BY <1>1, KVInitInv, KVNextInv, PTL DEF KVSpec, KVIsExpiringMap, TheMap!MapSpec

\* A walk through the pages misses no key that was listed from its first page
\* to its last, whatever is inserted, deleted or expires meanwhile.
THEOREM WalksAreComplete == KVSpec => PagesComplete
  <1>1. KVInv /\ [KVNext]_kvVars => [pager.on /\ ~pager'.on => steady \subseteq pager.seen \cup Page]_kvVars
    BY WalkStep
  <1> QED
    BY <1>1, KVInitInv, KVNextInv, PTL DEF KVSpec, PagesComplete
-----------------------------------------------------------------------------
(* Invocations: what their record is worth.                                *)

\* The event of a request has not reached a worker.
Unsent == {"idle", "lease", "admit", "acquire", "write"}

\* Where a request keeps its binding and its ingress budget.
MayBeActive(q) ==
  \/ q.pc \in {"write", "first", "stream", "unbind"}
  \/ q.kind = "forward" /\ q.pc \in {"acquire", "release"}
  \/ q.kind # "forward" /\ q.pc = "record"

MayHoldBudget(q) ==
  q.kind = "forward" /\ q.pc \in {"acquire", "write", "first", "stream", "release", "unbind"}

\* The lease follows the request: taken at the entry, spent on the row, and
\* given back only by a request that never ran.
LeaseFits(q) ==
  /\ q.pc \in {"idle", "lease"} => q.lease = "none"
  /\ q.pc \in {"admit", "acquire", "write", "first", "stream", "record"} => q.lease = "held"
  /\ q.pc \in {"unbind", "release"} => q.lease = IF q.kind = "forward" THEN "held" ELSE "spent"
  /\ q.pc = "done" => q.lease # "held"
  /\ q.pc = "admit" => q.kind = "forward"

\* The event of a request was written into a worker's pipe, and the request
\* has not ended without a row.
Sent(q) == q.pc \notin Unsent /\ (q.pc = "done" => q.lease = "spent")

Recorded(r) ==
  /\ LeaseFits(rq[r])
  /\ wrote[r] = IF rq[r].lease = "spent" THEN 1 ELSE 0
  /\ r \in active => MayBeActive(rq[r])
  /\ r \in ingress => MayHoldBudget(rq[r])
  /\ r \in ran => Sent(rq[r])

\* An event on its way into a sandbox is one of a request that was dispatched.
EventSent(w) == adapter[w].stdin # NoRequest => Sent(rq[adapter[w].stdin])

RecordInv ==
  /\ InvTypeOK
  /\ \A r \in Requests : Recorded(r)
  /\ \A w \in Workers : EventSent(w)

-----------------------------------------------------------------------------
(* Invocations: whose a worker is.                                         *)

OnlyChunks(s) == \A i \in 1 .. Len(s) : s[i].type = "chunk"
LastFrames == {"response", "error", "fatal", "end"}

\* Nothing runs in the worker or is on its way into it; a heartbeat that came
\* too late may be on its way out.
Clean(w) ==
  /\ wk[w].lock = NoRequest /\ adapter[w].stdin = NoRequest
  /\ adapter[w].phase \in {"idle", "ended"}
  /\ OnlyChunks(out[w])

\* Between Acquire and Release the worker is the request's.
Ran(q) == q.pc = "release" \/ (q.kind # "forward" /\ q.pc \in {"record", "unbind"})
Holds(q) == q.pc \in {"write", "first", "stream"} \/ Ran(q)

\* The event was not read yet: what is in the pipe is older and no answer.
Waiting(r, w) ==
  /\ adapter[w].stdin = r /\ adapter[w].phase \in {"idle", "ended"}
  /\ OnlyChunks(out[w])

\* It was: only this request can be running, and after the last frame of an
\* answer the adapter is through with it.
Answering(r, w) ==
  /\ adapter[w].stdin = NoRequest /\ adapter[w].phase # "boot"
  /\ adapter[w].phase # "idle" => adapter[w].run = r
  /\ \A i \in 1 .. Len(out[w]) : out[w][i].type \in LastFrames =>
       /\ adapter[w].phase \in {"idle", "ended"}
       /\ \A j \in 1 .. Len(out[w]) : j > i => out[w][j].type = "chunk"

AllOf(s, r) == \A i \in 1 .. Len(s) : s[i].of = r

\* A request that reads its first frame finds an old heartbeat, which costs
\* the worker its life, or frames of its own.
ReadsFirst(r, w) ==
  \/ Waiting(r, w)
  \/ Answering(r, w) /\ ((out[w] # <<>> /\ out[w][1].type = "chunk") \/ AllOf(out[w], r))

ReadsStream(r, w) == Answering(r, w) /\ AllOf(out[w], r)

\* What a request may rely on of the worker it has.
Owns(r) ==
  LET w == rq[r].w
  IN  /\ w \in Workers /\ wk[w].at = "leased"
      /\ rq[r].pc = "write" /\ ~wk[w].dead => Clean(w)
      /\ rq[r].pc = "first" /\ wk[w].proc # "reaped" => ReadsFirst(r, w)
      /\ rq[r].pc = "stream" /\ wk[w].proc # "reaped" => ReadsStream(r, w)
      /\ Ran(rq[r]) /\ ~rq[r].failed /\ ~wk[w].dead => Clean(w)

\* A process has its credential from its start to its end, a worker that
\* boots says "ready" and nothing else, and one that is parked is clean.
Life(w) ==
  /\ wk[w].proc = "none" => /\ wk[w].at = "none" /\ wk[w].lock = NoRequest /\ ~wk[w].dead
                            /\ adapter[w] = Booting /\ out[w] = <<>>
  /\ wk[w].proc = "reaped" => ~wk[w].token /\ wk[w].dead /\ out[w] = <<>>
  /\ wk[w].proc \in {"up", "exited"} => wk[w].token
  /\ wk[w].at = "booting" /\ wk[w].proc # "reaped" =>
       /\ wk[w].lock = NoRequest /\ adapter[w].stdin = NoRequest
       /\ \/ adapter[w].phase = "boot" /\ out[w] = <<>>
          \/ adapter[w].phase = "idle" /\ Len(out[w]) = 1
  /\ wk[w].at = "parked" /\ ~wk[w].dead => Clean(w)

OneHolder ==
  \A r, s \in Requests : Holds(rq[r]) /\ Holds(rq[s]) /\ rq[r].w = rq[s].w => r = s

CleanInv ==
  /\ InvTypeOK
  /\ \A w \in Workers : Life(w)
  /\ \A r \in Requests : Holds(rq[r]) => Owns(r)
  /\ OneHolder
  /\ OwnAnswers

-----------------------------------------------------------------------------
(* Invocations: what the pieces of the actions do.                         *)

RequestRec == [pc : Steps, kind : Kinds, w : Workers \cup {NoWorker}, depth : 0 .. MaxCallDepth,
               failed : BOOLEAN, lease : {"none", "held", "spent", "back"}]
WorkerRec == [proc : {"none", "up", "exited", "reaped"},
              at : {"none", "booting", "parked", "leased", "out"},
              dead : BOOLEAN, token : BOOLEAN, lock : Requests \cup {NoRequest}]
AdapterRec == [stdin : Requests \cup {NoRequest}, run : Requests \cup {NoRequest},
               phase : {"boot", "idle", "handling", "streaming", "ended"}]

LEMMA InvTypes ==
  InvTypeOK <=> /\ rq \in [Requests -> RequestRec] /\ wk \in [Workers -> WorkerRec]
                /\ adapter \in [Workers -> AdapterRec] /\ out \in [Workers -> Seq(Frames)]
                /\ active \subseteq Requests /\ ingress \subseteq Requests /\ ran \subseteq Requests
                /\ got \in [Requests -> SUBSET (Requests \cup {NoRequest})]
                /\ wrote \in [Requests -> Nat]
  BY DEF InvTypeOK, RequestRec, WorkerRec, AdapterRec

LEMMA InvTypesNext ==
  ASSUME rq' \in [Requests -> RequestRec], wk' \in [Workers -> WorkerRec],
         adapter' \in [Workers -> AdapterRec], out' \in [Workers -> Seq(Frames)],
         active' \subseteq Requests, ingress' \subseteq Requests, ran' \subseteq Requests,
         got' \in [Requests -> SUBSET (Requests \cup {NoRequest})],
         wrote' \in [Requests -> Nat]
  PROVE  InvTypeOK'
  BY DEF InvTypeOK, RequestRec, WorkerRec, AdapterRec

\* A request at a new step; its kind and depth stay.
Moves(r, pc, w, failed, lease) ==
  /\ rq' \in [Requests -> RequestRec]
  /\ \A s \in Requests \ {r} : rq'[s] = rq[s]
  /\ rq'[r].pc = pc /\ rq'[r].w = w /\ rq'[r].failed = failed /\ rq'[r].lease = lease
  /\ rq'[r].kind = rq[r].kind

\* A request that is over.
Ends(r, lease) ==
  /\ rq' \in [Requests -> RequestRec]
  /\ \A s \in Requests \ {r} : rq'[s] = rq[s]
  /\ rq'[r].pc = "done" /\ rq'[r].kind = "forward" /\ rq'[r].lease = lease

\* A worker in a new state.
Touches(w, proc, at, dead, token, lock) ==
  /\ wk' \in [Workers -> WorkerRec]
  /\ \A v \in Workers \ {w} : wk'[v] = wk[v]
  /\ wk'[w].proc = proc /\ wk'[w].at = at /\ wk'[w].dead = dead /\ wk'[w].token = token
  /\ wk'[w].lock = lock

LEMMA GotoEffect ==
  ASSUME InvTypeOK, NEW r \in Requests, NEW p \in Steps, Goto(r, p)
  PROVE  Moves(r, p, rq[r].w, rq[r].failed, rq[r].lease)
  BY InvTypes DEF Goto, Moves, RequestRec

LEMMA EndRunEffect ==
  ASSUME InvTypeOK, NEW r \in Requests, NEW f \in BOOLEAN, EndRun(r, f)
  PROVE  /\ Moves(r, IF rq[r].kind = "forward" THEN "release" ELSE "record", rq[r].w, f, rq[r].lease)
  BY InvTypes, ZenonT(60) DEF EndRun, Moves, RequestRec, Steps

LEMMA OverEffect ==
  ASSUME InvTypeOK, NEW r \in Requests, NEW l \in {"none", "held", "spent", "back"},
         rq' = [rq EXCEPT ![r] = Over(l)]
  PROVE  Ends(r, l)
  <1>1. Over(l) \in RequestRec
    <2>1. 0 \in 0 .. MaxCallDepth
      BY InvocationAssumption
    <2>2. Fresh \in RequestRec
      BY <2>1 DEF Fresh, RequestRec, Steps, Kinds
    <2>3. PICK f \in RequestRec : f = Fresh
      BY <2>2
    <2>4. [f EXCEPT !.pc = "done", !.lease = l] \in RequestRec
      BY DEF RequestRec, Steps
    <2> QED
      BY <2>3, <2>4 DEF Over
  <1>2. Over(l).pc = "done" /\ Over(l).kind = "forward" /\ Over(l).lease = l
    BY DEF Over, Fresh
  <1> QED
    BY <1>1, <1>2, InvTypes DEF Ends

LEMMA EnterEffect ==
  ASSUME InvTypeOK, NEW r \in Requests, NEW kind \in Kinds, NEW d \in 0 .. MaxCallDepth,
         Enter(r, kind, d)
  PROVE  /\ rq' \in [Requests -> RequestRec]
         /\ \A s \in Requests \ {r} : rq'[s] = rq[s]
         /\ rq'[r].pc = "lease" /\ rq'[r].lease = rq[r].lease
  <1>1. rq \in [Requests -> RequestRec] /\ rq[r] \in RequestRec
    BY InvTypes
  <1>2. PICK q \in RequestRec : q = rq[r]
    BY <1>1
  <1> DEFINE e == [q EXCEPT !.pc = "lease", !.kind = kind, !.depth = d]
  <1>3. e \in RequestRec /\ e.pc = "lease" /\ e.lease = q.lease
    BY DEF RequestRec, Steps
  <1>4. rq' = [rq EXCEPT ![r] = e]
    BY <1>1, <1>2 DEF Enter
  <1> HIDE DEF e
  <1> QED
    BY <1>1, <1>2, <1>3, <1>4

LEMMA KillEffect ==
  ASSUME InvTypeOK, NEW w \in Workers, wk' = Kill(w)
  PROVE  Touches(w, IF wk[w].proc = "up" THEN "exited" ELSE wk[w].proc, "out", TRUE,
                 wk[w].token, wk[w].lock)
  BY InvTypes, ZenonT(60) DEF Kill, Touches, WorkerRec

LEMMA MarkDeadEffect ==
  ASSUME InvTypeOK, NEW w \in Workers, MarkDead(w)
  PROVE  Touches(w, wk[w].proc, wk[w].at, TRUE, wk[w].token, wk[w].lock)
  BY InvTypes DEF MarkDead, Touches, WorkerRec

LEMMA UnlockEffect ==
  ASSUME InvTypeOK, NEW w \in Workers, Unlock(w)
  PROVE  Touches(w, wk[w].proc, wk[w].at, wk[w].dead, wk[w].token, NoRequest)
  BY InvTypes DEF Unlock, Touches, WorkerRec

LEMMA DeadUnlockEffect ==
  ASSUME InvTypeOK, NEW w \in Workers, DeadUnlock(w)
  PROVE  Touches(w, wk[w].proc, wk[w].at, TRUE, wk[w].token, NoRequest)
  BY InvTypes DEF DeadUnlock, Touches, WorkerRec

LEMMA LockEffect ==
  ASSUME InvTypeOK, NEW w \in Workers, NEW r \in Requests, wk' = [wk EXCEPT ![w].lock = r]
  PROVE  Touches(w, wk[w].proc, wk[w].at, wk[w].dead, wk[w].token, r)
  BY InvTypes DEF Touches, WorkerRec

LEMMA PlaceEffect ==
  ASSUME InvTypeOK, NEW w \in Workers, NEW a \in {"parked", "leased"},
         wk' = [wk EXCEPT ![w].at = a]
  PROVE  Touches(w, wk[w].proc, a, wk[w].dead, wk[w].token, wk[w].lock)
  BY InvTypes DEF Touches, WorkerRec

LEMMA EmitEffect ==
  ASSUME InvTypeOK, NEW w \in Workers,
         NEW t \in {"ready", "response", "start", "chunk", "end", "error", "fatal"}, Emit(w, t)
  PROVE  /\ out' \in [Workers -> Seq(Frames)]
         /\ \A v \in Workers \ {w} : out'[v] = out[v]
         /\ Len(out[w]) \in Nat /\ Len(out'[w]) = Len(out[w]) + 1
         /\ \A i \in 1 .. Len(out[w]) : out'[w][i] = out[w][i]
         /\ out'[w][Len(out[w]) + 1].type = t
         /\ out'[w][Len(out[w]) + 1].of = adapter[w].run
  <1> DEFINE f == [type |-> t, of |-> adapter[w].run]
  <1>1. f \in Frames
    BY InvTypes DEF AdapterRec, Frames
  <1>2. out \in [Workers -> Seq(Frames)]
    BY InvTypes
  <1>3. out' = [out EXCEPT ![w] = Append(out[w], f)]
    BY <1>2 DEF Emit
  <1>4. f.type = t /\ f.of = adapter[w].run
    OBVIOUS
  <1> HIDE DEF f
  <1> QED
    BY <1>1, <1>2, <1>3, <1>4

LEMMA ReadEffect ==
  ASSUME InvTypeOK, NEW w \in Workers, out[w] # <<>>, out' = [out EXCEPT ![w] = Tail(@)]
  PROVE  /\ out' \in [Workers -> Seq(Frames)]
         /\ \A v \in Workers \ {w} : out'[v] = out[v]
         /\ Len(out[w]) \in Nat \ {0} /\ Len(out'[w]) = Len(out[w]) - 1
         /\ \A i \in 1 .. Len(out'[w]) : out'[w][i] = out[w][i + 1]
         /\ Head(out[w]) = out[w][1] /\ Head(out[w]) \in Frames
  <1>1. out \in [Workers -> Seq(Frames)]
    BY InvTypes
  <1> DEFINE o == out[w]
  <1>2. o \in Seq(Frames) /\ o # <<>>
    BY <1>1
  <1>3. Tail(o) \in Seq(Frames) /\ Len(Tail(o)) = Len(o) - 1 /\ Head(o) \in Frames
        /\ (\A i \in 1 .. Len(Tail(o)) : Tail(o)[i] = o[i + 1])
    BY <1>2, HeadTailProperties
  <1>4. Len(o) \in Nat \ {0} /\ Head(o) = o[1]
    BY <1>2, EmptySeq
  <1>5. out' = [out EXCEPT ![w] = Tail(o)]
    BY <1>1
  <1> QED
    BY <1>1, <1>3, <1>4, <1>5

-----------------------------------------------------------------------------
(* Invocations: what each action does.                                     *)

LEMMA ArriveEffect ==
  ASSUME InvTypeOK, NEW r \in Requests, Arrive(r)
  PROVE  /\ rq[r].pc = "idle"
         /\ UNCHANGED <<wk, adapter, out, active, ingress, got, ran, wrote>>
         /\ \/ /\ rq' \in [Requests -> RequestRec]
               /\ \A s \in Requests \ {r} : rq'[s] = rq[s]
               /\ rq'[r].pc = "lease" /\ rq'[r].lease = rq[r].lease
            \/ Ends(r, "none")
  <1>1. rq[r].pc = "idle" /\ UNCHANGED <<wk, adapter, out, active, ingress, got, ran, wrote>>
    BY DEF Arrive, ServeHTTP, Trigger, Invoke, InvokeStream, InternalCall, workerSide, history
  <1>2. 0 \in 0 .. MaxCallDepth /\ "forward" \in Kinds /\ "buffered" \in Kinds /\ "piped" \in Kinds
    BY InvocationAssumption DEF Kinds
  <1>3. \/ \E kind \in Kinds : \E d \in 0 .. MaxCallDepth : Enter(r, kind, d)
        \/ Refused(r)
    <2>1. CASE ServeHTTP(r) \/ Trigger(r)
      BY <1>2, <2>1 DEF ServeHTTP, Trigger
    <2>2. ASSUME NEW p \in Requests, Invoke(r, p) \/ InvokeStream(r, p)
          PROVE  \/ \E kind \in Kinds : \E d \in 0 .. MaxCallDepth : Enter(r, kind, d)
                 \/ Refused(r)
      <3>1. PICK kind \in Kinds : InternalCall(r, p, kind)
        BY <1>2, <2>2 DEF Invoke, InvokeStream
      <3>2. rq[p].depth \in Nat
        BY InvTypes, InvocationAssumption DEF RequestRec
      <3>3. rq[p].depth + 1 <= MaxCallDepth => rq[p].depth + 1 \in 0 .. MaxCallDepth
        BY <3>2, InvocationAssumption
      <3> QED
        BY <3>1, <3>3 DEF InternalCall
    <2> QED
      BY <2>1, <2>2 DEF Arrive
  <1>4. ASSUME NEW kind \in Kinds, NEW d \in 0 .. MaxCallDepth, Enter(r, kind, d)
        PROVE  /\ rq' \in [Requests -> RequestRec]
               /\ \A s \in Requests \ {r} : rq'[s] = rq[s]
               /\ rq'[r].pc = "lease" /\ rq'[r].lease = rq[r].lease
    BY <1>4, EnterEffect
  <1>5. ASSUME Refused(r) PROVE Ends(r, "none")
    BY <1>5, OverEffect DEF Refused
  <1> QED
    BY <1>1, <1>3, <1>4, <1>5

LEMMA ReserveEffect ==
  ASSUME InvTypeOK, NEW r \in Requests, ReserveLease(r)
  PROVE  /\ rq[r].pc = "lease"
         /\ UNCHANGED <<wk, adapter, out, active, ingress, got, ran, wrote>>
         /\ \/ Moves(r, IF rq[r].kind = "forward" THEN "admit" ELSE "acquire", rq[r].w,
                     rq[r].failed, "held")
            \/ Ends(r, "none")
  <1>1. CASE Refused(r)
    BY <1>1, OverEffect DEF Refused, ReserveLease, workerSide, history
  <1>2. CASE ~Refused(r)
    BY <1>2, InvTypes DEF ReserveLease, Moves, RequestRec, Steps, workerSide, history
  <1> QED
    BY <1>1, <1>2

LEMMA AdmitEffect ==
  ASSUME InvTypeOK, NEW r \in Requests, Admit(r)
  PROVE  /\ rq[r].pc = "admit"
         /\ UNCHANGED <<wk, adapter, out, got, ran, wrote>>
         /\ \/ /\ Moves(r, "acquire", rq[r].w, rq[r].failed, rq[r].lease)
               /\ ingress' = ingress \cup {r} /\ active' = active \cup {r}
            \/ Moves(r, "record", rq[r].w, TRUE, rq[r].lease) /\ UNCHANGED <<active, ingress>>
  <1>1. rq[r].pc = "admit" /\ UNCHANGED <<wk, adapter, out, got, ran, wrote>>
    BY DEF Admit, workerSide, history
  <1>2. CASE Goto(r, "acquire") /\ ingress' = ingress \cup {r} /\ active' = active \cup {r}
    BY <1>1, <1>2, GotoEffect DEF Steps
  <1>3. CASE /\ UNCHANGED <<ingress, active>>
             /\ rq' = [rq EXCEPT ![r].pc = "record", ![r].failed = TRUE]
    BY <1>1, <1>3, InvTypes, ZenonT(60) DEF Moves, RequestRec, Steps
  <1> QED
    BY <1>2, <1>3 DEF Admit

LEMMA AcquireFailsEffect ==
  ASSUME InvTypeOK, NEW r \in Requests, AcquireFails(r)
  PROVE  /\ rq[r].pc = "acquire"
         /\ UNCHANGED <<wk, adapter, out, active, ingress, got, ran, wrote>>
         /\ \/ rq[r].kind = "forward" /\ Moves(r, "unbind", rq[r].w, TRUE, rq[r].lease)
            \/ rq[r].kind # "forward" /\ Ends(r, "back")
  <1>1. rq[r].pc = "acquire" /\ UNCHANGED <<wk, adapter, out, active, ingress, got, ran, wrote>>
    BY DEF AcquireFails, workerSide, history
  <1>2. CASE rq[r].kind = "forward"
    <2>1. rq' = [rq EXCEPT ![r].pc = "unbind", ![r].failed = TRUE]
      BY <1>2 DEF AcquireFails
    <2>2. Moves(r, "unbind", rq[r].w, TRUE, rq[r].lease)
      BY <2>1, InvTypes, ZenonT(60) DEF Moves, RequestRec, Steps
    <2> QED
      BY <1>1, <1>2, <2>2
  <1>3. CASE rq[r].kind # "forward"
    BY <1>1, <1>3, OverEffect DEF AcquireFails
  <1> QED
    BY <1>2, <1>3

LEMMA UnbindEffect ==
  ASSUME InvTypeOK, NEW r \in Requests, Unbind(r)
  PROVE  /\ rq[r].pc = "unbind"
         /\ UNCHANGED <<wk, adapter, out, got, ran, wrote>>
         /\ active' = active \ {r} /\ ingress' = ingress \ {r}
         /\ Moves(r, IF rq[r].kind = "forward" THEN "record" ELSE "release", rq[r].w,
                  rq[r].failed, rq[r].lease)
  <1>1. (IF rq[r].kind = "forward" THEN "record" ELSE "release") \in Steps
    BY DEF Steps
  <1> QED
    BY <1>1, GotoEffect DEF Unbind, workerSide, history

LEMMA RecordEffect ==
  ASSUME InvTypeOK, NEW r \in Requests, Record(r)
  PROVE  /\ rq[r].pc = "record"
         /\ UNCHANGED <<wk, adapter, out, active, ingress, got, ran>>
         /\ wrote' \in [Requests -> Nat] /\ wrote'[r] = wrote[r] + 1
         /\ \A s \in Requests \ {r} : wrote'[s] = wrote[s]
         /\ \/ rq[r].kind = "forward" /\ Ends(r, "spent")
            \/ rq[r].kind # "forward" /\ Moves(r, "unbind", rq[r].w, rq[r].failed, "spent")
  <1>1. rq[r].pc = "record" /\ UNCHANGED <<wk, adapter, out, active, ingress, got, ran>>
    BY DEF Record, workerSide
  <1>2. /\ wrote' \in [Requests -> Nat] /\ wrote'[r] = wrote[r] + 1
        /\ \A s \in Requests \ {r} : wrote'[s] = wrote[s]
    BY InvTypes DEF Record, AsyncInsertExecutionFinal
  <1>3. CASE rq[r].kind = "forward"
    BY <1>1, <1>2, <1>3, OverEffect DEF Record
  <1>4. CASE rq[r].kind # "forward"
    <2>1. rq \in [Requests -> RequestRec] /\ rq[r] \in RequestRec
      BY InvTypes
    <2>2. PICK q \in RequestRec : q = rq[r]
      BY <2>1
    <2> DEFINE e == [q EXCEPT !.lease = "spent", !.pc = "unbind"]
    <2>3. /\ e \in RequestRec /\ e.pc = "unbind" /\ e.lease = "spent" /\ e.w = q.w
          /\ e.failed = q.failed /\ e.kind = q.kind
      BY DEF RequestRec, Steps
    <2>4. rq' = [rq EXCEPT ![r] = e]
      BY <1>4, <2>1, <2>2 DEF Record
    <2>5. Moves(r, "unbind", rq[r].w, rq[r].failed, "spent")
      <3> HIDE DEF e
      <3> QED
        BY <2>1, <2>2, <2>3, <2>4 DEF Moves
    <2> QED
      BY <1>1, <1>2, <1>4, <2>5
  <1> QED
    BY <1>3, <1>4

Adapts(w, stdin, run, phase) ==
  /\ adapter' \in [Workers -> AdapterRec]
  /\ \A v \in Workers \ {w} : adapter'[v] = adapter[v]
  /\ adapter'[w].stdin = stdin /\ adapter'[w].run = run /\ adapter'[w].phase = phase

LEMMA StdinEffect ==
  ASSUME InvTypeOK, NEW w \in Workers, NEW r \in Requests,
         adapter' = [adapter EXCEPT ![w].stdin = r]
  PROVE  Adapts(w, r, adapter[w].run, adapter[w].phase)
  BY InvTypes DEF Adapts, AdapterRec

LEMMA PhaseEffect ==
  ASSUME InvTypeOK, NEW w \in Workers,
         NEW p \in {"boot", "idle", "handling", "streaming", "ended"},
         adapter' = [adapter EXCEPT ![w].phase = p]
  PROVE  Adapts(w, adapter[w].stdin, adapter[w].run, p)
  BY InvTypes DEF Adapts, AdapterRec

LEMMA ThroughEffect ==
  ASSUME InvTypeOK, NEW w \in Workers,
         adapter' = [adapter EXCEPT ![w].phase = "idle", ![w].run = NoRequest]
  PROVE  Adapts(w, adapter[w].stdin, NoRequest, "idle")
  BY InvTypes DEF Adapts, AdapterRec

LEMMA AcquireEffect ==
  ASSUME InvTypeOK, NEW r \in Requests, NEW w \in Workers, Acquire(r, w)
  PROVE  /\ rq[r].pc = "acquire" /\ wk[w].at = "parked"
         /\ UNCHANGED <<adapter, out, ingress, got, ran, wrote>>
         /\ \/ wk[w].dead /\ wk' = Kill(w) /\ UNCHANGED <<rq, active>>
            \/ /\ ~wk[w].dead
               /\ Touches(w, wk[w].proc, "leased", wk[w].dead, wk[w].token, wk[w].lock)
               /\ Moves(r, "write", w, rq[r].failed, rq[r].lease)
               /\ active' = active \cup {r}
  <1>1. /\ rq[r].pc = "acquire" /\ wk[w].at = "parked"
        /\ UNCHANGED <<adapter, out, ingress, got, ran, wrote>>
    BY DEF Acquire, history
  <1>2. CASE wk[w].dead
    BY <1>1, <1>2 DEF Acquire
  <1>3. CASE ~wk[w].dead
    <2>1. Touches(w, wk[w].proc, "leased", wk[w].dead, wk[w].token, wk[w].lock)
      BY <1>3, PlaceEffect DEF Acquire
    <2>2. rq' = [rq EXCEPT ![r].pc = "write", ![r].w = w]
      BY <1>3 DEF Acquire
    <2>3. Moves(r, "write", w, rq[r].failed, rq[r].lease)
      BY <2>2, InvTypes, ZenonT(60) DEF Moves, RequestRec, Steps
    <2>4. active' = active \cup {r}
      BY <1>3 DEF Acquire
    <2> QED
      BY <1>1, <1>3, <2>1, <2>3, <2>4
  <1> QED
    BY <1>2, <1>3

Back(q) == IF q.kind = "forward" THEN "release" ELSE "record"

LEMMA DispatchEffect ==
  ASSUME InvTypeOK, NEW r \in Requests, DispatchWrite(r), NEW w \in Workers, w = rq[r].w
  PROVE  /\ rq[r].pc = "write"
         /\ UNCHANGED <<out, active, ingress, got, ran, wrote>>
         /\ \/ /\ wk[w].dead /\ Moves(r, Back(rq[r]), w, TRUE, rq[r].lease)
               /\ UNCHANGED <<wk, adapter>>
            \/ /\ ~wk[w].dead /\ wk[w].proc = "up"
               /\ Touches(w, wk[w].proc, wk[w].at, wk[w].dead, wk[w].token, r)
               /\ Adapts(w, r, adapter[w].run, adapter[w].phase)
               /\ Moves(r, "first", w, rq[r].failed, rq[r].lease)
            \/ /\ Touches(w, wk[w].proc, wk[w].at, TRUE, wk[w].token, wk[w].lock)
               /\ Moves(r, Back(rq[r]), w, TRUE, rq[r].lease) /\ UNCHANGED adapter
  <1>1. rq[r].pc = "write" /\ UNCHANGED <<out, active, ingress, got, ran, wrote>>
    BY DEF DispatchWrite, history
  <1>2. \/ wk[w].dead /\ EndRun(r, TRUE) /\ UNCHANGED <<wk, adapter>>
        \/ /\ ~wk[w].dead /\ wk[w].lock = NoRequest /\ Alive(w)
           /\ wk' = [wk EXCEPT ![w].lock = r]
           /\ adapter' = [adapter EXCEPT ![w].stdin = r]
           /\ Goto(r, "first")
        \/ /\ ~wk[w].dead /\ wk[w].lock = NoRequest
           /\ MarkDead(w) /\ EndRun(r, TRUE) /\ UNCHANGED adapter
    BY DEF DispatchWrite
  <1>3. EndRun(r, TRUE) => Moves(r, Back(rq[r]), w, TRUE, rq[r].lease)
    BY EndRunEffect DEF Back
  <1>4. Goto(r, "first") => Moves(r, "first", w, rq[r].failed, rq[r].lease)
    BY GotoEffect DEF Steps
  <1>5. adapter' = [adapter EXCEPT ![w].stdin = r] => Adapts(w, r, adapter[w].run, adapter[w].phase)
    BY StdinEffect
  <1> QED
    BY <1>1, <1>2, <1>3, <1>4, <1>5, LockEffect, MarkDeadEffect DEF Alive

LEMMA DeliverEffect ==
  ASSUME InvTypeOK, NEW r \in Requests, NEW f \in Frames, Deliver(r, f)
  PROVE  /\ got' \in [Requests -> SUBSET (Requests \cup {NoRequest})]
         /\ got'[r] = got[r] \cup {f.of} /\ \A s \in Requests \ {r} : got'[s] = got[s]
  <1>1. f.of \in Requests \cup {NoRequest}
    BY DEF Frames
  <1> QED
    BY <1>1, InvTypes DEF Deliver

LEMMA ReadFirstEffect ==
  ASSUME InvTypeOK, NEW r \in Requests, ReadFirst(r), NEW w \in Workers, w = rq[r].w
  PROVE  /\ rq[r].pc = "first" /\ out[w] # <<>> /\ out' = [out EXCEPT ![w] = Tail(@)]
         /\ UNCHANGED <<adapter, active, ingress, ran, wrote>>
         /\ \/ /\ Head(out[w]).type = "response" /\ Deliver(r, Head(out[w]))
               /\ Touches(w, wk[w].proc, wk[w].at, wk[w].dead, wk[w].token, NoRequest)
               /\ Moves(r, Back(rq[r]), w, FALSE, rq[r].lease)
            \/ /\ Head(out[w]).type = "start" /\ Deliver(r, Head(out[w])) /\ UNCHANGED wk
               /\ Moves(r, "stream", w, rq[r].failed, rq[r].lease)
            \/ /\ UNCHANGED got /\ Moves(r, Back(rq[r]), w, TRUE, rq[r].lease)
               /\ \E dead \in BOOLEAN :
                    Touches(w, wk[w].proc, wk[w].at, dead, wk[w].token, NoRequest)
  <1> DEFINE f == Head(out[w])
  <1>1. /\ rq[r].pc = "first" /\ out[w] # <<>> /\ out' = [out EXCEPT ![w] = Tail(@)]
        /\ UNCHANGED <<adapter, active, ingress, ran, wrote>>
    BY DEF ReadFirst
  <1>2. \A b \in BOOLEAN : EndRun(r, b) => Moves(r, Back(rq[r]), w, b, rq[r].lease)
    BY EndRunEffect DEF Back
  <1>3. Goto(r, "stream") => Moves(r, "stream", w, rq[r].failed, rq[r].lease)
    BY GotoEffect DEF Steps
  <1>4. wk[w].dead \in BOOLEAN
    BY InvTypes DEF WorkerRec
  <1>5. CASE f.type = "response"
    <2>1. Unlock(w) /\ Deliver(r, f) /\ EndRun(r, FALSE)
      BY <1>5 DEF ReadFirst
    <2> QED
      BY <1>1, <1>2, <1>5, <2>1, UnlockEffect
  <1>6. CASE f.type = "start"
    <2>1. Deliver(r, f) /\ Goto(r, "stream") /\ UNCHANGED wk
      BY <1>6 DEF ReadFirst
    <2> QED
      BY <1>1, <1>3, <1>6, <2>1
  <1>7. CASE f.type \notin {"response", "start"}
    <2>1. (Unlock(w) \/ DeadUnlock(w)) /\ UNCHANGED got /\ EndRun(r, TRUE)
      BY <1>7 DEF ReadFirst
    <2>2. \E dead \in BOOLEAN : Touches(w, wk[w].proc, wk[w].at, dead, wk[w].token, NoRequest)
      BY <1>4, <2>1, UnlockEffect, DeadUnlockEffect
    <2> QED
      BY <1>1, <1>2, <2>1, <2>2
  <1> QED
    BY <1>5, <1>6, <1>7

LEMMA NextFrameEffect ==
  ASSUME InvTypeOK, NEW r \in Requests, NextFrame(r), NEW w \in Workers, w = rq[r].w
  PROVE  /\ rq[r].pc = "stream" /\ out[w] # <<>> /\ out' = [out EXCEPT ![w] = Tail(@)]
         /\ UNCHANGED <<adapter, active, ingress, ran, wrote>>
         /\ \/ Head(out[w]).type = "chunk" /\ Deliver(r, Head(out[w])) /\ UNCHANGED <<wk, rq>>
            \/ /\ Head(out[w]).type = "end" /\ UNCHANGED got
               /\ Touches(w, wk[w].proc, wk[w].at, wk[w].dead, wk[w].token, NoRequest)
               /\ Moves(r, Back(rq[r]), w, FALSE, rq[r].lease)
            \/ /\ UNCHANGED got /\ Moves(r, Back(rq[r]), w, TRUE, rq[r].lease)
               /\ Touches(w, wk[w].proc, wk[w].at, TRUE, wk[w].token, NoRequest)
  <1> DEFINE f == Head(out[w])
  <1>1. /\ rq[r].pc = "stream" /\ out[w] # <<>> /\ out' = [out EXCEPT ![w] = Tail(@)]
        /\ UNCHANGED <<adapter, active, ingress, ran, wrote>>
    BY DEF NextFrame
  <1>2. \A b \in BOOLEAN : EndRun(r, b) => Moves(r, Back(rq[r]), w, b, rq[r].lease)
    BY EndRunEffect DEF Back
  <1>3. CASE f.type = "chunk"
    <2>1. Deliver(r, f) /\ UNCHANGED <<wk, rq>>
      BY <1>3 DEF NextFrame
    <2> QED
      BY <1>1, <1>3, <2>1
  <1>4. CASE f.type = "end"
    <2>1. Unlock(w) /\ UNCHANGED got /\ EndRun(r, FALSE)
      BY <1>4 DEF NextFrame
    <2> QED
      BY <1>1, <1>2, <1>4, <2>1, UnlockEffect
  <1>5. CASE f.type \notin {"chunk", "end"}
    <2>1. DeadUnlock(w) /\ UNCHANGED got /\ EndRun(r, TRUE)
      BY <1>5 DEF NextFrame
    <2> QED
      BY <1>1, <1>2, <2>1, DeadUnlockEffect
  <1> QED
    BY <1>3, <1>4, <1>5

\* StreamAbandoned and ReadFails: the run has failed.
LEMMA GiveUpEffect ==
  ASSUME InvTypeOK, NEW r \in Requests, StreamAbandoned(r) \/ ReadFails(r),
         NEW w \in Workers, w = rq[r].w
  PROVE  /\ rq[r].pc \in {"first", "stream"}
         /\ UNCHANGED <<adapter, active, ingress, got, ran, wrote>>
         /\ \/ UNCHANGED out
            \/ out[w] # <<>> /\ out' = [out EXCEPT ![w] = Tail(@)]
         /\ \/ UNCHANGED wk
            \/ Touches(w, wk[w].proc, wk[w].at, TRUE, wk[w].token, NoRequest)
         /\ Moves(r, Back(rq[r]), w, TRUE, rq[r].lease)
  <1>1. EndRun(r, TRUE) => Moves(r, Back(rq[r]), w, TRUE, rq[r].lease)
    BY EndRunEffect DEF Back
  <1>2. CASE StreamAbandoned(r)
    BY <1>1, <1>2 DEF StreamAbandoned, history
  <1>3. CASE ReadFails(r)
    BY <1>1, <1>3, DeadUnlockEffect DEF ReadFails, history
  <1> QED
    BY <1>2, <1>3

LEMMA ReleaseEffect ==
  ASSUME InvTypeOK, NEW r \in Requests, Release(r), NEW w \in Workers, w = rq[r].w
  PROVE  /\ rq[r].pc = "release"
         /\ UNCHANGED <<adapter, out, active, ingress, got, ran, wrote>>
         /\ \/ wk' = Kill(w)
            \/ /\ ~rq[r].failed /\ ~wk[w].dead
               /\ Touches(w, wk[w].proc, "parked", wk[w].dead, wk[w].token, wk[w].lock)
         /\ \/ rq[r].kind = "forward" /\ Moves(r, "unbind", w, rq[r].failed, rq[r].lease)
            \/ rq[r].kind # "forward" /\ Ends(r, IF rq[r].lease = "held" THEN "back" ELSE rq[r].lease)
  <1>1. rq[r].pc = "release" /\ UNCHANGED <<adapter, out, active, ingress, got, ran, wrote>>
    BY DEF Release, history
  <1>2. \/ wk' = Kill(w)
        \/ /\ ~rq[r].failed /\ ~wk[w].dead
           /\ Touches(w, wk[w].proc, "parked", wk[w].dead, wk[w].token, wk[w].lock)
    BY PlaceEffect DEF Release
  <1>3. CASE rq[r].kind = "forward"
    <2>1. rq' = [rq EXCEPT ![r].pc = "unbind"]
      BY <1>3, InvTypes DEF Release
    <2> QED
      BY <1>1, <1>2, <1>3, <2>1, GotoEffect DEF Goto, Steps
  <1>4. CASE rq[r].kind # "forward"
    <2>1. rq' = [rq EXCEPT ![r] = Over(IF rq[r].lease = "held" THEN "back" ELSE rq[r].lease)]
      BY <1>4, InvTypes DEF Release
    <2>2. (IF rq[r].lease = "held" THEN "back" ELSE rq[r].lease) \in {"none", "held", "spent", "back"}
      BY InvTypes DEF RequestRec
    <2> QED
      BY <1>1, <1>2, <1>4, <2>1, <2>2, OverEffect
  <1> QED
    BY <1>3, <1>4

LEMMA SpawnEffect ==
  ASSUME InvTypeOK, NEW w \in Workers, Spawn(w)
  PROVE  /\ wk[w].proc = "none"
         /\ UNCHANGED <<rq, adapter, out, active, ingress, got, ran, wrote>>
         /\ Touches(w, "up", "booting", wk[w].dead, TRUE, wk[w].lock)
  <1>1. wk[w].proc = "none" /\ UNCHANGED <<rq, adapter, out, active, ingress, got, ran, wrote>>
    BY DEF Spawn, history
  <1>2. PICK k \in WorkerRec : k = wk[w]
    BY InvTypes
  <1> DEFINE e == [k EXCEPT !.proc = "up", !.at = "booting", !.token = TRUE]
  <1>3. /\ e \in WorkerRec /\ e.proc = "up" /\ e.at = "booting" /\ e.token = TRUE
        /\ e.dead = k.dead /\ e.lock = k.lock
    BY DEF WorkerRec
  <1>4. wk' = [wk EXCEPT ![w] = e] /\ wk \in [Workers -> WorkerRec]
    BY <1>2, InvTypes DEF Spawn
  <1>5. Touches(w, "up", "booting", wk[w].dead, TRUE, wk[w].lock)
    <2> HIDE DEF e
    <2> QED
      BY <1>2, <1>3, <1>4 DEF Touches
  <1> QED
    BY <1>1, <1>5

LEMMA AwaitReadyEffect ==
  ASSUME InvTypeOK, NEW w \in Workers, AwaitReady(w)
  PROVE  /\ wk[w].at = "booting"
         /\ UNCHANGED <<rq, adapter, active, ingress, got, ran, wrote>>
         /\ \/ /\ out[w] # <<>> /\ out' = [out EXCEPT ![w] = Tail(@)]
               /\ Touches(w, wk[w].proc, "parked", wk[w].dead, wk[w].token, wk[w].lock)
            \/ wk' = Kill(w) /\ UNCHANGED out
  BY PlaceEffect DEF AwaitReady, history

LEMMA ReapEffect ==
  ASSUME InvTypeOK, NEW w \in Workers, Reap(w)
  PROVE  /\ wk[w].proc = "exited"
         /\ UNCHANGED <<rq, active, ingress, got, ran, wrote>>
         /\ Touches(w, "reaped", wk[w].at, TRUE, FALSE, wk[w].lock)
         /\ Adapts(w, NoRequest, NoRequest, "boot")
         /\ out' \in [Workers -> Seq(Frames)] /\ out'[w] = <<>>
         /\ \A v \in Workers \ {w} : out'[v] = out[v]
  <1>1. wk[w].proc = "exited" /\ UNCHANGED <<rq, active, ingress, got, ran, wrote>>
    BY DEF Reap, history
  <1>2. Touches(w, "reaped", wk[w].at, TRUE, FALSE, wk[w].lock)
    BY InvTypes DEF Reap, Touches, WorkerRec
  <1>3. Booting \in AdapterRec
    BY DEF Booting, AdapterRec
  <1>4. Booting.stdin = NoRequest /\ Booting.run = NoRequest /\ Booting.phase = "boot"
    BY DEF Booting
  <1>5. Adapts(w, NoRequest, NoRequest, "boot")
    BY <1>3, <1>4, InvTypes DEF Reap, Adapts
  <1>6. /\ out' \in [Workers -> Seq(Frames)] /\ out'[w] = <<>>
        /\ \A v \in Workers \ {w} : out'[v] = out[v]
    BY InvTypes, EmptySeq DEF Reap
  <1> QED
    BY <1>1, <1>2, <1>5, <1>6

LEMMA QuitEffect ==
  ASSUME NEW w \in Workers, Quit(w)
  PROVE  /\ wk[w].at = "parked" /\ wk' = Kill(w)
         /\ UNCHANGED <<rq, adapter, out, active, ingress, got, ran, wrote>>
  BY DEF Quit, history

LEMMA ExitEffect ==
  ASSUME InvTypeOK, NEW w \in Workers, AdapterExit(w)
  PROVE  /\ wk[w].proc = "up"
         /\ UNCHANGED <<rq, adapter, out, active, ingress, got, ran, wrote>>
         /\ Touches(w, "exited", wk[w].at, wk[w].dead, wk[w].token, wk[w].lock)
  BY InvTypes DEF AdapterExit, Alive, history, Touches, WorkerRec

LEMMA TakeEffect ==
  ASSUME InvTypeOK, NEW w \in Workers, AdapterTake(w)
  PROVE  /\ wk[w].proc = "up" /\ adapter[w].phase \in {"idle", "ended"}
         /\ adapter[w].stdin \in Requests /\ ran' = ran \cup {adapter[w].stdin}
         /\ UNCHANGED <<rq, wk, out, active, ingress, got, wrote>>
         /\ Adapts(w, NoRequest, adapter[w].stdin, "handling")
  <1>1. /\ wk[w].proc = "up" /\ adapter[w].phase \in {"idle", "ended"}
        /\ ran' = ran \cup {adapter[w].stdin}
        /\ UNCHANGED <<rq, wk, out, active, ingress, got, wrote>>
    BY DEF AdapterTake, Alive
  <1>2. adapter[w].stdin \in Requests
    BY InvTypes DEF AdapterTake, AdapterRec
  <1> DEFINE e == [stdin |-> NoRequest, run |-> adapter[w].stdin, phase |-> "handling"]
  <1>3. e \in AdapterRec
    BY <1>2 DEF AdapterRec
  <1>4. e.stdin = NoRequest /\ e.run = adapter[w].stdin /\ e.phase = "handling"
    OBVIOUS
  <1>5. adapter' = [adapter EXCEPT ![w] = e] /\ adapter \in [Workers -> AdapterRec]
    BY InvTypes DEF AdapterTake
  <1>6. Adapts(w, NoRequest, adapter[w].stdin, "handling")
    <2> HIDE DEF e
    <2> QED
      BY <1>3, <1>4, <1>5 DEF Adapts
  <1> QED
    BY <1>1, <1>2, <1>6

\* The steps of the adapter that write a frame.
Emits(w) ==
  \/ AdapterBoot(w) \/ AdapterAnswer(w) \/ AdapterStream(w) \/ LateHeartbeat(w)

LEMMA EmitsEffect ==
  ASSUME InvTypeOK, NEW w \in Workers, Emits(w)
  PROVE  /\ wk[w].proc = "up"
         /\ UNCHANGED <<rq, wk, active, ingress, got, ran, wrote>>
         /\ \/ /\ adapter[w].phase = "boot" /\ Emit(w, "ready")
               /\ Adapts(w, adapter[w].stdin, adapter[w].run, "idle")
            \/ /\ adapter[w].phase \in {"handling", "streaming"}
               /\ \E t \in {"response", "error", "fatal"} : Emit(w, t)
               /\ Adapts(w, adapter[w].stdin, NoRequest, "idle")
            \/ /\ adapter[w].phase = "handling" /\ Emit(w, "start")
               /\ Adapts(w, adapter[w].stdin, adapter[w].run, "streaming")
            \/ /\ adapter[w].phase = "streaming" /\ Emit(w, "chunk")
               /\ Adapts(w, adapter[w].stdin, adapter[w].run, "streaming")
            \/ /\ adapter[w].phase = "streaming" /\ Emit(w, "end")
               /\ Adapts(w, adapter[w].stdin, adapter[w].run, "ended")
            \/ /\ adapter[w].phase = "ended" /\ adapter[w].stdin = NoRequest
               /\ Emit(w, "chunk") /\ Adapts(w, adapter[w].stdin, NoRequest, "idle")
  <1>1. wk[w].proc = "up" /\ UNCHANGED <<rq, wk, active, ingress, got, ran, wrote>>
    BY DEF Emits, AdapterBoot, AdapterAnswer, AdapterStream, LateHeartbeat, Alive, history
  <1>2. CASE AdapterBoot(w)
    BY <1>1, <1>2, PhaseEffect DEF AdapterBoot
  <1>3. CASE AdapterAnswer(w)
    <2>1. /\ adapter[w].phase = "handling" /\ \E t \in {"response", "error", "fatal"} : Emit(w, t)
          /\ Adapts(w, adapter[w].stdin, NoRequest, "idle")
      BY <1>3, ThroughEffect DEF AdapterAnswer
    <2> QED
      BY <1>1, <2>1
  <1>4. CASE AdapterStream(w)
    <2>1. CASE adapter[w].phase = "handling"
      <3>1. Emit(w, "start") /\ adapter' = [adapter EXCEPT ![w].phase = "streaming"]
        BY <1>4, <2>1 DEF AdapterStream
      <3> QED
        BY <1>1, <2>1, <3>1, PhaseEffect
    <2>2. CASE adapter[w].phase = "streaming" /\ Emit(w, "chunk") /\ UNCHANGED adapter
      <3>1. Adapts(w, adapter[w].stdin, adapter[w].run, "streaming")
        BY <2>2, InvTypes DEF Adapts
      <3> QED
        BY <1>1, <2>2, <3>1
    <2>3. CASE /\ adapter[w].phase = "streaming" /\ Emit(w, "end")
               /\ adapter' = [adapter EXCEPT ![w].phase = "ended"]
      BY <1>1, <2>3, PhaseEffect
    <2>4. CASE /\ adapter[w].phase = "streaming" /\ Emit(w, "response")
               /\ adapter' = [adapter EXCEPT ![w].phase = "idle", ![w].run = NoRequest]
      <3>1. Adapts(w, adapter[w].stdin, NoRequest, "idle")
        BY <2>4, ThroughEffect
      <3> QED
        BY <1>1, <2>4, <3>1
    <2> QED
      BY <1>4, <2>1, <2>2, <2>3, <2>4 DEF AdapterStream
  <1>5. CASE LateHeartbeat(w)
    <2>1. /\ adapter[w].phase = "ended" /\ adapter[w].stdin = NoRequest /\ Emit(w, "chunk")
          /\ Adapts(w, adapter[w].stdin, NoRequest, "idle")
      BY <1>5, ThroughEffect DEF LateHeartbeat
    <2> QED
      BY <1>1, <2>1
  <1> QED
    BY <1>2, <1>3, <1>4, <1>5 DEF Emits

-----------------------------------------------------------------------------
(* Invocations: a step leaves the other workers and requests as they are.  *)

Same(v) == wk'[v] = wk[v] /\ adapter'[v] = adapter[v] /\ out'[v] = out[v]

LEMMA SameClean ==
  ASSUME NEW v, Same(v), Clean(v)
  PROVE  Clean(v)'
  BY DEF Same, Clean, OnlyChunks

LEMMA SameLife ==
  ASSUME NEW v, Same(v), Life(v)
  PROVE  Life(v)'
  <1>1. Clean(v) => Clean(v)'
    BY SameClean
  <1> QED
    BY <1>1 DEF Same, Life

LEMMA SameReads ==
  ASSUME NEW v, NEW s, Same(v)
  PROVE  /\ ReadsFirst(s, v) => ReadsFirst(s, v)'
         /\ ReadsStream(s, v) => ReadsStream(s, v)'
  <1>1. Waiting(s, v) => Waiting(s, v)'
    BY DEF Same, Waiting, OnlyChunks
  <1>2. Answering(s, v) => Answering(s, v)'
    BY DEF Same, Answering
  <1>3. AllOf(out[v], s) => AllOf(out[v], s)'
    BY DEF Same, AllOf
  <1> QED
    BY <1>1, <1>2, <1>3 DEF Same, ReadsFirst, ReadsStream

LEMMA SameOwns ==
  ASSUME NEW s, rq'[s] = rq[s], Same(rq[s].w), Owns(s)
  PROVE  Owns(s)'
  <1>1. PICK v : v = rq[s].w
    OBVIOUS
  <1>2. Same(v) /\ rq'[s].w = v
    BY <1>1
  <1>3. Clean(v) => Clean(v)'
    BY <1>2, SameClean
  <1>4. /\ ReadsFirst(s, v) => ReadsFirst(s, v)'
        /\ ReadsStream(s, v) => ReadsStream(s, v)'
    BY <1>2, SameReads
  <1>5. /\ v \in Workers /\ wk'[v].at = "leased"
        /\ rq[s].pc = "write" /\ ~wk'[v].dead => Clean(v)'
        /\ rq[s].pc = "first" /\ wk'[v].proc # "reaped" => ReadsFirst(s, v)'
        /\ rq[s].pc = "stream" /\ wk'[v].proc # "reaped" => ReadsStream(s, v)'
        /\ Ran(rq[s]) /\ ~rq[s].failed /\ ~wk'[v].dead => Clean(v)'
    BY <1>1, <1>2, <1>3, <1>4 DEF Owns, Same
  <1>6. Ran(rq[s])' <=> Ran(rq[s])
    BY DEF Ran
  <1>7. (rq[s].w)' = v
    BY <1>2
  <1> QED
    BY <1>5, <1>6, <1>7 DEF Owns

\* A worker, its process or what runs in it does something.
LEMMA WorkerStep ==
  ASSUME CleanInv, InvTypeOK', NEW w \in Workers, rq' = rq, got' = got,
         \A v \in Workers \ {w} : Same(v),
         Life(w)',
         \A r \in Requests : Holds(rq[r]) /\ rq[r].w = w => Owns(r)'
  PROVE  CleanInv'
  <1>1. \A v \in Workers : Life(v)'
    BY SameLife DEF CleanInv
  <1>2. ASSUME NEW r \in Requests, Holds(rq[r])
        PROVE  Owns(r)'
    <2>1. Owns(r) /\ rq[r].w \in Workers
      BY <1>2 DEF CleanInv, Owns
    <2>2. CASE rq[r].w # w
      BY <2>1, <2>2, SameOwns
    <2> QED
      BY <1>2, <2>2
  <1>3. \A r \in Requests : Holds(rq[r])' => Owns(r)'
    BY <1>2 DEF Holds, Ran
  <1>4. OneHolder' /\ OwnAnswers'
    BY DEF CleanInv, OneHolder, Holds, Ran, OwnAnswers
  <1> QED
    BY <1>1, <1>3, <1>4 DEF CleanInv

\* A request does something with a worker that is its own, or that nobody has.
LEMMA RequestStep ==
  ASSUME CleanInv, InvTypeOK', NEW r \in Requests, NEW w \in Workers,
         \A s \in Requests \ {r} : rq'[s] = rq[s] /\ got'[s] = got[s],
         \A v \in Workers \ {w} : Same(v),
         \A s \in Requests \ {r} : Holds(rq[s]) => rq[s].w # w,
         Life(w)',
         Holds(rq'[r]) => rq'[r].w = w /\ Owns(r)',
         got'[r] \subseteq {r}
  PROVE  CleanInv'
  <1>1. \A v \in Workers : Life(v)'
    BY SameLife DEF CleanInv
  <1>2. ASSUME NEW s \in Requests \ {r}, Holds(rq[s])
        PROVE  Owns(s)'
    <2>1. Owns(s) /\ rq[s].w \in Workers /\ rq[s].w # w
      BY <1>2 DEF CleanInv, Owns
    <2> QED
      BY <2>1, SameOwns
  <1>3. \A s \in Requests : Holds(rq[s])' => Owns(s)'
    BY <1>2 DEF Holds, Ran
  <1>4. OneHolder'
    <2>1. \A s \in Requests \ {r} : Holds(rq'[s]) => rq'[s].w # w
      OBVIOUS
    <2>2. \A s, t \in Requests \ {r} : Holds(rq'[s]) /\ Holds(rq'[t]) /\ rq'[s].w = rq'[t].w => s = t
      BY DEF CleanInv, OneHolder
    <2>3. \A s, t \in Requests : Holds(rq'[s]) /\ Holds(rq'[t]) /\ rq'[s].w = rq'[t].w => s = t
      BY <2>1, <2>2
    <2> QED
      BY <2>3 DEF OneHolder, Holds, Ran
  <1>5. OwnAnswers'
    BY DEF CleanInv, OwnAnswers
  <1> QED
    BY <1>1, <1>3, <1>4, <1>5 DEF CleanInv

\* A request does something without a worker, or without touching its own.
LEMMA QuietRequest ==
  ASSUME CleanInv, InvTypeOK', NEW r \in Requests, UNCHANGED <<wk, adapter, out, got>>,
         \A s \in Requests \ {r} : rq'[s] = rq[s],
         Holds(rq'[r]) => /\ Ran(rq'[r]) /\ Ran(rq[r]) /\ rq'[r].w = rq[r].w
                          /\ rq'[r].failed = rq[r].failed
                          /\ rq'[r].pc \notin {"write", "first", "stream"}
  PROVE  CleanInv'
  <1>1. \A v \in Workers : Same(v)
    BY DEF Same
  <1>2. \A v \in Workers : Life(v)'
    BY <1>1, SameLife DEF CleanInv
  <1>3. ASSUME NEW s \in Requests \ {r}, Holds(rq[s])
        PROVE  Owns(s)'
    <2>1. Owns(s) /\ rq[s].w \in Workers
      BY <1>3 DEF CleanInv, Owns
    <2> QED
      BY <1>1, <2>1, SameOwns
  <1>4. ASSUME Holds(rq'[r])
        PROVE  Owns(r)' /\ Holds(rq[r])
    <2>1. Owns(r) /\ Ran(rq[r]) /\ Holds(rq[r])
      BY <1>4 DEF CleanInv, Holds
    <2>2. PICK v \in Workers : v = rq[r].w
      BY <2>1 DEF Owns
    <2>3. wk'[v].at = "leased" /\ (~rq'[r].failed /\ ~wk'[v].dead => Clean(v)')
      <3>1. Clean(v) => Clean(v)'
        BY <1>1, <2>2, SameClean
      <3> QED
        BY <1>4, <2>1, <2>2, <3>1 DEF Owns
    <2>4. rq'[r].w = v /\ rq'[r].pc \notin {"write", "first", "stream"}
      BY <1>4, <2>2
    <2> QED
      BY <2>1, <2>2, <2>3, <2>4 DEF Owns
  <1>5. \A s \in Requests : Holds(rq[s])' => Owns(s)'
    BY <1>3, <1>4 DEF Holds, Ran
  <1>6. OneHolder'
    <2>1. \A s \in Requests : Holds(rq'[s]) => Holds(rq[s]) /\ rq'[s].w = rq[s].w
      BY <1>4
    <2>2. \A s, t \in Requests : Holds(rq'[s]) /\ Holds(rq'[t]) /\ rq'[s].w = rq'[t].w => s = t
      BY <2>1 DEF CleanInv, OneHolder
    <2> QED
      BY <2>2 DEF OneHolder, Holds, Ran
  <1>7. OwnAnswers'
    BY DEF CleanInv, OwnAnswers
  <1> QED
    BY <1>2, <1>5, <1>6, <1>7 DEF CleanInv

-----------------------------------------------------------------------------
(* Invocations: the workers' steps keep them clean.                        *)

\* Before its start a worker has no place in the pool.
LEMMA KilledLife ==
  ASSUME CleanInv, NEW w \in Workers, wk' = Kill(w), UNCHANGED <<adapter, out>>,
         wk[w].at \in {"booting", "parked", "leased"}
  PROVE  /\ Life(w)' /\ wk'[w].at = "out" /\ wk'[w].dead
         /\ wk' \in [Workers -> WorkerRec] /\ \A v \in Workers \ {w} : Same(v)
  <1>1. InvTypeOK /\ Life(w)
    BY DEF CleanInv
  <1>2. Touches(w, IF wk[w].proc = "up" THEN "exited" ELSE wk[w].proc, "out", TRUE,
                wk[w].token, wk[w].lock)
    BY <1>1, KillEffect
  <1>3. wk[w].proc # "none" /\ wk[w].proc \in {"none", "up", "exited", "reaped"}
    BY <1>1, InvTypes DEF Life, WorkerRec
  <1>4. /\ wk'[w].at = "out" /\ wk'[w].dead /\ wk' \in [Workers -> WorkerRec]
        /\ wk'[w].token = wk[w].token
        /\ wk'[w].proc = IF wk[w].proc = "up" THEN "exited" ELSE wk[w].proc
    BY <1>2 DEF Touches
  <1>5. Life(w)'
    BY <1>1, <1>3, <1>4 DEF Life
  <1>6. \A v \in Workers \ {w} : Same(v)
    BY <1>2 DEF Touches, Same
  <1> QED
    BY <1>4, <1>5, <1>6

LEMMA SpawnClean ==
  ASSUME CleanInv, NEW w \in Workers, Spawn(w)
  PROVE  CleanInv'
  <1>1. InvTypeOK /\ Life(w)
    BY DEF CleanInv
  <1>2. /\ wk[w].proc = "none"
        /\ UNCHANGED <<rq, adapter, out, active, ingress, got, ran, wrote>>
        /\ Touches(w, "up", "booting", wk[w].dead, TRUE, wk[w].lock)
    BY <1>1, SpawnEffect
  <1>3. InvTypeOK'
    BY <1>1, <1>2, InvTypes, InvTypesNext DEF Touches
  <1>4. /\ wk'[w].proc = "up" /\ wk'[w].at = "booting" /\ wk'[w].token
        /\ wk'[w].lock = wk[w].lock
    BY <1>2 DEF Touches
  <1>5. wk[w].at = "none" /\ wk[w].lock = NoRequest /\ adapter[w] = Booting /\ out[w] = <<>>
    BY <1>1, <1>2 DEF Life
  <1>6. adapter'[w].stdin = NoRequest /\ adapter'[w].phase = "boot" /\ out'[w] = <<>>
    BY <1>2, <1>5 DEF Booting
  <1>7. Life(w)'
    BY <1>4, <1>5, <1>6 DEF Life
  <1>8. \A r \in Requests : Holds(rq[r]) => rq[r].w # w
    BY <1>5 DEF CleanInv, Owns
  <1>9. \A v \in Workers \ {w} : Same(v)
    BY <1>2 DEF Touches, Same
  <1> QED
    BY <1>2, <1>3, <1>7, <1>8, <1>9, WorkerStep

LEMMA AwaitReadyClean ==
  ASSUME CleanInv, NEW w \in Workers, AwaitReady(w)
  PROVE  CleanInv'
  <1>1. InvTypeOK /\ Life(w)
    BY DEF CleanInv
  <1>2. wk[w].at = "booting" /\ UNCHANGED <<rq, adapter, active, ingress, got, ran, wrote>>
    BY <1>1, AwaitReadyEffect
  <1>3. \A r \in Requests : Holds(rq[r]) => rq[r].w # w
    BY <1>2 DEF CleanInv, Owns
  <1>4. CASE wk' = Kill(w) /\ UNCHANGED out
    <2>1. Life(w)' /\ wk' \in [Workers -> WorkerRec] /\ \A v \in Workers \ {w} : Same(v)
      BY <1>2, <1>4, KilledLife
    <2>2. InvTypeOK'
      BY <1>1, <1>2, <1>4, <2>1, InvTypes, InvTypesNext
    <2> QED
      BY <1>2, <1>3, <2>1, <2>2, WorkerStep
  <1>5. CASE /\ out[w] # <<>> /\ out' = [out EXCEPT ![w] = Tail(@)]
             /\ Touches(w, wk[w].proc, "parked", wk[w].dead, wk[w].token, wk[w].lock)
    <2>1. /\ out' \in [Workers -> Seq(Frames)]
          /\ \A v \in Workers \ {w} : out'[v] = out[v]
          /\ Len(out'[w]) = Len(out[w]) - 1
      BY <1>1, <1>5, ReadEffect
    <2>2. InvTypeOK'
      BY <1>1, <1>2, <1>5, <2>1, InvTypes, InvTypesNext DEF Touches
    <2>3. /\ wk[w].proc \notin {"none", "reaped"} /\ wk[w].lock = NoRequest
          /\ adapter[w].stdin = NoRequest /\ adapter[w].phase = "idle" /\ Len(out[w]) = 1
      BY <1>1, <1>2, <1>5 DEF Life
    <2>4. /\ wk'[w].proc = wk[w].proc /\ wk'[w].at = "parked" /\ wk'[w].token = wk[w].token
          /\ wk'[w].lock = NoRequest
      BY <1>5, <2>3 DEF Touches
    <2>5. Clean(w)'
      BY <1>2, <2>1, <2>3, <2>4 DEF Clean, OnlyChunks
    <2>6. Life(w)'
      BY <1>1, <2>3, <2>4, <2>5 DEF Life
    <2>7. \A v \in Workers \ {w} : Same(v)
      BY <1>2, <1>5, <2>1 DEF Touches, Same
    <2> QED
      BY <1>2, <1>3, <2>2, <2>6, <2>7, WorkerStep
  <1> QED
    BY <1>1, <1>4, <1>5, AwaitReadyEffect

LEMMA QuitClean ==
  ASSUME CleanInv, NEW w \in Workers, Quit(w)
  PROVE  CleanInv'
  <1>1. InvTypeOK /\ Life(w)
    BY DEF CleanInv
  <1>2. /\ wk[w].at = "parked" /\ wk' = Kill(w)
        /\ UNCHANGED <<rq, adapter, out, active, ingress, got, ran, wrote>>
    BY QuitEffect
  <1>3. \A r \in Requests : Holds(rq[r]) => rq[r].w # w
    BY <1>2 DEF CleanInv, Owns
  <1>4. Life(w)' /\ wk' \in [Workers -> WorkerRec] /\ \A v \in Workers \ {w} : Same(v)
    BY <1>2, KilledLife
  <1>5. InvTypeOK'
    BY <1>1, <1>2, <1>4, InvTypes, InvTypesNext
  <1> QED
    BY <1>2, <1>3, <1>4, <1>5, WorkerStep

LEMMA ReapClean ==
  ASSUME CleanInv, NEW w \in Workers, Reap(w)
  PROVE  CleanInv'
  <1>1. InvTypeOK /\ Life(w)
    BY DEF CleanInv
  <1>2. /\ wk[w].proc = "exited" /\ UNCHANGED <<rq, active, ingress, got, ran, wrote>>
        /\ Touches(w, "reaped", wk[w].at, TRUE, FALSE, wk[w].lock)
        /\ Adapts(w, NoRequest, NoRequest, "boot")
        /\ out' \in [Workers -> Seq(Frames)] /\ out'[w] = <<>>
        /\ \A v \in Workers \ {w} : out'[v] = out[v]
    BY <1>1, ReapEffect
  <1>3. InvTypeOK'
    BY <1>1, <1>2, InvTypes, InvTypesNext DEF Touches, Adapts
  <1>4. wk'[w].proc = "reaped" /\ wk'[w].at = wk[w].at /\ wk'[w].dead /\ ~wk'[w].token
    BY <1>2 DEF Touches
  <1>5. Life(w)'
    BY <1>2, <1>4 DEF Life
  <1>6. \A v \in Workers \ {w} : Same(v)
    BY <1>2 DEF Touches, Adapts, Same
  <1>7. ASSUME NEW r \in Requests, Holds(rq[r]), rq[r].w = w
        PROVE  Owns(r)'
    <2>1. wk[w].at = "leased"
      BY <1>7 DEF CleanInv, Owns
    <2>2. rq'[r] = rq[r] /\ rq'[r].w = w
      BY <1>2, <1>7
    <2> QED
      BY <1>4, <2>1, <2>2 DEF Owns
  <1> QED
    BY <1>2, <1>3, <1>5, <1>6, <1>7, WorkerStep

LEMMA ExitClean ==
  ASSUME CleanInv, NEW w \in Workers, AdapterExit(w)
  PROVE  CleanInv'
  <1>1. InvTypeOK /\ Life(w)
    BY DEF CleanInv
  <1>2. /\ wk[w].proc = "up"
        /\ UNCHANGED <<rq, adapter, out, active, ingress, got, ran, wrote>>
        /\ Touches(w, "exited", wk[w].at, wk[w].dead, wk[w].token, wk[w].lock)
    BY <1>1, ExitEffect
  <1>3. InvTypeOK'
    BY <1>1, <1>2, InvTypes, InvTypesNext DEF Touches
  <1>4. /\ wk'[w].proc = "exited" /\ wk'[w].at = wk[w].at /\ wk'[w].dead = wk[w].dead
        /\ wk'[w].token = wk[w].token /\ wk'[w].lock = wk[w].lock
    BY <1>2 DEF Touches
  <1>5. Clean(w) => Clean(w)'
    BY <1>2, <1>4 DEF Clean, OnlyChunks
  <1>6. Life(w)'
    BY <1>1, <1>2, <1>4, <1>5 DEF Life
  <1>7. \A v \in Workers \ {w} : Same(v)
    BY <1>2 DEF Touches, Same
  <1>8. ASSUME NEW r \in Requests, Holds(rq[r]), rq[r].w = w
        PROVE  Owns(r)'
    <2>1. Owns(r)
      BY <1>8 DEF CleanInv
    <2>2. rq'[r] = rq[r] /\ rq'[r].w = w /\ (Ran(rq[r])' <=> Ran(rq[r]))
      BY <1>2, <1>8 DEF Ran
    <2>3. ReadsFirst(r, w) => ReadsFirst(r, w)'
      BY <1>2 DEF ReadsFirst, Waiting, Answering, OnlyChunks, AllOf
    <2>4. ReadsStream(r, w) => ReadsStream(r, w)'
      BY <1>2 DEF ReadsStream, Answering, AllOf
    <2> QED
      BY <1>2, <1>4, <1>5, <1>8, <2>1, <2>2, <2>3, <2>4 DEF Owns
  <1> QED
    BY <1>2, <1>3, <1>6, <1>7, <1>8, WorkerStep

LEMMA TakeClean ==
  ASSUME CleanInv, NEW w \in Workers, AdapterTake(w)
  PROVE  CleanInv'
  <1>1. InvTypeOK /\ Life(w)
    BY DEF CleanInv
  <1>2. /\ wk[w].proc = "up" /\ adapter[w].phase \in {"idle", "ended"}
        /\ adapter[w].stdin \in Requests /\ ran' = ran \cup {adapter[w].stdin}
        /\ UNCHANGED <<rq, wk, out, active, ingress, got, wrote>>
        /\ Adapts(w, NoRequest, adapter[w].stdin, "handling")
    BY <1>1, TakeEffect
  <1>3. InvTypeOK'
    BY <1>1, <1>2, InvTypes, InvTypesNext DEF Adapts
  <1>4. adapter[w].stdin # NoRequest
    BY <1>2, InvocationAssumption
  <1>5. ~Clean(w) /\ wk[w].at # "booting"
    BY <1>1, <1>2, <1>4 DEF Clean, Life
  <1>6. Life(w)'
    BY <1>1, <1>2, <1>5 DEF Life
  <1>7. \A v \in Workers \ {w} : Same(v)
    BY <1>2 DEF Adapts, Same
  <1>8. ASSUME NEW r \in Requests, Holds(rq[r]), rq[r].w = w
        PROVE  Owns(r)'
    <2>1. Owns(r)
      BY <1>8 DEF CleanInv
    <2>2. rq'[r] = rq[r] /\ rq'[r].w = w /\ (Ran(rq[r])' <=> Ran(rq[r]))
      BY <1>2, <1>8 DEF Ran
    <2>3. rq[r].pc # "stream"
      BY <1>2, <1>4, <1>8, <2>1 DEF Owns, ReadsStream, Answering
    <2>4. ASSUME rq[r].pc = "first"
          PROVE  ReadsFirst(r, w)'
      <3>1. Waiting(r, w)
        BY <1>2, <1>4, <1>8, <2>1, <2>4 DEF Owns, ReadsFirst, Answering
      <3>2. adapter'[w].stdin = NoRequest /\ adapter'[w].run = r /\ adapter'[w].phase = "handling"
        BY <1>2, <3>1 DEF Waiting, Adapts
      <3>3. \A i \in 1 .. Len(out'[w]) : out'[w][i].type = "chunk"
        BY <1>2, <3>1 DEF Waiting, OnlyChunks
      <3>4. Answering(r, w)'
        BY <3>2, <3>3 DEF Answering, LastFrames
      <3>5. out'[w] \in Seq(Frames)
        BY <1>3, InvTypes DEF InvTypeOK
      <3>6. CASE out'[w] = <<>>
        <4>1. AllOf(out[w], r)'
          BY <3>6 DEF AllOf
        <4> QED
          BY <3>4, <4>1 DEF ReadsFirst
      <3>7. CASE out'[w] # <<>>
        <4>1. out'[w][1].type = "chunk"
          BY <3>3, <3>5, <3>7, EmptySeq
        <4> QED
          BY <3>4, <3>7, <4>1 DEF ReadsFirst
      <3> QED
        BY <3>6, <3>7
    <2> QED
      BY <1>2, <1>5, <1>8, <2>1, <2>2, <2>3, <2>4 DEF Owns
  <1> QED
    BY <1>2, <1>3, <1>6, <1>7, <1>8, WorkerStep

\* A frame is written, of the request that runs, as long as no last frame was
\* written before.
LEMMA AnswerGrows ==
  ASSUME InvTypeOK, NEW w \in Workers, NEW r \in Requests, Answering(r, w),
         NEW t \in {"ready", "response", "start", "chunk", "end", "error", "fatal"}, Emit(w, t),
         NEW ph, NEW run, Adapts(w, adapter[w].stdin, run, ph),
         ph \in {"idle", "streaming", "ended"}, ph # "idle" => run = adapter[w].run,
         adapter[w].phase # "idle",
         t \in LastFrames => ph \in {"idle", "ended"} /\ adapter[w].phase \in {"handling", "streaming"},
         adapter[w].phase = "ended" => t = "chunk" /\ ph = "idle"
  PROVE  /\ Answering(r, w)'
         /\ AllOf(out[w], r) => AllOf(out[w], r)'
         /\ out[w] # <<>> => out'[w] # <<>> /\ out'[w][1] = out[w][1]
  <1>1. /\ out' \in [Workers -> Seq(Frames)]
        /\ Len(out[w]) \in Nat /\ Len(out'[w]) = Len(out[w]) + 1
        /\ \A i \in 1 .. Len(out[w]) : out'[w][i] = out[w][i]
        /\ out'[w][Len(out[w]) + 1].type = t
        /\ out'[w][Len(out[w]) + 1].of = adapter[w].run
    BY EmitEffect
  <1>2. /\ adapter'[w].stdin = NoRequest /\ adapter'[w].run = run /\ adapter'[w].phase = ph
        /\ adapter[w].run = r
    BY DEF Adapts, Answering
  <1>3. ASSUME NEW i \in 1 .. Len(out'[w]), out'[w][i].type \in LastFrames
        PROVE  /\ ph \in {"idle", "ended"}
               /\ \A j \in 1 .. Len(out'[w]) : j > i => out'[w][j].type = "chunk"
    <2>1. CASE i = Len(out[w]) + 1
      BY <1>1, <1>3, <2>1
    <2>2. CASE i # Len(out[w]) + 1
      <3>1. i \in 1 .. Len(out[w]) /\ out[w][i].type \in LastFrames
        BY <1>1, <1>3, <2>2
      <3>2. /\ adapter[w].phase \in {"idle", "ended"}
            /\ \A j \in 1 .. Len(out[w]) : j > i => out[w][j].type = "chunk"
        BY <3>1 DEF Answering
      <3>3. t = "chunk" /\ ph = "idle"
        BY <3>2
      <3>4. \A j \in 1 .. Len(out'[w]) : j \in 1 .. Len(out[w]) \/ j = Len(out[w]) + 1
        BY <1>1
      <3> QED
        BY <1>1, <3>2, <3>3, <3>4
    <2> QED
      BY <2>1, <2>2
  <1>4. Answering(r, w)'
    BY <1>2, <1>3 DEF Answering
  <1>5. ASSUME AllOf(out[w], r) PROVE AllOf(out[w], r)'
    <2>1. \A j \in 1 .. Len(out'[w]) : j \in 1 .. Len(out[w]) \/ j = Len(out[w]) + 1
      BY <1>1
    <2> QED
      BY <1>1, <1>2, <1>5, <2>1 DEF AllOf
  <1>6. ASSUME out[w] # <<>> PROVE out'[w] # <<>> /\ out'[w][1] = out[w][1]
    <2>1. out[w] \in Seq(Frames) /\ out'[w] \in Seq(Frames)
      BY <1>1, InvTypes
    <2>2. Len(out[w]) \in Nat \ {0}
      BY <1>6, <2>1, EmptySeq
    <2> QED
      BY <1>1, <2>1, <2>2
  <1> QED
    BY <1>4, <1>5, <1>6

LEMMA EmitsClean ==
  ASSUME CleanInv, NEW w \in Workers, Emits(w)
  PROVE  CleanInv'
  <1>1. InvTypeOK /\ Life(w)
    BY DEF CleanInv
  <1>2. wk[w].proc = "up" /\ UNCHANGED <<rq, wk, active, ingress, got, ran, wrote>>
    BY <1>1, EmitsEffect
  <1>3. PICK t \in {"ready", "response", "start", "chunk", "end", "error", "fatal"},
             ph \in {"idle", "streaming", "ended"}, run \in {NoRequest, adapter[w].run} :
          /\ Emit(w, t) /\ Adapts(w, adapter[w].stdin, run, ph)
          /\ ph # "idle" => run = adapter[w].run
          /\ adapter[w].phase # "idle"
          /\ t \in LastFrames => ph \in {"idle", "ended"} /\ adapter[w].phase \in {"handling", "streaming"}
          /\ adapter[w].phase = "ended" => t = "chunk" /\ ph = "idle" /\ adapter[w].stdin = NoRequest
          /\ adapter[w].phase = "boot" => t = "ready" /\ ph = "idle"
    BY <1>1, EmitsEffect DEF LastFrames
  <1>4. /\ out' \in [Workers -> Seq(Frames)] /\ \A v \in Workers \ {w} : out'[v] = out[v]
        /\ Len(out[w]) \in Nat /\ Len(out'[w]) = Len(out[w]) + 1
        /\ \A i \in 1 .. Len(out[w]) : out'[w][i] = out[w][i]
        /\ out'[w][Len(out[w]) + 1].type = t
    BY <1>1, <1>3, EmitEffect
  <1>5. InvTypeOK'
    BY <1>1, <1>2, <1>3, <1>4, InvTypes, InvTypesNext DEF Adapts
  <1>6. /\ adapter'[w].stdin = adapter[w].stdin /\ adapter'[w].phase = ph
        /\ \A v \in Workers \ {w} : adapter'[v] = adapter[v]
    BY <1>3 DEF Adapts
  <1>7. Clean(w) => Clean(w)'
    <2> SUFFICES ASSUME Clean(w) PROVE Clean(w)'
      OBVIOUS
    <2>1. adapter[w].phase = "ended" /\ t = "chunk" /\ ph = "idle"
      BY <1>3 DEF Clean
    <2>2. \A j \in 1 .. Len(out'[w]) : j \in 1 .. Len(out[w]) \/ j = Len(out[w]) + 1
      BY <1>4
    <2>3. OnlyChunks(out[w])'
      BY <1>4, <2>1, <2>2 DEF Clean, OnlyChunks
    <2> QED
      BY <1>2, <1>6, <2>1, <2>3 DEF Clean
  <1>8. Life(w)'
    <2>1. wk[w].at = "booting" => /\ wk[w].lock = NoRequest /\ adapter'[w].stdin = NoRequest
                                  /\ adapter'[w].phase = "idle" /\ Len(out'[w]) = 1
      <3> SUFFICES ASSUME wk[w].at = "booting"
                   PROVE  /\ wk[w].lock = NoRequest /\ adapter'[w].stdin = NoRequest
                          /\ adapter'[w].phase = "idle" /\ Len(out'[w]) = 1
        OBVIOUS
      <3>1. /\ wk[w].lock = NoRequest /\ adapter[w].stdin = NoRequest
            /\ adapter[w].phase = "boot" /\ out[w] = <<>>
        BY <1>1, <1>2, <1>3 DEF Life
      <3>2. Len(out[w]) = 0
        BY <3>1
      <3> QED
        BY <1>3, <1>4, <1>6, <3>1, <3>2
    <2> QED
      BY <1>1, <1>2, <1>7, <2>1 DEF Life
  <1>9. \A v \in Workers \ {w} : Same(v)
    BY <1>2, <1>4, <1>6 DEF Same
  <1>10. ASSUME NEW r \in Requests, Holds(rq[r]), rq[r].w = w
         PROVE  Owns(r)'
    <2>1. Owns(r)
      BY <1>10 DEF CleanInv
    <2>2. rq'[r] = rq[r] /\ rq'[r].w = w /\ (Ran(rq[r])' <=> Ran(rq[r]))
      BY <1>2, <1>10 DEF Ran
    <2>3. Answering(r, w) => /\ Answering(r, w)'
                             /\ AllOf(out[w], r) => AllOf(out[w], r)'
                             /\ out[w] # <<>> => out'[w] # <<>> /\ out'[w][1] = out[w][1]
      BY <1>1, <1>3, AnswerGrows
    <2>4. ~Waiting(r, w)
      BY <1>3, InvocationAssumption DEF Waiting
    <2>5. ReadsFirst(r, w) => ReadsFirst(r, w)'
      BY <2>3, <2>4 DEF ReadsFirst
    <2>6. ReadsStream(r, w) => ReadsStream(r, w)'
      BY <2>3 DEF ReadsStream
    <2> QED
      BY <1>2, <1>7, <1>10, <2>1, <2>2, <2>5, <2>6 DEF Owns
  <1> QED
    BY <1>2, <1>5, <1>8, <1>9, <1>10, WorkerStep

-----------------------------------------------------------------------------
(* Invocations: the requests' steps keep their workers clean.              *)

LEMMA QuietClean ==
  ASSUME CleanInv, NEW r \in Requests, Recorded(r),
         Arrive(r) \/ ReserveLease(r) \/ Admit(r) \/ AcquireFails(r) \/ Unbind(r) \/ Record(r)
  PROVE  CleanInv'
  <1>1. InvTypeOK
    BY DEF CleanInv
  <1>2. \A l : Ends(r, l) => /\ rq' \in [Requests -> RequestRec] /\ ~Holds(rq'[r])
                             /\ \A s \in Requests \ {r} : rq'[s] = rq[s]
    BY DEF Ends, Holds, Ran
  <1>3. /\ UNCHANGED <<wk, adapter, out, got, ran>>
        /\ active' \subseteq Requests /\ ingress' \subseteq Requests
        /\ wrote' \in [Requests -> Nat]
    BY <1>1, InvTypes, ArriveEffect, ReserveEffect, AdmitEffect, AcquireFailsEffect, UnbindEffect,
       RecordEffect
  <1>4. /\ rq' \in [Requests -> RequestRec] /\ \A s \in Requests \ {r} : rq'[s] = rq[s]
        /\ Holds(rq'[r]) => /\ Ran(rq'[r]) /\ Ran(rq[r]) /\ rq'[r].w = rq[r].w
                            /\ rq'[r].failed = rq[r].failed
                            /\ rq'[r].pc \notin {"write", "first", "stream"}
    <2>1. CASE Arrive(r)
      BY <1>1, <1>2, <2>1, ArriveEffect DEF Holds, Ran
    <2>2. CASE ReserveLease(r)
      BY <1>1, <1>2, <2>2, ReserveEffect DEF Holds, Ran, Moves
    <2>3. CASE Admit(r)
      <3>1. rq[r].kind = "forward"
        BY <1>1, <2>3, AdmitEffect DEF Recorded, LeaseFits
      <3> QED
        BY <1>1, <2>3, <3>1, AdmitEffect DEF Holds, Ran, Moves
    <2>4. CASE AcquireFails(r)
      BY <1>1, <1>2, <2>4, AcquireFailsEffect DEF Holds, Ran, Moves
    <2>5. CASE Unbind(r)
      BY <1>1, <2>5, UnbindEffect DEF Holds, Ran, Moves
    <2>6. CASE Record(r)
      BY <1>1, <1>2, <2>6, RecordEffect DEF Holds, Ran, Moves
    <2> QED
      BY <2>1, <2>2, <2>3, <2>4, <2>5, <2>6
  <1>5. InvTypeOK'
    BY <1>1, <1>3, <1>4, InvTypes, InvTypesNext
  <1> QED
    BY <1>3, <1>4, <1>5, QuietRequest

LEMMA AcquireClean ==
  ASSUME CleanInv, NEW r \in Requests, NEW w \in Workers, Acquire(r, w)
  PROVE  CleanInv'
  <1>1. InvTypeOK /\ Life(w)
    BY DEF CleanInv
  <1>2. /\ rq[r].pc = "acquire" /\ wk[w].at = "parked"
        /\ UNCHANGED <<adapter, out, ingress, got, ran, wrote>>
    BY <1>1, AcquireEffect
  <1>3. \A s \in Requests : Holds(rq[s]) => rq[s].w # w
    BY <1>2 DEF CleanInv, Owns
  <1>4. CASE wk' = Kill(w) /\ UNCHANGED <<rq, active>>
    <2>1. Life(w)' /\ wk' \in [Workers -> WorkerRec] /\ \A v \in Workers \ {w} : Same(v)
      BY <1>2, <1>4, KilledLife
    <2>2. InvTypeOK'
      BY <1>1, <1>2, <1>4, <2>1, InvTypes, InvTypesNext
    <2> QED
      BY <1>2, <1>3, <1>4, <2>1, <2>2, WorkerStep
  <1>5. CASE /\ ~wk[w].dead
             /\ Touches(w, wk[w].proc, "leased", wk[w].dead, wk[w].token, wk[w].lock)
             /\ Moves(r, "write", w, rq[r].failed, rq[r].lease)
             /\ active' = active \cup {r}
    <2>1. /\ wk'[w].proc = wk[w].proc /\ wk'[w].at = "leased" /\ wk'[w].dead = wk[w].dead
          /\ wk'[w].token = wk[w].token /\ wk'[w].lock = wk[w].lock
          /\ wk' \in [Workers -> WorkerRec] /\ \A v \in Workers \ {w} : Same(v)
      BY <1>2, <1>5 DEF Touches, Same
    <2>2. /\ rq'[r].pc = "write" /\ rq'[r].w = w /\ rq' \in [Requests -> RequestRec]
          /\ \A s \in Requests \ {r} : rq'[s] = rq[s]
      BY <1>5 DEF Moves
    <2>3. InvTypeOK'
      BY <1>1, <1>2, <1>5, <2>1, <2>2, InvTypes, InvTypesNext
    <2>4. Clean(w)'
      BY <1>1, <1>2, <1>5, <2>1 DEF Life, Clean, OnlyChunks
    <2>5. Life(w)'
      BY <1>1, <1>2, <2>1, <2>4 DEF Life
    <2>6. Owns(r)'
      BY <2>1, <2>2, <2>4 DEF Owns, Ran
    <2>7. /\ \A s \in Requests \ {r} : rq'[s] = rq[s] /\ got'[s] = got[s]
          /\ got'[r] \subseteq {r}
      BY <1>2, <2>2 DEF CleanInv, OwnAnswers
    <2> QED
      BY <1>3, <2>1, <2>2, <2>3, <2>5, <2>6, <2>7, RequestStep
  <1> QED
    BY <1>1, <1>4, <1>5, AcquireEffect

\* The worker of a request that has one.
LEMMA Holder ==
  ASSUME CleanInv, NEW r \in Requests, Holds(rq[r])
  PROVE  /\ Owns(r) /\ rq[r].w \in Workers /\ wk[rq[r].w].at = "leased" /\ Life(rq[r].w)
         /\ \A s \in Requests \ {r} : Holds(rq[s]) => rq[s].w # rq[r].w
  BY DEF CleanInv, Owns, OneHolder

\* The run is over: the worker, still leased, is dead, or the request has
\* failed, or the worker is clean.
LEMMA RunOver ==
  ASSUME CleanInv, InvTypeOK', NEW r \in Requests, Holds(rq[r]), NEW w \in Workers, w = rq[r].w,
         NEW f \in BOOLEAN, Moves(r, Back(rq[r]), w, f, rq[r].lease),
         wk'[w].proc = wk[w].proc, wk'[w].at = wk[w].at,
         wk'[w].token = wk[w].token,
         wk[w].proc = "reaped" => out'[w] = <<>> /\ wk'[w].dead,
         \A v \in Workers \ {w} : Same(v),
         ~f => Clean(w)',
         \A s \in Requests \ {r} : got'[s] = got[s],
         got'[r] \subseteq {r}
  PROVE  CleanInv'
  <1>1. /\ Owns(r) /\ wk[w].at = "leased" /\ Life(w)
        /\ \A s \in Requests \ {r} : Holds(rq[s]) => rq[s].w # w
    BY Holder
  <1>2. wk[w].proc # "none"
    BY <1>1 DEF Life
  <1>3. Life(w)'
    BY <1>1, <1>2 DEF Life
  <1>4. /\ rq'[r].w = w /\ rq'[r].pc \notin {"write", "first", "stream"} /\ rq'[r].failed = f
        /\ \A s \in Requests \ {r} : rq'[s] = rq[s]
    BY DEF Moves, Back
  <1>5. Owns(r)'
    BY <1>1, <1>4 DEF Owns
  <1>6. \A s \in Requests \ {r} : rq'[s] = rq[s] /\ got'[s] = got[s]
    BY <1>4
  <1> QED
    BY <1>1, <1>3, <1>4, <1>5, <1>6, RequestStep

LEMMA DispatchClean ==
  ASSUME CleanInv, NEW r \in Requests, DispatchWrite(r)
  PROVE  CleanInv'
  <1>1. InvTypeOK
    BY DEF CleanInv
  <1>2. Holds(rq[r]) /\ rq[r].pc = "write"
    BY DEF DispatchWrite, Holds
  <1>3. /\ Owns(r) /\ rq[r].w \in Workers /\ wk[rq[r].w].at = "leased" /\ Life(rq[r].w)
        /\ \A s \in Requests \ {r} : Holds(rq[s]) => rq[s].w # rq[r].w
    BY <1>2, Holder
  <1>4. PICK w \in Workers : w = rq[r].w
    BY <1>3
  <1>5. UNCHANGED <<out, active, ingress, got, ran, wrote>>
    BY <1>1, <1>4, DispatchEffect
  <1>6. (\A s \in Requests \ {r} : got'[s] = got[s]) /\ got'[r] \subseteq {r}
    BY <1>5 DEF CleanInv, OwnAnswers
  <1>7. CASE /\ Moves(r, Back(rq[r]), w, TRUE, rq[r].lease) /\ UNCHANGED adapter
             /\ \/ UNCHANGED wk
                \/ Touches(w, wk[w].proc, wk[w].at, TRUE, wk[w].token, wk[w].lock)
    <2>1. /\ wk' \in [Workers -> WorkerRec] /\ \A v \in Workers \ {w} : Same(v)
          /\ wk'[w].proc = wk[w].proc /\ wk'[w].at = wk[w].at /\ (wk[w].dead => wk'[w].dead)
          /\ wk'[w].token = wk[w].token
      BY <1>1, <1>5, <1>7, InvTypes DEF Touches, Same
    <2>2. InvTypeOK'
      BY <1>1, <1>5, <1>7, <2>1, InvTypes, InvTypesNext DEF Moves
    <2>3. wk[w].proc = "reaped" => out'[w] = <<>> /\ wk'[w].dead
      BY <1>3, <1>4, <1>5, <2>1 DEF Life
    <2> QED
      BY <1>2, <1>4, <1>6, <1>7, <2>1, <2>2, <2>3, RunOver
  <1>8. CASE /\ ~wk[w].dead /\ wk[w].proc = "up"
             /\ Touches(w, wk[w].proc, wk[w].at, wk[w].dead, wk[w].token, r)
             /\ Adapts(w, r, adapter[w].run, adapter[w].phase)
             /\ Moves(r, "first", w, rq[r].failed, rq[r].lease)
    <2>1. /\ wk'[w].proc = "up" /\ wk'[w].at = "leased" /\ wk'[w].token = wk[w].token
          /\ wk' \in [Workers -> WorkerRec] /\ \A v \in Workers \ {w} : Same(v)
          /\ adapter'[w].stdin = r /\ adapter'[w].phase = adapter[w].phase
          /\ adapter' \in [Workers -> AdapterRec]
      BY <1>3, <1>4, <1>5, <1>8 DEF Touches, Adapts, Same
    <2>2. /\ rq'[r].pc = "first" /\ rq'[r].w = w /\ rq' \in [Requests -> RequestRec]
          /\ \A s \in Requests \ {r} : rq'[s] = rq[s]
      BY <1>8 DEF Moves
    <2>3. InvTypeOK'
      BY <1>1, <1>5, <2>1, <2>2, InvTypes, InvTypesNext
    <2>4. Clean(w)
      BY <1>2, <1>3, <1>4, <1>8 DEF Owns
    <2>5. ReadsFirst(r, w)'
      BY <1>5, <2>1, <2>4 DEF Clean, ReadsFirst, Waiting, OnlyChunks
    <2>6. Life(w)'
      BY <1>3, <1>4, <1>8, <2>1 DEF Life
    <2>7. Owns(r)'
      BY <2>1, <2>2, <2>5 DEF Owns, Ran
    <2>8. \A s \in Requests \ {r} : rq'[s] = rq[s] /\ got'[s] = got[s]
      BY <1>6, <2>2
    <2> QED
      BY <1>3, <1>4, <1>6, <2>1, <2>2, <2>3, <2>6, <2>7, <2>8, RequestStep
  <1> QED
    BY <1>1, <1>4, <1>7, <1>8, DispatchEffect

\* A frame is read.
LEMMA AnswerShrinks ==
  ASSUME InvTypeOK, NEW w \in Workers, NEW r \in Requests, out[w] # <<>>,
         out' = [out EXCEPT ![w] = Tail(@)], adapter' = adapter
  PROVE  /\ Answering(r, w) => Answering(r, w)'
         /\ AllOf(out[w], r) => AllOf(out[w], r)' /\ Head(out[w]).of = r
         /\ Answering(r, w) /\ Head(out[w]).type \in LastFrames =>
              adapter[w].phase \in {"idle", "ended"} /\ OnlyChunks(out[w])'
         /\ OnlyChunks(out[w]) => Head(out[w]).type = "chunk"
  <1>1. /\ Len(out[w]) \in Nat \ {0} /\ Len(out'[w]) = Len(out[w]) - 1
        /\ \A i \in 1 .. Len(out'[w]) : out'[w][i] = out[w][i + 1]
        /\ Head(out[w]) = out[w][1]
    BY ReadEffect
  <1>2. 1 \in 1 .. Len(out[w]) /\ \A i \in 1 .. Len(out'[w]) : i + 1 \in 1 .. Len(out[w]) /\ i + 1 > 1
    BY <1>1
  <1>3. ASSUME Answering(r, w) PROVE Answering(r, w)'
    <2>1. ASSUME NEW i \in 1 .. Len(out'[w]), out'[w][i].type \in LastFrames
          PROVE  /\ adapter[w].phase \in {"idle", "ended"}
                 /\ \A j \in 1 .. Len(out'[w]) : j > i => out'[w][j].type = "chunk"
      <3>1. i + 1 \in 1 .. Len(out[w]) /\ out[w][i + 1].type \in LastFrames
        BY <1>1, <1>2, <2>1
      <3>2. /\ adapter[w].phase \in {"idle", "ended"}
            /\ \A j \in 1 .. Len(out[w]) : j > i + 1 => out[w][j].type = "chunk"
        BY <1>3, <3>1 DEF Answering
      <3>3. \A j \in 1 .. Len(out'[w]) : j > i => j + 1 > i + 1 /\ j + 1 \in 1 .. Len(out[w])
        BY <1>2
      <3> QED
        BY <1>1, <3>2, <3>3
    <2> QED
      BY <1>3, <2>1 DEF Answering
  <1>4. ASSUME AllOf(out[w], r) PROVE AllOf(out[w], r)' /\ Head(out[w]).of = r
    BY <1>1, <1>2, <1>4 DEF AllOf
  <1>5. ASSUME Answering(r, w), Head(out[w]).type \in LastFrames
        PROVE  adapter[w].phase \in {"idle", "ended"} /\ OnlyChunks(out[w])'
    <2>1. /\ adapter[w].phase \in {"idle", "ended"}
          /\ \A j \in 1 .. Len(out[w]) : j > 1 => out[w][j].type = "chunk"
      BY <1>1, <1>2, <1>5 DEF Answering
    <2>2. \A i \in 1 .. Len(out'[w]) : out'[w][i].type = "chunk"
      BY <1>1, <1>2, <2>1
    <2> QED
      BY <2>1, <2>2 DEF OnlyChunks
  <1>6. OnlyChunks(out[w]) => Head(out[w]).type = "chunk"
    BY <1>1, <1>2 DEF OnlyChunks
  <1> QED
    BY <1>3, <1>4, <1>5, <1>6

LEMMA ReadFirstClean ==
  ASSUME CleanInv, NEW r \in Requests, ReadFirst(r)
  PROVE  CleanInv'
  <1>1. InvTypeOK
    BY DEF CleanInv
  <1>2. Holds(rq[r]) /\ rq[r].pc = "first"
    BY DEF ReadFirst, Holds
  <1>3. /\ Owns(r) /\ rq[r].w \in Workers /\ wk[rq[r].w].at = "leased" /\ Life(rq[r].w)
        /\ \A s \in Requests \ {r} : Holds(rq[s]) => rq[s].w # rq[r].w
    BY <1>2, Holder
  <1>4. PICK w \in Workers : w = rq[r].w
    BY <1>3
  <1>5. /\ out[w] # <<>> /\ out' = [out EXCEPT ![w] = Tail(@)]
        /\ UNCHANGED <<adapter, active, ingress, ran, wrote>>
    BY <1>1, <1>4, ReadFirstEffect
  <1>6. /\ out' \in [Workers -> Seq(Frames)] /\ \A v \in Workers \ {w} : out'[v] = out[v]
        /\ Head(out[w]) \in Frames /\ Head(out[w]) = out[w][1]
    BY <1>1, <1>5, ReadEffect
  <1>7. wk[w].proc # "reaped" /\ ReadsFirst(r, w)
    BY <1>2, <1>3, <1>4, <1>5 DEF Life, Owns
  <1>8. \A s \in Requests : got[s] \subseteq {s}
    BY DEF CleanInv, OwnAnswers
  <1>9. ASSUME Head(out[w]).type # "chunk"
        PROVE  Answering(r, w) /\ AllOf(out[w], r) /\ Head(out[w]).of = r
    BY <1>1, <1>5, <1>6, <1>7, <1>9, AnswerShrinks DEF ReadsFirst, Waiting
  <1>10. CASE /\ Head(out[w]).type = "response" /\ Deliver(r, Head(out[w]))
              /\ Touches(w, wk[w].proc, wk[w].at, wk[w].dead, wk[w].token, NoRequest)
              /\ Moves(r, Back(rq[r]), w, FALSE, rq[r].lease)
    <2>1. /\ got' \in [Requests -> SUBSET (Requests \cup {NoRequest})]
          /\ got'[r] \subseteq {r} /\ \A s \in Requests \ {r} : got'[s] = got[s]
      <3>1. /\ got' \in [Requests -> SUBSET (Requests \cup {NoRequest})]
            /\ got'[r] = got[r] \cup {Head(out[w]).of} /\ \A s \in Requests \ {r} : got'[s] = got[s]
        BY <1>1, <1>6, <1>10, DeliverEffect
      <3> QED
        BY <1>8, <1>9, <1>10, <3>1
    <2>2. /\ wk' \in [Workers -> WorkerRec] /\ \A v \in Workers \ {w} : Same(v)
          /\ wk'[w].proc = wk[w].proc /\ wk'[w].at = wk[w].at /\ wk'[w].dead = wk[w].dead
          /\ wk'[w].token = wk[w].token /\ wk'[w].lock = NoRequest
      BY <1>5, <1>6, <1>10 DEF Touches, Same
    <2>3. InvTypeOK'
      BY <1>1, <1>5, <1>6, <1>10, <2>1, <2>2, InvTypes, InvTypesNext DEF Moves
    <2>4. adapter[w].phase \in {"idle", "ended"} /\ OnlyChunks(out[w])'
      BY <1>1, <1>5, <1>9, <1>10, AnswerShrinks DEF LastFrames
    <2>5. Clean(w)'
      BY <1>5, <1>9, <1>10, <2>2, <2>4 DEF Clean, Answering, OnlyChunks
    <2> QED
      BY <1>2, <1>4, <1>7, <1>10, <2>1, <2>2, <2>3, <2>5, RunOver
  <1>11. CASE /\ Head(out[w]).type = "start" /\ Deliver(r, Head(out[w])) /\ UNCHANGED wk
              /\ Moves(r, "stream", w, rq[r].failed, rq[r].lease)
    <2>1. /\ got' \in [Requests -> SUBSET (Requests \cup {NoRequest})]
          /\ got'[r] \subseteq {r} /\ \A s \in Requests \ {r} : got'[s] = got[s]
      BY <1>1, <1>6, <1>8, <1>9, <1>11, DeliverEffect
    <2>2. \A v \in Workers \ {w} : Same(v)
      BY <1>5, <1>6, <1>11 DEF Same
    <2>3. InvTypeOK'
      BY <1>1, <1>5, <1>6, <1>11, <2>1, InvTypes, InvTypesNext DEF Moves
    <2>4. ReadsStream(r, w)'
      BY <1>1, <1>5, <1>9, <1>11, AnswerShrinks DEF ReadsStream
    <2>5. /\ rq'[r].pc = "stream" /\ rq'[r].w = w /\ wk'[w] = wk[w]
          /\ \A s \in Requests \ {r} : rq'[s] = rq[s] /\ got'[s] = got[s]
      BY <1>11, <2>1 DEF Moves
    <2>6. wk[w].proc # "none" /\ wk[w].at = "leased"
      BY <1>3, <1>4 DEF Life
    <2>7. Life(w)'
      BY <1>3, <1>4, <1>7, <2>5, <2>6 DEF Life
    <2>8. Owns(r)'
      BY <2>4, <2>5, <2>6 DEF Owns, Ran
    <2> QED
      BY <1>3, <1>4, <2>1, <2>2, <2>3, <2>5, <2>7, <2>8, RequestStep
  <1>12. CASE /\ UNCHANGED got /\ Moves(r, Back(rq[r]), w, TRUE, rq[r].lease)
              /\ \E dead \in BOOLEAN :
                   Touches(w, wk[w].proc, wk[w].at, dead, wk[w].token, NoRequest)
    <2>1. /\ wk' \in [Workers -> WorkerRec] /\ \A v \in Workers \ {w} : Same(v)
          /\ wk'[w].proc = wk[w].proc /\ wk'[w].at = wk[w].at /\ wk'[w].token = wk[w].token
      BY <1>5, <1>6, <1>12 DEF Touches, Same
    <2>2. InvTypeOK'
      BY <1>1, <1>5, <1>6, <1>12, <2>1, InvTypes, InvTypesNext DEF Moves
    <2> QED
      BY <1>2, <1>4, <1>7, <1>8, <1>12, <2>1, <2>2, RunOver
  <1> QED
    BY <1>1, <1>4, <1>10, <1>11, <1>12, ReadFirstEffect

LEMMA NextFrameClean ==
  ASSUME CleanInv, NEW r \in Requests, NextFrame(r)
  PROVE  CleanInv'
  <1>1. InvTypeOK
    BY DEF CleanInv
  <1>2. Holds(rq[r]) /\ rq[r].pc = "stream"
    BY DEF NextFrame, Holds
  <1>3. /\ Owns(r) /\ rq[r].w \in Workers /\ wk[rq[r].w].at = "leased" /\ Life(rq[r].w)
        /\ \A s \in Requests \ {r} : Holds(rq[s]) => rq[s].w # rq[r].w
    BY <1>2, Holder
  <1>4. PICK w \in Workers : w = rq[r].w
    BY <1>3
  <1>5. /\ out[w] # <<>> /\ out' = [out EXCEPT ![w] = Tail(@)]
        /\ UNCHANGED <<adapter, active, ingress, ran, wrote>>
    BY <1>1, <1>4, NextFrameEffect
  <1>6. /\ out' \in [Workers -> Seq(Frames)] /\ \A v \in Workers \ {w} : out'[v] = out[v]
        /\ Head(out[w]) \in Frames
    BY <1>1, <1>5, ReadEffect
  <1>7. wk[w].proc # "reaped" /\ Answering(r, w) /\ AllOf(out[w], r)
    BY <1>2, <1>3, <1>4, <1>5 DEF Life, Owns, ReadsStream
  <1>8. \A s \in Requests : got[s] \subseteq {s}
    BY DEF CleanInv, OwnAnswers
  <1>9. Answering(r, w)' /\ AllOf(out[w], r)' /\ Head(out[w]).of = r
    BY <1>1, <1>5, <1>7, AnswerShrinks
  <1>10. CASE Head(out[w]).type = "chunk" /\ Deliver(r, Head(out[w])) /\ UNCHANGED <<wk, rq>>
    <2>1. /\ got' \in [Requests -> SUBSET (Requests \cup {NoRequest})]
          /\ got'[r] \subseteq {r} /\ \A s \in Requests \ {r} : got'[s] = got[s]
      BY <1>1, <1>6, <1>8, <1>9, <1>10, DeliverEffect
    <2>2. \A v \in Workers \ {w} : Same(v)
      BY <1>5, <1>6, <1>10 DEF Same
    <2>3. InvTypeOK'
      BY <1>1, <1>5, <1>6, <1>10, <2>1, InvTypes, InvTypesNext
    <2>4. ReadsStream(r, w)'
      BY <1>9 DEF ReadsStream
    <2>5. /\ rq'[r].pc = "stream" /\ rq'[r].w = w /\ wk'[w] = wk[w]
          /\ \A s \in Requests \ {r} : rq'[s] = rq[s] /\ got'[s] = got[s]
      BY <1>2, <1>4, <1>10, <2>1
    <2>6. wk[w].proc # "none" /\ wk[w].at = "leased"
      BY <1>3, <1>4 DEF Life
    <2>7. Life(w)'
      BY <1>3, <1>4, <1>7, <2>5, <2>6 DEF Life
    <2>8. Owns(r)'
      BY <2>4, <2>5, <2>6 DEF Owns, Ran
    <2> QED
      BY <1>3, <1>4, <2>1, <2>2, <2>3, <2>5, <2>7, <2>8, RequestStep
  <1>11. CASE /\ Head(out[w]).type = "end" /\ UNCHANGED got
              /\ Touches(w, wk[w].proc, wk[w].at, wk[w].dead, wk[w].token, NoRequest)
              /\ Moves(r, Back(rq[r]), w, FALSE, rq[r].lease)
    <2>1. /\ wk' \in [Workers -> WorkerRec] /\ \A v \in Workers \ {w} : Same(v)
          /\ wk'[w].proc = wk[w].proc /\ wk'[w].at = wk[w].at /\ wk'[w].token = wk[w].token
          /\ wk'[w].lock = NoRequest
      BY <1>5, <1>6, <1>11 DEF Touches, Same
    <2>2. InvTypeOK'
      BY <1>1, <1>5, <1>6, <1>11, <2>1, InvTypes, InvTypesNext DEF Moves
    <2>3. adapter[w].phase \in {"idle", "ended"} /\ OnlyChunks(out[w])'
      BY <1>1, <1>5, <1>7, <1>11, AnswerShrinks DEF LastFrames
    <2>4. Clean(w)'
      BY <1>5, <1>7, <2>1, <2>3 DEF Clean, Answering, OnlyChunks
    <2> QED
      BY <1>2, <1>4, <1>7, <1>8, <1>11, <2>1, <2>2, <2>4, RunOver
  <1>12. CASE /\ UNCHANGED got /\ Moves(r, Back(rq[r]), w, TRUE, rq[r].lease)
              /\ Touches(w, wk[w].proc, wk[w].at, TRUE, wk[w].token, NoRequest)
    <2>1. /\ wk' \in [Workers -> WorkerRec] /\ \A v \in Workers \ {w} : Same(v)
          /\ wk'[w].proc = wk[w].proc /\ wk'[w].at = wk[w].at /\ wk'[w].token = wk[w].token
      BY <1>5, <1>6, <1>12 DEF Touches, Same
    <2>2. InvTypeOK'
      BY <1>1, <1>5, <1>6, <1>12, <2>1, InvTypes, InvTypesNext DEF Moves
    <2> QED
      BY <1>2, <1>4, <1>7, <1>8, <1>12, <2>1, <2>2, RunOver
  <1> QED
    BY <1>1, <1>4, <1>10, <1>11, <1>12, NextFrameEffect

LEMMA GiveUpClean ==
  ASSUME CleanInv, NEW r \in Requests, StreamAbandoned(r) \/ ReadFails(r)
  PROVE  CleanInv'
  <1>1. InvTypeOK
    BY DEF CleanInv
  <1>2. Holds(rq[r])
    BY DEF StreamAbandoned, ReadFails, Holds
  <1>3. Owns(r) /\ rq[r].w \in Workers /\ wk[rq[r].w].at = "leased" /\ Life(rq[r].w)
    BY <1>2, Holder
  <1>4. PICK w \in Workers : w = rq[r].w
    BY <1>3
  <1>5. /\ UNCHANGED <<adapter, active, ingress, got, ran, wrote>>
        /\ UNCHANGED out \/ (out[w] # <<>> /\ out' = [out EXCEPT ![w] = Tail(@)])
        /\ \/ UNCHANGED wk
           \/ Touches(w, wk[w].proc, wk[w].at, TRUE, wk[w].token, NoRequest)
        /\ Moves(r, Back(rq[r]), w, TRUE, rq[r].lease)
    BY <1>1, <1>4, GiveUpEffect
  <1>6. /\ out' \in [Workers -> Seq(Frames)] /\ \A v \in Workers \ {w} : out'[v] = out[v]
        /\ out[w] = <<>> => out'[w] = <<>>
    BY <1>1, <1>5, InvTypes, ReadEffect
  <1>7. /\ wk' \in [Workers -> WorkerRec] /\ \A v \in Workers \ {w} : Same(v)
        /\ wk'[w].proc = wk[w].proc /\ wk'[w].at = wk[w].at /\ wk'[w].token = wk[w].token
        /\ wk[w].dead => wk'[w].dead
    BY <1>1, <1>5, <1>6, InvTypes DEF Touches, Same
  <1>8. InvTypeOK'
    BY <1>1, <1>5, <1>6, <1>7, InvTypes, InvTypesNext DEF Moves
  <1>9. wk[w].proc = "reaped" => out'[w] = <<>> /\ wk'[w].dead
    BY <1>3, <1>4, <1>6, <1>7 DEF Life
  <1>10. (\A s \in Requests \ {r} : got'[s] = got[s]) /\ got'[r] \subseteq {r}
    BY <1>5 DEF CleanInv, OwnAnswers
  <1> QED
    BY <1>2, <1>4, <1>5, <1>7, <1>8, <1>9, <1>10, RunOver

LEMMA ReleaseClean ==
  ASSUME CleanInv, NEW r \in Requests, Release(r)
  PROVE  CleanInv'
  <1>1. InvTypeOK
    BY DEF CleanInv
  <1>2. Holds(rq[r]) /\ Ran(rq[r])
    BY DEF Release, Holds, Ran
  <1>3. /\ Owns(r) /\ rq[r].w \in Workers /\ wk[rq[r].w].at = "leased" /\ Life(rq[r].w)
        /\ \A s \in Requests \ {r} : Holds(rq[s]) => rq[s].w # rq[r].w
    BY <1>2, Holder
  <1>4. PICK w \in Workers : w = rq[r].w
    BY <1>3
  <1>5. UNCHANGED <<adapter, out, active, ingress, got, ran, wrote>>
    BY <1>1, <1>4, ReleaseEffect
  <1>6. /\ rq' \in [Requests -> RequestRec] /\ ~Holds(rq'[r])
        /\ \A s \in Requests \ {r} : rq'[s] = rq[s]
    BY <1>1, <1>4, ReleaseEffect DEF Moves, Ends, Holds, Ran
  <1>7. (\A s \in Requests \ {r} : rq'[s] = rq[s] /\ got'[s] = got[s]) /\ got'[r] \subseteq {r}
    BY <1>5, <1>6 DEF CleanInv, OwnAnswers
  <1>8. Life(w)' /\ wk' \in [Workers -> WorkerRec] /\ \A v \in Workers \ {w} : Same(v)
    <2>1. CASE wk' = Kill(w)
      BY <1>3, <1>4, <1>5, <2>1, KilledLife
    <2>2. CASE /\ ~rq[r].failed /\ ~wk[w].dead
               /\ Touches(w, wk[w].proc, "parked", wk[w].dead, wk[w].token, wk[w].lock)
      <3>1. /\ wk' \in [Workers -> WorkerRec] /\ \A v \in Workers \ {w} : Same(v)
            /\ wk'[w].proc = wk[w].proc /\ wk'[w].at = "parked" /\ wk'[w].token = wk[w].token
            /\ wk'[w].lock = wk[w].lock /\ wk'[w].dead = wk[w].dead
        BY <1>5, <2>2 DEF Touches, Same
      <3>2. Clean(w)
        BY <1>2, <1>3, <1>4, <2>2 DEF Owns
      <3>3. Clean(w)'
        BY <1>5, <3>1, <3>2 DEF Clean, OnlyChunks
      <3>4. wk[w].proc # "none" /\ wk[w].at = "leased"
        BY <1>3, <1>4 DEF Life
      <3>5. Life(w)'
        BY <1>3, <1>4, <1>5, <3>1, <3>3, <3>4 DEF Life
      <3> QED
        BY <3>1, <3>5
    <2> QED
      BY <1>1, <1>4, <2>1, <2>2, ReleaseEffect
  <1>9. InvTypeOK'
    BY <1>1, <1>5, <1>6, <1>8, InvTypes, InvTypesNext
  <1> QED
    BY <1>3, <1>4, <1>6, <1>7, <1>8, <1>9, RequestStep

-----------------------------------------------------------------------------
(* Invocations: the record.                                                *)

LEMMA RecordStep ==
  ASSUME RecordInv, InvTypeOK', NEW r \in Requests,
         \A s \in Requests \ {r} : /\ rq'[s] = rq[s] /\ wrote'[s] = wrote[s]
                                   /\ s \in active' => s \in active
                                   /\ s \in ingress' => s \in ingress,
         ran' = ran, Recorded(r)', Sent(rq[r]) => Sent(rq'[r]),
         \A w \in Workers : adapter'[w].stdin \in {NoRequest, adapter[w].stdin}
                            \/ (adapter'[w].stdin = r /\ Sent(rq'[r]))
  PROVE  RecordInv'
  <1>1. ASSUME NEW s \in Requests PROVE Recorded(s)'
    <2>1. CASE s = r
      BY <2>1
    <2>2. CASE s # r
      <3>1. Recorded(s) /\ rq'[s] = rq[s]
        BY <2>2 DEF RecordInv
      <3> QED
        BY <2>2, <3>1 DEF Recorded
    <2> QED
      BY <2>1, <2>2
  <1>2. \A s \in Requests : Sent(rq[s]) => Sent(rq'[s])
    OBVIOUS
  <1>3. ASSUME NEW w \in Workers PROVE EventSent(w)'
    <2>1. adapter[w].stdin \in Requests \cup {NoRequest}
      BY InvTypes DEF RecordInv, AdapterRec
    <2>2. adapter'[w].stdin # NoRequest => Sent(rq'[adapter'[w].stdin])
      BY <1>2, <2>1 DEF RecordInv, EventSent
    <2> QED
      BY <2>2 DEF EventSent, Sent
  <1> QED
    BY <1>1, <1>3 DEF RecordInv

\* Once a request has ended without a row it has not run.
LEMMA EndedRecord ==
  ASSUME NEW r \in Requests, NEW l, Ends(r, l), l # "held",
         r \in ran' => l = "spent", r \notin active', r \notin ingress',
         wrote'[r] = IF l = "spent" THEN 1 ELSE 0
  PROVE  Recorded(r)' /\ Sent(rq'[r]) = (l = "spent")
  BY DEF Ends, Recorded, LeaseFits, Sent, Unsent, MayBeActive, MayHoldBudget

LEMMA QuietRecord ==
  ASSUME RecordInv, InvTypeOK', NEW r \in Requests,
         Arrive(r) \/ ReserveLease(r) \/ Admit(r) \/ AcquireFails(r) \/ Unbind(r) \/ Record(r)
  PROVE  RecordInv'
  <1>1. InvTypeOK /\ Recorded(r)
    BY DEF RecordInv
  <1>2. UNCHANGED <<adapter, ran>>
    BY <1>1, ArriveEffect, ReserveEffect, AdmitEffect, AcquireFailsEffect, UnbindEffect, RecordEffect
  <1>3. CASE Arrive(r)
    <2>1. /\ rq[r].pc = "idle" /\ UNCHANGED <<active, ingress, wrote>>
          /\ \/ /\ \A s \in Requests \ {r} : rq'[s] = rq[s]
                /\ rq'[r].pc = "lease" /\ rq'[r].lease = rq[r].lease
             \/ Ends(r, "none")
      BY <1>1, <1>3, ArriveEffect
    <2>2. /\ rq[r].lease = "none" /\ wrote[r] = 0 /\ r \notin active /\ r \notin ingress
          /\ r \notin ran /\ ~Sent(rq[r])
      BY <1>1, <2>1 DEF Recorded, LeaseFits, Sent, Unsent, MayBeActive, MayHoldBudget
    <2>3. Recorded(r)'
      <3>1. CASE Ends(r, "none")
        BY <1>2, <2>1, <2>2, <3>1, EndedRecord
      <3>2. CASE rq'[r].pc = "lease" /\ rq'[r].lease = rq[r].lease
        BY <1>2, <2>1, <2>2, <3>2 DEF Recorded, LeaseFits, MayBeActive, MayHoldBudget
      <3> QED
        BY <2>1, <3>1, <3>2
    <2>4. \A s \in Requests \ {r} : rq'[s] = rq[s]
      BY <2>1 DEF Ends
    <2> QED
      BY <1>2, <2>1, <2>2, <2>3, <2>4, RecordStep
  <1>4. CASE ReserveLease(r)
    <2>1. /\ rq[r].pc = "lease" /\ UNCHANGED <<active, ingress, wrote>>
          /\ \/ Moves(r, IF rq[r].kind = "forward" THEN "admit" ELSE "acquire", rq[r].w,
                      rq[r].failed, "held")
             \/ Ends(r, "none")
      BY <1>1, <1>4, ReserveEffect
    <2>2. /\ rq[r].lease = "none" /\ wrote[r] = 0 /\ r \notin active /\ r \notin ingress
          /\ r \notin ran /\ ~Sent(rq[r])
      BY <1>1, <2>1 DEF Recorded, LeaseFits, Sent, Unsent, MayBeActive, MayHoldBudget
    <2>3. Recorded(r)'
      <3>1. CASE Ends(r, "none")
        BY <1>2, <2>1, <2>2, <3>1, EndedRecord
      <3>2. CASE ~Ends(r, "none")
        BY <1>2, <2>1, <2>2, <3>2 DEF Moves, Recorded, LeaseFits, MayBeActive, MayHoldBudget
      <3> QED
        BY <3>1, <3>2
    <2>4. \A s \in Requests \ {r} : rq'[s] = rq[s]
      BY <2>1 DEF Ends, Moves
    <2> QED
      BY <1>2, <2>1, <2>2, <2>3, <2>4, RecordStep
  <1>5. CASE Admit(r)
    <2>1. /\ rq[r].pc = "admit" /\ UNCHANGED wrote
          /\ \/ /\ Moves(r, "acquire", rq[r].w, rq[r].failed, rq[r].lease)
                /\ ingress' = ingress \cup {r} /\ active' = active \cup {r}
             \/ Moves(r, "record", rq[r].w, TRUE, rq[r].lease) /\ UNCHANGED <<active, ingress>>
      BY <1>1, <1>5, AdmitEffect
    <2>2. /\ rq[r].lease = "held" /\ wrote[r] = 0 /\ r \notin active /\ r \notin ingress
          /\ r \notin ran /\ ~Sent(rq[r]) /\ rq[r].kind = "forward"
      BY <1>1, <2>1 DEF Recorded, LeaseFits, Sent, Unsent, MayBeActive, MayHoldBudget
    <2>3. Recorded(r)'
      BY <1>2, <2>1, <2>2 DEF Moves, Recorded, LeaseFits, MayBeActive, MayHoldBudget
    <2>4. \A s \in Requests \ {r} : /\ rq'[s] = rq[s] /\ (s \in active' => s \in active)
                                    /\ s \in ingress' => s \in ingress
      BY <2>1 DEF Moves
    <2> QED
      BY <1>2, <2>1, <2>2, <2>3, <2>4, RecordStep
  <1>6. CASE AcquireFails(r)
    <2>1. /\ rq[r].pc = "acquire" /\ UNCHANGED <<active, ingress, wrote>>
          /\ \/ rq[r].kind = "forward" /\ Moves(r, "unbind", rq[r].w, TRUE, rq[r].lease)
             \/ rq[r].kind # "forward" /\ Ends(r, "back")
      BY <1>1, <1>6, AcquireFailsEffect
    <2>2. /\ rq[r].lease = "held" /\ wrote[r] = 0 /\ r \notin ran /\ ~Sent(rq[r])
          /\ rq[r].kind # "forward" => r \notin active /\ r \notin ingress
      BY <1>1, <2>1 DEF Recorded, LeaseFits, Sent, Unsent, MayBeActive, MayHoldBudget
    <2>3. Recorded(r)'
      <3>1. CASE rq[r].kind # "forward"
        BY <1>2, <2>1, <2>2, <3>1, EndedRecord
      <3>2. CASE rq[r].kind = "forward"
        BY <1>2, <2>1, <2>2, <3>2 DEF Moves, Recorded, LeaseFits, MayBeActive, MayHoldBudget
      <3> QED
        BY <3>1, <3>2
    <2>4. \A s \in Requests \ {r} : rq'[s] = rq[s]
      BY <2>1 DEF Ends, Moves
    <2> QED
      BY <1>2, <2>1, <2>2, <2>3, <2>4, RecordStep
  <1>7. CASE Unbind(r)
    <2>1. /\ rq[r].pc = "unbind" /\ UNCHANGED wrote
          /\ active' = active \ {r} /\ ingress' = ingress \ {r}
          /\ Moves(r, IF rq[r].kind = "forward" THEN "record" ELSE "release", rq[r].w,
                   rq[r].failed, rq[r].lease)
      BY <1>1, <1>7, UnbindEffect
    <2>2. /\ rq[r].lease = IF rq[r].kind = "forward" THEN "held" ELSE "spent"
          /\ wrote[r] = IF rq[r].lease = "spent" THEN 1 ELSE 0
      BY <1>1, <2>1 DEF Recorded, LeaseFits
    <2>3. Recorded(r)' /\ Sent(rq'[r])
      BY <1>2, <2>1, <2>2 DEF Moves, Recorded, LeaseFits, MayBeActive, MayHoldBudget, Sent, Unsent
    <2>4. \A s \in Requests \ {r} : /\ rq'[s] = rq[s] /\ (s \in active' => s \in active)
                                    /\ s \in ingress' => s \in ingress
      BY <2>1 DEF Moves
    <2> QED
      BY <1>2, <2>1, <2>3, <2>4, RecordStep
  <1>8. CASE Record(r)
    <2>1. /\ rq[r].pc = "record" /\ UNCHANGED <<active, ingress>>
          /\ wrote'[r] = wrote[r] + 1 /\ \A s \in Requests \ {r} : wrote'[s] = wrote[s]
          /\ \/ rq[r].kind = "forward" /\ Ends(r, "spent")
             \/ rq[r].kind # "forward" /\ Moves(r, "unbind", rq[r].w, rq[r].failed, "spent")
      BY <1>1, <1>8, RecordEffect
    <2>2. /\ wrote[r] = 0 /\ wrote'[r] = 1 /\ r \notin ingress
          /\ rq[r].kind = "forward" => r \notin active
      BY <1>1, <2>1 DEF Recorded, LeaseFits, MayBeActive, MayHoldBudget
    <2>3. Recorded(r)' /\ Sent(rq'[r])
      <3>1. CASE rq[r].kind = "forward"
        BY <1>2, <2>1, <2>2, <3>1, EndedRecord
      <3>2. CASE rq[r].kind # "forward"
        BY <1>2, <2>1, <2>2, <3>2 DEF Moves, Recorded, LeaseFits, MayBeActive, MayHoldBudget, Sent, Unsent
      <3> QED
        BY <3>1, <3>2
    <2>4. \A s \in Requests \ {r} : rq'[s] = rq[s]
      BY <2>1 DEF Ends, Moves
    <2> QED
      BY <1>2, <2>1, <2>3, <2>4, RecordStep
  <1> QED
    BY <1>3, <1>4, <1>5, <1>6, <1>7, <1>8

\* A request that moves on with the worker it has, or gets one.
LEMMA MovedRecord ==
  ASSUME RecordInv, InvTypeOK', NEW r \in Requests,
         rq[r].pc \in {"acquire", "write", "first", "stream"},
         NEW p \in {"write", "first", "stream", "release", "record"}, NEW w, NEW f,
         Moves(r, p, w, f, rq[r].lease),
         p = "release" => rq[r].kind = "forward", p = "record" => rq[r].kind # "forward",
         p = "write" => rq[r].pc = "acquire", rq[r].pc = "acquire" => p = "write",
         active' \subseteq active \cup {r}, ingress' = ingress, UNCHANGED <<ran, wrote>>,
         \A v \in Workers : \/ adapter'[v].stdin \in {NoRequest, adapter[v].stdin}
                            \/ adapter'[v].stdin = r /\ p # "write"
  PROVE  RecordInv'
  <1>1. Recorded(r)
    BY DEF RecordInv
  <1>2. /\ rq'[r].pc = p /\ rq'[r].lease = rq[r].lease /\ rq'[r].kind = rq[r].kind
        /\ \A s \in Requests \ {r} : rq'[s] = rq[s]
    BY DEF Moves
  <1>3. /\ rq[r].lease = "held" /\ wrote[r] = 0
        /\ r \in ingress => rq[r].kind = "forward"
        /\ r \in ran => rq[r].pc \notin {"acquire", "write"}
    BY <1>1 DEF Recorded, LeaseFits, MayHoldBudget, Sent, Unsent
  <1>4. p # "write" => Sent(rq'[r])
    BY <1>2 DEF Sent, Unsent
  <1>5. rq[r].pc \in {"acquire", "write"} => ~Sent(rq[r])
    BY DEF Sent, Unsent
  <1>6. Recorded(r)'
    <2>1. LeaseFits(rq'[r])
      BY <1>2, <1>3 DEF LeaseFits
    <2>2. MayBeActive(rq'[r])
      BY <1>2 DEF MayBeActive
    <2>3. r \in ingress' => MayHoldBudget(rq'[r])
      BY <1>2, <1>3 DEF MayHoldBudget
    <2>4. r \in ran' => Sent(rq'[r])
      BY <1>3, <1>4
    <2>5. wrote'[r] = IF rq'[r].lease = "spent" THEN 1 ELSE 0
      BY <1>2, <1>3
    <2> QED
      BY <2>1, <2>2, <2>3, <2>4, <2>5 DEF Recorded, LeaseFits, MayBeActive, MayHoldBudget, Sent
  <1>7. \A s \in Requests \ {r} : /\ rq'[s] = rq[s] /\ wrote'[s] = wrote[s]
                                  /\ s \in active' => s \in active
                                  /\ s \in ingress' => s \in ingress
    BY <1>2
  <1>8. \A v \in Workers : \/ adapter'[v].stdin \in {NoRequest, adapter[v].stdin}
                           \/ adapter'[v].stdin = r /\ Sent(rq'[r])
    BY <1>4
  <1>9. Sent(rq[r]) => Sent(rq'[r])
    BY <1>4, <1>5
  <1> QED
    BY <1>6, <1>7, <1>8, <1>9, RecordStep

\* Only the reader of an event takes one that was sent.
LEMMA WorkerRecord ==
  ASSUME RecordInv, InvTypeOK', UNCHANGED <<rq, active, ingress, wrote>>,
         \A s \in Requests : s \in ran' => s \in ran \/ Sent(rq[s]),
         \A v \in Workers : adapter'[v].stdin \in {NoRequest, adapter[v].stdin}
  PROVE  RecordInv'
  <1>1. ASSUME NEW s \in Requests PROVE Recorded(s)'
    <2>1. Recorded(s) /\ rq'[s] = rq[s]
      BY DEF RecordInv
    <2>2. s \in ran' => Sent(rq[s])
      BY <2>1 DEF Recorded
    <2> QED
      BY <2>1, <2>2 DEF Recorded
  <1>2. ASSUME NEW v \in Workers PROVE EventSent(v)'
    <2>1. adapter'[v].stdin # NoRequest => Sent(rq'[adapter'[v].stdin])
      BY DEF RecordInv, EventSent
    <2> QED
      BY <2>1 DEF EventSent, Sent
  <1> QED
    BY <1>1, <1>2 DEF RecordInv

LEMMA DispatchRecord ==
  ASSUME CleanInv, RecordInv, InvTypeOK', NEW r \in Requests,
         DispatchWrite(r) \/ ReadFirst(r) \/ NextFrame(r) \/ StreamAbandoned(r) \/ ReadFails(r)
  PROVE  RecordInv'
  <1>1. InvTypeOK
    BY DEF CleanInv
  <1>2. Holds(rq[r])
    BY DEF DispatchWrite, ReadFirst, NextFrame, StreamAbandoned, ReadFails, Holds
  <1>3. PICK w \in Workers : w = rq[r].w
    BY <1>2, Holder
  <1>4. /\ Back(rq[r]) \in {"release", "record"}
        /\ Back(rq[r]) = "release" => rq[r].kind = "forward"
        /\ Back(rq[r]) = "record" => rq[r].kind # "forward"
    BY DEF Back
  <1>5. CASE DispatchWrite(r)
    <2>1. rq[r].pc = "write" /\ UNCHANGED <<active, ingress, ran, wrote>>
      BY <1>1, <1>3, <1>5, DispatchEffect
    <2>2. CASE Moves(r, Back(rq[r]), w, TRUE, rq[r].lease) /\ UNCHANGED adapter
      BY <1>4, <2>1, <2>2, MovedRecord
    <2>3. CASE /\ Adapts(w, r, adapter[w].run, adapter[w].phase)
               /\ Moves(r, "first", w, rq[r].failed, rq[r].lease)
      <3>1. \A v \in Workers : adapter'[v].stdin \in {NoRequest, adapter[v].stdin}
                               \/ adapter'[v].stdin = r
        BY <2>3 DEF Adapts
      <3> QED
        BY <2>1, <2>3, <3>1, MovedRecord
    <2> QED
      BY <1>1, <1>3, <1>5, <2>2, <2>3, DispatchEffect
  <1>6. CASE ReadFirst(r)
    <2>1. rq[r].pc = "first" /\ UNCHANGED <<adapter, active, ingress, ran, wrote>>
      BY <1>1, <1>3, <1>6, ReadFirstEffect
    <2>2. \E p \in {Back(rq[r]), "stream"}, f \in {TRUE, FALSE, rq[r].failed} :
            Moves(r, p, w, f, rq[r].lease)
      BY <1>1, <1>3, <1>6, ReadFirstEffect
    <2> QED
      BY <1>4, <2>1, <2>2, MovedRecord
  <1>7. CASE NextFrame(r)
    <2>1. rq[r].pc = "stream" /\ UNCHANGED <<adapter, active, ingress, ran, wrote>>
      BY <1>1, <1>3, <1>7, NextFrameEffect
    <2>2. CASE UNCHANGED rq
      BY <2>1, <2>2, WorkerRecord
    <2>3. CASE \E f \in BOOLEAN : Moves(r, Back(rq[r]), w, f, rq[r].lease)
      BY <1>4, <2>1, <2>3, MovedRecord
    <2> QED
      BY <1>1, <1>3, <1>7, <2>2, <2>3, NextFrameEffect
  <1>8. CASE StreamAbandoned(r) \/ ReadFails(r)
    <2>1. /\ rq[r].pc \in {"first", "stream"} /\ UNCHANGED <<adapter, active, ingress, ran, wrote>>
          /\ Moves(r, Back(rq[r]), w, TRUE, rq[r].lease)
      BY <1>1, <1>3, <1>8, GiveUpEffect
    <2> QED
      BY <1>4, <2>1, MovedRecord
  <1> QED
    BY <1>5, <1>6, <1>7, <1>8

LEMMA AcquireRecord ==
  ASSUME RecordInv, InvTypeOK', NEW r \in Requests, NEW w \in Workers, Acquire(r, w)
  PROVE  RecordInv'
  <1>1. InvTypeOK
    BY DEF RecordInv
  <1>2. rq[r].pc = "acquire" /\ UNCHANGED <<adapter, ingress, ran, wrote>>
    BY <1>1, AcquireEffect
  <1>3. CASE UNCHANGED <<rq, active>>
    BY <1>2, <1>3, WorkerRecord
  <1>4. CASE Moves(r, "write", w, rq[r].failed, rq[r].lease) /\ active' = active \cup {r}
    BY <1>2, <1>4, MovedRecord
  <1> QED
    BY <1>1, <1>3, <1>4, AcquireEffect

LEMMA ReleaseRecord ==
  ASSUME CleanInv, RecordInv, InvTypeOK', NEW r \in Requests, Release(r)
  PROVE  RecordInv'
  <1>1. InvTypeOK /\ Recorded(r)
    BY DEF RecordInv
  <1>2. Holds(rq[r])
    BY DEF Release, Holds, Ran
  <1>3. PICK w \in Workers : w = rq[r].w
    BY <1>2, Holder
  <1>4. rq[r].pc = "release" /\ UNCHANGED <<adapter, active, ingress, ran, wrote>>
    BY <1>1, <1>3, ReleaseEffect
  <1>5. /\ rq[r].lease = IF rq[r].kind = "forward" THEN "held" ELSE "spent"
        /\ wrote[r] = IF rq[r].lease = "spent" THEN 1 ELSE 0
        /\ rq[r].kind # "forward" => r \notin active /\ r \notin ingress
    BY <1>1, <1>4 DEF Recorded, LeaseFits, MayBeActive, MayHoldBudget
  <1>6. CASE rq[r].kind = "forward"
    <2>1. Moves(r, "unbind", w, rq[r].failed, rq[r].lease)
      BY <1>1, <1>3, <1>6, ReleaseEffect
    <2>2. Recorded(r)' /\ Sent(rq'[r])
      BY <1>4, <1>5, <1>6, <2>1
      DEF Moves, Recorded, LeaseFits, MayBeActive, MayHoldBudget, Sent, Unsent
    <2>3. \A s \in Requests \ {r} : rq'[s] = rq[s]
      BY <2>1 DEF Moves
    <2> QED
      BY <1>4, <2>2, <2>3, RecordStep
  <1>7. CASE rq[r].kind # "forward"
    <2>1. Ends(r, "spent")
      BY <1>1, <1>3, <1>5, <1>7, ReleaseEffect
    <2>2. Recorded(r)' /\ Sent(rq'[r])
      BY <1>4, <1>5, <1>7, <2>1, EndedRecord
    <2>3. \A s \in Requests \ {r} : rq'[s] = rq[s]
      BY <2>1 DEF Ends
    <2> QED
      BY <1>4, <2>2, <2>3, RecordStep
  <1> QED
    BY <1>6, <1>7

LEMMA SandboxRecord ==
  ASSUME RecordInv, InvTypeOK', NEW w \in Workers,
         Spawn(w) \/ AwaitReady(w) \/ Quit(w) \/ Reap(w) \/ Sandbox(w)
  PROVE  RecordInv'
  <1>1. InvTypeOK
    BY DEF RecordInv
  <1>2. CASE Spawn(w) \/ AwaitReady(w) \/ Quit(w) \/ AdapterExit(w)
    <2>1. UNCHANGED <<rq, adapter, active, ingress, ran, wrote>>
      BY <1>1, <1>2, SpawnEffect, AwaitReadyEffect, QuitEffect, ExitEffect
    <2> QED
      BY <2>1, WorkerRecord
  <1>3. CASE Reap(w)
    BY <1>1, <1>3, ReapEffect, WorkerRecord DEF Adapts
  <1>4. CASE Emits(w)
    <2>1. UNCHANGED <<rq, active, ingress, ran, wrote>>
      BY <1>1, <1>4, EmitsEffect
    <2>2. \E run, ph : Adapts(w, adapter[w].stdin, run, ph)
      BY <1>1, <1>4, EmitsEffect
    <2>3. \A v \in Workers : adapter'[v].stdin \in {NoRequest, adapter[v].stdin}
      BY <2>2 DEF Adapts
    <2> QED
      BY <2>1, <2>3, WorkerRecord
  <1>5. CASE AdapterTake(w)
    <2>1. /\ adapter[w].stdin \in Requests /\ ran' = ran \cup {adapter[w].stdin}
          /\ UNCHANGED <<rq, active, ingress, wrote>>
          /\ Adapts(w, NoRequest, adapter[w].stdin, "handling")
      BY <1>1, <1>5, TakeEffect
    <2>2. Sent(rq[adapter[w].stdin])
      BY <2>1, InvocationAssumption DEF RecordInv, EventSent
    <2>3. \A v \in Workers : adapter'[v].stdin \in {NoRequest, adapter[v].stdin}
      BY <2>1 DEF Adapts
    <2> QED
      BY <2>1, <2>2, <2>3, WorkerRecord
  <1> QED
    BY <1>2, <1>3, <1>4, <1>5 DEF Sandbox, Emits

-----------------------------------------------------------------------------
(* Invocations: the theorem.                                               *)

LEMMA InvInitial ==
  ASSUME InvInit
  PROVE  CleanInv /\ RecordInv
  <1>1. rq = [r \in Requests |-> Fresh]
    BY DEF InvInit, InvStart
  <1>2. Fresh \in RequestRec
    <2>1. 0 \in 0 .. MaxCallDepth
      BY InvocationAssumption
    <2> QED
      BY <2>1 DEF Fresh, RequestRec, Steps, Kinds
  <1>3. \A r \in Requests : rq[r].pc = "idle" /\ rq[r].lease = "none" /\ rq[r].kind = "forward"
    BY <1>1 DEF Fresh
  <1>4. \A w \in Workers : /\ wk[w] \in WorkerRec /\ wk[w].proc = "none" /\ wk[w].at = "none"
                           /\ ~wk[w].dead /\ wk[w].lock = NoRequest
    <2> SUFFICES ASSUME NEW w \in Workers
                 PROVE  /\ wk[w] \in WorkerRec /\ wk[w].proc = "none" /\ wk[w].at = "none"
                        /\ ~wk[w].dead /\ wk[w].lock = NoRequest
      OBVIOUS
    <2>1. wk = [v \in Workers |-> [proc |-> IF v \in {} THEN "up"
                                           ELSE IF v \in Workers THEN "none" ELSE "reaped",
                                   at |-> IF v \in {} THEN "parked" ELSE "none",
                                   dead |-> v \notin Workers, token |-> v \in {},
                                   lock |-> NoRequest]]
      BY DEF InvInit, InvStart
    <2>2. wk[w].proc = "none" /\ wk[w].at = "none" /\ wk[w].lock = NoRequest
      BY <2>1
    <2>3. wk[w].dead = (w \notin Workers)
      BY <2>1
    <2>4. ~wk[w].dead
      BY <2>3
    <2>5. wk[w] \in WorkerRec
      BY <2>1 DEF WorkerRec
    <2> QED
      BY <2>2, <2>4, <2>5
  <1>5. \A w \in Workers : adapter[w] = Booting /\ out[w] = <<>>
    <2>1. [Booting EXCEPT !.phase = "boot"] = Booting
      BY DEF Booting
    <2> QED
      BY <2>1 DEF InvInit, InvStart
  <1>6. Booting \in AdapterRec /\ Booting.stdin = NoRequest
    BY DEF Booting, AdapterRec
  <1>7. InvTypeOK
    <2>1. rq \in [Requests -> RequestRec]
      BY <1>1, <1>2
    <2>2. wk \in [Workers -> WorkerRec]
      BY <1>4 DEF InvInit, InvStart
    <2>3. adapter \in [Workers -> AdapterRec]
      BY <1>5, <1>6 DEF InvInit, InvStart
    <2>4. out \in [Workers -> Seq(Frames)]
      BY EmptySeq DEF InvInit, InvStart
    <2>5. /\ active \subseteq Requests /\ ingress \subseteq Requests /\ ran \subseteq Requests
          /\ got \in [Requests -> SUBSET (Requests \cup {NoRequest})] /\ wrote \in [Requests -> Nat]
      BY DEF InvInit, InvStart
    <2> QED
      BY <2>1, <2>2, <2>3, <2>4, <2>5, InvTypes
  <1>8. \A r \in Requests : /\ r \notin active /\ r \notin ingress /\ r \notin ran
                            /\ wrote[r] = 0 /\ got[r] = {}
    BY DEF InvInit, InvStart
  <1>9. CleanInv
    <2>1. \A w \in Workers : Life(w)
      BY <1>4, <1>5 DEF Life
    <2>2. \A r \in Requests : ~Holds(rq[r])
      BY <1>3 DEF Holds, Ran
    <2> QED
      BY <1>7, <1>8, <2>1, <2>2 DEF CleanInv, OneHolder, OwnAnswers
  <1>10. RecordInv
    <2>1. \A r \in Requests : Recorded(r)
      BY <1>3, <1>8 DEF Recorded, LeaseFits
    <2>2. \A w \in Workers : EventSent(w)
      BY <1>5, <1>6 DEF EventSent
    <2> QED
      BY <1>7, <2>1, <2>2 DEF RecordInv
  <1> QED
    BY <1>9, <1>10

LEMMA InvKept ==
  ASSUME CleanInv, RecordInv, [InvNext]_invVars
  PROVE  CleanInv' /\ RecordInv'
  <1>1. ASSUME NEW r \in Requests, Arrive(r) \/ Serve(r)
        PROVE  CleanInv' /\ RecordInv'
    <2>1. Recorded(r)
      BY DEF RecordInv
    <2>2. CASE Arrive(r) \/ ReserveLease(r) \/ Admit(r) \/ AcquireFails(r) \/ Unbind(r) \/ Record(r)
      <3>1. CleanInv'
        BY <2>1, <2>2, QuietClean
      <3>2. InvTypeOK'
        BY <3>1 DEF CleanInv
      <3> QED
        BY <2>2, <3>1, <3>2, QuietRecord
    <2>3. ASSUME NEW w \in Workers, Acquire(r, w) PROVE CleanInv' /\ RecordInv'
      <3>1. CleanInv'
        BY <2>3, AcquireClean
      <3>2. InvTypeOK'
        BY <3>1 DEF CleanInv
      <3> QED
        BY <2>3, <3>1, <3>2, AcquireRecord
    <2>4. CASE DispatchWrite(r) \/ ReadFirst(r) \/ NextFrame(r) \/ StreamAbandoned(r) \/ ReadFails(r)
      <3>1. CleanInv'
        BY <2>4, DispatchClean, ReadFirstClean, NextFrameClean, GiveUpClean
      <3>2. InvTypeOK'
        BY <3>1 DEF CleanInv
      <3> QED
        BY <2>4, <3>1, <3>2, DispatchRecord
    <2>5. CASE Release(r)
      <3>1. CleanInv'
        BY <2>5, ReleaseClean
      <3>2. InvTypeOK'
        BY <3>1 DEF CleanInv
      <3> QED
        BY <2>5, <3>1, <3>2, ReleaseRecord
    <2> QED
      BY <1>1, <2>2, <2>3, <2>4, <2>5 DEF Serve, Advance
  <1>2. ASSUME NEW w \in Workers, Spawn(w) \/ AwaitReady(w) \/ Quit(w) \/ Reap(w) \/ Sandbox(w)
        PROVE  CleanInv' /\ RecordInv'
    <2>1. CleanInv'
      BY <1>2, SpawnClean, AwaitReadyClean, QuitClean, ReapClean, ExitClean, TakeClean, EmitsClean
      DEF Sandbox, Emits
    <2>2. InvTypeOK'
      BY <2>1 DEF CleanInv
    <2> QED
      BY <1>2, <2>1, <2>2, SandboxRecord
  <1>3. CASE UNCHANGED invVars
    <2>1. UNCHANGED <<rq, wk, adapter, out, active, ingress, got, ran, wrote>>
      BY <1>3 DEF invVars
    <2>2. InvTypeOK'
      BY <2>1, InvTypes, InvTypesNext DEF CleanInv
    <2>3. RecordInv'
      BY <2>1, <2>2, WorkerRecord
    <2>4. \A v \in Workers : Same(v)
      BY <2>1 DEF Same
    <2>5. \A v \in Workers : Life(v)'
      BY <2>4, SameLife DEF CleanInv
    <2>6. \A r \in Requests : Holds(rq[r]) => Owns(r)'
      <3>1. \A r \in Requests : Holds(rq[r]) => Owns(r) /\ rq[r].w \in Workers
        BY DEF CleanInv, Owns
      <3> QED
        BY <2>1, <2>4, <3>1, SameOwns
    <2>7. OneHolder' /\ OwnAnswers' /\ \A r \in Requests : Holds(rq[r])' => Owns(r)'
      BY <2>1, <2>6 DEF CleanInv, OneHolder, OwnAnswers, Holds, Ran
    <2> QED
      BY <2>2, <2>3, <2>5, <2>7 DEF CleanInv
  <1> QED
    BY <1>1, <1>2, <1>3 DEF InvNext

LEMMA InvImplies ==
  ASSUME CleanInv, RecordInv
  PROVE  InvTypeOK /\ InvocationSafe
  <1>1. InvTypeOK /\ OwnAnswers
    BY DEF CleanInv
  <1>2. CleanHandover
    <2>1. \A w \in Workers : wk[w].proc = "reaped" => ~wk[w].token
      BY DEF CleanInv, Life
    <2>2. ASSUME NEW r \in Requests, rq[r].pc = "write", Alive(rq[r].w), ~wk[rq[r].w].dead,
                 NEW w, w = rq[r].w
          PROVE  /\ wk[w].lock = NoRequest /\ wk[w].token
                 /\ adapter[w].stdin = NoRequest /\ adapter[w].phase \in {"idle", "ended"}
                 /\ \A s \in Requests \ {r} : rq[s].pc \in {"write", "first", "stream"} => rq[s].w # w
      <3>1. Holds(rq[r])
        BY <2>2 DEF Holds
      <3>2. /\ Owns(r) /\ w \in Workers /\ Life(w)
            /\ \A s \in Requests \ {r} : Holds(rq[s]) => rq[s].w # w
        BY <2>2, <3>1, Holder
      <3>3. Clean(w) /\ wk[w].token
        BY <2>2, <3>2 DEF Owns, Life, Alive
      <3> QED
        BY <3>2, <3>3 DEF Clean, Holds
    <2> QED
      BY <2>1, <2>2 DEF CleanHandover
  <1>3. RunIsRecorded
    BY DEF RecordInv, Recorded, LeaseFits, MayBeActive, MayHoldBudget, Sent, RunIsRecorded
  <1> QED
    BY <1>1, <1>2, <1>3 DEF InvocationSafe, WorkersAreClean

\* The type invariant of the invocation model.
THEOREM InvocationTypes == InvSpec => []InvTypeOK
  <1>1. InvInit => CleanInv /\ RecordInv
    BY InvInitial
  <1>2. CleanInv /\ RecordInv /\ [InvNext]_invVars => CleanInv' /\ RecordInv'
    BY InvKept
  <1>3. CleanInv /\ RecordInv => InvTypeOK
    BY InvImplies
  <1> QED
    BY <1>1, <1>2, <1>3, PTL DEF InvSpec

\* Whatever the code in the sandbox does (answer twice, go on after the last
\* frame, hang, die), a caller sees only frames of its own invocation, a worker
\* goes from one request to the next only when it is through with the first,
\* and an invocation that ran has exactly one execution row: proxy.Forward,
\* the invoke handlers, worker.DispatchEx and NextFrame, Pool.Release.
THEOREM AnswersAreOwn == InvSpec => []InvocationSafe
  <1>1. InvInit => CleanInv /\ RecordInv
    BY InvInitial
  <1>2. CleanInv /\ RecordInv /\ [InvNext]_invVars => CleanInv' /\ RecordInv'
    BY InvKept
  <1>3. CleanInv /\ RecordInv => InvocationSafe
    BY InvImplies
  <1> QED
    BY <1>1, <1>2, <1>3, PTL DEF InvSpec

-----------------------------------------------------------------------------
(* The writer: where a write is.                                           *)

\* A write in a channel is there once, in its own, and in no batch.
LaneKnown(l) ==
  /\ \A i, j \in 1 .. Len(lane[l]) : lane[l][i] = lane[l][j] => i = j
  /\ \A w \in ToSet(lane[l]) : Lane(w) = l /\ w \notin batch[l] /\ wr[w] = "accepted"

\* So is one in a batch, unless the transaction under way has discarded it.
BatchKnown(l) ==
  \A w \in batch[l] : wr[w] = IF l = committing /\ w \notin work THEN "discarded" ELSE "accepted"

\* The transaction under way has jobs of one batch, and jobs of a function
\* only while the function is there.
WorkKnown ==
  /\ committing = "no" => work = {}
  /\ committing # "no" => work \subseteq batch[committing]
  /\ work \cap FunctionWrites # {} => fnAlive

\* Before it is settled a write has attempts left; only execution rows have
\* leases.
WriteKnown(w) ==
  /\ wr[w] \in {"idle", "leased", "sending", "accepted"} => tries[w] < MaxJobAttempts
  /\ wr[w] = "leased" => w \in CriticalWrites
  /\ stop \in {"quit", "draining", "done"} => wr[w] # "sending"

Balance ==
  /\ slots + Cardinality(Owned) = SlotCap
  /\ stop # "done" => \A l \in Lanes : bytes[l] = Cardinality(Held(l))

WriterInv ==
  /\ WriterTypeOK
  /\ \A l \in Lanes : LaneKnown(l) /\ BatchKnown(l)
  /\ \A w \in Writes : WriteKnown(w)
  /\ WorkKnown
  /\ stop = "done" => committing = "no"
  /\ live => fnAlive
  /\ Balance
  /\ DeletedLeavesNothing

-----------------------------------------------------------------------------
(* The writer: sets and sequences.                                         *)

LEMMA CardDiff ==
  ASSUME NEW S, NEW T, IsFiniteSet(S), T \subseteq S
  PROVE  /\ IsFiniteSet(S \ T) /\ IsFiniteSet(T)
         /\ Cardinality(S) \in Nat /\ Cardinality(T) \in Nat /\ Cardinality(S \ T) \in Nat
         /\ Cardinality(S \ T) = Cardinality(S) - Cardinality(T)
  <1>1. IsFiniteSet(S \ T) /\ IsFiniteSet(T)
    BY FS_Subset
  <1>2. (S \ T) \cup T = S /\ (S \ T) \cap T = {}
    OBVIOUS
  <1>3. Cardinality((S \ T) \cup T) =
          Cardinality(S \ T) + Cardinality(T) - Cardinality((S \ T) \cap T)
    BY <1>1, FS_Union
  <1>4. Cardinality({}) = 0
    BY FS_EmptySet
  <1>5. /\ Cardinality(S) \in Nat /\ Cardinality(T) \in Nat
        /\ Cardinality(S \ T) \in Nat
    BY <1>1, FS_CardinalityType
  <1>6. Cardinality(S) = Cardinality(S \ T) + Cardinality(T) - 0
    BY <1>2, <1>3, <1>4
  <1> QED
    BY <1>1, <1>5, <1>6

LEMMA ToSetAppend ==
  ASSUME NEW S, NEW s \in Seq(S), NEW e \in S
  PROVE  /\ ToSet(Append(s, e)) = ToSet(s) \cup {e}
         /\ Append(s, e) \in Seq(S) /\ Len(Append(s, e)) = Len(s) + 1 /\ Len(s) \in Nat
  <1>1. /\ Append(s, e) \in Seq(S) /\ Len(Append(s, e)) = Len(s) + 1 /\ Len(s) \in Nat
        /\ DOMAIN s = 1 .. Len(s) /\ DOMAIN Append(s, e) = 1 .. Len(s) + 1
        /\ \A i \in 1 .. Len(s) : Append(s, e)[i] = s[i]
        /\ Append(s, e)[Len(s) + 1] = e
    OBVIOUS
  <1>2. \A i \in 1 .. Len(s) + 1 : i \in 1 .. Len(s) \/ i = Len(s) + 1
    BY <1>1
  <1>3. \A i \in 1 .. Len(s) : i \in 1 .. Len(s) + 1
    BY <1>1
  <1>4. Len(s) + 1 \in 1 .. Len(s) + 1
    BY <1>1
  <1> HIDE <1>1
  <1>5. ToSet(Append(s, e)) \subseteq ToSet(s) \cup {e}
    BY <1>1, <1>2 DEF ToSet
  <1>6. ToSet(s) \subseteq ToSet(Append(s, e)) /\ e \in ToSet(Append(s, e))
    BY <1>1, <1>3, <1>4 DEF ToSet
  <1> QED
    BY <1>1, <1>5, <1>6

LEMMA ToSetTail ==
  ASSUME NEW S, NEW s \in Seq(S), s # <<>>
  PROVE  /\ ToSet(s) = ToSet(Tail(s)) \cup {Head(s)} /\ Head(s) \in S
         /\ Tail(s) \in Seq(S) /\ Len(s) \in Nat \ {0} /\ Len(Tail(s)) = Len(s) - 1
         /\ \A i \in 1 .. Len(Tail(s)) : Tail(s)[i] = s[i + 1] /\ i + 1 \in 1 .. Len(s)
         /\ Head(s) = s[1]
  <1>1. /\ Tail(s) \in Seq(S) /\ Len(Tail(s)) = Len(s) - 1 /\ Head(s) \in S
        /\ \A i \in 1 .. Len(Tail(s)) : Tail(s)[i] = s[i + 1]
    BY HeadTailProperties
  <1>2. Len(s) \in Nat \ {0} /\ Head(s) = s[1]
    BY EmptySeq
  <1>3. DOMAIN s = 1 .. Len(s) /\ DOMAIN Tail(s) = 1 .. Len(Tail(s))
    BY <1>1, LenProperties
  <1>4. \A i \in 1 .. Len(Tail(s)) : i + 1 \in 1 .. Len(s)
    BY <1>1, <1>2
  <1>5. \A i \in 1 .. Len(s) : i = 1 \/ (i - 1 \in 1 .. Len(Tail(s)) /\ (i - 1) + 1 = i)
    BY <1>1, <1>2
  <1>6. ToSet(s) \subseteq ToSet(Tail(s)) \cup {Head(s)}
    <2> SUFFICES ASSUME NEW i \in 1 .. Len(s)
                 PROVE  s[i] \in ToSet(Tail(s)) \cup {Head(s)}
      BY <1>3 DEF ToSet
    <2>1. CASE i = 1
      BY <1>2, <2>1
    <2>2. CASE i - 1 \in 1 .. Len(Tail(s)) /\ (i - 1) + 1 = i
      <3>1. Tail(s)[i - 1] = s[i]
        BY <1>1, <2>2
      <3>2. Tail(s)[i - 1] \in ToSet(Tail(s))
        BY <1>3, <2>2 DEF ToSet
      <3> QED
        BY <3>1, <3>2
    <2> QED
      BY <1>5, <2>1, <2>2
  <1>7. ToSet(Tail(s)) \subseteq ToSet(s)
    BY <1>1, <1>3, <1>4 DEF ToSet
  <1>8. Head(s) \in ToSet(s)
    <2>1. 1 \in 1 .. Len(s)
      BY <1>2
    <2> QED
      BY <1>2, <1>3, <2>1 DEF ToSet
  <1> QED
    BY <1>1, <1>2, <1>4, <1>6, <1>7, <1>8

LEMMA ToSetSize ==
  ASSUME NEW S, NEW s \in Seq(S), \A i, j \in 1 .. Len(s) : s[i] = s[j] => i = j
  PROVE  IsFiniteSet(ToSet(s)) /\ Cardinality(ToSet(s)) = Len(s)
  <1>1. Len(s) \in Nat /\ DOMAIN s = 1 .. Len(s) /\ s \in [1 .. Len(s) -> S]
    BY LenProperties
  <1>2. s \in [1 .. Len(s) -> ToSet(s)]
    BY <1>1 DEF ToSet
  <1>3. s \in Surjection(1 .. Len(s), ToSet(s))
    BY <1>1, <1>2 DEF ToSet, Surjection
  <1>4. s \in Injection(1 .. Len(s), ToSet(s))
    BY <1>1, <1>2 DEF Injection, IsInjective
  <1>5. IsFiniteSet(1 .. Len(s)) /\ Cardinality(1 .. Len(s)) = Len(s)
    BY <1>1, FS_Interval
  <1> QED
    BY <1>3, <1>4, <1>5, FS_Surjection

-----------------------------------------------------------------------------
(* The writer: types.                                                      *)

LEMMA WriterTypes ==
  ASSUME WriterTypeOK
  PROVE  /\ slots \in 0 .. SlotCap /\ wr \in [Writes -> Places]
         /\ lane \in [Lanes -> Seq(Writes)] /\ \A l \in Lanes : Len(lane[l]) <= Cap(l)
         /\ bytes \in [Lanes -> 0 .. MaxBytes] /\ batch \in [Lanes -> SUBSET Writes]
         /\ \A l \in Lanes : \A w \in batch[l] : Lane(w) = l
         /\ backoff \subseteq Lanes /\ work \subseteq Writes /\ committing \in Lanes \cup {"no"}
         /\ tries \in [Writes -> 0 .. MaxJobAttempts]
         /\ stop \in {"no", "requested", "quit", "draining", "done"}
         /\ fnAlive \in BOOLEAN /\ live \in BOOLEAN
         /\ rows \subseteq Writes /\ deleting \subseteq CriticalWrites
         /\ faults \in 0 .. MaxWriteFaults
  BY DEF WriterTypeOK

LEMMA WriterTypesNext ==
  ASSUME slots' \in 0 .. SlotCap, wr' \in [Writes -> Places],
         lane' \in [Lanes -> Seq(Writes)], \A l \in Lanes : Len(lane'[l]) <= Cap(l),
         bytes' \in [Lanes -> 0 .. MaxBytes], batch' \in [Lanes -> SUBSET Writes],
         \A l \in Lanes : \A w \in batch'[l] : Lane(w) = l,
         backoff' \subseteq Lanes, work' \subseteq Writes, committing' \in Lanes \cup {"no"},
         tries' \in [Writes -> 0 .. MaxJobAttempts],
         stop' \in {"no", "requested", "quit", "draining", "done"},
         fnAlive' \in BOOLEAN, live' \in BOOLEAN,
         rows' \subseteq Writes, deleting' \subseteq CriticalWrites,
         faults' \in 0 .. MaxWriteFaults
  PROVE  WriterTypeOK'
  BY DEF WriterTypeOK

LEMMA LaneType ==
  ASSUME NEW w
  PROVE  /\ Lane(w) \in Lanes /\ (Lane(w) = "critical" <=> w \in CriticalWrites)
         /\ "critical" \in Lanes /\ "no" \notin Lanes
  BY DEF Lane, Lanes

LEMMA WritesFinite ==
  ASSUME NEW S, S \subseteq Writes
  PROVE  IsFiniteSet(S) /\ Cardinality(S) \in Nat
  BY WriterAssumption, FS_Subset, FS_CardinalityType

LEMMA SetsKnown ==
  ASSUME WriterInv
  PROVE  /\ Owned \subseteq Writes /\ \A l \in Lanes : Held(l) \subseteq Writes
         /\ \A l \in Lanes : ToSet(lane[l]) \subseteq Writes
  <1>1. \A l \in Lanes : ToSet(lane[l]) \subseteq Writes
    <2> SUFFICES ASSUME NEW l \in Lanes PROVE ToSet(lane[l]) \subseteq Writes
      OBVIOUS
    <2>1. lane[l] \in Seq(Writes)
      BY WriterTypes DEF WriterInv
    <2>2. DOMAIN lane[l] = 1 .. Len(lane[l]) /\ lane[l] \in [1 .. Len(lane[l]) -> Writes]
      BY <2>1, LenProperties
    <2> QED
      BY <2>2 DEF ToSet
  <1>2. Owned \subseteq Writes
    BY DEF Owned, Writes
  <1>3. \A l \in Lanes : Held(l) \subseteq Writes
    BY <1>1, WriterTypes DEF Held, WriterInv
  <1> QED
    BY <1>1, <1>2, <1>3

Bit(b) == IF b THEN 1 ELSE 0

\* A write that is not queued goes from one place to another.
LEMMA OneMoves ==
  ASSUME WriterInv, NEW w \in Writes, wr[w] \in {"idle", "leased", "sending"},
         NEW p \in Places \ {"accepted", "idle"}, wr' = [wr EXCEPT ![w] = p],
         p = "leased" => w \in CriticalWrites /\ slots > 0 /\ wr[w] = "idle",
         p = "sending" => stop = "no" /\ bytes[Lane(w)] + 1 <= MaxBytes /\ wr[w] # "sending",
         w \in CriticalWrites /\ p = "sending" => wr[w] = "leased",
         slots' = slots + Bit(w \in CriticalWrites /\ wr[w] # "idle")
                        - Bit(w \in CriticalWrites /\ p \in {"leased", "sending"}),
         bytes' = [bytes EXCEPT ![Lane(w)] = @ + Bit(p = "sending") - Bit(wr[w] = "sending")],
         rows' \subseteq rows \cup {w}, rows' = rows \/ fnAlive,
         UNCHANGED <<lane, batch, backoff, work, committing, tries, deleting, faults, stop, fnAlive,
                     live>>
  PROVE  WriterInv'
  <1> USE DEF WriterInv
  <1>1. /\ slots \in 0 .. SlotCap /\ wr \in [Writes -> Places]
        /\ bytes \in [Lanes -> 0 .. MaxBytes] /\ rows \subseteq Writes
        /\ lane \in [Lanes -> Seq(Writes)] /\ batch \in [Lanes -> SUBSET Writes]
        /\ \A l \in Lanes : \A v \in batch[l] : Lane(v) = l
    BY WriterTypes
  <1>2. /\ SlotCap \in Nat /\ MaxBytes \in Nat
    BY WriterAssumption
  <1>3. /\ Lane(w) \in Lanes /\ (Lane(w) = "critical" <=> w \in CriticalWrites)
    BY LaneType
  <1>4. wr' \in [Writes -> Places] /\ wr'[w] = p /\ \A v \in Writes \ {w} : wr'[v] = wr[v]
    BY <1>1
  <1>5. \A l \in Lanes : w \notin ToSet(lane[l]) /\ w \notin batch[l]
    BY DEF LaneKnown, BatchKnown
  <1>6. \A l \in Lanes : LaneKnown(l)' /\ BatchKnown(l)'
    <2> SUFFICES ASSUME NEW l \in Lanes PROVE LaneKnown(l)' /\ BatchKnown(l)'
      OBVIOUS
    <2>1. ToSet(lane[l]) \subseteq Writes \ {w} /\ batch[l] \subseteq Writes \ {w}
      BY <1>1, <1>5, SetsKnown
    <2>2. LaneKnown(l) /\ BatchKnown(l)
      OBVIOUS
    <2>3. LaneKnown(l)'
      BY <1>4, <2>1, <2>2 DEF LaneKnown
    <2>4. BatchKnown(l)'
      BY <1>4, <2>1, <2>2 DEF BatchKnown
    <2> QED
      BY <2>3, <2>4
  <1>7. \A v \in Writes : WriteKnown(v)'
    <2> SUFFICES ASSUME NEW v \in Writes PROVE WriteKnown(v)'
      OBVIOUS
    <2>1. WriteKnown(v)
      OBVIOUS
    <2>2. CASE v # w
      BY <1>4, <2>1, <2>2 DEF WriteKnown
    <2>3. CASE v = w
      BY <1>4, <2>1, <2>3 DEF WriteKnown
    <2> QED
      BY <2>2, <2>3
  <1>8. slots' \in 0 .. SlotCap /\ slots' + Cardinality(Owned') = SlotCap
    <2>1. Owned \subseteq Writes /\ IsFiniteSet(Owned) /\ Cardinality(Owned) \in Nat
          /\ slots + Cardinality(Owned) = SlotCap
      BY SetsKnown, WritesFinite DEF Balance
    <2>2. w \in Owned <=> w \in CriticalWrites /\ wr[w] # "idle"
      BY DEF Owned
    <2>3. w \in Owned' <=> w \in CriticalWrites /\ p \in {"leased", "sending"}
      BY <1>4 DEF Owned, Places
    <2>4. \A v \in Writes \ {w} : v \in Owned <=> v \in Owned'
      BY <1>4 DEF Owned
    <2>5. Owned' \subseteq Writes
      BY DEF Owned, Writes
    <2>6. CASE w \in Owned /\ w \notin Owned'
      <3>1. Owned' = Owned \ {w}
        BY <2>1, <2>4, <2>5, <2>6
      <3>2. Cardinality(Owned') = Cardinality(Owned) - 1
        BY <2>1, <2>6, <3>1, FS_RemoveElement
      <3>4. slots' = slots + 1
        BY <1>1, <1>2, <2>2, <2>3, <2>6 DEF Bit
      <3>3. Cardinality(Owned') \in Nat
        BY <2>5, WritesFinite
      <3> QED
        BY <1>1, <1>2, <2>1, <3>2, <3>3, <3>4
    <2>7. CASE w \in Owned <=> w \in Owned'
      <3>1. Owned' = Owned
        <4>1. \A v \in Writes : v \in Owned <=> v \in Owned'
          BY <2>4, <2>7, Zenon
        <4> QED
          BY <2>1, <2>5, <4>1, Zenon
      <3>2. slots' = slots
        BY <1>1, <1>2, <2>2, <2>3, <2>7 DEF Bit
      <3> QED
        BY <1>1, <2>1, <3>1, <3>2
    <2>8. CASE w \notin Owned /\ w \in Owned'
      <3>1. Owned' = Owned \cup {w}
        BY <2>1, <2>4, <2>5, <2>8
      <3>2. Cardinality(Owned') = Cardinality(Owned) + 1
        BY <2>1, <2>8, <3>1, FS_AddElement
      <3>4. slots' = slots - 1
        BY <1>1, <1>2, <2>2, <2>3, <2>8 DEF Bit
      <3>3. slots > 0
        BY <2>2, <2>3, <2>8
      <3> QED
        <4>1. slots' \in 0 .. SlotCap
          BY <1>1, <1>2, <3>3, <3>4
        <4>2. slots' + Cardinality(Owned') = SlotCap
          <5>1. slots \in Int /\ Cardinality(Owned) \in Int
            BY <1>1, <1>2, <2>1
          <5>2. (slots - 1) + (Cardinality(Owned) + 1) = slots + Cardinality(Owned)
            BY <5>1
          <5>3. slots + Cardinality(Owned) = SlotCap
            BY <2>1
          <5> QED
            BY <3>2, <3>4, <5>2, <5>3, Zenon
        <4> QED
          BY <4>1, <4>2
    <2> QED
      BY <2>6, <2>7, <2>8
  <1>9. /\ bytes' \in [Lanes -> 0 .. MaxBytes]
        /\ stop # "done" => \A l \in Lanes : bytes'[l] = Cardinality(Held(l)')
    <2>1. \A l \in Lanes \ {Lane(w)} : Held(l)' = Held(l) /\ bytes'[l] = bytes[l]
      <3> SUFFICES ASSUME NEW l \in Lanes \ {Lane(w)} PROVE Held(l)' = Held(l) /\ bytes'[l] = bytes[l]
        OBVIOUS
      <3>1. {v \in Writes : Lane(v) = l /\ wr'[v] = "sending"} =
              {v \in Writes : Lane(v) = l /\ wr[v] = "sending"}
        BY <1>4
      <3>2. Held(l)' = Held(l)
        BY <3>1 DEF Held
      <3> QED
        BY <1>1, <3>2
    <2> DEFINE k == Lane(w)
    <2>2. /\ Held(k) \subseteq Writes /\ IsFiniteSet(Held(k)) /\ Cardinality(Held(k)) \in Nat
          /\ stop # "done" => bytes[k] = Cardinality(Held(k))
      BY <1>3, SetsKnown, WritesFinite DEF Balance
    <2>3. w \in Held(k) <=> wr[w] = "sending"
      BY <1>3, <1>5 DEF Held
    <2>4. w \in Held(k)' <=> p = "sending"
      BY <1>3, <1>4, <1>5 DEF Held
    <2>5. \A v \in Writes \ {w} : v \in Held(k) <=> v \in Held(k)'
      BY <1>4 DEF Held
    <2>6. Held(k)' \subseteq Writes
      BY <1>1, <1>3, SetsKnown DEF Held
    <2>7. bytes'[k] = bytes[k] + Bit(p = "sending") - Bit(wr[w] = "sending") /\ bytes[k] \in 0 .. MaxBytes
          /\ bytes' \in [Lanes -> Int]
      <3>1. Bit(p = "sending") \in Int /\ Bit(wr[w] = "sending") \in Int
        BY DEF Bit
      <3>2. bytes \in [Lanes -> Int]
        BY <1>1, <1>2
      <3> QED
        BY <1>1, <1>2, <1>3, <3>1, <3>2
    <2> HIDE DEF k
    <2>8. /\ bytes'[k] \in 0 .. MaxBytes
          /\ stop # "done" => bytes'[k] = Cardinality(Held(k)')
      <3>1. CASE wr[w] = "sending" /\ p # "sending"
        <4>1. Held(k)' = Held(k) \ {w} /\ w \in Held(k)
          BY <2>2, <2>3, <2>4, <2>5, <2>6, <3>1
        <4>2. Cardinality(Held(k)') = Cardinality(Held(k)) - 1
          BY <2>2, <4>1, FS_RemoveElement
        <4>3. bytes'[k] = bytes[k] - 1
          BY <1>2, <2>7, <3>1 DEF Bit
        <4>4. stop # "done"
          BY <3>1 DEF WriteKnown
        <4>5. Cardinality(Held(k)') \in Nat
          BY <2>6, WritesFinite
        <4> QED
          BY <1>2, <2>2, <2>7, <4>2, <4>3, <4>4, <4>5
      <3>2. CASE wr[w] # "sending" /\ p # "sending"
        <4>1. Held(k)' = Held(k)
          <5>1. \A v \in Writes : v \in Held(k) <=> v \in Held(k)'
            BY <2>3, <2>4, <2>5, <3>2, Zenon
          <5> QED
            BY <2>2, <2>6, <5>1, Zenon
        <4>2. bytes'[k] = bytes[k]
          BY <1>2, <2>7, <3>2 DEF Bit
        <4> QED
          BY <2>2, <2>7, <4>1, <4>2
      <3>3. CASE wr[w] # "sending" /\ p = "sending"
        <4>1. Held(k)' = Held(k) \cup {w} /\ w \notin Held(k)
          BY <2>2, <2>3, <2>4, <2>5, <2>6, <3>3
        <4>2. Cardinality(Held(k)') = Cardinality(Held(k)) + 1
          BY <2>2, <4>1, FS_AddElement
        <4>3. bytes'[k] = bytes[k] + 1
          BY <1>2, <2>7, <3>3 DEF Bit
        <4>4. bytes[k] + 1 <= MaxBytes
          BY <3>3 DEF k
        <4> QED
          BY <1>2, <2>2, <2>7, <4>2, <4>3, <4>4
      <3> QED
        BY <3>1, <3>2, <3>3
    <2>9. \A l \in Lanes : l = k \/ l \in Lanes \ {Lane(w)}
      BY DEF k
    <2>10. \A l \in Lanes : bytes'[l] \in 0 .. MaxBytes
      BY <1>1, <2>1, <2>8, <2>9
    <2>11. stop # "done" => \A l \in Lanes : bytes'[l] = Cardinality(Held(l)')
      BY <2>1, <2>8, <2>9 DEF Balance
    <2> QED
      BY <2>7, <2>10, <2>11
  <1>10. WriterTypeOK'
    <2>1. rows' \subseteq Writes
      BY <1>1
    <2> QED
      BY <1>4, <1>8, <1>9, <2>1, WriterTypes, WriterTypesNext
  <1>11. Balance'
    BY <1>8, <1>9 DEF Balance
  <1>12. WorkKnown' /\ DeletedLeavesNothing' /\ (live => fnAlive)' /\ (stop = "done" => committing = "no")'
    BY DEF WorkKnown, DeletedLeavesNothing
  <1> QED
    BY <1>6, <1>7, <1>10, <1>11, <1>12

-----------------------------------------------------------------------------
(* The writer: the producers.                                              *)

\* The byte counters of a move that neither takes nor returns a byte.
LEMMA BytesStay ==
  ASSUME WriterTypeOK, NEW w, NEW p, NEW q, p # "sending", q # "sending", bytes' = bytes
  PROVE  bytes' = [bytes EXCEPT ![Lane(w)] = @ + Bit(p = "sending") - Bit(q = "sending")]
  <1>1. bytes \in [Lanes -> Int]
    BY WriterTypes, WriterAssumption
  <1>2. Lane(w) \in Lanes
    BY LaneType
  <1>3. bytes[Lane(w)] + Bit(p = "sending") - Bit(q = "sending") = bytes[Lane(w)]
    BY <1>1, <1>2 DEF Bit
  <1> QED
    BY <1>1, <1>2, <1>3

LEMMA ReserveKeeps ==
  ASSUME WriterInv, NEW w \in Writes, ReserveExecution(w) \/ Cancel(w)
  PROVE  WriterInv'
  <1>1. WriterTypeOK /\ WriteKnown(w) /\ slots \in Int
    BY WriterTypes, WriterAssumption DEF WriterInv
  <1>2. /\ UNCHANGED <<lane, bytes, stop, fnAlive, live, rows>>
        /\ UNCHANGED <<batch, backoff, work, committing, tries, deleting, faults>>
    BY DEF ReserveExecution, Cancel, consumerVars
  <1>3. CASE /\ w \in CriticalWrites /\ wr[w] = "idle" /\ slots > 0
             /\ slots' = slots - 1 /\ wr' = [wr EXCEPT ![w] = "leased"]
    <2>1. bytes' = [bytes EXCEPT ![Lane(w)] = @ + Bit("leased" = "sending") - Bit(wr[w] = "sending")]
      BY <1>1, <1>2, <1>3, BytesStay
    <2>2. slots' = slots + Bit(w \in CriticalWrites /\ wr[w] # "idle")
                         - Bit(w \in CriticalWrites /\ "leased" \in {"leased", "sending"})
      BY <1>1, <1>3 DEF Bit
    <2> QED
      BY <1>2, <1>3, <2>1, <2>2, OneMoves DEF Places
  <1>4. CASE /\ w \in CriticalWrites /\ wr[w] = "idle"
             /\ UNCHANGED slots /\ wr' = [wr EXCEPT ![w] = "refused"]
    <2>1. bytes' = [bytes EXCEPT ![Lane(w)] = @ + Bit("refused" = "sending") - Bit(wr[w] = "sending")]
      BY <1>1, <1>2, <1>4, BytesStay
    <2>2. slots' = slots + Bit(w \in CriticalWrites /\ wr[w] # "idle")
                         - Bit(w \in CriticalWrites /\ "refused" \in {"leased", "sending"})
      BY <1>1, <1>4 DEF Bit
    <2> QED
      BY <1>2, <1>4, <2>1, <2>2, OneMoves DEF Places
  <1>5. CASE Cancel(w)
    <2>1. w \in CriticalWrites /\ wr[w] = "leased" /\ slots' = slots + 1
          /\ wr' = [wr EXCEPT ![w] = "cancelled"]
      BY <1>1, <1>5 DEF Cancel, WriteKnown
    <2>2. bytes' = [bytes EXCEPT ![Lane(w)] = @ + Bit("cancelled" = "sending") - Bit(wr[w] = "sending")]
      BY <1>1, <1>2, <2>1, BytesStay
    <2>3. slots' = slots + Bit(w \in CriticalWrites /\ wr[w] # "idle")
                         - Bit(w \in CriticalWrites /\ "cancelled" \in {"leased", "sending"})
      BY <1>1, <2>1 DEF Bit
    <2> QED
      BY <1>2, <2>1, <2>2, <2>3, OneMoves DEF Places
  <1> QED
    BY <1>3, <1>4, <1>5 DEF ReserveExecution

\* A lease ends on the caller's goroutine: with a row, with a failed one, or
\* turned away.
LEMMA LeaseEnds ==
  ASSUME WriterInv, NEW w \in Writes, w \in CriticalWrites,
         NEW p \in {"stored", "failed", "refused"}, wr' = [wr EXCEPT ![w] = p],
         slots' = slots + 1, rows' \subseteq rows \cup {w}, rows' = rows \/ fnAlive,
         \/ wr[w] = "leased" /\ UNCHANGED bytes
         \/ wr[w] = "sending" /\ bytes' = [bytes EXCEPT !["critical"] = @ - 1],
         UNCHANGED <<lane, batch, backoff, work, committing, tries, deleting, faults, stop, fnAlive,
                     live>>
  PROVE  WriterInv'
  <1>1. WriterTypeOK /\ slots \in Int
    BY WriterTypes, WriterAssumption DEF WriterInv
  <1>2. bytes' = [bytes EXCEPT ![Lane(w)] = @ + Bit(p = "sending") - Bit(wr[w] = "sending")]
    <2>1. CASE wr[w] = "leased"
      BY <1>1, <2>1, BytesStay
    <2>2. CASE wr[w] = "sending"
      <3>1. bytes \in [Lanes -> Int] /\ Lane(w) = "critical" /\ Lane(w) \in Lanes
        BY <1>1, WriterTypes, WriterAssumption, LaneType
      <3>2. bytes[Lane(w)] + Bit(p = "sending") - Bit(wr[w] = "sending") = bytes["critical"] - 1
        BY <2>2, <3>1 DEF Bit
      <3> QED
        BY <2>2, <3>1, <3>2
    <2> QED
      BY <2>1, <2>2
  <1>3. slots' = slots + Bit(w \in CriticalWrites /\ wr[w] # "idle")
                       - Bit(w \in CriticalWrites /\ p \in {"leased", "sending"})
    BY <1>1 DEF Bit
  <1> QED
    BY <1>2, <1>3, OneMoves DEF Places

LEMMA DirectWriteFacts ==
  ASSUME NEW w, DirectWrite(w)
  PROVE  /\ slots' = slots + 1 /\ rows' \subseteq rows \cup {w} /\ (rows' = rows \/ fnAlive)
         /\ \E p \in {"stored", "failed", "refused"} : wr' = [wr EXCEPT ![w] = p]
  BY DEF DirectWrite

LEMMA AsyncExecKeeps ==
  ASSUME WriterInv, NEW w \in Writes, AsyncExecCritical(w)
  PROVE  WriterInv'
  <1>1. WriterTypeOK /\ WriteKnown(w) /\ slots \in Int
    BY WriterTypes, WriterAssumption DEF WriterInv
  <1>2. /\ UNCHANGED <<lane, stop, fnAlive, live>> /\ wr[w] = "leased" /\ w \in CriticalWrites
        /\ UNCHANGED <<batch, backoff, work, committing, tries, deleting, faults>>
    BY <1>1 DEF AsyncExecCritical, consumerVars, WriteKnown
  <1>3. CASE DirectWrite(w) /\ UNCHANGED bytes
    BY <1>2, <1>3, DirectWriteFacts, LeaseEnds
  <1>4. CASE slots' = slots + 1 /\ wr' = [wr EXCEPT ![w] = "refused"] /\ UNCHANGED <<rows, bytes>>
    BY <1>2, <1>4, LeaseEnds
  <1>5. CASE /\ stop = "no" /\ ReserveQueueBytes("critical")
             /\ bytes' = [bytes EXCEPT !["critical"] = @ + 1]
             /\ wr' = [wr EXCEPT ![w] = "sending"] /\ UNCHANGED <<rows, slots>>
    <2>1. bytes \in [Lanes -> Int] /\ Lane(w) = "critical" /\ Lane(w) \in Lanes
      BY <1>1, <1>2, WriterTypes, WriterAssumption, LaneType
    <2>2. bytes[Lane(w)] + Bit("sending" = "sending") - Bit(wr[w] = "sending") = bytes["critical"] + 1
      BY <1>2, <2>1 DEF Bit
    <2>3. bytes' = [bytes EXCEPT ![Lane(w)] = @ + Bit("sending" = "sending") - Bit(wr[w] = "sending")]
      BY <1>5, <2>1, <2>2
    <2>4. slots' = slots + Bit(w \in CriticalWrites /\ wr[w] # "idle")
                         - Bit(w \in CriticalWrites /\ "sending" \in {"leased", "sending"})
      BY <1>1, <1>2, <1>5 DEF Bit
    <2>5. bytes[Lane(w)] + 1 <= MaxBytes
      BY <1>5, <2>1 DEF ReserveQueueBytes
    <2> QED
      BY <1>2, <1>5, <2>3, <2>4, <2>5, OneMoves DEF Places
  <1> QED
    BY <1>3, <1>4, <1>5 DEF AsyncExecCritical

LEMMA BestEffortKeeps ==
  ASSUME WriterInv, NEW w \in Writes, AsyncExecBestEffort(w)
  PROVE  WriterInv'
  <1>1. WriterTypeOK /\ slots \in Int
    BY WriterTypes, WriterAssumption DEF WriterInv
  <1>2. /\ UNCHANGED <<slots, lane, stop, fnAlive, live, rows>>
        /\ wr[w] = "idle" /\ w \notin CriticalWrites
        /\ UNCHANGED <<batch, backoff, work, committing, tries, deleting, faults>>
    BY DEF AsyncExecBestEffort, consumerVars
  <1>3. \A p : slots' = slots + Bit(w \in CriticalWrites /\ wr[w] # "idle")
                              - Bit(w \in CriticalWrites /\ p \in {"leased", "sending"})
    BY <1>1, <1>2 DEF Bit
  <1>4. CASE wr' = [wr EXCEPT ![w] = "dropped"] /\ UNCHANGED bytes
    <2>1. bytes' = [bytes EXCEPT ![Lane(w)] = @ + Bit("dropped" = "sending") - Bit(wr[w] = "sending")]
      BY <1>1, <1>2, <1>4, BytesStay
    <2> QED
      BY <1>2, <1>3, <1>4, <2>1, OneMoves DEF Places
  <1>5. CASE /\ stop = "no" /\ ReserveQueueBytes(Lane(w)) /\ wr' = [wr EXCEPT ![w] = "sending"]
             /\ bytes' = [bytes EXCEPT ![Lane(w)] = @ + 1]
    <2>1. bytes \in [Lanes -> Int] /\ Lane(w) \in Lanes
      BY <1>1, WriterTypes, WriterAssumption, LaneType
    <2>2. bytes[Lane(w)] + Bit("sending" = "sending") - Bit(wr[w] = "sending") = bytes[Lane(w)] + 1
      BY <1>2, <2>1 DEF Bit
    <2>3. bytes' = [bytes EXCEPT ![Lane(w)] = @ + Bit("sending" = "sending") - Bit(wr[w] = "sending")]
      BY <1>5, <2>1, <2>2
    <2>4. bytes[Lane(w)] + 1 <= MaxBytes
      BY <1>5 DEF ReserveQueueBytes
    <2> QED
      BY <1>2, <1>3, <1>5, <2>3, <2>4, OneMoves DEF Places
  <1> QED
    BY <1>4, <1>5 DEF AsyncExecBestEffort

\* A write enters its channel; it is held as before.
LEMMA Enqueued ==
  ASSUME WriterInv, NEW w \in Writes, wr[w] = "sending", wr' = [wr EXCEPT ![w] = "accepted"],
         Len(lane[Lane(w)]) < Cap(Lane(w)),
         lane' = [lane EXCEPT ![Lane(w)] = Append(@, w)],
         UNCHANGED <<slots, bytes, rows, batch, backoff, work, committing, tries, deleting, faults,
                     stop, fnAlive, live>>
  PROVE  WriterInv'
  <1> USE DEF WriterInv
  <1>1. /\ wr \in [Writes -> Places] /\ lane \in [Lanes -> Seq(Writes)]
        /\ batch \in [Lanes -> SUBSET Writes] /\ \A l \in Lanes : Len(lane[l]) <= Cap(l)
        /\ \A l \in Lanes : \A v \in batch[l] : Lane(v) = l
    BY WriterTypes
  <1>2. PICK k \in Lanes : k = Lane(w)
    BY LaneType
  <1>3. /\ wr' \in [Writes -> Places] /\ wr'[w] = "accepted"
        /\ \A v \in Writes \ {w} : wr'[v] = wr[v]
    BY <1>1 DEF Places
  <1>4. lane'[k] = Append(lane[k], w) /\ \A l \in Lanes \ {k} : lane'[l] = lane[l]
    BY <1>1, <1>2
  <1>5. /\ ToSet(lane'[k]) = ToSet(lane[k]) \cup {w}
        /\ lane'[k] \in Seq(Writes) /\ Len(lane'[k]) = Len(lane[k]) + 1 /\ Len(lane[k]) \in Nat
    BY <1>1, <1>4, ToSetAppend
  <1>6. lane' \in [Lanes -> Seq(Writes)]
    BY <1>1, <1>2, <1>5
  <1>7. Cap(k) \in Nat
    BY WriterAssumption DEF Cap
  <1>8. \A l \in Lanes : Len(lane'[l]) <= Cap(l)
    BY <1>1, <1>2, <1>4, <1>5, <1>7
  <1>9. \A l \in Lanes : w \notin ToSet(lane[l]) /\ w \notin batch[l]
    BY DEF LaneKnown, BatchKnown
  <1>10. \A l \in Lanes : BatchKnown(l)'
    <2> SUFFICES ASSUME NEW l \in Lanes PROVE BatchKnown(l)'
      OBVIOUS
    <2>1. batch[l] \subseteq Writes \ {w} /\ BatchKnown(l)
      BY <1>1, <1>9
    <2> QED
      BY <1>3, <2>1 DEF BatchKnown
  <1>11. \A l \in Lanes : LaneKnown(l)'
    <2> SUFFICES ASSUME NEW l \in Lanes PROVE LaneKnown(l)'
      OBVIOUS
    <2>1. LaneKnown(l) /\ ToSet(lane[l]) \subseteq Writes \ {w}
      BY <1>9, SetsKnown
    <2>2. CASE l # k
      BY <1>3, <1>4, <2>1, <2>2 DEF LaneKnown
    <2>3. CASE l = k
      <3>1. \A v \in ToSet(lane'[l]) : Lane(v) = l /\ v \notin batch[l] /\ wr'[v] = "accepted"
        BY <1>2, <1>3, <1>5, <1>9, <2>1, <2>3 DEF LaneKnown
      <3>2. \A i \in 1 .. Len(lane'[l]) :
              \/ i \in 1 .. Len(lane[l]) /\ lane'[l][i] = lane[l][i] /\ lane[l][i] # w
              \/ i = Len(lane'[l]) /\ lane'[l][i] = w
        <4>1. lane[l] \in Seq(Writes) /\ lane'[l] = Append(lane[l], w) /\ DOMAIN lane[l] = 1 .. Len(lane[l])
          BY <1>1, <1>4, <2>3
        <4>2. \A i \in 1 .. Len(lane[l]) : lane[l][i] \in ToSet(lane[l])
          BY <4>1 DEF ToSet
        <4>3. \A i \in 1 .. Len(lane[l]) : lane'[l][i] = lane[l][i]
          BY <4>1
        <4>4. lane'[l][Len(lane'[l])] = w
          BY <1>5, <2>3, <4>1
        <4>5. \A i \in 1 .. Len(lane'[l]) : i \in 1 .. Len(lane[l]) \/ i = Len(lane'[l])
          BY <1>5, <2>3
        <4> QED
          BY <2>1, <4>2, <4>3, <4>4, <4>5
      <3>3. \A i, j \in 1 .. Len(lane'[l]) : lane'[l][i] = lane'[l][j] => i = j
        BY <2>1, <3>2 DEF LaneKnown
      <3> QED
        BY <3>1, <3>3 DEF LaneKnown
    <2> QED
      BY <2>2, <2>3
  <1>12. \A v \in Writes : WriteKnown(v)'
    <2> SUFFICES ASSUME NEW v \in Writes PROVE WriteKnown(v)'
      OBVIOUS
    <2>1. WriteKnown(v)
      OBVIOUS
    <2>2. CASE v # w
      BY <1>3, <2>1, <2>2 DEF WriteKnown
    <2>3. CASE v = w
      BY <1>3, <2>1, <2>3 DEF WriteKnown
    <2> QED
      BY <2>2, <2>3
  <1>13. Owned' = Owned
    <2>1. \A v \in CriticalWrites : v \in Writes
      BY DEF Writes
    <2> QED
      BY <1>3, <2>1 DEF Owned
  <1>14. \A l \in Lanes : Held(l)' = Held(l)
    <2> SUFFICES ASSUME NEW l \in Lanes PROVE Held(l)' = Held(l)
      OBVIOUS
    <2>1. CASE l # k
      <3>1. {v \in Writes : Lane(v) = l /\ wr'[v] = "sending"} =
              {v \in Writes : Lane(v) = l /\ wr[v] = "sending"}
        BY <1>2, <1>3, <2>1
      <3> QED
        BY <1>4, <2>1, <3>1 DEF Held
    <2>2. CASE l = k
      <3>1. {v \in Writes : Lane(v) = l /\ wr[v] = "sending"} =
              {v \in Writes : Lane(v) = l /\ wr'[v] = "sending"} \cup {w}
        BY <1>2, <1>3, <2>2
      <3> QED
        BY <1>5, <2>2, <3>1 DEF Held
    <2> QED
      BY <2>1, <2>2
  <1>15. Balance'
    BY <1>13, <1>14 DEF Balance
  <1>16. WriterTypeOK'
    BY <1>3, <1>6, <1>8, WriterTypes, WriterTypesNext
  <1>17. WorkKnown' /\ DeletedLeavesNothing' /\ (live => fnAlive)' /\ (stop = "done" => committing = "no")'
    BY DEF WorkKnown, DeletedLeavesNothing
  <1> QED
    BY <1>10, <1>11, <1>12, <1>15, <1>16, <1>17

LEMMA SendKeeps ==
  ASSUME WriterInv, NEW w \in Writes, Send(w)
  PROVE  WriterInv'
  <1>1. WriterTypeOK /\ slots \in Int
    BY WriterTypes, WriterAssumption DEF WriterInv
  <1>2. /\ UNCHANGED <<stop, fnAlive, live>> /\ wr[w] = "sending"
        /\ UNCHANGED <<batch, backoff, work, committing, tries, deleting, faults>>
    BY DEF Send, SendCritical, SendBestEffort, consumerVars
  <1>3. CASE SendCritical(w)
    <2>1. Lane(w) = "critical" /\ w \in CriticalWrites
      BY <1>3, LaneType DEF SendCritical
    <2>2. CASE /\ Len(lane["critical"]) < SlotCap
               /\ lane' = [lane EXCEPT !["critical"] = Append(@, w)]
               /\ wr' = [wr EXCEPT ![w] = "accepted"] /\ UNCHANGED <<bytes, slots, rows>>
      BY <1>2, <2>1, <2>2, Enqueued DEF Cap
    <2>3. CASE /\ bytes' = [bytes EXCEPT !["critical"] = @ - 1]
               /\ DirectWrite(w) /\ UNCHANGED lane
      BY <1>2, <2>1, <2>3, DirectWriteFacts, LeaseEnds
    <2>4. CASE /\ bytes' = [bytes EXCEPT !["critical"] = @ - 1]
               /\ slots' = slots + 1 /\ wr' = [wr EXCEPT ![w] = "refused"]
               /\ UNCHANGED <<lane, rows>>
      BY <1>2, <2>1, <2>4, LeaseEnds
    <2> QED
      BY <1>3, <2>2, <2>3, <2>4 DEF SendCritical
  <1>4. CASE SendBestEffort(w)
    <2>1. Lane(w) # "critical" /\ w \notin CriticalWrites /\ UNCHANGED <<slots, rows>>
      BY <1>4, LaneType DEF SendBestEffort
    <2>2. CASE /\ Len(lane[Lane(w)]) < LaneCap
               /\ lane' = [lane EXCEPT ![Lane(w)] = Append(@, w)]
               /\ wr' = [wr EXCEPT ![w] = "accepted"] /\ UNCHANGED bytes
      BY <1>2, <2>1, <2>2, Enqueued DEF Cap
    <2>3. CASE /\ bytes' = [bytes EXCEPT ![Lane(w)] = @ - 1]
               /\ wr' = [wr EXCEPT ![w] = "dropped"] /\ UNCHANGED lane
      <3>1. slots' = slots + Bit(w \in CriticalWrites /\ wr[w] # "idle")
                           - Bit(w \in CriticalWrites /\ "dropped" \in {"leased", "sending"})
        BY <1>1, <2>1 DEF Bit
      <3>2. bytes \in [Lanes -> Int] /\ Lane(w) \in Lanes
        BY <1>1, WriterTypes, WriterAssumption, LaneType
      <3>3. bytes[Lane(w)] + Bit("dropped" = "sending") - Bit(wr[w] = "sending") = bytes[Lane(w)] - 1
        BY <1>2, <3>2 DEF Bit
      <3>4. bytes' = [bytes EXCEPT ![Lane(w)] = @ + Bit("dropped" = "sending") - Bit(wr[w] = "sending")]
        BY <2>3, <3>2, <3>3
      <3> QED
        BY <1>2, <2>1, <2>3, <3>1, <3>4, OneMoves DEF Places
    <2> QED
      BY <1>4, <2>2, <2>3 DEF SendBestEffort
  <1> QED
    BY <1>3, <1>4 DEF Send

-----------------------------------------------------------------------------
(* The writer: the consumer.                                               *)

LEMMA TakeKeeps ==
  ASSUME WriterInv, NEW k \in Lanes, Take(k)
  PROVE  WriterInv'
  <1> USE DEF WriterInv
  <1>1. /\ lane \in [Lanes -> Seq(Writes)] /\ batch \in [Lanes -> SUBSET Writes]
        /\ \A l \in Lanes : Len(lane[l]) <= Cap(l)
        /\ \A l \in Lanes : \A v \in batch[l] : Lane(v) = l
    BY WriterTypes
  <1>2. /\ committing = "no" /\ lane[k] # <<>> /\ k # "no"
        /\ batch' = [batch EXCEPT ![k] = @ \cup {Head(lane[k])}]
        /\ lane' = [lane EXCEPT ![k] = Tail(@)]
        /\ UNCHANGED <<slots, wr, bytes, backoff, work, committing, tries, stop, fnAlive, live, rows,
                       deleting, faults>>
    BY LaneType DEF Take
  <1>3. PICK h : h = Head(lane[k])
    OBVIOUS
  <1>4. /\ lane'[k] = Tail(lane[k]) /\ batch'[k] = batch[k] \cup {h}
        /\ \A l \in Lanes \ {k} : lane'[l] = lane[l] /\ batch'[l] = batch[l]
    BY <1>1, <1>2, <1>3
  <1>5. /\ ToSet(lane[k]) = ToSet(lane'[k]) \cup {h} /\ h \in Writes
        /\ lane'[k] \in Seq(Writes) /\ Len(lane[k]) \in Nat \ {0} /\ Len(lane'[k]) = Len(lane[k]) - 1
        /\ \A i \in 1 .. Len(lane'[k]) : lane'[k][i] = lane[k][i + 1] /\ i + 1 \in 1 .. Len(lane[k])
        /\ h = lane[k][1]
    BY <1>1, <1>2, <1>3, <1>4, ToSetTail
  <1>6. LaneKnown(k) /\ BatchKnown(k) /\ Lane(h) = k /\ wr[h] = "accepted"
    BY <1>5 DEF LaneKnown
  <1>7. h \notin ToSet(lane'[k])
    <2> SUFFICES ASSUME NEW i \in 1 .. Len(lane'[k]), lane'[k][i] = h PROVE FALSE
      <3>1. DOMAIN lane'[k] = 1 .. Len(lane'[k])
        BY <1>5, LenProperties
      <3> QED
        BY <3>1 DEF ToSet
    <2>1. 1 \in 1 .. Len(lane[k]) /\ lane[k][i + 1] = lane[k][1] /\ i + 1 \in 1 .. Len(lane[k])
      BY <1>5
    <2>2. i + 1 = 1
      BY <1>6, <2>1 DEF LaneKnown
    <2> QED
      BY <1>5, <2>2
  <1>8. \A l \in Lanes : LaneKnown(l)'
    <2> SUFFICES ASSUME NEW l \in Lanes PROVE LaneKnown(l)'
      OBVIOUS
    <2>1. CASE l # k
      <3>1. LaneKnown(l)
        OBVIOUS
      <3> QED
        BY <1>2, <1>4, <2>1, <3>1 DEF LaneKnown
    <2>2. CASE l = k
      <3>1. \A v \in ToSet(lane'[k]) : Lane(v) = k /\ v \notin batch'[k] /\ wr'[v] = "accepted"
        BY <1>2, <1>4, <1>5, <1>6, <1>7 DEF LaneKnown
      <3>2. \A i, j \in 1 .. Len(lane'[k]) : lane'[k][i] = lane'[k][j] => i = j
        <4> SUFFICES ASSUME NEW i \in 1 .. Len(lane'[k]), NEW j \in 1 .. Len(lane'[k]),
                            lane'[k][i] = lane'[k][j]
                     PROVE  i = j
          OBVIOUS
        <4>1. i + 1 = j + 1
          BY <1>5, <1>6, SMTT(30) DEF LaneKnown
        <4> QED
          BY <4>1
      <3> QED
        BY <2>2, <3>1, <3>2 DEF LaneKnown
    <2> QED
      BY <2>1, <2>2
  <1>9. \A l \in Lanes : BatchKnown(l)'
    <2> SUFFICES ASSUME NEW l \in Lanes PROVE BatchKnown(l)'
      OBVIOUS
    <2>1. BatchKnown(l) /\ l # committing
      BY <1>2, LaneType
    <2>2. \A v \in batch'[l] : v \in batch[l] \/ v = h
      BY <1>4
    <2>3. \A v \in batch'[l] : wr[v] = "accepted"
      BY <1>6, <2>1, <2>2 DEF BatchKnown
    <2> QED
      BY <1>2, <2>1, <2>3 DEF BatchKnown
  <1>10. \A l \in Lanes : Held(l)' = Held(l)
    <2> SUFFICES ASSUME NEW l \in Lanes PROVE Held(l)' = Held(l)
      OBVIOUS
    <2>1. ToSet(lane'[l]) \cup batch'[l] = ToSet(lane[l]) \cup batch[l]
      BY <1>4, <1>5
    <2> QED
      BY <1>2, <2>1 DEF Held
  <1>11. Balance' /\ DeletedLeavesNothing' /\ (live => fnAlive)' /\ (stop = "done" => committing = "no")'
    BY <1>2, <1>10 DEF Balance, Owned, DeletedLeavesNothing
  <1>12. WorkKnown' /\ \A v \in Writes : WriteKnown(v)'
    BY <1>2 DEF WorkKnown, WriteKnown
  <1>13. WriterTypeOK'
    <2>1. lane' \in [Lanes -> Seq(Writes)] /\ batch' \in [Lanes -> SUBSET Writes]
      BY <1>1, <1>2, <1>3, <1>4, <1>5
    <2>2. \A l \in Lanes : \A v \in batch'[l] : Lane(v) = l
      BY <1>1, <1>4, <1>6
    <2>3. Cap(k) \in Nat
      BY WriterAssumption DEF Cap
    <2>4. \A l \in Lanes : Len(lane'[l]) <= Cap(l)
      BY <1>1, <1>4, <1>5, <2>3
    <2> QED
      BY <1>2, <2>1, <2>2, <2>4, WriterTypes, WriterTypesNext
  <1> QED
    BY <1>8, <1>9, <1>11, <1>12, <1>13

\* Accepted writes come to an end and their places are returned.
LEMMA PlacesReturned ==
  ASSUME WriterInv, NEW D \in SUBSET Writes, \A w \in D : wr[w] = "accepted",
         wr' \in [Writes -> Places],
         \A w \in D : wr'[w] \in {"stored", "discarded", "failed", "dropped"},
         \A w \in Writes \ D : wr'[w] = wr[w],
         slots' = slots + HoldsPlace(D)
  PROVE  /\ slots' \in 0 .. SlotCap /\ slots' + Cardinality(Owned') = SlotCap
         /\ \A l \in Lanes : {w \in Writes : Lane(w) = l /\ wr'[w] = "sending"} =
                             {w \in Writes : Lane(w) = l /\ wr[w] = "sending"}
  <1>1. /\ slots \in 0 .. SlotCap /\ SlotCap \in Nat /\ slots + Cardinality(Owned) = SlotCap
    BY WriterTypes, WriterAssumption DEF WriterInv, Balance
  <1>2. CriticalWrites \subseteq Writes /\ Owned \subseteq Writes
    BY DEF Writes, Owned
  <1>3. PICK C : C = D \cap CriticalWrites
    OBVIOUS
  <1>4. C \subseteq Owned
    BY <1>3 DEF Owned
  <1>5. Owned' = Owned \ C
    BY <1>2, <1>3 DEF Owned
  <1>6. IsFiniteSet(Owned) /\ Cardinality(Owned) \in Nat
    BY <1>2, WritesFinite
  <1>7. /\ Cardinality(Owned \ C) \in Nat /\ Cardinality(C) \in Nat
        /\ Cardinality(Owned \ C) = Cardinality(Owned) - Cardinality(C)
    <2>1. Cardinality(C) \in Nat
      BY <1>2, <1>4, WritesFinite
    <2> QED
      BY <1>4, <1>6, <2>1, CardDiff
  <1>8. slots' = slots + Cardinality(C)
    BY <1>3 DEF HoldsPlace
  <1>9. slots' \in 0 .. SlotCap /\ slots' + Cardinality(Owned \ C) = SlotCap
    BY <1>1, <1>6, <1>7, <1>8
  <1>10. \A w \in Writes : wr'[w] = "sending" <=> wr[w] = "sending"
    OBVIOUS
  <1> QED
    BY <1>5, <1>9, <1>10

LEMMA CommitBeginKeeps ==
  ASSUME WriterInv, NEW k \in Lanes, CommitBegin(k)
  PROVE  WriterInv'
  <1> USE DEF WriterInv
  <1>1. /\ wr \in [Writes -> Places] /\ batch \in [Lanes -> SUBSET Writes]
        /\ \A l \in Lanes : \A v \in batch[l] : Lane(v) = l
    BY WriterTypes
  <1>2. PICK keep, gone :
          /\ keep = FilterDeleted(batch[k]) /\ gone = batch[k] \ keep
          /\ wr' = [w \in Writes |-> IF w \in gone THEN "discarded" ELSE wr[w]]
          /\ slots' = slots + HoldsPlace(gone) /\ work' = keep
    BY DEF CommitBegin
  <1>3. /\ stop # "done" /\ committing = "no" /\ committing' = k /\ k # "no"
        /\ live' = (live \/ fnAlive)
        /\ UNCHANGED <<lane, bytes, batch, backoff, tries, stop, fnAlive, rows, deleting, faults>>
    BY LaneType DEF CommitBegin
  <1>4. keep \subseteq batch[k] /\ gone \subseteq batch[k] /\ batch[k] \subseteq Writes
    BY <1>1, <1>2 DEF FilterDeleted
  <1>5. \A l \in Lanes : \A v \in batch[l] : wr[v] = "accepted"
    BY <1>3, LaneType DEF BatchKnown
  <1>6. /\ wr' \in [Writes -> Places] /\ \A w \in gone : wr'[w] = "discarded"
        /\ \A w \in Writes \ gone : wr'[w] = wr[w]
    BY <1>1, <1>2, <1>4 DEF Places
  <1>7. /\ slots' \in 0 .. SlotCap /\ slots' + Cardinality(Owned') = SlotCap
        /\ \A l \in Lanes : {w \in Writes : Lane(w) = l /\ wr'[w] = "sending"} =
                            {w \in Writes : Lane(w) = l /\ wr[w] = "sending"}
    BY <1>2, <1>4, <1>5, <1>6, PlacesReturned
  <1>8. \A l \in Lanes : Held(l)' = Held(l)
    BY <1>3, <1>7 DEF Held
  <1>9. Balance' /\ DeletedLeavesNothing'
    BY <1>3, <1>7, <1>8 DEF Balance, DeletedLeavesNothing
  <1>10. \A l \in Lanes : LaneKnown(l)'
    <2> SUFFICES ASSUME NEW l \in Lanes PROVE LaneKnown(l)'
      OBVIOUS
    <2>1. LaneKnown(l) /\ ToSet(lane[l]) \subseteq Writes
      BY SetsKnown
    <2>2. \A v \in ToSet(lane[l]) : v \notin gone
      BY <1>1, <1>4, <2>1 DEF LaneKnown
    <2> QED
      BY <1>3, <1>6, <2>1, <2>2 DEF LaneKnown
  <1>11. \A l \in Lanes : BatchKnown(l)'
    <2> SUFFICES ASSUME NEW l \in Lanes, NEW v \in batch[l]
                 PROVE  wr'[v] = IF l = k /\ v \notin keep THEN "discarded" ELSE "accepted"
      BY <1>2, <1>3 DEF BatchKnown
    <2>1. v \in Writes /\ Lane(v) = l /\ wr[v] = "accepted"
      BY <1>1, <1>5
    <2>2. v \in gone <=> l = k /\ v \notin keep
      BY <1>1, <1>2, <1>4, <2>1
    <2> QED
      BY <1>6, <2>1, <2>2
  <1>12. \A v \in Writes : WriteKnown(v)'
    <2> SUFFICES ASSUME NEW v \in Writes PROVE WriteKnown(v)'
      OBVIOUS
    <2>1. WriteKnown(v)
      OBVIOUS
    <2> QED
      BY <1>3, <1>6, <2>1 DEF WriteKnown
  <1>13. WorkKnown'
    <2>1. ~fnAlive => keep \cap FunctionWrites = {}
      BY <1>2 DEF FilterDeleted
    <2> QED
      BY <1>2, <1>3, <1>4, <2>1 DEF WorkKnown
  <1>14. (live => fnAlive)' /\ (stop = "done" => committing = "no")'
    BY <1>3
  <1>15. WriterTypeOK'
    <2>1. live' \in BOOLEAN /\ work' \subseteq Writes /\ committing' \in Lanes \cup {"no"}
      BY <1>2, <1>3, <1>4
    <2> QED
      BY <1>3, <1>6, <1>7, <2>1, WriterTypes, WriterTypesNext
  <1> QED
    BY <1>9, <1>10, <1>11, <1>12, <1>13, <1>14, <1>15

\* The transaction of lane k ends: the writes of D are settled, the other jobs
\* stay in the batch.
LEMMA Settled ==
  ASSUME WriterInv, NEW k \in Lanes, committing = k, NEW D \in SUBSET work,
         wr' \in [Writes -> Places],
         \A w \in D : wr'[w] \in {"stored", "discarded", "failed", "dropped"},
         \A w \in Writes \ D : wr'[w] = wr[w],
         slots' = slots + HoldsPlace(D),
         bytes' = [bytes EXCEPT ![k] = @ + Cardinality(work \ D) - Cardinality(batch[k])],
         batch' = [batch EXCEPT ![k] = work \ D],
         rows' \subseteq rows \cup D, backoff' \subseteq Lanes, committing' = "no", work' = {},
         tries' \in [Writes -> 0 .. MaxJobAttempts],
         \A w \in Writes \ D : tries'[w] # tries[w] => w \in work /\ tries'[w] < MaxJobAttempts,
         faults' \in 0 .. MaxWriteFaults,
         UNCHANGED <<lane, stop, fnAlive, live, deleting>>
  PROVE  WriterInv'
  <1> USE DEF WriterInv
  <1>1. /\ wr \in [Writes -> Places] /\ batch \in [Lanes -> SUBSET Writes]
        /\ bytes \in [Lanes -> 0 .. MaxBytes] /\ rows \subseteq Writes
        /\ \A l \in Lanes : \A v \in batch[l] : Lane(v) = l
    BY WriterTypes
  <1>2. /\ k # "no" /\ work \subseteq batch[k] /\ batch[k] \subseteq Writes /\ stop # "done"
        /\ D \subseteq Writes
    BY <1>1, LaneType DEF WorkKnown
  <1>3. \A v \in work : wr[v] = "accepted"
    BY <1>2 DEF BatchKnown
  <1>4. PICK keep : keep = work \ D
    OBVIOUS
  <1>5. batch'[k] = keep /\ \A l \in Lanes \ {k} : batch'[l] = batch[l]
    BY <1>1, <1>4
  <1>6. keep \subseteq batch[k]
    BY <1>2, <1>4
  <1>7. /\ slots' \in 0 .. SlotCap /\ slots' + Cardinality(Owned') = SlotCap
        /\ \A l \in Lanes : {w \in Writes : Lane(w) = l /\ wr'[w] = "sending"} =
                            {w \in Writes : Lane(w) = l /\ wr[w] = "sending"}
    BY <1>2, <1>3, PlacesReturned
  <1>8. \A l \in Lanes \ {k} : Held(l)' = Held(l)
    BY <1>5, <1>7 DEF Held
  <1>9. Held(k)' = Held(k) \ (batch[k] \ keep) /\ batch[k] \subseteq Held(k)
    <2>1. \A v \in batch[k] : v \notin ToSet(lane[k])
      BY DEF LaneKnown
    <2>2. \A v \in batch[k] : wr[v] # "sending"
      BY DEF BatchKnown
    <2>3. PICK S : S = {w \in Writes : Lane(w) = k /\ wr[w] = "sending"}
      OBVIOUS
    <2>4. Held(k) = S \cup ToSet(lane[k]) \cup batch[k] /\ Held(k)' = S \cup ToSet(lane[k]) \cup keep
      BY <1>5, <1>7, <2>3 DEF Held
    <2>5. \A v \in batch[k] : v \notin S
      BY <2>2, <2>3
    <2> QED
      BY <1>6, <2>1, <2>4, <2>5
  <1>10. /\ Held(k) \subseteq Writes /\ IsFiniteSet(Held(k)) /\ Cardinality(Held(k)) \in Nat
         /\ IsFiniteSet(batch[k]) /\ Cardinality(batch[k]) \in Nat /\ Cardinality(keep) \in Nat
    BY <1>2, <1>6, SetsKnown, WritesFinite
  <1>11. /\ Cardinality(batch[k] \ keep) \in Nat
         /\ Cardinality(batch[k] \ keep) = Cardinality(batch[k]) - Cardinality(keep)
    BY <1>6, <1>10, CardDiff
  <1>12. /\ Cardinality(Held(k)') \in Nat
         /\ Cardinality(Held(k)') = Cardinality(Held(k)) - Cardinality(batch[k] \ keep)
    <2>1. batch[k] \ keep \subseteq Held(k)
      BY <1>9
    <2> QED
      BY <1>9, <1>10, <2>1, CardDiff
  <1>13. bytes[k] = Cardinality(Held(k)) /\ bytes[k] \in 0 .. MaxBytes /\ MaxBytes \in Nat
    BY <1>1, <1>2, WriterAssumption DEF Balance
  <1>14. bytes'[k] = bytes[k] + Cardinality(keep) - Cardinality(batch[k])
    BY <1>1, <1>4
  <1>15. bytes'[k] = Cardinality(Held(k)') /\ bytes'[k] \in 0 .. MaxBytes
    BY <1>10, <1>11, <1>12, <1>13, <1>14
  <1>16. \A l \in Lanes \ {k} : bytes'[l] = bytes[l]
    BY <1>1
  <1>17. bytes' \in [Lanes -> 0 .. MaxBytes]
    <2>1. DOMAIN bytes' = Lanes /\ bytes' = [l \in Lanes |-> bytes'[l]]
      BY <1>1
    <2>2. \A l \in Lanes : bytes'[l] \in 0 .. MaxBytes
      BY <1>1, <1>15, <1>16
    <2> QED
      BY <2>1, <2>2
  <1>18. Balance'
    <2>1. \A l \in Lanes : bytes'[l] = Cardinality(Held(l)')
      BY <1>2, <1>8, <1>15, <1>16 DEF Balance
    <2> QED
      BY <1>7, <2>1 DEF Balance
  <1>19. \A l \in Lanes : LaneKnown(l)'
    <2> SUFFICES ASSUME NEW l \in Lanes PROVE LaneKnown(l)'
      OBVIOUS
    <2>1. LaneKnown(l) /\ ToSet(lane[l]) \subseteq Writes
      BY SetsKnown
    <2>2. \A v \in ToSet(lane[l]) : v \notin D
      BY <1>1, <1>2, <2>1 DEF LaneKnown
    <2>3. batch'[l] \subseteq batch[l]
      BY <1>5, <1>6
    <2> QED
      BY <2>1, <2>2, <2>3 DEF LaneKnown
  <1>20. \A l \in Lanes : BatchKnown(l)'
    <2> SUFFICES ASSUME NEW l \in Lanes, NEW v \in batch'[l] PROVE wr'[v] = "accepted"
      BY <1>2, LaneType DEF BatchKnown
    <2>1. CASE l = k
      BY <1>2, <1>3, <1>4, <1>5, <2>1
    <2>2. CASE l # k
      <3>1. v \in batch[l] /\ v \in Writes /\ Lane(v) = l
        BY <1>1, <1>5, <2>2
      <3>2. v \notin D
        BY <1>1, <1>2, <2>2, <3>1
      <3>3. wr[v] = "accepted"
        BY <2>2, <3>1 DEF BatchKnown
      <3> QED
        BY <3>1, <3>2, <3>3
    <2> QED
      BY <2>1, <2>2
  <1>21. \A v \in Writes : WriteKnown(v)'
    <2> SUFFICES ASSUME NEW v \in Writes PROVE WriteKnown(v)'
      OBVIOUS
    <2>1. WriteKnown(v)
      OBVIOUS
    <2>2. CASE v \in D
      BY <1>2, <2>2 DEF WriteKnown
    <2>3. CASE v \notin D
      BY <2>1, <2>3 DEF WriteKnown
    <2> QED
      BY <2>2, <2>3
  <1>22. DeletedLeavesNothing'
    BY DEF DeletedLeavesNothing, WorkKnown
  <1>23. WorkKnown' /\ (live => fnAlive)' /\ (stop = "done" => committing = "no")'
    BY DEF WorkKnown
  <1>24. WriterTypeOK'
    <2>1. batch' \in [Lanes -> SUBSET Writes] /\ rows' \subseteq Writes
      BY <1>1, <1>2
    <2>2. \A l \in Lanes : \A v \in batch'[l] : Lane(v) = l
      BY <1>1, <1>5, <1>6
    <2> QED
      BY <1>7, <1>17, <2>1, <2>2, WriterTypes, WriterTypesNext
  <1> QED
    BY <1>18, <1>19, <1>20, <1>21, <1>22, <1>23, <1>24

\* Settle leaves unsettled what it has to retry, unless the writer drains.
LEMMA SettleKeeps ==
  ASSUME WriterInv, committing # "no", NEW stored, NEW shed, NEW retry,
         stored \subseteq work, shed \subseteq work \ stored, retry = (work \ stored) \ shed,
         Settle(stored, shed, retry),
         tries' \in [Writes -> 0 .. MaxJobAttempts],
         \A w \in Writes \ shed : tries'[w] # tries[w] => w \in work /\ tries'[w] < MaxJobAttempts,
         faults' \in 0 .. MaxWriteFaults,
         UNCHANGED <<lane, stop, fnAlive, live, deleting>>
  PROVE  WriterInv'
  <1>1. PICK k \in Lanes : committing = k
    BY WriterTypes DEF WriterInv
  <1>2. PICK lost, keep :
          /\ lost = shed \cup IF stop = "draining" THEN retry ELSE {}
          /\ keep = IF stop = "draining" THEN {} ELSE retry
          /\ rows' = rows \cup stored
          /\ wr' = [w \in Writes |->
                      IF w \in stored THEN "stored"
                      ELSE IF w \in lost THEN (IF k = "critical" THEN "failed" ELSE "dropped")
                      ELSE wr[w]]
          /\ slots' = slots + HoldsPlace(stored \cup lost)
          /\ bytes' = [bytes EXCEPT ![k] = @ + Cardinality(keep) - Cardinality(batch[k])]
          /\ batch' = [batch EXCEPT ![k] = keep]
          /\ backoff' = IF keep = {} THEN backoff \ {k} ELSE backoff \cup {k}
          /\ committing' = "no" /\ work' = {}
    BY <1>1 DEF Settle
  <1>3. PICK D : D = stored \cup lost
    OBVIOUS
  <1>4. work \subseteq Writes /\ wr \in [Writes -> Places] /\ backoff \subseteq Lanes
    BY WriterTypes DEF WriterInv
  <1>5. D \subseteq work /\ keep = work \ D /\ shed \subseteq D
    <2>1. CASE stop = "draining"
      BY <1>2, <1>3, <2>1
    <2>2. CASE stop # "draining"
      BY <1>2, <1>3, <2>2
    <2> QED
      BY <2>1, <2>2
  <1>6. /\ wr' \in [Writes -> Places] /\ \A w \in Writes \ D : wr'[w] = wr[w]
        /\ \A w \in D : wr'[w] \in {"stored", "discarded", "failed", "dropped"}
    BY <1>2, <1>3, <1>4, <1>5 DEF Places
  <1>7. rows' \subseteq rows \cup D /\ backoff' \subseteq Lanes
    BY <1>1, <1>2, <1>3, <1>4
  <1>8. \A w \in Writes \ D : tries'[w] # tries[w] => w \in work /\ tries'[w] < MaxJobAttempts
    BY <1>5
  <1>9. /\ slots' = slots + HoldsPlace(D)
        /\ bytes' = [bytes EXCEPT ![k] = @ + Cardinality(work \ D) - Cardinality(batch[k])]
        /\ batch' = [batch EXCEPT ![k] = work \ D]
    BY <1>2, <1>3, <1>5, Zenon
  <1> QED
    BY <1>1, <1>2, <1>5, <1>6, <1>7, <1>8, <1>9, Settled

LEMMA CommitKeeps ==
  ASSUME WriterInv,
         \/ CommitAll \/ CommitLater
         \/ \E bad \in SUBSET work : \E permanent \in SUBSET bad : CommitIsolated(bad, permanent)
  PROVE  WriterInv'
  <1>1. /\ faults \in 0 .. MaxWriteFaults /\ MaxWriteFaults \in Nat /\ MaxJobAttempts \in Nat
        /\ tries \in [Writes -> 0 .. MaxJobAttempts] /\ work \subseteq Writes
    BY WriterTypes, WriterAssumption DEF WriterInv
  <1>2. CASE CommitAll
    <2>1. committing # "no" /\ Settle(work, {}, {})
          /\ UNCHANGED <<lane, tries, stop, fnAlive, live, deleting, faults>>
      BY <1>2 DEF CommitAll
    <2>2. tries' \in [Writes -> 0 .. MaxJobAttempts] /\ faults' \in 0 .. MaxWriteFaults
      BY <1>1, <2>1
    <2>3. {} = (work \ work) \ {}
      OBVIOUS
    <2> QED
      BY <2>1, <2>2, <2>3, SettleKeeps
  <1>3. CASE CommitLater
    <2>1. committing # "no" /\ Settle({}, {}, work)
          /\ UNCHANGED <<lane, tries, stop, fnAlive, live, deleting>>
      BY <1>3 DEF CommitLater
    <2>2. tries' \in [Writes -> 0 .. MaxJobAttempts] /\ faults' \in 0 .. MaxWriteFaults
      BY <1>1, <1>3, <2>1 DEF CommitLater
    <2>3. work = (work \ {}) \ {}
      OBVIOUS
    <2> QED
      BY <2>1, <2>2, <2>3, SettleKeeps
  <1>4. ASSUME NEW bad \in SUBSET work, NEW permanent \in SUBSET bad, CommitIsolated(bad, permanent)
        PROVE  WriterInv'
    <2>1. PICK shed : shed = {w \in bad : w \in permanent \/ tries[w] + 1 >= MaxJobAttempts}
      OBVIOUS
    <2>2. /\ committing # "no" /\ faults < MaxWriteFaults /\ faults' = faults + 1
          /\ Settle(work \ bad, shed, bad \ shed)
          /\ tries' = [w \in Writes |-> IF w \in bad THEN tries[w] + 1 ELSE tries[w]]
          /\ UNCHANGED <<lane, stop, fnAlive, live, deleting>>
      BY <1>4, <2>1 DEF CommitIsolated
    <2>3. /\ work \ bad \subseteq work /\ shed \subseteq work \ (work \ bad)
          /\ bad \ shed = (work \ (work \ bad)) \ shed
      BY <2>1
    <2>4. \A w \in bad : tries[w] < MaxJobAttempts
      <3> SUFFICES ASSUME NEW w \in bad PROVE tries[w] < MaxJobAttempts
        OBVIOUS
      <3>1. committing \in Lanes /\ w \in batch[committing] /\ w \in work /\ w \in Writes
        BY <1>1, <2>2, WriterTypes DEF WriterInv, WorkKnown
      <3>2. wr[w] = "accepted"
        BY <3>1 DEF WriterInv, BatchKnown
      <3> QED
        BY <3>1, <3>2 DEF WriterInv, WriteKnown
    <2>5. faults' \in 0 .. MaxWriteFaults
      BY <1>1, <2>2
    <2>6. tries' \in [Writes -> 0 .. MaxJobAttempts]
      BY <1>1, <2>2, <2>4
    <2>7. \A w \in Writes \ shed : tries'[w] # tries[w] => w \in work /\ tries'[w] < MaxJobAttempts
      BY <1>1, <2>1, <2>2, <2>4
    <2> QED
      BY <2>2, <2>3, <2>5, <2>6, <2>7, SettleKeeps
  <1> QED
    BY <1>2, <1>3, <1>4

-----------------------------------------------------------------------------
(* The writer: shutdown and deletions.                                     *)

LEMMA StopKeeps ==
  ASSUME WriterInv, StopRequest \/ StopQuit \/ Finish
  PROVE  WriterInv'
  <1> USE DEF WriterInv
  <1>1. /\ UNCHANGED <<slots, wr, lane, fnAlive, live, rows>>
        /\ UNCHANGED <<batch, backoff, work, committing, tries, deleting, faults>>
        /\ stop' \in {"requested", "quit", "done"}
        /\ stop' # "done" => UNCHANGED bytes
        /\ stop' = "done" => committing = "no" /\ bytes' = [l \in Lanes |-> 0]
        /\ stop' \in {"quit", "done"} =>
             stop \in {"quit", "draining"} \/ \A w \in Writes : wr[w] # "sending"
    BY DEF StopRequest, StopQuit, Finish, consumerVars
  <1>2. stop # "done"
    BY DEF StopRequest, StopQuit, Finish
  <1>3. \A l \in Lanes : LaneKnown(l)' /\ BatchKnown(l)'
    BY <1>1 DEF LaneKnown, BatchKnown
  <1>4. \A v \in Writes : WriteKnown(v)'
    BY <1>1 DEF WriteKnown
  <1>5. WorkKnown' /\ DeletedLeavesNothing' /\ (live => fnAlive)' /\ (stop = "done" => committing = "no")'
    BY <1>1 DEF WorkKnown, DeletedLeavesNothing
  <1>6. Balance'
    BY <1>1, <1>2 DEF Balance, Owned, Held
  <1>7. WriterTypeOK'
    <2>1. 0 \in 0 .. MaxBytes
      BY WriterAssumption
    <2>2. bytes \in [Lanes -> 0 .. MaxBytes]
      BY WriterTypes
    <2>3. bytes' \in [Lanes -> 0 .. MaxBytes]
      BY <1>1, <2>1, <2>2
    <2> QED
      BY <1>1, <2>3, WriterTypes, WriterTypesNext
  <1> QED
    BY <1>3, <1>4, <1>5, <1>6, <1>7

LEMMA DrainKeeps ==
  ASSUME WriterInv, Drain
  PROVE  WriterInv'
  <1> USE DEF WriterInv
  <1>1. /\ lane \in [Lanes -> Seq(Writes)] /\ batch \in [Lanes -> SUBSET Writes]
        /\ \A l \in Lanes : \A v \in batch[l] : Lane(v) = l
    BY WriterTypes
  <1>2. /\ stop = "quit" /\ committing = "no" /\ stop' = "draining"
        /\ \A l \in Lanes : batch'[l] = batch[l] \cup ToSet(lane[l]) /\ lane'[l] = <<>>
        /\ batch' = [l \in Lanes |-> batch[l] \cup ToSet(lane[l])] /\ lane' = [l \in Lanes |-> <<>>]
        /\ UNCHANGED <<slots, wr, bytes, backoff, work, committing, tries, fnAlive, live, rows,
                       deleting, faults>>
    BY DEF Drain
  <1>3. \A l \in Lanes : ToSet(lane'[l]) = {} /\ Len(lane'[l]) = 0
    BY <1>2 DEF ToSet
  <1>4. \A l \in Lanes : ToSet(lane[l]) \subseteq Writes /\ LaneKnown(l) /\ BatchKnown(l) /\ l # committing
    BY <1>2, SetsKnown, LaneType
  <1>5. \A l \in Lanes : LaneKnown(l)'
    BY <1>3 DEF LaneKnown
  <1>6. \A l \in Lanes : BatchKnown(l)'
    BY <1>2, <1>4 DEF LaneKnown, BatchKnown
  <1>7. \A l \in Lanes : Held(l)' = Held(l)
    <2> SUFFICES ASSUME NEW l \in Lanes PROVE Held(l)' = Held(l)
      OBVIOUS
    <2>1. ToSet(lane'[l]) \cup batch'[l] = ToSet(lane[l]) \cup batch[l]
      BY <1>2, <1>3
    <2> QED
      BY <1>2, <2>1 DEF Held
  <1>8. Balance' /\ DeletedLeavesNothing' /\ (live => fnAlive)' /\ (stop = "done" => committing = "no")'
    BY <1>2, <1>7 DEF Balance, Owned, DeletedLeavesNothing
  <1>9. WorkKnown' /\ \A v \in Writes : WriteKnown(v)'
    BY <1>2 DEF WorkKnown, WriteKnown
  <1>10. WriterTypeOK'
    <2>1. lane' \in [Lanes -> Seq(Writes)] /\ batch' \in [Lanes -> SUBSET Writes]
      <3>1. <<>> \in Seq(Writes)
        OBVIOUS
      <3> QED
        BY <1>1, <1>2, <1>4, <3>1
    <2>2. \A l \in Lanes : \A v \in batch'[l] : Lane(v) = l
      BY <1>1, <1>2, <1>4 DEF LaneKnown
    <2>3. \A l \in Lanes : Len(lane'[l]) <= Cap(l)
      BY <1>3, WriterAssumption DEF Cap
    <2> QED
      BY <1>2, <2>1, <2>2, <2>3, WriterTypes, WriterTypesNext
  <1> QED
    BY <1>5, <1>6, <1>8, <1>9, <1>10

\* Rows are only taken away, and the function's are gone with it.
LEMMA DeleteKeeps ==
  ASSUME WriterInv,
         \/ DeleteFunction \/ SweepActivity
         \/ \E w \in CriticalWrites : DeleteChildren(w) \/ DeleteExecution(w)
  PROVE  WriterInv'
  <1> USE DEF WriterInv
  <1>1. /\ UNCHANGED <<slots, wr, lane, bytes, stop, batch, backoff, work, committing, tries, faults>>
        /\ committing = "no" /\ rows' \subseteq rows
    BY DEF DeleteFunction, SweepActivity, DeleteChildren, DeleteExecution, consumerVars
  <1>2. \/ UNCHANGED <<fnAlive, live>>
        \/ fnAlive' = FALSE /\ live' = FALSE /\ rows' \cap FunctionWrites = {}
    BY DEF DeleteFunction, SweepActivity, DeleteChildren, DeleteExecution, consumerVars
  <1>3. deleting' \subseteq CriticalWrites
    BY WriterTypes DEF DeleteFunction, SweepActivity, DeleteChildren, DeleteExecution, consumerVars
  <1>4. \A l \in Lanes : LaneKnown(l)' /\ BatchKnown(l)'
    BY <1>1 DEF LaneKnown, BatchKnown
  <1>5. WorkKnown' /\ \A v \in Writes : WriteKnown(v)'
    BY <1>1 DEF WorkKnown, WriteKnown
  <1>6. Balance'
    BY <1>1 DEF Balance, Owned, Held
  <1>7. DeletedLeavesNothing' /\ (live => fnAlive)' /\ (stop = "done" => committing = "no")'
    BY <1>1, <1>2 DEF DeletedLeavesNothing
  <1>8. WriterTypeOK'
    <2>1. rows' \subseteq Writes /\ fnAlive' \in BOOLEAN /\ live' \in BOOLEAN
      BY <1>1, <1>2, WriterTypes
    <2> QED
      BY <1>1, <1>3, <2>1, WriterTypes, WriterTypesNext
  <1> QED
    BY <1>4, <1>5, <1>6, <1>7, <1>8

LEMMA WriterInvInit == WriterInit => WriterInv
  <1> SUFFICES ASSUME WriterInit PROVE WriterInv
    OBVIOUS
  <1>1. /\ slots = SlotCap /\ wr = [w \in Writes |-> "idle"]
        /\ lane = [l \in Lanes |-> <<>>] /\ bytes = [l \in Lanes |-> 0]
        /\ batch = [l \in Lanes |-> {}] /\ backoff = {} /\ work = {} /\ committing = "no"
        /\ tries = [w \in Writes |-> 0] /\ stop = "no" /\ fnAlive = TRUE /\ live \in BOOLEAN
        /\ rows = {} /\ deleting = {} /\ faults = 0
    BY DEF WriterInit, WriterStart
  <1>2. /\ SlotCap \in Nat /\ MaxBytes \in Nat /\ MaxJobAttempts \in Nat \ {0} /\ MaxWriteFaults \in Nat
        /\ \A l \in Lanes : Cap(l) \in Nat
    BY WriterAssumption DEF Cap
  <1>3. <<>> \in Seq(Writes) /\ Len(<<>>) = 0 /\ ToSet(<<>>) = {}
    BY DEF ToSet
  <1>4. WriterTypeOK
    <2>1. /\ slots \in 0 .. SlotCap /\ 0 \in 0 .. MaxBytes /\ 0 \in 0 .. MaxJobAttempts
          /\ faults \in 0 .. MaxWriteFaults
      BY <1>1, <1>2
    <2>2. wr \in [Writes -> Places] /\ tries \in [Writes -> 0 .. MaxJobAttempts]
      BY <1>1, <2>1 DEF Places
    <2>3. lane \in [Lanes -> Seq(Writes)] /\ \A l \in Lanes : Len(lane[l]) <= Cap(l)
      BY <1>1, <1>2, <1>3
    <2>4. bytes \in [Lanes -> 0 .. MaxBytes] /\ batch \in [Lanes -> SUBSET Writes]
      BY <1>1, <2>1
    <2>5. \A l \in Lanes : \A w \in batch[l] : Lane(w) = l
      BY <1>1
    <2>6. /\ backoff \subseteq Lanes /\ work \subseteq Writes /\ committing \in Lanes \cup {"no"}
          /\ stop \in {"no", "requested", "quit", "draining", "done"}
          /\ fnAlive \in BOOLEAN /\ rows \subseteq Writes /\ deleting \subseteq CriticalWrites
      BY <1>1
    <2> QED
      BY <1>1, <2>1, <2>2, <2>3, <2>4, <2>5, <2>6 DEF WriterTypeOK
  <1>5. \A l \in Lanes : LaneKnown(l) /\ BatchKnown(l)
    BY <1>1, <1>3 DEF LaneKnown, BatchKnown
  <1>6. \A w \in Writes : WriteKnown(w)
    BY <1>1, <1>2 DEF WriteKnown
  <1>7. WorkKnown /\ DeletedLeavesNothing /\ (live => fnAlive) /\ (stop = "done" => committing = "no")
    BY <1>1 DEF WorkKnown, DeletedLeavesNothing
  <1>8. Balance
    <2>1. Owned = {}
      <3>1. \A w \in CriticalWrites : wr[w] = "idle"
        BY <1>1 DEF Writes
      <3> QED
        BY <3>1 DEF Owned
    <2>2. \A l \in Lanes : Held(l) = {}
      BY <1>1, <1>3 DEF Held
    <2>3. Cardinality({}) = 0
      BY FS_EmptySet
    <2>4. slots + 0 = SlotCap
      BY <1>1, <1>2
    <2>5. slots + Cardinality(Owned) = SlotCap
      BY <2>1, <2>3, <2>4, Zenon
    <2>6. \A l \in Lanes : bytes[l] = Cardinality(Held(l))
      BY <1>1, <2>2, <2>3
    <2> QED
      BY <2>5, <2>6 DEF Balance
  <1> QED
    BY <1>4, <1>5, <1>6, <1>7, <1>8 DEF WriterInv

LEMMA WriterInvNext == WriterInv /\ [WriterNext]_writerVars => WriterInv'
  <1> SUFFICES ASSUME WriterInv, [WriterNext]_writerVars PROVE WriterInv'
    OBVIOUS
  <1>1. ASSUME NEW w \in Writes, ReserveExecution(w) \/ Cancel(w) \/ Produce(w) PROVE WriterInv'
    BY <1>1, ReserveKeeps, AsyncExecKeeps, BestEffortKeeps, SendKeeps DEF Produce
  <1>2. CASE Consume
    BY <1>2, TakeKeeps, CommitBeginKeeps, CommitKeeps, DrainKeeps, StopKeeps DEF Consume
  <1>3. CASE StopRequest \/ StopQuit
    BY <1>3, StopKeeps
  <1>4. CASE \/ DeleteFunction \/ SweepActivity
             \/ \E w \in CriticalWrites : DeleteChildren(w) \/ DeleteExecution(w)
    BY <1>4, DeleteKeeps
  <1>5. CASE UNCHANGED writerVars
    <2>1. UNCHANGED <<slots, wr, lane, bytes, batch, backoff, work, committing, tries, stop,
                      fnAlive, live, rows, deleting, faults>>
      BY <1>5 DEF writerVars
    <2> QED
      BY <2>1 DEF WriterInv, WriterTypeOK, LaneKnown, BatchKnown, WriteKnown, WorkKnown, Balance, Owned,
                  Held, DeletedLeavesNothing
  <1> QED
    BY <1>1, <1>2, <1>3, <1>4, <1>5 DEF WriterNext

\* A row on its way to the critical channel has a place of its own, so the
\* channel has room for it.
LEMMA WriterInvSafe == WriterInv => WriterSafe
  <1> SUFFICES ASSUME WriterInv PROVE WriterSafe
    OBVIOUS
  <1> USE DEF WriterInv
  <1>1. ASSUME NEW w \in CriticalWrites, wr[w] = "sending" PROVE Len(lane["critical"]) < SlotCap
    <2>1. /\ "critical" \in Lanes /\ lane["critical"] \in Seq(Writes) /\ LaneKnown("critical")
          /\ slots \in 0 .. SlotCap /\ SlotCap \in Nat
      BY WriterTypes, WriterAssumption DEF Lanes
    <2>2. PICK Q : Q = ToSet(lane["critical"])
      OBVIOUS
    <2>3. IsFiniteSet(Q) /\ Cardinality(Q) = Len(lane["critical"]) /\ Len(lane["critical"]) \in Nat
      BY <2>1, <2>2, ToSetSize, LenProperties DEF LaneKnown
    <2>4. Q \subseteq Owned
      BY <2>1, <2>2, LaneType DEF Owned, LaneKnown
    <2>5. w \in Owned /\ w \notin Q
      BY <1>1, <2>1, <2>2 DEF Owned, LaneKnown
    <2>6. Owned \subseteq Writes
      BY SetsKnown
    <2>7. IsFiniteSet(Owned) /\ Cardinality(Owned) \in Nat
      BY <2>6, WritesFinite
    <2>8. Cardinality(Q \cup {w}) = Cardinality(Q) + 1
      BY <2>3, <2>5, FS_AddElement
    <2>9. Cardinality(Q \cup {w}) <= Cardinality(Owned)
      BY <2>4, <2>5, <2>7, FS_Subset
    <2>10. slots + Cardinality(Owned) = SlotCap
      BY DEF Balance
    <2> QED
      BY <2>1, <2>3, <2>7, <2>8, <2>9, <2>10
  <1> QED
    BY <1>1 DEF WriterSafe, LeasesBalance, Balance

\* The types of the writer's state, for any number of writes and any bounds.
THEOREM WriterStateTypes == WriterSpec => []WriterTypeOK
  <1>1. WriterInv => WriterTypeOK
    BY DEF WriterInv
  <1> QED
    BY <1>1, WriterInvInit, WriterInvNext, PTL DEF WriterSpec

\* The places of criticalSlots and the byte counters add up at every step of
\* the producers, of the consumer with its retries and discards, and of the
\* shutdown; a row that holds a place finds room in the channel; and no batch
\* stores a row of a deleted function.
THEOREM WriterBalances == WriterSpec => []WriterSafe
  BY WriterInvInit, WriterInvNext, WriterInvSafe, PTL DEF WriterSpec

=============================================================================
