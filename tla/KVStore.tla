------------------------------ MODULE KVStore ------------------------------
(***************************************************************************)
(* One function's namespace of the key-value store (database/kv.go), as    *)
(* its SDK (handlers/kv.go), an operator (kv_operator.go) and MCP clients  *)
(* (mcp/tools_kv.go) use it, with the scheduler's sweep of expired rows.   *)
(*                                                                         *)
(* A row that has expired stays in the table until a sweep or a write; the *)
(* operations look through it.  Every operation is one statement or one    *)
(* transaction of the single write connection, but KVPut takes its time    *)
(* before it waits for that connection.  Time is a counter; 0 as an expiry *)
(* is SQL's NULL.  Keys are numbers in key order, a value is an integer    *)
(* that wraps, a text, or the lone minus sign fmtIntStr makes of the       *)
(* smallest integer.  Calls refused by a Validate function change nothing. *)
(***************************************************************************)
EXTENDS Integers, FiniteSets

CONSTANTS
    KVKeys,      \* keys of the namespace, as numbers in key order
    KVCallers,   \* callers that may have a put waiting for the connection
    HalfRange,   \* half the integers there are: 2^63 for an int64
    PageLimit,   \* rows of a page
    MaxKVNow     \* bound on the clock

ASSUME KVAssumption ==
    /\ KVKeys \subseteq Nat \ {0} /\ IsFiniteSet(KVKeys)
    /\ HalfRange \in Nat \ {0, 1} /\ PageLimit \in Nat \ {0} /\ MaxKVNow \in Nat \ {0}

VARIABLES
    kv,       \* kv_store: the rows of the function, expired ones included
    kvFn,     \* the function exists
    kvNow,    \* time.Now()
    putting,  \* puts that have taken their time and wait to write
    pager,    \* a client walking the pages of a list
    did,      \* ghost: the operation that was just answered with success
    walks,    \* whether somebody lists
    steady    \* ghost: keys listed ever since the walk began

kvVars == <<kv, kvFn, kvNow, putting, pager, did, walks, steady>>

Lowest == -HalfRange
Int64 == Lowest .. (HalfRange - 1)
JsonInt(n) == [kind |-> "int", n |-> n]
Text == [kind |-> "text", n |-> 0]
Minus == [kind |-> "minus", n |-> 0]
KVValues == {JsonInt(n) : n \in Int64} \cup {Text, Minus}

NoTTL == -1
KVTTLs == {NoTTL, 0, 1}
KVDeltas == {-1, 0, 1}

NoRow == [there |-> FALSE, val |-> Text, exp |-> 0]
Row(v, e) == [there |-> TRUE, val |-> v, exp |-> e]
IdlePut == [on |-> FALSE, key |-> 0, val |-> Text, ttl |-> 0, at |-> 0]
IdlePager == [on |-> FALSE, cursor |-> 0, seen |-> {}]

\* The keys this run uses.
UsedKeys == DOMAIN kv

KVTypeOK ==
    /\ UsedKeys \subseteq KVKeys
    /\ kv \in [UsedKeys -> [there : BOOLEAN, val : KVValues, exp : 0 .. MaxKVNow + 1]]
    /\ kvFn \in BOOLEAN
    /\ kvNow \in 1 .. MaxKVNow
    /\ DOMAIN putting \subseteq KVCallers /\ walks \in BOOLEAN
    /\ did \in {"none", "put", "late put", "delete", "incr", "swap", "batch", "clear"}
    /\ putting \in [DOMAIN putting -> [on : BOOLEAN, key : KVKeys \cup {0}, val : KVValues,
                                       ttl : KVTTLs, at : 0 .. MaxKVNow]]
    /\ pager \in [on : BOOLEAN, cursor : KVKeys \cup {0}, seen : SUBSET KVKeys]
    /\ steady \subseteq KVKeys

KVStart(keys, callers, mayWalk) ==
    /\ kv = [k \in keys |-> NoRow]
    /\ kvFn = TRUE
    /\ kvNow = 1
    /\ putting = [c \in callers |-> IdlePut]
    /\ pager = IdlePager
    /\ did = "none"
    /\ walks = mayWalk
    /\ steady = {}

KVInit == KVStart(KVKeys, KVCallers, TRUE)

-----------------------------------------------------------------------------
(* Integers and expiry.                                                    *)

\* int64 addition.
Wrap(n) == ((n - Lowest) % (2 * HalfRange)) + Lowest

\* fmtIntStr negates a negative number before it writes the digits; the
\* smallest one stays negative and gets none.
FmtIntStr(n) == IF n = Lowest THEN Minus ELSE JsonInt(n)

\* fmtInt, on the stored bytes.
IsInteger(v) == v.kind = "int"

\* KVGet, KVIncr and KVCAS: the row is there and its expiry not before now.
Present(row) == row.there /\ (row.exp = 0 \/ ~(row.exp < kvNow))

\* KVList, KVCount and the pages: expires_at IS NULL OR expires_at > now.
Listed == {k \in UsedKeys : kv[k].there /\ (kv[k].exp = 0 \/ kv[k].exp > kvNow)}

\* The expires_at KVIncr and KVCAS write: a TTL sets it, none keeps it.
WriteExpiry(row, ttl) ==
    IF ttl > 0 THEN kvNow + ttl
    ELSE IF ttl = NoTTL /\ Present(row) THEN row.exp
    ELSE 0

-----------------------------------------------------------------------------
(* The operations of database/kv.go.                                       *)

\* Mutant of Upserted: the conflict clause keeps an expiry that has passed.
UpsertKeepsExpiry(row, v, ttl, at) ==
    Row(v, IF ttl # NoTTL \/ ~row.there THEN (IF ttl > 0 THEN at + ttl ELSE 0) ELSE row.exp)

\* INSERT ... ON CONFLICT DO UPDATE, by a call whose clock read at.
Upserted(row, v, ttl, at) ==
    Row(v, IF ttl # NoTTL \/ ~row.there THEN (IF ttl > 0 THEN at + ttl ELSE 0)
           ELSE IF row.exp # 0 /\ row.exp <= at THEN 0
           ELSE row.exp)

\* KVPutContext up to the statement: the time is taken.
KVPutCall(c, k, v, ttl) ==
    /\ ~putting[c].on
    /\ putting' = [putting EXCEPT ![c] = [on |-> TRUE, key |-> k, val |-> v, ttl |-> ttl,
                                          at |-> kvNow]]
    /\ did' = "none"
    /\ UNCHANGED <<kv, kvFn, kvNow, pager>>

\* The statement; the foreign key refuses it once the function is gone.
KVPut(c) ==
    /\ putting[c].on
    /\ LET p == putting[c] IN
       kv' = IF kvFn THEN [kv EXCEPT ![p.key] = Upserted(@, p.val, p.ttl, p.at)] ELSE kv
    /\ putting' = [putting EXCEPT ![c] = IdlePut]
    /\ did' = IF ~kvFn THEN "none" ELSE IF putting[c].at < kvNow THEN "late put" ELSE "put"
    /\ UNCHANGED <<kvFn, kvNow, pager>>

\* A call that gives up while it waits (the request's context ends).
KVPutCancelled(c) ==
    /\ putting[c].on
    /\ putting' = [putting EXCEPT ![c] = IdlePut]
    /\ did' = "none"
    /\ UNCHANGED <<kv, kvFn, kvNow, pager>>

KVDelete(k) ==
    /\ kv' = [kv EXCEPT ![k] = NoRow]
    /\ did' = "delete"
    /\ UNCHANGED <<kvFn, kvNow, putting, pager>>

\* KVIncrContext: one transaction; an expired row counts from zero.
KVIncr(k, delta, ttl) ==
    /\ kvFn
    /\ Present(kv[k]) => IsInteger(kv[k].val)
    /\ LET current == IF Present(kv[k]) THEN kv[k].val.n ELSE 0 IN
       kv' = [kv EXCEPT ![k] = Row(FmtIntStr(Wrap(current + delta)), WriteExpiry(@, ttl))]
    /\ did' = "incr"
    /\ UNCHANGED <<kvFn, kvNow, putting, pager>>

\* KVCASContext where the precondition holds: an insert where nothing is
\* present, or a swap of the expected value.
KVCASInsert(k, new, ttl) ==
    /\ kvFn
    /\ ~Present(kv[k])
    /\ kv' = [kv EXCEPT ![k] = Row(new, WriteExpiry(@, ttl))]
    /\ did' = "swap"
    /\ UNCHANGED <<kvFn, kvNow, putting, pager>>

KVCASSwap(k, expected, new, ttl) ==
    /\ Present(kv[k]) /\ kv[k].val = expected
    /\ kv' = [kv EXCEPT ![k] = Row(new, WriteExpiry(@, ttl))]
    /\ did' = "swap"
    /\ UNCHANGED <<kvFn, kvNow, putting, pager>>

\* One operation of a batch on the rows of the transaction (a get changes none).
BatchOp(rows, op) ==
    CASE op.op = "put" -> [rows EXCEPT ![op.key] = Upserted(@, Text, op.ttl, kvNow)]
      [] op.op = "delete" -> [rows EXCEPT ![op.key] = NoRow]

\* KVBatchContext: all operations or, when one fails, none.
KVBatch(first, second) ==
    /\ kvFn
    /\ kv' = BatchOp(BatchOp(kv, first), second)
    /\ did' = "batch"
    /\ UNCHANGED <<kvFn, kvNow, putting, pager>>

\* KVSweepExpired, from the scheduler's kvSweepOnce.
KVSweepExpired ==
    /\ kv' = [k \in UsedKeys |-> IF kv[k].exp # 0 /\ kv[k].exp <= kvNow THEN NoRow ELSE kv[k]]
    /\ did' = "none"
    /\ UNCHANGED <<kvFn, kvNow, putting, pager>>

\* Mutant of NextCursor: the cursor is the row the page leaves out.
NextCursorProbe(after) ==
    IF Cardinality(after) > PageLimit
    THEN CHOOSE k \in after : Cardinality({j \in after : j < k}) = PageLimit ELSE 0

\* KVListWithCursor asks for one row more than the page holds; if it gets
\* it, the cursor is the last key of the page.
NextCursor(after) ==
    IF Cardinality(after) > PageLimit
    THEN CHOOSE k \in after : Cardinality({j \in after : j < k}) = PageLimit - 1 ELSE 0

\* One page: the first PageLimit listed keys after the cursor.
Remaining == {k \in Listed : k > pager.cursor}
Page == {k \in Remaining : Cardinality({j \in Remaining : j < k}) < PageLimit}

KVListWithCursor ==
    /\ walks
    /\ pager' = IF NextCursor(Remaining) = 0 THEN IdlePager
                ELSE [on |-> TRUE, cursor |-> NextCursor(Remaining),
                      seen |-> pager.seen \cup Page]
    /\ did' = "none"
    /\ UNCHANGED <<kv, kvFn, kvNow, putting>>

\* The rows go with the function (ON DELETE CASCADE).
KVCascade ==
    /\ kvFn
    /\ kvFn' = FALSE
    /\ kv' = [k \in UsedKeys |-> NoRow]
    /\ did' = "clear"
    /\ UNCHANGED <<kvNow, putting, pager>>

KVClock ==
    /\ kvNow < MaxKVNow
    /\ kvNow' = kvNow + 1
    /\ did' = "none"
    /\ UNCHANGED <<kv, kvFn, putting, pager>>

-----------------------------------------------------------------------------
(* Who calls them.  The SDK holds a credential for this very function, the *)
(* operator and MCP resolve the function first; an operation on a function *)
(* that is gone is refused there, or by the foreign key.                   *)

SdkPut(c, k, ttl) == KVPutCall(c, k, JsonInt(0), ttl)
OperatorPut(c, k, ttl) == kvFn /\ KVPutCall(c, k, JsonInt(1), ttl)
kv_put(c, k, ttl) == kvFn /\ KVPutCall(c, k, Text, ttl)

SdkDelete(k) == KVDelete(k)
OperatorDelete(k) == kvFn /\ KVDelete(k)
kv_delete(k) == kvFn /\ KVDelete(k)

SdkIncr(k, d, ttl) == KVIncr(k, d, ttl)
OperatorIncr(k, d, ttl) == KVIncr(k, d, ttl)
kv_incr(k, d, ttl) == KVIncr(k, IF d = 0 THEN 1 ELSE d, ttl)   \* 0 means omitted

\* A null expected asks for an insert; MCP's expected is never null.
SdkCAS(k, ttl) == KVCASInsert(k, Text, ttl)
                    \/ KVCASSwap(k, JsonInt(0), JsonInt(1), ttl)
OperatorCAS(k, ttl) == KVCASInsert(k, JsonInt(1), ttl)
                         \/ KVCASSwap(k, Text, JsonInt(0), ttl)
kv_cas(k, ttl) == KVCASSwap(k, Text, JsonInt(1), ttl)

BatchOps == [op : {"put", "delete"}, key : UsedKeys, ttl : {NoTTL}]
SdkBatch == \E first, second \in BatchOps : KVBatch(first, second)

SdkList == KVListWithCursor
OperatorList == kvFn /\ KVListWithCursor
kv_list == kvFn /\ KVListWithCursor

KVWrites ==
    \/ \E k \in UsedKeys :
          \/ SdkDelete(k) \/ OperatorDelete(k) \/ kv_delete(k)
          \/ \E ttl \in KVTTLs :
                \/ SdkCAS(k, ttl) \/ OperatorCAS(k, ttl) \/ kv_cas(k, ttl)
                \/ \E c \in DOMAIN putting :
                      SdkPut(c, k, ttl) \/ OperatorPut(c, k, ttl) \/ kv_put(c, k, ttl)
                \/ OperatorIncr(k, 1, ttl) \/ kv_incr(k, 0, ttl)
                \/ \E d \in KVDeltas : SdkIncr(k, d, ttl)
    \/ \E c \in DOMAIN putting : KVPut(c) \/ KVPutCancelled(c)
    \/ SdkBatch \/ KVSweepExpired \/ KVCascade

KVReads == SdkList \/ OperatorList \/ kv_list

\* The ghost follows what is listed, from the first page on.
KVNext ==
    /\ KVWrites \/ KVReads \/ KVClock
    /\ steady' = IF ~pager'.on THEN {} ELSE Listed' \cap (IF pager.on THEN steady ELSE UsedKeys)
    /\ UNCHANGED walks

KVSpec == KVInit /\ [][KVNext]_kvVars

-----------------------------------------------------------------------------
(* Properties.                                                             *)

\* KVGetContext: what a caller sees of a row.
KVGet(k) == IF k \in UsedKeys /\ Present(kv[k]) THEN kv[k]
               ELSE [there |-> FALSE]

\* The value KVIncr stores for a delta.
Increased(v, d) == FmtIntStr(Wrap(v.n + d))

TheMap == INSTANCE ExpiringMap WITH
    map <- [k \in KVKeys |-> KVGet(k)], time <- kvNow,
    MapKeys <- KVKeys, MapValues <- KVValues, MapTTLs <- KVTTLs, MapDeltas <- KVDeltas,
    KeepTTL <- NoTTL, Zero <- JsonInt(0), Number <- IsInteger, Add <- Increased

\* The store is the expiring map: rows that wait for a sweep never show, are
\* never counted on and never lend their expiry to a new value, whichever
\* operation meets them first and however long a put waited to write.
KVIsExpiringMap == TheMap!MapSpec

\* A client that walks the pages of kv list to the end has been shown every
\* key that was listed all the time, whatever others insert, delete or let
\* expire between two pages.
PagesComplete ==
    [][pager.on /\ ~pager'.on => steady \subseteq pager.seen \cup Page]_kvVars
=============================================================================
