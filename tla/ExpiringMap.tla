---------------------------- MODULE ExpiringMap ----------------------------
(***************************************************************************)
(* What the key-value store promises a function: a map whose entries go    *)
(* away by themselves.  An entry is there until its expiry has passed; in  *)
(* the instant of the expiry itself it may be there or not.  A write       *)
(* without a TTL keeps the expiry of the entry it replaces, a TTL of zero  *)
(* clears it, a positive one sets it from the moment of the call.          *)
(***************************************************************************)
EXTENDS Integers

CONSTANTS MapKeys, MapValues, MapTTLs, MapDeltas,
          KeepTTL,           \* the TTL of a write that names none
          Zero,              \* what an increment of no entry starts from
          Number(_),         \* the value is an integer
          Add(_, _)          \* the value after an increment

VARIABLES map, time,
          did     \* the operation that was just answered with success

mapVars == <<map, time, did>>

Gone == [there |-> FALSE]
Entry(v, e) == [there |-> TRUE, val |-> v, exp |-> e]

\* An entry whose expiry has passed is no entry.
Alive(v, e) == IF e = 0 \/ e >= time THEN Entry(v, e) ELSE Gone

\* The expiry after a write with this TTL by a call made at time t.
Expiry(m, ttl, t) ==
    IF ttl # KeepTTL THEN {IF ttl = 0 THEN 0 ELSE t + ttl}
    ELSE IF ~m.there THEN {0}
    ELSE IF m.exp = time THEN {0, m.exp}
    ELSE {m.exp}

MapInit == map = [k \in MapKeys |-> Gone] /\ time = 1 /\ did = "none"

\* Entries after a put on m by a call made at time t.  Only a call that
\* waited while its key expired may find its value expired with the key.
AfterPut(m, v, ttl, t) ==
    {Alive(v, e) : e \in Expiry(m, ttl, t)}
        \cup (IF ttl = KeepTTL /\ ~m.there /\ t < time THEN {Gone} ELSE {})

MapPut(k, t) == \E v \in MapValues, ttl \in MapTTLs :
                   \E e \in AfterPut(map[k], v, ttl, t) : map' = [map EXCEPT ![k] = e]

MapDelete(k) == map' = [map EXCEPT ![k] = Gone]

\* An increment starts at zero when the key is not there.
MapIncr(k) == \E d \in MapDeltas, ttl \in MapTTLs :
    \E e \in Expiry(map[k], ttl, time) :
        /\ map[k].there => Number(map[k].val)
        /\ map' = [map EXCEPT ![k] = Alive(Add(IF map[k].there THEN map[k].val
                                               ELSE Zero, d), e)]

\* A swap on the value that is there, or an insert where there is none.
MapSwap(k) == \E v \in MapValues, ttl \in MapTTLs :
    \E e \in Expiry(map[k], ttl, time) : map' = [map EXCEPT ![k] = Alive(v, e)]

\* Several puts and deletes at once.
MapBatch == \A k \in MapKeys :
    \/ map'[k] \in {Gone, map[k]}
    \/ \E v \in MapValues, ttl \in MapTTLs, m \in {Gone, map[k]} :
          map'[k] \in AfterPut(m, v, ttl, time)

\* Time passes and takes the expired entries with it; in its last instant
\* an entry may go at any moment.
MapTick == /\ time' = time + 1
           /\ map' = [k \in MapKeys |-> IF map[k].there /\ map[k].exp # 0 /\ map[k].exp < time'
                                        THEN Gone ELSE map[k]]

MapExpire == \E K \in SUBSET {k \in MapKeys : map[k].there /\ map[k].exp = time} :
                map' = [k \in MapKeys |-> IF k \in K THEN Gone ELSE map[k]]

\* The function and with it the whole map are deleted.
MapClear == map' = [k \in MapKeys |-> Gone]

MapNext ==
    \/ MapTick /\ did' = "none"
    \/ /\ UNCHANGED time
       /\ \/ did' = "none" /\ MapExpire
          \/ did' = "clear" /\ MapClear
          \/ did' = "batch" /\ MapBatch
          \/ \E k \in MapKeys : \/ did' = "put" /\ MapPut(k, time)
                                \/ did' = "late put" /\ \E t \in 1 .. time - 1 : MapPut(k, t)
                                \/ did' = "delete" /\ MapDelete(k)
                                \/ did' = "incr" /\ MapIncr(k)
                                \/ did' = "swap" /\ MapSwap(k)

MapSpec == MapInit /\ [][MapNext]_mapVars
=============================================================================
