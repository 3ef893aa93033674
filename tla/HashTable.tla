----------------------------- MODULE HashTable -----------------------------
(***************************************************************************)
(* kernel/index/hash_table: MurMurHashTable, a chained hash table laid out *)
(* in an MMapPool.                                                         *)
(*                                                                         *)
(* The raw buckets 0 .. BucketNum-1 follow the header; overflow buckets    *)
(* are allocated from the pool one at a time and named by their distance   *)
(* from the first bucket.  A bucket's next is an overflow bucket or, at    *)
(* the end of a chain, the number of a raw one.  A key is identified with  *)
(* what a bucket records of it (length, hash codes or the bytes            *)
(* themselves); values are those that fit the 48-bit field.  The pool is   *)
(* its free list for this block size and the delayed frees in front of it  *)
(* (FilePool models it in full).                                           *)
(***************************************************************************)
EXTENDS Integers, Sequences, FiniteSets, Bags, SequencesExt

CONSTANTS Keys, Values,
          Wanted,      \* the argument of SetBucketNum
          Hash,        \* the raw bucket of a key: hash & (bucket_num_ - 1)
          MaxBuckets,  \* bound: buckets that fit in the pool's file
          FreeListModes, \* what use_free_list_ of the pool may be
          NoKey        \* the key of a cleared bucket

\* SetBucketNum: the least power of two that is no less, at least 2 and at most 2^31.
BucketNum == 2 ^ (CHOOSE i \in 1 .. 31 : /\ i = 31 \/ 2 ^ i >= Wanted
                                         /\ \A j \in 1 .. i - 1 : 2 ^ j < Wanted)

Raw == 0 .. BucketNum - 1
Bucket == 0 .. MaxBuckets - 1

ASSUME TableAssumption ==
    /\ Wanted \in Nat /\ MaxBuckets \in Nat /\ MaxBuckets >= BucketNum
    /\ Hash \in [Keys -> Raw]
    /\ FreeListModes \subseteq BOOLEAN
    /\ NoKey \notin Keys
    /\ Values \subseteq Nat  \* -1 is what Search returns for an absent key

VARIABLES bucket,   \* the buckets: [occupied, key, value, next]
          brk,      \* the next bucket the pool carves off its file
          useFreeList, \* use_free_list_ of the pool, set when it is made
          restarted, \* bound: the file is opened a second time, and no more
          delayed,  \* bag of freed buckets whose reuse_timegap_ has not passed
          free,     \* bag of the buckets in the pool's free list
          usedSize, \* header_->used_size
          rawFreed  \* history: a raw bucket has been given to a pool that reuses blocks

pool == <<useFreeList, restarted>>
vars == <<bucket, brk, pool, delayed, free, usedSize, rawFreed>>

Cleared == [occupied |-> FALSE, key |-> NoKey, value |-> 0, next |-> 0]

-----------------------------------------------------------------------------
(* Chains *)

\* The buckets from b on, as the walks of the code visit them.
Walk(b) ==
    LET w[n \in 1 .. MaxBuckets] == [c \in Bucket |->
          IF bucket[c].next >= BucketNum /\ n > 1
          THEN <<c>> \o w[n - 1][bucket[c].next]
          ELSE <<c>>]
    IN  w[MaxBuckets][b]

Holds(b, k) == bucket[b].occupied /\ bucket[b].key = k

\* No bucket: nullptr, and the element of End().
Null == -1

\* GetBucketByKey without create: the first bucket of k's chain that holds k.
Hit(k) ==
    LET at[n \in 1 .. MaxBuckets] == [c \in Bucket |->
          IF Holds(c, k) THEN c
          ELSE IF bucket[c].next >= BucketNum /\ n > 1 THEN at[n - 1][bucket[c].next]
          ELSE Null]
    IN  at[MaxBuckets][Hash[k]]

Found == {k \in Keys : Hit(k) # Null}

\* Search: the value in that bucket; -1, and false, when there is none.
Search(k) == LET b == Hit(k) IN IF b = Null THEN -1 ELSE bucket[b].value

-----------------------------------------------------------------------------
(* The pool: Alloc(sizeof(HashBucket)) and Free *)

Alloc(b) ==
    /\ b \in Bucket
    /\ IF useFreeList /\ BagToSet(free) # {}
       THEN /\ b \in BagToSet(free) /\ \A c \in BagToSet(free) : c <= b
            /\ free' = free (-) SetToBag({b})
            /\ brk' = brk
       ELSE /\ b = brk
            /\ brk' = brk + 1
            /\ free' = free

\* A disabled free list drops the block when the delay is over.
Free(b) ==
    /\ delayed' = IF useFreeList THEN delayed (+) SetToBag({b}) ELSE delayed
    /\ rawFreed' = (rawFreed \/ (useFreeList /\ b \in Raw))

DelayedFree(b) ==
    /\ BagIn(b, delayed)
    /\ delayed' = delayed (-) SetToBag({b})
    /\ free' = free (+) SetToBag({b})
    /\ UNCHANGED <<bucket, brk, pool, usedSize, rawFreed>>

\* The pool is released, or just gone (its process has died, or it was destroyed), and
\* another one is opened on its file, with the table loaded from the mapping.  Release
\* waits for the delayed frees and dumps the free list, the other ways lose it.
Restart(released, use) ==
    /\ ~restarted /\ restarted' = TRUE
    /\ free' = IF released THEN free (+) delayed ELSE EmptyBag
    /\ delayed' = EmptyBag
    /\ useFreeList' = use
    /\ UNCHANGED <<bucket, brk, usedSize, rawFreed>>

-----------------------------------------------------------------------------
(* Insert *)

SetValue(k, v) ==
    /\ bucket' = [bucket EXCEPT ![Hit(k)].value = v]
    /\ UNCHANGED <<brk, free, usedSize>>

\* Mutant: the chain behind the raw bucket is cut off.
FillRawCut(k, v) ==
    /\ bucket' = [bucket EXCEPT ![Hash[k]] =
                    [occupied |-> TRUE, key |-> k, value |-> v, next |-> 0]]
    /\ usedSize' = usedSize + 1
    /\ UNCHANGED <<brk, free>>

\* A raw bucket that is not occupied is filled; it keeps its chain.
FillRaw(k, v) ==
    /\ bucket' = [bucket EXCEPT ![Hash[k]] =
                    [occupied |-> TRUE, key |-> k, value |-> v, next |-> @.next]]
    /\ usedSize' = usedSize + 1
    /\ UNCHANGED <<brk, free>>

\* A new overflow bucket: its key is set, it is linked at the end, and its own next is
\* the raw bucket; then the value, and occupied last.
AppendBucket(k, v) ==
    LET raw == Hash[k]
        last == Last(Walk(raw))
    IN  \E b \in Bucket :
          /\ Alloc(b)
          /\ bucket' = [bucket EXCEPT ![b].key = k, ![last].next = b, ![b].next = raw,
                                      ![b].value = v, ![b].occupied = TRUE]
          /\ usedSize' = IF bucket[b].occupied THEN usedSize ELSE usedSize + 1

Insert(k, v) ==
    /\ IF k \in Found THEN SetValue(k, v)
       ELSE IF ~bucket[Hash[k]].occupied THEN FillRaw(k, v) ELSE AppendBucket(k, v)
    /\ UNCHANGED <<delayed, pool, rawFreed>>

-----------------------------------------------------------------------------
(* Delete *)

\* A raw bucket takes the contents of the second of its chain, which is freed; the last
\* of its chain is cleared, and freed although it belongs to the table.
DeleteRaw(b) ==
    LET second == bucket[b].next IN
    IF second >= BucketNum
    THEN /\ bucket' = [bucket EXCEPT ![b] = bucket[second], ![second] = Cleared]
         /\ Free(second)
    ELSE bucket' = [bucket EXCEPT ![b] = Cleared] /\ Free(b)

\* Mutant: an overflow bucket is freed although its chain still leads to it.
DeleteOverflowFrees(b) ==
    /\ bucket' = [bucket EXCEPT ![b].occupied = FALSE]
    /\ Free(b)

\* An overflow bucket stays in its chain.
DeleteOverflow(b) ==
    /\ bucket' = [bucket EXCEPT ![b].occupied = FALSE]
    /\ UNCHANGED <<delayed, rawFreed>>

\* Delete of an absent key returns true and does nothing.
Delete(k) ==
    /\ k \in Found
    /\ IF Hit(k) \in Raw THEN DeleteRaw(Hit(k)) ELSE DeleteOverflow(Hit(k))
    /\ usedSize' = usedSize - 1
    /\ UNCHANGED <<brk, pool, free>>

-----------------------------------------------------------------------------
(* Iteration *)

\* The raw bucket GetNextElement comes back to from a chain.
Home(b) == LET last == Last(Walk(b)) IN IF last \in Raw THEN last ELSE bucket[last].next

\* The places of the occupied buckets from b to the end of its chain.
Occupied(b) == LET w == Walk(b) IN {n \in DOMAIN w : bucket[w[n]].occupied}

\* Mutant: the rest of the chain is skipped.
NextRawOnly(b) ==
    LET later == {r \in Raw : r > Home(b) /\ Occupied(r) # {}}
        next == Min(later)
    IN  IF b # Null /\ later # {} THEN Walk(next)[Min(Occupied(next))] ELSE Null

\* GetNextElement: the next occupied bucket of the chain, or the first of the next chain
\* that has one.  From End(), Null, it goes nowhere.
NextElement(b) ==
    LET rest == Occupied(b) \ {1}
        later == {r \in Raw : r > Home(b) /\ Occupied(r) # {}}
        next == Min(later)
    IN  IF b = Null THEN Null
        ELSE IF rest # {} THEN Walk(b)[Min(rest)]
        ELSE IF later # {} THEN Walk(next)[Min(Occupied(next))]
        ELSE Null

Begin == IF usedSize = 0 THEN Null ELSE IF bucket[0].occupied THEN 0 ELSE NextElement(0)

\* for (it = Begin(); it != End(); it++): the n-th value of it.
Iteration ==
    LET it[n \in 1 .. MaxBuckets + 1] ==
          IF n = 1 THEN Begin ELSE NextElement(it[n - 1])
    IN  it

-----------------------------------------------------------------------------
Init ==
    /\ bucket = [b \in Bucket |-> Cleared]
    /\ brk = BucketNum
    /\ useFreeList \in FreeListModes
    /\ delayed = EmptyBag /\ free = EmptyBag
    /\ usedSize = 0
    /\ restarted = FALSE /\ rawFreed = FALSE

Next ==
    \/ \E k \in Keys, v \in Values : Insert(k, v)
    \/ \E k \in Keys : Delete(k)
    \/ \E b \in Bucket : DelayedFree(b)
    \/ \E released \in BOOLEAN, use \in FreeListModes : Restart(released, use)

Spec == Init /\ [][Next]_vars

-----------------------------------------------------------------------------
(* Properties *)

\* No bucket is in two chains, no chain runs into itself, and what is occupied is
\* occupied by a key of that chain (SetNextBucket in Insert, the copy in Delete).
ChainsApart ==
    /\ \A r \in Raw : LET w == Walk(r) IN
          /\ IsInjective(w)
          /\ \A i \in DOMAIN w : bucket[w[i]].occupied => Hash[bucket[w[i]].key] = r
    /\ \A r, s \in Raw : r # s => Range(Walk(r)) \cap Range(Walk(s)) = {}

\* Chains stay apart and overflow buckets are recycled safely: what is free or about to be
\* is there once and in no chain.  Only the raw bucket that Delete gives to a pool with a
\* free list, when it is alone in its chain, breaks this (Delete, Alloc of an overflow
\* bucket).
Lent == delayed (+) free
RecycledApart ==
    ~rawFreed => /\ ChainsApart
                 /\ \A b \in BagToSet(Lent) : Lent[b] = 1
                 /\ \A r \in Raw : Range(Walk(r)) \cap BagToSet(Lent) = {}

\* A full iteration meets every key that Search finds, once, and nothing else; so a
\* rebuild from an iteration loses and repeats nothing (Begin, GetNextElement).
IterationComplete ==
    LET it == Iteration
        met == {n \in DOMAIN it : it[n] # Null}
    IN  /\ Cardinality(met) = Cardinality(Found)
        /\ {bucket[it[n]].key : n \in met} = Found

\* The table is a map and GetSize its size, through collisions, overwrites, deletions
\* out of every place of a chain, re-insertions, and a restart between any two calls
\* (tests IteratorTest and CheckWhileHashCrash).
Index == INSTANCE KvIndex WITH map <- [k \in Keys |-> Search(k)], size <- usedSize, Absent <- -1
RefinesIndex == Index!Spec

=============================================================================
