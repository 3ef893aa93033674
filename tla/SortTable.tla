----------------------------- MODULE SortTable -----------------------------
(***************************************************************************)
(* kernel/index/sort_table: SortTable, an index kept as one array of       *)
(* records sorted by key.                                                  *)
(*                                                                         *)
(* A full table of type SHARED moves to a new block of twice the size, one *)
(* of type EXCLUSIVE grows where it lies; its block is taken to be the     *)
(* last of its pool and the pool to be able to grow.  Keys are what        *)
(* GetHashKey makes of them.  Every operation starts with                  *)
(* SimdBinarySearch, which SimdSearch models and proves right; here it is  *)
(* its contract.  The merge loops of BatchInsert and BatchDelete, which    *)
(* work in place, are modelled step by step.                               *)
(***************************************************************************)
EXTENDS Integers, Sequences, FiniteSets, SequencesExt

CONSTANTS Keys, Values,
          InitRecordNums, \* what SetInitRecordNum may have been given
          Types,          \* what type_ may be
          MaxBatch,       \* bound: length of a batch
          Absent          \* the value of a key that is not in the table

ASSUME SortAssumption ==
    /\ Keys \subseteq Int /\ Values \subseteq Int
    /\ InitRecordNums \subseteq Nat /\ MaxBatch \in Nat
    /\ Types \subseteq {"SHARED", "EXCLUSIVE"}
    /\ Absent \notin Values

Record == [key : Keys, value : Values]

VARIABLES type,   \* type_
          recs,   \* first_[0 .. used_size - 1], from 1 on
          total,  \* header_->total_size
          alive,  \* the process has not written through a null pointer
          dict    \* history: the map the calls made so far stand for

vars == <<type, recs, total, alive, dict>>

-----------------------------------------------------------------------------
(* Search and Insert *)

\* SimdBinarySearch: pos + 1, the number of records with a smaller key.
Before(k) == Cardinality({i \in DOMAIN recs : recs[i].key < k})
At(k) == {i \in DOMAIN recs : recs[i].key = k}

Lookup(s, k) == LET at == {i \in DOMAIN s : s[i].key = k}
                IN  IF at = {} THEN Absent ELSE s[CHOOSE i \in at : TRUE].value
Search(k) == Lookup(recs, k)

Keep(k, v) == dict' = [dict EXCEPT ![k] = v]

\* Mutant: the new record goes in front of the nearest smaller one.
AddOneEarly(k, v) ==
    recs' = InsertAt(recs, IF Before(k) > 0 THEN Before(k) ELSE 1, [key |-> k, value |-> v])

\* DirectlyAdd: the records behind pos move up by one.
Add(k, v) == recs' = InsertAt(recs, Before(k) + 1, [key |-> k, value |-> v])

\* Mutant: an off-by-one in the comparison of total_size and used_size.
GrowLate == IF Len(recs) <= total THEN total' = total
            ELSE total' = IF type = "EXCLUSIVE" THEN 2 * total ELSE 2 * total + 1

\* A full table grows: ExpandAdd doubles total_size in place; AllocAdd doubles the block,
\* header included, and copies.
Grow == IF Len(recs) < total THEN total' = total
        ELSE total' = IF type = "EXCLUSIVE" THEN 2 * total ELSE 2 * total + 1

Insert(k, v) ==
    /\ IF At(k) # {}
       THEN /\ recs' = [i \in DOMAIN recs |->
                          IF i \in At(k) THEN [key |-> k, value |-> v] ELSE recs[i]]
            /\ total' = total
       ELSE Add(k, v) /\ Grow
    /\ Keep(k, v)
    /\ UNCHANGED <<type, alive>>

\* AllocAdd: the pool has no room, nothing changes and Insert returns false.
InsertFails(k) ==
    /\ At(k) = {} /\ Len(recs) = total /\ type = "SHARED"
    /\ UNCHANGED vars

\* Delete has its test the wrong way round: a record that is found is left alone and
\* false returned; for one that is not, the shift starts at a null pointer.
Delete(k) ==
    /\ alive' = (At(k) # {})
    /\ UNCHANGED <<type, recs, total, dict>>

-----------------------------------------------------------------------------
(* BatchInsert *)

\* A sorted batch of distinct keys.
Batch == {b \in UNION {[1 .. n -> Record] : n \in 1 .. MaxBatch} :
             \A i, j \in 1 .. Len(b) : i < j => b[i].key < b[j].key}

\* kv_index: the records of the batch whose keys are not in the table.
Fresh(batch) ==
    LET pick[i \in 0 .. Len(batch)] ==
          IF i = 0 THEN <<>>
          ELSE IF At(batch[i].key) = {} THEN Append(pick[i - 1], batch[i])
          ELSE pick[i - 1]
    IN  pick[Len(batch)]

\* Record::Clear: what lies behind the used records.
Blank == [key |-> 0, value |-> 0]

\* One turn of the merge from the back: s.mem is the array, s.r the next old record, s.n
\* the next new one, and s.r + s.n the place written (w).
MergeTurn(new, s) ==
    IF s.n = 0 THEN s
    ELSE IF s.r > 0 /\ s.r > Before(new[s.n].key)
    THEN [mem |-> [s.mem EXCEPT ![s.r + s.n] = s.mem[s.r]], r |-> s.r - 1, n |-> s.n]
    ELSE [mem |-> [s.mem EXCEPT ![s.r + s.n] = new[s.n]], r |-> s.r, n |-> s.n - 1]

MergeIn(new) ==
    LET room == recs \o [i \in 1 .. Len(new) |-> Blank]
        turn[m \in 0 .. Len(recs) + Len(new)] ==
          IF m = 0 THEN [mem |-> room, r |-> Len(recs), n |-> Len(new)]
          ELSE MergeTurn(new, turn[m - 1])
    IN  turn[Len(recs) + Len(new)].mem

\* Without room for the new records nothing is inserted (an EXCLUSIVE table returns true,
\* a SHARED one false), and a key that is in the table keeps its value: the source leaves
\* both cases out.
BatchInsert(batch) ==
    /\ IF total >= Len(recs) + Len(Fresh(batch))
       THEN /\ recs' = MergeIn(Fresh(batch))
            /\ dict' = [k \in Keys |-> IF At(k) = {} /\ Lookup(batch, k) # Absent
                                       THEN Lookup(batch, k) ELSE dict[k]]
       ELSE UNCHANGED <<recs, dict>>
    /\ UNCHANGED <<type, total, alive>>

-----------------------------------------------------------------------------
(* BatchDelete *)

\* A sorted batch of keys, repeated ones and absent ones included.
KeyBatch == {ks \in UNION {[1 .. n -> Keys] : n \in 1 .. MaxBatch} :
                \A i, j \in 1 .. Len(ks) : i < j => ks[i] <= ks[j]}

\* Mutant: the batch does not advance over a key that is absent.
SiftTurnStuck(ks, s) ==
    IF s.read > Len(recs) THEN s
    ELSE IF s.k <= Len(ks) /\ s.mem[s.read].key = ks[s.k]
    THEN [mem |-> s.mem, read |-> s.read + 1, write |-> s.write, k |-> s.k + 1]
    ELSE [mem |-> [s.mem EXCEPT ![s.write] = s.mem[s.read]],
          read |-> s.read + 1, write |-> s.write + 1, k |-> s.k]

\* One turn of the copy downwards: s.read and s.write are places of the same array, s.k one
\* of the batch.
SiftTurn(ks, s) ==
    IF s.read > Len(recs) THEN s
    ELSE IF s.k <= Len(ks) /\ s.mem[s.read].key = ks[s.k]
    THEN [mem |-> s.mem, read |-> s.read + 1, write |-> s.write, k |-> s.k + 1]
    ELSE IF s.k <= Len(ks) /\ s.mem[s.read].key > ks[s.k]
    THEN [mem |-> s.mem, read |-> s.read, write |-> s.write, k |-> s.k + 1]
    ELSE [mem |-> [s.mem EXCEPT ![s.write] = s.mem[s.read]],
          read |-> s.read + 1, write |-> s.write + 1, k |-> s.k]

Sift(ks) ==
    LET turn[m \in 0 .. Len(recs) + Len(ks)] ==
          IF m = 0 THEN [mem |-> recs, read |-> 1, write |-> 1, k |-> 1]
          ELSE SiftTurn(ks, turn[m - 1])
        end == turn[Len(recs) + Len(ks)]
    IN  SubSeq(end.mem, 1, end.write - 1)

BatchDelete(ks) ==
    /\ recs' = Sift(ks)
    /\ dict' = [k \in Keys |-> IF \E i \in DOMAIN ks : ks[i] = k THEN Absent ELSE dict[k]]
    /\ UNCHANGED <<type, total, alive>>

-----------------------------------------------------------------------------
Init ==
    /\ type \in Types
    /\ recs = <<>>
    /\ total \in InitRecordNums
    /\ alive = TRUE
    /\ dict = [k \in Keys |-> Absent]

Next ==
    /\ alive
    /\ \/ \E k \in Keys, v \in Values : Insert(k, v)
       \/ \E k \in Keys : InsertFails(k)
       \/ \E k \in Keys : Delete(k)
       \/ \E batch \in Batch : BatchInsert(batch)
       \/ \E ks \in KeyBatch : BatchDelete(ks)

Spec == Init /\ [][Next]_vars

-----------------------------------------------------------------------------
(* Properties *)

\* Strictly increasing keys: what SimdBinarySearch needs of the table it searches
\* (SimdSearch!Sorted), through shifts, merges and sifts in place.
SortedKeys == \A i, j \in DOMAIN recs : i < j => recs[i].key < recs[j].key

\* No operation writes behind total_size.  (An EXCLUSIVE table of no records stays at
\* total_size 0 when it is doubled: SetInitRecordNum(0) is for SHARED tables only.)
FitsBlock == type = "SHARED" \/ total > 0 => Len(recs) <= total

\* The table is a map: an Insert is there with its last value, a pair that BatchInsert
\* merged in is too, a key that BatchDelete took out is not, and no shift, copy, merge or
\* sift in place loses, repeats or brings back any other (Insert, AllocAdd, ExpandAdd,
\* BatchInsert, BatchDelete).
Agrees == alive => \A k \in Keys : Search(k) = dict[k]

=============================================================================
