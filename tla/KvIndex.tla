------------------------------- MODULE KvIndex -------------------------------
(***************************************************************************)
(* What index::Index promises: a map from keys to values with a size.      *)
(* Insert overwrites, Delete of an absent key succeeds and changes         *)
(* nothing.  MurMurHashTable is shown to implement this.                   *)
(***************************************************************************)
EXTENDS Integers

CONSTANTS Keys, Values,
          Absent  \* the value of a key that is not in the index

VARIABLES map,   \* the map the index stands for
          size   \* GetSize()

Insert(k, v) ==
    /\ size' = IF map[k] = Absent THEN size + 1 ELSE size
    /\ map' = [map EXCEPT ![k] = v]

Delete(k) ==
    /\ map[k] # Absent
    /\ size' = size - 1
    /\ map' = [map EXCEPT ![k] = Absent]

Init == map = [k \in Keys |-> Absent] /\ size = 0

Next == \E k \in Keys : Delete(k) \/ \E v \in Values : Insert(k, v)

Spec == Init /\ [][Next]_<<map, size>>

=============================================================================
