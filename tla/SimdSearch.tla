----------------------------- MODULE SimdSearch -----------------------------
(***************************************************************************)
(* kernel/index/sort_table: SortTable::SimdBinarySearch, the search every  *)
(* operation of a SortTable begins with.                                   *)
(*                                                                         *)
(* One round compares the target with three records at once, one vector    *)
(* lane each (bs_level_ 2, bs_mid_count_ 3 for 8-byte keys), which splits  *)
(* the window left .. right in four.  The fourth lane and the lanes of     *)
(* records behind the window hold garbage the code does not look at.  One  *)
(* action is one round of the loop.                                        *)
(***************************************************************************)
EXTENDS Integers

CONSTANTS Tables,  \* the sorted tables to search: [used, key]
          Targets  \* the keys to search for

Sorted(t) == \A i, j \in 0 .. t.used - 1 : i < j => t.key[i] < t.key[j]

ASSUME TablesAssumption ==
    /\ \A t \in Tables : /\ t.used \in Nat
                         /\ t.key \in [0 .. t.used - 1 -> Int]
                         /\ Sorted(t)
    /\ Targets \subseteq Int

VARIABLES table,  \* header_->used_size and the keys of first_[0 .. used_size - 1]
          target, \* nkey
          left, right, size,
          pc,     \* "start", "loop", "found", "absent"
          found,  \* the index of the returned record
          pos     \* *pos

searchVars == <<table, target, left, right, size, pc, found, pos>>

Mids == 3

-----------------------------------------------------------------------------
\* mid[i]
Mid(i) ==
    LET base == size \div 4
        rem == size % 4
    IN  left + base * i + (IF i > rem THEN rem ELSE i) + base \div 2

\* Where the comparison loop ends: no lane left, behind the window, or a greater key.
Stop(i) == i < Mids /\ Mid(i) <= right => table.key[Mid(i)] > target

Start ==
    /\ pc = "start"
    /\ IF table.used <= 0 THEN pc' = "absent" /\ pos' = -1 /\ found' = found
       ELSE IF table.key[left] = target THEN pc' = "found" /\ found' = left /\ pos' = pos
       ELSE IF table.key[right] = target THEN pc' = "found" /\ found' = right /\ pos' = pos
       ELSE pc' = "loop" /\ UNCHANGED <<found, pos>>
    /\ UNCHANGED <<table, target, left, right, size>>

\* Mutants: the window starts one record too far behind the lane that was smaller; size
\* is not recomputed.
NarrowSkipsOne(i) ==
    /\ left' = IF i > 0 THEN Mid(i - 1) + 2 ELSE left
    /\ right' = IF i < Mids THEN Mid(i) - 1 ELSE right
    /\ size' = right' - left' + 1
NarrowKeepsSize(i) ==
    /\ left' = IF i > 0 THEN Mid(i - 1) + 1 ELSE left
    /\ right' = IF i < Mids THEN Mid(i) - 1 ELSE right
    /\ size' = size

\* The window between the last lane that was not greater and the first that was.
Narrow(i) ==
    /\ left' = IF i > 0 THEN Mid(i - 1) + 1 ELSE left
    /\ right' = IF i < Mids THEN Mid(i) - 1 ELSE right
    /\ size' = right' - left' + 1

Round ==
    /\ pc = "loop" /\ left <= right
    /\ \E i \in 0 .. Mids :
          /\ Stop(i) /\ \A j \in 0 .. i - 1 : ~Stop(j)
          /\ IF i > 0 /\ table.key[Mid(i - 1)] = target
             THEN /\ pc' = "found" /\ found' = Mid(i - 1)
                  /\ UNCHANGED <<left, right, size>>
             ELSE Narrow(i) /\ UNCHANGED <<pc, found>>
    /\ UNCHANGED <<table, target, pos>>

Finish ==
    /\ pc = "loop" /\ left > right
    /\ pc' = "absent" /\ pos' = right
    /\ UNCHANGED <<table, target, left, right, size, found>>

-----------------------------------------------------------------------------
SearchInit ==
    /\ table \in Tables /\ target \in Targets
    /\ left = 0 /\ right = table.used - 1 /\ size = table.used
    /\ pc = "start" /\ found = 0 /\ pos = -1

SearchNext == Start \/ Round \/ Finish

SearchSpec == SearchInit /\ [][SearchNext]_searchVars
-----------------------------------------------------------------------------
(* Properties *)

\* The window stays in the table, so that no round reads a record outside it, and what
\* lies before and behind the window is smaller and greater than the target (the loop
\* invariant of SimdBinarySearch).
Window ==
    pc = "loop" =>
        /\ 0 <= left /\ right < table.used /\ left <= right + 1
        /\ size = right - left + 1
        /\ \A j \in 0 .. left - 1 : table.key[j] < target
        /\ \A j \in right + 1 .. table.used - 1 : table.key[j] > target

\* The contract in sort_table.h: the record of the key, or the position of the nearest
\* smaller key, -1 when there is none; Insert puts its record behind that position.
Correct ==
    /\ pc = "found" => found \in 0 .. table.used - 1 /\ table.key[found] = target
    /\ pc = "absent" =>
          /\ pos \in -1 .. table.used - 1
          /\ \A j \in 0 .. table.used - 1 :
                IF j <= pos THEN table.key[j] < target ELSE table.key[j] > target

\* Every round leaves at most half of the window, so the loop ends, after a logarithmic
\* number of rounds.
Narrows == [][pc = "loop" /\ pc' = "loop" => size' < size /\ 2 * size' <= size]_searchVars

=============================================================================
