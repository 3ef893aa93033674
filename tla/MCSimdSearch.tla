---------------------------- MODULE MCSimdSearch ----------------------------
(* The search compares keys and does nothing else with them, so the even keys with   *)
(* even and odd targets stand for every table of at most MaxUsed different keys.     *)
EXTENDS SimdSearch

CONSTANT MaxUsed

EvenTables == {[used |-> n, key |-> [i \in 0 .. n - 1 |-> 2 * i]] : n \in 0 .. MaxUsed}
AllTargets == -1 .. 2 * MaxUsed

=============================================================================
