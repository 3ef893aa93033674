---------------------------- MODULE MCSortTable ----------------------------
(* Instances of SortTable for TLC. *)
EXTENDS SortTable

FiveKeys == 1 .. 5
TwoValues == {1, 2}
NoneOrOne == {0, 1}
BothTypes == {"SHARED", "EXCLUSIVE"}

=============================================================================
