------------------------------ MODULE MCStore ------------------------------
(* Instances of Store for TLC. *)
EXTENDS Store

BothKinds == {"file", "mmap"}
TwoValues == {1, 2}
TwoMaps == {2, 4}
Everything == {"truncate", "short"}
Nothing == {}

=============================================================================
