----------------------------- MODULE MCDataPool -----------------------------
(* Instances of DataPool for TLC.  A value may look like a length. *)
EXTENDS DataPool, TLC

CONSTANTS c1, c2, c3

ThreeClients == {c1, c2, c3}
BothKinds  == {"fix", "var"}
ToTwo      == {1, 2}
ClientSymmetry == Permutations(Clients)
=============================================================================
