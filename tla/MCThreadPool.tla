---------------------------- MODULE MCThreadPool ----------------------------
(* Instances of ThreadPool for TLC. *)
EXTENDS ThreadPool

CONSTANTS c1, c2

TwoClients == {c1, c2}

=============================================================================
