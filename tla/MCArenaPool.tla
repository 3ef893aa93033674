----------------------------- MODULE MCArenaPool -----------------------------
(* The bounds ArenaPool is checked with. *)
EXTENDS ArenaPool

TwoItems == <<1, 3>>
=============================================================================
