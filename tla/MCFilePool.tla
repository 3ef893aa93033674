----------------------------- MODULE MCFilePool -----------------------------
(* Instances of FilePool for TLC. *)
EXTENDS FilePool, TLC

CONSTANTS h1, h2, h3

TwoHandles   == {h1, h2}
ThreeHandles == {h1, h2, h3}
HandleSymmetry == Permutations(Handles)

OneTwo   == {1, 2}
TwoBases == {1000, 2000}
OneBase  == {1000}

Restarts   == {"reopen", "destroy", "crash"}
FileLife   == {"reopen", "crash", "readonly", "toggle", "full"}
=============================================================================
