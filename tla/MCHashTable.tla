---------------------------- MODULE MCHashTable ----------------------------
(* Instances of HashTable for TLC: two chains, of two keys each or of three and one. *)
EXTENDS HashTable, TLC

CONSTANTS k1, k2, k3, k4

ThreeKeys == {k1, k2, k3}
FourKeys == {k1, k2, k3, k4}
OneValue == {1}
TwoValues == {1, 2}
Both == {TRUE, FALSE}
Reused == {TRUE}

Paired == [k \in Keys |-> IF k \in {k3, k4} THEN 1 ELSE 0]
Colliding == [k \in Keys |-> IF k = k3 THEN 1 ELSE 0]

\* Keys of one chain are interchangeable; the properties are all safety properties.
KeySymmetry == {p \in Permutations(Keys) : \A k \in Keys : Hash[p[k]] = Hash[k]}

\* Once a pool that reuses blocks owns a raw bucket the table is lost (run hash_reuse);
\* what is explored is everything up to there.
Sound == ~rawFreed

=============================================================================
