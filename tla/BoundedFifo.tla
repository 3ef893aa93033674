---------------------------- MODULE BoundedFifo -----------------------------
(***************************************************************************)
(* What a queue between threads promises: an item goes in at one end and   *)
(* comes out at the other, once, in the order of the entries.  How many    *)
(* may wait is Capacity; a caller may be sent away without a reason.       *)
(***************************************************************************)
EXTENDS Naturals, Sequences

CONSTANTS Items, Capacity

VARIABLES waiting, \* the items in the queue
          got      \* the items that have come out

vars == <<waiting, got>>

Init == waiting = <<>> /\ got = <<>>

\* An item enters once.
Enqueue(x) ==
    /\ Len(waiting) < Capacity
    /\ \A i \in DOMAIN waiting : waiting[i] # x
    /\ \A i \in DOMAIN got : got[i] # x
    /\ waiting' = Append(waiting, x)
    /\ got' = got

Dequeue ==
    /\ waiting # <<>>
    /\ waiting' = Tail(waiting)
    /\ got' = Append(got, Head(waiting))

Next == (\E x \in Items : Enqueue(x)) \/ Dequeue

Spec == Init /\ [][Next]_vars

=============================================================================
