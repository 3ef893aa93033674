--------------------------- MODULE LockFreeQueue ----------------------------
(***************************************************************************)
(* kernel/common/concurrency: LockFreeQueue, the queue of a ThreadPool     *)
(* worker: a linked list with a dummy node in front of the first entry,    *)
(* and a counter that Push and Pop change before they touch the list.      *)
(*                                                                         *)
(* One action is one access to a shared word (head_, tail_, size_, a       *)
(* node's next); the volatile accesses and compare-and-swaps of the code   *)
(* are taken in program order.  new may return the address of a deleted    *)
(* node.                                                                   *)
(*                                                                         *)
(* The threads either call the queue as ThreadPool does, holding a mutex   *)
(* around Push and around Pop but not around Empty (locked), or as its     *)
(* name invites them to, without one.  A step that touches a deleted node, *)
(* or leaves head_ pointing at one, has no meaning in C++; the model stops *)
(* there with the reason in fault.                                         *)
(***************************************************************************)
EXTENDS Integers, Sequences, FiniteSets

CONSTANTS Producers, \* threads that push
          Consumers, \* threads that may pop
          Nodes,     \* addresses the allocator may return for a Node
          MaxSize,   \* max_queue_size_
          Modulus,   \* size_t is the integers modulo this
          MaxPushes, \* bound: calls of Push
          Nil        \* nullptr, and a mutex nobody holds

ASSUME QueueAssumption ==
    /\ IsFiniteSet(Producers) /\ IsFiniteSet(Consumers)
    /\ MaxSize \in Nat \ {0} /\ MaxPushes \in Nat
    /\ Modulus \in Nat /\ Modulus > MaxSize + Cardinality(Producers) + Cardinality(Consumers)
    /\ Producers \cap Consumers = {}
    /\ Nil \notin Nodes \cup Producers \cup Consumers

Threads == Producers \cup Consumers
Item == 1 .. MaxPushes

VARIABLES locked,  \* the threads call Push and Pop under a mutex
          poppers, \* the consumers that take part
          mutex,   \* who holds it
          node,    \* the live nodes: [entity, next]
          head_, tail_, size_,
          pc,      \* where a thread is
          seen,    \* its local copy of size_, head_ or tail_
          mine,    \* its other local: the new node, or what head_ is to become
          item,    \* the entity its Push carries
          pushes,  \* number of calls of Push
          sure,    \* consumers that have seen the queue not empty since their last Pop
          order,   \* history: the entities in the order they were hung behind tail_
          got,     \* history: the entities popped
          closed,  \* the destructor has run
          fault    \* "none", or what has gone wrong

listVars == <<node, head_, tail_, size_>>
localVars == <<pc, seen, mine, item>>
setup == <<locked, poppers>>
histVars == <<order, got, closed>>
vars == <<setup, mutex, listVars, localVars, pushes, sure, histVars, fault>>

Live == DOMAIN node
Free(n) == [m \in Live \ {n} |-> node[m]]

-----------------------------------------------------------------------------
(* Control *)

MayCall(t) == pc[t] = "out" /\ ~closed /\ mutex = Nil

\* The call goes past its first access.
Enter(t, to) ==
    /\ pc' = [pc EXCEPT ![t] = to]
    /\ mutex' = IF locked THEN t ELSE Nil

Go(t, to) == pc' = [pc EXCEPT ![t] = to] /\ UNCHANGED mutex

\* The call is over, its locals are gone.
Leave(t) ==
    /\ pc' = [pc EXCEPT ![t] = "out"]
    /\ seen' = [seen EXCEPT ![t] = Nil]
    /\ mine' = [mine EXCEPT ![t] = Nil]
    /\ item' = [item EXCEPT ![t] = 0]
    /\ mutex' = Nil

Fault(what) ==
    /\ fault' = what
    /\ UNCHANGED <<setup, mutex, listVars, localVars, pushes, sure, histVars>>

-----------------------------------------------------------------------------
(* Push *)

\* size_ is read; a full queue is reported at once.
PushSize(p) ==
    /\ MayCall(p) /\ pushes < MaxPushes
    /\ pushes' = pushes + 1
    /\ IF size_ >= MaxSize
       THEN UNCHANGED <<mutex, localVars>>
       ELSE /\ Enter(p, "claim")
            /\ seen' = [seen EXCEPT ![p] = size_]
            /\ item' = [item EXCEPT ![p] = pushes']
            /\ UNCHANGED mine
    /\ UNCHANGED <<setup, listVars, sure, histVars, fault>>

\* The compare-and-swap of size_; when another thread has changed it Push gives up.
PushClaim(p) ==
    /\ pc[p] = "claim"
    /\ IF size_ = seen[p]
       THEN size_' = (size_ + 1) % Modulus /\ Go(p, "new") /\ UNCHANGED <<seen, mine, item>>
       ELSE Leave(p) /\ UNCHANGED size_
    /\ UNCHANGED <<setup, node, head_, tail_, pushes, sure, histVars, fault>>

\* The node is made, then tail_ is read.
PushNew(p) ==
    /\ pc[p] = "new"
    /\ \E n \in Nodes \ Live :
          /\ node' = [m \in Live \cup {n} |->
                        IF m = n THEN [entity |-> item[p], next |-> Nil] ELSE node[m]]
          /\ mine' = [mine EXCEPT ![p] = n]
    /\ seen' = [seen EXCEPT ![p] = tail_]
    /\ Go(p, "swing")
    /\ UNCHANGED <<setup, head_, tail_, size_, item, pushes, sure, histVars, fault>>

\* Mutant: tail_ is stored, not compared.
PushSwingBlind(p) ==
    /\ pc[p] = "swing"
    /\ tail_' = mine[p]
    /\ order' = Append(order, item[p])
    /\ Go(p, "link")
    /\ UNCHANGED <<setup, node, head_, size_, seen, mine, item, pushes, sure, got, closed,
                   fault>>

\* The compare-and-swap of tail_.
PushSwing(p) ==
    /\ pc[p] = "swing"
    /\ IF tail_ = seen[p]
       THEN /\ tail_' = mine[p]
            /\ order' = Append(order, item[p])
            /\ Go(p, "link")
       ELSE /\ Go(p, "unclaim")
            /\ UNCHANGED <<tail_, order>>
    /\ UNCHANGED <<setup, node, head_, size_, seen, mine, item, pushes, sure, got, closed,
                   fault>>

\* tail->next = node
PushLink(p) ==
    /\ pc[p] = "link"
    /\ IF seen[p] \in Live
       THEN /\ node' = [node EXCEPT ![seen[p]].next = mine[p]]
            /\ Leave(p)
            /\ UNCHANGED <<setup, head_, tail_, size_, pushes, sure, histVars, fault>>
       ELSE Fault("deleted node")

\* Another Push was first: its claim is taken back, its node deleted.
PushUnclaim(p) ==
    /\ pc[p] = "unclaim"
    /\ size_' = (size_ + Modulus - 1) % Modulus
    /\ node' = Free(mine[p])
    /\ Leave(p)
    /\ UNCHANGED <<setup, head_, tail_, pushes, sure, histVars, fault>>

-----------------------------------------------------------------------------
(* Pop *)

\* The call returns; what the thread had learned from Empty is used up.
PopLeave(c) == Leave(c) /\ sure' = sure \ {c}

\* Mutant: the last entity is not seen.
PopSizeOffByOne(c) ==
    /\ MayCall(c)
    /\ IF size_ <= 1
       THEN UNCHANGED <<mutex, localVars>> /\ sure' = sure \ {c}
       ELSE /\ Enter(c, "claim")
            /\ seen' = [seen EXCEPT ![c] = size_]
            /\ UNCHANGED <<mine, item, sure>>
    /\ UNCHANGED <<setup, listVars, pushes, histVars, fault>>

\* size_ is read; an empty queue is reported at once.
PopSize(c) ==
    /\ MayCall(c)
    /\ IF size_ = 0
       THEN UNCHANGED <<mutex, localVars>> /\ sure' = sure \ {c}
       ELSE /\ Enter(c, "claim")
            /\ seen' = [seen EXCEPT ![c] = size_]
            /\ UNCHANGED <<mine, item, sure>>
    /\ UNCHANGED <<setup, listVars, pushes, histVars, fault>>

PopClaim(c) ==
    /\ pc[c] = "claim"
    /\ IF size_ = seen[c]
       THEN /\ size_' = size_ - 1
            /\ Go(c, "head")
            /\ UNCHANGED <<seen, mine, item, sure>>
       ELSE PopLeave(c) /\ UNCHANGED size_
    /\ UNCHANGED <<setup, node, head_, tail_, pushes, histVars, fault>>

PopHead(c) ==
    /\ pc[c] = "head"
    /\ seen' = [seen EXCEPT ![c] = head_]
    /\ Go(c, "look")
    /\ UNCHANGED <<setup, listVars, mine, item, pushes, sure, histVars, fault>>

\* head->next == nullptr ? head_ : head->next
PopLook(c) ==
    /\ pc[c] = "look"
    /\ IF seen[c] \in Live
       THEN LET next == node[seen[c]].next
            IN  /\ mine' = [mine EXCEPT ![c] = IF next = Nil THEN head_ ELSE next]
                /\ Go(c, "swing")
                /\ UNCHANGED <<setup, listVars, seen, item, pushes, sure, histVars, fault>>
       ELSE Fault("deleted node")

\* The compare-and-swap of head_.
PopSwing(c) ==
    /\ pc[c] = "swing"
    /\ IF head_ = seen[c]
       THEN head_' = mine[c] /\ Go(c, "check")
       ELSE UNCHANGED head_ /\ Go(c, "unclaim")
    /\ UNCHANGED <<setup, node, tail_, size_, seen, mine, item, pushes, sure, histVars, fault>>

\* ... || head->next == nullptr
PopCheck(c) ==
    /\ pc[c] = "check"
    /\ IF seen[c] \in Live
       THEN /\ Go(c, IF node[seen[c]].next = Nil THEN "unclaim" ELSE "take")
            /\ UNCHANGED <<setup, listVars, seen, mine, item, pushes, sure, histVars, fault>>
       ELSE Fault("deleted node")

\* Mutants: the node of the entity is deleted; the old dummy is not.
PopTakeOther(c) ==
    /\ pc[c] = "take"
    /\ got' = Append(got, node[node[seen[c]].next].entity)
    /\ node' = Free(node[seen[c]].next)
    /\ PopLeave(c)
    /\ UNCHANGED <<setup, head_, tail_, size_, pushes, order, closed, fault>>
PopTakeKeeps(c) ==
    /\ pc[c] = "take"
    /\ got' = Append(got, node[node[seen[c]].next].entity)
    /\ PopLeave(c)
    /\ UNCHANGED <<setup, listVars, pushes, order, closed, fault>>

\* head->next->entity is moved out and head deleted.  When the swing of head_ has found
\* no next node and a Push has linked one since, head_ still is head.
PopTake(c) ==
    /\ pc[c] = "take"
    /\ IF seen[c] \in Live /\ node[seen[c]].next \in Live
       THEN /\ got' = Append(got, node[node[seen[c]].next].entity)
            /\ node' = Free(seen[c])
            /\ fault' = IF head_ = seen[c] THEN "dangling head" ELSE fault
            /\ PopLeave(c)
            /\ UNCHANGED <<setup, head_, tail_, size_, pushes, order, closed>>
       ELSE Fault("deleted node")

\* Mutant: the claim of a Pop that found nothing is not given back.
PopUnclaimForgets(c) ==
    /\ pc[c] = "unclaim"
    /\ PopLeave(c)
    /\ UNCHANGED <<setup, listVars, pushes, histVars, fault>>

\* Nothing there yet, or another Pop was first.
PopUnclaim(c) ==
    /\ pc[c] = "unclaim"
    /\ size_' = (size_ + 1) % Modulus
    /\ PopLeave(c)
    /\ UNCHANGED <<setup, node, head_, tail_, pushes, histVars, fault>>

-----------------------------------------------------------------------------
(* Empty, and the destructor *)

\* Empty reads head_ and its next without any lock.
Empty(c) ==
    /\ pc[c] = "out" /\ ~closed
    /\ IF head_ \in Live
       THEN /\ sure' = IF node[head_].next # Nil THEN sure \cup {c} ELSE sure \ {c}
            /\ UNCHANGED <<setup, mutex, listVars, localVars, pushes, histVars, fault>>
       ELSE Fault("deleted node")

\* What a walk from head_ along next meets, a deleted node it may end at included: the
\* nodes that are in every set that holds head_ and the next of each of its live nodes.
Reached ==
    {n \in Nodes :
       \A S \in SUBSET Nodes :
          head_ \in S /\ (\A m \in S \cap Live : node[m].next \in S \cup {Nil}) => n \in S}

\* ~LockFreeQueue deletes the nodes from head_ on; nobody is inside.
Destroy ==
    /\ \A t \in Threads : pc[t] = "out"
    /\ ~closed
    /\ IF Reached \subseteq Live
       THEN /\ closed' = TRUE
            /\ node' = [n \in Live \ Reached |-> node[n]]
            /\ UNCHANGED <<setup, mutex, head_, tail_, size_, localVars, pushes, sure, order,
                           got, fault>>
       ELSE Fault("deleted node")

-----------------------------------------------------------------------------
Init ==
    /\ locked \in BOOLEAN
    /\ poppers \in SUBSET Consumers \ {{}}
    /\ mutex = Nil
    /\ \E n \in Nodes :
          /\ node = [m \in {n} |-> [entity |-> 0, next |-> Nil]]
          /\ head_ = n /\ tail_ = n
    /\ size_ = 0
    /\ pc = [t \in Threads |-> "out"]
    /\ seen = [t \in Threads |-> Nil]
    /\ mine = [t \in Threads |-> Nil]
    /\ item = [t \in Threads |-> 0]
    /\ pushes = 0
    /\ sure = {}
    /\ order = <<>> /\ got = <<>>
    /\ closed = FALSE
    /\ fault = "none"

Push(p) == PushSize(p) \/ PushClaim(p) \/ PushNew(p) \/ PushSwing(p) \/ PushLink(p)
             \/ PushUnclaim(p)

Pop(c) == PopSize(c) \/ PopClaim(c) \/ PopHead(c) \/ PopLook(c) \/ PopSwing(c)
            \/ PopCheck(c) \/ PopTake(c) \/ PopUnclaim(c)

Next ==
    /\ fault = "none"
    /\ \/ \E p \in Producers : Push(p)
       \/ \E c \in poppers : Pop(c) \/ Empty(c)
       \/ Destroy

Spec == Init /\ [][Next]_vars

-----------------------------------------------------------------------------
(* Properties *)

\* The entities that have been hung behind tail_ and not popped.
Waiting == SubSeq(order, Len(got) + 1, Len(order))

\* Two consumers without the mutex may finish in another order than they began.
InTurn == locked \/ Cardinality(poppers) = 1

\* Up to a fault the queue is a first-in-first-out queue, with and without the mutex:
\* every pushed entity comes out once, in the order in which tail_ took them, and no Push
\* that gave up leaves its entity behind.  Without the mutex a consumer that is between
\* its claim and its entity makes room for one more (Push, Pop).
Fifo == INSTANCE BoundedFifo WITH Items <- Item,
                                  Capacity <- MaxSize + 1,
                                  waiting <- IF InTurn THEN Waiting ELSE <<>>,
                                  got <- IF InTurn THEN got ELSE <<>>
RefinesFifo == Fifo!Spec

\* The promise of max_queue_size_: under the mutex never more entities than that wait.
\* The claims of Push and Pop that are under way account for the whole difference between
\* size_ and what waits, however they interleave.
Claims == Cardinality({p \in Producers : pc[p] \in {"new", "swing", "unclaim"}})
            - Cardinality({c \in Consumers : pc[c] \in {"head", "look", "swing", "check",
                                                        "take", "unclaim"}})
SizeAccounts ==
    /\ locked => Len(Waiting) <= MaxSize
    /\ fault = "none" => size_ = (Len(Waiting) + Claims + Modulus) % Modulus

\* Under the mutex no step touches a deleted node and head_ never dangles.  Without it a
\* single consumer never touches a deleted node either (what can go wrong for it is only
\* that a Pop overtakes the link of a Push).
Safe ==
    /\ locked => fault = "none"
    /\ Cardinality(poppers) = 1 => fault # "deleted node"

\* What ThreadBody relies on: a consumer that is alone with its queue and has seen it not
\* empty, without a lock, gets an entity from its next Pop under the lock.
SureToPop ==
    [][\A c \in poppers :
         locked /\ poppers = {c} /\ c \in sure /\ c \notin sure'
            => Len(got') = Len(got) + 1]_vars

\* When the queue is destroyed no node is left, whatever was pushed, popped or refused
\* before (~LockFreeQueue).
NoLeak == closed /\ InTurn => Live = {}

=============================================================================
