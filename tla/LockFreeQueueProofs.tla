------------------------ MODULE LockFreeQueueProofs -------------------------
(***************************************************************************)
(* Proofs about LockFreeQueue, for any number of producers, any capacity   *)
(* and any number of addresses, under a mutex with any number of consumers *)
(* and without one for a single consumer: it implements the bounded FIFO,  *)
(* touches no deleted node, and pops what Empty has promised.              *)
(***************************************************************************)
EXTENDS LockFreeQueue, SequenceTheorems, FiniteSetTheorems, WellFoundedInduction, TLAPS

-----------------------------------------------------------------------------
(* The inductive invariant *)

Places == {"out", "claim", "new", "swing", "link", "unclaim", "head", "look", "check", "take"}

Types ==
    /\ locked \in BOOLEAN /\ poppers \subseteq Consumers
    /\ mutex \in Threads \cup {Nil}
    /\ Live \subseteq Nodes
    /\ node \in [Live -> [entity : Nat, next : Nodes \cup {Nil}]]
    /\ head_ \in Nodes /\ tail_ \in Nodes
    /\ size_ \in 0 .. Modulus - 1
    /\ pc \in [Threads -> Places]
    /\ \A p \in Producers : pc[p] \notin {"head", "look", "check", "take"}
    /\ \A c \in Consumers : pc[c] \notin {"new", "link"}
    /\ \A c \in Consumers \ poppers : pc[c] = "out"
    /\ seen \in [Threads -> Nat \cup Nodes \cup {Nil}]
    /\ mine \in [Threads -> Nodes \cup {Nil}]
    /\ item \in [Threads -> Nat]
    /\ \A t \in Threads :
          /\ pc[t] = "claim" => seen[t] \in 0 .. Modulus - 1
          /\ pc[t] \in {"swing", "link"} => mine[t] \in Nodes
          /\ pc[t] \in {"swing", "link", "look", "check", "take"} => seen[t] \in Nodes
    /\ \A p \in Producers : pc[p] = "claim" => seen[p] < MaxSize
    /\ \A c \in Consumers : pc[c] = "claim" => seen[c] # 0
    /\ pushes \in Nat
    /\ order \in Seq(Nat) /\ got \in Seq(Nat)

\* The mutex is held by whoever is inside, if there is one.
Exclusion ==
    IF locked THEN \A t \in Threads : pc[t] # "out" => mutex = t ELSE mutex = Nil

\* Every entity is pushed once.
Items ==
    /\ \A i \in 1 .. Len(order) : order[i] \in 1 .. pushes
    /\ \A i, j \in 1 .. Len(order) : order[i] = order[j] => i = j
    /\ \A p \in Producers : pc[p] \in {"claim", "new", "swing"} =>
          /\ item[p] \in 1 .. pushes
          /\ \A i \in 1 .. Len(order) : order[i] # item[p]
          /\ \A q \in Producers : pc[q] \in {"claim", "new", "swing"} /\ item[p] = item[q] => p = q
    /\ pushes <= MaxPushes
    /\ Len(got) <= Len(order)
    /\ \A i \in 1 .. Len(got) : got[i] = order[i]

\* The claims on size_ that are neither given back nor in the list yet.
PushClaims == {p \in Producers : pc[p] \in {"new", "swing", "unclaim"}}
PopClaimed == \E c \in poppers : pc[c] \in {"head", "look", "swing", "check", "take", "unclaim"}
Claimed == Len(order) - Len(got) + Cardinality(PushClaims)
Net == IF PopClaimed THEN Claimed - 1 ELSE Claimed

Sizes ==
    /\ Claimed <= MaxSize + 1
    /\ locked => Claimed <= MaxSize
    /\ size_ = IF Net < 0 THEN Net + Modulus ELSE Net

\* The list is s: the dummy, or the old one while a consumer takes its entity, and the
\* nodes of what waits.  A link is missing only as long as a producer is to set it.
Ring(s) ==
    /\ Len(s) >= 1
    /\ \A i, j \in 1 .. Len(s) : s[i] = s[j] => i = j
    /\ \A i \in 1 .. Len(s) : s[i] \in Live
    /\ tail_ = s[Len(s)]
    /\ node[s[Len(s)]].next = Nil
    /\ \A i \in 1 .. Len(s) - 1 :
          \/ node[s[i]].next = s[i + 1]
          \/ node[s[i]].next = Nil /\ \E p \in Producers : pc[p] = "link" /\ seen[p] = s[i]
    /\ Len(order) = Len(got) + Len(s) - 1
    /\ \A i \in 1 .. Len(s) - 1 : node[s[i + 1]].entity = order[Len(got) + i]

\* The nodes of producers: made and not in the list, or in it and to be linked.
Makers == {p \in Producers : pc[p] \in {"swing", "unclaim"}}
Linkers == {p \in Producers : pc[p] = "link"}

Made(s) ==
    /\ \A p \in Makers : /\ mine[p] \in Live
                         /\ \A i \in 1 .. Len(s) : s[i] # mine[p]
                         /\ node[mine[p]].next = Nil
                         /\ pc[p] = "swing" => node[mine[p]].entity = item[p]
                         /\ \A q \in Makers : mine[p] = mine[q] => p = q
    /\ \A p \in Linkers : /\ \E i \in 1 .. Len(s) - 1 :
                                seen[p] = s[i] /\ mine[p] = s[i + 1] /\ node[s[i]].next = Nil
                          /\ \A q \in Linkers : seen[p] = seen[q] => p = q
    /\ \A n \in Live : (\E i \in 1 .. Len(s) : s[i] = n) \/ \E p \in Makers : mine[p] = n

Linked(s) == Len(s) > 1 /\ node[s[1]].next = s[2]

\* The consumer at the front of the list.
Front(s) ==
    /\ (\A c \in poppers : pc[c] \notin {"check", "take"}) => head_ = s[1]
    /\ \A c \in poppers :
          /\ pc[c] \in {"look", "swing"} => seen[c] = s[1]
          /\ pc[c] = "swing" => \/ mine[c] = s[1] /\ (locked => ~Linked(s))
                                \/ mine[c] = s[2] /\ Linked(s)
          /\ pc[c] \in {"check", "take"} => /\ seen[c] = s[1]
                                            /\ \/ head_ = s[1] /\ (locked => ~Linked(s))
                                               \/ head_ = s[2] /\ Linked(s)
          /\ pc[c] = "take" => Linked(s)

\* What the only consumer knows from Empty remains true under the mutex.
Promise(s) ==
    \A c \in poppers : locked /\ poppers = {c} /\ c \in sure =>
        /\ Linked(s)
        /\ pc[c] # "unclaim"
        /\ pc[c] = "claim" => seen[c] = size_
        /\ pc[c] = "swing" => mine[c] = s[2]
        /\ pc[c] \in {"check", "take"} => head_ = s[2]

List(s) == Ring(s) /\ Made(s) /\ Front(s) /\ Promise(s)

Inv == Types /\ Exclusion /\ Items /\ Sizes /\ \E s \in Seq(Nodes) : List(s)

Working == InTurn /\ fault = "none" /\ ~closed

QInv ==
    /\ Safe
    /\ InTurn /\ closed => /\ poppers \subseteq Consumers /\ \A t \in Threads : pc[t] = "out"
                           /\ Live = {} /\ SizeAccounts
    /\ Working => Inv

-----------------------------------------------------------------------------
(* Constants, and who may be inside *)

LEMMA ConstantFacts ==
    /\ Nil \notin Nodes /\ Nil \notin Threads
    /\ Producers \cap Consumers = {} /\ Producers \subseteq Threads /\ Consumers \subseteq Threads
    /\ IsFiniteSet(Producers) /\ IsFiniteSet(Consumers)
    /\ MaxSize \in Nat /\ MaxSize > 0 /\ MaxPushes \in Nat
    /\ Modulus \in Nat /\ Modulus > MaxSize
    /\ Consumers # {} => Modulus > MaxSize + 1
  <1>1. Cardinality(Producers) \in Nat /\ Cardinality(Consumers) \in Nat
    BY QueueAssumption, FS_CardinalityType DEF QueueAssumption
  <1>2. Consumers # {} => Cardinality(Consumers) # 0
    BY QueueAssumption, FS_EmptySet DEF QueueAssumption
  <1>3. QED
    BY QueueAssumption, <1>1, <1>2 DEF QueueAssumption, Threads

LEMMA Modulo ==
    ASSUME NEW M \in Nat \ {0}, NEW n \in 0 .. M - 1
    PROVE  n % M = n /\ (n + M) % M = n
  OBVIOUS

\* size_ when it is counted down and up.
LEMMA WrapsAround ==
    ASSUME NEW M \in Nat \ {0}, NEW n \in 0 .. M - 1
    PROVE  /\ (n + M - 1) % M = IF n = 0 THEN M - 1 ELSE n - 1
           /\ (n + 1) % M = IF n = M - 1 THEN 0 ELSE n + 1
  OBVIOUS

LEMMA LeastNumber ==
    ASSUME NEW B \in SUBSET Nat, B # {}
    PROVE  \E x \in B : \A y \in B : x <= y
  <1>1. PICK R : R = OpToRel(<, Nat)
    OBVIOUS
  <1>2. IsWellFoundedOn(R, Nat)
    BY <1>1, NatLessThanWellFounded
  <1>3. PICK x \in B : \A y \in B : ~(<<y, x>> \in R)
    BY <1>2, WFMin
  <1>4. \A y \in B : y < x => <<y, x>> \in R
    BY <1>1 DEF OpToRel
  <1>5. \A y \in B : y \in Nat
    OBVIOUS
  <1>6. \A y \in B : ~(y < x)
    BY <1>3, <1>4
  <1>7. QED
    BY <1>5, <1>6

\* Under the mutex a thread that is inside is alone.
LEMMA Alone ==
    ASSUME Inv, locked, NEW t \in Threads, pc[t] # "out" \/ mutex = Nil
    PROVE  \A u \in Threads : u # t => pc[u] = "out"
  BY ConstantFacts DEF Inv, Exclusion

\* The entries of the invariant that are used everywhere.
LEMMA Entries ==
    ASSUME Inv
    PROVE  /\ Types /\ Exclusion /\ Items /\ Sizes
           /\ Len(order) \in Nat /\ Len(got) \in Nat
           /\ IsFiniteSet(PushClaims) /\ Cardinality(PushClaims) \in Nat
           /\ Claimed \in Nat /\ Net \in Int /\ size_ \in Nat
  <1>1. Types /\ Exclusion /\ Items /\ Sizes
    BY DEF Inv
  <1>2. Len(order) \in Nat /\ Len(got) \in Nat
    BY <1>1, LenProperties DEF Types
  <1>3. PushClaims \subseteq Producers
    BY DEF PushClaims
  <1>4. IsFiniteSet(PushClaims) /\ Cardinality(PushClaims) \in Nat
    BY <1>3, ConstantFacts, FS_Subset, FS_CardinalityType
  <1>5. Claimed \in Nat
    BY <1>1, <1>2, <1>4 DEF Claimed, Items
  <1>6. size_ \in Nat
    BY <1>1, ConstantFacts DEF Types
  <1>7. QED
    BY <1>1, <1>2, <1>4, <1>5, <1>6 DEF Net

-----------------------------------------------------------------------------
(* What a step that leaves the list alone keeps of it *)

LEMMA KeepRing ==
    ASSUME NEW s \in Seq(Nodes), Ring(s), Made(s), UNCHANGED <<node, tail_, order, got>>,
           Makers' = Makers, Linkers' = Linkers,
           \A p \in Makers : /\ mine'[p] = mine[p]
                             /\ pc'[p] = "swing" => pc[p] = "swing" /\ item'[p] = item[p],
           \A p \in Linkers : mine'[p] = mine[p] /\ seen'[p] = seen[p]
    PROVE  Ring(s)' /\ Made(s)'
  <1>1. Ring(s)'
    <2>1. ASSUME NEW p \in Producers, pc[p] = "link" PROVE pc'[p] = "link" /\ seen'[p] = seen[p]
      BY <2>1 DEF Linkers
    <2>2. QED
      BY <2>1 DEF Ring, Live
  <1>2. Made(s)'
    BY DEF Made, Live
  <1>3. QED
    BY <1>1, <1>2

\* A step of a producer: what the consumer has seen of the front of the list remains true.
LEMMA KeepFront ==
    ASSUME NEW s, NEW r, Front(s), Promise(s),
           UNCHANGED <<locked, poppers, head_, sure>>,
           \A c \in poppers : pc'[c] = pc[c] /\ seen'[c] = seen[c] /\ mine'[c] = mine[c],
           locked => \A c \in poppers : pc[c] = "out",
           r[1] = s[1], Linked(s) => Linked(r)' /\ r[2] = s[2]
    PROVE  Front(r)' /\ Promise(r)'
  <1>1. Front(r)'
    BY DEF Front
  <1>2. Promise(r)'
    BY DEF Promise
  <1>3. QED
    BY <1>1, <1>2

\* A step of a consumer before it takes its entity.
LEMMA PopKeepsRing ==
    ASSUME NEW s \in Seq(Nodes), Ring(s), Made(s), UNCHANGED <<node, tail_, order, got>>,
           \A p \in Producers : /\ pc'[p] = pc[p] /\ seen'[p] = seen[p]
                                /\ mine'[p] = mine[p] /\ item'[p] = item[p]
    PROVE  Ring(s)' /\ Made(s)'
  <1>1. Makers' = Makers /\ Linkers' = Linkers
    BY DEF Makers, Linkers
  <1>2. QED
    BY <1>1, KeepRing DEF Makers, Linkers

-----------------------------------------------------------------------------
(* The steps of a producer *)

\* What is known of a producer that makes a step.
LEMMA ProducerFacts ==
    ASSUME Inv, NEW p \in Producers
    PROVE  /\ p \in Threads /\ p \notin poppers /\ p \notin Consumers
           /\ \A c \in poppers : c \in Threads /\ c # p
           /\ pc[p] # "out" \/ mutex = Nil => (locked => \A c \in poppers : pc[c] = "out")
           /\ p \in PushClaims <=> pc[p] \in {"new", "swing", "unclaim"}
  <1>1. poppers \subseteq Consumers
    BY DEF Inv, Types
  <1>2. QED
    BY <1>1, ConstantFacts, Alone DEF PushClaims

\* A producer gets a claim, or gives one up.
LEMMA ClaimCount ==
    ASSUME Inv, NEW p \in Producers
    PROVE  /\ PushClaims' = PushClaims \cup {p} /\ p \notin PushClaims
                 => Cardinality(PushClaims') = Cardinality(PushClaims) + 1
           /\ PushClaims' = PushClaims \ {p} /\ p \in PushClaims
                 => /\ Cardinality(PushClaims') = Cardinality(PushClaims) - 1
                    /\ Cardinality(PushClaims) >= 1
  <1>1. IsFiniteSet(PushClaims)
    BY Entries
  <1>2. /\ Cardinality(PushClaims \cup {p}) =
              IF p \in PushClaims THEN Cardinality(PushClaims) ELSE Cardinality(PushClaims) + 1
        /\ Cardinality(PushClaims \ {p}) =
              IF p \in PushClaims THEN Cardinality(PushClaims) - 1 ELSE Cardinality(PushClaims)
        /\ IsFiniteSet(PushClaims \ {p})
    BY <1>1, FS_AddElement, FS_RemoveElement
  <1>3. Cardinality(PushClaims \ {p}) \in Nat /\ Cardinality(PushClaims) \in Nat
    BY <1>1, <1>2, FS_CardinalityType
  <1>4. ASSUME PushClaims' = PushClaims \cup {p}, p \notin PushClaims
        PROVE  Cardinality(PushClaims') = Cardinality(PushClaims) + 1
    BY <1>2, <1>4
  <1>5. ASSUME PushClaims' = PushClaims \ {p}, p \in PushClaims
        PROVE  Cardinality(PushClaims') = Cardinality(PushClaims) - 1 /\ Cardinality(PushClaims) >= 1
    <2>1. Cardinality(PushClaims \ {p}) = Cardinality(PushClaims) - 1
      BY <1>2, <1>5
    <2>2. QED
      BY <1>3, <1>5, <2>1
  <1>6. QED
    BY <1>4, <1>5

LEMMA PushSizeStep ==
    ASSUME Inv, NEW p \in Producers, PushSize(p)
    PROVE  Inv'
  <1>. USE DEF PushSize
  <1>1. /\ Types /\ Exclusion /\ Items /\ Sizes /\ p \in Threads /\ p \notin poppers
        /\ pc[p] = "out" /\ mutex = Nil
        /\ size_ \in Nat /\ MaxSize \in Nat /\ MaxPushes \in Nat /\ Modulus \in Nat
    BY Entries, ProducerFacts, ConstantFacts DEF MayCall
  <1>2. PICK s \in Seq(Nodes) : List(s)
    BY DEF Inv
  <1>3. CASE size_ >= MaxSize
    <2>1. UNCHANGED <<setup, mutex, listVars, localVars, sure, histVars, fault>>
          /\ pushes' = pushes + 1 /\ pushes \in Nat /\ pushes < MaxPushes
      BY <1>1, <1>3 DEF Types
    <2>2. Types'
      BY <1>1, <2>1 DEF Types, setup, listVars, localVars, histVars, Live
    <2>3. Exclusion' /\ Sizes'
      BY <1>1, <2>1 DEF Exclusion, Sizes, setup, listVars, localVars, histVars, Claimed, Net,
                        PushClaims, PopClaimed
    <2>4. Items'
      BY <1>1, <2>1 DEF Items, localVars, histVars
    <2>5. List(s)'
      <3>1. UNCHANGED <<locked, poppers, node, head_, tail_, size_, pc, seen, mine, item, sure,
                        order, got>>
        BY <2>1 DEF setup, listVars, localVars, histVars
      <3>2. Ring(s)' /\ Made(s)'
        BY <1>2, <3>1 DEF List, Ring, Made, Makers, Linkers, Live
      <3>3. Front(s)' /\ Promise(s)'
        BY <1>2, <3>1 DEF List, Front, Promise, Linked
      <3>4. QED
        BY <3>2, <3>3 DEF List
    <2>6. QED
      BY <2>2, <2>3, <2>4, <2>5 DEF Inv
  <1>4. CASE ~(size_ >= MaxSize)
    <2>1. /\ pc' = [pc EXCEPT ![p] = "claim"]
          /\ seen' = [seen EXCEPT ![p] = size_]
          /\ item' = [item EXCEPT ![p] = pushes + 1]
          /\ mine' = mine
          /\ pushes' = pushes + 1 /\ pushes \in Nat /\ pushes < MaxPushes
          /\ mutex' = IF locked THEN p ELSE Nil
          /\ UNCHANGED <<locked, poppers, node, head_, tail_, size_, sure, order, got, closed>>
      BY <1>1, <1>4 DEF Types, Enter, setup, listVars, histVars
    <2>2. Types'
      BY <1>1, <1>4, <2>1, ConstantFacts DEF Types, Live, Places
    <2>3. Exclusion'
      BY <1>1, <2>1, ConstantFacts DEF Exclusion, Types
    <2>4. Sizes'
      <3>1. PushClaims' = PushClaims
        BY <1>1, <2>1 DEF PushClaims, Types
      <3>2. PopClaimed' <=> PopClaimed
        BY <1>1, <2>1, ProducerFacts DEF PopClaimed, Types
      <3>3. QED
        BY <1>1, <2>1, <3>1, <3>2 DEF Sizes, Claimed, Net
    <2>5. Items'
      BY <1>1, <2>1, ConstantFacts DEF Items, Types
    <2>6. Ring(s)' /\ Made(s)'
      <3>1. Makers' = Makers /\ Linkers' = Linkers /\ p \notin Makers /\ p \notin Linkers
        BY <1>1, <2>1 DEF Makers, Linkers, Types
      <3>2. \A q \in Threads : q # p => /\ pc'[q] = pc[q] /\ seen'[q] = seen[q]
                                        /\ mine'[q] = mine[q] /\ item'[q] = item[q]
        BY <1>1, <2>1 DEF Types
      <3>3. Makers \subseteq Threads /\ Linkers \subseteq Threads
        BY ConstantFacts DEF Makers, Linkers
      <3>4. QED
        BY <1>2, <2>1, <3>1, <3>2, <3>3, KeepRing DEF List
    <2>7. Front(s)' /\ Promise(s)'
      <3>1. Linked(s) => Linked(s)'
        BY <2>1 DEF Linked
      <3>2. QED
        BY <1>1, <1>2, <2>1, <3>1, KeepFront, ProducerFacts DEF List, Types
    <2>8. QED
      BY <2>2, <2>3, <2>4, <2>5, <2>6, <2>7 DEF Inv, List
  <1>5. QED
    BY <1>3, <1>4

\* A producer that is at a place between nothing and a node of its own, or back out, and
\* changes nothing of the list.
LEMMA ProducerKeepsList ==
    ASSUME Inv, NEW p \in Producers, NEW s \in Seq(Nodes), List(s),
           UNCHANGED <<locked, poppers, node, head_, tail_, order, got, sure>>,
           pc[p] \notin {"swing", "link", "unclaim"}, pc'[p] \notin {"swing", "link", "unclaim"},
           pc[p] # "out" \/ mutex = Nil,
           \A q \in Threads \ {p} : /\ pc'[q] = pc[q] /\ seen'[q] = seen[q]
                                    /\ mine'[q] = mine[q] /\ item'[q] = item[q]
    PROVE  List(s)'
  <1>1. \A q \in Producers : q \in Threads
    BY ConstantFacts
  <1>2. Makers' = Makers /\ Linkers' = Linkers /\ p \notin Makers /\ p \notin Linkers
    BY <1>1 DEF Makers, Linkers
  <1>3. (\A q \in Makers : q \in Threads \ {p}) /\ (\A q \in Linkers : q \in Threads \ {p})
    BY <1>1, <1>2 DEF Makers, Linkers
  <1>4. Ring(s)' /\ Made(s)'
    BY <1>2, <1>3, KeepRing DEF List
  <1>5. Linked(s) => Linked(s)'
    BY DEF Linked
  <1>6. \A c \in poppers : c \in Threads \ {p}
    BY ProducerFacts
  <1>7. Front(s)' /\ Promise(s)'
    BY <1>5, <1>6, KeepFront, ProducerFacts DEF List
  <1>8. QED
    BY <1>4, <1>7 DEF List

LEMMA PushClaimStep ==
    ASSUME Inv, NEW p \in Producers, PushClaim(p)
    PROVE  Inv'
  <1>1. /\ Types /\ Exclusion /\ Items /\ Sizes /\ p \in Threads /\ p \notin poppers
        /\ pc[p] = "claim" /\ seen[p] \in 0 .. Modulus - 1 /\ seen[p] < MaxSize
        /\ size_ \in Nat /\ MaxSize \in Nat /\ Modulus \in Nat /\ Modulus > MaxSize
        /\ Claimed \in Nat /\ Net \in Int
        /\ UNCHANGED <<locked, poppers, node, head_, tail_, pushes, sure, order, got>>
    BY Entries, ProducerFacts, ConstantFacts DEF PushClaim, Types, setup, histVars
  <1>2. PICK s \in Seq(Nodes) : List(s)
    BY DEF Inv
  <1>3. CASE size_ = seen[p]
    <2>1. /\ pc' = [pc EXCEPT ![p] = "new"] /\ size_' = (size_ + 1) % Modulus
          /\ UNCHANGED <<mutex, seen, mine, item>>
      BY <1>3 DEF PushClaim, Go
    <2>2. size_' = size_ + 1
      <3>1. size_ + 1 \in 0 .. Modulus - 1 /\ Modulus \in Nat \ {0}
        BY <1>1, <1>3
      <3>2. QED
        BY <2>1, <3>1, Modulo
    <2>3. Types'
      <3>1. size_' \in 0 .. Modulus - 1
        BY <1>1, <1>3, <2>2
      <3>2. QED
        BY <1>1, <2>1, <3>1, ConstantFacts DEF Types, Live, Places
    <2>4. Exclusion'
      BY <1>1, <2>1 DEF Exclusion, Types
    <2>5. Sizes'
      <3>1. PushClaims' = PushClaims \cup {p} /\ p \notin PushClaims
        BY <1>1, <2>1 DEF PushClaims, Types
      <3>2. Claimed' = Claimed + 1
        <4>1. Cardinality(PushClaims') = Cardinality(PushClaims) + 1
          BY <3>1, ClaimCount
        <4>2. QED
          BY <1>1, <4>1, Entries DEF Claimed
      <3>3. PopClaimed' <=> PopClaimed
        BY <1>1, <2>1, ProducerFacts DEF PopClaimed, Types
      <3>4. Net >= 0 /\ size_ = Net
        BY <1>1, <1>3 DEF Sizes, Net
      <3>5. Claimed <= Net + 1 /\ Net' = Net + 1
        BY <1>1, <3>2, <3>3 DEF Net
      <3>6. locked => Claimed = Net
        BY <1>1, ProducerFacts DEF Net, PopClaimed
      <3>7. QED
        BY <1>1, <1>3, <2>2, <3>2, <3>4, <3>5, <3>6 DEF Sizes
    <2>6. Items'
      BY <1>1, <2>1, ConstantFacts DEF Items, Types
    <2>7. List(s)'
      BY <1>1, <1>2, <2>1, ProducerKeepsList DEF Types
    <2>8. QED
      BY <2>3, <2>4, <2>5, <2>6, <2>7 DEF Inv
  <1>4. CASE size_ # seen[p]
    <2>1. /\ pc' = [pc EXCEPT ![p] = "out"] /\ seen' = [seen EXCEPT ![p] = Nil]
          /\ mine' = [mine EXCEPT ![p] = Nil] /\ item' = [item EXCEPT ![p] = 0]
          /\ mutex' = Nil /\ size_' = size_
      BY <1>4 DEF PushClaim, Leave
    <2>2. Types'
      BY <1>1, <2>1, ConstantFacts DEF Types, Live, Places
    <2>3. Exclusion'
      BY <1>1, <2>1, Alone DEF Exclusion, Types
    <2>4. Sizes'
      <3>1. PushClaims' = PushClaims
        BY <1>1, <2>1 DEF PushClaims, Types
      <3>2. PopClaimed' <=> PopClaimed
        BY <1>1, <2>1, ProducerFacts DEF PopClaimed, Types
      <3>3. QED
        BY <1>1, <2>1, <3>1, <3>2 DEF Sizes, Claimed, Net
    <2>5. Items'
      BY <1>1, <2>1, ConstantFacts DEF Items, Types
    <2>6. List(s)'
      BY <1>1, <1>2, <2>1, ProducerKeepsList DEF Types
    <2>7. QED
      BY <2>2, <2>3, <2>4, <2>5, <2>6 DEF Inv
  <1>5. QED
    BY <1>3, <1>4

LEMMA PushNewStep ==
    ASSUME Inv, NEW p \in Producers, PushNew(p)
    PROVE  Inv'
  <1>1. /\ Types /\ Exclusion /\ Items /\ Sizes /\ p \in Threads /\ p \notin poppers
        /\ pc[p] = "new" /\ pc' = [pc EXCEPT ![p] = "swing"]
        /\ seen' = [seen EXCEPT ![p] = tail_]
        /\ UNCHANGED <<mutex, locked, poppers, head_, tail_, size_, item, pushes, sure, order, got>>
    BY Entries, ProducerFacts DEF PushNew, Go, setup, histVars
  <1>2. PICK s \in Seq(Nodes) : List(s)
    BY DEF Inv
  <1>3. PICK n \in Nodes \ Live :
           /\ node' = [m \in Live \cup {n} |->
                         IF m = n THEN [entity |-> item[p], next |-> Nil] ELSE node[m]]
           /\ mine' = [mine EXCEPT ![p] = n]
    BY DEF PushNew
  <1>4. /\ Live' = Live \cup {n}
        /\ node'[n].entity = item[p] /\ node'[n].next = Nil /\ n \notin Live
        /\ \A m \in Live : node'[m] = node[m]
    BY <1>3 DEF Live
  <1>5. Types'
    <2>1. item[p] \in Nat
      BY <1>1 DEF Types
    <2>2. [entity |-> item[p], next |-> Nil] \in [entity : Nat, next : Nodes \cup {Nil}]
      BY <2>1
    <2>3. node' \in [Live' -> [entity : Nat, next : Nodes \cup {Nil}]] /\ Live' \subseteq Nodes
      BY <1>1, <1>3, <1>4, <2>2 DEF Types
    <2>4. QED
      BY <1>1, <1>3, <2>3, ConstantFacts DEF Types, Places
  <1>6. Exclusion'
    BY <1>1 DEF Exclusion, Types
  <1>7. Sizes'
    <2>1. PushClaims' = PushClaims
      BY <1>1 DEF PushClaims, Types
    <2>2. PopClaimed' <=> PopClaimed
      BY <1>1, ProducerFacts DEF PopClaimed, Types
    <2>3. QED
      BY <1>1, <2>1, <2>2 DEF Sizes, Claimed, Net
  <1>8. Items'
    BY <1>1, ConstantFacts DEF Items, Types
  <1>9. Len(s) \in Nat /\ \A i \in 1 .. Len(s) : s[i] \in Live /\ s[i] # n
    BY <1>2, <1>4, LenProperties DEF List, Ring
  <1>10. \A q \in Threads \ {p} : pc'[q] = pc[q] /\ seen'[q] = seen[q] /\ mine'[q] = mine[q]
    BY <1>1, <1>3 DEF Types
  <1>11. /\ Makers' = Makers \cup {p} /\ p \notin Makers /\ Linkers' = Linkers /\ p \notin Linkers
         /\ Makers \subseteq Threads \ {p} /\ Linkers \subseteq Threads \ {p}
         /\ mine'[p] = n /\ pc'[p] = "swing"
    BY <1>1, <1>3, ConstantFacts DEF Makers, Linkers, Types
  <1>12. Ring(s)'
    <2>1. \A q \in Producers : pc[q] = "link" => pc'[q] = "link" /\ seen'[q] = seen[q]
      BY <1>1, <1>10, ConstantFacts
    <2>2. Len(s) >= 1 /\ \A i \in 1 .. Len(s) : node'[s[i]] = node[s[i]]
      BY <1>2, <1>4, <1>9 DEF List, Ring
    <2>3. \A i \in 1 .. Len(s) - 1 : i \in 1 .. Len(s) /\ i + 1 \in 1 .. Len(s)
      BY <1>9
    <2>4. \A i \in 1 .. Len(s) - 1 :
             \/ node'[s[i]].next = s[i + 1]
             \/ /\ node'[s[i]].next = Nil
                /\ \E q \in Producers : pc'[q] = "link" /\ seen'[q] = s[i]
      <3>1. TAKE i \in 1 .. Len(s) - 1
      <3>2. node'[s[i]] = node[s[i]]
        BY <2>2, <2>3
      <3>3. CASE node[s[i]].next = s[i + 1]
        BY <3>2, <3>3
      <3>4. CASE node[s[i]].next = Nil /\ \E q \in Producers : pc[q] = "link" /\ seen[q] = s[i]
        BY <2>1, <3>2, <3>4
      <3>5. QED
        BY <1>2, <3>3, <3>4 DEF List, Ring
    <2>5. \A i \in 1 .. Len(s) : s[i] \in Live'
      BY <1>4, <1>9
    <2>6. tail_' = s[Len(s)] /\ Len(order') = Len(got') + Len(s) - 1
      BY <1>1, <1>2 DEF List, Ring
    <2>7. node'[s[Len(s)]].next = Nil
      BY <1>2, <1>9, <2>2 DEF List, Ring
    <2>8. \A i \in 1 .. Len(s) - 1 : node'[s[i + 1]].entity = order'[Len(got') + i]
      <3>1. \A i \in 1 .. Len(s) - 1 : node[s[i + 1]].entity = order[Len(got) + i]
        BY <1>2 DEF List, Ring
      <3>2. QED
        BY <1>1, <2>2, <2>3, <3>1
    <2>9. QED
      BY <1>2, <2>2, <2>4, <2>5, <2>6, <2>7, <2>8 DEF List, Ring
  <1>13. Made(s)'
    <2>1. \A q \in Makers : mine[q] \in Live /\ mine[q] # n /\ mine'[q] = mine[q]
                            /\ pc'[q] = pc[q] /\ item'[q] = item[q]
      BY <1>1, <1>2, <1>4, <1>10, <1>11 DEF List, Made
    <2>2. \A q \in Linkers : seen'[q] = seen[q] /\ mine'[q] = mine[q]
      BY <1>10, <1>11
    <2>3. \A q \in Makers' : /\ mine'[q] \in Live'
                             /\ \A i \in 1 .. Len(s) : s[i] # mine'[q]
                             /\ node'[mine'[q]].next = Nil
                             /\ pc'[q] = "swing" => node'[mine'[q]].entity = item'[q]
                             /\ \A r \in Makers' : mine'[q] = mine'[r] => q = r
      BY <1>1, <1>2, <1>4, <1>9, <1>11, <2>1 DEF List, Made
    <2>4. \A q \in Linkers : /\ \E i \in 1 .. Len(s) - 1 :
                                   seen[q] = s[i] /\ mine[q] = s[i + 1] /\ node'[s[i]].next = Nil
                             /\ \A r \in Linkers : seen[q] = seen[r] => q = r
      BY <1>2, <1>4, <1>9 DEF List, Made
    <2>5. \A m \in Live' : (\E i \in 1 .. Len(s) : s[i] = m) \/ \E q \in Makers' : mine'[q] = m
      BY <1>2, <1>4, <1>11, <2>1 DEF List, Made
    <2>6. QED
      BY <1>11, <2>2, <2>3, <2>4, <2>5 DEF Made
  <1>14. Front(s)' /\ Promise(s)'
    <2>1. Linked(s) => Linked(s)'
      BY <1>4, <1>9 DEF Linked
    <2>2. \A c \in poppers : c \in Threads \ {p}
      BY ProducerFacts
    <2>3. QED
      BY <1>1, <1>2, <1>10, <2>1, <2>2, KeepFront, ProducerFacts DEF List
  <1>15. QED
    BY <1>5, <1>6, <1>7, <1>8, <1>12, <1>13, <1>14 DEF Inv, List

\* The new node becomes the last of the list, linked or not.
LEMMA SwingList ==
    ASSUME Inv, NEW p \in Producers, NEW s \in Seq(Nodes), List(s), pc[p] = "swing",
           tail_ = seen[p], tail_' = mine[p], order' = Append(order, item[p]),
           pc' = [pc EXCEPT ![p] = "link"],
           UNCHANGED <<locked, poppers, node, head_, seen, mine, item, sure, got>>
    PROVE  List(Append(s, mine[p]))'
  <1>1. /\ Types /\ Items /\ p \in Threads /\ mine[p] \in Nodes /\ item[p] \in Nat
        /\ order \in Seq(Nat) /\ Len(order) \in Nat /\ Len(got) \in Nat
        /\ pc'[p] = "link" /\ \A q \in Threads \ {p} : pc'[q] = pc[q]
        /\ Producers \subseteq Threads
    BY Entries, ProducerFacts, ConstantFacts DEF Types
  <1>2. PICK m \in Nodes : m = mine[p]
    BY <1>1
  <1>3. PICK r \in Seq(Nodes) : r = Append(s, m)
    BY AppendProperties
  <1>4. /\ Len(s) \in Nat /\ Len(s) >= 1 /\ Len(r) = Len(s) + 1
        /\ \A i \in 1 .. Len(s) : r[i] = s[i]
        /\ r[Len(s) + 1] = m
    BY <1>2, <1>3, AppendProperties, LenProperties DEF List, Ring
  <1>5. /\ Len(order') = Len(order) + 1 /\ order'[Len(order) + 1] = item[p]
        /\ \A i \in 1 .. Len(order) : order'[i] = order[i]
    BY <1>1, AppendProperties
  <1>6. /\ p \in Makers /\ p \notin Linkers
        /\ Makers' = Makers \ {p} /\ Linkers' = Linkers \cup {p}
    BY <1>1 DEF Makers, Linkers
  <1>7. /\ m \in Live /\ node[m].next = Nil /\ node[m].entity = item[p]
        /\ \A i \in 1 .. Len(s) : s[i] # m
    BY <1>2, <1>6 DEF List, Made
  <1>8. Live' = Live
    BY DEF Live
  <1>9. seen[p] = s[Len(s)] /\ node[s[Len(s)]].next = Nil
    BY DEF List, Ring
  <1>10. Ring(r)'
    <2>1. \A i, j \in 1 .. Len(r) : r[i] = r[j] => i = j
      <3>1. \A i, j \in 1 .. Len(s) : s[i] = s[j] => i = j
        BY DEF List, Ring
      <3>2. QED
        BY <1>4, <1>7, <3>1
    <2>2. \A i \in 1 .. Len(r) : r[i] \in Live'
      <3>1. \A i \in 1 .. Len(s) : s[i] \in Live
        BY DEF List, Ring
      <3>2. QED
        BY <1>4, <1>7, <1>8, <3>1
    <2>3. tail_' = r[Len(r)] /\ node'[r[Len(r)]].next = Nil /\ Len(r) >= 1
      BY <1>2, <1>4, <1>7
    <2>4. ASSUME NEW i \in 1 .. Len(r) - 1
          PROVE  \/ node'[r[i]].next = r[i + 1]
                 \/ /\ node'[r[i]].next = Nil
                    /\ \E q \in Producers : pc'[q] = "link" /\ seen'[q] = r[i]
      <3>1. CASE i = Len(s)
        BY <1>1, <1>4, <1>9, <3>1
      <3>2. CASE i # Len(s)
        <4>1. i \in 1 .. Len(s) - 1 /\ r[i] = s[i] /\ r[i + 1] = s[i + 1]
          BY <1>4, <3>2
        <4>2. CASE node[s[i]].next = s[i + 1]
          BY <4>1, <4>2
        <4>3. CASE /\ node[s[i]].next = Nil
                   /\ \E q \in Producers : pc[q] = "link" /\ seen[q] = s[i]
          <5>1. PICK q \in Producers : pc[q] = "link" /\ seen[q] = s[i]
            BY <4>3
          <5>2. pc'[q] = "link"
            BY <1>1, <5>1
          <5>3. QED
            BY <4>1, <4>3, <5>1, <5>2
        <4>4. QED
          BY <4>1, <4>2, <4>3 DEF List, Ring
      <3>3. QED
        BY <3>1, <3>2
    <2>5. Len(order') = Len(got') + Len(r) - 1
      BY <1>1, <1>4, <1>5 DEF List, Ring
    <2>6. ASSUME NEW i \in 1 .. Len(r) - 1
          PROVE  node'[r[i + 1]].entity = order'[Len(got') + i]
      <3>1. Len(order) = Len(got) + Len(s) - 1
        BY DEF List, Ring
      <3>2. CASE i = Len(s)
        BY <1>1, <1>4, <1>5, <1>7, <3>1, <3>2
      <3>3. CASE i # Len(s)
        <4>1. i \in 1 .. Len(s) - 1 /\ r[i + 1] = s[i + 1] /\ Len(got) + i \in 1 .. Len(order)
          BY <1>1, <1>4, <3>1, <3>3
        <4>2. node[s[i + 1]].entity = order[Len(got) + i]
          BY <4>1 DEF List, Ring
        <4>3. QED
          BY <1>5, <4>1, <4>2
      <3>4. QED
        BY <3>2, <3>3
    <2>7. QED
      BY <2>1, <2>2, <2>3, <2>4, <2>5, <2>6 DEF Ring
  <1>11. Made(r)'
    <2>1. \A q \in Makers' : /\ mine'[q] \in Live'
                             /\ node'[mine'[q]].next = Nil
                             /\ \A u \in Makers' : mine'[q] = mine'[u] => q = u
      BY <1>6, <1>8 DEF List, Made
    <2>2. ASSUME NEW q \in Makers', NEW i \in 1 .. Len(r) PROVE r[i] # mine'[q]
      <3>1. q \in Makers /\ q # p /\ mine[q] # m
        BY <1>2, <1>6 DEF List, Made
      <3>2. \A j \in 1 .. Len(s) : s[j] # mine[q]
        BY <3>1 DEF List, Made
      <3>3. QED
        BY <1>4, <3>1, <3>2
    <2>3. ASSUME NEW q \in Makers', pc'[q] = "swing" PROVE node'[mine'[q]].entity = item'[q]
      <3>1. q \in Makers /\ pc[q] = "swing"
        BY <1>1, <1>6, <2>3 DEF Makers
      <3>2. QED
        BY <3>1 DEF List, Made
    <2>4. ASSUME NEW q \in Linkers
          PROVE  \E i \in 1 .. Len(s) - 1 :
                     seen[q] = s[i] /\ mine[q] = s[i + 1] /\ node[s[i]].next = Nil
      BY DEF List, Made
    <2>5. ASSUME NEW q \in Linkers'
          PROVE  \E i \in 1 .. Len(r) - 1 :
                     seen'[q] = r[i] /\ mine'[q] = r[i + 1] /\ node'[r[i]].next = Nil
      <3>1. CASE q = p
        BY <1>2, <1>4, <1>9, <3>1
      <3>2. CASE q \in Linkers
        <4>1. PICK i \in 1 .. Len(s) - 1 :
                     seen[q] = s[i] /\ mine[q] = s[i + 1] /\ node[s[i]].next = Nil
          BY <2>4, <3>2
        <4>2. i \in 1 .. Len(r) - 1 /\ r[i] = s[i] /\ r[i + 1] = s[i + 1]
          BY <1>4, <4>1
        <4>3. QED
          BY <4>1, <4>2
      <3>3. QED
        BY <1>6, <3>1, <3>2
    <2>6. ASSUME NEW q \in Linkers', NEW u \in Linkers', seen'[q] = seen'[u] PROVE q = u
      <3>1. \A v \in Linkers : seen[v] # seen[p]
        <4>1. TAKE v \in Linkers
        <4>2. PICK i \in 1 .. Len(s) - 1 : seen[v] = s[i]
          BY <2>4
        <4>3. i \in 1 .. Len(s) /\ Len(s) \in 1 .. Len(s) /\ i # Len(s)
          BY <1>4, <4>2
        <4>4. QED
          BY <1>9, <4>2, <4>3 DEF List, Ring
      <3>2. \A v, w \in Linkers : seen[v] = seen[w] => v = w
        BY DEF List, Made
      <3>3. QED
        BY <1>6, <2>6, <3>1, <3>2
    <2>7. ASSUME NEW n \in Live'
          PROVE  (\E i \in 1 .. Len(r) : r[i] = n) \/ \E q \in Makers' : mine'[q] = n
      <3>1. (\E i \in 1 .. Len(s) : s[i] = n) \/ \E q \in Makers : mine[q] = n
        BY <1>8 DEF List, Made
      <3>2. QED
        BY <1>2, <1>4, <1>6, <3>1
    <2>8. QED
      BY <2>1, <2>2, <2>3, <2>5, <2>6, <2>7 DEF Made
  <1>12. Front(r)' /\ Promise(r)'
    <2>1. Linked(s) => Linked(r)' /\ r[2] = s[2]
      BY <1>4 DEF Linked
    <2>2. r[1] = s[1]
      BY <1>4
    <2>3. \A c \in poppers : pc'[c] = pc[c]
      BY <1>1, ProducerFacts
    <2>4. locked => \A c \in poppers : pc[c] = "out"
      BY ProducerFacts
    <2>5. QED
      BY <2>1, <2>2, <2>3, <2>4, KeepFront DEF List
  <1>13. List(r)'
    BY <1>10, <1>11, <1>12 DEF List
  <1>14. QED
    BY <1>2, <1>3, <1>13

LEMMA PushSwingStep ==
    ASSUME Inv, NEW p \in Producers, PushSwing(p)
    PROVE  Inv'
  <1>1. /\ Types /\ Exclusion /\ Items /\ Sizes /\ p \in Threads /\ p \notin poppers
        /\ pc[p] = "swing" /\ item[p] \in Nat /\ mine[p] \in Nodes
        /\ order \in Seq(Nat) /\ got \in Seq(Nat) /\ Len(order) \in Nat /\ Len(got) \in Nat
        /\ \A c \in poppers : c \in Threads /\ c # p
        /\ UNCHANGED <<mutex, locked, poppers, node, head_, size_, seen, mine, item, pushes, sure,
                       got>>
    BY Entries, ProducerFacts DEF PushSwing, Types, setup, Go
  <1>2. PICK s \in Seq(Nodes) : List(s)
    BY DEF Inv
  <1>3. CASE tail_ = seen[p]
    <2>1. /\ pc' = [pc EXCEPT ![p] = "link"] /\ tail_' = mine[p]
          /\ order' = Append(order, item[p])
      BY <1>3 DEF PushSwing, Go
    <2>2. /\ order' \in Seq(Nat) /\ Len(order') = Len(order) + 1
          /\ order'[Len(order) + 1] = item[p]
          /\ \A i \in 1 .. Len(order) : order'[i] = order[i]
      BY <1>1, <2>1, AppendProperties
    <2>3. Types'
      BY <1>1, <2>1, <2>2, ConstantFacts DEF Types, Live, Places
    <2>4. Exclusion'
      BY <1>1, <2>1 DEF Exclusion, Types
    <2>5. Sizes'
      <3>1. PushClaims' = PushClaims \ {p} /\ p \in PushClaims
        BY <1>1, <2>1 DEF PushClaims, Types
      <3>2. Claimed' = Claimed
        <4>1. Cardinality(PushClaims') = Cardinality(PushClaims) - 1
          BY <3>1, ClaimCount
        <4>2. QED
          BY <1>1, <2>2, <4>1, Entries DEF Claimed
      <3>3. PopClaimed' <=> PopClaimed
        BY <1>1, <2>1 DEF PopClaimed, Types
      <3>4. QED
        BY <1>1, <3>2, <3>3 DEF Sizes, Net
    <2>6. Items'
      <3>1. /\ item[p] \in 1 .. pushes /\ \A i \in 1 .. Len(order) : order[i] # item[p]
            /\ \A q \in Producers : pc[q] \in {"claim", "new", "swing"} /\ item[p] = item[q]
                                      => p = q
        BY <1>1 DEF Items
      <3>2. \A i \in 1 .. Len(order') : i \in 1 .. Len(order) \/ i = Len(order) + 1
        BY <1>1, <2>2
      <3>3. (\A i \in 1 .. Len(order') : order'[i] \in 1 .. pushes)
            /\ \A i, j \in 1 .. Len(order') : order'[i] = order'[j] => i = j
        <4>1. \A i \in 1 .. Len(order) : order[i] \in 1 .. pushes
          BY <1>1 DEF Items
        <4>2. \A i, j \in 1 .. Len(order) : order[i] = order[j] => i = j
          BY <1>1 DEF Items
        <4>3. QED
          BY <2>2, <3>1, <3>2, <4>1, <4>2
      <3>4. ASSUME NEW q \in Producers, pc'[q] \in {"claim", "new", "swing"}
            PROVE  /\ q # p /\ pc[q] \in {"claim", "new", "swing"}
                   /\ item[q] \in 1 .. pushes /\ item[q] # item[p]
                   /\ \A i \in 1 .. Len(order') : order'[i] # item[q]
        <4>1. q # p /\ pc[q] \in {"claim", "new", "swing"}
          BY <1>1, <2>1, <3>4, ConstantFacts DEF Types
        <4>2. item[q] # item[p] /\ item[q] \in 1 .. pushes
          BY <1>1, <3>1, <4>1 DEF Items
        <4>3. \A i \in 1 .. Len(order) : order[i] # item[q]
          BY <1>1, <4>1 DEF Items
        <4>4. QED
          BY <2>2, <3>2, <4>1, <4>2, <4>3
      <3>5. \A i \in 1 .. Len(got) : got[i] = order[i] /\ i \in 1 .. Len(order)
        BY <1>1 DEF Items
      <3>6. \A q, u \in Producers : pc[q] \in {"claim", "new", "swing"}
                /\ pc[u] \in {"claim", "new", "swing"} /\ item[q] = item[u] => q = u
        BY <1>1 DEF Items
      <3>7. pushes' <= MaxPushes /\ Len(got') <= Len(order')
        BY <1>1, <2>2 DEF Items
      <3>8. \A i \in 1 .. Len(got') : got'[i] = order'[i]
        BY <1>1, <2>2, <3>5
      <3>9. QED
        BY <1>1, <3>3, <3>4, <3>6, <3>7, <3>8 DEF Items
    <2>7. List(Append(s, mine[p]))'
      BY <1>1, <1>2, <1>3, <2>1, SwingList
    <2>8. Append(s, mine[p])' = Append(s, mine[p]) /\ Append(s, mine[p]) \in Seq(Nodes)
      BY <1>1, AppendProperties
    <2>9. QED
      BY <2>3, <2>4, <2>5, <2>6, <2>7, <2>8 DEF Inv
  <1>4. CASE tail_ # seen[p]
    <2>1. /\ pc' = [pc EXCEPT ![p] = "unclaim"] /\ UNCHANGED <<tail_, order>>
      BY <1>4 DEF PushSwing, Go
    <2>2. Types'
      BY <1>1, <2>1, ConstantFacts DEF Types, Live, Places
    <2>3. Exclusion'
      BY <1>1, <2>1 DEF Exclusion, Types
    <2>4. Sizes'
      <3>1. PushClaims' = PushClaims
        BY <1>1, <2>1 DEF PushClaims, Types
      <3>2. PopClaimed' <=> PopClaimed
        BY <1>1, <2>1 DEF PopClaimed, Types
      <3>3. QED
        BY <1>1, <2>1, <3>1, <3>2 DEF Sizes, Claimed, Net
    <2>5. Items'
      BY <1>1, <2>1, ConstantFacts DEF Items, Types
    <2>6. Ring(s)' /\ Made(s)'
      <3>1. /\ Makers' = Makers /\ Linkers' = Linkers /\ p \notin Linkers
            /\ \A q \in Makers : pc'[q] = "swing" => pc[q] = "swing"
        BY <1>1, <2>1, ConstantFacts DEF Makers, Linkers, Types
      <3>2. QED
        BY <1>1, <1>2, <2>1, <3>1, KeepRing DEF List
    <2>7. Front(s)' /\ Promise(s)'
      <3>1. Linked(s) => Linked(s)'
        BY <1>1 DEF Linked
      <3>2. \A c \in poppers : pc'[c] = pc[c]
        BY <1>1, <2>1 DEF Types
      <3>3. locked => \A c \in poppers : pc[c] = "out"
        BY <1>1, ProducerFacts
      <3>4. QED
        BY <1>1, <1>2, <3>1, <3>2, <3>3, KeepFront DEF List
    <2>8. QED
      BY <2>2, <2>3, <2>4, <2>5, <2>6, <2>7 DEF Inv, List
  <1>5. QED
    BY <1>3, <1>4

\* A node that was hung behind tail_ and not linked is still there, and so is the one before.
LEMMA PushLinkStep ==
    ASSUME Inv, NEW p \in Producers, PushLink(p)
    PROVE  Inv' /\ fault' = fault
  <1>1. /\ Types /\ Exclusion /\ Items /\ Sizes /\ p \in Threads /\ p \notin poppers
        /\ pc[p] = "link"
        /\ \A c \in poppers : c \in Threads \ {p}
    BY Entries, ProducerFacts DEF PushLink
  <1>2. PICK s \in Seq(Nodes) : List(s)
    BY DEF Inv
  <1>3. PICK k \in 1 .. Len(s) - 1 :
           seen[p] = s[k] /\ mine[p] = s[k + 1] /\ node[s[k]].next = Nil
    BY <1>1, <1>2 DEF List, Made, Linkers
  <1>4. /\ Len(s) \in Nat /\ Len(s) >= 1 /\ k \in 1 .. Len(s) /\ k + 1 \in 1 .. Len(s)
        /\ \A i \in 1 .. Len(s) : s[i] \in Live
        /\ \A i, j \in 1 .. Len(s) : s[i] = s[j] => i = j
    <2>1. Len(s) \in Nat
      BY LenProperties
    <2>2. k \in 1 .. Len(s) /\ k + 1 \in 1 .. Len(s)
      BY <2>1
    <2>3. Ring(s)
      BY <1>2 DEF List
    <2>4. QED
      BY <2>1, <2>2, <2>3 DEF Ring
  <1>5. seen[p] \in Live /\ mine[p] \in Nodes
    BY <1>1, <1>3, <1>4 DEF Types
  <1>6. /\ node' = [node EXCEPT ![seen[p]].next = mine[p]]
        /\ pc' = [pc EXCEPT ![p] = "out"] /\ seen' = [seen EXCEPT ![p] = Nil]
        /\ mine' = [mine EXCEPT ![p] = Nil] /\ item' = [item EXCEPT ![p] = 0]
        /\ mutex' = Nil
        /\ UNCHANGED <<locked, poppers, head_, tail_, size_, pushes, sure, order, got, fault>>
    BY <1>5 DEF PushLink, Leave, setup, histVars
  <1>7. /\ Live' = Live /\ \A n \in Live : /\ node'[n].entity = node[n].entity
                                           /\ n # s[k] => node'[n] = node[n]
        /\ node'[s[k]].next = s[k + 1]
    BY <1>1, <1>3, <1>4, <1>5, <1>6 DEF Types, Live
  <1>8. Types'
    <2>1. node' \in [Live' -> [entity : Nat, next : Nodes \cup {Nil}]]
      BY <1>1, <1>5, <1>6, <1>7 DEF Types
    <2>2. QED
      BY <1>1, <1>6, <1>7, <2>1, ConstantFacts DEF Types, Places
  <1>9. Exclusion'
    BY <1>1, <1>6, Alone DEF Exclusion, Types
  <1>10. Sizes'
    <2>1. PushClaims' = PushClaims
      BY <1>1, <1>6 DEF PushClaims, Types
    <2>2. PopClaimed' <=> PopClaimed
      BY <1>1, <1>6 DEF PopClaimed, Types
    <2>3. QED
      BY <1>1, <1>6, <2>1, <2>2 DEF Sizes, Claimed, Net
  <1>11. Items'
    BY <1>1, <1>6, ConstantFacts DEF Items, Types
  <1>12. /\ Makers' = Makers /\ Linkers' = Linkers \ {p} /\ p \in Linkers
         /\ Makers \subseteq Threads \ {p} /\ Linkers \subseteq Threads
         /\ \A q \in Threads \ {p} : /\ pc'[q] = pc[q] /\ seen'[q] = seen[q]
                                     /\ mine'[q] = mine[q] /\ item'[q] = item[q]
    BY <1>1, <1>6, ConstantFacts DEF Makers, Linkers, Types
  <1>13. Ring(s)'
    <2>1. ASSUME NEW i \in 1 .. Len(s) - 1
          PROVE  \/ node'[s[i]].next = s[i + 1]
                 \/ /\ node'[s[i]].next = Nil
                    /\ \E q \in Producers : pc'[q] = "link" /\ seen'[q] = s[i]
      <3>1. CASE i = k
        BY <1>7, <3>1
      <3>2. CASE i # k
        <4>1. i \in 1 .. Len(s) /\ s[i] # s[k] /\ node'[s[i]] = node[s[i]]
          BY <1>4, <1>7, <3>2
        <4>2. CASE node[s[i]].next = s[i + 1]
          BY <4>1, <4>2
        <4>3. CASE /\ node[s[i]].next = Nil
                   /\ \E q \in Producers : pc[q] = "link" /\ seen[q] = s[i]
          <5>1. PICK q \in Producers : pc[q] = "link" /\ seen[q] = s[i]
            BY <4>3
          <5>2. q \in Threads \ {p}
            BY <1>3, <4>1, <5>1, ConstantFacts
          <5>3. QED
            BY <1>12, <4>1, <4>3, <5>1, <5>2
        <4>4. QED
          BY <1>2, <4>2, <4>3 DEF List, Ring
      <3>3. QED
        BY <3>1, <3>2
    <2>2. node'[s[Len(s)]].next = Nil
      <3>1. Len(s) \in 1 .. Len(s) /\ Len(s) # k
        BY <1>4
      <3>2. s[Len(s)] # s[k] /\ s[Len(s)] \in Live
        BY <1>4, <3>1
      <3>3. QED
        BY <1>2, <1>7, <3>2 DEF List, Ring
    <2>3. \A i \in 1 .. Len(s) - 1 : node'[s[i + 1]].entity = order'[Len(got') + i]
      <3>1. TAKE i \in 1 .. Len(s) - 1
      <3>2. s[i + 1] \in Live
        BY <1>4
      <3>3. QED
        BY <1>2, <1>6, <1>7, <3>2 DEF List, Ring
    <2>4. Len(order') = Len(got') + Len(s) - 1 /\ tail_' = s[Len(s)]
      BY <1>2, <1>6 DEF List, Ring
    <2>5. QED
      BY <1>4, <1>7, <2>1, <2>2, <2>3, <2>4 DEF Ring
  <1>14. Made(s)'
    <2>1. ASSUME NEW q \in Makers
          PROVE  /\ mine'[q] \in Live' /\ mine'[q] = mine[q]
                 /\ \A i \in 1 .. Len(s) : s[i] # mine'[q]
                 /\ node'[mine'[q]].next = Nil
                 /\ pc'[q] = "swing" => node'[mine'[q]].entity = item'[q]
                 /\ \A u \in Makers : mine[q] = mine[u] => q = u
      <3>1. /\ mine[q] \in Live /\ (\A i \in 1 .. Len(s) : s[i] # mine[q])
            /\ node[mine[q]].next = Nil
            /\ pc[q] = "swing" => node[mine[q]].entity = item[q]
            /\ \A u \in Makers : mine[q] = mine[u] => q = u
        BY <1>2 DEF List, Made
      <3>2. /\ mine'[q] = mine[q] /\ pc'[q] = pc[q] /\ item'[q] = item[q]
        BY <1>12
      <3>3. QED
        BY <1>4, <1>7, <3>1, <3>2
    <2>2. ASSUME NEW q \in Linkers'
          PROVE  /\ \E i \in 1 .. Len(s) - 1 :
                       seen'[q] = s[i] /\ mine'[q] = s[i + 1] /\ node'[s[i]].next = Nil
                 /\ \A u \in Linkers' : seen'[q] = seen'[u] => q = u
      <3>1. q \in Linkers /\ q # p /\ q \in Threads
        BY <1>12
      <3>2. \A u \in Linkers : seen[q] = seen[u] => q = u
        BY <1>2, <3>1 DEF List, Made
      <3>3. PICK i \in 1 .. Len(s) - 1 :
                   seen[q] = s[i] /\ mine[q] = s[i + 1] /\ node[s[i]].next = Nil
        BY <1>2, <3>1 DEF List, Made
      <3>4. s[i] # s[k] /\ s[i] \in Live
        BY <1>3, <1>4, <1>12, <3>1, <3>2, <3>3
      <3>5. QED
        BY <1>7, <1>12, <3>1, <3>2, <3>3, <3>4
    <2>3. \A n \in Live' : (\E i \in 1 .. Len(s) : s[i] = n) \/ \E q \in Makers : mine'[q] = n
      BY <1>2, <1>7, <2>1 DEF List, Made
    <2>4. QED
      BY <1>12, <2>1, <2>2, <2>3 DEF Made
  <1>15. Front(s)' /\ Promise(s)'
    <2>1. Linked(s) => Linked(s)'
      <3>1. ASSUME Linked(s) PROVE s[1] # s[k] /\ s[1] \in Live
        BY <1>3, <1>4, <3>1, <1>1, <1>2, ConstantFacts DEF Linked
      <3>2. QED
        BY <1>7, <3>1 DEF Linked
    <2>2. locked => \A c \in poppers : pc[c] = "out"
      BY <1>1, ProducerFacts
    <2>3. QED
      BY <1>1, <1>2, <1>6, <1>12, <2>1, <2>2, KeepFront DEF List
  <1>16. QED
    BY <1>6, <1>8, <1>9, <1>10, <1>11, <1>2, <1>13, <1>14, <1>15 DEF Inv, List

LEMMA PushUnclaimStep ==
    ASSUME Inv, NEW p \in Producers, PushUnclaim(p)
    PROVE  Inv'
  <1>1. /\ Types /\ Exclusion /\ Items /\ Sizes /\ p \in Threads /\ p \notin poppers
        /\ pc[p] = "unclaim" /\ p \in Makers /\ p \in PushClaims
        /\ \A c \in poppers : c \in Threads \ {p}
        /\ node' = Free(mine[p]) /\ size_' = (size_ + Modulus - 1) % Modulus
        /\ pc' = [pc EXCEPT ![p] = "out"] /\ seen' = [seen EXCEPT ![p] = Nil]
        /\ mine' = [mine EXCEPT ![p] = Nil] /\ item' = [item EXCEPT ![p] = 0]
        /\ mutex' = Nil
        /\ UNCHANGED <<locked, poppers, head_, tail_, pushes, sure, order, got, fault>>
    BY Entries, ProducerFacts DEF PushUnclaim, Leave, Makers, setup, histVars
  <1>2. PICK s \in Seq(Nodes) : List(s)
    BY DEF Inv
  <1>3. PICK m \in Live : mine[p] = m
    BY <1>1, <1>2 DEF List, Made
  <1>4. /\ Live' = Live \ {m} /\ \A n \in Live' : node'[n] = node[n]
    BY <1>1, <1>3 DEF Free, Live
  <1>5. /\ Len(s) \in Nat /\ Len(s) >= 1
        /\ \A i \in 1 .. Len(s) : s[i] \in Live' /\ node'[s[i]] = node[s[i]]
    <2>1. \A i \in 1 .. Len(s) : s[i] \in Live /\ s[i] # m
      BY <1>1, <1>2, <1>3 DEF List, Ring, Made
    <2>2. QED
      BY <1>2, <1>4, <2>1, LenProperties DEF List, Ring
  <1>6. size_' \in 0 .. Modulus - 1 /\ size_' = IF size_ = 0 THEN Modulus - 1 ELSE size_ - 1
    <2>1. Modulus \in Nat \ {0} /\ size_ \in 0 .. Modulus - 1
      BY <1>1, ConstantFacts DEF Types
    <2>2. (size_ + Modulus - 1) % Modulus = IF size_ = 0 THEN Modulus - 1 ELSE size_ - 1
      BY <2>1, WrapsAround
    <2>3. QED
      BY <1>1, <2>1, <2>2
  <1>7. Types'
    <2>1. node' \in [Live' -> [entity : Nat, next : Nodes \cup {Nil}]] /\ Live' \subseteq Nodes
      BY <1>1, <1>3, <1>4 DEF Types, Free
    <2>2. QED
      BY <1>1, <1>6, <2>1, ConstantFacts DEF Types, Places
  <1>8. Exclusion'
    BY <1>1, Alone DEF Exclusion, Types
  <1>9. Sizes'
    <2>1. PushClaims' = PushClaims \ {p}
      BY <1>1 DEF PushClaims, Types
    <2>2. Cardinality(PushClaims') = Cardinality(PushClaims) - 1 /\ Cardinality(PushClaims) >= 1
      BY <1>1, <2>1, ClaimCount
    <2>3. Claimed' = Claimed - 1 /\ Claimed >= 1 /\ Claimed \in Nat
      BY <1>1, <2>2, Entries DEF Claimed, Items
    <2>4. PopClaimed' <=> PopClaimed
      BY <1>1 DEF PopClaimed, Types
    <2>5. Net' = Net - 1 /\ Net >= 0 /\ Net \in Int /\ size_ = Net
      BY <1>1, <2>3, <2>4 DEF Net, Sizes
    <2>6. size_' = IF Net' < 0 THEN Net' + Modulus ELSE Net'
      BY <1>6, <2>5, ConstantFacts
    <2>7. Claimed' <= MaxSize + 1 /\ (locked => Claimed' <= MaxSize)
      BY <1>1, <2>3, ConstantFacts DEF Sizes
    <2>8. QED
      BY <1>1, <2>6, <2>7 DEF Sizes
  <1>10. Items'
    BY <1>1, ConstantFacts DEF Items, Types
  <1>11. /\ Makers' = Makers \ {p} /\ Linkers' = Linkers /\ Makers \subseteq Threads
         /\ Linkers \subseteq Threads \ {p}
         /\ \A q \in Threads \ {p} : /\ pc'[q] = pc[q] /\ seen'[q] = seen[q]
                                     /\ mine'[q] = mine[q] /\ item'[q] = item[q]
    BY <1>1, ConstantFacts DEF Makers, Linkers, Types
  <1>12. Ring(s)'
    <2>1. \A i \in 1 .. Len(s) - 1 : i \in 1 .. Len(s) /\ i + 1 \in 1 .. Len(s)
      BY <1>5
    <2>2. ASSUME NEW i \in 1 .. Len(s) - 1
          PROVE  \/ node'[s[i]].next = s[i + 1]
                 \/ /\ node'[s[i]].next = Nil
                    /\ \E q \in Producers : pc'[q] = "link" /\ seen'[q] = s[i]
      <3>1. node'[s[i]] = node[s[i]]
        BY <1>5, <2>1
      <3>2. CASE node[s[i]].next = s[i + 1]
        BY <3>1, <3>2
      <3>3. CASE node[s[i]].next = Nil /\ \E q \in Producers : pc[q] = "link" /\ seen[q] = s[i]
        <4>1. PICK q \in Producers : pc[q] = "link" /\ seen[q] = s[i]
          BY <3>3
        <4>2. q \in Threads \ {p}
          BY <1>1, <4>1, ConstantFacts
        <4>3. QED
          BY <1>11, <3>1, <3>3, <4>1, <4>2
      <3>4. QED
        BY <1>2, <3>2, <3>3 DEF List, Ring
    <2>3. tail_' = s[Len(s)] /\ Len(order') = Len(got') + Len(s) - 1
      BY <1>1, <1>2 DEF List, Ring
    <2>4. node'[s[Len(s)]].next = Nil
      BY <1>2, <1>5 DEF List, Ring
    <2>5. \A i \in 1 .. Len(s) - 1 : node'[s[i + 1]].entity = order'[Len(got') + i]
      <3>1. \A i \in 1 .. Len(s) - 1 : node[s[i + 1]].entity = order[Len(got) + i]
        BY <1>2 DEF List, Ring
      <3>2. QED
        BY <1>1, <1>5, <2>1, <3>1
    <2>6. QED
      BY <1>2, <1>5, <2>2, <2>3, <2>4, <2>5 DEF List, Ring
  <1>13. Made(s)'
    <2>1. ASSUME NEW q \in Makers'
          PROVE  /\ mine'[q] = mine[q] /\ mine'[q] \in Live'
                 /\ \A i \in 1 .. Len(s) : s[i] # mine'[q]
                 /\ node'[mine'[q]].next = Nil
                 /\ pc'[q] = "swing" => node'[mine'[q]].entity = item'[q]
                 /\ \A u \in Makers' : mine[q] = mine[u] => q = u
      <3>1. q \in Makers /\ q # p /\ q \in Threads \ {p}
        BY <1>11
      <3>2. /\ mine[q] \in Live /\ mine[q] # m /\ (\A i \in 1 .. Len(s) : s[i] # mine[q])
            /\ node[mine[q]].next = Nil
            /\ pc[q] = "swing" => node[mine[q]].entity = item[q]
            /\ \A u \in Makers' : mine[q] = mine[u] => q = u
        BY <1>1, <1>2, <1>3, <1>11, <3>1 DEF List, Made
      <3>3. QED
        BY <1>4, <1>11, <3>1, <3>2
    <2>2. ASSUME NEW q \in Linkers
          PROVE  /\ \E i \in 1 .. Len(s) - 1 :
                       seen[q] = s[i] /\ mine[q] = s[i + 1] /\ node'[s[i]].next = Nil
                 /\ \A u \in Linkers : seen[q] = seen[u] => q = u
      BY <1>2, <1>5 DEF List, Made
    <2>3. \A n \in Live' : (\E i \in 1 .. Len(s) : s[i] = n) \/ \E q \in Makers' : mine'[q] = n
      <3>1. TAKE n \in Live'
      <3>2. n \in Live /\ n # m
        BY <1>4
      <3>3. CASE \E q \in Makers : mine[q] = n
        <4>1. PICK q \in Makers : mine[q] = n
          BY <3>3
        <4>2. q # p
          BY <1>3, <3>2, <4>1
        <4>3. q \in Makers' /\ mine'[q] = n
          BY <1>11, <4>1, <4>2
        <4>4. QED
          BY <4>3
      <3>4. QED
        BY <1>2, <3>2, <3>3 DEF List, Made
    <2>4. QED
      BY <1>11, <2>1, <2>2, <2>3 DEF Made
  <1>14. Front(s)' /\ Promise(s)'
    <2>1. Linked(s) => Linked(s)'
      BY <1>5 DEF Linked
    <2>2. locked => \A c \in poppers : pc[c] = "out"
      BY <1>1, ProducerFacts
    <2>3. QED
      BY <1>1, <1>2, <1>11, <2>1, <2>2, KeepFront DEF List
  <1>15. QED
    BY <1>2, <1>7, <1>8, <1>9, <1>10, <1>12, <1>13, <1>14 DEF Inv, List

-----------------------------------------------------------------------------
(* The steps of a consumer *)

Inside == {"head", "look", "swing", "check", "take", "unclaim"}

\* A consumer that makes a step is the only one inside.
LEMMA PopperFacts ==
    ASSUME Inv, InTurn, NEW c \in poppers, pc[c] # "out" \/ mutex = Nil
    PROVE  /\ Types /\ Exclusion /\ Items /\ Sizes
           /\ c \in Threads /\ c \in Consumers /\ c \notin Producers
           /\ \A p \in Producers : p \in Threads \ {c}
           /\ \A d \in poppers \ {c} : d \in Threads \ {c} /\ pc[d] = "out"
           /\ locked => \A p \in Producers : pc[p] = "out"
           /\ PopClaimed <=> pc[c] \in Inside
  <1>1. /\ Types /\ Exclusion /\ Items /\ Sizes
        /\ c \in Threads /\ c \in Consumers /\ c \notin Producers
        /\ \A d \in poppers : d \in Consumers /\ d \in Threads
        /\ \A p \in Producers : p \in Threads \ {c}
    BY Entries, ConstantFacts DEF Types
  <1>2. locked => \A t \in Threads : t # c => pc[t] = "out"
    BY <1>1, Alone
  <1>3. \A d \in poppers \ {c} : pc[d] = "out"
    <2>1. CASE locked
      BY <1>1, <1>2, <2>1
    <2>2. CASE Cardinality(poppers) = 1
      <3>1. IsFiniteSet(poppers)
        BY <1>1, ConstantFacts, FS_Subset
      <3>2. \E x : poppers = {x}
        BY <2>2, <3>1, FS_Singleton
      <3>3. QED
        BY <3>2
    <2>3. QED
      BY <2>1, <2>2 DEF InTurn
  <1>4. PopClaimed <=> pc[c] \in Inside
    BY <1>3 DEF PopClaimed, Inside
  <1>5. QED
    BY <1>1, <1>2, <1>3, <1>4

\* What no step of a consumer changes, but the one that takes an entity.
LEMMA PopKeeps ==
    ASSUME Inv, NEW c \in Consumers,
           UNCHANGED <<node, tail_, order, got, pushes>>,
           \A t \in Threads \ {c} : /\ pc'[t] = pc[t] /\ seen'[t] = seen[t]
                                    /\ mine'[t] = mine[t] /\ item'[t] = item[t]
    PROVE  /\ Items' /\ Claimed' = Claimed
           /\ \A s \in Seq(Nodes) : List(s) => Ring(s)' /\ Made(s)'
  <1>1. \A p \in Producers : /\ pc'[p] = pc[p] /\ seen'[p] = seen[p]
                             /\ mine'[p] = mine[p] /\ item'[p] = item[p]
    BY ConstantFacts
  <1>2. Items'
    BY <1>1, Entries DEF Items
  <1>3. PushClaims' = PushClaims
    BY <1>1 DEF PushClaims
  <1>4. Claimed' = Claimed
    BY <1>3 DEF Claimed
  <1>5. ASSUME NEW s \in Seq(Nodes), List(s) PROVE Ring(s)' /\ Made(s)'
    BY <1>1, <1>5, PopKeepsRing DEF List
  <1>6. QED
    BY <1>2, <1>4, <1>5

\* The consumer is the one Empty has promised an entity.
Sure(c) == locked /\ poppers = {c} /\ c \in sure

LEMMA PopSizeStep ==
    ASSUME Inv, InTurn, NEW c \in poppers, PopSize(c)
    PROVE  Inv' /\ (Sure(c) => sure' = sure)
  <1>1. pc[c] = "out" /\ mutex = Nil
        /\ UNCHANGED <<locked, poppers, node, head_, tail_, size_, pushes, order, got>>
    BY DEF PopSize, MayCall, setup, listVars, histVars
  <1>2. /\ Types /\ Exclusion /\ Items /\ Sizes
        /\ c \in Threads /\ c \in Consumers
        /\ \A p \in Producers : p \in Threads \ {c}
        /\ \A d \in poppers \ {c} : d \in Threads \ {c} /\ pc[d] = "out"
        /\ locked => \A p \in Producers : pc[p] = "out"
        /\ ~PopClaimed
    BY <1>1, PopperFacts DEF Inside
  <1>3. PICK s \in Seq(Nodes) : List(s)
    BY DEF Inv
  <1>4. /\ head_ = s[1] /\ \A d \in poppers : pc[d] = "out"
    BY <1>1, <1>2, <1>3 DEF List, Front
  <1>5. CASE size_ = 0
    <2>1. UNCHANGED <<mutex, pc, seen, mine, item>> /\ sure' = sure \ {c}
      BY <1>5 DEF PopSize, localVars
    <2>2. Types' /\ Exclusion'
      BY <1>1, <1>2, <2>1 DEF Types, Exclusion, Live
    <2>3. Items' /\ Claimed' = Claimed /\ Ring(s)' /\ Made(s)'
      BY <1>1, <1>2, <1>3, <2>1, PopKeeps
    <2>4. Sizes'
      BY <1>1, <1>2, <2>1, <2>3 DEF Sizes, Net, PopClaimed
    <2>5. Front(s)' /\ Promise(s)'
      BY <1>1, <1>3, <2>1 DEF List, Front, Promise, Linked
    <2>6. ASSUME Sure(c) PROVE FALSE
      <3>1. Linked(s)
        BY <1>3, <2>6 DEF Sure, List, Promise
      <3>2. Len(s) \in Nat /\ Len(s) > 1 /\ Len(order) = Len(got) + Len(s) - 1
        BY <1>3, <3>1, LenProperties DEF Linked, List, Ring
      <3>3. Claimed >= 1
        BY <3>2, Entries DEF Claimed
      <3>4. QED
        BY <1>2, <1>5, <3>3, Entries DEF Sizes, Net
    <2>7. QED
      BY <2>2, <2>3, <2>4, <2>5, <2>6 DEF Inv, List
  <1>6. CASE size_ # 0
    <2>1. /\ pc' = [pc EXCEPT ![c] = "claim"] /\ seen' = [seen EXCEPT ![c] = size_]
          /\ mutex' = IF locked THEN c ELSE Nil
          /\ UNCHANGED <<mine, item, sure>>
      BY <1>6 DEF PopSize, Enter
    <2>2. /\ pc'[c] = "claim" /\ seen'[c] = size_
          /\ \A t \in Threads \ {c} : /\ pc'[t] = pc[t] /\ seen'[t] = seen[t]
                                      /\ mine'[t] = mine[t] /\ item'[t] = item[t]
      BY <1>2, <2>1 DEF Types
    <2>3. Types'
      BY <1>1, <1>2, <1>6, <2>1, ConstantFacts DEF Types, Live, Places
    <2>4. Exclusion'
      BY <1>1, <1>2, <2>1, ConstantFacts DEF Exclusion, Types
    <2>5. Items' /\ Claimed' = Claimed /\ Ring(s)' /\ Made(s)'
      BY <1>1, <1>2, <1>3, <2>2, PopKeeps
    <2>6. Sizes'
      <3>1. ~PopClaimed'
        BY <1>1, <1>2, <2>2 DEF PopClaimed
      <3>2. QED
        BY <1>1, <1>2, <2>5, <3>1 DEF Sizes, Net
    <2>7. \A d \in poppers : pc'[d] \in {"out", "claim"}
      BY <1>2, <2>2
    <2>8. Front(s)'
      BY <1>1, <1>4, <2>7 DEF Front
    <2>9. Promise(s)'
      <3>1. ASSUME NEW d \in poppers, locked, poppers = {d}, d \in sure
            PROVE  Linked(s)' /\ d = c
        BY <1>1, <1>3, <3>1 DEF List, Promise, Linked
      <3>2. QED
        BY <1>1, <2>1, <2>2, <3>1 DEF Promise
    <2>10. QED
      BY <2>1, <2>3, <2>4, <2>5, <2>6, <2>8, <2>9 DEF Inv, List
  <1>7. QED
    BY <1>5, <1>6

LEMMA PopClaimStep ==
    ASSUME Inv, InTurn, NEW c \in poppers, PopClaim(c)
    PROVE  Inv' /\ (Sure(c) => sure' = sure)
  <1>1. pc[c] = "claim"
        /\ UNCHANGED <<locked, poppers, node, head_, tail_, pushes, order, got>>
    BY DEF PopClaim, setup, histVars
  <1>2. /\ Types /\ Exclusion /\ Items /\ Sizes
        /\ c \in Threads /\ c \in Consumers
        /\ \A p \in Producers : p \in Threads \ {c}
        /\ \A d \in poppers \ {c} : d \in Threads \ {c} /\ pc[d] = "out"
        /\ ~PopClaimed
    BY <1>1, PopperFacts DEF Inside
  <1>3. PICK s \in Seq(Nodes) : List(s)
    BY DEF Inv
  <1>4. head_ = s[1] /\ \A d \in poppers : pc[d] \in {"out", "claim"}
    BY <1>1, <1>2, <1>3 DEF List, Front
  <1>5. CASE size_ = seen[c]
    <2>1. /\ pc' = [pc EXCEPT ![c] = "head"] /\ size_' = size_ - 1
          /\ UNCHANGED <<mutex, seen, mine, item, sure>>
      BY <1>5 DEF PopClaim, Go
    <2>2. /\ pc'[c] = "head"
          /\ \A t \in Threads \ {c} : /\ pc'[t] = pc[t] /\ seen'[t] = seen[t]
                                      /\ mine'[t] = mine[t] /\ item'[t] = item[t]
      BY <1>2, <2>1 DEF Types
    <2>3. size_ # 0 /\ size_ \in 0 .. Modulus - 1
      BY <1>1, <1>2, <1>5 DEF Types
    <2>4. Types'
      <3>1. size_' \in 0 .. Modulus - 1
        BY <2>1, <2>3, ConstantFacts
      <3>2. QED
        BY <1>1, <1>2, <2>1, <3>1, ConstantFacts DEF Types, Live, Places
    <2>5. Exclusion'
      BY <1>1, <1>2, <2>1, ConstantFacts DEF Exclusion, Types
    <2>6. Items' /\ Claimed' = Claimed /\ Ring(s)' /\ Made(s)'
      BY <1>1, <1>2, <1>3, <2>1, <2>2, PopKeeps
    <2>7. Sizes'
      <3>1. PopClaimed'
        BY <1>1, <2>2 DEF PopClaimed
      <3>2. Claimed \in Nat /\ size_ = Claimed
        BY <1>2, Entries DEF Sizes, Net
      <3>3. Net' = Claimed - 1 /\ Net' >= 0
        BY <2>3, <2>6, <3>1, <3>2 DEF Net
      <3>4. QED
        BY <1>1, <1>2, <2>1, <2>6, <3>2, <3>3 DEF Sizes
    <2>8. Front(s)'
      BY <1>1, <1>2, <1>4, <2>2 DEF Front
    <2>9. Promise(s)'
      BY <1>1, <1>2, <1>3, <2>1, <2>2 DEF List, Promise, Linked
    <2>10. QED
      BY <2>1, <2>4, <2>5, <2>6, <2>7, <2>8, <2>9 DEF Inv, List
  <1>6. CASE size_ # seen[c]
    <2>1. /\ pc' = [pc EXCEPT ![c] = "out"] /\ seen' = [seen EXCEPT ![c] = Nil]
          /\ mine' = [mine EXCEPT ![c] = Nil] /\ item' = [item EXCEPT ![c] = 0]
          /\ mutex' = Nil /\ size_' = size_ /\ sure' = sure \ {c}
      BY <1>6 DEF PopClaim, PopLeave, Leave
    <2>2. /\ pc'[c] = "out"
          /\ \A t \in Threads \ {c} : /\ pc'[t] = pc[t] /\ seen'[t] = seen[t]
                                      /\ mine'[t] = mine[t] /\ item'[t] = item[t]
      BY <1>2, <2>1 DEF Types
    <2>3. Types'
      BY <1>1, <1>2, <2>1, ConstantFacts DEF Types, Live, Places
    <2>4. Exclusion'
      BY <1>1, <1>2, <2>1, <2>2, Alone DEF Exclusion, Types
    <2>5. Items' /\ Claimed' = Claimed /\ Ring(s)' /\ Made(s)'
      BY <1>1, <1>2, <1>3, <2>2, PopKeeps
    <2>6. Sizes'
      <3>1. ~PopClaimed'
        BY <1>1, <1>2, <2>2 DEF PopClaimed
      <3>2. QED
        BY <1>1, <1>2, <2>1, <2>5, <3>1 DEF Sizes, Net
    <2>7. Front(s)'
      BY <1>1, <1>2, <1>4, <2>2 DEF Front
    <2>8. Promise(s)'
      BY <1>1, <2>1 DEF Promise
    <2>9. ~Sure(c)
      BY <1>1, <1>3, <1>6 DEF Sure, List, Promise
    <2>10. QED
      BY <2>3, <2>4, <2>5, <2>6, <2>7, <2>8, <2>9 DEF Inv, List
  <1>7. QED
    BY <1>5, <1>6

\* The steps between the claim and the end have this in common.
LEMMA PopGoes ==
    ASSUME Inv, InTurn, NEW c \in poppers, pc[c] \in Inside, NEW to \in Inside,
           pc' = [pc EXCEPT ![c] = to],
           UNCHANGED <<mutex, locked, poppers, node, tail_, size_, item, pushes, sure, order, got>>,
           head_' \in Nodes,
           \E n \in Nodes : seen' = [seen EXCEPT ![c] = n],
           \E n \in Nodes : mine' = [mine EXCEPT ![c] = n] \/ mine' = mine,
           to = "swing" => mine'[c] \in Nodes
    PROVE  /\ Types' /\ Exclusion' /\ Items' /\ Sizes'
           /\ \A s \in Seq(Nodes) : List(s) => Ring(s)' /\ Made(s)'
           /\ pc'[c] = to /\ \A d \in poppers \ {c} : pc'[d] = "out"
  <1>1. /\ Types /\ Exclusion /\ Items /\ Sizes
        /\ c \in Threads /\ c \in Consumers /\ c \notin Producers
        /\ \A d \in poppers \ {c} : d \in Threads \ {c} /\ pc[d] = "out"
        /\ PopClaimed
    BY PopperFacts DEF Inside
  <1>2. PICK n \in Nodes : seen' = [seen EXCEPT ![c] = n]
    OBVIOUS
  <1>3. PICK m \in Nodes : mine' = [mine EXCEPT ![c] = m] \/ mine' = mine
    OBVIOUS
  <1>4. /\ pc'[c] = to /\ seen'[c] = n
        /\ \A t \in Threads \ {c} : /\ pc'[t] = pc[t] /\ seen'[t] = seen[t]
                                    /\ mine'[t] = mine[t] /\ item'[t] = item[t]
    BY <1>1, <1>2, <1>3 DEF Types
  <1>5. Types'
    <2>1. /\ pc' \in [Threads -> Places] /\ seen' \in [Threads -> Nat \cup Nodes \cup {Nil}]
          /\ mine' \in [Threads -> Nodes \cup {Nil}] /\ item' \in [Threads -> Nat]
      <3>1. to \in Places
        BY DEF Inside, Places
      <3>2. pc' \in [Threads -> Places]
        BY <1>1, <3>1 DEF Types
      <3>3. seen' \in [Threads -> Nat \cup Nodes \cup {Nil}]
        BY <1>1, <1>2 DEF Types
      <3>4. mine' \in [Threads -> Nodes \cup {Nil}]
        BY <1>1, <1>3 DEF Types
      <3>5. QED
        BY <1>1, <3>2, <3>3, <3>4 DEF Types
    <2>2. \A p \in Producers : p \in Threads \ {c}
      BY <1>1, ConstantFacts
    <2>3. \A d \in Consumers : d \in Threads
      BY ConstantFacts
    <2>4. \A p \in Producers : /\ pc'[p] \notin {"head", "look", "check", "take"}
                               /\ pc'[p] = "claim" => seen'[p] < MaxSize
      BY <1>1, <1>4, <2>2 DEF Types
    <2>5. \A d \in Consumers : /\ pc'[d] \notin {"new", "link"}
                               /\ pc'[d] = "claim" => seen'[d] # 0
                               /\ d \notin poppers => pc'[d] = "out"
      BY <1>1, <1>4, <2>3 DEF Types, Inside
    <2>6. \A t \in Threads :
            /\ pc'[t] = "claim" => seen'[t] \in 0 .. Modulus - 1
            /\ pc'[t] \in {"swing", "link"} => mine'[t] \in Nodes
            /\ pc'[t] \in {"swing", "link", "look", "check", "take"} => seen'[t] \in Nodes
      <3>1. TAKE t \in Threads
      <3>2. CASE t = c
        BY <1>4, <3>2 DEF Inside
      <3>3. CASE t # c
        BY <1>1, <1>4, <3>3 DEF Types
      <3>4. QED
        BY <3>2, <3>3
    <2>7. QED
      BY <1>1, <2>1, <2>4, <2>5, <2>6 DEF Types, Live
  <1>6. Exclusion'
    <2>1. locked => mutex = c
      BY <1>1 DEF Exclusion, Inside
    <2>2. \A t \in Threads : pc'[t] # "out" => t = c \/ pc[t] # "out"
      BY <1>4
    <2>3. QED
      BY <1>1, <2>1, <2>2 DEF Exclusion
  <1>7. Items' /\ Claimed' = Claimed /\ \A s \in Seq(Nodes) : List(s) => Ring(s)' /\ Made(s)'
    BY <1>1, <1>4, PopKeeps
  <1>8. Sizes'
    <2>1. PopClaimed'
      BY <1>4 DEF PopClaimed, Inside
    <2>2. QED
      BY <1>1, <1>7, <2>1 DEF Sizes, Net
  <1>9. QED
    BY <1>1, <1>4, <1>5, <1>6, <1>7, <1>8

LEMMA PopHeadStep ==
    ASSUME Inv, InTurn, NEW c \in poppers, PopHead(c)
    PROVE  Inv'
  <1>1. /\ pc[c] = "head" /\ pc' = [pc EXCEPT ![c] = "look"] /\ seen' = [seen EXCEPT ![c] = head_]
        /\ UNCHANGED <<mutex, locked, poppers, node, head_, tail_, size_, mine, item, pushes, sure,
                       order, got>>
    BY DEF PopHead, Go, setup, listVars, histVars
  <1>2. /\ Types /\ \A d \in poppers \ {c} : pc[d] = "out"
        /\ c \in Threads
    BY <1>1, PopperFacts
  <1>3. PICK s \in Seq(Nodes) : List(s)
    BY DEF Inv
  <1>4. head_ \in Nodes /\ seen'[c] = head_
    BY <1>1, <1>2 DEF Types
  <1>5. head_ = s[1]
    BY <1>1, <1>2, <1>3 DEF List, Front
  <1>6. "look" \in Inside /\ pc[c] \in Inside
    BY <1>1 DEF Inside
  <1>7. /\ Types' /\ Exclusion' /\ Items' /\ Sizes' /\ Ring(s)' /\ Made(s)'
        /\ pc'[c] = "look" /\ \A d \in poppers \ {c} : pc'[d] = "out"
    BY <1>1, <1>3, <1>4, <1>6, PopGoes
  <1>8. Front(s)'
    BY <1>1, <1>4, <1>5, <1>7 DEF Front
  <1>9. Promise(s)'
    BY <1>1, <1>3, <1>7 DEF List, Promise, Linked
  <1>10. QED
    BY <1>7, <1>8, <1>9 DEF Inv, List

LEMMA PopLookStep ==
    ASSUME Inv, InTurn, NEW c \in poppers, PopLook(c)
    PROVE  Inv' /\ fault' = fault
  <1>1. pc[c] = "look"
    BY DEF PopLook
  <1>2. /\ Types /\ \A d \in poppers \ {c} : pc[d] = "out"
        /\ c \in Threads
    BY <1>1, PopperFacts
  <1>3. PICK s \in Seq(Nodes) : List(s)
    BY DEF Inv
  <1>4. head_ = s[1] /\ seen[c] = s[1] /\ Len(s) \in Nat /\ Len(s) >= 1 /\ s[1] \in Live
    BY <1>1, <1>2, <1>3, LenProperties DEF List, Front, Ring
  <1>5. PICK next : next = node[s[1]].next
    OBVIOUS
  <1>6. /\ pc' = [pc EXCEPT ![c] = "swing"]
        /\ mine' = [mine EXCEPT ![c] = IF next = Nil THEN head_ ELSE next]
        /\ UNCHANGED <<mutex, locked, poppers, node, head_, tail_, size_, seen, item, pushes, sure,
                       order, got, fault>>
    BY <1>4, <1>5 DEF PopLook, Go, setup, listVars, histVars
  <1>7. /\ next = Nil => ~Linked(s)
        /\ next # Nil => next = s[2] /\ Linked(s)
    <2>1. ASSUME Linked(s) PROVE next # Nil
      <3>1. Len(s) > 1 /\ next = s[2]
        BY <1>5, <2>1 DEF Linked
      <3>2. s[2] \in Nodes
        BY <1>4, <3>1
      <3>3. QED
        BY <3>1, <3>2, ConstantFacts
    <2>2. ASSUME next # Nil PROVE next = s[2] /\ Len(s) > 1
      <3>1. Len(s) # 1
        BY <1>3, <1>5, <2>2 DEF List, Ring
      <3>2. 1 \in 1 .. Len(s) - 1
        <4>1. Len(s) \in Nat /\ Len(s) >= 1
          BY <1>4
        <4>2. \A n \in Nat : n >= 1 /\ n # 1 => 1 \in 1 .. n - 1
          OBVIOUS
        <4>3. QED
          BY <3>1, <4>1, <4>2
      <3>3. QED
        BY <1>3, <1>4, <1>5, <2>2, <3>1, <3>2 DEF List, Ring
    <2>3. QED
      BY <1>5, <2>1, <2>2 DEF Linked
  <1>8. PICK m \in Nodes : m = IF next = Nil THEN head_ ELSE next
    <2>1. next # Nil => Len(s) > 1 /\ next = s[2]
      BY <1>7 DEF Linked
    <2>2. next # Nil => next \in Nodes
      BY <1>4, <2>1
    <2>3. QED
      BY <1>2, <2>2 DEF Types
  <1>9. /\ mine' = [mine EXCEPT ![c] = m] /\ mine'[c] = m
        /\ seen[c] \in Nodes /\ seen' = [seen EXCEPT ![c] = seen[c]]
        /\ head_' \in Nodes /\ seen'[c] = s[1]
    BY <1>1, <1>2, <1>4, <1>6, <1>8 DEF Types
  <1>10. "swing" \in Inside /\ pc[c] \in Inside
    BY <1>1 DEF Inside
  <1>11. /\ Types' /\ Exclusion' /\ Items' /\ Sizes' /\ Ring(s)' /\ Made(s)'
         /\ pc'[c] = "swing" /\ \A d \in poppers \ {c} : pc'[d] = "out"
    BY <1>3, <1>6, <1>9, <1>10, PopGoes
  <1>12. Linked(s)' <=> Linked(s)
    BY <1>6 DEF Linked
  <1>13. Front(s)'
    BY <1>4, <1>6, <1>7, <1>8, <1>9, <1>11, <1>12 DEF Front
  <1>14. Promise(s)'
    <2>1. Sure(c) => Linked(s)
      BY <1>3 DEF Sure, List, Promise
    <2>2. Sure(c) => mine'[c] = s[2]
      BY <1>7, <1>8, <1>9, <2>1
    <2>3. QED
      BY <1>6, <1>11, <1>12, <2>1, <2>2 DEF Promise, Sure
  <1>15. QED
    BY <1>6, <1>11, <1>13, <1>14 DEF Inv, List

LEMMA PopSwingStep ==
    ASSUME Inv, InTurn, NEW c \in poppers, PopSwing(c)
    PROVE  Inv'
  <1>1. pc[c] = "swing"
    BY DEF PopSwing
  <1>2. /\ Types /\ \A d \in poppers \ {c} : pc[d] = "out"
        /\ c \in Threads
    BY <1>1, PopperFacts
  <1>3. PICK s \in Seq(Nodes) : List(s)
    BY DEF Inv
  <1>4. head_ = s[1] /\ seen[c] = s[1]
    BY <1>1, <1>2, <1>3 DEF List, Front
  <1>5. /\ pc' = [pc EXCEPT ![c] = "check"] /\ head_' = mine[c]
        /\ UNCHANGED <<mutex, locked, poppers, node, tail_, size_, seen, mine, item, pushes, sure,
                       order, got>>
    BY <1>4 DEF PopSwing, Go, setup, histVars
  <1>6. /\ seen[c] \in Nodes /\ mine[c] \in Nodes
        /\ seen' = [seen EXCEPT ![c] = seen[c]] /\ mine' = [mine EXCEPT ![c] = mine[c]]
        /\ head_' \in Nodes
    BY <1>1, <1>2, <1>5 DEF Types
  <1>7. "check" \in Inside /\ pc[c] \in Inside
    BY <1>1 DEF Inside
  <1>8. /\ Types' /\ Exclusion' /\ Items' /\ Sizes' /\ Ring(s)' /\ Made(s)'
        /\ pc'[c] = "check" /\ \A d \in poppers \ {c} : pc'[d] = "out"
    BY <1>3, <1>5, <1>6, <1>7, PopGoes
  <1>9. Linked(s)' <=> Linked(s)
    BY <1>5 DEF Linked
  <1>10. Front(s)'
    <2>1. \/ mine[c] = s[1] /\ (locked => ~Linked(s))
          \/ mine[c] = s[2] /\ Linked(s)
      BY <1>1, <1>3 DEF List, Front
    <2>2. QED
      BY <1>4, <1>5, <1>8, <1>9, <2>1 DEF Front
  <1>11. Promise(s)'
    <2>1. Sure(c) => Linked(s) /\ mine[c] = s[2]
      BY <1>1, <1>3 DEF Sure, List, Promise
    <2>2. QED
      BY <1>5, <1>8, <1>9, <2>1 DEF Promise, Sure
  <1>12. QED
    BY <1>8, <1>10, <1>11 DEF Inv, List

LEMMA PopCheckStep ==
    ASSUME Inv, InTurn, NEW c \in poppers, PopCheck(c)
    PROVE  Inv' /\ fault' = fault
  <1>1. pc[c] = "check"
    BY DEF PopCheck
  <1>2. /\ Types /\ \A d \in poppers \ {c} : pc[d] = "out"
        /\ c \in Threads
    BY <1>1, PopperFacts
  <1>3. PICK s \in Seq(Nodes) : List(s)
    BY DEF Inv
  <1>4. /\ seen[c] = s[1] /\ s[1] \in Live
        /\ \/ head_ = s[1] /\ (locked => ~Linked(s))
           \/ head_ = s[2] /\ Linked(s)
    BY <1>1, <1>3, LenProperties DEF List, Front, Ring
  <1>5. PICK to : to = IF node[s[1]].next = Nil THEN "unclaim" ELSE "take"
    OBVIOUS
  <1>6. /\ pc' = [pc EXCEPT ![c] = to]
        /\ UNCHANGED <<mutex, locked, poppers, node, head_, tail_, size_, seen, mine, item, pushes,
                       sure, order, got, fault>>
    BY <1>4, <1>5 DEF PopCheck, Go, setup, listVars, histVars
  <1>7. /\ seen[c] \in Nodes /\ head_' \in Nodes
        /\ seen' = [seen EXCEPT ![c] = seen[c]]
    BY <1>1, <1>2, <1>6 DEF Types
  <1>8. to \in Inside /\ to # "swing" /\ pc[c] \in Inside /\ \E n \in Nodes : mine' = mine
    BY <1>1, <1>5, <1>6, <1>7 DEF Inside
  <1>9. /\ Types' /\ Exclusion' /\ Items' /\ Sizes' /\ Ring(s)' /\ Made(s)'
        /\ pc'[c] = to /\ \A d \in poppers \ {c} : pc'[d] = "out"
    BY <1>3, <1>6, <1>7, <1>8, PopGoes
  <1>10. /\ Linked(s) => to = "take"
         /\ to = "take" => Linked(s)
    <2>1. Len(s) \in Nat /\ Len(s) >= 1
      BY <1>3, LenProperties DEF List, Ring
    <2>2. ASSUME Linked(s) PROVE node[s[1]].next # Nil
      <3>1. Len(s) > 1 /\ node[s[1]].next = s[2]
        BY <2>2 DEF Linked
      <3>2. s[2] \in Nodes
        BY <2>1, <3>1
      <3>3. QED
        BY <3>1, <3>2, ConstantFacts
    <2>3. ASSUME node[s[1]].next # Nil PROVE Linked(s)
      <3>1. Len(s) # 1
        BY <1>3, <2>3 DEF List, Ring
      <3>2. \A n \in Nat : n >= 1 /\ n # 1 => 1 \in 1 .. n - 1 /\ n > 1
        OBVIOUS
      <3>3. 1 \in 1 .. Len(s) - 1 /\ Len(s) > 1
        BY <2>1, <3>1, <3>2
      <3>4. QED
        BY <1>3, <2>3, <3>3 DEF List, Ring, Linked
    <2>4. QED
      BY <1>5, <2>2, <2>3
  <1>11. Linked(s)' <=> Linked(s)
    BY <1>6 DEF Linked
  <1>12. Front(s)'
    BY <1>4, <1>5, <1>6, <1>9, <1>10, <1>11 DEF Front
  <1>13. Promise(s)'
    <2>1. Sure(c) => Linked(s) /\ head_ = s[2]
      BY <1>1, <1>3 DEF Sure, List, Promise
    <2>2. QED
      BY <1>5, <1>6, <1>9, <1>10, <1>11, <2>1 DEF Promise, Sure
  <1>14. QED
    BY <1>6, <1>9, <1>12, <1>13 DEF Inv, List

LEMMA PopUnclaimStep ==
    ASSUME Inv, InTurn, NEW c \in poppers, PopUnclaim(c)
    PROVE  Inv' /\ (Sure(c) => sure' = sure)
  <1>1. /\ pc[c] = "unclaim" /\ size_' = (size_ + 1) % Modulus
        /\ pc' = [pc EXCEPT ![c] = "out"] /\ seen' = [seen EXCEPT ![c] = Nil]
        /\ mine' = [mine EXCEPT ![c] = Nil] /\ item' = [item EXCEPT ![c] = 0]
        /\ mutex' = Nil /\ sure' = sure \ {c}
        /\ UNCHANGED <<locked, poppers, node, head_, tail_, pushes, order, got>>
    BY DEF PopUnclaim, PopLeave, Leave, setup, histVars
  <1>2. /\ Types /\ Exclusion /\ Items /\ Sizes
        /\ c \in Threads /\ c \in Consumers
        /\ \A p \in Producers : p \in Threads \ {c}
        /\ \A d \in poppers \ {c} : d \in Threads \ {c} /\ pc[d] = "out"
        /\ PopClaimed
    BY <1>1, PopperFacts DEF Inside
  <1>3. PICK s \in Seq(Nodes) : List(s)
    BY DEF Inv
  <1>4. head_ = s[1]
    BY <1>1, <1>2, <1>3 DEF List, Front
  <1>5. /\ pc'[c] = "out"
        /\ \A t \in Threads \ {c} : /\ pc'[t] = pc[t] /\ seen'[t] = seen[t]
                                    /\ mine'[t] = mine[t] /\ item'[t] = item[t]
    BY <1>1, <1>2 DEF Types
  <1>6. Items' /\ Claimed' = Claimed /\ Ring(s)' /\ Made(s)'
    BY <1>1, <1>2, <1>3, <1>5, PopKeeps
  <1>7. Claimed \in Nat /\ Claimed <= MaxSize + 1 /\ MaxSize + 1 < Modulus /\ Modulus \in Nat
        /\ Modulus \in Nat \ {0} /\ MaxSize \in Nat
    BY <1>2, Entries, ConstantFacts DEF Sizes
  <1>8. size_' = Claimed
    <2>1. size_ \in 0 .. Modulus - 1 /\ size_ = IF Claimed - 1 < 0 THEN Claimed - 1 + Modulus
                                                                   ELSE Claimed - 1
      BY <1>2 DEF Types, Sizes, Net
    <2>2. (size_ + 1) % Modulus = IF size_ = Modulus - 1 THEN 0 ELSE size_ + 1
      BY <1>7, <2>1, WrapsAround
    <2>3. CASE Claimed = 0
      BY <1>1, <1>7, <2>1, <2>2, <2>3
    <2>4. CASE Claimed # 0
      BY <1>1, <1>7, <2>1, <2>2, <2>4
    <2>5. QED
      BY <2>3, <2>4
  <1>9. Types'
    <2>1. size_' \in 0 .. Modulus - 1
      BY <1>7, <1>8
    <2>2. QED
      BY <1>1, <1>2, <2>1, ConstantFacts DEF Types, Live, Places
  <1>10. Exclusion'
    BY <1>1, <1>2, <1>5, Alone DEF Exclusion, Types
  <1>11. Sizes'
    <2>1. ~PopClaimed'
      BY <1>1, <1>2, <1>5 DEF PopClaimed
    <2>2. QED
      BY <1>1, <1>2, <1>6, <1>7, <1>8, <2>1 DEF Sizes, Net
  <1>12. Front(s)'
    BY <1>1, <1>2, <1>4, <1>5 DEF Front
  <1>13. Promise(s)'
    BY <1>1 DEF Promise
  <1>14. ~Sure(c)
    BY <1>1, <1>3 DEF Sure, List, Promise
  <1>15. QED
    BY <1>6, <1>9, <1>10, <1>11, <1>12, <1>13, <1>14 DEF Inv, List

\* Empty, which holds no mutex, looks at a live node, and its promise is not taken back.
LEMMA EmptyStep ==
    ASSUME Inv, InTurn, NEW c \in poppers, Empty(c)
    PROVE  Inv' /\ fault' = fault /\ \A d \in poppers : Sure(d) => d \in sure'
  <1>1. PICK s \in Seq(Nodes) : List(s)
    BY DEF Inv
  <1>2. /\ Types /\ Exclusion /\ Items /\ Sizes /\ pc[c] = "out" /\ Len(s) \in Nat /\ Len(s) >= 1
    BY <1>1, Entries, LenProperties DEF Empty, List, Ring
  <1>3. head_ \in Live
    <2>1. head_ = s[1] \/ (head_ = s[2] /\ Linked(s))
      BY <1>1 DEF List, Front
    <2>2. s[1] \in Live /\ (Linked(s) => s[2] \in Live)
      BY <1>1, <1>2 DEF List, Ring, Linked
    <2>3. QED
      BY <2>1, <2>2
  <1>4. /\ sure' = IF node[head_].next # Nil THEN sure \cup {c} ELSE sure \ {c}
        /\ UNCHANGED <<locked, poppers, mutex, node, head_, tail_, size_, pc, seen, mine, item,
                       pushes, order, got, fault>>
    BY <1>3 DEF Empty, setup, listVars, localVars, histVars
  <1>5. Types' /\ Exclusion' /\ Items' /\ Sizes'
    BY <1>2, <1>4 DEF Types, Exclusion, Items, Sizes, Live, Claimed, Net, PushClaims, PopClaimed
  <1>6. Ring(s)' /\ Made(s)'
    <2>1. c \in Consumers
      BY <1>2 DEF Types
    <2>2. QED
      BY <1>1, <1>4, <2>1, PopKeeps
  <1>7. Front(s)'
    BY <1>1, <1>4 DEF List, Front, Linked
  <1>8. node[s[1]].next # Nil => Linked(s)
    <2>1. SUFFICES ASSUME node[s[1]].next # Nil PROVE Linked(s)
      OBVIOUS
    <2>2. Len(s) # 1
      BY <1>1, <2>1 DEF List, Ring
    <2>3. \A n \in Nat : n >= 1 /\ n # 1 => 1 \in 1 .. n - 1 /\ n > 1
      OBVIOUS
    <2>4. 1 \in 1 .. Len(s) - 1 /\ Len(s) > 1
      BY <1>2, <2>2, <2>3
    <2>5. QED
      BY <1>1, <2>1, <2>4 DEF List, Ring, Linked
  <1>9. Linked(s) => node[s[1]].next # Nil
    <2>1. Linked(s) => s[2] \in Nodes
      BY <1>2 DEF Linked
    <2>2. QED
      BY <2>1, ConstantFacts DEF Linked
  <1>10. poppers = {c} => head_ = s[1]
    BY <1>1, <1>2 DEF List, Front
  <1>11. Promise(s)'
    <2>1. ASSUME NEW d \in poppers, locked, poppers = {d}, d \in sure'
          PROVE  Linked(s) /\ d = c
      BY <1>4, <1>8, <1>10, <2>1
    <2>2. QED
      BY <1>2, <1>4, <2>1 DEF Promise, Linked
  <1>12. \A d \in poppers : Sure(d) => d \in sure'
    <2>1. ASSUME NEW d \in poppers, Sure(d) PROVE d = c /\ Linked(s)
      BY <1>1, <2>1 DEF Sure, List, Promise
    <2>2. QED
      BY <1>4, <1>9, <1>10, <2>1 DEF Sure
  <1>13. QED
    BY <1>4, <1>5, <1>6, <1>7, <1>11, <1>12 DEF Inv, List

\* The entity of the second node is taken, the first node deleted.
LEMMA TakeList ==
    ASSUME Inv, InTurn, NEW c \in poppers, NEW s \in Seq(Nodes), List(s), pc[c] = "take",
           head_ = s[2], node' = Free(s[1]), got' = Append(got, node[s[2]].entity),
           sure' = sure \ {c}, pc' = [pc EXCEPT ![c] = "out"],
           UNCHANGED <<locked, poppers, head_, tail_, order>>,
           \A p \in Producers : /\ pc'[p] = pc[p] /\ seen'[p] = seen[p]
                                /\ mine'[p] = mine[p] /\ item'[p] = item[p]
    PROVE  List(Tail(s))'
  <1>1. /\ Types /\ c \in Threads /\ \A d \in poppers \ {c} : d \in Threads /\ pc[d] = "out"
    BY PopperFacts
  <1>2. Linked(s) /\ Len(s) \in Nat /\ Len(s) > 1 /\ s # << >>
    BY LenProperties DEF List, Front, Linked
  <1>3. PICK r \in Seq(Nodes) : r = Tail(s)
    BY <1>2, HeadTailProperties
  <1>4. Len(r) = Len(s) - 1 /\ Len(r) \in Nat /\ \A i \in 1 .. Len(r) : r[i] = s[i + 1]
    BY <1>2, <1>3, HeadTailProperties, LenProperties
  <1>5. /\ \A i \in 1 .. Len(s) : s[i] \in Live
        /\ \A i, j \in 1 .. Len(s) : s[i] = s[j] => i = j
    BY DEF List, Ring
  <1>6. Live' = Live \ {s[1]} /\ \A n \in Live' : node'[n] = node[n]
    BY DEF Free, Live
  <1>7. \A i \in 1 .. Len(r) : r[i] \in Live' /\ r[i] # s[1] /\ node'[r[i]] = node[r[i]]
    <2>1. TAKE i \in 1 .. Len(r)
    <2>2. i + 1 \in 1 .. Len(s) /\ 1 \in 1 .. Len(s) /\ i + 1 # 1 /\ r[i] = s[i + 1]
      BY <1>2, <1>4
    <2>3. s[i + 1] \in Live /\ s[i + 1] # s[1]
      BY <1>5, <2>2
    <2>4. QED
      BY <1>6, <2>2, <2>3
  <1>8. Makers' = Makers /\ Linkers' = Linkers
    BY DEF Makers, Linkers
  <1>9. /\ Len(got) \in Nat /\ Len(got') = Len(got) + 1 /\ got' \in Seq(Nat)
    <2>1. node[s[2]].entity \in Nat /\ got \in Seq(Nat)
      <3>1. s[2] \in Live
        BY <1>2, <1>5
      <3>2. QED
        BY <1>1, <3>1 DEF Types
    <2>2. QED
      BY <2>1, AppendProperties, LenProperties
  <1>10. Ring(r)'
    <2>1. ASSUME NEW i \in 1 .. Len(r), NEW j \in 1 .. Len(r), r[i] = r[j] PROVE i = j
      <3>1. i + 1 \in 1 .. Len(s) /\ j + 1 \in 1 .. Len(s) /\ r[i] = s[i + 1] /\ r[j] = s[j + 1]
        BY <1>2, <1>4
      <3>2. i + 1 = j + 1
        BY <1>5, <2>1, <3>1
      <3>3. QED
        BY <3>2
    <2>2. Len(r) >= 1 /\ Len(r) \in 1 .. Len(r) /\ r[Len(r)] = s[Len(s)]
      <3>1. Len(r) >= 1 /\ Len(r) \in 1 .. Len(r) /\ Len(r) + 1 = Len(s)
        BY <1>2, <1>4
      <3>2. QED
        BY <1>4, <3>1
    <2>3. tail_' = r[Len(r)] /\ node'[r[Len(r)]].next = Nil
      BY <1>7, <2>2 DEF List, Ring
    <2>4. ASSUME NEW i \in 1 .. Len(r) - 1
          PROVE  \/ node'[r[i]].next = r[i + 1]
                 \/ /\ node'[r[i]].next = Nil
                    /\ \E q \in Producers : pc'[q] = "link" /\ seen'[q] = r[i]
      <3>1. /\ i + 1 \in 1 .. Len(s) - 1 /\ i \in 1 .. Len(r) /\ i + 1 \in 1 .. Len(r)
        BY <1>2, <1>4
      <3>2. r[i] = s[i + 1] /\ r[i + 1] = s[(i + 1) + 1] /\ node'[r[i]] = node[r[i]]
        BY <1>4, <1>7, <3>1
      <3>3. \/ node[s[i + 1]].next = s[(i + 1) + 1]
            \/ /\ node[s[i + 1]].next = Nil
               /\ \E q \in Producers : pc[q] = "link" /\ seen[q] = s[i + 1]
        BY <3>1 DEF List, Ring
      <3>4. QED
        BY <3>2, <3>3
    <2>5. Len(order') = Len(got') + Len(r) - 1
      <3>1. Len(order) = Len(got) + Len(s) - 1 /\ order' = order
        BY DEF List, Ring
      <3>2. \A a, n \in Nat : a + n - 1 = (a + 1) + (n - 1) - 1
        OBVIOUS
      <3>3. QED
        BY <1>2, <1>4, <1>9, <3>1, <3>2
    <2>6. ASSUME NEW i \in 1 .. Len(r) - 1
          PROVE  node'[r[i + 1]].entity = order'[Len(got') + i]
      <3>1. /\ i + 1 \in 1 .. Len(s) - 1 /\ i + 1 \in 1 .. Len(r)
        BY <1>2, <1>4
      <3>2. r[i + 1] = s[(i + 1) + 1] /\ node'[r[i + 1]] = node[r[i + 1]]
        BY <1>4, <1>7, <3>1
      <3>3. node[s[(i + 1) + 1]].entity = order[Len(got) + (i + 1)]
        BY <3>1 DEF List, Ring
      <3>4. Len(got) + (i + 1) = Len(got') + i
        BY <1>9
      <3>5. QED
        BY <3>2, <3>3, <3>4
    <2>7. QED
      BY <1>7, <2>1, <2>2, <2>3, <2>4, <2>5, <2>6 DEF Ring
  <1>11. Made(r)'
    <2>1. ASSUME NEW q \in Makers
          PROVE  /\ mine'[q] = mine[q] /\ mine'[q] \in Live'
                 /\ \A i \in 1 .. Len(r) : r[i] # mine'[q]
                 /\ node'[mine'[q]].next = Nil
                 /\ pc'[q] = "swing" => node'[mine'[q]].entity = item'[q]
                 /\ \A u \in Makers : mine[q] = mine[u] => q = u
      <3>1. /\ q \in Producers /\ mine[q] \in Live /\ (\A i \in 1 .. Len(s) : s[i] # mine[q])
            /\ node[mine[q]].next = Nil
            /\ pc[q] = "swing" => node[mine[q]].entity = item[q]
            /\ \A u \in Makers : mine[q] = mine[u] => q = u
        BY DEF List, Made, Makers
      <3>2. 1 \in 1 .. Len(s) /\ \A i \in 1 .. Len(r) : i + 1 \in 1 .. Len(s)
        BY <1>2, <1>4
      <3>3. mine[q] \in Live' /\ \A i \in 1 .. Len(r) : r[i] # mine[q]
        BY <1>4, <1>6, <3>1, <3>2
      <3>4. QED
        BY <1>6, <3>1, <3>3
    <2>2. ASSUME NEW q \in Linkers
          PROVE  /\ \E i \in 1 .. Len(r) - 1 :
                       seen'[q] = r[i] /\ mine'[q] = r[i + 1] /\ node'[r[i]].next = Nil
                 /\ \A u \in Linkers : seen'[q] = seen'[u] => q = u
      <3>1. /\ q \in Producers /\ \A u \in Linkers : u \in Producers
            /\ \A u \in Linkers : seen[q] = seen[u] => q = u
        BY DEF List, Made, Linkers
      <3>2. PICK i \in 1 .. Len(s) - 1 :
                   seen[q] = s[i] /\ mine[q] = s[i + 1] /\ node[s[i]].next = Nil
        BY DEF List, Made
      <3>3. i # 1
        <4>1. node[s[1]].next = s[2] /\ s[2] \in Nodes
          BY <1>2 DEF Linked
        <4>2. QED
          BY <3>2, <4>1, ConstantFacts
      <3>4. PICK k \in 1 .. Len(r) - 1 : k + 1 = i
        <4>1. i - 1 \in 1 .. Len(r) - 1 /\ (i - 1) + 1 = i
          BY <1>2, <1>4, <3>3
        <4>2. QED
          BY <4>1
      <3>5. k \in 1 .. Len(r) /\ k + 1 \in 1 .. Len(r)
        BY <1>4
      <3>6. r[k] = s[i] /\ r[k + 1] = s[i + 1] /\ node'[r[k]] = node[r[k]]
        BY <1>4, <1>7, <3>4, <3>5
      <3>7. QED
        BY <3>1, <3>2, <3>6
    <2>3. ASSUME NEW n \in Live'
          PROVE  (\E i \in 1 .. Len(r) : r[i] = n) \/ \E q \in Makers : mine'[q] = n
      <3>1. n \in Live /\ n # s[1]
        BY <1>6
      <3>2. CASE \E i \in 1 .. Len(s) : s[i] = n
        <4>1. PICK i \in 1 .. Len(s) : s[i] = n
          BY <3>2
        <4>2. i # 1
          BY <3>1, <4>1
        <4>3. i - 1 \in 1 .. Len(r) /\ (i - 1) + 1 = i
          BY <1>2, <1>4, <4>2
        <4>4. r[i - 1] = n
          BY <1>4, <4>1, <4>3
        <4>5. QED
          BY <4>3, <4>4
      <3>3. QED
        BY <2>1, <3>1, <3>2 DEF List, Made
    <2>4. QED
      BY <1>8, <2>1, <2>2, <2>3 DEF Made
  <1>12. Front(r)' /\ Promise(r)'
    <2>1. r[1] = s[2]
      <3>1. 1 \in 1 .. Len(r) /\ 1 + 1 = 2
        BY <1>2, <1>4
      <3>2. r[1] = s[1 + 1]
        BY <1>4, <3>1
      <3>3. QED
        BY <3>1, <3>2
    <2>2. \A d \in poppers : pc'[d] = "out"
      BY <1>1 DEF Types
    <2>3. QED
      BY <2>1, <2>2 DEF Front, Promise
  <1>13. List(r)'
    BY <1>10, <1>11, <1>12 DEF List
  <1>14. QED
    BY <1>3, <1>13

\* A step that takes an entity either keeps the invariant or, without a mutex, leaves
\* head_ at the node it deletes.
LEMMA PopTakeStep ==
    ASSUME Inv, InTurn, NEW c \in poppers, PopTake(c)
    PROVE  /\ (fault' = fault /\ Inv') \/ (fault' = "dangling head" /\ ~locked)
           /\ Len(got) < Len(order) /\ got' = Append(got, order[Len(got) + 1])
           /\ UNCHANGED <<locked, poppers, order, closed>>
  <1>1. pc[c] = "take"
    BY DEF PopTake
  <1>2. /\ Types /\ Exclusion /\ Items /\ Sizes
        /\ c \in Threads /\ c \in Consumers
        /\ \A p \in Producers : p \in Threads \ {c}
        /\ \A d \in poppers \ {c} : d \in Threads \ {c} /\ pc[d] = "out"
        /\ PopClaimed
        /\ Len(order) \in Nat /\ Len(got) \in Nat /\ order \in Seq(Nat) /\ got \in Seq(Nat)
    BY <1>1, PopperFacts, Entries DEF Inside, Types
  <1>3. PICK s \in Seq(Nodes) : List(s)
    BY DEF Inv
  <1>4. /\ seen[c] = s[1] /\ Linked(s)
        /\ \/ head_ = s[1] /\ ~locked
           \/ head_ = s[2]
    BY <1>1, <1>3 DEF List, Front
  <1>5. /\ Len(s) \in Nat /\ Len(s) > 1 /\ s[1] \in Live /\ s[2] \in Live /\ s[1] # s[2]
        /\ node[s[1]].next = s[2]
        /\ Len(order) = Len(got) + Len(s) - 1
        /\ node[s[2]].entity = order[Len(got) + 1]
    <2>1. Len(s) \in Nat /\ Len(s) > 1 /\ node[s[1]].next = s[2]
      BY <1>4, LenProperties DEF Linked
    <2>2. 1 \in 1 .. Len(s) /\ 2 \in 1 .. Len(s) /\ 1 \in 1 .. Len(s) - 1 /\ 1 # 2 /\ 1 + 1 = 2
      BY <2>1
    <2>3. QED
      BY <1>3, <2>1, <2>2 DEF List, Ring
  <1>6. /\ got' = Append(got, node[s[2]].entity)
        /\ node' = Free(s[1])
        /\ fault' = IF head_ = s[1] THEN "dangling head" ELSE fault
        /\ pc' = [pc EXCEPT ![c] = "out"] /\ seen' = [seen EXCEPT ![c] = Nil]
        /\ mine' = [mine EXCEPT ![c] = Nil] /\ item' = [item EXCEPT ![c] = 0]
        /\ mutex' = Nil /\ sure' = sure \ {c}
        /\ UNCHANGED <<locked, poppers, head_, tail_, size_, pushes, order, closed>>
    BY <1>4, <1>5 DEF PopTake, PopLeave, Leave, setup
  <1>7. Len(got) < Len(order) /\ got' = Append(got, order[Len(got) + 1])
    <2>1. \A a, b, n \in Nat : a = b + n - 1 /\ n > 1 => b < a
      OBVIOUS
    <2>2. Len(got) < Len(order)
      BY <1>2, <1>5, <2>1
    <2>3. QED
      BY <1>5, <1>6, <2>2
  <1>8. ASSUME head_ = s[2] PROVE Inv'
    <2>1. /\ pc'[c] = "out"
          /\ \A t \in Threads \ {c} : /\ pc'[t] = pc[t] /\ seen'[t] = seen[t]
                                      /\ mine'[t] = mine[t] /\ item'[t] = item[t]
      BY <1>2, <1>6 DEF Types
    <2>2. /\ got' \in Seq(Nat) /\ Len(got') = Len(got) + 1
          /\ got'[Len(got) + 1] = order[Len(got) + 1]
          /\ \A i \in 1 .. Len(got) : got'[i] = got[i]
      <3>1. order[Len(got) + 1] \in Nat
        BY <1>2, <1>7
      <3>2. QED
        BY <1>2, <1>7, <3>1, AppendProperties
    <2>3. Types'
      <3>1. /\ Live' \subseteq Nodes
            /\ node' \in [Live' -> [entity : Nat, next : Nodes \cup {Nil}]]
        <4>1. Live' = Live \ {s[1]} /\ node' = [m \in Live \ {s[1]} |-> node[m]]
          BY <1>6 DEF Free, Live
        <4>2. QED
          BY <1>2, <4>1 DEF Types
      <3>2. QED
        BY <1>2, <1>6, <2>2, <3>1, ConstantFacts DEF Types, Places
    <2>4. Exclusion'
      BY <1>1, <1>2, <1>6, <2>1, Alone DEF Exclusion, Types
    <2>5. Items'
      <3>1. /\ \A p \in Producers : pc'[p] = pc[p] /\ item'[p] = item[p]
            /\ order' = order /\ pushes' = pushes
        BY <1>2, <1>6, <2>1
      <3>2. Len(got') <= Len(order') /\ \A i \in 1 .. Len(got') : got'[i] = order'[i]
        <4>1. \A i \in 1 .. Len(got') : i \in 1 .. Len(got) \/ i = Len(got) + 1
          BY <1>2, <2>2
        <4>2. \A i \in 1 .. Len(got) : got[i] = order[i]
          BY <1>2 DEF Items
        <4>3. \A i \in 1 .. Len(got') : got'[i] = order'[i]
          BY <2>2, <3>1, <4>1, <4>2
        <4>4. Len(got') <= Len(order')
          BY <1>2, <1>7, <2>2, <3>1
        <4>5. QED
          BY <4>3, <4>4
      <3>3. /\ \A i \in 1 .. Len(order) : order[i] \in 1 .. pushes
            /\ \A i, j \in 1 .. Len(order) : order[i] = order[j] => i = j
            /\ pushes <= MaxPushes
        BY <1>2 DEF Items
      <3>4. ASSUME NEW p \in Producers, pc[p] \in {"claim", "new", "swing"}
            PROVE  /\ item[p] \in 1 .. pushes
                   /\ \A i \in 1 .. Len(order) : order[i] # item[p]
                   /\ \A q \in Producers :
                         pc[q] \in {"claim", "new", "swing"} /\ item[p] = item[q] => p = q
        BY <1>2, <3>4 DEF Items
      <3>5. QED
        BY <3>1, <3>2, <3>3, <3>4 DEF Items
    <2>6. Sizes'
      <3>1. ~PopClaimed'
        BY <1>2, <1>6, <2>1 DEF PopClaimed
      <3>2. PushClaims' = PushClaims
        BY <1>2, <2>1 DEF PushClaims
      <3>3. Claimed' = Claimed - 1 /\ Claimed \in Nat
        <4>1. Cardinality(PushClaims) \in Nat /\ Claimed \in Nat
          BY Entries
        <4>2. \A a, b, n \in Nat : a - (b + 1) + n = a - b + n - 1
          OBVIOUS
        <4>3. Claimed' = Len(order) - (Len(got) + 1) + Cardinality(PushClaims)
          BY <1>6, <2>2, <3>2 DEF Claimed
        <4>4. QED
          BY <1>2, <4>1, <4>2, <4>3 DEF Claimed
      <3>4. Net' = Net
        BY <1>2, <3>1, <3>3 DEF Net
      <3>5. QED
        <4>1. Claimed' <= MaxSize + 1 /\ (locked' => Claimed' <= MaxSize)
          <5>1. Claimed <= MaxSize + 1 /\ (locked => Claimed <= MaxSize) /\ MaxSize \in Nat
            BY <1>2, ConstantFacts DEF Sizes
          <5>2. locked' = locked
            BY <1>6
          <5>3. QED
            BY <3>3, <5>1, <5>2
        <4>2. size_' = IF Net' < 0 THEN Net' + Modulus ELSE Net'
          BY <1>2, <1>6, <3>4 DEF Sizes
        <4>3. QED
          BY <4>1, <4>2 DEF Sizes
    <2>7. List(Tail(s))'
      BY <1>1, <1>2, <1>3, <1>6, <1>8, <2>1, TakeList
    <2>8. Tail(s)' = Tail(s) /\ Tail(s) \in Seq(Nodes)
      BY <1>5, HeadTailProperties
    <2>9. QED
      BY <2>3, <2>4, <2>5, <2>6, <2>7, <2>8 DEF Inv
  <1>9. QED
    BY <1>4, <1>5, <1>6, <1>7, <1>8

\* The destructor walks the whole list and meets no deleted node.
LEMMA DestroyStep ==
    ASSUME Inv, Destroy
    PROVE  /\ closed' /\ fault' = fault /\ Live' = {}
           /\ UNCHANGED <<locked, poppers, size_, pc, order, got, sure>>
           /\ \A t \in Threads : pc[t] = "out"
  <1>1. \A t \in Threads : pc[t] = "out"
    BY DEF Destroy
  <1>2. PICK s \in Seq(Nodes) : List(s)
    BY DEF Inv
  <1>3. Len(s) \in Nat /\ Len(s) >= 1 /\ \A i \in 1 .. Len(s) : s[i] \in Live /\ s[i] \in Nodes
    BY <1>2, LenProperties DEF List, Ring
  <1>4. head_ = s[1]
    <2>1. \A c \in poppers : c \in Threads
      BY Entries, ConstantFacts DEF Types
    <2>2. QED
      BY <1>1, <1>2, <2>1 DEF List, Front
  <1>5. PICK S \in SUBSET Nodes : S = {s[i] : i \in 1 .. Len(s)}
    BY <1>3
  <1>6. \A m \in S \cap Live : node[m].next \in S \cup {Nil}
    <2>1. ASSUME NEW i \in 1 .. Len(s) PROVE node[s[i]].next \in S \cup {Nil}
      <3>1. CASE i = Len(s)
        BY <1>2, <3>1 DEF List, Ring
      <3>2. CASE i # Len(s)
        <4>1. i \in 1 .. Len(s) - 1 /\ i + 1 \in 1 .. Len(s)
          BY <1>3, <3>2
        <4>2. s[i + 1] \in S
          BY <1>5, <4>1
        <4>3. node[s[i]].next \in {s[i + 1], Nil}
          BY <1>2, <4>1 DEF List, Ring
        <4>4. QED
          BY <4>2, <4>3
      <3>3. QED
        BY <3>1, <3>2
    <2>2. QED
      BY <1>5, <2>1
  <1>7. head_ \in S
    <2>1. 1 \in 1 .. Len(s)
      BY <1>3
    <2>2. QED
      BY <1>4, <1>5, <2>1
  <1>8. Reached \subseteq Live
    <2>1. \A n \in Reached : n \in S
      BY <1>6, <1>7 DEF Reached
    <2>2. QED
      BY <1>3, <1>5, <2>1
  <1>9. Live \subseteq Reached
    <2>1. ASSUME NEW T \in SUBSET Nodes, head_ \in T,
                 \A m \in T \cap Live : node[m].next \in T \cup {Nil}
          PROVE  \A i \in 1 .. Len(s) : s[i] \in T
      <3>1. SUFFICES ASSUME {i \in 1 .. Len(s) : s[i] \notin T} # {} PROVE FALSE
        OBVIOUS
      <3>2. {i \in 1 .. Len(s) : s[i] \notin T} \in SUBSET Nat
        BY <1>3
      <3>3. PICK B \in SUBSET Nat : B = {i \in 1 .. Len(s) : s[i] \notin T}
        BY <3>2
      <3>4. PICK k \in B : \A y \in B : k <= y
        BY <3>1, <3>3, LeastNumber
      <3>5. k \in 1 .. Len(s) /\ s[k] \notin T /\ k # 1
        BY <1>4, <2>1, <3>3, <3>4
      <3>6. k - 1 \in 1 .. Len(s) - 1 /\ k - 1 \in 1 .. Len(s) /\ (k - 1) + 1 = k /\ ~(k <= k - 1)
        BY <1>3, <3>5
      <3>7. k - 1 \notin B
        BY <3>4, <3>6
      <3>8. s[k - 1] \in T \cap Live
        BY <1>3, <3>3, <3>6, <3>7
      <3>9. node[s[k - 1]].next = s[k]
        BY <1>1, <1>2, <3>6, ConstantFacts DEF List, Ring
      <3>10. s[k] \in T \cup {Nil} /\ s[k] \in Nodes
        BY <1>3, <2>1, <3>5, <3>8, <3>9
      <3>11. QED
        BY <3>5, <3>10, ConstantFacts
    <2>2. ASSUME NEW n \in Live PROVE \E i \in 1 .. Len(s) : s[i] = n
      <3>1. Makers = {}
        BY <1>1, ConstantFacts DEF Makers
      <3>2. QED
        BY <1>2, <3>1 DEF List, Made
    <2>3. \A i \in 1 .. Len(s) : s[i] \in Reached
      BY <1>3, <2>1 DEF Reached
    <2>4. QED
      BY <2>2, <2>3
  <1>10. /\ closed' = TRUE /\ node' = [n \in Live \ Reached |-> node[n]]
         /\ UNCHANGED <<setup, head_, tail_, size_, localVars, sure, order, got, fault>>
    BY <1>8 DEF Destroy
  <1>11. Live' = {}
    BY <1>9, <1>10 DEF Live
  <1>12. QED
    BY <1>1, <1>10, <1>11 DEF setup, localVars

-----------------------------------------------------------------------------
(* The invariant holds *)

LEMMA InitInv == Init => QInv
  <1>1. SUFFICES ASSUME Init PROVE QInv
    OBVIOUS
  <1>2. PICK n \in Nodes : /\ node = [m \in {n} |-> [entity |-> 0, next |-> Nil]]
                           /\ head_ = n /\ tail_ = n
    BY <1>1 DEF Init
  <1>3. PICK s \in Seq(Nodes) : s = <<n>>
    <2>1. n \in Nodes
      BY <1>2
    <2>2. <<n>> \in Seq(Nodes)
      BY <2>1
    <2>3. QED
      BY <2>2
  <1>4. Len(s) = 1 /\ s[1] = n /\ Live = {n} /\ node[n].next = Nil /\ \A i \in 1 .. Len(s) : i = 1
    BY <1>2, <1>3 DEF Live
  <1>5. /\ \A t \in Threads : pc[t] = "out" /\ t # Nil
        /\ mutex = Nil /\ size_ = 0 /\ pushes = 0 /\ sure = {} /\ order = <<>> /\ got = <<>>
        /\ fault = "none" /\ ~closed /\ locked \in BOOLEAN /\ poppers \subseteq Consumers
        /\ Len(order) = 0 /\ Len(got) = 0
        /\ \A p \in Producers : p \in Threads /\ \A c \in Consumers : c \in Threads
    BY <1>1, ConstantFacts DEF Init
  <1>6. Types
    <2>1. node \in [Live -> [entity : Nat, next : Nodes \cup {Nil}]]
      BY <1>2, <1>4
    <2>2. /\ pc \in [Threads -> Places] /\ seen \in [Threads -> Nat \cup Nodes \cup {Nil}]
          /\ mine \in [Threads -> Nodes \cup {Nil}] /\ item \in [Threads -> Nat]
      BY <1>1 DEF Init, Places
    <2>3. order \in Seq(Nat) /\ got \in Seq(Nat) /\ 0 \in 0 .. Modulus - 1 /\ pushes \in Nat
      BY <1>5, ConstantFacts
    <2>4. poppers \subseteq Threads /\ Producers \subseteq Threads /\ Consumers \subseteq Threads
      BY <1>5, ConstantFacts
    <2>5. QED
      BY <1>2, <1>4, <1>5, <2>1, <2>2, <2>3, <2>4 DEF Types
  <1>7. Exclusion /\ Items
    <2>1. \A p \in Producers : p \in Threads
      BY ConstantFacts
    <2>2. QED
      BY <1>5, <2>1, ConstantFacts DEF Exclusion, Items
  <1>8. Sizes
    <2>1. PushClaims = {} /\ ~PopClaimed
      BY <1>5, ConstantFacts DEF PushClaims, PopClaimed
    <2>2. Claimed = 0
      BY <1>5, <2>1, FS_EmptySet DEF Claimed
    <2>3. QED
      BY <1>5, <2>1, <2>2, ConstantFacts DEF Sizes, Net
  <1>9. Ring(s)
    <2>1. \A i \in 1 .. Len(s) - 1 : FALSE
      BY <1>4
    <2>2. QED
      BY <1>2, <1>4, <1>5, <2>1 DEF Ring
  <1>10. Made(s)
    <2>1. Makers = {} /\ Linkers = {}
      BY <1>5, ConstantFacts DEF Makers, Linkers
    <2>2. \A m \in Live : \E i \in 1 .. Len(s) : s[i] = m
      BY <1>4
    <2>3. QED
      BY <2>1, <2>2 DEF Made
  <1>11. Front(s) /\ Promise(s)
    BY <1>2, <1>4, <1>5, ConstantFacts DEF Front, Promise
  <1>12. Inv
    BY <1>6, <1>7, <1>8, <1>9, <1>10, <1>11 DEF Inv, List
  <1>13. QED
    BY <1>5, <1>12 DEF QInv, Safe

\* What waits is the end of order.
LEMMA EndOf ==
    ASSUME NEW o \in Seq(Nat), NEW g \in Nat, g <= Len(o)
    PROVE  LET w == SubSeq(o, g + 1, Len(o))
           IN  /\ w \in Seq(Nat) /\ Len(w) = Len(o) - g
               /\ \A i \in 1 .. Len(w) : w[i] = o[g + i]
  <1>1. PICK m \in Int, n \in Int : m = g + 1 /\ n = Len(o)
    BY LenProperties
  <1>2. n \in Nat /\ \A i \in m .. n : o[i] \in Nat
    <2>1. n \in Nat
      BY <1>1, LenProperties
    <2>2. ASSUME NEW i \in m .. n PROVE i \in 1 .. Len(o)
      BY <1>1, <2>1
    <2>3. QED
      BY <2>1, <2>2
  <1>3. PICK w : w = SubSeq(o, m, n)
    OBVIOUS
  <1>4. /\ w \in Seq(Nat)
        /\ Len(w) = IF m <= n THEN n - m + 1 ELSE 0
        /\ \A i \in 1 .. n - m + 1 : w[i] = o[m + i - 1]
    BY <1>2, <1>3, SubSeqProperties
  <1>5. Len(w) = n - m + 1 /\ n - m + 1 = Len(o) - g
    BY <1>1, <1>2, <1>4
  <1>6. \A i \in 1 .. Len(w) : m + i - 1 = g + i
    BY <1>1
  <1>7. QED
    BY <1>1, <1>3, <1>4, <1>5, <1>6

LEMMA WaitingFacts ==
    ASSUME order \in Seq(Nat), Len(got) \in Nat, Len(got) <= Len(order)
    PROVE  /\ Waiting \in Seq(Nat) /\ Len(Waiting) = Len(order) - Len(got)
           /\ Len(order) \in Nat /\ Len(Waiting) \in Nat
           /\ \A i \in 1 .. Len(Waiting) : Waiting[i] = order[Len(got) + i]
  BY EndOf, LenProperties DEF Waiting

\* The claims under way explain the difference between size_ and what waits.
LEMMA SizesAccount ==
    ASSUME Inv, InTurn
    PROVE  SizeAccounts
  <1>1. /\ Types /\ Items /\ Sizes /\ Claimed \in Nat /\ size_ \in 0 .. Modulus - 1
        /\ Cardinality(PushClaims) \in Nat /\ Modulus \in Nat \ {0}
        /\ Len(order) \in Nat /\ Len(got) \in Nat
    BY Entries, ConstantFacts DEF Types
  <1>2. Len(Waiting) = Len(order) - Len(got)
    BY <1>1, WaitingFacts DEF Types, Items
  <1>3. PICK B : B = {c \in Consumers : pc[c] \in Inside}
    OBVIOUS
  <1>4. Cardinality(B) = IF PopClaimed THEN 1 ELSE 0
    <2>1. \A c \in B : c \in poppers
      BY <1>1, <1>3 DEF Types, Inside
    <2>2. CASE PopClaimed
      <3>1. PICK c \in poppers : pc[c] \in Inside
        BY <2>2 DEF PopClaimed, Inside
      <3>2. c \in Consumers /\ \A d \in poppers \ {c} : pc[d] = "out"
        BY <3>1, PopperFacts DEF Inside
      <3>3. B = {c}
        BY <1>3, <2>1, <3>1, <3>2 DEF Inside
      <3>4. QED
        BY <2>2, <3>3, FS_Singleton
    <2>3. CASE ~PopClaimed
      <3>1. B = {}
        BY <1>3, <2>1, <2>3 DEF PopClaimed, Inside
      <3>2. QED
        BY <2>3, <3>1, FS_EmptySet
    <2>4. QED
      BY <2>2, <2>3
  <1>5. Claims = Cardinality(PushClaims) - Cardinality(B)
    BY <1>3 DEF Claims, PushClaims, Inside
  <1>6. Len(Waiting) + Claims = Net
    BY <1>1, <1>2, <1>4, <1>5 DEF Net, Claimed
  <1>7. locked => Len(Waiting) <= MaxSize
    BY <1>1, <1>2, ConstantFacts DEF Sizes, Claimed
  <1>8. size_ = (Net + Modulus) % Modulus
    <2>1. size_ % Modulus = size_ /\ (size_ + Modulus) % Modulus = size_
      BY <1>1, Modulo
    <2>2. CASE Net < 0
      BY <1>1, <2>1, <2>2 DEF Sizes
    <2>3. CASE ~(Net < 0)
      BY <1>1, <2>1, <2>3 DEF Sizes
    <2>4. QED
      BY <2>2, <2>3
  <1>9. QED
    BY <1>6, <1>7, <1>8 DEF SizeAccounts

\* Who takes part and under which regime does not change.
LEMMA SetupFixed ==
    ASSUME Next
    PROVE  locked' = locked /\ poppers' = poppers /\ InTurn' = InTurn
  <1>1. UNCHANGED setup
    <2>1. ASSUME NEW p \in Producers, Push(p) PROVE UNCHANGED setup
      BY <2>1 DEF Push, PushSize, PushClaim, PushNew, PushSwing, PushLink, PushUnclaim, Fault
    <2>2. ASSUME NEW c \in poppers, Pop(c) \/ Empty(c) PROVE UNCHANGED setup
      BY <2>2 DEF Pop, PopSize, PopClaim, PopHead, PopLook, PopSwing, PopCheck, PopTake,
                  PopUnclaim, Empty, Fault
    <2>3. ASSUME Destroy PROVE UNCHANGED setup
      BY <2>3 DEF Destroy, Fault
    <2>4. QED
      BY <2>1, <2>2, <2>3 DEF Next
  <1>2. QED
    BY <1>1 DEF setup, InTurn

\* What a step of a queue that works is.
PushStep(p) ==
    /\ Inv' /\ fault' = "none" /\ ~closed' /\ sure' = sure /\ got' = got
    /\ \/ order' = order
       \/ order' = Append(order, item[p]) /\ pc[p] = "swing"

PopStep(c) ==
    /\ order' = order /\ ~closed'
    /\ \/ Inv' /\ fault' = "none"
       \/ fault' = "dangling head" /\ ~locked
    /\ \/ got' = got /\ \A d \in poppers : Sure(d) => d \in sure'
       \/ Len(got) < Len(order) /\ got' = Append(got, order[Len(got) + 1])

EndStep ==
    /\ closed' /\ fault' = "none" /\ \A t \in Threads : pc[t] = "out"
    /\ Live' = {}
    /\ UNCHANGED <<locked, poppers, size_, pc, order, got, sure>>

LEMMA WorkingPush ==
    ASSUME Working, Inv, NEW p \in Producers, Push(p)
    PROVE  PushStep(p)
  <1>1. fault = "none" /\ ~closed
    BY DEF Working
  <1>2. CASE PushSize(p)
    BY <1>1, <1>2, PushSizeStep DEF PushSize, PushStep, histVars
  <1>3. CASE PushClaim(p)
    BY <1>1, <1>3, PushClaimStep DEF PushClaim, PushStep, histVars
  <1>4. CASE PushNew(p)
    BY <1>1, <1>4, PushNewStep DEF PushNew, PushStep, histVars
  <1>5. CASE PushSwing(p)
    BY <1>1, <1>5, PushSwingStep DEF PushSwing, PushStep
  <1>6. CASE PushLink(p)
    BY <1>1, <1>6, PushLinkStep DEF PushLink, PushStep, Fault, histVars
  <1>7. CASE PushUnclaim(p)
    BY <1>1, <1>7, PushUnclaimStep DEF PushUnclaim, PushStep, histVars
  <1>8. QED
    BY <1>2, <1>3, <1>4, <1>5, <1>6, <1>7 DEF Push

LEMMA WorkingPop ==
    ASSUME Working, Inv, NEW c \in poppers, Pop(c) \/ Empty(c)
    PROVE  PopStep(c)
  <1>1. fault = "none" /\ ~closed /\ InTurn
    BY DEF Working
  <1>2. \A d \in poppers : Sure(d) => d \in sure /\ d = c
    BY DEF Sure
  <1>3. CASE PopSize(c)
    BY <1>1, <1>2, <1>3, PopSizeStep DEF PopSize, PopStep, histVars
  <1>4. CASE PopClaim(c)
    BY <1>1, <1>2, <1>4, PopClaimStep DEF PopClaim, PopStep, histVars
  <1>5. CASE PopHead(c)
    BY <1>1, <1>2, <1>5, PopHeadStep DEF PopHead, PopStep, histVars
  <1>6. CASE PopLook(c)
    BY <1>1, <1>2, <1>6, PopLookStep DEF PopLook, PopStep, Fault, histVars
  <1>7. CASE PopSwing(c)
    BY <1>1, <1>2, <1>7, PopSwingStep DEF PopSwing, PopStep, histVars
  <1>8. CASE PopCheck(c)
    BY <1>1, <1>2, <1>8, PopCheckStep DEF PopCheck, PopStep, Fault, histVars
  <1>9. CASE PopTake(c)
    BY <1>1, <1>9, PopTakeStep DEF PopStep
  <1>10. CASE PopUnclaim(c)
    BY <1>1, <1>2, <1>10, PopUnclaimStep DEF PopUnclaim, PopStep, histVars
  <1>11. CASE Empty(c)
    BY <1>1, <1>11, EmptyStep DEF Empty, PopStep, Fault, histVars
  <1>12. QED
    BY <1>3, <1>4, <1>5, <1>6, <1>7, <1>8, <1>9, <1>10, <1>11 DEF Pop

LEMMA WorkingEnd ==
    ASSUME Working, Inv, Destroy
    PROVE  EndStep
  BY DestroyStep DEF Working, EndStep

\* Nothing happens any more when the queue is destroyed.
LEMMA NothingAfterwards ==
    ASSUME closed, \A t \in Threads : pc[t] = "out", poppers \subseteq Consumers
    PROVE  ~Next
  <1>1. Producers \subseteq Threads /\ Consumers \subseteq Threads
    BY ConstantFacts
  <1>2. ASSUME NEW p \in Producers PROVE ~Push(p)
    BY <1>1 DEF Push, PushSize, PushClaim, PushNew, PushSwing, PushLink, PushUnclaim, MayCall
  <1>3. ASSUME NEW c \in poppers PROVE ~Pop(c) /\ ~Empty(c)
    BY <1>1 DEF Pop, PopSize, PopClaim, PopHead, PopLook, PopSwing, PopCheck, PopTake,
                PopUnclaim, Empty, MayCall
  <1>4. ~Destroy
    BY DEF Destroy
  <1>5. QED
    BY <1>2, <1>3, <1>4 DEF Next

LEMMA Steps ==
    ASSUME QInv, Next, InTurn
    PROVE  /\ Working /\ Inv
           /\ \/ \E p \in Producers : PushStep(p)
              \/ \E c \in poppers : PopStep(c)
              \/ EndStep
  <1>1. fault = "none"
    BY DEF Next
  <1>2. ~closed
    BY NothingAfterwards DEF QInv
  <1>3. Working /\ Inv
    BY <1>1, <1>2 DEF Working, QInv
  <1>4. QED
    BY <1>3, WorkingPush, WorkingPop, WorkingEnd DEF Next

\* QInv is an invariant of every behaviour of the queue.
THEOREM Invariance == Spec => []QInv
  <1>1. QInv /\ [Next]_vars => QInv'
    <2>1. SUFFICES ASSUME QInv, [Next]_vars PROVE QInv'
      OBVIOUS
    <2>2. CASE UNCHANGED vars
      <3>1. UNCHANGED <<locked, poppers, mutex, node, head_, tail_, size_, pc, seen, mine, item,
                        pushes, sure, order, got, closed, fault>>
        BY <2>2 DEF vars, setup, listVars, localVars, histVars
      <3>2. Safe' /\ (Working' <=> Working) /\ (InTurn' <=> InTurn)
        BY <2>1, <3>1 DEF QInv, Safe, Working, InTurn
      <3>3. Inv => Inv'
        <4>1. Types => Types'
          BY <3>1 DEF Types, Live
        <4>2. Exclusion => Exclusion'
          BY <3>1 DEF Exclusion
        <4>3. Items => Items'
          BY <3>1 DEF Items
        <4>4. Sizes => Sizes'
          BY <3>1 DEF Sizes, Claimed, Net, PushClaims, PopClaimed
        <4>5. ASSUME NEW s \in Seq(Nodes), List(s) PROVE List(s)'
          <5>1. Ring(s)' /\ Made(s)'
            BY <3>1, <4>5 DEF List, Ring, Made, Makers, Linkers, Live
          <5>2. Front(s)' /\ Promise(s)'
            BY <3>1, <4>5 DEF List, Front, Promise, Linked
          <5>3. QED
            BY <5>1, <5>2 DEF List
        <4>6. QED
          BY <4>1, <4>2, <4>3, <4>4, <4>5 DEF Inv
      <3>4. Live' = Live /\ (SizeAccounts' <=> SizeAccounts)
        <4>1. Waiting' = Waiting /\ Claims' = Claims
          BY <3>1 DEF Waiting, Claims
        <4>2. QED
          BY <3>1, <4>1 DEF SizeAccounts, Live
      <3>5. QED
        BY <2>1, <3>1, <3>2, <3>3, <3>4 DEF QInv
    <2>3. CASE Next /\ ~InTurn
      <3>1. ~InTurn' /\ ~locked' /\ poppers' = poppers /\ Cardinality(poppers) # 1
        BY <2>3, SetupFixed DEF InTurn
      <3>2. QED
        BY <3>1 DEF QInv, Safe, Working
    <2>4. CASE Next /\ InTurn
      <3>1. /\ Working /\ Inv
            /\ locked' = locked /\ poppers' = poppers /\ InTurn'
            /\ \/ \E p \in Producers : PushStep(p)
               \/ \E c \in poppers : PopStep(c)
               \/ EndStep
        BY <2>1, <2>4, Steps, SetupFixed
      <3>2. CASE fault' = "none" /\ ~closed' /\ Inv'
        BY <3>2 DEF QInv, Safe, Working
      <3>3. CASE fault' = "dangling head" /\ ~closed' /\ ~locked
        BY <3>1, <3>3 DEF QInv, Safe, Working
      <3>4. CASE EndStep
        <4>1. SizeAccounts /\ poppers \subseteq Consumers
          BY <3>1, SizesAccount, Entries DEF Working, Types
        <4>2. SizeAccounts'
          <5>1. Waiting' = Waiting /\ Claims' = Claims /\ locked' = locked /\ size_' = size_
            BY <3>4 DEF Waiting, Claims, EndStep
          <5>2. fault = "none"
            BY <3>1 DEF Working
          <5>3. QED
            BY <4>1, <5>1, <5>2 DEF SizeAccounts
        <4>3. QED
          BY <3>1, <3>4, <4>1, <4>2 DEF QInv, Safe, Working, EndStep
      <3>5. QED
        BY <3>1, <3>2, <3>3, <3>4 DEF PushStep, PopStep
    <2>5. QED
      BY <2>1, <2>2, <2>3, <2>4
  <1>2. QED
    BY <1>1, InitInv, PTL DEF Spec

-----------------------------------------------------------------------------
(* The properties *)

\* Under the mutex no thread touches a deleted node and head_ never dangles; without it a
\* single consumer touches none (Safe).
THEOREM NothingDeletedTouched == Spec => []Safe
  <1>1. QInv => Safe
    BY DEF QInv
  <1>2. QED
    BY <1>1, Invariance, PTL

\* The consumer that is alone with its queue and has seen it not empty, without a lock, gets
\* an entity from its next Pop under the lock, as ThreadBody relies on (SureToPop).
THEOREM PromiseKept == Spec => SureToPop
  <1>1. ASSUME QInv, [Next]_vars, NEW c \in poppers, locked, poppers = {c}, c \in sure,
               c \notin sure'
        PROVE  Len(got') = Len(got) + 1
    <2>1. Next
      BY <1>1 DEF vars
    <2>2. /\ InTurn /\ Sure(c)
      BY <1>1 DEF InTurn, Sure
    <2>3. /\ Inv
          /\ \/ \E p \in Producers : PushStep(p)
             \/ \E d \in poppers : PopStep(d)
             \/ EndStep
      BY <1>1, <2>1, <2>2, Steps
    <2>4. Len(got) < Len(order) /\ got' = Append(got, order[Len(got) + 1])
      BY <1>1, <2>2, <2>3 DEF PushStep, PopStep, EndStep
    <2>5. got \in Seq(Nat) /\ order \in Seq(Nat) /\ Len(got) \in Nat /\ Len(order) \in Nat
      BY <2>3, Entries DEF Types
    <2>6. order[Len(got) + 1] \in Nat
      BY <2>4, <2>5
    <2>7. QED
      BY <2>4, <2>5, <2>6, AppendProperties
  <1>2. QInv /\ [Next]_vars => [\A c \in poppers :
                                  locked /\ poppers = {c} /\ c \in sure /\ c \notin sure'
                                     => Len(got') = Len(got) + 1]_vars
    BY <1>1
  <1>3. QED
    BY <1>2, Invariance, PTL DEF Spec, SureToPop

\* size_ accounts for what waits and the claims under way, and under the mutex no more than
\* MaxSize entities wait (SizeAccounts), unless consumers work without the mutex.
THEOREM ClaimsAccounted == Spec => [](InTurn => SizeAccounts)
  <1>1. QInv => (InTurn => SizeAccounts)
    <2>1. SUFFICES ASSUME QInv, InTurn PROVE SizeAccounts
      OBVIOUS
    <2>2. CASE fault = "none" /\ ~closed
      BY <2>1, <2>2, SizesAccount DEF QInv, Working
    <2>3. CASE closed
      BY <2>1, <2>3 DEF QInv
    <2>4. CASE fault # "none"
      BY <2>1, <2>4 DEF QInv, Safe, SizeAccounts
    <2>5. QED
      BY <2>2, <2>3, <2>4
  <1>2. QED
    BY <1>1, Invariance, PTL

\* The destructor of the queue leaves no node (NoLeak).
THEOREM EverythingDeleted == Spec => []NoLeak
  <1>1. QInv => NoLeak
    BY DEF QInv, NoLeak
  <1>2. QED
    BY <1>1, Invariance, PTL

\* The list takes the entity of a Push as the abstract queue does.
LEMMA EnqueueStep ==
    ASSUME Inv, NEW p \in Producers, pc[p] = "swing", order' = Append(order, item[p]), got' = got
    PROVE  /\ item[p] \in Item /\ Len(Waiting) < MaxSize + 1
           /\ \A i \in DOMAIN Waiting : Waiting[i] # item[p]
           /\ \A i \in DOMAIN got : got[i] # item[p]
           /\ Waiting' = Append(Waiting, item[p])
  <1>1. /\ Types /\ Items /\ Sizes /\ order \in Seq(Nat) /\ got \in Seq(Nat)
        /\ Len(order) \in Nat /\ Len(got) \in Nat /\ Len(got) <= Len(order)
        /\ DOMAIN got = 1 .. Len(got)
    BY Entries, LenProperties DEF Types, Items
  <1>2. /\ item[p] \in 1 .. pushes /\ pushes <= MaxPushes /\ pushes \in Nat
        /\ \A i \in 1 .. Len(order) : order[i] # item[p]
        /\ \A i \in 1 .. Len(got) : got[i] = order[i]
    BY <1>1 DEF Items, Types
  <1>3. item[p] \in Item /\ item[p] \in Nat
    BY <1>2, ConstantFacts DEF Item
  <1>4. /\ Waiting \in Seq(Nat) /\ Len(Waiting) = Len(order) - Len(got) /\ Len(Waiting) \in Nat
        /\ \A i \in 1 .. Len(Waiting) : Waiting[i] = order[Len(got) + i]
        /\ DOMAIN Waiting = 1 .. Len(Waiting)
    BY <1>1, WaitingFacts, LenProperties
  <1>5. Len(Waiting) < MaxSize + 1
    <2>1. Cardinality(PushClaims) \in Nat /\ Cardinality(PushClaims) # 0
      <3>1. PushClaims # {}
        BY DEF PushClaims
      <3>2. QED
        BY <3>1, Entries, FS_EmptySet
    <2>2. Len(Waiting) + Cardinality(PushClaims) <= MaxSize + 1 /\ MaxSize \in Nat
      BY <1>1, <1>4, ConstantFacts DEF Sizes, Claimed
    <2>3. \A a, b, m \in Nat : a + b <= m + 1 /\ b # 0 => a < m + 1
      OBVIOUS
    <2>4. QED
      BY <1>4, <2>1, <2>2, <2>3
  <1>6. \A i \in DOMAIN Waiting : Waiting[i] # item[p]
    <2>1. \A i \in 1 .. Len(Waiting) : Len(got) + i \in 1 .. Len(order)
      BY <1>1, <1>4
    <2>2. QED
      BY <1>2, <1>4, <2>1
  <1>7. \A i \in DOMAIN got : got[i] # item[p]
    <2>1. \A i \in 1 .. Len(got) : i \in 1 .. Len(order)
      BY <1>1
    <2>2. QED
      BY <1>1, <1>2, <2>1
  <1>8. Waiting' = Append(Waiting, item[p])
    <2>1. /\ order' \in Seq(Nat) /\ Len(order') = Len(order) + 1
          /\ order'[Len(order) + 1] = item[p]
          /\ \A i \in 1 .. Len(order) : order'[i] = order[i]
      BY <1>1, <1>3, AppendProperties
    <2>2. PICK w, v : w = Waiting' /\ v = Append(Waiting, item[p])
      OBVIOUS
    <2>3. Len(got') \in Nat /\ Len(got') <= Len(order')
      BY <1>1, <2>1
    <2>4. /\ w \in Seq(Nat) /\ Len(w) = Len(order) + 1 - Len(got)
          /\ \A i \in 1 .. Len(w) : w[i] = order'[Len(got) + i]
      <3>1. PICK o \in Seq(Nat), g \in Nat : o = order' /\ g = Len(got')
        BY <2>1, <2>3
      <3>2. w = SubSeq(o, g + 1, Len(o)) /\ g <= Len(o)
        BY <2>2, <2>3, <3>1 DEF Waiting
      <3>3. /\ w \in Seq(Nat) /\ Len(w) = Len(o) - g
            /\ \A i \in 1 .. Len(w) : w[i] = o[g + i]
        BY <3>2, EndOf
      <3>4. g = Len(got)
        BY <1>1, <3>1
      <3>5. Len(o) = Len(order) + 1
        BY <2>1, <3>1
      <3>6. Len(w) = Len(order) + 1 - Len(got)
        BY <3>3, <3>4, <3>5
      <3>7. \A i \in 1 .. Len(w) : w[i] = order'[Len(got) + i]
        BY <3>1, <3>3, <3>4
      <3>8. QED
        BY <3>3, <3>6, <3>7
    <2>5. /\ v \in Seq(Nat) /\ Len(v) = Len(Waiting) + 1 /\ v[Len(Waiting) + 1] = item[p]
          /\ \A i \in 1 .. Len(Waiting) : v[i] = Waiting[i]
      BY <1>3, <1>4, <2>2, AppendProperties
    <2>6. Len(w) = Len(v) /\ Len(v) = Len(Waiting) + 1
      BY <1>1, <1>4, <2>4, <2>5
    <2>7. ASSUME NEW i \in 1 .. Len(w) PROVE w[i] = v[i]
      <3>1. CASE i = Len(Waiting) + 1
        <4>1. Len(got) + i = Len(order) + 1
          BY <1>1, <1>4, <3>1
        <4>2. QED
          BY <2>1, <2>4, <2>5, <3>1, <4>1
      <3>2. CASE i # Len(Waiting) + 1
        <4>1. i \in 1 .. Len(Waiting) /\ Len(got) + i \in 1 .. Len(order)
          <5>1. \A n \in Nat : i \in 1 .. n + 1 /\ i # n + 1 => i \in 1 .. n
            OBVIOUS
          <5>2. i \in 1 .. Len(Waiting)
            BY <1>4, <2>6, <3>2, <5>1
          <5>3. QED
            BY <1>1, <1>4, <5>2
        <4>2. QED
          BY <1>4, <2>1, <2>4, <2>5, <4>1
      <3>3. QED
        BY <3>1, <3>2
    <2>8. w = v
      BY <2>4, <2>5, <2>6, <2>7, SeqEqual
    <2>9. QED
      BY <2>2, <2>8
  <1>9. QED
    BY <1>3, <1>5, <1>6, <1>7, <1>8

\* A Pop takes the first entity that waits.
LEMMA DequeueStep ==
    ASSUME Inv, Len(got) < Len(order), got' = Append(got, order[Len(got) + 1]), order' = order
    PROVE  /\ Waiting # <<>> /\ Waiting' = Tail(Waiting)
           /\ got' = Append(got, Head(Waiting))
  <1>1. /\ order \in Seq(Nat) /\ got \in Seq(Nat)
        /\ Len(order) \in Nat /\ Len(got) \in Nat /\ Len(got) <= Len(order)
    BY Entries DEF Types, Items
  <1>2. /\ Waiting \in Seq(Nat) /\ Len(Waiting) = Len(order) - Len(got) /\ Len(Waiting) \in Nat
        /\ \A i \in 1 .. Len(Waiting) : Waiting[i] = order[Len(got) + i]
    BY <1>1, WaitingFacts
  <1>3. Len(Waiting) >= 1 /\ Waiting # <<>>
    <2>1. Len(Waiting) >= 1
      BY <1>1, <1>2
    <2>2. QED
      BY <1>2, <2>1, EmptySeq
  <1>4. Head(Waiting) = order[Len(got) + 1] /\ Head(Waiting) \in Nat
    <2>1. 1 \in 1 .. Len(Waiting)
      BY <1>2, <1>3
    <2>2. Head(Waiting) = Waiting[1]
      BY <1>2, <1>3
    <2>3. QED
      BY <1>2, <1>3, <2>1, <2>2, HeadTailProperties
  <1>5. Waiting' = Tail(Waiting)
    <2>1. Len(got') = Len(got) + 1 /\ order[Len(got) + 1] \in Nat
      BY <1>1, <1>4, AppendProperties
    <2>2. PICK w, v : w = Waiting' /\ v = Tail(Waiting)
      OBVIOUS
    <2>3. order' \in Seq(Nat) /\ Len(got') \in Nat /\ Len(got') <= Len(order')
      BY <1>1, <2>1
    <2>4. /\ w \in Seq(Nat) /\ Len(w) = Len(order) - (Len(got) + 1)
          /\ \A i \in 1 .. Len(w) : w[i] = order[(Len(got) + 1) + i]
      <3>1. PICK o \in Seq(Nat), g \in Nat : o = order' /\ g = Len(got')
        BY <2>3
      <3>2. w = SubSeq(o, g + 1, Len(o)) /\ g <= Len(o)
        BY <2>2, <2>3, <3>1 DEF Waiting
      <3>3. /\ w \in Seq(Nat) /\ Len(w) = Len(o) - g
            /\ \A i \in 1 .. Len(w) : w[i] = o[g + i]
        BY <3>2, EndOf
      <3>4. QED
        BY <2>1, <3>1, <3>3
    <2>5. /\ v \in Seq(Nat) /\ Len(v) = Len(Waiting) - 1
          /\ \A i \in 1 .. Len(v) : v[i] = Waiting[i + 1]
      BY <1>2, <1>3, <2>2, HeadTailProperties
    <2>6. Len(w) = Len(v)
      BY <1>1, <1>2, <2>4, <2>5
    <2>7. ASSUME NEW i \in 1 .. Len(w) PROVE w[i] = v[i]
      <3>1. i \in 1 .. Len(v) /\ i + 1 \in 1 .. Len(Waiting)
            /\ (Len(got) + 1) + i = Len(got) + (i + 1)
        BY <1>1, <1>2, <2>4, <2>5, <2>6
      <3>2. QED
        BY <1>2, <2>4, <2>5, <3>1
    <2>8. w = v
      BY <2>4, <2>5, <2>6, <2>7, SeqEqual
    <2>9. QED
      BY <2>2, <2>8
  <1>6. QED
    BY <1>3, <1>4, <1>5

\* LockFreeQueue implements the bounded first-in-first-out queue of BoundedFifo, whose items
\* are those that tail_ has taken and no Pop has moved out (RefinesFifo).
THEOREM Refinement == Spec => RefinesFifo
  <1>1. Init => Fifo!Init
    <2>1. SUFFICES ASSUME Init PROVE Fifo!Init
      OBVIOUS
    <2>2. order = <<>> /\ got = <<>>
      BY <2>1 DEF Init
    <2>3. Waiting = <<>>
      BY <2>2, SubSeqEmpty DEF Waiting
    <2>4. QED
      BY <2>2, <2>3 DEF Fifo!Init
  <1>2. QInv /\ [Next]_vars => [Fifo!Next]_(Fifo!vars)
    <2>1. SUFFICES ASSUME QInv, [Next]_vars PROVE [Fifo!Next]_(Fifo!vars)
      OBVIOUS
    <2>2. ASSUME InTurn' = InTurn, ~InTurn \/ (order' = order /\ got' = got)
          PROVE  UNCHANGED Fifo!vars
      BY <2>2 DEF Fifo!vars, Waiting
    <2>3. CASE UNCHANGED vars
      BY <2>2, <2>3 DEF vars, setup, histVars, InTurn
    <2>4. CASE Next /\ ~InTurn
      BY <2>2, <2>4, SetupFixed
    <2>5. CASE Next /\ InTurn
      <3>1. /\ Inv /\ InTurn' /\ InTurn
            /\ \/ \E p \in Producers : PushStep(p)
               \/ \E c \in poppers : PopStep(c)
               \/ EndStep
        BY <2>1, <2>5, Steps, SetupFixed
      <3>2. CASE order' = order /\ got' = got
        BY <2>2, <2>5, <3>1, <3>2
      <3>3. ASSUME NEW p \in Producers, pc[p] = "swing", order' = Append(order, item[p]),
                   got' = got
            PROVE  Fifo!Next
        <4>1. /\ item[p] \in Item /\ Len(Waiting) < MaxSize + 1
              /\ \A i \in DOMAIN Waiting : Waiting[i] # item[p]
              /\ \A i \in DOMAIN got : got[i] # item[p]
              /\ Waiting' = Append(Waiting, item[p])
          BY <3>1, <3>3, EnqueueStep
        <4>2. Fifo!Enqueue(item[p])
          BY <3>1, <3>3, <4>1 DEF Fifo!Enqueue
        <4>3. QED
          BY <4>1, <4>2 DEF Fifo!Next
      <3>4. ASSUME Len(got) < Len(order), got' = Append(got, order[Len(got) + 1]), order' = order
            PROVE  Fifo!Next
        <4>1. /\ Waiting # <<>> /\ Waiting' = Tail(Waiting)
              /\ got' = Append(got, Head(Waiting))
          BY <3>1, <3>4, DequeueStep
        <4>2. Fifo!Dequeue
          BY <3>1, <4>1 DEF Fifo!Dequeue
        <4>3. QED
          BY <4>2 DEF Fifo!Next
      <3>5. QED
        BY <3>1, <3>2, <3>3, <3>4 DEF PushStep, PopStep, EndStep
    <2>6. QED
      BY <2>1, <2>3, <2>4, <2>5
  <1>3. QED
    BY <1>1, <1>2, Invariance, PTL DEF Spec, RefinesFifo, Fifo!Spec

=============================================================================
