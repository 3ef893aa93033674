--------------------------- MODULE HashTableProofs ---------------------------
(***************************************************************************)
(* Proofs about HashTable: the chains stay apart and the buckets of the    *)
(* pool out of them, and the table is a map with a size.                   *)
(***************************************************************************)
EXTENDS HashTable, SequenceTheorems, FiniteSetTheorems, TLAPS

-----------------------------------------------------------------------------
(* Bags, sets of integers and walks *)

\* A set of natural numbers that is not empty has a least one.
LEMMA LeastNatural ==
    ASSUME NEW T \in SUBSET Nat, T # {}
    PROVE  \E m \in T : \A k \in T : m <= k
  <1>. DEFINE Less == {p \in Nat \X Nat : p[1] < p[2]}
  <1>1. IsWellFoundedOn(Less, Nat)
    BY NatLessThanWellFounded DEF OpToRel
  <1>2. PICK m \in T : \A k \in T : <<k, m>> \notin Less
    <2>. HIDE DEF Less
    <2>. QED
      BY <1>1, WFMin
  <1>3. \A k \in T : m <= k
    <2>. SUFFICES ASSUME NEW k \in T, k < m PROVE FALSE
      OBVIOUS
    <2>1. <<k, m>> \in Nat \X Nat
      OBVIOUS
    <2>2. QED
      BY <1>2, <2>1
  <1>4. QED
    BY <1>3

\* One copy more adds the element to the domain.
LEMMA BagPush ==
    ASSUME NEW B, IsABag(B), NEW b
    PROVE  /\ IsABag(B (+) SetToBag({b}))
           /\ DOMAIN (B (+) SetToBag({b})) = DOMAIN B \cup {b}
           /\ \A c \in DOMAIN B \ {b} : (B (+) SetToBag({b}))[c] = B[c]
           /\ b \notin DOMAIN B => (B (+) SetToBag({b}))[b] = 1
  BY DEF IsABag, (+), SetToBag

\* One copy less.
LEMMA BagPop ==
    ASSUME NEW B, IsABag(B), NEW b \in DOMAIN B
    PROVE  /\ IsABag(B (-) SetToBag({b}))
           /\ DOMAIN (B (-) SetToBag({b})) \subseteq DOMAIN B
           /\ B[b] = 1 => DOMAIN (B (-) SetToBag({b})) = DOMAIN B \ {b}
           /\ \A c \in DOMAIN B \ {b} :
                 c \in DOMAIN (B (-) SetToBag({b})) /\ (B (-) SetToBag({b}))[c] = B[c]
  BY DEF IsABag, (-), SetToBag

\* Bags with nothing in common, together.
LEMMA BagJoin ==
    ASSUME NEW B, IsABag(B), NEW C, IsABag(C), \A x \in DOMAIN B : x \notin DOMAIN C
    PROVE  /\ IsABag(B (+) C) /\ DOMAIN (B (+) C) = DOMAIN B \cup DOMAIN C
           /\ \A x \in DOMAIN B : (B (+) C)[x] = B[x]
           /\ \A x \in DOMAIN C : (B (+) C)[x] = C[x]
  <1>. DEFINE D == B (+) C
              Copies(x) == (IF x \in DOMAIN B THEN B[x] ELSE 0) + (IF x \in DOMAIN C THEN C[x] ELSE 0)
  <1>1. D = [x \in (DOMAIN B) \cup (DOMAIN C) |-> Copies(x)]
    BY DEF (+)
  <1>2. \A x \in DOMAIN B : B[x] \in Nat /\ B[x] > 0 /\ Copies(x) = B[x]
    BY DEF IsABag
  <1>3. \A x \in DOMAIN C : C[x] \in Nat /\ C[x] > 0 /\ Copies(x) = C[x]
    BY DEF IsABag
  <1>. HIDE DEF D, Copies
  <1>4. QED
    BY <1>1, <1>2, <1>3 DEF IsABag, D

LEMMA BagNone == IsABag(EmptyBag) /\ DOMAIN EmptyBag = {}
  BY DEF EmptyBag, SetToBag, IsABag

LEMMA Intervals == \A n \in Nat : /\ IsFiniteSet(1 .. n) /\ Cardinality(1 .. n) = n
                             /\ IsFiniteSet(0 .. n - 1) /\ Cardinality(0 .. n - 1) = n
  BY FS_Interval

\* A walk through an order: it starts at the first of T in the order R and goes on to the
\* next, n times, with none at the end.
FirstOf(T, R, none, b) ==
    \/ T = {} /\ b = none
    \/ b \in T /\ \A c \in T \ {b} : <<b, c>> \in R
NextOf(T, R, none, a, b) ==
    \/ a = none /\ b = none
    \/ a \in T /\ b = none /\ \A c \in T : <<a, c>> \notin R
    \/ /\ a \in T /\ b \in T /\ <<a, b>> \in R
       /\ \A c \in T \ {b} : <<a, c>> \in R => <<b, c>> \in R
WalksThrough(T, R, none, it, n) ==
    /\ FirstOf(T, R, none, it[1])
    /\ \A i \in 1 .. n : NextOf(T, R, none, it[i], it[i + 1])
StrictOrder(T, R) ==
    /\ \A b \in T : <<b, b>> \notin R
    /\ \A a, b, c \in T : <<a, b>> \in R /\ <<b, c>> \in R => <<a, c>> \in R

\* Each step of it is behind the ones before.
LEMMA WalkAscends ==
    ASSUME NEW n \in Nat, NEW T, NEW R, StrictOrder(T, R), NEW none, none \notin T,
           NEW it, WalksThrough(T, R, none, it, n)
    PROVE  \A j \in 1 .. n + 1 :
              /\ it[j] \in T \cup {none}
              /\ it[j] \in T => \A i \in 1 .. j - 1 : it[i] \in T /\ <<it[i], it[j]>> \in R
  <1>. DEFINE Good(j) == /\ it[j] \in T \cup {none}
                         /\ it[j] \in T => \A i \in 1 .. j - 1 : it[i] \in T /\ <<it[i], it[j]>> \in R
              Bad == {j \in Nat : j \in 1 .. n + 1 /\ ~Good(j)}
  <1>1. Bad = {}
    <2>. SUFFICES ASSUME Bad # {} PROVE FALSE
      OBVIOUS
    <2>1. PICK j \in Bad : \A k \in Bad : j <= k
      <3>1. Bad \in SUBSET Nat
        OBVIOUS
      <3>. HIDE DEF Bad
      <3>2. QED
        BY <3>1, LeastNatural
    <2>2. j \in 1 .. n + 1 /\ ~Good(j)
      BY <2>1
    <2>3. j # 1
      BY <2>2 DEF WalksThrough, FirstOf
    <2>4. /\ j - 1 \in 1 .. n /\ j - 1 \in 1 .. n + 1 /\ (j - 1) + 1 = j
          /\ \A i \in 1 .. j - 1 : i = j - 1 \/ i \in 1 .. (j - 1) - 1
      BY <2>2, <2>3
    <2>5. Good(j - 1)
      <3>1. j - 1 \in Nat /\ ~(j <= j - 1)
        BY <2>4
      <3>2. j - 1 \notin Bad
        BY <2>1, <3>1
      <3>3. QED
        BY <2>4, <3>1, <3>2
    <2>6. NextOf(T, R, none, it[j - 1], it[j])
      BY <2>4 DEF WalksThrough
    <2>7. it[j] \in T \cup {none}
      BY <2>6 DEF NextOf
    <2>8. ASSUME it[j] \in T, NEW i \in 1 .. j - 1 PROVE it[i] \in T /\ <<it[i], it[j]>> \in R
      <3>1. it[j - 1] \in T /\ <<it[j - 1], it[j]>> \in R
        BY <2>6, <2>8 DEF NextOf
      <3>2. CASE i = j - 1
        BY <3>1, <3>2
      <3>3. CASE i # j - 1
        <4>1. it[i] \in T /\ <<it[i], it[j - 1]>> \in R
          BY <2>4, <2>5, <2>8, <3>1, <3>3
        <4>2. QED
          BY <2>8, <3>1, <4>1 DEF StrictOrder
      <3>4. QED
        BY <3>2, <3>3
    <2>9. QED
      BY <2>2, <2>7, <2>8
  <1>2. QED
    BY <1>1

\* With as many steps as there are elements it meets every one, once.
LEMMA WalkMeetsAll ==
    ASSUME NEW n \in Nat, NEW T, IsFiniteSet(T), Cardinality(T) <= n, NEW R, StrictOrder(T, R),
           NEW none, none \notin T, NEW it, WalksThrough(T, R, none, it, n)
    PROVE  LET met == {i \in 1 .. n + 1 : it[i] # none}
           IN  {it[i] : i \in met} = T /\ Cardinality(met) = Cardinality(T)
  <1>. DEFINE met == {i \in 1 .. n + 1 : it[i] # none}
              f == [i \in met |-> it[i]]
  <1>1. \A j \in 1 .. n + 1 :
           /\ it[j] \in T \cup {none}
           /\ it[j] \in T => \A i \in 1 .. j - 1 : it[i] \in T /\ <<it[i], it[j]>> \in R
    BY WalkAscends
  <1>2. \A i \in 1 .. n + 1 : i \in met <=> it[i] \in T
    BY <1>1
  <1>3. ASSUME NEW i \in 1 .. n + 1, NEW j \in 1 .. n + 1, it[i] \in T, it[i] = it[j] PROVE i = j
    <2>1. ASSUME NEW a \in 1 .. n + 1, NEW b \in 1 .. n + 1, it[b] \in T, it[a] = it[b] PROVE ~(a < b)
      <3>1. a < b => a \in 1 .. b - 1
        OBVIOUS
      <3>2. a < b => <<it[a], it[b]>> \in R
        BY <1>1, <2>1, <3>1
      <3>3. QED
        BY <2>1, <3>2 DEF StrictOrder
    <2>2. ~(i < j) /\ ~(j < i)
      BY <1>3, <2>1
    <2>3. QED
      BY <2>2
  <1>4. ASSUME NEW c \in T PROVE \E i \in met : it[i] = c
    <2>. SUFFICES ASSUME \A i \in met : it[i] # c PROVE FALSE
      OBVIOUS
    <2>. DEFINE Bad == {j \in Nat : j \in 1 .. n + 1 /\ ~(it[j] \in T /\ <<it[j], c>> \in R)}
    <2>1. Bad = {}
      <3>. SUFFICES ASSUME Bad # {} PROVE FALSE
        OBVIOUS
      <3>1. PICK j \in Bad : \A k \in Bad : j <= k
        <4>1. Bad \in SUBSET Nat
          OBVIOUS
        <4>. HIDE DEF Bad
        <4>2. QED
          BY <4>1, LeastNatural
      <3>2. j \in 1 .. n + 1 /\ ~(it[j] \in T /\ <<it[j], c>> \in R)
        BY <3>1
      <3>3. 1 \in 1 .. n + 1 /\ it[1] \in T /\ <<it[1], c>> \in R
        BY <1>2 DEF WalksThrough, FirstOf
      <3>4. /\ j - 1 \in 1 .. n /\ j - 1 \in 1 .. n + 1 /\ (j - 1) + 1 = j
            /\ j - 1 \in Nat /\ ~(j <= j - 1)
        BY <3>2, <3>3
      <3>5. it[j - 1] \in T /\ <<it[j - 1], c>> \in R
        <4>1. j - 1 \notin Bad
          BY <3>1, <3>4
        <4>2. QED
          BY <3>4, <4>1
      <3>6. NextOf(T, R, none, it[j - 1], it[j])
        BY <3>4 DEF WalksThrough
      <3>7. it[j] \in T /\ \A d \in T \ {it[j]} : <<it[j - 1], d>> \in R => <<it[j], d>> \in R
        BY <3>5, <3>6 DEF NextOf
      <3>8. it[j] # c
        BY <1>2, <3>2, <3>7
      <3>9. QED
        BY <3>2, <3>5, <3>7, <3>8
    <2>. DEFINE g == [i \in 1 .. n + 1 |-> it[i]]
    <2>2. ASSUME NEW i \in 1 .. n + 1 PROVE it[i] \in T
      <3>1. i \in Nat
        OBVIOUS
      <3>2. i \notin Bad
        <4>. HIDE DEF Bad
        <4>. QED
          BY <2>1
      <3>3. QED
        BY <3>1, <3>2
    <2>3. g \in Injection(1 .. n + 1, T)
      BY <1>3, <2>2 DEF Injection, IsInjective
    <2>4. Cardinality(1 .. n + 1) = n + 1
      BY Intervals, n + 1 \in Nat
    <2>5. Cardinality(1 .. n + 1) <= Cardinality(T) /\ Cardinality(T) \in Nat
      <3>. HIDE DEF g
      <3>. QED
        BY <2>3, FS_Injection, FS_CardinalityType
    <2>6. QED
      BY <2>4, <2>5
  <1>5. f \in Injection(met, T)
    BY <1>2, <1>3 DEF Injection, IsInjective
  <1>6. f \in Surjection(met, T)
    BY <1>2, <1>4 DEF Surjection
  <1>7. {it[i] : i \in met} = T
    BY <1>2, <1>4
  <1>8. Cardinality(met) = Cardinality(T)
    <2>. HIDE DEF met, f
    <2>. QED
      BY <1>5, <1>6, FS_Injection
  <1>9. QED
    BY <1>7, <1>8

-----------------------------------------------------------------------------
(* Buckets *)

\* The number of raw buckets is a positive one.
LEMMA PowerPositive == ASSUME NEW i \in Nat PROVE 2 ^ i \in Nat /\ 2 ^ i > 0
  <1>. DEFINE S == 1 .. i
  <1>1. IsFiniteSet(S) /\ Cardinality(S) = i
    BY FS_Interval
  <1>2. IsFiniteSet(SUBSET S) /\ Cardinality(SUBSET S) = 2 ^ i
    BY <1>1, FS_SUBSET
  <1>3. SUBSET S # {}
    OBVIOUS
  <1>4. Cardinality(SUBSET S) \in Nat /\ Cardinality(SUBSET S) # 0
    BY <1>2, <1>3, FS_CardinalityType, FS_EmptySet
  <1>5. QED
    BY <1>2, <1>4

LEMMA Constants ==
    /\ BucketNum \in Nat /\ BucketNum > 0 /\ MaxBuckets \in Nat /\ BucketNum <= MaxBuckets
    /\ Raw \subseteq Bucket /\ 0 \in Raw
    /\ \A k \in Keys : Hash[k] \in Raw
    /\ NoKey \notin Keys /\ Values \subseteq Nat /\ FreeListModes \subseteq BOOLEAN
  <1>1. /\ Wanted \in Nat /\ MaxBuckets \in Nat /\ BucketNum <= MaxBuckets
        /\ Hash \in [Keys -> Raw] /\ NoKey \notin Keys /\ Values \subseteq Nat
        /\ FreeListModes \subseteq BOOLEAN
    BY TableAssumption DEF TableAssumption
  <1>. DEFINE Least(i) == (i = 31 \/ 2 ^ i >= Wanted) /\ \A j \in 1 .. i - 1 : 2 ^ j < Wanted
              T == {i \in 1 .. 31 : i = 31 \/ 2 ^ i >= Wanted}
  <1>2. \E i \in 1 .. 31 : Least(i)
    <2>1. T \in SUBSET Nat /\ 31 \in T
      OBVIOUS
    <2>2. PICK i \in T : \A j \in T : i <= j
      <3>. HIDE DEF T
      <3>. QED
        BY <2>1, LeastNatural
    <2>3. \A j \in 1 .. i - 1 : j \in 1 .. 31 /\ j \notin T
      BY <2>2
    <2>4. \A j \in 1 .. i - 1 : 2 ^ j \in Nat
      BY PowerPositive
    <2>5. QED
      BY <1>1, <2>2, <2>3, <2>4
  <1>. DEFINE c == CHOOSE i \in 1 .. 31 : Least(i)
  <1>3. c \in 1 .. 31
    BY <1>2
  <1>4. BucketNum = 2 ^ c
    BY DEF BucketNum
  <1>5. BucketNum \in Nat /\ BucketNum > 0
    <2>. HIDE DEF c
    <2>. QED
      BY <1>3, <1>4, PowerPositive
  <1>6. QED
    BY <1>1, <1>5 DEF Raw, Bucket

-----------------------------------------------------------------------------
(* Chains, whatever the buckets: B is the array of buckets *)

\* The recursive functions behind Walk and Hit.
Linked(c, s) == <<c>> \o s
WalkOf(B, N, w) ==
    w = [n \in 1 .. N |-> [c \in Bucket |->
           IF B[c].next >= BucketNum /\ n > 1 THEN Linked(c, w[n - 1][B[c].next]) ELSE <<c>>]]
Walks(B) == CHOOSE w : WalkOf(B, MaxBuckets, w)
Trail(B, b) == Walks(B)[MaxBuckets][b]

HoldsIn(B, b, k) == B[b].occupied /\ B[b].key = k
FindOf(B, k, N, at) ==
    at = [n \in 1 .. N |-> [c \in Bucket |->
            IF HoldsIn(B, c, k) THEN c
            ELSE IF B[c].next >= BucketNum /\ n > 1 THEN at[n - 1][B[c].next] ELSE Null]]
Finds(B, k) == CHOOSE at : FindOf(B, k, MaxBuckets, at)
Find(B, k) == Finds(B, k)[MaxBuckets][Hash[k]]

LEMMA WalkIs == \A b : Walk(b) = Trail(bucket, b) /\ Walk(b)' = Trail(bucket', b)
  BY DEF Walk, Trail, Walks, WalkOf, Linked

LEMMA HitIs == \A k : Hit(k) = Find(bucket, k) /\ Hit(k)' = Find(bucket', k)
  BY DEF Hit, Find, Finds, FindOf, Holds, HoldsIn

\* What they return.
LEMMA WalkAt ==
    ASSUME NEW B, NEW N, NEW w, WalkOf(B, N, w), NEW n \in 1 .. N, NEW c \in Bucket
    PROVE  w[n][c] = IF B[c].next >= BucketNum /\ n > 1 THEN Linked(c, w[n - 1][B[c].next]) ELSE <<c>>
  <1>1. w[n] = [d \in Bucket |->
                  IF B[d].next >= BucketNum /\ n > 1 THEN Linked(d, w[n - 1][B[d].next]) ELSE <<d>>]
    BY Zenon DEF WalkOf
  <1>2. QED
    BY <1>1, Zenon

LEMMA FindAt ==
    ASSUME NEW B, NEW k, NEW N, NEW at, FindOf(B, k, N, at), NEW n \in 1 .. N, NEW c \in Bucket
    PROVE  at[n][c] = IF HoldsIn(B, c, k) THEN c
                      ELSE IF B[c].next >= BucketNum /\ n > 1 THEN at[n - 1][B[c].next] ELSE Null
  <1>1. at[n] = [d \in Bucket |->
                   IF HoldsIn(B, d, k) THEN d
                   ELSE IF B[d].next >= BucketNum /\ n > 1 THEN at[n - 1][B[d].next] ELSE Null]
    BY Zenon DEF FindOf
  <1>2. QED
    BY <1>1, Zenon

\* They exist.
LEMMA WalksExist ==
    ASSUME NEW B, \A c \in Bucket : B[c].next \in Bucket
    PROVE  WalkOf(B, MaxBuckets, Walks(B))
  <1>. DEFINE T == {N \in Nat : ~ \E w : WalkOf(B, N, w)}
  <1>1. T = {}
    <2>. SUFFICES ASSUME T # {} PROVE FALSE
      OBVIOUS
    <2>1. PICK N \in T : \A j \in T : N <= j
      <3>1. T \in SUBSET Nat
        OBVIOUS
      <3>. HIDE DEF T
      <3>2. QED
        BY <3>1, LeastNatural
    <2>2. N # 0
      <3>1. WalkOf(B, 0, [n \in 1 .. 0 |-> [c \in Bucket |-> <<>>]])
        BY DEF WalkOf
      <3>2. QED
        BY <2>1, <3>1
    <2>3. PICK w : WalkOf(B, N - 1, w)
      <3>1. N - 1 \in Nat /\ N - 1 \notin T
        BY <2>1, <2>2
      <3>2. QED
        BY <3>1
    <2>. DEFINE Value(n, c) == IF B[c].next >= BucketNum /\ n > 1
                               THEN Linked(c, w[n - 1][B[c].next]) ELSE <<c>>
                v == [n \in 1 .. N |-> [c \in Bucket |-> Value(n, c)]]
    <2>4. \A n \in 1 .. N - 1, c \in Bucket : v[n][c] = w[n][c]
      <3>1. ASSUME NEW n \in 1 .. N - 1, NEW c \in Bucket
            PROVE  n \in 1 .. N /\ w[n][c] = Value(n, c)
        <4>1. n \in 1 .. N
          OBVIOUS
        <4>2. w[n][c] = Value(n, c)
          BY <2>3, WalkAt
        <4>3. QED
          BY <4>1, <4>2
      <3>2. QED
        BY <3>1
    <2>5. ASSUME NEW n \in 1 .. N, NEW c \in Bucket
          PROVE  Value(n, c) = IF B[c].next >= BucketNum /\ n > 1
                               THEN Linked(c, v[n - 1][B[c].next]) ELSE <<c>>
      <3>1. n > 1 => n - 1 \in 1 .. N - 1
        OBVIOUS
      <3>2. n > 1 => v[n - 1][B[c].next] = w[n - 1][B[c].next]
        BY <2>4, <3>1
      <3>3. QED
        BY <3>2
    <2>6. WalkOf(B, N, v)
      BY <2>5, Zenon DEF WalkOf
    <2>7. QED
      BY <2>1, <2>6
  <1>2. MaxBuckets \in Nat
    BY Constants
  <1>3. \E w : WalkOf(B, MaxBuckets, w)
    BY <1>1, <1>2
  <1>4. QED
    BY <1>3 DEF Walks

LEMMA FindsExist ==
    ASSUME NEW B, \A c \in Bucket : B[c].next \in Bucket, NEW k
    PROVE  FindOf(B, k, MaxBuckets, Finds(B, k))
  <1>. DEFINE T == {N \in Nat : ~ \E at : FindOf(B, k, N, at)}
  <1>1. T = {}
    <2>. SUFFICES ASSUME T # {} PROVE FALSE
      OBVIOUS
    <2>1. PICK N \in T : \A j \in T : N <= j
      <3>1. T \in SUBSET Nat
        OBVIOUS
      <3>. HIDE DEF T
      <3>2. QED
        BY <3>1, LeastNatural
    <2>2. N # 0
      <3>1. FindOf(B, k, 0, [n \in 1 .. 0 |-> [c \in Bucket |-> Null]])
        BY DEF FindOf
      <3>2. QED
        BY <2>1, <3>1
    <2>3. PICK w : FindOf(B, k, N - 1, w)
      <3>1. N - 1 \in Nat /\ N - 1 \notin T
        BY <2>1, <2>2
      <3>2. QED
        BY <3>1
    <2>. DEFINE Value(n, c) == IF HoldsIn(B, c, k) THEN c
                               ELSE IF B[c].next >= BucketNum /\ n > 1
                                    THEN w[n - 1][B[c].next] ELSE Null
                v == [n \in 1 .. N |-> [c \in Bucket |-> Value(n, c)]]
    <2>4. \A n \in 1 .. N - 1, c \in Bucket : v[n][c] = w[n][c]
      <3>1. \A n \in 1 .. N - 1, c \in Bucket : n \in 1 .. N /\ w[n][c] = Value(n, c)
        BY <2>3, FindAt
      <3>2. QED
        BY <3>1
    <2>5. ASSUME NEW n \in 1 .. N, NEW c \in Bucket
          PROVE  Value(n, c) = IF HoldsIn(B, c, k) THEN c
                               ELSE IF B[c].next >= BucketNum /\ n > 1
                                    THEN v[n - 1][B[c].next] ELSE Null
      <3>1. n > 1 => n - 1 \in 1 .. N - 1
        OBVIOUS
      <3>2. n > 1 => v[n - 1][B[c].next] = w[n - 1][B[c].next]
        BY <2>4, <3>1
      <3>3. QED
        BY <3>2
    <2>6. FindOf(B, k, N, v)
      BY <2>5, Zenon DEF FindOf
    <2>7. QED
      BY <2>1, <2>6
  <1>2. MaxBuckets \in Nat
    BY Constants
  <1>3. \E at : FindOf(B, k, MaxBuckets, at)
    BY <1>1, <1>2
  <1>4. QED
    BY <1>3 DEF Finds

\* c is the chain that starts at its first element.
Chain(B, c) ==
    /\ c \in Seq(Bucket) /\ Len(c) \in 1 .. MaxBuckets
    /\ \A i \in 1 .. Len(c) - 1 : B[c[i]].next = c[i + 1] /\ c[i + 1] >= BucketNum
    /\ B[c[Len(c)]].next < BucketNum

Suffix(c, i) == [j \in 1 .. Len(c) - i + 1 |-> c[i + j - 1]]

LEMMA SuffixLinked ==
    ASSUME NEW c \in Seq(Bucket), NEW i \in 1 .. Len(c) - 1
    PROVE  Linked(c[i], Suffix(c, i + 1)) = Suffix(c, i)
  <1>. DEFINE r == Suffix(c, i)
              s == Suffix(c, i + 1)
              t == <<c[i]>>
              L == Len(c)
  <1>1. L \in Nat /\ i \in Nat /\ i >= 1 /\ i < L /\ \A j \in 1 .. L : c[j] \in Bucket
    OBVIOUS
  <1>2. s \in Seq(Bucket) /\ Len(s) = L - i /\ \A j \in 1 .. L - i : s[j] = c[i + j]
    BY <1>1 DEF Suffix
  <1>3. r \in Seq(Bucket) /\ Len(r) = L - i + 1 /\ \A j \in 1 .. L - i + 1 : r[j] = c[i + j - 1]
    BY <1>1 DEF Suffix
  <1>4. t \in Seq(Bucket) /\ Len(t) = 1 /\ t[1] = c[i]
    BY <1>1
  <1>. HIDE DEF r, s, t, L
  <1>5. /\ t \o s \in Seq(Bucket) /\ Len(t \o s) = Len(t) + Len(s)
        /\ \A j \in 1 .. Len(t) + Len(s) : (t \o s)[j] = IF j <= Len(t) THEN t[j] ELSE s[j - Len(t)]
    BY <1>2, <1>4, ConcatProperties
  <1>6. Len(t \o s) = Len(r)
    BY <1>1, <1>2, <1>3, <1>4, <1>5
  <1>7. ASSUME NEW j \in 1 .. Len(t \o s) PROVE (t \o s)[j] = r[j]
    <2>1. j \in 1 .. L - i + 1 /\ j \in 1 .. Len(t) + Len(s)
      BY <1>1, <1>3, <1>5, <1>6
    <2>2. CASE j = 1
      BY <1>1, <1>3, <1>4, <1>5, <2>1, <2>2
    <2>3. CASE j # 1
      <3>1. (t \o s)[j] = s[j - 1]
        BY <1>1, <1>4, <1>5, <2>1, <2>3
      <3>2. j - 1 \in 1 .. L - i /\ i + (j - 1) = i + j - 1
        BY <1>1, <2>1, <2>3
      <3>3. QED
        BY <1>2, <1>3, <2>1, <3>1, <3>2
    <2>4. QED
      BY <2>2, <2>3
  <1>8. t \o s = r
    BY <1>3, <1>5, <1>6, <1>7, SeqEqual
  <1>9. QED
    BY <1>8 DEF Linked, r, s, t

\* The walk from a place in a chain visits the rest of the chain.
LEMMA TrailFrom ==
    ASSUME NEW B, \A b \in Bucket : B[b].next \in Bucket, NEW c, Chain(B, c), NEW p \in 1 .. Len(c)
    PROVE  Trail(B, c[p]) = Suffix(c, p)
  <1>. DEFINE L == Len(c)
              Right(i) == \A m \in (L - i + 1) .. MaxBuckets : Walks(B)[m][c[i]] = Suffix(c, i)
              T == {d \in Nat : d < L /\ ~Right(L - d)}
  <1>1. /\ L \in Nat /\ L >= 1 /\ L <= MaxBuckets /\ MaxBuckets \in Nat /\ BucketNum \in Nat
        /\ \A i \in 1 .. L : c[i] \in Bucket
    BY Constants DEF Chain
  <1>2. \A m \in 1 .. MaxBuckets, b \in Bucket :
           Walks(B)[m][b] = IF B[b].next >= BucketNum /\ m > 1
                            THEN Linked(b, Walks(B)[m - 1][B[b].next]) ELSE <<b>>
    <2>1. WalkOf(B, MaxBuckets, Walks(B))
      BY WalksExist
    <2>2. SUFFICES ASSUME NEW m \in 1 .. MaxBuckets, NEW b \in Bucket
          PROVE  Walks(B)[m][b] = IF B[b].next >= BucketNum /\ m > 1
                                  THEN Linked(b, Walks(B)[m - 1][B[b].next]) ELSE <<b>>
      OBVIOUS
    <2>3. QED
      BY <2>1, WalkAt
  <1>3. T = {}
    <2>. SUFFICES ASSUME T # {} PROVE FALSE
      OBVIOUS
    <2>1. PICK d \in T : \A e \in T : d <= e
      <3>1. T \in SUBSET Nat
        OBVIOUS
      <3>. HIDE DEF T
      <3>2. QED
        BY <3>1, LeastNatural
    <2>. DEFINE i == L - d
    <2>2. d \in Nat /\ d < L /\ i \in 1 .. L
      BY <1>1, <2>1
    <2>3. PICK m \in (L - i + 1) .. MaxBuckets : Walks(B)[m][c[i]] # Suffix(c, i)
      BY <2>1
    <2>4. m \in 1 .. MaxBuckets /\ m >= d + 1 /\ c[i] \in Bucket
      BY <1>1, <2>2
    <2>5. CASE d = 0
      <3>1. B[c[i]].next < BucketNum /\ B[c[i]].next \in Int
        BY <1>1, <2>2, <2>5 DEF Chain, Bucket
      <3>2. Walks(B)[m][c[i]] = <<c[i]>>
        <4>1. ~(B[c[i]].next >= BucketNum)
          BY <1>1, <3>1
        <4>. HIDE DEF i
        <4>2. QED
          BY <1>2, <2>4, <4>1
      <3>3. Suffix(c, i) = <<c[i]>>
        BY <1>1, <2>5 DEF Suffix
      <3>4. QED
        BY <2>3, <3>2, <3>3
    <2>6. CASE d > 0
      <3>1. /\ i \in 1 .. L - 1 /\ i + 1 = L - (d - 1) /\ d - 1 \in Nat /\ i + 1 \in 1 .. L
            /\ m - 1 \in (L - (i + 1) + 1) .. MaxBuckets /\ m > 1
        BY <1>1, <2>2, <2>4, <2>6
      <3>2. B[c[i]].next = c[i + 1] /\ B[c[i]].next >= BucketNum
        BY <3>1 DEF Chain
      <3>3. Right(i + 1)
        <4>1. d - 1 \notin T
          BY <2>1, <2>2, <3>1
        <4>2. Right(L - (d - 1))
          BY <1>1, <2>2, <3>1, <4>1
        <4>. HIDE DEF Right
        <4>3. QED
          BY <3>1, <4>2
      <3>4. Walks(B)[m][c[i]] = Linked(c[i], Suffix(c, i + 1))
        <4>1. Walks(B)[m - 1][c[i + 1]] = Suffix(c, i + 1)
          BY <3>1, <3>3
        <4>. HIDE DEF i
        <4>2. QED
          BY <1>2, <2>4, <3>1, <3>2, <4>1
      <3>5. Linked(c[i], Suffix(c, i + 1)) = Suffix(c, i)
        BY <3>1, SuffixLinked DEF Chain
      <3>6. QED
        BY <2>3, <3>4, <3>5
    <2>7. QED
      BY <2>2, <2>5, <2>6
  <1>4. L - p \in Nat /\ L - p < L /\ L - (L - p) = p /\ MaxBuckets \in (L - p + 1) .. MaxBuckets
    BY <1>1
  <1>5. Right(p)
    BY <1>3, <1>4
  <1>6. QED
    BY <1>4, <1>5 DEF Trail

LEMMA TrailIs ==
    ASSUME NEW B, \A b \in Bucket : B[b].next \in Bucket, NEW c, Chain(B, c)
    PROVE  Trail(B, c[1]) = c
  <1>1. 1 \in 1 .. Len(c) /\ c \in Seq(Bucket) /\ Len(c) \in Nat
    BY DEF Chain
  <1>2. Trail(B, c[1]) = Suffix(c, 1)
    BY <1>1, TrailFrom
  <1>3. Suffix(c, 1) = c
    BY <1>1 DEF Suffix
  <1>4. QED
    BY <1>2, <1>3

\* The search of a chain: it ends at the first bucket that holds the key, or at the last.
LEMMA FindFrom ==
    ASSUME NEW B, \A b \in Bucket : B[b].next \in Bucket, NEW c, Chain(B, c), NEW k \in Keys,
           c[1] = Hash[k], NEW e \in 1 .. Len(c), \A i \in 1 .. e - 1 : ~HoldsIn(B, c[i], k)
    PROVE  /\ HoldsIn(B, c[e], k) => Find(B, k) = c[e]
           /\ ~HoldsIn(B, c[e], k) /\ e = Len(c) => Find(B, k) = Null
  <1>. SUFFICES ASSUME NEW X, \/ HoldsIn(B, c[e], k) /\ X = c[e]
                              \/ ~HoldsIn(B, c[e], k) /\ e = Len(c) /\ X = Null
                PROVE  Find(B, k) = X
    OBVIOUS
  <1>. DEFINE L == Len(c)
              Right(i) == \A m \in (L - i + 1) .. MaxBuckets : Finds(B, k)[m][c[i]] = X
              T == {d \in Nat : d < e /\ ~Right(e - d)}
  <1>1. /\ L \in Nat /\ e \in Nat /\ e >= 1 /\ e <= L /\ L <= MaxBuckets /\ MaxBuckets \in Nat
        /\ BucketNum \in Nat /\ \A i \in 1 .. L : c[i] \in Bucket
    BY Constants DEF Chain
  <1>2. \A m \in 1 .. MaxBuckets, b \in Bucket :
           Finds(B, k)[m][b] = IF HoldsIn(B, b, k) THEN b
                               ELSE IF B[b].next >= BucketNum /\ m > 1
                                    THEN Finds(B, k)[m - 1][B[b].next] ELSE Null
    <2>1. FindOf(B, k, MaxBuckets, Finds(B, k))
      BY FindsExist
    <2>2. QED
      BY <2>1, FindAt
  <1>3. T = {}
    <2>. SUFFICES ASSUME T # {} PROVE FALSE
      OBVIOUS
    <2>1. PICK d \in T : \A f \in T : d <= f
      <3>1. T \in SUBSET Nat
        OBVIOUS
      <3>. HIDE DEF T
      <3>2. QED
        BY <3>1, LeastNatural
    <2>. DEFINE i == e - d
    <2>2. d \in Nat /\ d < e /\ i \in 1 .. e /\ i \in 1 .. L
      BY <1>1, <2>1
    <2>3. PICK m \in (L - i + 1) .. MaxBuckets : Finds(B, k)[m][c[i]] # X
      BY <2>1
    <2>4. m \in 1 .. MaxBuckets /\ m >= d + 1 /\ c[i] \in Bucket
      BY <1>1, <2>2
    <2>5. CASE d = 0 /\ HoldsIn(B, c[e], k)
      BY <1>1, <1>2, <2>3, <2>4, <2>5
    <2>6. CASE d = 0 /\ ~HoldsIn(B, c[e], k)
      <3>1. e = L /\ X = Null /\ i = L
        BY <1>1, <2>6
      <3>2. ~(B[c[i]].next >= BucketNum)
        <4>1. B[c[L]].next < BucketNum /\ c[L] \in Bucket
          BY <1>1 DEF Chain
        <4>2. B[c[L]].next \in Int
          BY <1>1, <4>1 DEF Bucket
        <4>3. ~(B[c[L]].next >= BucketNum)
          BY <1>1, <4>1, <4>2
        <4>. HIDE DEF i
        <4>4. QED
          BY <3>1, <4>3
      <3>3. ~HoldsIn(B, c[i], k)
        BY <1>1, <2>6
      <3>. HIDE DEF i
      <3>4. QED
        BY <1>2, <2>3, <2>4, <3>1, <3>2, <3>3
    <2>7. CASE d > 0
      <3>1. /\ i \in 1 .. e - 1 /\ i \in 1 .. L - 1 /\ i + 1 = e - (d - 1) /\ d - 1 \in Nat /\ d - 1 < e
            /\ m - 1 \in (L - (i + 1) + 1) .. MaxBuckets /\ m > 1
        BY <1>1, <2>2, <2>4, <2>7
      <3>2. B[c[i]].next = c[i + 1] /\ B[c[i]].next >= BucketNum
        BY <3>1 DEF Chain
      <3>3. Right(i + 1)
        <4>1. d - 1 \notin T
          <5>1. ~(d <= d - 1)
            BY <2>2
          <5>. HIDE DEF T
          <5>2. QED
            BY <2>1, <5>1
        <4>2. Right(e - (d - 1))
          BY <3>1, <4>1
        <4>. HIDE DEF Right
        <4>3. QED
          BY <3>1, <4>2
      <3>4. ~HoldsIn(B, c[i], k) /\ Finds(B, k)[m - 1][c[i + 1]] = X
        BY <3>1, <3>3
      <3>. HIDE DEF i
      <3>5. QED
        BY <1>2, <2>3, <2>4, <3>1, <3>2, <3>4
    <2>8. QED
      BY <2>2, <2>5, <2>6, <2>7
  <1>4. e - 1 \in Nat /\ e - 1 < e /\ e - (e - 1) = 1 /\ MaxBuckets \in (L - 1 + 1) .. MaxBuckets
    BY <1>1
  <1>5. Right(1)
    <2>1. Right(e - (e - 1))
      BY <1>3, <1>4
    <2>. HIDE DEF Right
    <2>2. QED
      BY <1>4, <2>1
  <1>6. Finds(B, k)[MaxBuckets][c[1]] = X
    BY <1>4, <1>5
  <1>7. QED
    BY <1>6 DEF Find

LEMMA FindNone ==
    ASSUME NEW B, \A b \in Bucket : B[b].next \in Bucket, NEW c, Chain(B, c), NEW k \in Keys,
           c[1] = Hash[k], \A i \in 1 .. Len(c) : ~HoldsIn(B, c[i], k)
    PROVE  Find(B, k) = Null
  <1>1. Len(c) \in 1 .. Len(c) /\ \A i \in 1 .. Len(c) - 1 : i \in 1 .. Len(c)
    BY DEF Chain
  <1>2. QED
    BY <1>1, FindFrom

LEMMA FindOne ==
    ASSUME NEW B, \A b \in Bucket : B[b].next \in Bucket, NEW c, Chain(B, c), NEW k \in Keys,
           c[1] = Hash[k], NEW e \in 1 .. Len(c), HoldsIn(B, c[e], k),
           \A i \in 1 .. Len(c) : HoldsIn(B, c[i], k) => i = e
    PROVE  Find(B, k) = c[e]
  <1>1. \A i \in 1 .. e - 1 : ~HoldsIn(B, c[i], k)
    <2>1. \A i \in 1 .. e - 1 : i \in 1 .. Len(c) /\ i # e
      BY DEF Chain
    <2>2. QED
      BY <2>1
  <1>2. QED
    BY <1>1, FindFrom, Zenon

-----------------------------------------------------------------------------
(* The inductive invariant: W[r] is the chain of raw bucket r *)

Typed(B) == B \in [Bucket -> [occupied : BOOLEAN, key : Keys \cup {NoKey}, value : Nat, next : Bucket]]

Chains(B, W) ==
    \A r \in Raw : /\ Chain(B, W[r]) /\ W[r][1] = r
                   /\ Len(W[r]) > 1 => B[W[r][Len(W[r])]].next = r

\* A bucket has one place in one chain.
Apart(W) ==
    \A r, s \in Raw : \A i \in 1 .. Len(W[r]), j \in 1 .. Len(W[s]) :
       W[r][i] = W[s][j] => r = s /\ i = j

\* What is occupied is in the chain of its key, and no key is there twice.
Kept(B, W) == \A b \in Bucket : B[b].occupied =>
    /\ B[b].key \in Keys
    /\ \E i \in 1 .. Len(W[Hash[B[b].key]]) : W[Hash[B[b].key]][i] = b
Once(B) == \A b, c \in Bucket : B[b].occupied /\ B[c].occupied /\ B[b].key = B[c].key => b = c

Table(B, W) == Typed(B) /\ Chains(B, W) /\ Apart(W) /\ Kept(B, W) /\ Once(B)

\* The pool's buckets: n is the next it carves off, D and F the bags of what is freed.
Loose(b, W) == \A r \in Raw : \A i \in 1 .. Len(W[r]) : W[r][i] # b
Lending(n, D, F, W) ==
    /\ n \in BucketNum .. MaxBuckets
    /\ \A r \in Raw : \A i \in 1 .. Len(W[r]) : W[r][i] < n
    /\ IsABag(D) /\ IsABag(F)
    /\ \A b \in DOMAIN D : b \in BucketNum .. n - 1 /\ D[b] = 1 /\ Loose(b, W) /\ b \notin DOMAIN F
    /\ \A b \in DOMAIN F : b \in BucketNum .. n - 1 /\ F[b] = 1 /\ Loose(b, W)

Taken(B) == {b \in Bucket : B[b].occupied}

\* The chains of the buckets B, as the walks of the code see them.
Trails(B) == [r \in Raw |-> Trail(B, r)]

InOrder == /\ Table(bucket, Trails(bucket))
           /\ Lending(brk, delayed, free, Trails(bucket))
           /\ usedSize = Cardinality(Taken(bucket))
HInv == ~rawFreed => InOrder

\* What the invariant says of a chain.
LEMMA ChainFacts ==
    ASSUME NEW B, NEW W, Typed(B), Chains(B, W), NEW r \in Raw
    PROVE  /\ Chain(B, W[r]) /\ W[r][1] = r /\ W[r] \in Seq(Bucket)
           /\ Len(W[r]) \in Nat /\ Len(W[r]) >= 1 /\ Len(W[r]) <= MaxBuckets
           /\ \A i \in 1 .. Len(W[r]) : W[r][i] \in Bucket
           /\ \A i \in 2 .. Len(W[r]) : W[r][i] >= BucketNum /\ W[r][i] \notin Raw
           /\ \A i \in 1 .. Len(W[r]) - 1 : B[W[r][i]].next = W[r][i + 1] /\ W[r][i + 1] >= BucketNum
           /\ B[W[r][Len(W[r])]].next < BucketNum
           /\ Len(W[r]) > 1 => B[W[r][Len(W[r])]].next = r
  <1>1. Chain(B, W[r]) /\ W[r][1] = r /\ (Len(W[r]) > 1 => B[W[r][Len(W[r])]].next = r)
    BY DEF Chains
  <1>. DEFINE c == W[r]
  <1>2. /\ c \in Seq(Bucket) /\ Len(c) \in 1 .. MaxBuckets
        /\ \A i \in 1 .. Len(c) - 1 : B[c[i]].next = c[i + 1] /\ c[i + 1] >= BucketNum
        /\ B[c[Len(c)]].next < BucketNum
    BY <1>1 DEF Chain
  <1>3. MaxBuckets \in Nat /\ BucketNum \in Nat
    BY Constants
  <1>. HIDE DEF c
  <1>4. \A i \in 1 .. Len(c) : c[i] \in Bucket
    BY <1>2
  <1>5. ASSUME NEW i \in 2 .. Len(c) PROVE c[i] >= BucketNum /\ c[i] \notin Raw
    <2>1. i - 1 \in 1 .. Len(c) - 1 /\ (i - 1) + 1 = i /\ i \in 1 .. Len(c)
      BY <1>2, <1>3
    <2>2. c[(i - 1) + 1] >= BucketNum
      BY <1>2, <2>1
    <2>3. c[i] >= BucketNum /\ c[i] \in Int
      BY <1>3, <1>4, <2>1, <2>2 DEF Bucket
    <2>4. QED
      BY <1>3, <2>3 DEF Raw
  <1>6. QED
    BY <1>1, <1>2, <1>3, <1>4, <1>5 DEF c

LEMMA Nexts == ASSUME NEW B, Typed(B) PROVE \A b \in Bucket : B[b].next \in Bucket
  BY DEF Typed

\* Chains that fit the buckets are the walks of the code.
LEMMA TrailsAre ==
    ASSUME NEW B, NEW W, Typed(B), Chains(B, W), W = [r \in Raw |-> W[r]]
    PROVE  Trails(B) = W
  <1>1. \A r \in Raw : Trail(B, r) = W[r]
    <2>. SUFFICES ASSUME NEW r \in Raw PROVE Trail(B, r) = W[r]
      OBVIOUS
    <2>1. Chain(B, W[r]) /\ W[r][1] = r
      BY ChainFacts
    <2>2. Trail(B, W[r][1]) = W[r]
      BY <2>1, Nexts, TrailIs
    <2>3. QED
      BY <2>1, <2>2
  <1>2. QED
    BY <1>1 DEF Trails

\* The search finds the bucket that holds the key, if there is one.
LEMMA FindIs ==
    ASSUME NEW B, NEW W, Table(B, W), NEW k \in Keys
    PROVE  /\ \A b \in Bucket : HoldsIn(B, b, k) => Find(B, k) = b
           /\ Find(B, k) # Null => Find(B, k) \in Bucket /\ HoldsIn(B, Find(B, k), k)
  <1>. DEFINE r == Hash[k]
              c == W[r]
  <1>1. r \in Raw
    BY Constants
  <1>2. /\ Typed(B) /\ Chains(B, W) /\ Apart(W) /\ Kept(B, W) /\ Once(B)
    BY DEF Table
  <1>3. Chain(B, c) /\ c[1] = Hash[k] /\ \A i \in 1 .. Len(c) : c[i] \in Bucket
    BY <1>1, <1>2, ChainFacts
  <1>4. \A b \in Bucket : B[b].next \in Bucket
    BY <1>2, Nexts
  <1>5. ASSUME NEW b \in Bucket, HoldsIn(B, b, k) PROVE Find(B, k) = b
    <2>1. PICK e \in 1 .. Len(c) : c[e] = b
      BY <1>2, <1>5 DEF Kept, HoldsIn
    <2>2. ASSUME NEW i \in 1 .. Len(c), HoldsIn(B, c[i], k) PROVE i = e
      <3>1. c[i] = b
        BY <1>2, <1>3, <1>5, <2>2 DEF Once, HoldsIn
      <3>2. QED
        BY <1>1, <1>2, <2>1, <3>1 DEF Apart
    <2>. HIDE DEF c
    <2>3. Find(B, k) = c[e]
      BY <1>3, <1>4, <1>5, <2>1, <2>2, FindOne
    <2>4. QED
      BY <2>1, <2>3
  <1>6. ASSUME \A b \in Bucket : ~HoldsIn(B, b, k) PROVE Find(B, k) = Null
    <2>1. \A i \in 1 .. Len(c) : ~HoldsIn(B, c[i], k)
      BY <1>3, <1>6
    <2>. HIDE DEF c
    <2>2. QED
      BY <1>3, <1>4, <2>1, FindNone
  <1>7. QED
    BY <1>5, <1>6

\* Buckets that keep their next, or ends of a raw bucket, keep the chains.
LEMMA ChainsStay ==
    ASSUME NEW B, NEW W, Typed(B), Chains(B, W), NEW B2,
           \A b \in Bucket : \/ B2[b].next = B[b].next
                             \/ b \in Raw /\ B[b].next < BucketNum /\ B2[b].next < BucketNum
    PROVE  Chains(B2, W)
  <1>. SUFFICES ASSUME NEW r \in Raw
                PROVE  /\ Chain(B2, W[r]) /\ W[r][1] = r
                       /\ Len(W[r]) > 1 => B2[W[r][Len(W[r])]].next = r
    BY DEF Chains
  <1>. DEFINE c == W[r]
  <1>1. /\ c \in Seq(Bucket) /\ c[1] = r /\ Len(c) \in Nat /\ Len(c) >= 1 /\ Len(c) <= MaxBuckets
        /\ \A i \in 1 .. Len(c) : c[i] \in Bucket
        /\ \A i \in 2 .. Len(c) : c[i] >= BucketNum /\ c[i] \notin Raw
        /\ \A i \in 1 .. Len(c) - 1 : B[c[i]].next = c[i + 1] /\ c[i + 1] >= BucketNum
        /\ B[c[Len(c)]].next < BucketNum
        /\ Len(c) > 1 => B[c[Len(c)]].next = r
    BY ChainFacts
  <1>2. BucketNum \in Nat /\ MaxBuckets \in Nat
    BY Constants
  <1>. HIDE DEF c
  <1>3. ASSUME NEW i \in 1 .. Len(c) - 1 PROVE B2[c[i]].next = c[i + 1]
    <2>1. i \in 1 .. Len(c) /\ i + 1 \in 1 .. Len(c)
      BY <1>1
    <2>2. c[i] \in Bucket /\ c[i + 1] \in Int /\ B[c[i]].next = c[i + 1] /\ c[i + 1] >= BucketNum
      BY <1>1, <1>2, <2>1 DEF Bucket
    <2>3. ~(B[c[i]].next < BucketNum)
      BY <1>2, <2>2
    <2>4. QED
      BY <2>2, <2>3
  <1>4. Len(c) \in 1 .. Len(c) /\ c[Len(c)] \in Bucket
    BY <1>1
  <1>5. B2[c[Len(c)]].next < BucketNum
    BY <1>1, <1>4
  <1>6. Len(c) > 1 => B2[c[Len(c)]].next = r
    <2>. SUFFICES ASSUME Len(c) > 1 PROVE B2[c[Len(c)]].next = r
      OBVIOUS
    <2>1. Len(c) \in 2 .. Len(c)
      BY <1>1
    <2>2. c[Len(c)] \notin Raw
      BY <1>1, <2>1
    <2>3. QED
      BY <1>1, <1>4, <2>2
  <1>7. QED
    BY <1>1, <1>2, <1>3, <1>5, <1>6 DEF Chain, c

-----------------------------------------------------------------------------
(* What a step does to the table: B are the buckets before it, B2 after *)

\* The table has the key with the value.
Content(B, k, v) == \E b \in Bucket : HoldsIn(B, b, k) /\ B[b].value = v

\* Of the keys, only k changes its value, or appears with it.
Puts(B, B2, k, v) == \A j \in Keys, x \in Nat :
    Content(B2, j, x) <=> (j = k /\ x = v) \/ (j # k /\ Content(B, j, x))

\* Of the keys, k disappears.
Drops(B, B2, k) == \A j \in Keys, x \in Nat : Content(B2, j, x) <=> j # k /\ Content(B, j, x)

LEMMA EmptyTable ==
    /\ Table([b \in Bucket |-> Cleared], [r \in Raw |-> <<r>>])
    /\ Taken([b \in Bucket |-> Cleared]) = {}
  <1>. DEFINE B == [b \in Bucket |-> Cleared]
              W == [r \in Raw |-> <<r>>]
  <1>1. /\ BucketNum \in Nat /\ BucketNum > 0 /\ MaxBuckets \in Nat /\ BucketNum <= MaxBuckets
        /\ Raw \subseteq Bucket /\ 0 \in Raw
    BY Constants
  <1>2. \A b \in Bucket : ~B[b].occupied /\ B[b].next = 0
    BY DEF Cleared
  <1>3. Typed(B)
    BY <1>1 DEF Typed, Cleared
  <1>4. Chains(B, W)
    <2>. SUFFICES ASSUME NEW r \in Raw
                  PROVE  /\ Chain(B, W[r]) /\ W[r][1] = r
                         /\ Len(W[r]) > 1 => B[W[r][Len(W[r])]].next = r
      BY DEF Chains
    <2>1. r \in Bucket /\ B[r].next = 0
      BY <1>1, <1>2
    <2>2. W[r] = <<r>>
      OBVIOUS
    <2>. DEFINE c == W[r]
    <2>3. c \in Seq(Bucket) /\ Len(c) = 1 /\ c[1] = r
      BY <2>1, <2>2
    <2>. HIDE DEF c, B
    <2>4. QED
      BY <1>1, <2>1, <2>3 DEF Chain, c
  <1>5. Apart(W)
    BY DEF Apart
  <1>6. Kept(B, W) /\ Once(B) /\ Taken(B) = {}
    BY <1>2 DEF Kept, Once, Taken
  <1>7. QED
    BY <1>3, <1>4, <1>5, <1>6 DEF Table

\* SetValue: the bucket that holds k takes the value.
Revalued(B, B2, h, v) ==
    \A b \in Bucket : /\ B2[b].next = B[b].next /\ B2[b].occupied = B[b].occupied
                      /\ B2[b].key = B[b].key
                      /\ B2[b].value = IF b = h THEN v ELSE B[b].value

LEMMA ValueSet ==
    ASSUME NEW B, NEW W, Table(B, W), NEW k \in Keys, NEW v \in Nat, NEW h \in Bucket, HoldsIn(B, h, k),
           NEW B2, Typed(B2), Revalued(B, B2, h, v)
    PROVE  Table(B2, W) /\ Puts(B, B2, k, v) /\ Taken(B2) = Taken(B)
  <1>1. Typed(B) /\ Chains(B, W) /\ Apart(W) /\ Kept(B, W) /\ Once(B)
    BY DEF Table
  <1>2. Typed(B2)
    OBVIOUS
  <1>3. \A b \in Bucket : /\ B2[b].next = B[b].next /\ B2[b].occupied = B[b].occupied
                          /\ B2[b].key = B[b].key
                          /\ B2[b].value = IF b = h THEN v ELSE B[b].value
    BY DEF Revalued
  <1>4. Chains(B2, W)
    BY <1>1, <1>3, ChainsStay
  <1>5. Kept(B2, W) /\ Once(B2) /\ Taken(B2) = Taken(B)
    BY <1>1, <1>3 DEF Kept, Once, Taken
  <1>6. \A b \in Bucket, j \in Keys : HoldsIn(B2, b, j) <=> HoldsIn(B, b, j)
    BY <1>3 DEF HoldsIn
  <1>7. \A b \in Bucket, j \in Keys : HoldsIn(B, b, j) => (b = h <=> j = k)
    BY <1>1 DEF HoldsIn, Once
  <1>8. Puts(B, B2, k, v)
    <2>. SUFFICES ASSUME NEW j \in Keys, NEW x \in Nat
                  PROVE  Content(B2, j, x) <=> (j = k /\ x = v) \/ (j # k /\ Content(B, j, x))
      BY DEF Puts
    <2>1. CASE j = k
      BY <1>3, <1>6, <1>7, <2>1 DEF Content
    <2>2. CASE j # k
      BY <1>3, <1>6, <1>7, <2>2 DEF Content
    <2>3. QED
      BY <2>1, <2>2
  <1>9. QED
    BY <1>1, <1>2, <1>4, <1>5, <1>8 DEF Table

\* FillRaw: a raw bucket that is free takes a key that is nowhere.
LEMMA RawFilled ==
    ASSUME NEW B, NEW W, Table(B, W), NEW k \in Keys, NEW v \in Nat,
           \A b \in Bucket : ~HoldsIn(B, b, k), ~B[Hash[k]].occupied
    PROVE  LET B2 == [B EXCEPT ![Hash[k]] = [occupied |-> TRUE, key |-> k, value |-> v, next |-> @.next]]
           IN  Table(B2, W) /\ Puts(B, B2, k, v) /\ Taken(B2) = Taken(B) \cup {Hash[k]}
  <1>. DEFINE r == Hash[k]
              B2 == [B EXCEPT ![r] = [occupied |-> TRUE, key |-> k, value |-> v, next |-> @.next]]
  <1>1. Typed(B) /\ Chains(B, W) /\ Apart(W) /\ Kept(B, W) /\ Once(B)
    BY DEF Table
  <1>2. r \in Raw /\ r \in Bucket
    BY Constants
  <1>3. Typed(B2)
    BY <1>1, <1>2 DEF Typed
  <1>4. /\ B2[r].occupied = TRUE /\ B2[r].key = k /\ B2[r].value = v /\ B2[r].next = B[r].next
        /\ \A b \in Bucket : b # r => B2[b] = B[b]
    BY <1>1, <1>2 DEF Typed
  <1>5. 1 \in 1 .. Len(W[r]) /\ W[r][1] = r
    BY <1>1, <1>2, ChainFacts
  <1>. HIDE DEF B2, r
  <1>6. Chains(B2, W)
    <2>1. \A b \in Bucket : B2[b].next = B[b].next
      BY <1>4
    <2>2. QED
      BY <1>1, <2>1, ChainsStay
  <1>7. Kept(B2, W)
    <2>. SUFFICES ASSUME NEW b \in Bucket, B2[b].occupied
                  PROVE  /\ B2[b].key \in Keys
                         /\ \E i \in 1 .. Len(W[Hash[B2[b].key]]) : W[Hash[B2[b].key]][i] = b
      BY DEF Kept
    <2>1. CASE b = r
      BY <1>4, <1>5, <2>1 DEF r
    <2>2. CASE b # r
      BY <1>1, <1>4, <2>2 DEF Kept
    <2>3. QED
      BY <2>1, <2>2
  <1>8. \A b \in Bucket : B[b].occupied => B[b].key # k
    BY DEF HoldsIn
  <1>9. Once(B2) /\ Taken(B2) = Taken(B) \cup {r}
    <2>1. Once(B2)
      <3>. SUFFICES ASSUME NEW b \in Bucket, NEW c \in Bucket, B2[b].occupied, B2[c].occupied,
                           B2[b].key = B2[c].key
                    PROVE  b = c
        BY DEF Once
      <3>1. CASE b = r \/ c = r
        BY <1>4, <1>8, <3>1
      <3>2. CASE b # r /\ c # r
        BY <1>1, <1>4, <3>2 DEF Once
      <3>3. QED
        BY <3>1, <3>2
    <2>2. Taken(B2) = Taken(B) \cup {r}
      BY <1>2, <1>4 DEF Taken
    <2>3. QED
      BY <2>1, <2>2
  <1>10. Puts(B, B2, k, v)
    <2>. SUFFICES ASSUME NEW j \in Keys, NEW x \in Nat
                  PROVE  Content(B2, j, x) <=> (j = k /\ x = v) \/ (j # k /\ Content(B, j, x))
      BY DEF Puts
    <2>1. \A b \in Bucket : b # r => (HoldsIn(B2, b, j) <=> HoldsIn(B, b, j)) /\ B2[b].value = B[b].value
      BY <1>4 DEF HoldsIn
    <2>2. (HoldsIn(B2, r, j) <=> j = k) /\ B2[r].value = v /\ ~HoldsIn(B, r, j)
      BY <1>4 DEF HoldsIn, r
    <2>3. CASE j = k
      BY <1>2, <2>1, <2>2, <2>3 DEF Content
    <2>4. CASE j # k
      BY <2>1, <2>2, <2>4 DEF Content
    <2>5. QED
      BY <2>3, <2>4
  <1>11. QED
    BY <1>1, <1>3, <1>6, <1>7, <1>9, <1>10 DEF Table, B2, r

\* A chain that no bucket of is linked anew.
LEMMA ChainStays ==
    ASSUME NEW B, NEW c, Chain(B, c), NEW B2, \A i \in 1 .. Len(c) : B2[c[i]].next = B[c[i]].next
    PROVE  Chain(B2, c) /\ B2[c[Len(c)]].next = B[c[Len(c)]].next
  <1>1. Len(c) \in 1 .. Len(c) /\ \A i \in 1 .. Len(c) - 1 : i \in 1 .. Len(c)
    BY DEF Chain
  <1>2. QED
    BY <1>1 DEF Chain

\* Buckets that are not repeated fit in the file.
LEMMA NoLonger ==
    ASSUME NEW c \in Seq(Bucket), \A i, j \in 1 .. Len(c) : c[i] = c[j] => i = j
    PROVE  Len(c) <= MaxBuckets
  <1>1. MaxBuckets \in Nat /\ Bucket = 0 .. MaxBuckets - 1 /\ Len(c) \in Nat
    BY Constants DEF Bucket
  <1>2. /\ IsFiniteSet(Bucket) /\ Cardinality(Bucket) = MaxBuckets
        /\ IsFiniteSet(1 .. Len(c)) /\ Cardinality(1 .. Len(c)) = Len(c)
    <2>1. IsFiniteSet(0 .. MaxBuckets - 1) /\ Cardinality(0 .. MaxBuckets - 1) = MaxBuckets
      <3>1. IF 0 > MaxBuckets - 1 THEN Cardinality(0 .. MaxBuckets - 1) = 0
            ELSE Cardinality(0 .. MaxBuckets - 1) = (MaxBuckets - 1) - 0 + 1
        BY <1>1, FS_Interval
      <3>2. QED
        BY <1>1, <3>1, FS_Interval
    <2>2. IsFiniteSet(1 .. Len(c)) /\ Cardinality(1 .. Len(c)) = Len(c)
      <3>1. \A m \in Nat : IsFiniteSet(1 .. m) /\ Cardinality(1 .. m) = m
        BY FS_Interval
      <3>2. QED
        BY <1>1, <3>1
    <2>3. QED
      BY <1>1, <2>1, <2>2
  <1>3. [i \in 1 .. Len(c) |-> c[i]] \in Injection(1 .. Len(c), Bucket)
    BY DEF Injection, IsInjective
  <1>4. QED
    BY <1>2, <1>3, FS_Injection

\* The assignments of Insert to a new bucket and to the end of the chain, one by one.
LinkedUp(B, B2, n, last, k, v, r) ==
    /\ B2[n].occupied = TRUE /\ B2[n].key = k /\ B2[n].value = v /\ B2[n].next = r
    /\ \A b \in Bucket : b # n => /\ B2[b].occupied = B[b].occupied
                                 /\ B2[b].key = B[b].key /\ B2[b].value = B[b].value
                                 /\ B2[b].next = IF b = last THEN n ELSE B[b].next

LEMMA SetOccupied ==
    ASSUME NEW K, NEW N, NEW x \in [occupied : BOOLEAN, key : K, value : Nat, next : N]
    PROVE  [x EXCEPT !.occupied = TRUE] \in [occupied : BOOLEAN, key : K, value : Nat, next : N]
  OBVIOUS

LEMMA Assigned ==
    ASSUME NEW B, Typed(B), NEW n \in Bucket, NEW last \in Bucket, n # last,
           NEW k \in Keys, NEW v \in Nat, NEW r \in Bucket, NEW C,
           C = [B EXCEPT ![n].key = k, ![last].next = n, ![n].next = r,
                         ![n].value = v, ![n].occupied = TRUE]
    PROVE  Typed(C) /\ LinkedUp(B, C, n, last, k, v, r)
  <1>. DEFINE Record == [occupied : BOOLEAN, key : Keys \cup {NoKey}, value : Nat, next : Bucket]
              B1 == [B EXCEPT ![n].key = k]
              B2 == [B1 EXCEPT ![last].next = n]
              B3 == [B2 EXCEPT ![n].next = r]
              B4 == [B3 EXCEPT ![n].value = v]
              B5 == [B4 EXCEPT ![n].occupied = TRUE]
  <1>1. C = B5
    OBVIOUS
  <1>2. B \in [Bucket -> Record]
    BY DEF Typed
  <1>3. /\ B1 \in [Bucket -> Record] /\ B1[n].key = k
        /\ \A b \in Bucket : b # n => B1[b] = B[b]
    BY <1>2
  <1>. HIDE DEF B1
  <1>4. /\ B2 \in [Bucket -> Record] /\ B2[n] = B1[n]
        /\ B2[last].occupied = B[last].occupied /\ B2[last].key = B[last].key
        /\ B2[last].value = B[last].value /\ B2[last].next = n
        /\ \A b \in Bucket : b # n /\ b # last => B2[b] = B[b]
    BY <1>3
  <1>. HIDE DEF B2
  <1>5. /\ B3 \in [Bucket -> Record] /\ B3[n].key = k /\ B3[n].next = r
        /\ \A b \in Bucket : b # n => B3[b] = B2[b]
    BY <1>3, <1>4
  <1>. HIDE DEF B3
  <1>6. /\ B4 \in [Bucket -> Record] /\ B4[n].key = k /\ B4[n].next = r /\ B4[n].value = v
        /\ \A b \in Bucket : b # n => B4[b] = B2[b]
    BY <1>5
  <1>. HIDE DEF B4
  <1>7. B5 \in [Bucket -> Record]
    <2>1. [B4[n] EXCEPT !.occupied = TRUE] \in Record
      BY <1>6, SetOccupied
    <2>. HIDE DEF Record
    <2>2. QED
      BY <1>6, <2>1
  <1>8. B5[n].key = k /\ B5[n].next = r /\ B5[n].value = v
    BY <1>6
  <1>9. B5[n].occupied = TRUE
    BY <1>6
  <1>10. \A b \in Bucket : b # n => B5[b] = B2[b]
    BY <1>6
  <1>. HIDE DEF B5, Record
  <1>11. /\ Typed(C)
         /\ C[n].occupied = TRUE /\ C[n].key = k /\ C[n].value = v /\ C[n].next = r
    BY <1>1, <1>7, <1>8, <1>9 DEF Typed, Record
  <1>12. ASSUME NEW b \in Bucket, b # n
         PROVE  /\ C[b].occupied = B[b].occupied
                /\ C[b].key = B[b].key /\ C[b].value = B[b].value
                /\ C[b].next = IF b = last THEN n ELSE B[b].next
    BY <1>1, <1>4, <1>10, <1>12
  <1>13. QED
    BY <1>11, <1>12 DEF LinkedUp

\* AppendBucket: a bucket that is in no chain takes a key that is nowhere.
LEMMA BucketAppended ==
    ASSUME NEW B, NEW W, Table(B, W), W = [r \in Raw |-> W[r]], NEW k \in Keys, NEW v \in Nat,
           \A b \in Bucket : ~HoldsIn(B, b, k), NEW n \in Bucket, n >= BucketNum, Loose(n, W),
           NEW r, r = Hash[k], NEW last, last = W[r][Len(W[r])],
           NEW B2, Typed(B2), LinkedUp(B, B2, n, last, k, v, r)
    PROVE  /\ Table(B2, [W EXCEPT ![r] = Append(@, n)])
           /\ Puts(B, B2, k, v)
           /\ ~B[n].occupied /\ Taken(B2) = Taken(B) \cup {n}
  <1>. DEFINE c == W[r]
              W2 == [W EXCEPT ![r] = Append(@, n)]
              d == Append(c, n)
  <1>1. Typed(B) /\ Chains(B, W) /\ Apart(W) /\ Kept(B, W) /\ Once(B)
    BY DEF Table
  <1>2. /\ r \in Raw /\ r \in Bucket /\ n \notin Raw /\ BucketNum \in Nat /\ MaxBuckets \in Nat
        /\ \A s \in Raw : s \in Nat /\ s < BucketNum
    BY Constants DEF Raw, Bucket
  <1>3. /\ Chain(B, c) /\ c[1] = r /\ c \in Seq(Bucket) /\ Len(c) \in Nat /\ Len(c) >= 1
        /\ \A i \in 1 .. Len(c) : c[i] \in Bucket
        /\ \A i \in 1 .. Len(c) - 1 : B[c[i]].next = c[i + 1] /\ c[i + 1] >= BucketNum
    BY <1>1, <1>2, ChainFacts
  <1>4. last \in Bucket /\ last # n
    BY <1>2, <1>3 DEF Loose
  <1>5. Typed(B2) /\ LinkedUp(B, B2, n, last, k, v, r)
    OBVIOUS
  <1>6. /\ B2[n].occupied = TRUE /\ B2[n].key = k /\ B2[n].value = v /\ B2[n].next = r
        /\ \A b \in Bucket : b # n => /\ B2[b].occupied = B[b].occupied /\ B2[b].key = B[b].key
                                      /\ B2[b].value = B[b].value
                                      /\ B2[b].next = IF b = last THEN n ELSE B[b].next
    BY <1>5 DEF LinkedUp
  <1>7. W2[r] = d /\ \A s \in Raw : s # r => W2[s] = W[s]
    BY <1>2
  <1>8. /\ d \in Seq(Bucket) /\ Len(d) = Len(c) + 1 /\ d[Len(c) + 1] = n
        /\ \A i \in 1 .. Len(c) : d[i] = c[i]
    BY <1>3
  <1>9. ~B[n].occupied
    BY <1>1, <1>2, Constants DEF Kept, Loose
  <1>. HIDE DEF W2, c, d
  <1>10. \A i \in 1 .. Len(c), j \in 1 .. Len(c) : c[i] = c[j] => i = j
    BY <1>1, <1>2 DEF Apart, c
  <1>11. \A s \in Raw : \A i \in 1 .. Len(W[s]) : W[s][i] # n /\ (W[s][i] = last => s = r /\ i = Len(c))
    <2>1. Len(c) \in 1 .. Len(c)
      BY <1>3
    <2>2. QED
      BY <1>1, <1>2, <2>1 DEF Apart, Loose, c
  <1>12. Chains(B2, W2)
    <2>. SUFFICES ASSUME NEW s \in Raw
                  PROVE  /\ Chain(B2, W2[s]) /\ W2[s][1] = s
                         /\ Len(W2[s]) > 1 => B2[W2[s][Len(W2[s])]].next = s
      BY DEF Chains
    <2>1. CASE s = r
      <3>1. /\ d[1] = r /\ Len(d) \in Nat /\ Len(d) > 1 /\ d[Len(d)] = n
        BY <1>3, <1>8
      <3>2. Len(d) <= MaxBuckets
        <4>1. \A i, j \in 1 .. Len(d) : d[i] = d[j] => i = j
          <5>. SUFFICES ASSUME NEW i \in 1 .. Len(d), NEW j \in 1 .. Len(d), d[i] = d[j] PROVE i = j
            OBVIOUS
          <5>1. \A e \in 1 .. Len(c) : c[e] # n
            BY <1>2, <1>11 DEF c
          <5>2. CASE i = Len(c) + 1 \/ j = Len(c) + 1
            BY <1>3, <1>8, <5>1, <5>2
          <5>3. CASE i \in 1 .. Len(c) /\ j \in 1 .. Len(c)
            BY <1>8, <1>10, <5>3
          <5>4. QED
            BY <1>3, <1>8, <5>2, <5>3
        <4>2. QED
          BY <1>8, <4>1, NoLonger
      <3>3. ASSUME NEW i \in 1 .. Len(d) - 1 PROVE B2[d[i]].next = d[i + 1] /\ d[i + 1] >= BucketNum
        <4>1. i \in 1 .. Len(c) /\ d[i] = c[i] /\ c[i] # n /\ c[i] \in Bucket
          BY <1>2, <1>3, <1>8, <1>11 DEF c
        <4>2. CASE i = Len(c)
          BY <1>3, <1>6, <1>8, <4>1, <4>2 DEF c
        <4>3. CASE i # Len(c)
          <5>1. i \in 1 .. Len(c) - 1 /\ i + 1 \in 1 .. Len(c) /\ d[i + 1] = c[i + 1] /\ c[i] # last
            BY <1>2, <1>3, <1>8, <1>11, <4>1, <4>3 DEF c
          <5>2. QED
            BY <1>3, <1>6, <4>1, <5>1
        <4>4. QED
          BY <4>2, <4>3
      <3>4. B2[d[Len(d)]].next = r /\ r < BucketNum
        BY <1>2, <1>6, <3>1
      <3>5. Len(d) \in 1 .. MaxBuckets
        BY <1>2, <3>1, <3>2
      <3>6. Chain(B2, d)
        BY <1>8, <3>1, <3>3, <3>4, <3>5 DEF Chain
      <3>7. QED
        BY <1>7, <2>1, <3>1, <3>4, <3>6
    <2>2. CASE s # r
      <3>. DEFINE f == W[s]
      <3>1. /\ Chain(B, f) /\ f[1] = s /\ \A i \in 1 .. Len(f) : f[i] \in Bucket
            /\ Len(f) > 1 => B[f[Len(f)]].next = s
        BY <1>1, ChainFacts
      <3>2. \A i \in 1 .. Len(f) : B2[f[i]].next = B[f[i]].next
        BY <1>6, <1>11, <2>2, <3>1
      <3>3. Chain(B2, f) /\ B2[f[Len(f)]].next = B[f[Len(f)]].next
        <4>. HIDE DEF f
        <4>. QED
          BY <3>1, <3>2, ChainStays
      <3>4. QED
        BY <1>7, <2>2, <3>1, <3>3
    <2>3. QED
      BY <2>1, <2>2
  <1>13. \A s \in Raw : \A i \in 1 .. Len(W2[s]) :
            \/ i \in 1 .. Len(W[s]) /\ W2[s][i] = W[s][i]
            \/ s = r /\ i = Len(c) + 1 /\ W2[s][i] = n
    <2>. SUFFICES ASSUME NEW s \in Raw, NEW i \in 1 .. Len(W2[s])
                  PROVE  \/ i \in 1 .. Len(W[s]) /\ W2[s][i] = W[s][i]
                         \/ s = r /\ i = Len(c) + 1 /\ W2[s][i] = n
      OBVIOUS
    <2>1. CASE s = r
      <3>1. i \in 1 .. Len(d) /\ W2[s] = d /\ W[s] = c
        BY <1>7, <2>1 DEF c
      <3>2. QED
        BY <1>3, <1>8, <2>1, <3>1
    <2>2. QED
      BY <1>7, <2>1
  <1>14. \A s \in Raw : \A i \in 1 .. Len(W[s]) : i \in 1 .. Len(W2[s]) /\ W2[s][i] = W[s][i]
    <2>. SUFFICES ASSUME NEW s \in Raw, NEW i \in 1 .. Len(W[s])
                  PROVE  i \in 1 .. Len(W2[s]) /\ W2[s][i] = W[s][i]
      OBVIOUS
    <2>1. CASE s = r
      <3>1. i \in 1 .. Len(c) /\ W2[s] = d /\ W[s] = c
        BY <1>7, <2>1 DEF c
      <3>2. QED
        BY <1>3, <1>8, <3>1
    <2>2. QED
      BY <1>7, <2>1
  <1>15. Apart(W2)
    <2>. SUFFICES ASSUME NEW s \in Raw, NEW t \in Raw, NEW i \in 1 .. Len(W2[s]),
                         NEW j \in 1 .. Len(W2[t]), W2[s][i] = W2[t][j]
                  PROVE  s = t /\ i = j
      BY DEF Apart
    <2>1. CASE W2[s][i] = n
      <3>1. s = r /\ i = Len(c) + 1
        BY <1>11, <1>13, <2>1
      <3>2. t = r /\ j = Len(c) + 1
        BY <1>11, <1>13, <2>1
      <3>3. QED
        BY <3>1, <3>2
    <2>2. CASE W2[s][i] # n
      BY <1>1, <1>13, <2>2 DEF Apart
    <2>3. QED
      BY <2>1, <2>2
  <1>16. Kept(B2, W2)
    <2>. SUFFICES ASSUME NEW b \in Bucket, B2[b].occupied
                  PROVE  /\ B2[b].key \in Keys
                         /\ \E i \in 1 .. Len(W2[Hash[B2[b].key]]) : W2[Hash[B2[b].key]][i] = b
      BY DEF Kept
    <2>1. CASE b = n
      <3>1. Len(c) + 1 \in 1 .. Len(d) /\ d[Len(c) + 1] = n
        BY <1>3, <1>8
      <3>2. QED
        BY <1>6, <1>7, <2>1, <3>1
    <2>2. CASE b # n
      <3>1. /\ B2[b].key = B[b].key /\ B[b].key \in Keys /\ Hash[B[b].key] \in Raw
            /\ \E i \in 1 .. Len(W[Hash[B[b].key]]) : W[Hash[B[b].key]][i] = b
        BY <1>1, <1>6, <2>2, Constants DEF Kept
      <3>2. QED
        BY <1>14, <3>1
    <2>3. QED
      BY <2>1, <2>2
  <1>17. \A b \in Bucket : B[b].occupied => B[b].key # k
    BY DEF HoldsIn
  <1>18. Once(B2)
    <2>. SUFFICES ASSUME NEW b \in Bucket, NEW e \in Bucket, B2[b].occupied, B2[e].occupied,
                         B2[b].key = B2[e].key
                  PROVE  b = e
      BY DEF Once
    <2>1. CASE b = n \/ e = n
      BY <1>6, <1>17, <2>1
    <2>2. CASE b # n /\ e # n
      BY <1>1, <1>6, <2>2 DEF Once
    <2>3. QED
      BY <2>1, <2>2
  <1>19. Taken(B2) = Taken(B) \cup {n}
    BY <1>6 DEF Taken
  <1>20. Puts(B, B2, k, v)
    <2>. SUFFICES ASSUME NEW j \in Keys, NEW x \in Nat
                  PROVE  Content(B2, j, x) <=> (j = k /\ x = v) \/ (j # k /\ Content(B, j, x))
      BY DEF Puts
    <2>1. \A b \in Bucket : b # n => (HoldsIn(B2, b, j) <=> HoldsIn(B, b, j)) /\ B2[b].value = B[b].value
      BY <1>6 DEF HoldsIn
    <2>2. (HoldsIn(B2, n, j) <=> j = k) /\ B2[n].value = v /\ ~HoldsIn(B, n, j)
      BY <1>6, <1>9 DEF HoldsIn
    <2>3. CASE j = k
      BY <2>1, <2>2, <2>3 DEF Content
    <2>4. CASE j # k
      BY <2>1, <2>2, <2>4 DEF Content
    <2>5. QED
      BY <2>3, <2>4
  <1>21. QED
    BY <1>5, <1>9, <1>12, <1>15, <1>16, <1>18, <1>19, <1>20 DEF Table, W2, c

\* DeleteOverflow: the bucket that holds k is no longer occupied.
LEMMA OverflowDeleted ==
    ASSUME NEW B, NEW W, Table(B, W), NEW k \in Keys, NEW h \in Bucket, HoldsIn(B, h, k)
    PROVE  LET B2 == [B EXCEPT ![h].occupied = FALSE]
           IN  Table(B2, W) /\ Drops(B, B2, k) /\ Taken(B2) = Taken(B) \ {h}
  <1>. DEFINE B2 == [B EXCEPT ![h].occupied = FALSE]
  <1>1. Typed(B) /\ Chains(B, W) /\ Apart(W) /\ Kept(B, W) /\ Once(B)
    BY DEF Table
  <1>2. Typed(B2)
    <2>. DEFINE K == Keys \cup {NoKey}
                Record == [occupied : BOOLEAN, key : K, value : Nat, next : Bucket]
    <2>1. B[h] \in Record /\ B \in [Bucket -> Record]
      BY <1>1 DEF Typed
    <2>2. [B[h] EXCEPT !.occupied = FALSE] \in Record
      <3>. HIDE DEF K
      <3>. QED
        BY <2>1
    <2>. HIDE DEF Record
    <2>3. B2 \in [Bucket -> Record]
      BY <2>1, <2>2
    <2>4. QED
      BY <2>3 DEF Record, Typed
  <1>3. B2[h].occupied = FALSE
    BY <1>1 DEF Typed
  <1>4. /\ B2[h].next = B[h].next /\ \A b \in Bucket : b # h => B2[b] = B[b]
    BY <1>1 DEF Typed
  <1>. HIDE DEF B2
  <1>5. \A b \in Bucket : B2[b].next = B[b].next
    BY <1>4
  <1>6. \A b \in Bucket : B2[b].occupied => b # h /\ B[b].occupied /\ B2[b] = B[b]
    BY <1>3, <1>4
  <1>7. Chains(B2, W)
    BY <1>1, <1>5, ChainsStay
  <1>8. Kept(B2, W) /\ Once(B2)
    BY <1>1, <1>6 DEF Kept, Once
  <1>9. Taken(B2) = Taken(B) \ {h}
    BY <1>4, <1>6 DEF Taken
  <1>10. \A b \in Bucket, j \in Keys : HoldsIn(B, b, j) => (b = h <=> j = k)
    BY <1>1 DEF HoldsIn, Once
  <1>11. Drops(B, B2, k)
    <2>. SUFFICES ASSUME NEW j \in Keys, NEW x \in Nat
                  PROVE  Content(B2, j, x) <=> j # k /\ Content(B, j, x)
      BY DEF Drops
    <2>1. \A b \in Bucket : HoldsIn(B2, b, j) <=> HoldsIn(B, b, j) /\ b # h
      BY <1>4, <1>6 DEF HoldsIn
    <2>2. QED
      BY <1>4, <1>10, <2>1 DEF Content
  <1>12. QED
    BY <1>1, <1>2, <1>7, <1>8, <1>9, <1>11 DEF Table, B2

\* DeleteRaw of the last bucket of a chain: it is cleared.
LEMMA RawCleared ==
    ASSUME NEW B, NEW W, Table(B, W), NEW k \in Keys, NEW h \in Raw, HoldsIn(B, h, k),
           B[h].next < BucketNum
    PROVE  LET B2 == [B EXCEPT ![h] = Cleared]
           IN  Table(B2, W) /\ Drops(B, B2, k) /\ Taken(B2) = Taken(B) \ {h}
  <1>. DEFINE B2 == [B EXCEPT ![h] = Cleared]
  <1>1. Typed(B) /\ Chains(B, W) /\ Apart(W) /\ Kept(B, W) /\ Once(B)
    BY DEF Table
  <1>2. h \in Bucket /\ 0 \in Bucket /\ 0 < BucketNum
    BY Constants
  <1>3. Cleared \in [occupied : BOOLEAN, key : Keys \cup {NoKey}, value : Nat, next : Bucket]
    BY <1>2 DEF Cleared
  <1>4. Typed(B2)
    BY <1>1, <1>2, <1>3 DEF Typed
  <1>5. ~B2[h].occupied /\ B2[h].next = 0 /\ \A b \in Bucket : b # h => B2[b] = B[b]
    BY <1>1, <1>2 DEF Typed, Cleared
  <1>. HIDE DEF B2
  <1>6. \A b \in Bucket : \/ B2[b].next = B[b].next
                          \/ b \in Raw /\ B[b].next < BucketNum /\ B2[b].next < BucketNum
    BY <1>2, <1>5
  <1>7. \A b \in Bucket : B2[b].occupied => b # h /\ B[b].occupied /\ B2[b] = B[b]
    BY <1>5
  <1>8. Chains(B2, W)
    BY <1>1, <1>6, ChainsStay
  <1>9. Kept(B2, W) /\ Once(B2)
    BY <1>1, <1>7 DEF Kept, Once
  <1>10. Taken(B2) = Taken(B) \ {h}
    BY <1>5, <1>7 DEF Taken
  <1>11. \A b \in Bucket, j \in Keys : HoldsIn(B, b, j) => (b = h <=> j = k)
    BY <1>1, <1>2 DEF HoldsIn, Once
  <1>12. Drops(B, B2, k)
    <2>. SUFFICES ASSUME NEW j \in Keys, NEW x \in Nat
                  PROVE  Content(B2, j, x) <=> j # k /\ Content(B, j, x)
      BY DEF Drops
    <2>1. \A b \in Bucket : HoldsIn(B2, b, j) <=> HoldsIn(B, b, j) /\ b # h
      BY <1>5, <1>7 DEF HoldsIn
    <2>2. QED
      BY <1>5, <1>11, <2>1 DEF Content
  <1>13. QED
    BY <1>1, <1>4, <1>8, <1>9, <1>10, <1>12 DEF Table, B2

\* DeleteRaw with a second bucket in the chain: the raw bucket takes its contents.
Pulled(c) == [i \in 1 .. Len(c) - 1 |-> IF i = 1 THEN c[1] ELSE c[i + 1]]

LEMMA SecondPulled ==
    ASSUME NEW B, NEW W, Table(B, W), W = [r \in Raw |-> W[r]], NEW k \in Keys, NEW h \in Raw,
           HoldsIn(B, h, k), B[h].next >= BucketNum
    PROVE  LET n == B[h].next
               B2 == [B EXCEPT ![h] = B[n], ![n] = Cleared]
               W2 == [W EXCEPT ![h] = Pulled(@)]
           IN  /\ Table(B2, W2) /\ Drops(B, B2, k)
               /\ Taken(B2) = IF B[n].occupied THEN Taken(B) \ {n} ELSE Taken(B) \ {h}
               /\ 2 \in 1 .. Len(W[h]) /\ W[h][2] = n /\ n \in Bucket /\ Loose(n, W2)
               /\ \A s \in Raw : \A i \in 1 .. Len(W2[s]) : \E j \in 1 .. Len(W[s]) : W2[s][i] = W[s][j]
  <1>. DEFINE n == B[h].next
              B2 == [B EXCEPT ![h] = B[n], ![n] = Cleared]
              W2 == [W EXCEPT ![h] = Pulled(@)]
              c == W[h]
              d == Pulled(c)
  <1>1. Typed(B) /\ Chains(B, W) /\ Apart(W) /\ Kept(B, W) /\ Once(B)
    BY DEF Table
  <1>2. /\ h \in Bucket /\ 0 \in Bucket /\ 0 < BucketNum /\ BucketNum \in Nat /\ MaxBuckets \in Nat
        /\ h \in Nat /\ h < BucketNum
    BY Constants DEF Raw
  <1>3. /\ c \in Seq(Bucket) /\ c[1] = h /\ Len(c) \in Nat /\ Len(c) >= 1 /\ Len(c) <= MaxBuckets
        /\ \A i \in 1 .. Len(c) : c[i] \in Bucket
        /\ \A i \in 2 .. Len(c) : c[i] >= BucketNum /\ c[i] \notin Raw
        /\ \A i \in 1 .. Len(c) - 1 : B[c[i]].next = c[i + 1] /\ c[i + 1] >= BucketNum
        /\ B[c[Len(c)]].next < BucketNum
        /\ Len(c) > 1 => B[c[Len(c)]].next = h
    BY <1>1, ChainFacts
  <1>4. n \in Bucket /\ n \in Int /\ n # h
    BY <1>1, <1>2, Nexts DEF Bucket
  <1>5. Len(c) >= 2 /\ c[2] = n /\ 2 \in 1 .. Len(c)
    <2>1. Len(c) # 1
      BY <1>2, <1>3, <1>4
    <2>2. B[c[1]].next = n
      BY <1>3
    <2>. HIDE DEF c, n
    <2>3. 1 \in 1 .. Len(c) - 1 /\ 2 \in 1 .. Len(c) /\ Len(c) >= 2
      <3>1. \A m \in Nat : m >= 1 /\ m # 1 => 1 \in 1 .. m - 1 /\ 2 \in 1 .. m /\ m >= 2
        OBVIOUS
      <3>2. Len(c) \in Nat /\ Len(c) >= 1
        BY <1>3
      <3>3. QED
        BY <2>1, <3>1, <3>2
    <2>4. B[c[1]].next = c[1 + 1]
      BY <1>3, <2>3
    <2>5. QED
      BY <2>2, <2>3, <2>4
  <1>6. Cleared \in [occupied : BOOLEAN, key : Keys \cup {NoKey}, value : Nat, next : Bucket]
    BY <1>2 DEF Cleared
  <1>7. Typed(B2)
    BY <1>1, <1>2, <1>4, <1>6 DEF Typed
  <1>8. /\ B2[h] = B[n] /\ ~B2[n].occupied /\ \A b \in Bucket : b # h /\ b # n => B2[b] = B[b]
    BY <1>1, <1>2, <1>4 DEF Typed, Cleared
  <1>9. W2[h] = d /\ \A s \in Raw : s # h => W2[s] = W[s]
    OBVIOUS
  <1>10. /\ d \in Seq(Bucket) /\ Len(d) = Len(c) - 1 /\ d[1] = h
         /\ \A i \in 2 .. Len(c) - 1 : d[i] = c[i + 1]
    BY <1>3, <1>5 DEF Pulled
  <1>. HIDE DEF B2, W2, c, d, n
  <1>11. \A s \in Raw : \A i \in 1 .. Len(W2[s]) :
            \/ s = h /\ i = 1 /\ W2[s][i] = h
            \/ s = h /\ i > 1 /\ i + 1 \in 3 .. Len(W[s]) /\ W2[s][i] = W[s][i + 1]
            \/ s # h /\ i \in 1 .. Len(W[s]) /\ W2[s][i] = W[s][i]
    <2>. SUFFICES ASSUME NEW s \in Raw, NEW i \in 1 .. Len(W2[s])
                  PROVE  \/ s = h /\ i = 1 /\ W2[s][i] = h
                         \/ s = h /\ i > 1 /\ i + 1 \in 3 .. Len(W[s]) /\ W2[s][i] = W[s][i + 1]
                         \/ s # h /\ i \in 1 .. Len(W[s]) /\ W2[s][i] = W[s][i]
      OBVIOUS
    <2>1. CASE s = h
      <3>1. i \in 1 .. Len(d) /\ W2[s] = d /\ W[s] = c
        BY <1>9, <2>1 DEF c
      <3>2. QED
        BY <1>3, <1>5, <1>10, <2>1, <3>1
    <2>2. CASE s # h
      BY <1>9, <2>2
    <2>3. QED
      BY <2>1, <2>2
  <1>12. \A s \in Raw : \A i \in 1 .. Len(W2[s]) : \E j \in 1 .. Len(W[s]) :
            W2[s][i] = W[s][j] /\ j = (IF s = h /\ i > 1 THEN i + 1 ELSE i)
    <2>. SUFFICES ASSUME NEW s \in Raw, NEW i \in 1 .. Len(W2[s])
                  PROVE  \E j \in 1 .. Len(W[s]) :
                            W2[s][i] = W[s][j] /\ j = (IF s = h /\ i > 1 THEN i + 1 ELSE i)
      OBVIOUS
    <2>1. CASE s = h /\ i = 1
      <3>1. 1 \in 1 .. Len(W[s]) /\ W[s][1] = h
        BY <1>3, <2>1 DEF c
      <3>2. QED
        BY <1>11, <2>1, <3>1
    <2>2. CASE s = h /\ i > 1
      <3>1. i + 1 \in 1 .. Len(W[s]) /\ W2[s][i] = W[s][i + 1]
        BY <1>11, <2>2
      <3>2. QED
        BY <2>2, <3>1
    <2>3. CASE s # h
      BY <1>11, <2>3
    <2>4. QED
      BY <2>1, <2>2, <2>3
  <1>13. Apart(W2)
    <2>. SUFFICES ASSUME NEW s \in Raw, NEW t \in Raw, NEW i \in 1 .. Len(W2[s]),
                         NEW j \in 1 .. Len(W2[t]), W2[s][i] = W2[t][j]
                  PROVE  s = t /\ i = j
      BY DEF Apart
    <2>1. PICK p \in 1 .. Len(W[s]) : W2[s][i] = W[s][p] /\ p = (IF s = h /\ i > 1 THEN i + 1 ELSE i)
      BY <1>12
    <2>2. PICK q \in 1 .. Len(W[t]) : W2[t][j] = W[t][q] /\ q = (IF t = h /\ j > 1 THEN j + 1 ELSE j)
      BY <1>12
    <2>3. W[s][p] = W[t][q]
      BY <2>1, <2>2
    <2>4. s = t /\ p = q
      BY <1>1, <2>3 DEF Apart
    <2>5. i \in Int /\ j \in Int /\ i >= 1 /\ j >= 1
      OBVIOUS
    <2>6. (s = h /\ i > 1 => p = i + 1) /\ (~(s = h /\ i > 1) => p = i)
      BY <2>1
    <2>7. (t = h /\ j > 1 => q = j + 1) /\ (~(t = h /\ j > 1) => q = j)
      BY <2>2
    <2>8. QED
      BY <2>4, <2>5, <2>6, <2>7
  <1>14. Loose(n, W2)
    <2>. SUFFICES ASSUME NEW s \in Raw, NEW i \in 1 .. Len(W2[s]), W2[s][i] = n PROVE FALSE
      BY DEF Loose
    <2>1. PICK p \in 1 .. Len(W[s]) : W2[s][i] = W[s][p] /\ p = (IF s = h /\ i > 1 THEN i + 1 ELSE i)
      BY <1>12
    <2>2. s = h /\ p = 2
      BY <1>1, <1>5, <2>1 DEF Apart, c
    <2>3. i \in Int /\ i >= 1
      OBVIOUS
    <2>4. CASE i = 1
      BY <2>1, <2>2, <2>4
    <2>5. CASE i > 1
      BY <2>1, <2>2, <2>3, <2>5
    <2>6. QED
      BY <2>3, <2>4, <2>5
  <1>15. \A s \in Raw : \A i \in 1 .. Len(W[s]) : W[s][i] = n => s = h /\ i = 2
    BY <1>1, <1>5 DEF Apart, c
  <1>16. \A s \in Raw : \A i \in 1 .. Len(W[s]) : W[s][i] = h => s = h /\ i = 1
    <2>1. 1 \in 1 .. Len(W[h]) /\ W[h][1] = h
      BY <1>3 DEF c
    <2>2. QED
      BY <1>1, <2>1 DEF Apart
  <1>17. Chains(B2, W2)
    <2>. SUFFICES ASSUME NEW s \in Raw
                  PROVE  /\ Chain(B2, W2[s]) /\ W2[s][1] = s
                         /\ Len(W2[s]) > 1 => B2[W2[s][Len(W2[s])]].next = s
      BY DEF Chains
    <2>1. CASE s = h
      <3>1. Len(d) \in 1 .. MaxBuckets /\ Len(d) = Len(c) - 1
        BY <1>2, <1>3, <1>5, <1>10
      <3>2. ASSUME NEW i \in 2 .. Len(d)
            PROVE  d[i] = c[i + 1] /\ i + 1 \in 1 .. Len(c) /\ B2[d[i]] = B[c[i + 1]]
        <4>1. d[i] = c[i + 1] /\ i + 1 \in 1 .. Len(c) /\ i + 1 # 1 /\ i + 1 # 2
          BY <1>3, <1>10, <3>1
        <4>2. c[i + 1] \in Bucket /\ c[i + 1] # h /\ c[i + 1] # n
          BY <1>3, <1>15, <1>16, <4>1 DEF c
        <4>3. QED
          BY <1>8, <4>1, <4>2
      <3>3. B2[d[1]] = B[c[2]]
        BY <1>5, <1>8, <1>10
      <3>4. ASSUME NEW i \in 1 .. Len(d)
            PROVE  B2[d[i]] = B[c[i + 1]] /\ i + 1 \in 1 .. Len(c)
        <4>1. CASE i = 1
          BY <1>5, <3>3, <4>1
        <4>2. CASE i # 1
          <5>1. i \in 2 .. Len(d)
            BY <3>1, <4>2
          <5>2. QED
            BY <3>2, <5>1
        <4>3. QED
          BY <4>1, <4>2
      <3>5. ASSUME NEW i \in 1 .. Len(d) - 1
            PROVE  B2[d[i]].next = d[i + 1] /\ d[i + 1] >= BucketNum
        <4>1. /\ i \in 1 .. Len(d) /\ i + 1 \in 2 .. Len(d)
              /\ i + 1 \in 1 .. Len(c) - 1 /\ (i + 1) + 1 \in 1 .. Len(c)
          BY <3>1
        <4>2. B2[d[i]] = B[c[i + 1]]
          BY <3>4, <4>1
        <4>3. B[c[i + 1]].next = c[(i + 1) + 1] /\ c[(i + 1) + 1] >= BucketNum
          BY <1>3, <4>1
        <4>4. d[i + 1] = c[(i + 1) + 1]
          BY <3>2, <4>1
        <4>5. QED
          BY <4>2, <4>3, <4>4
      <3>6. B2[d[Len(d)]].next = h
        <4>1. Len(d) \in 1 .. Len(d) /\ Len(d) + 1 = Len(c) /\ Len(c) > 1
          BY <1>3, <1>5, <3>1
        <4>2. B2[d[Len(d)]] = B[c[Len(d) + 1]]
          BY <3>4, <4>1
        <4>3. QED
          BY <1>3, <4>1, <4>2
      <3>7. Chain(B2, d)
        BY <1>2, <1>10, <3>1, <3>5, <3>6 DEF Chain
      <3>8. QED
        BY <1>9, <1>10, <2>1, <3>6, <3>7
    <2>2. CASE s # h
      <3>. DEFINE f == W[s]
      <3>1. /\ Chain(B, f) /\ f[1] = s /\ \A i \in 1 .. Len(f) : f[i] \in Bucket
            /\ Len(f) > 1 => B[f[Len(f)]].next = s
        BY <1>1, ChainFacts
      <3>2. \A i \in 1 .. Len(f) : B2[f[i]].next = B[f[i]].next
        BY <1>8, <1>15, <1>16, <2>2, <3>1
      <3>3. Chain(B2, f) /\ B2[f[Len(f)]].next = B[f[Len(f)]].next
        <4>. HIDE DEF f
        <4>. QED
          BY <3>1, <3>2, ChainStays
      <3>4. QED
        BY <1>9, <2>2, <3>1, <3>3
    <2>3. QED
      BY <2>1, <2>2
  <1>18. B[h].occupied /\ B[h].key = k
    BY DEF HoldsIn
  <1>19. B[n].occupied => Hash[B[n].key] = h /\ B[n].key \in Keys /\ B[n].key # k
    <2>. SUFFICES ASSUME B[n].occupied PROVE Hash[B[n].key] = h /\ B[n].key \in Keys /\ B[n].key # k
      OBVIOUS
    <2>1. B[n].key # k
      BY <1>1, <1>2, <1>4, <1>18 DEF Once
    <2>2. B[n].key \in Keys /\ \E i \in 1 .. Len(W[Hash[B[n].key]]) : W[Hash[B[n].key]][i] = n
      BY <1>1, <1>4 DEF Kept
    <2>3. Hash[B[n].key] \in Raw
      BY <2>2, Constants
    <2>4. QED
      BY <1>15, <2>1, <2>2, <2>3
  <1>20. Kept(B2, W2)
    <2>. SUFFICES ASSUME NEW b \in Bucket, B2[b].occupied
                  PROVE  /\ B2[b].key \in Keys
                         /\ \E i \in 1 .. Len(W2[Hash[B2[b].key]]) : W2[Hash[B2[b].key]][i] = b
      BY DEF Kept
    <2>1. CASE b = h
      <3>1. B2[b].key = B[n].key /\ Hash[B2[b].key] = h /\ B[n].key \in Keys
        BY <1>8, <1>19, <2>1
      <3>2. 1 \in 1 .. Len(d) /\ d[1] = h
        BY <1>3, <1>5, <1>10
      <3>3. QED
        BY <1>9, <2>1, <3>1, <3>2
    <2>2. CASE b # h
      <3>. DEFINE s == Hash[B[b].key]
      <3>1. b # n /\ B2[b] = B[b]
        BY <1>8, <2>2
      <3>2. s \in Raw /\ B[b].key \in Keys /\ \E i \in 1 .. Len(W[s]) : W[s][i] = b
        BY <1>1, <3>1, Constants DEF Kept
      <3>. HIDE DEF s
      <3>3. PICK i \in 1 .. Len(W[s]) : W[s][i] = b
        BY <3>2
      <3>4. CASE s # h
        BY <1>9, <3>1, <3>2, <3>3, <3>4 DEF s
      <3>5. CASE s = h
        <4>1. i # 1 /\ i # 2 /\ i \in 1 .. Len(c) /\ c[i] = b
          BY <1>3, <1>5, <2>2, <3>1, <3>3, <3>5 DEF c
        <4>2. i - 1 \in 2 .. Len(c) - 1 /\ i - 1 \in 1 .. Len(d) /\ (i - 1) + 1 = i
          BY <1>3, <1>10, <4>1
        <4>3. d[i - 1] = b
          BY <1>10, <4>1, <4>2
        <4>4. QED
          BY <1>9, <3>1, <3>2, <3>5, <4>2, <4>3 DEF s
      <3>6. QED
        BY <3>4, <3>5
    <2>3. QED
      BY <2>1, <2>2
  <1>21. \A b \in Bucket : B2[b].occupied =>
            /\ b # n
            /\ b = h => B[n].occupied /\ B2[b] = B[n]
            /\ b # h => B[b].occupied /\ B2[b] = B[b]
    BY <1>8
  <1>22. Once(B2)
    <2>. SUFFICES ASSUME NEW b \in Bucket, NEW e \in Bucket, B2[b].occupied, B2[e].occupied,
                         B2[b].key = B2[e].key
                  PROVE  b = e
      BY DEF Once
    <2>. QED
      BY <1>1, <1>4, <1>21 DEF Once
  <1>23. Taken(B2) = IF B[n].occupied THEN Taken(B) \ {n} ELSE Taken(B) \ {h}
    BY <1>2, <1>4, <1>8, <1>18, <1>21 DEF Taken
  <1>24. Drops(B, B2, k)
    <2>. SUFFICES ASSUME NEW j \in Keys, NEW x \in Nat
                  PROVE  Content(B2, j, x) <=> j # k /\ Content(B, j, x)
      BY DEF Drops
    <2>1. CASE j = k
      <3>1. \A b \in Bucket : HoldsIn(B, b, j) => b = h
        BY <1>1, <1>2, <1>18, <2>1 DEF Once, HoldsIn
      <3>2. \A b \in Bucket : ~HoldsIn(B2, b, j)
        BY <1>8, <1>19, <1>21, <2>1, <3>1 DEF HoldsIn
      <3>3. QED
        BY <2>1, <3>2 DEF Content
    <2>2. CASE j # k
      <3>1. ASSUME Content(B2, j, x) PROVE Content(B, j, x)
        <4>1. PICK b \in Bucket : HoldsIn(B2, b, j) /\ B2[b].value = x
          BY <3>1 DEF Content
        <4>2. CASE b = h
          BY <1>4, <1>21, <4>1, <4>2 DEF Content, HoldsIn
        <4>3. CASE b # h
          BY <1>21, <4>1, <4>3 DEF Content, HoldsIn
        <4>4. QED
          BY <4>2, <4>3
      <3>2. ASSUME Content(B, j, x) PROVE Content(B2, j, x)
        <4>1. PICK b \in Bucket : HoldsIn(B, b, j) /\ B[b].value = x
          BY <3>2 DEF Content
        <4>2. b # h
          BY <1>18, <2>2, <4>1 DEF HoldsIn
        <4>3. CASE b = n
          BY <1>2, <1>8, <4>1, <4>3 DEF Content, HoldsIn
        <4>4. CASE b # n
          BY <1>8, <4>1, <4>2, <4>4 DEF Content, HoldsIn
        <4>5. QED
          BY <4>3, <4>4
      <3>3. QED
        BY <2>2, <3>1, <3>2
    <2>3. QED
      BY <2>1, <2>2
  <1>25. \A s \in Raw : \A i \in 1 .. Len(W2[s]) : \E j \in 1 .. Len(W[s]) : W2[s][i] = W[s][j]
    BY <1>12
  <1>26. QED
    BY <1>4, <1>5, <1>7, <1>13, <1>14, <1>17, <1>20, <1>22, <1>23, <1>24, <1>25 DEF Table, B2, W2, c, n

-----------------------------------------------------------------------------
(* What a step does to the pool's buckets *)

LEMMA LentBuckets ==
    ASSUME NEW n, NEW D, NEW F, NEW W, Lending(n, D, F, W)
    PROVE  /\ n \in Int /\ n >= BucketNum /\ n <= MaxBuckets /\ IsABag(D) /\ IsABag(F)
           /\ BucketNum \in Nat /\ MaxBuckets \in Nat
           /\ \A b \in DOMAIN D : b \in Int /\ b >= BucketNum /\ b < n /\ b \in Bucket
           /\ \A b \in DOMAIN F : b \in Int /\ b >= BucketNum /\ b < n /\ b \in Bucket
  <1>1. BucketNum \in Nat /\ MaxBuckets \in Nat
    BY Constants
  <1>2. /\ n \in BucketNum .. MaxBuckets /\ IsABag(D) /\ IsABag(F)
        /\ \A b \in DOMAIN D : b \in BucketNum .. n - 1
        /\ \A b \in DOMAIN F : b \in BucketNum .. n - 1
    BY DEF Lending
  <1>3. QED
    BY <1>1, <1>2 DEF Bucket

\* Alloc gives a bucket that is in no chain, which then is in one.
LEMMA Allocated ==
    ASSUME NEW W, W = [r \in Raw |-> W[r]], \A r \in Raw : W[r] \in Seq(Bucket),
           Lending(brk, delayed, free, W), NEW b, Alloc(b)
    PROVE  /\ b \in Bucket /\ b >= BucketNum /\ Loose(b, W)
           /\ \A r \in Raw : Lending(brk', delayed, free', [W EXCEPT ![r] = Append(@, b)])
  <1>1. /\ brk \in Int /\ brk >= BucketNum /\ brk <= MaxBuckets /\ IsABag(delayed) /\ IsABag(free)
        /\ BucketNum \in Nat /\ MaxBuckets \in Nat
        /\ \A c \in DOMAIN delayed : c \in Int /\ c >= BucketNum /\ c < brk /\ c \in Bucket
        /\ \A c \in DOMAIN free : c \in Int /\ c >= BucketNum /\ c < brk /\ c \in Bucket
    BY LentBuckets
  <1>2. /\ \A r \in Raw : \A i \in 1 .. Len(W[r]) : W[r][i] < brk
        /\ \A c \in DOMAIN delayed : delayed[c] = 1 /\ Loose(c, W) /\ c \notin DOMAIN free
        /\ \A c \in DOMAIN free : free[c] = 1 /\ Loose(c, W)
    BY DEF Lending
  <1>3. b \in Bucket /\ b \in Int /\ b < MaxBuckets
    BY <1>1 DEF Alloc, Bucket
  <1>4. /\ b >= BucketNum /\ Loose(b, W)
        /\ brk' \in Int /\ brk' >= brk /\ brk' <= MaxBuckets /\ b < brk'
        /\ IsABag(free') /\ b \notin DOMAIN free' /\ b \notin DOMAIN delayed
        /\ \A c \in DOMAIN free' : c \in DOMAIN free /\ free'[c] = free[c]
    <2>1. CASE useFreeList /\ BagToSet(free) # {}
      <3>1. b \in DOMAIN free /\ free' = free (-) SetToBag({b}) /\ brk' = brk
        BY <2>1 DEF Alloc, BagToSet
      <3>2. free[b] = 1
        BY <1>2, <3>1
      <3>. DEFINE F == free (-) SetToBag({b})
      <3>3. /\ IsABag(F) /\ DOMAIN F = DOMAIN free \ {b}
            /\ \A c \in DOMAIN free \ {b} : F[c] = free[c]
        BY <1>1, <3>1, <3>2, BagPop
      <3>. HIDE DEF F
      <3>4. free' = F
        BY <3>1 DEF F
      <3>5. b >= BucketNum /\ Loose(b, W) /\ b < brk /\ b \notin DOMAIN delayed
        BY <1>1, <1>2, <3>1
      <3>6. /\ IsABag(F) /\ b \notin DOMAIN F
            /\ \A c \in DOMAIN F : c \in DOMAIN free /\ F[c] = free[c]
        BY <3>3
      <3>7. brk' \in Int /\ brk' >= brk /\ brk' <= MaxBuckets /\ b < brk'
        BY <1>1, <3>1, <3>5
      <3>8. QED
        BY <3>4, <3>5, <3>6, <3>7
    <2>2. CASE ~(useFreeList /\ BagToSet(free) # {})
      <3>1. b = brk /\ brk' = brk + 1 /\ free' = free
        BY <2>2 DEF Alloc
      <3>2. Loose(b, W)
        <4>1. ~(brk < brk)
          BY <1>1
        <4>2. QED
          BY <1>2, <3>1, <4>1 DEF Loose
      <3>3. QED
        BY <1>1, <1>3, <3>1, <3>2
    <2>3. QED
      BY <2>1, <2>2
  <1>5. SUFFICES ASSUME NEW r \in Raw
                 PROVE  Lending(brk', delayed, free', [W EXCEPT ![r] = Append(@, b)])
    BY <1>3, <1>4
  <1>. DEFINE W2 == [W EXCEPT ![r] = Append(@, b)]
  <1>6. \A s \in Raw : \A i \in 1 .. Len(W2[s]) :
           W2[s][i] = b \/ (i \in 1 .. Len(W[s]) /\ W2[s][i] = W[s][i])
    <2>. SUFFICES ASSUME NEW s \in Raw, NEW i \in 1 .. Len(W2[s])
                  PROVE  W2[s][i] = b \/ (i \in 1 .. Len(W[s]) /\ W2[s][i] = W[s][i])
      OBVIOUS
    <2>1. CASE s = r
      <3>. DEFINE c == W[r]
      <3>1. W2[s] = Append(c, b) /\ W[s] = c /\ c \in Seq(Bucket)
        BY <2>1
      <3>. HIDE DEF W2, c
      <3>2. i \in 1 .. Len(Append(c, b))
        BY <3>1
      <3>3. Append(c, b)[i] = b \/ (i \in 1 .. Len(c) /\ Append(c, b)[i] = c[i])
        BY <1>3, <3>1, <3>2
      <3>4. QED
        BY <3>1, <3>3
    <2>2. CASE s # r
      BY <2>2
    <2>3. QED
      BY <2>1, <2>2
  <1>. HIDE DEF W2
  <1>7. \A c : Loose(c, W) /\ c # b => Loose(c, W2)
    BY <1>6 DEF Loose
  <1>8. \A s \in Raw : \A i \in 1 .. Len(W2[s]) : W2[s][i] < brk'
    <2>. SUFFICES ASSUME NEW s \in Raw, NEW i \in 1 .. Len(W2[s]) PROVE W2[s][i] < brk'
      OBVIOUS
    <2>1. CASE W2[s][i] = b
      BY <1>4, <2>1
    <2>2. CASE i \in 1 .. Len(W[s]) /\ W2[s][i] = W[s][i]
      <3>1. W[s][i] < brk /\ W[s][i] \in Bucket
        BY <1>2, <2>2
      <3>2. W[s][i] \in Int
        BY <1>1, <3>1 DEF Bucket
      <3>3. QED
        BY <1>1, <1>4, <2>2, <3>1, <3>2
    <2>3. QED
      BY <1>6, <2>1, <2>2
  <1>9. brk' \in BucketNum .. MaxBuckets
    BY <1>1, <1>4
  <1>10. ASSUME NEW c \in DOMAIN delayed
         PROVE  /\ c \in BucketNum .. brk' - 1 /\ delayed[c] = 1 /\ Loose(c, W2)
                /\ c \notin DOMAIN free'
    <2>1. c \in BucketNum .. brk' - 1
      BY <1>1, <1>4
    <2>2. Loose(c, W2)
      BY <1>2, <1>4, <1>7
    <2>3. QED
      BY <1>2, <1>4, <2>1, <2>2
  <1>11. ASSUME NEW c \in DOMAIN free'
         PROVE  c \in BucketNum .. brk' - 1 /\ free'[c] = 1 /\ Loose(c, W2)
    <2>1. c \in DOMAIN free /\ c # b
      BY <1>4
    <2>2. c \in BucketNum .. brk' - 1
      BY <1>1, <1>4, <2>1
    <2>3. Loose(c, W2)
      BY <1>2, <1>7, <2>1
    <2>4. QED
      BY <1>2, <1>4, <2>1, <2>2, <2>3
  <1>12. QED
    BY <1>1, <1>4, <1>8, <1>9, <1>10, <1>11 DEF Lending, W2

\* Free of a bucket that has left its chain.
LEMMA FreedOne ==
    ASSUME NEW W, NEW W2, Lending(brk, delayed, free, W), NEW b \in Bucket, b >= BucketNum,
           \E r \in Raw : \E i \in 1 .. Len(W[r]) : W[r][i] = b, Loose(b, W2),
           \A s \in Raw : \A i \in 1 .. Len(W2[s]) : \E j \in 1 .. Len(W[s]) : W2[s][i] = W[s][j]
    PROVE  Lending(brk, delayed (+) SetToBag({b}), free, W2) /\ Lending(brk, delayed, free, W2)
  <1>1. /\ brk \in Int /\ brk >= BucketNum /\ brk <= MaxBuckets /\ IsABag(delayed) /\ IsABag(free)
        /\ BucketNum \in Nat /\ MaxBuckets \in Nat /\ b \in Int
    BY LentBuckets DEF Bucket
  <1>2. /\ brk \in BucketNum .. MaxBuckets
        /\ \A r \in Raw : \A i \in 1 .. Len(W[r]) : W[r][i] < brk
        /\ \A c \in DOMAIN delayed : /\ c \in BucketNum .. brk - 1 /\ delayed[c] = 1 /\ Loose(c, W)
                                     /\ c \notin DOMAIN free
        /\ \A c \in DOMAIN free : c \in BucketNum .. brk - 1 /\ free[c] = 1 /\ Loose(c, W)
    BY DEF Lending
  <1>3. b < brk /\ b \notin DOMAIN delayed /\ b \notin DOMAIN free
    BY <1>2 DEF Loose
  <1>4. \A c : Loose(c, W) => Loose(c, W2)
    BY DEF Loose
  <1>5. \A r \in Raw : \A i \in 1 .. Len(W2[r]) : W2[r][i] < brk
    BY <1>2
  <1>6. b \in BucketNum .. brk - 1
    BY <1>1, <1>3
  <1>. DEFINE D == delayed (+) SetToBag({b})
  <1>7. /\ IsABag(D) /\ DOMAIN D = DOMAIN delayed \cup {b} /\ D[b] = 1
        /\ \A c \in DOMAIN delayed \ {b} : D[c] = delayed[c]
    BY <1>1, <1>3, BagPush
  <1>. HIDE DEF D
  <1>8. Lending(brk, D, free, W2)
    <2>1. \A c \in DOMAIN D : c \in BucketNum .. brk - 1 /\ D[c] = 1 /\ Loose(c, W2) /\ c \notin DOMAIN free
      BY <1>2, <1>3, <1>4, <1>6, <1>7
    <2>2. QED
      BY <1>1, <1>2, <1>4, <1>5, <1>7, <2>1 DEF Lending
  <1>9. Lending(brk, delayed, free, W2)
    BY <1>1, <1>2, <1>4, <1>5 DEF Lending
  <1>10. QED
    BY <1>8, <1>9 DEF D

\* DelayedFree and Restart.
LEMMA FreedLater ==
    ASSUME NEW W, Lending(brk, delayed, free, W), NEW b \in DOMAIN delayed
    PROVE  Lending(brk, delayed (-) SetToBag({b}), free (+) SetToBag({b}), W)
  <1>1. /\ brk \in BucketNum .. MaxBuckets /\ IsABag(delayed) /\ IsABag(free)
        /\ \A r \in Raw : \A i \in 1 .. Len(W[r]) : W[r][i] < brk
        /\ \A c \in DOMAIN delayed : /\ c \in BucketNum .. brk - 1 /\ delayed[c] = 1 /\ Loose(c, W)
                                     /\ c \notin DOMAIN free
        /\ \A c \in DOMAIN free : c \in BucketNum .. brk - 1 /\ free[c] = 1 /\ Loose(c, W)
    BY DEF Lending
  <1>. DEFINE D == delayed (-) SetToBag({b})
              F == free (+) SetToBag({b})
  <1>2. /\ IsABag(D) /\ DOMAIN D = DOMAIN delayed \ {b}
        /\ \A c \in DOMAIN delayed \ {b} : D[c] = delayed[c]
    BY <1>1, BagPop
  <1>3. /\ IsABag(F) /\ DOMAIN F = DOMAIN free \cup {b} /\ F[b] = 1
        /\ \A c \in DOMAIN free \ {b} : F[c] = free[c]
    BY <1>1, BagPush
  <1>. HIDE DEF D, F
  <1>4. \A c \in DOMAIN D : c \in BucketNum .. brk - 1 /\ D[c] = 1 /\ Loose(c, W) /\ c \notin DOMAIN F
    BY <1>1, <1>2, <1>3
  <1>5. \A c \in DOMAIN F : c \in BucketNum .. brk - 1 /\ F[c] = 1 /\ Loose(c, W)
    BY <1>1, <1>3
  <1>6. QED
    BY <1>1, <1>2, <1>3, <1>4, <1>5 DEF Lending, D, F

LEMMA Reopened ==
    ASSUME NEW W, Lending(brk, delayed, free, W)
    PROVE  Lending(brk, EmptyBag, free (+) delayed, W) /\ Lending(brk, EmptyBag, EmptyBag, W)
  <1>1. /\ brk \in BucketNum .. MaxBuckets /\ IsABag(delayed) /\ IsABag(free)
        /\ \A r \in Raw : \A i \in 1 .. Len(W[r]) : W[r][i] < brk
        /\ \A c \in DOMAIN delayed : /\ c \in BucketNum .. brk - 1 /\ delayed[c] = 1 /\ Loose(c, W)
                                     /\ c \notin DOMAIN free
        /\ \A c \in DOMAIN free : c \in BucketNum .. brk - 1 /\ free[c] = 1 /\ Loose(c, W)
    BY DEF Lending
  <1>. DEFINE F == free (+) delayed
              E == EmptyBag
  <1>2. IsABag(E) /\ DOMAIN E = {}
    BY BagNone
  <1>3. /\ IsABag(F) /\ DOMAIN F = DOMAIN free \cup DOMAIN delayed
        /\ \A c \in DOMAIN free : F[c] = free[c]
        /\ \A c \in DOMAIN delayed : F[c] = delayed[c]
    BY <1>1, BagJoin
  <1>. HIDE DEF E, F
  <1>4. Lending(brk, E, F, W)
    BY <1>1, <1>2, <1>3 DEF Lending
  <1>5. Lending(brk, E, E, W)
    BY <1>1, <1>2 DEF Lending
  <1>6. QED
    BY <1>4, <1>5 DEF E, F

-----------------------------------------------------------------------------
(* The steps *)

LEMMA TakenFinite ==
    ASSUME NEW B
    PROVE  IsFiniteSet(Taken(B)) /\ Cardinality(Taken(B)) \in Nat
  <1>1. MaxBuckets \in Nat
    BY Constants
  <1>2. IsFiniteSet(Bucket)
    BY <1>1, Intervals DEF Bucket
  <1>3. Taken(B) \in SUBSET Bucket
    BY DEF Taken
  <1>4. QED
    BY <1>2, <1>3, FS_Subset, FS_CardinalityType

\* From the buckets and the chains after a step to the invariant after it.
LEMMA OrderAgain ==
    ASSUME NEW W, W = [r \in Raw |-> W[r]], Table(bucket', W), Lending(brk', delayed', free', W),
           usedSize' = Cardinality(Taken(bucket'))
    PROVE  InOrder'
  <1>1. Typed(bucket') /\ Chains(bucket', W)
    BY DEF Table
  <1>2. Trails(bucket') = W
    BY <1>1, TrailsAre
  <1>3. QED
    BY <1>2 DEF InOrder

LEMMA Searched ==
    ASSUME InOrder, NEW k \in Keys
    PROVE  /\ Hit(k) # Null => Hit(k) \in Bucket /\ HoldsIn(bucket, Hit(k), k)
           /\ Hit(k) = Null => \A b \in Bucket : ~HoldsIn(bucket, b, k)
           /\ k \in Found <=> Hit(k) # Null
  <1>1. Null \notin Bucket
    BY Constants DEF Null, Bucket
  <1>2. Hit(k) = Find(bucket, k)
    BY HitIs
  <1>3. /\ \A b \in Bucket : HoldsIn(bucket, b, k) => Find(bucket, k) = b
        /\ Find(bucket, k) # Null => Find(bucket, k) \in Bucket /\ HoldsIn(bucket, Find(bucket, k), k)
    BY FindIs DEF InOrder
  <1>4. QED
    BY <1>1, <1>2, <1>3 DEF Found

LEMMA InsertKeeps ==
    ASSUME InOrder, NEW k \in Keys, NEW v \in Values, Insert(k, v)
    PROVE  /\ InOrder' /\ Puts(bucket, bucket', k, v)
           /\ usedSize' = IF k \in Found THEN usedSize ELSE usedSize + 1
  <1>. DEFINE W == Trails(bucket)
  <1>1. /\ Table(bucket, W) /\ Lending(brk, delayed, free, W) /\ usedSize = Cardinality(Taken(bucket))
        /\ W = [r \in Raw |-> W[r]] /\ v \in Nat /\ UNCHANGED delayed
        /\ Hash[k] \in Raw /\ Hash[k] \in Bucket
    BY Constants DEF InOrder, Trails, Insert
  <1>2. Typed(bucket) /\ Chains(bucket, W)
    BY <1>1 DEF Table
  <1>3. IsFiniteSet(Taken(bucket)) /\ Cardinality(Taken(bucket)) \in Nat
    BY TakenFinite
  <1>4. \A r \in Raw : Walk(r) = W[r] /\ W[r] \in Seq(Bucket)
    BY <1>2, ChainFacts, WalkIs DEF Trails
  <1>. HIDE DEF W
  <1>5. CASE k \in Found
    <2>1. SetValue(k, v)
      BY <1>5 DEF Insert
    <2>2. Hit(k) \in Bucket /\ HoldsIn(bucket, Hit(k), k)
      BY <1>5, Searched
    <2>3. bucket' = [bucket EXCEPT ![Hit(k)].value = v] /\ UNCHANGED <<brk, free, usedSize>>
      BY <2>1 DEF SetValue
    <2>4. Table(bucket', W) /\ Puts(bucket, bucket', k, v) /\ Taken(bucket') = Taken(bucket)
      <3>1. PICK h \in Bucket : HoldsIn(bucket, h, k) /\ bucket' = [bucket EXCEPT ![h].value = v]
        BY <2>2, <2>3
      <3>2. Typed(bucket') /\ Revalued(bucket, bucket', h, v)
        BY <1>1, <1>2, <3>1 DEF Typed, Revalued
      <3>3. QED
        BY <1>1, <3>1, <3>2, ValueSet
    <2>5. Lending(brk', delayed', free', W) /\ usedSize' = Cardinality(Taken(bucket'))
      BY <1>1, <2>3, <2>4
    <2>6. QED
      BY <1>1, <1>5, <2>3, <2>4, <2>5, OrderAgain
  <1>6. CASE k \notin Found /\ ~bucket[Hash[k]].occupied
    <2>1. FillRaw(k, v)
      BY <1>6 DEF Insert
    <2>2. \A b \in Bucket : ~HoldsIn(bucket, b, k)
      BY <1>6, Searched
    <2>3. /\ bucket' = [bucket EXCEPT ![Hash[k]] =
                          [occupied |-> TRUE, key |-> k, value |-> v, next |-> @.next]]
          /\ usedSize' = usedSize + 1 /\ UNCHANGED <<brk, free>>
      BY <2>1 DEF FillRaw
    <2>4. /\ Table(bucket', W) /\ Puts(bucket, bucket', k, v)
          /\ Taken(bucket') = Taken(bucket) \cup {Hash[k]}
      BY <1>1, <1>6, <2>2, <2>3, RawFilled
    <2>5. Hash[k] \notin Taken(bucket)
      BY <1>6 DEF Taken
    <2>6. usedSize' = Cardinality(Taken(bucket'))
      BY <1>1, <1>3, <2>3, <2>4, <2>5, FS_AddElement
    <2>7. Lending(brk', delayed', free', W)
      BY <1>1, <2>3
    <2>8. QED
      BY <1>1, <1>6, <2>3, <2>4, <2>6, <2>7, OrderAgain
  <1>7. CASE k \notin Found /\ bucket[Hash[k]].occupied
    <2>. DEFINE r == Hash[k]
                last == W[r][Len(W[r])]
    <2>1. AppendBucket(k, v)
      BY <1>7 DEF Insert
    <2>2. \A b \in Bucket : ~HoldsIn(bucket, b, k)
      BY <1>7, Searched
    <2>3. Last(Walk(r)) = last
      BY <1>1, <1>4 DEF Last
    <2>4. PICK n \in Bucket :
             /\ Alloc(n)
             /\ bucket' = [bucket EXCEPT ![n].key = k, ![last].next = n, ![n].next = r,
                                         ![n].value = v, ![n].occupied = TRUE]
             /\ usedSize' = IF bucket[n].occupied THEN usedSize ELSE usedSize + 1
      <3>. HIDE DEF last
      <3>. QED
        BY <2>1, <2>3, Zenon DEF AppendBucket
    <2>. DEFINE W2 == [W EXCEPT ![r] = Append(@, n)]
    <2>5. n >= BucketNum /\ Loose(n, W) /\ Lending(brk', delayed, free', W2)
      BY <1>1, <1>4, <2>4, Allocated
    <2>6. /\ Table(bucket', W2) /\ Puts(bucket, bucket', k, v)
          /\ ~bucket[n].occupied /\ Taken(bucket') = Taken(bucket) \cup {n}
      <3>1. /\ Typed(bucket) /\ last \in Bucket /\ last # n /\ r \in Bucket /\ v \in Nat
        BY <1>1, <1>2, <2>5, ChainFacts DEF Loose
      <3>2. Typed(bucket') /\ LinkedUp(bucket, bucket', n, last, k, v, r)
        <4>. HIDE DEF last, r
        <4>. QED
          BY <2>4, <3>1, Assigned, Zenon
      <3>3. n >= BucketNum /\ Loose(n, W)
        BY <2>5
      <3>4. QED
        BY <1>1, <2>2, <3>2, <3>3, BucketAppended
    <2>7. n \notin Taken(bucket)
      BY <2>6 DEF Taken
    <2>8. usedSize' = usedSize + 1 /\ usedSize' = Cardinality(Taken(bucket'))
      BY <1>1, <1>3, <2>4, <2>6, <2>7, FS_AddElement
    <2>9. W2 = [s \in Raw |-> W2[s]]
      BY <1>1
    <2>10. Lending(brk', delayed', free', W2)
      BY <1>1, <2>5
    <2>. HIDE DEF W2
    <2>11. InOrder'
      BY <2>6, <2>8, <2>9, <2>10, OrderAgain
    <2>12. QED
      BY <1>7, <2>6, <2>8, <2>11
  <1>8. QED
    BY <1>5, <1>6, <1>7

LEMMA DeleteKeeps ==
    ASSUME InOrder, NEW k \in Keys, Delete(k), ~rawFreed'
    PROVE  /\ InOrder' /\ Drops(bucket, bucket', k)
           /\ usedSize' = usedSize - 1 /\ k \in Found
  <1>. DEFINE W == Trails(bucket)
              h == Hit(k)
  <1>1. /\ Table(bucket, W) /\ Lending(brk, delayed, free, W) /\ usedSize = Cardinality(Taken(bucket))
        /\ W = [r \in Raw |-> W[r]]
        /\ k \in Found /\ usedSize' = usedSize - 1 /\ UNCHANGED <<brk, free>>
    BY DEF InOrder, Trails, Delete
  <1>2. h \in Bucket /\ HoldsIn(bucket, h, k) /\ h \in Taken(bucket)
    BY <1>1, Searched DEF Taken, HoldsIn
  <1>3. IsFiniteSet(Taken(bucket)) /\ Cardinality(Taken(bucket)) \in Nat
    BY TakenFinite
  <1>4. \A b \in Taken(bucket) : Cardinality(Taken(bucket) \ {b}) = usedSize'
    BY <1>1, <1>3, FS_RemoveElement
  <1>. HIDE DEF W, h
  <1>5. CASE h \notin Raw
    <2>1. bucket' = [bucket EXCEPT ![h].occupied = FALSE] /\ UNCHANGED delayed
      BY <1>5 DEF Delete, DeleteOverflow, h
    <2>2. Table(bucket', W) /\ Drops(bucket, bucket', k) /\ Taken(bucket') = Taken(bucket) \ {h}
      BY <1>1, <1>2, <2>1, OverflowDeleted
    <2>3. Lending(brk', delayed', free', W) /\ usedSize' = Cardinality(Taken(bucket'))
      BY <1>1, <1>2, <1>4, <2>1, <2>2
    <2>4. QED
      BY <1>1, <2>2, <2>3, OrderAgain
  <1>6. CASE h \in Raw /\ bucket[h].next < BucketNum
    <2>1. ~(bucket[h].next >= BucketNum)
      <3>1. bucket[h].next \in Bucket
        BY <1>1, <1>2, Nexts DEF Table
      <3>2. QED
        BY <1>6, <3>1, Constants DEF Bucket
    <2>2. bucket' = [bucket EXCEPT ![h] = Cleared] /\ Free(h)
      BY <1>6, <2>1 DEF Delete, DeleteRaw, h
    <2>3. UNCHANGED delayed
      BY <1>6, <2>2 DEF Free
    <2>4. Table(bucket', W) /\ Drops(bucket, bucket', k) /\ Taken(bucket') = Taken(bucket) \ {h}
      BY <1>1, <1>2, <1>6, <2>2, RawCleared
    <2>5. Lending(brk', delayed', free', W) /\ usedSize' = Cardinality(Taken(bucket'))
      BY <1>1, <1>2, <1>4, <2>3, <2>4
    <2>6. QED
      BY <1>1, <2>4, <2>5, OrderAgain
  <1>7. CASE h \in Raw /\ bucket[h].next >= BucketNum
    <2>. DEFINE n == bucket[h].next
                W2 == [W EXCEPT ![h] = Pulled(@)]
    <2>1. bucket' = [bucket EXCEPT ![h] = bucket[n], ![n] = Cleared] /\ Free(n)
      BY <1>7 DEF Delete, DeleteRaw, h
    <2>2. /\ Table(bucket', W2) /\ Drops(bucket, bucket', k)
          /\ Taken(bucket') = (IF bucket[n].occupied THEN Taken(bucket) \ {n} ELSE Taken(bucket) \ {h})
          /\ 2 \in 1 .. Len(W[h]) /\ W[h][2] = n /\ n \in Bucket /\ Loose(n, W2)
          /\ \A s \in Raw : \A i \in 1 .. Len(W2[s]) : \E j \in 1 .. Len(W[s]) : W2[s][i] = W[s][j]
      BY <1>1, <1>2, <1>7, <2>1, SecondPulled
    <2>3. usedSize' = Cardinality(Taken(bucket'))
      BY <1>2, <1>4, <2>2 DEF Taken
    <2>4. W2 = [s \in Raw |-> W2[s]]
      BY <1>1
    <2>5. Lending(brk, delayed (+) SetToBag({n}), free, W2) /\ Lending(brk, delayed, free, W2)
      <3>1. \E r \in Raw : \E i \in 1 .. Len(W[r]) : W[r][i] = n
        BY <1>7, <2>2
      <3>2. n >= BucketNum
        BY <1>7
      <3>3. /\ n \in Bucket /\ Loose(n, W2)
            /\ \A s \in Raw : \A i \in 1 .. Len(W2[s]) : \E j \in 1 .. Len(W[s]) : W2[s][i] = W[s][j]
        BY <2>2
      <3>. HIDE DEF n, W2
      <3>4. QED
        BY <1>1, <3>1, <3>2, <3>3, FreedOne
    <2>6. Lending(brk', delayed', free', W2)
      BY <1>1, <2>1, <2>5 DEF Free
    <2>. HIDE DEF W2
    <2>7. InOrder'
      BY <2>2, <2>3, <2>4, <2>6, OrderAgain
    <2>8. QED
      BY <1>1, <2>2, <2>7
  <1>8. bucket[h].next < BucketNum \/ bucket[h].next >= BucketNum
    <2>1. bucket[h].next \in Bucket
      BY <1>1, <1>2, Nexts DEF Table
    <2>2. QED
      BY <2>1, Constants DEF Bucket
  <1>9. QED
    BY <1>5, <1>6, <1>7, <1>8

LEMMA PoolKeeps ==
    ASSUME InOrder,
           \/ \E b \in Bucket : DelayedFree(b)
           \/ \E released \in BOOLEAN, use \in FreeListModes : Restart(released, use)
    PROVE  InOrder' /\ UNCHANGED <<bucket, usedSize>>
  <1>. DEFINE W == Trails(bucket)
  <1>1. /\ Table(bucket, W) /\ Lending(brk, delayed, free, W) /\ usedSize = Cardinality(Taken(bucket))
        /\ W = [r \in Raw |-> W[r]] /\ UNCHANGED <<bucket, brk, usedSize>>
    BY DEF InOrder, Trails, DelayedFree, Restart
  <1>. HIDE DEF W
  <1>2. Lending(brk', delayed', free', W)
    <2>1. CASE \E b \in Bucket : DelayedFree(b)
      <3>1. PICK b \in Bucket : DelayedFree(b)
        BY <2>1
      <3>2. /\ b \in DOMAIN delayed
            /\ delayed' = delayed (-) SetToBag({b}) /\ free' = free (+) SetToBag({b})
        BY <3>1 DEF DelayedFree, BagIn, BagToSet
      <3>3. QED
        BY <1>1, <3>2, FreedLater
    <2>2. CASE \E released \in BOOLEAN, use \in FreeListModes : Restart(released, use)
      <3>1. delayed' = EmptyBag /\ (free' = free (+) delayed \/ free' = EmptyBag)
        BY <2>2 DEF Restart
      <3>2. QED
        BY <1>1, <3>1, Reopened
    <2>3. QED
      BY <2>1, <2>2
  <1>3. usedSize' = Cardinality(Taken(bucket')) /\ Table(bucket', W)
    BY <1>1
  <1>4. QED
    BY <1>1, <1>2, <1>3, OrderAgain

LEMMA StepKeeps ==
    ASSUME HInv, [Next]_vars
    PROVE  HInv'
  <1>. SUFFICES ASSUME ~rawFreed' PROVE InOrder'
    BY DEF HInv
  <1>1. CASE UNCHANGED vars
    BY <1>1 DEF vars, pool, HInv, InOrder, Trails
  <1>2. ASSUME NEW k \in Keys, NEW v \in Values, Insert(k, v) PROVE InOrder'
    <2>1. InOrder
      BY <1>2 DEF HInv, Insert
    <2>2. QED
      BY <1>2, <2>1, InsertKeeps
  <1>3. ASSUME NEW k \in Keys, Delete(k) PROVE InOrder'
    <2>1. ~rawFreed
      BY <1>3, Zenon DEF Delete, DeleteRaw, DeleteOverflow, Free
    <2>2. QED
      BY <1>3, <2>1, DeleteKeeps DEF HInv
  <1>4. CASE \/ \E b \in Bucket : DelayedFree(b)
             \/ \E released \in BOOLEAN, use \in FreeListModes : Restart(released, use)
    <2>1. InOrder
      BY <1>4 DEF HInv, DelayedFree, Restart
    <2>2. QED
      BY <1>4, <2>1, PoolKeeps
  <1>5. QED
    BY <1>1, <1>2, <1>3, <1>4 DEF Next

LEMMA InitKeeps == Init => HInv
  <1>. SUFFICES ASSUME Init PROVE InOrder
    BY DEF HInv
  <1>. DEFINE B == [b \in Bucket |-> Cleared]
              W == [r \in Raw |-> <<r>>]
  <1>1. /\ bucket = B /\ brk = BucketNum /\ delayed = EmptyBag /\ free = EmptyBag /\ usedSize = 0
    BY DEF Init
  <1>2. Table(B, W) /\ Taken(B) = {}
    BY EmptyTable
  <1>3. W = [r \in Raw |-> W[r]]
    OBVIOUS
  <1>4. Trails(bucket) = W
    <2>. HIDE DEF B, W
    <2>1. QED
      BY <1>1, <1>2, <1>3, TrailsAre DEF Table
  <1>5. Lending(BucketNum, EmptyBag, EmptyBag, W)
    <2>1. /\ BucketNum \in Nat /\ MaxBuckets \in Nat /\ BucketNum <= MaxBuckets
          /\ \A r \in Raw : r \in Int /\ r < BucketNum
      BY Constants DEF Raw
    <2>2. \A r \in Raw : \A i \in 1 .. Len(W[r]) : W[r][i] < BucketNum
      BY <2>1
    <2>. HIDE DEF W
    <2>3. QED
      BY <2>1, <2>2, BagNone DEF Lending
  <1>. HIDE DEF B, W
  <1>6. usedSize = Cardinality(Taken(bucket))
    BY <1>1, <1>2, FS_EmptySet
  <1>7. QED
    BY <1>1, <1>2, <1>4, <1>5, <1>6 DEF InOrder

\* Until a raw bucket is freed the chains are whole, apart and ordered by their hashes, and
\* what is not in one is the pool's (Insert, Delete, Load, Release).
THEOREM Invariant == Spec => []HInv
  BY InitKeeps, StepKeeps, PTL DEF Spec

-----------------------------------------------------------------------------
(* The chains stay apart, and the recycled buckets out of them *)

\* Before the pool that reuses blocks is given a raw bucket, every bucket is in one chain,
\* loose in the pool, or not yet carved off, and nothing is in the pool twice: whatever
\* the number of buckets, the keys and their hashes (Insert, Delete, Alloc, Free).
THEOREM BucketsApart == Spec => []RecycledApart
  <1>1. ASSUME HInv PROVE RecycledApart
    <2>. SUFFICES ASSUME ~rawFreed
                  PROVE  /\ ChainsApart
                         /\ \A b \in BagToSet(Lent) : Lent[b] = 1
                         /\ \A r \in Raw : Range(Walk(r)) \cap BagToSet(Lent) = {}
      BY DEF RecycledApart
    <2>. DEFINE W == Trails(bucket)
    <2>1. Table(bucket, W) /\ Lending(brk, delayed, free, W)
      BY <1>1 DEF HInv, InOrder
    <2>2. Typed(bucket) /\ Chains(bucket, W) /\ Apart(W) /\ Kept(bucket, W)
      BY <2>1 DEF Table
    <2>3. ASSUME NEW r \in Raw
          PROVE  /\ Walk(r) = W[r] /\ W[r] \in Seq(Bucket) /\ DOMAIN W[r] = 1 .. Len(W[r])
                 /\ \A i \in 1 .. Len(W[r]) : W[r][i] \in Bucket
                 /\ Range(Walk(r)) = {W[r][i] : i \in 1 .. Len(W[r])}
      <3>1. Walk(r) = W[r] /\ W[r] \in Seq(Bucket) /\ \A i \in 1 .. Len(W[r]) : W[r][i] \in Bucket
        BY <2>2, ChainFacts, WalkIs DEF Trails
      <3>. DEFINE c == W[r]
      <3>2. DOMAIN c = 1 .. Len(c)
        <4>. HIDE DEF c
        <4>. QED
          BY <3>1 DEF c
      <3>3. QED
        BY <3>1, <3>2 DEF Range
    <2>. HIDE DEF W
    <2>4. ASSUME NEW r \in Raw
          PROVE  /\ IsInjective(Walk(r))
                 /\ \A i \in DOMAIN Walk(r) :
                       bucket[Walk(r)[i]].occupied => Hash[bucket[Walk(r)[i]].key] = r
      <3>1. IsInjective(W[r])
        BY <2>2, <2>3 DEF IsInjective, Apart
      <3>2. ASSUME NEW i \in 1 .. Len(W[r]), bucket[W[r][i]].occupied
            PROVE  Hash[bucket[W[r][i]].key] = r
        <4>. DEFINE b == W[r][i]
                    s == Hash[bucket[b].key]
        <4>1. b \in Bucket
          BY <2>3
        <4>2. bucket[b].key \in Keys /\ \E j \in 1 .. Len(W[s]) : W[s][j] = b
          BY <2>2, <3>2, <4>1 DEF Kept
        <4>3. s \in Raw
          BY <4>2, Constants
        <4>. HIDE DEF s
        <4>4. s = r
          BY <2>2, <4>2, <4>3 DEF Apart
        <4>5. QED
          BY <4>4 DEF s
      <3>3. QED
        BY <2>3, <3>1, <3>2
    <2>5. ASSUME NEW r \in Raw, NEW s \in Raw, r # s
          PROVE  Range(Walk(r)) \cap Range(Walk(s)) = {}
      BY <2>2, <2>3, <2>5 DEF Apart
    <2>6. /\ IsABag(delayed) /\ IsABag(free)
          /\ \A b \in DOMAIN delayed : delayed[b] = 1 /\ Loose(b, W) /\ b \notin DOMAIN free
          /\ \A b \in DOMAIN free : free[b] = 1 /\ Loose(b, W)
      BY <2>1 DEF Lending
    <2>7. /\ DOMAIN Lent = DOMAIN delayed \cup DOMAIN free
          /\ \A b \in DOMAIN delayed : Lent[b] = delayed[b]
          /\ \A b \in DOMAIN free : Lent[b] = free[b]
      BY <2>6, BagJoin DEF Lent
    <2>8. \A b \in BagToSet(Lent) : Lent[b] = 1 /\ Loose(b, W)
      BY <2>6, <2>7 DEF BagToSet
    <2>9. \A r \in Raw : Range(Walk(r)) \cap BagToSet(Lent) = {}
      BY <2>3, <2>8 DEF Loose
    <2>10. ChainsApart
      BY <2>4, <2>5 DEF ChainsApart
    <2>11. QED
      BY <2>8, <2>9, <2>10
  <1>2. QED
    BY <1>1, Invariant, PTL

-----------------------------------------------------------------------------
(* The table is a map with a size *)

SearchOf(B, k) == LET b == Find(B, k) IN IF b = Null THEN -1 ELSE B[b].value
MapOf(B) == [k \in Keys |-> SearchOf(B, k)]

LEMMA SearchIs ==
    /\ [k \in Keys |-> Search(k)] = MapOf(bucket)
    /\ [k \in Keys |-> Search(k)]' = MapOf(bucket')
  BY HitIs DEF Search, SearchOf, MapOf

LEMMA Mapped ==
    ASSUME NEW B, NEW W, Table(B, W), NEW k \in Keys
    PROVE  /\ SearchOf(B, k) = -1 \/ (SearchOf(B, k) \in Nat /\ Content(B, k, SearchOf(B, k)))
           /\ \A x \in Nat : Content(B, k, x) => SearchOf(B, k) = x
           /\ (SearchOf(B, k) = -1) <=> (Find(B, k) = Null)
  <1>1. Null \notin Bucket /\ Null = -1
    BY Constants DEF Null, Bucket
  <1>2. /\ \A b \in Bucket : HoldsIn(B, b, k) => Find(B, k) = b
        /\ Find(B, k) # Null => Find(B, k) \in Bucket /\ HoldsIn(B, Find(B, k), k)
    BY FindIs
  <1>3. \A b \in Bucket : B[b].value \in Nat
    BY DEF Table, Typed
  <1>4. CASE Find(B, k) = Null
    <2>1. SearchOf(B, k) = -1
      BY <1>4 DEF SearchOf
    <2>2. \A x \in Nat : ~Content(B, k, x)
      BY <1>1, <1>2, <1>4 DEF Content
    <2>3. QED
      BY <1>4, <2>1, <2>2
  <1>5. CASE Find(B, k) # Null
    <2>1. SearchOf(B, k) = B[Find(B, k)].value
      BY <1>5 DEF SearchOf
    <2>2. SearchOf(B, k) \in Nat /\ Content(B, k, SearchOf(B, k))
      BY <1>2, <1>3, <1>5, <2>1 DEF Content
    <2>3. \A x \in Nat : Content(B, k, x) => SearchOf(B, k) = x
      BY <1>2, <2>1 DEF Content
    <2>4. SearchOf(B, k) # -1
      BY <2>2
    <2>5. QED
      BY <1>5, <2>2, <2>3, <2>4
  <1>6. QED
    BY <1>4, <1>5

LEMMA PutsMap ==
    ASSUME NEW B, NEW W, Table(B, W), NEW B2, NEW W2, Table(B2, W2), NEW k \in Keys, NEW v \in Nat,
           Puts(B, B2, k, v)
    PROVE  MapOf(B2) = [MapOf(B) EXCEPT ![k] = v]
  <1>1. SearchOf(B2, k) = v
    BY Mapped DEF Puts
  <1>2. ASSUME NEW j \in Keys, j # k PROVE SearchOf(B2, j) = SearchOf(B, j)
    <2>1. \A x \in Nat : Content(B2, j, x) <=> Content(B, j, x)
      BY <1>2 DEF Puts
    <2>2. /\ SearchOf(B, j) = -1 \/ (SearchOf(B, j) \in Nat /\ Content(B, j, SearchOf(B, j)))
          /\ \A x \in Nat : Content(B, j, x) => SearchOf(B, j) = x
      BY Mapped
    <2>3. /\ SearchOf(B2, j) = -1 \/ (SearchOf(B2, j) \in Nat /\ Content(B2, j, SearchOf(B2, j)))
          /\ \A x \in Nat : Content(B2, j, x) => SearchOf(B2, j) = x
      BY Mapped
    <2>4. QED
      BY <2>1, <2>2, <2>3
  <1>3. QED
    BY <1>1, <1>2 DEF MapOf

LEMMA DropsMap ==
    ASSUME NEW B, NEW W, Table(B, W), NEW B2, NEW W2, Table(B2, W2), NEW k \in Keys,
           Drops(B, B2, k)
    PROVE  MapOf(B2) = [MapOf(B) EXCEPT ![k] = -1]
  <1>1. SearchOf(B2, k) = -1
    BY Mapped DEF Drops
  <1>2. ASSUME NEW j \in Keys, j # k PROVE SearchOf(B2, j) = SearchOf(B, j)
    <2>1. \A x \in Nat : Content(B2, j, x) <=> Content(B, j, x)
      BY <1>2 DEF Drops
    <2>2. /\ SearchOf(B, j) = -1 \/ (SearchOf(B, j) \in Nat /\ Content(B, j, SearchOf(B, j)))
          /\ \A x \in Nat : Content(B, j, x) => SearchOf(B, j) = x
      BY Mapped
    <2>3. /\ SearchOf(B2, j) = -1 \/ (SearchOf(B2, j) \in Nat /\ Content(B2, j, SearchOf(B2, j)))
          /\ \A x \in Nat : Content(B2, j, x) => SearchOf(B2, j) = x
      BY Mapped
    <2>4. QED
      BY <2>1, <2>2, <2>3
  <1>3. QED
    BY <1>1, <1>2 DEF MapOf

\* Every call to the table is one to the map, and what the pool does is none.
LEMMA StepRefines ==
    ASSUME HInv, [Next]_vars, ~rawFreed'
    PROVE  \/ \E k \in Keys, v \in Values : /\ MapOf(bucket') = [MapOf(bucket) EXCEPT ![k] = v]
                                            /\ usedSize' = IF MapOf(bucket)[k] = -1 THEN usedSize + 1
                                                                                    ELSE usedSize
           \/ \E k \in Keys : /\ MapOf(bucket') = [MapOf(bucket) EXCEPT ![k] = -1]
                              /\ MapOf(bucket)[k] # -1 /\ usedSize' = usedSize - 1
           \/ MapOf(bucket') = MapOf(bucket) /\ usedSize' = usedSize
  <1>1. CASE UNCHANGED vars
    BY <1>1 DEF vars
  <1>2. InOrder' /\ Table(bucket', Trails(bucket'))
    BY StepKeeps DEF HInv, InOrder
  <1>3. ASSUME InOrder, NEW k \in Keys
        PROVE  Table(bucket, Trails(bucket)) /\ (k \in Found <=> MapOf(bucket)[k] # -1)
    <2>1. Table(bucket, Trails(bucket))
      BY <1>3 DEF InOrder
    <2>2. SearchOf(bucket, k) = -1 <=> Find(bucket, k) = Null
      BY <2>1, Mapped
    <2>3. MapOf(bucket)[k] = SearchOf(bucket, k)
      BY DEF MapOf
    <2>4. k \in Found <=> Find(bucket, k) # Null
      BY <1>3, Searched, HitIs
    <2>5. QED
      BY <2>1, <2>2, <2>3, <2>4
  <1>4. CASE \E k \in Keys, v \in Values : Insert(k, v)
    <2>1. PICK k \in Keys, v \in Values : Insert(k, v)
      BY <1>4
    <2>2. InOrder
      BY <2>1 DEF HInv, Insert
    <2>3. v \in Nat
      BY Constants
    <2>4. Puts(bucket, bucket', k, v) /\ usedSize' = IF k \in Found THEN usedSize ELSE usedSize + 1
      BY <2>1, <2>2, InsertKeeps
    <2>5. MapOf(bucket') = [MapOf(bucket) EXCEPT ![k] = v]
      BY <1>2, <1>3, <2>2, <2>3, <2>4, PutsMap
    <2>6. k \in Found <=> MapOf(bucket)[k] # -1
      BY <1>3, <2>2
    <2>7. usedSize' = IF MapOf(bucket)[k] = -1 THEN usedSize + 1 ELSE usedSize
      BY <2>4, <2>6
    <2>8. QED
      BY <2>5, <2>7
  <1>5. CASE \E k \in Keys : Delete(k)
    <2>1. PICK k \in Keys : Delete(k)
      BY <1>5
    <2>2. InOrder
      <3>1. ~rawFreed
        BY <2>1, Zenon DEF Delete, DeleteRaw, DeleteOverflow, Free
      <3>2. QED
        BY <3>1 DEF HInv
    <2>3. Drops(bucket, bucket', k) /\ usedSize' = usedSize - 1 /\ k \in Found
      BY <2>1, <2>2, DeleteKeeps
    <2>4. MapOf(bucket') = [MapOf(bucket) EXCEPT ![k] = -1]
      BY <1>2, <1>3, <2>2, <2>3, DropsMap
    <2>5. MapOf(bucket)[k] # -1
      BY <1>3, <2>2, <2>3
    <2>6. QED
      BY <2>3, <2>4, <2>5
  <1>6. CASE \/ \E b \in Bucket : DelayedFree(b)
             \/ \E released \in BOOLEAN, use \in FreeListModes : Restart(released, use)
    <2>1. UNCHANGED <<bucket, usedSize>>
      BY <1>6 DEF DelayedFree, Restart
    <2>2. QED
      BY <2>1
  <1>7. QED
    BY <1>1, <1>4, <1>5, <1>6 DEF Next

\* As long as no raw bucket is given to a pool that reuses blocks, the table implements
\* the index: Insert, Delete and Search are those of a map, GetSize the number of its keys,
\* and the delayed frees and a restart change nothing of it.
THEOREM IsAnIndex == Spec /\ []~rawFreed => RefinesIndex
  <1>1. Init => Index!Init
    <2>. SUFFICES ASSUME Init PROVE Index!Init
      OBVIOUS
    <2>1. InOrder /\ usedSize = 0 /\ bucket = [b \in Bucket |-> Cleared]
      BY InitKeeps DEF HInv, Init
    <2>2. \A b \in Bucket : ~bucket[b].occupied
      BY <2>1 DEF Cleared
    <2>3. \A k \in Keys : Hit(k) = Null
      BY <2>1, <2>2, Searched DEF HoldsIn
    <2>4. \A k \in Keys : Search(k) = -1
      BY <2>3 DEF Search
    <2>5. QED
      BY <2>1, <2>4 DEF Index!Init
  <1>2. HInv /\ ~rawFreed /\ ~rawFreed' /\ [Next]_vars
           => [Index!Next]_<<[k \in Keys |-> Search(k)], usedSize>>
    <2>. SUFFICES ASSUME HInv, ~rawFreed', [Next]_vars
                  PROVE  Index!Next \/ UNCHANGED <<[k \in Keys |-> Search(k)], usedSize>>
      OBVIOUS
    <2>. DEFINE map == [k \in Keys |-> Search(k)]
    <2>1. map = MapOf(bucket) /\ map' = MapOf(bucket')
      BY SearchIs
    <2>2. CASE \E k \in Keys, v \in Values :
                  /\ MapOf(bucket') = [MapOf(bucket) EXCEPT ![k] = v]
                  /\ usedSize' = IF MapOf(bucket)[k] = -1 THEN usedSize + 1 ELSE usedSize
      <3>1. PICK k \in Keys, v \in Values :
                  /\ map' = [map EXCEPT ![k] = v]
                  /\ usedSize' = IF map[k] = -1 THEN usedSize + 1 ELSE usedSize
        BY <2>1, <2>2, Zenon
      <3>2. Index!Insert(k, v)
        BY <3>1, Zenon DEF Index!Insert
      <3>3. QED
        BY <3>2, Zenon DEF Index!Next
    <2>3. CASE \E k \in Keys : /\ MapOf(bucket') = [MapOf(bucket) EXCEPT ![k] = -1]
                               /\ MapOf(bucket)[k] # -1 /\ usedSize' = usedSize - 1
      <3>1. PICK k \in Keys : /\ map' = [map EXCEPT ![k] = -1]
                              /\ map[k] # -1 /\ usedSize' = usedSize - 1
        BY <2>1, <2>3, Zenon
      <3>2. Index!Delete(k)
        BY <3>1, Zenon DEF Index!Delete
      <3>3. QED
        BY <3>2, Zenon DEF Index!Next
    <2>4. CASE MapOf(bucket') = MapOf(bucket) /\ usedSize' = usedSize
      BY <2>1, <2>4, Zenon
    <2>5. QED
      BY <2>2, <2>3, <2>4, StepRefines
  <1>3. QED
    BY <1>1, <1>2, Invariant, PTL DEF Spec, RefinesIndex, Index!Spec

-----------------------------------------------------------------------------
(* The iteration *)

\* The order of the iteration: c is behind the i-th place of the chain of r.
Behind(W, r, i, c) == \E s \in Raw : \E j \in 1 .. Len(W[s]) :
    c = W[s][j] /\ (r < s \/ (r = s /\ i < j))
Order(B, W) == {p \in Taken(B) \X Taken(B) :
    \E r \in Raw : \E i \in 1 .. Len(W[r]) : p[1] = W[r][i] /\ Behind(W, r, i, p[2])}

LEMMA MinIs ==
    ASSUME NEW T \in SUBSET Nat, T # {}
    PROVE  Min(T) \in T /\ \A k \in T : Min(T) <= k
  <1>1. \E m \in T : \A k \in T : m <= k
    BY LeastNatural
  <1>2. QED
    BY <1>1 DEF Min

LEMMA RawOrdered == \A r \in Raw : r \in Nat /\ r < BucketNum
  BY Constants DEF Raw

LEMMA Placed ==
    ASSUME NEW B, NEW W, Table(B, W), NEW b \in Taken(B)
    PROVE  \E r \in Raw : \E i \in 1 .. Len(W[r]) : b = W[r][i]
  BY Constants DEF Table, Kept, Taken

LEMMA OrderStrict ==
    ASSUME NEW B, NEW W, Table(B, W)
    PROVE  StrictOrder(Taken(B), Order(B, W))
  <1>1. Apart(W)
    BY DEF Table
  <1>2. ASSUME NEW r \in Raw, NEW i \in 1 .. Len(W[r]), NEW c, NEW s \in Raw, NEW j \in 1 .. Len(W[s]),
               c = W[s][j]
        PROVE  Behind(W, r, i, c) <=> r < s \/ (r = s /\ i < j)
    BY <1>1, <1>2 DEF Behind, Apart
  <1>3. ASSUME NEW b \in Taken(B) PROVE <<b, b>> \notin Order(B, W)
    <2>. SUFFICES ASSUME NEW r \in Raw, NEW i \in 1 .. Len(W[r]), b = W[r][i]
                  PROVE  ~Behind(W, r, i, b)
      BY DEF Order
    <2>1. ~(r < r \/ (r = r /\ i < i))
      BY RawOrdered
    <2>2. QED
      BY <1>2, <2>1
  <1>4. ASSUME NEW a \in Taken(B), NEW b \in Taken(B), NEW c \in Taken(B),
               <<a, b>> \in Order(B, W), <<b, c>> \in Order(B, W)
        PROVE  <<a, c>> \in Order(B, W)
    <2>1a. PICK r \in Raw : \E i \in 1 .. Len(W[r]) : a = W[r][i] /\ Behind(W, r, i, b)
      BY <1>4 DEF Order
    <2>1. PICK i \in 1 .. Len(W[r]) : a = W[r][i] /\ Behind(W, r, i, b)
      BY <2>1a
    <2>2a. PICK s \in Raw : \E j \in 1 .. Len(W[s]) : b = W[s][j] /\ Behind(W, s, j, c)
      BY <1>4 DEF Order
    <2>2. PICK j \in 1 .. Len(W[s]) : b = W[s][j] /\ Behind(W, s, j, c)
      BY <2>2a
    <2>3a. PICK t \in Raw : \E k \in 1 .. Len(W[t]) : c = W[t][k] /\ (s < t \/ (s = t /\ j < k))
      BY <2>2 DEF Behind
    <2>3. PICK k \in 1 .. Len(W[t]) : c = W[t][k] /\ (s < t \/ (s = t /\ j < k))
      BY <2>3a
    <2>4. r < s \/ (r = s /\ i < j)
      BY <1>2, <2>1, <2>2
    <2>5. r < t \/ (r = t /\ i < k)
      BY <2>3, <2>4, RawOrdered
    <2>6. Behind(W, r, i, c)
      BY <2>3, <2>5 DEF Behind
    <2>7. QED
      BY <2>1, <2>6 DEF Order
  <1>5. QED
    BY <1>3, <1>4 DEF StrictOrder

\* What the operators of GetNextElement are at a place of a chain.
LEMMA AtPlace ==
    ASSUME InOrder, NEW W, W = Trails(bucket), NEW r \in Raw, NEW i \in 1 .. Len(W[r])
    PROVE  /\ \A n \in 1 .. Len(W[r]) - i + 1 :
                 i + n - 1 \in 1 .. Len(W[r]) /\ Walk(W[r][i])[n] = W[r][i + n - 1]
           /\ \A n : n \in Occupied(W[r][i])
                      <=> n \in 1 .. Len(W[r]) - i + 1 /\ bucket[W[r][i + n - 1]].occupied
           /\ Home(W[r][i]) = r
  <1>. DEFINE c == W[r]
              w == Walk(c[i])
  <1>1. Typed(bucket) /\ Chains(bucket, W)
    BY DEF InOrder, Table
  <1>2. /\ Chain(bucket, c) /\ c \in Seq(Bucket) /\ Len(c) \in Nat /\ c[1] = r
        /\ \A j \in 2 .. Len(c) : c[j] \notin Raw
        /\ Len(c) > 1 => bucket[c[Len(c)]].next = r
    BY <1>1, ChainFacts
  <1>3. w = Suffix(c, i)
    BY <1>1, <1>2, Nexts, TrailFrom, WalkIs
  <1>. HIDE DEF c, w
  <1>4. i \in 1 .. Len(c) /\ i \in Nat
    BY <1>2 DEF c
  <1>5. /\ w \in Seq(Bucket) /\ Len(w) = Len(c) - i + 1 /\ DOMAIN w = 1 .. Len(c) - i + 1
        /\ \A n \in 1 .. Len(c) - i + 1 : i + n - 1 \in 1 .. Len(c) /\ w[n] = c[i + n - 1]
    <2>1. \A n \in 1 .. Len(c) - i + 1 : i + n - 1 \in 1 .. Len(c)
      BY <1>2, <1>4
    <2>2. \A n \in 1 .. Len(c) - i + 1 : c[i + n - 1] \in Bucket
      BY <1>2, <2>1
    <2>3. QED
      BY <1>2, <1>3, <1>4, <2>1, <2>2 DEF Suffix
  <1>6. \A n : n \in Occupied(c[i])
               <=> n \in 1 .. Len(c) - i + 1 /\ bucket[c[i + n - 1]].occupied
    BY <1>5 DEF Occupied, w
  <1>7. Last(w) = c[Len(c)]
    <2>1. Len(w) \in 1 .. Len(c) - i + 1 /\ i + Len(w) - 1 = Len(c)
      BY <1>2, <1>4, <1>5
    <2>2. QED
      BY <1>5, <2>1 DEF Last
  <1>8. Home(c[i]) = r
    <2>1. Home(c[i]) = IF c[Len(c)] \in Raw THEN c[Len(c)] ELSE bucket[c[Len(c)]].next
      <3>1. Home(c[i]) = IF Last(w) \in Raw THEN Last(w) ELSE bucket[Last(w)].next
        BY DEF Home, w
      <3>2. QED
        BY <1>7, <3>1
    <2>2. CASE Len(c) = 1
      <3>1. c[Len(c)] = r
        BY <1>2, <2>2
      <3>2. QED
        BY <2>1, <3>1, Zenon
    <2>3. CASE Len(c) > 1
      <3>1. Len(c) \in 2 .. Len(c)
        BY <1>2, <2>3
      <3>2. c[Len(c)] \notin Raw
        BY <1>2, <3>1
      <3>3. bucket[c[Len(c)]].next = r
        BY <1>2, <2>3
      <3>4. QED
        BY <2>1, <3>2, <3>3, Zenon
    <2>4. Len(c) = 1 \/ Len(c) > 1
      <3>1. Len(c) \in Nat /\ Len(c) >= 1
        BY <1>1, ChainFacts DEF c
      <3>2. \A n \in Nat : n >= 1 => n = 1 \/ n > 1
        OBVIOUS
      <3>3. QED
        BY <3>1, <3>2, Zenon
    <2>5. QED
      BY <2>2, <2>3, <2>4, Zenon
  <1>9. QED
    BY <1>5, <1>6, <1>8 DEF c, w

\* GetNextElement goes to the first occupied bucket behind, if there is one.
LEMMA NextIs ==
    ASSUME InOrder, NEW W, W = Trails(bucket), NEW r \in Raw, NEW i \in 1 .. Len(W[r])
    PROVE  \/ /\ NextElement(W[r][i]) = Null
              /\ \A c \in Taken(bucket) : ~Behind(W, r, i, c)
           \/ \E s \in Raw : \E j \in 1 .. Len(W[s]) :
                 /\ NextElement(W[r][i]) = W[s][j] /\ W[s][j] \in Taken(bucket)
                 /\ r < s \/ (r = s /\ i < j)
                 /\ \A c \in Taken(bucket) : Behind(W, r, i, c) => c = W[s][j] \/ Behind(W, s, j, c)
  <1>. DEFINE b == W[r][i]
              rest == Occupied(b) \ {1}
              later == {s \in Raw : s > Home(b) /\ Occupied(s) # {}}
              first == Min(later)
  <1>1. Typed(bucket) /\ Chains(bucket, W) /\ Apart(W)
    BY DEF InOrder, Table
  <1>2. \A s \in Raw : /\ Len(W[s]) \in Nat /\ Len(W[s]) >= 1 /\ W[s][1] = s
                       /\ \A j \in 1 .. Len(W[s]) : W[s][j] \in Bucket
    BY <1>1, ChainFacts
  <1>3. /\ \A n \in 1 .. Len(W[r]) - i + 1 : i + n - 1 \in 1 .. Len(W[r]) /\ Walk(b)[n] = W[r][i + n - 1]
        /\ \A n : n \in Occupied(b)
                   <=> n \in 1 .. Len(W[r]) - i + 1 /\ bucket[W[r][i + n - 1]].occupied
        /\ Home(b) = r
    BY AtPlace
  <1>4. ASSUME NEW s \in Raw
        PROVE  /\ \A j : j \in Occupied(s) <=> j \in 1 .. Len(W[s]) /\ bucket[W[s][j]].occupied
               /\ \A j \in 1 .. Len(W[s]) : Walk(s)[j] = W[s][j]
    <2>1. PICK o \in 1 .. Len(W[s]) : o = 1
      BY <1>2
    <2>2. /\ \A n \in 1 .. Len(W[s]) - o + 1 : Walk(W[s][o])[n] = W[s][o + n - 1]
          /\ \A n : n \in Occupied(W[s][o])
                     <=> n \in 1 .. Len(W[s]) - o + 1 /\ bucket[W[s][o + n - 1]].occupied
      BY <2>1, AtPlace
    <2>3. Len(W[s]) - o + 1 = Len(W[s]) /\ \A n \in 1 .. Len(W[s]) : o + n - 1 = n
      BY <1>2, <2>1
    <2>4. W[s][o] = s
      BY <1>2, <2>1
    <2>5. /\ \A n \in 1 .. Len(W[s]) : Walk(s)[n] = W[s][o + n - 1]
          /\ \A n : n \in Occupied(s) <=> n \in 1 .. Len(W[s]) /\ bucket[W[s][o + n - 1]].occupied
      <3>. DEFINE L == Len(W[s]) - o + 1
                  At(n) == W[s][o + n - 1]
      <3>1. /\ \A n \in 1 .. L : Walk(s)[n] = At(n)
            /\ \A n : n \in Occupied(s) <=> n \in 1 .. L /\ bucket[At(n)].occupied
        BY <2>2, <2>4, Zenon
      <3>2. L = Len(W[s])
        BY <2>3
      <3>. HIDE DEF L
      <3>3. QED
        BY <3>1, <3>2, Zenon
    <2>6. QED
      BY <2>3, <2>5
  <1>5. b # Null
    BY <1>2, Constants DEF Null, Bucket
  <1>6. NextElement(b) = IF rest # {} THEN Walk(b)[Min(rest)]
                         ELSE IF later # {} THEN Walk(first)[Min(Occupied(first))] ELSE Null
    BY <1>5 DEF NextElement
  <1>7. i \in Nat /\ i >= 1
    BY <1>2
  <1>8. ASSUME NEW c \in Taken(bucket), Behind(W, r, i, c)
        PROVE  \/ \E j \in 1 .. Len(W[r]) : c = W[r][j] /\ i < j /\ j - i + 1 \in rest
               \/ \E s \in later : \E j \in Occupied(s) : c = W[s][j] /\ r < s /\ j \in 1 .. Len(W[s])
    <2>1. PICK s \in Raw : \E j \in 1 .. Len(W[s]) : c = W[s][j] /\ (r < s \/ (r = s /\ i < j))
      BY <1>8 DEF Behind
    <2>2. PICK j \in 1 .. Len(W[s]) : c = W[s][j] /\ (r < s \/ (r = s /\ i < j))
      BY <2>1
    <2>3. bucket[W[s][j]].occupied
      BY <2>2 DEF Taken
    <2>4. CASE r < s
      <3>1. j \in Occupied(s)
        BY <1>4, <2>3
      <3>2. s \in later
        BY <1>3, <2>4, <3>1, RawOrdered
      <3>. HIDE DEF later
      <3>3. QED
        BY <2>2, <2>4, <3>1, <3>2
    <2>5. CASE r = s /\ i < j
      <3>1. j - i + 1 \in 1 .. Len(W[r]) - i + 1 /\ i + (j - i + 1) - 1 = j /\ j - i + 1 # 1
        BY <1>2, <1>7, <2>5
      <3>2. j - i + 1 \in rest
        BY <1>3, <2>3, <2>5, <3>1
      <3>. HIDE DEF rest
      <3>3. QED
        BY <2>2, <2>5, <3>2
    <2>6. QED
      BY <2>2, <2>4, <2>5
  <1>9. CASE rest # {}
    <2>1. rest \in SUBSET Nat
      BY <1>3
    <2>. DEFINE m == Min(rest)
                j == i + m - 1
    <2>2. m \in rest /\ \A n \in rest : m <= n
      <3>. HIDE DEF rest
      <3>. QED
        BY <1>9, <2>1, MinIs
    <2>3. m \in 1 .. Len(W[r]) - i + 1 /\ m # 1 /\ bucket[W[r][j]].occupied
      BY <1>3, <2>2
    <2>4. j \in 1 .. Len(W[r]) /\ i < j /\ Walk(b)[m] = W[r][j]
      <3>1. j \in 1 .. Len(W[r]) /\ Walk(b)[m] = W[r][j]
        <4>. HIDE DEF m
        <4>. QED
          BY <1>3, <2>3
      <3>2. m \in Nat /\ m > 1
        BY <1>2, <1>7, <2>3
      <3>3. i < j
        <4>. HIDE DEF m
        <4>. QED
          BY <1>7, <3>2
      <3>4. QED
        BY <3>1, <3>3
    <2>5. NextElement(b) = W[r][j]
      BY <1>6, <1>9, <2>4
    <2>6. W[r][j] \in Taken(bucket)
      BY <1>2, <2>3, <2>4 DEF Taken
    <2>7. ASSUME NEW c \in Taken(bucket), Behind(W, r, i, c) PROVE c = W[r][j] \/ Behind(W, r, j, c)
      <3>1. CASE \E k \in 1 .. Len(W[r]) : c = W[r][k] /\ i < k /\ k - i + 1 \in rest
        <4>1. PICK k \in 1 .. Len(W[r]) : c = W[r][k] /\ i < k /\ k - i + 1 \in rest
          BY <3>1
        <4>2. m <= k - i + 1
          <5>. HIDE DEF rest, m
          <5>. QED
            BY <2>2, <4>1
        <4>3. j = k \/ j < k
          BY <1>2, <1>7, <2>3, <4>2
        <4>4. QED
          BY <4>1, <4>3 DEF Behind
      <3>2. CASE \E s \in later : \E k \in Occupied(s) : c = W[s][k] /\ r < s /\ k \in 1 .. Len(W[s])
        BY <3>2 DEF Behind
      <3>3. QED
        BY <1>8, <2>7, <3>1, <3>2
    <2>. HIDE DEF rest, later, m, j
    <2>8. QED
      BY <2>4, <2>5, <2>6, <2>7 DEF b
  <1>10. CASE rest = {} /\ later # {}
    <2>1. later \in SUBSET Nat
      BY RawOrdered
    <2>2. first \in later /\ \A s \in later : first <= s
      <3>. HIDE DEF later
      <3>. QED
        BY <1>10, <2>1, MinIs
    <2>. DEFINE j == Min(Occupied(first))
    <2>3. first \in Raw /\ r < first /\ Occupied(first) # {}
      BY <1>3, <2>2, RawOrdered
    <2>. HIDE DEF first
    <2>4. Occupied(first) \in SUBSET Nat
      BY <1>4, <2>3
    <2>5. j \in Occupied(first) /\ \A k \in Occupied(first) : j <= k
      BY <2>3, <2>4, MinIs
    <2>6. j \in 1 .. Len(W[first]) /\ bucket[W[first][j]].occupied /\ Walk(first)[j] = W[first][j]
      BY <1>4, <2>3, <2>5
    <2>7. NextElement(b) = W[first][j]
      BY <1>6, <1>10, <2>6
    <2>8. W[first][j] \in Taken(bucket)
      BY <1>2, <2>3, <2>6 DEF Taken
    <2>9. ASSUME NEW c \in Taken(bucket), Behind(W, r, i, c)
          PROVE  c = W[first][j] \/ Behind(W, first, j, c)
      <3>1. PICK s \in later : \E k \in Occupied(s) : c = W[s][k] /\ r < s /\ k \in 1 .. Len(W[s])
        BY <1>8, <1>10, <2>9
      <3>2. PICK k \in Occupied(s) : c = W[s][k] /\ r < s /\ k \in 1 .. Len(W[s])
        BY <3>1
      <3>3. s \in Raw /\ first <= s
        BY <2>2, <3>1
      <3>4. s = first \/ first < s
        BY <2>3, <3>3, RawOrdered
      <3>5. CASE s = first
        <4>1. j <= k /\ j \in Nat /\ k \in Nat
          BY <2>4, <2>5, <3>2, <3>5
        <4>2. j = k \/ j < k
          BY <4>1
        <4>3. QED
          BY <2>3, <3>2, <3>5, <4>2 DEF Behind
      <3>6. CASE first < s
        BY <3>2, <3>3, <3>6 DEF Behind
      <3>7. QED
        BY <3>4, <3>5, <3>6
    <2>. HIDE DEF rest, later, j
    <2>10. QED
      BY <2>3, <2>6, <2>7, <2>8, <2>9 DEF b
  <1>11. CASE rest = {} /\ later = {}
    <2>1. NextElement(b) = Null
      BY <1>6, <1>11
    <2>2. \A c \in Taken(bucket) : ~Behind(W, r, i, c)
      BY <1>8, <1>11
    <2>3. QED
      BY <2>1, <2>2 DEF b
  <1>12. QED
    BY <1>9, <1>10, <1>11

\* The recursive function behind Iteration exists.
IterationOf(N, it) == it = [n \in 1 .. N |-> IF n = 1 THEN Begin ELSE NextElement(it[n - 1])]

LEMMA IterationIs == IterationOf(MaxBuckets + 1, Iteration)
  <1>. DEFINE T == {N \in Nat : ~ \E it : IterationOf(N, it)}
  <1>1. T = {}
    <2>. SUFFICES ASSUME T # {} PROVE FALSE
      OBVIOUS
    <2>1. PICK N \in T : \A j \in T : N <= j
      <3>1. T \in SUBSET Nat
        OBVIOUS
      <3>. HIDE DEF T
      <3>2. QED
        BY <3>1, LeastNatural
    <2>2. N # 0
      <3>1. IterationOf(0, [n \in 1 .. 0 |-> Null])
        BY DEF IterationOf
      <3>2. QED
        BY <2>1, <3>1
    <2>3. PICK w : IterationOf(N - 1, w)
      <3>1. N - 1 \in Nat /\ N - 1 \notin T
        BY <2>1, <2>2
      <3>2. QED
        BY <3>1
    <2>. DEFINE Value(n) == IF n = 1 THEN Begin ELSE NextElement(w[n - 1])
                v == [n \in 1 .. N |-> Value(n)]
    <2>4. \A n \in 1 .. N - 1 : n \in 1 .. N /\ v[n] = w[n]
      BY <2>3 DEF IterationOf
    <2>5. ASSUME NEW n \in 1 .. N
          PROVE  Value(n) = IF n = 1 THEN Begin ELSE NextElement(v[n - 1])
      <3>1. n # 1 => n - 1 \in 1 .. N - 1
        OBVIOUS
      <3>2. n # 1 => v[n - 1] = w[n - 1]
        BY <2>4, <3>1
      <3>3. QED
        BY <3>2
    <2>6. IterationOf(N, v)
      BY <2>5, Zenon DEF IterationOf
    <2>7. QED
      BY <2>1, <2>6
  <1>2. MaxBuckets + 1 \in Nat
    BY Constants
  <1>3. \E it : IterationOf(MaxBuckets + 1, it)
    BY <1>1, <1>2
  <1>4. Iteration = CHOOSE it : IterationOf(MaxBuckets + 1, it)
    BY DEF Iteration, IterationOf
  <1>5. QED
    BY <1>3, <1>4

\* It goes through the occupied buckets in order.
LEMMA IterationWalks ==
    ASSUME InOrder
    PROVE  WalksThrough(Taken(bucket), Order(bucket, Trails(bucket)), Null, Iteration, MaxBuckets)
  <1>. DEFINE W == Trails(bucket)
              T == Taken(bucket)
              R == Order(bucket, W)
              it == Iteration
  <1>1. Table(bucket, W) /\ usedSize = Cardinality(T)
    BY DEF InOrder
  <1>2. Typed(bucket) /\ Chains(bucket, W)
    BY <1>1 DEF Table
  <1>3. \A s \in Raw : Len(W[s]) \in Nat /\ Len(W[s]) >= 1 /\ W[s][1] = s
    BY <1>2, ChainFacts
  <1>4. MaxBuckets \in Nat /\ it = [n \in 1 .. MaxBuckets + 1 |->
                                      IF n = 1 THEN Begin ELSE NextElement(it[n - 1])]
    BY Constants, IterationIs DEF IterationOf
  <1>5. \A b \in T : \E r \in Raw : \E i \in 1 .. Len(W[r]) : b = W[r][i]
    BY <1>1, Placed
  <1>. HIDE DEF it, W
  <1>6. FirstOf(T, R, Null, it[1])
    <2>1. it[1] = Begin
      BY <1>4
    <2>2. CASE T = {}
      <3>1. usedSize = 0
        BY <1>1, <2>2, FS_EmptySet
      <3>2. QED
        BY <2>1, <2>2, <3>1 DEF Begin, FirstOf
    <2>3. CASE T # {}
      <3>1. usedSize # 0
        BY <1>1, <2>3, TakenFinite, FS_EmptySet
      <3>2. PICK o \in 1 .. Len(W[0]) : o = 1 /\ W[0][o] = 0
        BY <1>3, Constants
      <3>3. 0 \in Raw /\ 0 \in Bucket
        BY Constants
      <3>4. ASSUME NEW c \in T, c # 0 PROVE Behind(W, 0, o, c)
        <4>1. PICK r \in Raw : \E i \in 1 .. Len(W[r]) : c = W[r][i]
          BY <1>5
        <4>2. PICK i \in 1 .. Len(W[r]) : c = W[r][i]
          BY <4>1
        <4>3. 0 < r \/ (0 = r /\ o < i)
          <5>1. r = 0 => i # o
            BY <3>2, <3>4, <4>2
          <5>2. QED
            BY <1>3, <3>2, <4>2, <5>1, RawOrdered
        <4>4. QED
          BY <4>2, <4>3 DEF Behind
      <3>5. CASE bucket[0].occupied
        <4>1. it[1] = 0 /\ 0 \in T
          BY <2>1, <3>1, <3>3, <3>5 DEF Begin, Taken
        <4>2. ASSUME NEW c \in T \ {0} PROVE <<0, c>> \in R
          BY <3>2, <3>3, <3>4, <4>1, <4>2 DEF Order
        <4>3. QED
          BY <4>1, <4>2 DEF FirstOf
      <3>6. CASE ~bucket[0].occupied
        <4>1. it[1] = NextElement(W[0][o]) /\ 0 \notin T
          BY <2>1, <3>1, <3>2, <3>6 DEF Begin, Taken
        <4>2. \/ /\ NextElement(W[0][o]) = Null
                 /\ \A c \in Taken(bucket) : ~Behind(W, 0, o, c)
              \/ \E s \in Raw : \E j \in 1 .. Len(W[s]) :
                    /\ NextElement(W[0][o]) = W[s][j] /\ W[s][j] \in Taken(bucket)
                    /\ 0 < s \/ (0 = s /\ o < j)
                    /\ \A c \in Taken(bucket) : Behind(W, 0, o, c) => c = W[s][j] \/ Behind(W, s, j, c)
          BY <3>2, <3>3, NextIs DEF W
        <4>3. \A c \in T : Behind(W, 0, o, c)
          BY <3>4, <4>1
        <4>4. PICK s \in Raw : \E j \in 1 .. Len(W[s]) :
                    /\ NextElement(W[0][o]) = W[s][j] /\ W[s][j] \in Taken(bucket)
                    /\ \A c \in Taken(bucket) : Behind(W, 0, o, c) => c = W[s][j] \/ Behind(W, s, j, c)
          BY <2>3, <4>2, <4>3
        <4>5. PICK j \in 1 .. Len(W[s]) :
                    /\ NextElement(W[0][o]) = W[s][j] /\ W[s][j] \in Taken(bucket)
                    /\ \A c \in Taken(bucket) : Behind(W, 0, o, c) => c = W[s][j] \/ Behind(W, s, j, c)
          BY <4>4
        <4>6. ASSUME NEW c \in T \ {it[1]} PROVE <<it[1], c>> \in R
          <5>1. Behind(W, s, j, c)
            BY <4>1, <4>3, <4>5, <4>6
          <5>2. QED
            BY <4>1, <4>5, <4>6, <5>1 DEF Order
        <4>7. QED
          BY <4>1, <4>5, <4>6 DEF FirstOf
      <3>7. QED
        BY <3>5, <3>6
    <2>4. QED
      BY <2>2, <2>3
  <1>7. ASSUME NEW n \in 1 .. MaxBuckets, it[n] = Null PROVE it[n + 1] = Null
    <2>1. it[n + 1] = NextElement(it[n])
      BY <1>4
    <2>2. NextElement(Null) = Null
      BY DEF NextElement
    <2>3. QED
      BY <1>7, <2>1, <2>2
  <1>8. ASSUME NEW n \in 1 .. MaxBuckets, it[n] \in T PROVE NextOf(T, R, Null, it[n], it[n + 1])
    <2>1. it[n + 1] = NextElement(it[n])
      BY <1>4
    <2>2. PICK r \in Raw : \E i \in 1 .. Len(W[r]) : it[n] = W[r][i]
      BY <1>5, <1>8
    <2>3. PICK i \in 1 .. Len(W[r]) : it[n] = W[r][i]
      BY <2>2
    <2>4. Apart(W)
      BY <1>1 DEF Table
    <2>5. ASSUME NEW c \in T, <<it[n], c>> \in R PROVE Behind(W, r, i, c)
      BY <2>3, <2>4, <2>5 DEF Order, Apart
    <2>6. \/ /\ NextElement(W[r][i]) = Null
             /\ \A c \in Taken(bucket) : ~Behind(W, r, i, c)
          \/ \E s \in Raw : \E j \in 1 .. Len(W[s]) :
                /\ NextElement(W[r][i]) = W[s][j] /\ W[s][j] \in Taken(bucket)
                /\ r < s \/ (r = s /\ i < j)
                /\ \A c \in Taken(bucket) : Behind(W, r, i, c) => c = W[s][j] \/ Behind(W, s, j, c)
      BY <2>3, NextIs DEF W
    <2>7. CASE NextElement(W[r][i]) = Null /\ \A c \in T : ~Behind(W, r, i, c)
      BY <1>8, <2>1, <2>3, <2>5, <2>7 DEF NextOf
    <2>8. ASSUME NEW s \in Raw, NEW j \in 1 .. Len(W[s]),
                 NextElement(W[r][i]) = W[s][j], W[s][j] \in T, r < s \/ (r = s /\ i < j),
                 \A c \in T : Behind(W, r, i, c) => c = W[s][j] \/ Behind(W, s, j, c)
          PROVE  NextOf(T, R, Null, it[n], it[n + 1])
      <3>1. it[n + 1] = W[s][j]
        BY <2>1, <2>3, <2>8
      <3>2. <<it[n], it[n + 1]>> \in R
        <4>1. Behind(W, r, i, W[s][j])
          BY <2>8 DEF Behind
        <4>2. QED
          BY <1>8, <2>3, <2>8, <3>1, <4>1 DEF Order
      <3>3. ASSUME NEW c \in T \ {it[n + 1]}, <<it[n], c>> \in R PROVE <<it[n + 1], c>> \in R
        <4>1. Behind(W, s, j, c)
          BY <2>5, <2>8, <3>1, <3>3
        <4>2. QED
          BY <2>8, <3>1, <3>3, <4>1 DEF Order
      <3>4. QED
        BY <1>8, <2>8, <3>1, <3>2, <3>3 DEF NextOf
    <2>9. QED
      BY <2>6, <2>7, <2>8
  <1>9. \A n \in 1 .. MaxBuckets + 1 : it[n] \in T \cup {Null}
    <2>. DEFINE Bad == {n \in Nat : n \in 1 .. MaxBuckets + 1 /\ it[n] \notin T \cup {Null}}
    <2>1. Bad = {}
      <3>. SUFFICES ASSUME Bad # {} PROVE FALSE
        OBVIOUS
      <3>1. PICK n \in Bad : \A k \in Bad : n <= k
        <4>1. Bad \in SUBSET Nat
          OBVIOUS
        <4>. HIDE DEF Bad
        <4>2. QED
          BY <4>1, LeastNatural
      <3>2. n \in 1 .. MaxBuckets + 1 /\ it[n] \notin T \cup {Null}
        BY <3>1
      <3>3. n # 1
        BY <1>6, <3>2 DEF FirstOf
      <3>4. /\ n - 1 \in 1 .. MaxBuckets /\ n - 1 \in 1 .. MaxBuckets + 1 /\ (n - 1) + 1 = n
            /\ n - 1 \in Nat /\ ~(n <= n - 1)
        BY <1>4, <3>2, <3>3
      <3>5. n - 1 \notin Bad
        <4>. HIDE DEF Bad
        <4>. QED
          BY <3>1, <3>4
      <3>6. it[n - 1] \in T \cup {Null}
        BY <3>4, <3>5
      <3>. DEFINE m == n - 1
      <3>7. m \in 1 .. MaxBuckets /\ it[m] \in T \cup {Null} /\ m + 1 = n
        BY <3>4, <3>6
      <3>. HIDE DEF m
      <3>8. it[m + 1] \in T \cup {Null}
        BY <1>7, <1>8, <3>7 DEF NextOf
      <3>9. QED
        BY <3>2, <3>7, <3>8
    <2>2. ASSUME NEW n \in 1 .. MaxBuckets + 1 PROVE it[n] \in T \cup {Null}
      <3>1. n \in Nat
        BY <1>4
      <3>2. n \notin Bad
        <4>. HIDE DEF Bad
        <4>. QED
          BY <2>1
      <3>3. QED
        BY <3>1, <3>2
    <2>3. QED
      BY <2>2
  <1>10. ASSUME NEW n \in 1 .. MaxBuckets PROVE NextOf(T, R, Null, it[n], it[n + 1])
    <2>1. n \in 1 .. MaxBuckets + 1
      BY <1>4
    <2>2. QED
      BY <1>7, <1>8, <1>9, <2>1 DEF NextOf
  <1>. HIDE DEF T, R
  <1>11. QED
    BY <1>6, <1>10 DEF WalksThrough, T, R, W, it

\* As long as no raw bucket is given to a pool that reuses blocks, an iteration meets every
\* key of the table once and nothing else, in every table of every size: over holes in the
\* chains, empty chains and buckets that are not in use (Begin, GetNextElement).
THEOREM IterationMeetsAll == Spec => [](~rawFreed => IterationComplete)
  <1>1. ASSUME HInv PROVE ~rawFreed => IterationComplete
    <2>. SUFFICES ASSUME ~rawFreed PROVE IterationComplete
      OBVIOUS
    <2>. DEFINE T == Taken(bucket)
                R == Order(bucket, Trails(bucket))
                it == Iteration
                met == {n \in 1 .. MaxBuckets + 1 : it[n] # Null}
    <2>1. InOrder /\ Table(bucket, Trails(bucket))
      BY <1>1 DEF HInv, InOrder
    <2>2. Typed(bucket) /\ Kept(bucket, Trails(bucket)) /\ Once(bucket)
      BY <2>1 DEF Table
    <2>3. Null \notin Bucket /\ MaxBuckets \in Nat
      BY Constants DEF Null, Bucket
    <2>4. Cardinality(T) <= MaxBuckets /\ IsFiniteSet(T)
      <3>1. IsFiniteSet(Bucket) /\ Cardinality(Bucket) = MaxBuckets
        BY <2>3, Intervals DEF Bucket
      <3>2. T \in SUBSET Bucket
        BY DEF Taken
      <3>. HIDE DEF T
      <3>3. QED
        BY <3>1, <3>2, FS_Subset
    <2>5. WalksThrough(T, R, Null, it, MaxBuckets) /\ StrictOrder(T, R)
      BY <2>1, IterationWalks, OrderStrict
    <2>6. Null \notin T
      BY <2>3 DEF Taken
    <2>7. {it[n] : n \in met} = T /\ Cardinality(met) = Cardinality(T)
      <3>. HIDE DEF T, R, it
      <3>. QED
        BY <2>3, <2>4, <2>5, <2>6, WalkMeetsAll
    <2>8. \A k \in Keys : k \in Found <=> \E b \in T : bucket[b].key = k
      <3>. SUFFICES ASSUME NEW k \in Keys PROVE k \in Found <=> \E b \in T : bucket[b].key = k
        OBVIOUS
      <3>1. k \in Found <=> \E b \in Bucket : HoldsIn(bucket, b, k)
        BY <2>1, Searched
      <3>2. QED
        BY <3>1 DEF HoldsIn, Taken
    <2>9. Found \subseteq Keys /\ \A b \in T : bucket[b].key \in Keys
      BY <2>2 DEF Found, Kept, Taken
    <2>10. Cardinality(T) = Cardinality(Found)
      <3>. DEFINE f == [b \in T |-> bucket[b].key]
      <3>1. f \in Injection(T, Found)
        <4>1. f \in [T -> Found]
          BY <2>8, <2>9
        <4>2. IsInjective(f)
          BY <2>2 DEF IsInjective, Once, Taken
        <4>. HIDE DEF f
        <4>3. QED
          BY <4>1, <4>2 DEF Injection
      <3>2. f \in Surjection(T, Found)
        <4>1. f \in [T -> Found]
          BY <2>8, <2>9
        <4>2. \A k \in Found : \E b \in T : f[b] = k
          BY <2>8, <2>9
        <4>. HIDE DEF f
        <4>3. QED
          BY <4>1, <4>2 DEF Surjection
      <3>. HIDE DEF f, T
      <3>3. QED
        BY <2>4, <3>1, <3>2, FS_Surjection
    <2>11. DOMAIN it = 1 .. MaxBuckets + 1
      BY IterationIs DEF IterationOf
    <2>12. {bucket[it[n]].key : n \in met} = Found
      <3>1. \A n \in met : it[n] \in T
        BY <2>7
      <3>2. \A b \in T : \E n \in met : it[n] = b
        BY <2>7
      <3>. HIDE DEF T, it, met
      <3>3. QED
        BY <2>8, <2>9, <3>1, <3>2
    <2>13. QED
      BY <2>7, <2>10, <2>11, <2>12 DEF IterationComplete
  <1>2. QED
    BY <1>1, Invariant, PTL

=============================================================================
