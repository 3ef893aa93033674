--------------------------- MODULE SortTableProofs ---------------------------
(***************************************************************************)
(* Proofs about SortTable: the records stay sorted and in their block, and *)
(* the table is the map its clients asked for, whatever the keys, the      *)
(* values and the length of the batches.  The loops of BatchInsert and     *)
(* BatchDelete are recursive functions; their loop invariants are sets of  *)
(* states, one for each turn.                                              *)
(*                                                                         *)
(* SimdBinarySearch, which SortTable takes by what it returns, is proved   *)
(* right step by step for every sorted table and every key (SimdSearch),   *)
(* and the two meet at the end: the tables SortTable leaves behind are     *)
(* such tables, and the answer is the one SortTable takes it for.          *)
(***************************************************************************)
EXTENDS SortTable, SimdSearch, FiniteSetTheorems, SequenceTheorems, TLAPS

-----------------------------------------------------------------------------
(* Loops *)

\* A set of natural numbers that is not empty has a least one.
LEMMA LeastNatural ==
    ASSUME NEW T \in SUBSET Nat, T # {}
    PROVE  \E m \in T : \A k \in T : m <= k
  <1>. DEFINE Less == {p \in Nat \X Nat : p[1] < p[2]}
  <1>1. IsWellFoundedOn(Less, Nat)
    BY NatLessThanWellFounded DEF OpToRel
  <1>2. PICK m \in T : \A k \in T : <<k, m>> \notin Less
    <2>. HIDE DEF Less
    <2>. QED
      BY <1>1, WFMin
  <1>3. \A k \in T : m <= k
    <2>. SUFFICES ASSUME NEW k \in T, k < m PROVE FALSE
      OBVIOUS
    <2>1. <<k, m>> \in Nat \X Nat
      OBVIOUS
    <2>2. QED
      BY <1>2, <2>1
  <1>4. QED
    BY <1>3

\* A loop whose turn m leads from S[m - 1] to S[m] runs through these sets.
LEMMA LoopKeeps ==
    ASSUME NEW N \in Nat, NEW S, NEW f, f[0] \in S[0],
           \A m \in 1 .. N : f[m - 1] \in S[m - 1] => f[m] \in S[m]
    PROVE  \A m \in 0 .. N : f[m] \in S[m]
  <1>. DEFINE T == {m \in Nat : m <= N /\ f[m] \notin S[m]}
  <1>1. T = {}
    <2>. SUFFICES ASSUME T # {} PROVE FALSE
      OBVIOUS
    <2>1. PICK m \in T : \A k \in T : m <= k
      <3>1. T \in SUBSET Nat
        OBVIOUS
      <3>. HIDE DEF T
      <3>2. QED
        BY <3>1, LeastNatural
    <2>2. m \in 1 .. N /\ f[m] \notin S[m] /\ m - 1 \in Nat /\ m - 1 <= N /\ ~(m <= m - 1)
      BY <2>1
    <2>3. m - 1 \notin T
      <3>. HIDE DEF T
      <3>1. QED
        BY <2>1, <2>2
    <2>4. QED
      BY <2>2, <2>3
  <1>2. QED
    BY <1>1

\* A run of a loop of N turns from s0; step is its turn.
Runs(f, N, s0, step) ==
    /\ f = [m \in 0 .. N |-> f[m]] /\ f[0] = s0
    /\ \A m \in 1 .. N : f[m] = step[m][f[m - 1]]

\* Its recursive function exists.
LEMMA LoopExists ==
    ASSUME NEW N \in Nat, NEW S, NEW s0 \in S[0], NEW step,
           \A m \in 1 .. N : \A s \in S[m - 1] : step[m][s] \in S[m]
    PROVE  \E f : Runs(f, N, s0, step) /\ \A m \in 0 .. N : f[m] \in S[m]
  <1>. DEFINE Is(n, f) == f = [m \in 0 .. n |-> IF m = 0 THEN s0 ELSE step[m][f[m - 1]]]
              T == {n \in Nat : ~ \E f : Is(n, f)}
  <1>1. T = {}
    <2>. SUFFICES ASSUME T # {} PROVE FALSE
      OBVIOUS
    <2>1. PICK n \in T : \A k \in T : n <= k
      <3>1. T \in SUBSET Nat
        OBVIOUS
      <3>. HIDE DEF T
      <3>2. QED
        BY <3>1, LeastNatural
    <2>2. n # 0
      <3>1. Is(0, [m \in 0 .. 0 |-> s0])
        OBVIOUS
      <3>2. QED
        BY <2>1, <3>1
    <2>3. PICK g : Is(n - 1, g)
      <3>1. n - 1 \in Nat /\ n - 1 \notin T
        BY <2>1, <2>2
      <3>2. QED
        BY <3>1
    <2>. DEFINE f == [m \in 0 .. n |-> IF m = 0 THEN s0 ELSE step[m][g[m - 1]]]
    <2>4. \A m \in 0 .. n - 1 : m \in 0 .. n /\ f[m] = g[m]
      BY <2>3
    <2>5. ASSUME NEW m \in 0 .. n
          PROVE  f[m] = IF m = 0 THEN s0 ELSE step[m][f[m - 1]]
      <3>1. m # 0 => m - 1 \in 0 .. n - 1
        OBVIOUS
      <3>2. m # 0 => f[m - 1] = g[m - 1]
        BY <2>4, <3>1
      <3>3. QED
        BY <3>2
    <2>6. Is(n, f)
      <3>1. f = [m \in 0 .. n |-> f[m]]
        OBVIOUS
      <3>. HIDE DEF f
      <3>2. QED
        BY <2>5, <3>1, Zenon
    <2>7. QED
      BY <2>1, <2>6
  <1>2. PICK f : Is(N, f)
    BY <1>1
  <1>3. f[0] \in S[0]
    BY <1>2
  <1>4. ASSUME NEW m \in 1 .. N, f[m - 1] \in S[m - 1] PROVE f[m] \in S[m]
    <2>1. f[m] = step[m][f[m - 1]]
      BY <1>2
    <2>2. QED
      BY <1>4, <2>1
  <1>5. \A m \in 0 .. N : f[m] \in S[m]
    <2>. HIDE DEF Is
    <2>1. QED
      BY <1>3, <1>4, LoopKeeps
  <1>6. Runs(f, N, s0, step)
    BY <1>2 DEF Runs
  <1>7. QED
    BY <1>5, <1>6

-----------------------------------------------------------------------------
(* Sorted sequences of records *)

Rising(s) == \A i, j \in 1 .. Len(s) : i < j => s[i].key < s[j].key
In(s, x) == \E i \in 1 .. Len(s) : s[i] = x

LEMMA Records ==
    ASSUME NEW s \in Seq(Record)
    PROVE  /\ Len(s) \in Nat /\ DOMAIN s = 1 .. Len(s)
           /\ \A i \in 1 .. Len(s) : /\ s[i] \in Record /\ s[i].key \in Keys /\ s[i].key \in Int
                                     /\ s[i].value \in Values /\ s[i].value # Absent
  <1>1. Keys \subseteq Int /\ Absent \notin Values
    BY SortAssumption DEF SortAssumption
  <1>2. ASSUME NEW r \in Record
        PROVE  r.key \in Keys /\ r.key \in Int /\ r.value \in Values /\ r.value # Absent
    BY <1>1 DEF Record
  <1>3. Len(s) \in Nat /\ DOMAIN s = 1 .. Len(s) /\ \A i \in 1 .. Len(s) : s[i] \in Record
    OBVIOUS
  <1>4. QED
    BY <1>2, <1>3

\* A key is found where it is.
LEMMA LookupIs ==
    ASSUME NEW s \in Seq(Record), Rising(s), NEW k
    PROVE  /\ \A i \in 1 .. Len(s) : s[i].key = k => Lookup(s, k) = s[i].value
           /\ (\A i \in 1 .. Len(s) : s[i].key # k) => Lookup(s, k) = Absent
           /\ Lookup(s, k) # Absent <=> \E i \in 1 .. Len(s) : s[i].key = k
  <1>. DEFINE at == {i \in DOMAIN s : s[i].key = k}
  <1>1. \A i \in at : i \in 1 .. Len(s) /\ s[i].key = k
    BY Records
  <1>2. \A i, j \in at : i = j
    BY Records DEF Rising
  <1>3. Lookup(s, k) = IF at = {} THEN Absent ELSE s[CHOOSE i \in at : TRUE].value
    BY DEF Lookup
  <1>4. ASSUME NEW i \in at PROVE Lookup(s, k) = s[i].value /\ s[i].value # Absent
    <2>1. (CHOOSE j \in at : TRUE) \in at
      BY <1>4
    <2>2. (CHOOSE j \in at : TRUE) = i
      BY <1>2, <1>4, <2>1
    <2>. HIDE DEF at
    <2>3. Lookup(s, k) = s[i].value
      BY <1>3, <1>4, <2>2
    <2>4. QED
      BY <1>1, <1>4, <2>3, Records
  <1>5. \A i \in 1 .. Len(s) : s[i].key = k => i \in at
    BY Records
  <1>. HIDE DEF at
  <1>6. QED
    BY <1>1, <1>3, <1>4, <1>5

\* Two tables that have the same records of a key say the same of it.
LEMMA LookupSame ==
    ASSUME NEW s \in Seq(Record), Rising(s), NEW t \in Seq(Record), Rising(t), NEW k,
           \A x \in Record : x.key = k => (In(s, x) <=> In(t, x))
    PROVE  Lookup(s, k) = Lookup(t, k)
  <1>1. CASE \E i \in 1 .. Len(s) : s[i].key = k
    <2>1. PICK i \in 1 .. Len(s) : s[i].key = k
      BY <1>1
    <2>2. PICK j \in 1 .. Len(t) : t[j] = s[i]
      BY <2>1, Records DEF In
    <2>3. QED
      BY <2>1, <2>2, LookupIs
  <1>2. CASE ~ \E i \in 1 .. Len(s) : s[i].key = k
    <2>1. ASSUME NEW j \in 1 .. Len(t), t[j].key = k PROVE FALSE
      <3>1. In(s, t[j])
        BY <2>1, Records DEF In
      <3>2. QED
        BY <1>2, <2>1, <3>1 DEF In
    <2>2. Lookup(s, k) = Absent /\ Lookup(t, k) = Absent
      BY <1>2, <2>1, LookupIs
    <2>3. QED
      BY <2>2
  <1>3. QED
    BY <1>1, <1>2

\* A set of places that has every place in front of one of its own is an interval.
LEMMA Places ==
    ASSUME NEW n \in Nat, NEW S \in SUBSET (1 .. n),
           \A i \in S : \A j \in 1 .. n : j < i => j \in S
    PROVE  Cardinality(S) \in 0 .. n /\ S = 1 .. Cardinality(S)
  <1>. DEFINE c == Cardinality(S)
  <1>1. IsFiniteSet(S) /\ c \in Nat /\ c <= n
    <2>. DEFINE U == 1 .. n
    <2>1. IsFiniteSet(U) /\ Cardinality(U) = n
      BY FS_Interval
    <2>. HIDE DEF U
    <2>2. S \in SUBSET U
      BY DEF U
    <2>3. QED
      BY <2>1, <2>2, FS_Subset, FS_CardinalityType
  <1>2. ASSUME NEW i \in S PROVE i <= c
    <2>1. (1 .. i) \subseteq S
      BY <1>2
    <2>2. Cardinality(1 .. i) = i
      BY <1>2, FS_Interval
    <2>3. QED
      BY <1>1, <2>1, <2>2, FS_Subset
  <1>3. S \in SUBSET (1 .. c) /\ IsFiniteSet(1 .. c) /\ Cardinality(1 .. c) = c
    <2>. HIDE DEF c
    <2>1. S \in SUBSET (1 .. c)
      BY <1>1, <1>2
    <2>2. IsFiniteSet(1 .. c) /\ Cardinality(1 .. c) = c
      BY <1>1, FS_Interval
    <2>3. QED
      BY <2>1, <2>2
  <1>4. S = 1 .. c
    BY <1>3, FS_Subset
  <1>5. QED
    BY <1>1, <1>4

\* The position that SimdBinarySearch returns.
LEMMA BeforeIs ==
    ASSUME recs \in Seq(Record), Rising(recs), NEW k \in Keys
    PROVE  /\ Before(k) \in 0 .. Len(recs)
           /\ \A i \in 1 .. Len(recs) : recs[i].key < k <=> i <= Before(k)
  <1>. DEFINE S == {i \in DOMAIN recs : recs[i].key < k}
              n == Len(recs)
  <1>1. n \in Nat /\ DOMAIN recs = 1 .. n /\ \A i \in 1 .. n : recs[i].key \in Int
    BY Records
  <1>2. k \in Int
    BY SortAssumption DEF SortAssumption
  <1>3. S \in SUBSET (1 .. n)
    BY <1>1
  <1>4. ASSUME NEW i \in S, NEW j \in 1 .. n, j < i PROVE j \in S
    BY <1>1, <1>2, <1>4 DEF Rising
  <1>5. \A i \in 1 .. n : recs[i].key < k <=> i \in S
    BY <1>1
  <1>. HIDE DEF S
  <1>6. Cardinality(S) \in 0 .. n /\ S = 1 .. Cardinality(S)
    BY <1>1, <1>3, <1>4, Places
  <1>7. Before(k) = Cardinality(S)
    BY DEF Before, S
  <1>8. QED
    BY <1>5, <1>6, <1>7

-----------------------------------------------------------------------------
(* Insert *)

LEMMA InsertAtIs ==
    ASSUME NEW s, NEW p \in Int, NEW x
    PROVE  InsertAt(s, p + 1, x) = (SubSeq(s, 1, p) \o <<x>>) \o SubSeq(s, p + 1, Len(s))
  <1>1. ASSUME NEW q PROVE InsertAt(s, q, x) = (SubSeq(s, 1, q - 1) \o <<x>>) \o SubSeq(s, q, Len(s))
    BY Zenon DEF InsertAt
  <1>2. ASSUME NEW q, q - 1 = p
        PROVE  InsertAt(s, q, x) = (SubSeq(s, 1, p) \o <<x>>) \o SubSeq(s, q, Len(s))
    BY <1>1, <1>2, Zenon
  <1>3. (p + 1) - 1 = p
    OBVIOUS
  <1>4. QED
    BY <1>2, <1>3, Zenon

LEMMA Inserted ==
    ASSUME NEW s \in Seq(Record), NEW p \in 0 .. Len(s), NEW x \in Record
    PROVE  /\ InsertAt(s, p + 1, x) \in Seq(Record) /\ Len(InsertAt(s, p + 1, x)) = Len(s) + 1
           /\ \A i \in 1 .. Len(s) + 1 :
                 InsertAt(s, p + 1, x)[i] = IF i <= p THEN s[i] ELSE IF i = p + 1 THEN x ELSE s[i - 1]
  <1>. DEFINE a == SubSeq(s, 1, p)
              b == SubSeq(s, p + 1, Len(s))
              c == <<x>>
              n == Len(s)
  <1>1. n \in Nat /\ p \in Nat /\ p <= n /\ \A i \in 1 .. n : s[i] \in Record
    BY Records
  <1>. HIDE DEF n
  <1>2. a \in Seq(Record) /\ Len(a) = p /\ \A i \in 1 .. p : a[i] = s[i]
    <2>1. /\ a \in Seq(Record) /\ Len(a) = (IF 1 <= p THEN p - 1 + 1 ELSE 0)
          /\ \A i \in 1 .. p - 1 + 1 : a[i] = s[1 + i - 1]
      <3>1. \A i \in 1 .. p : s[i] \in Record
        BY <1>1
      <3>2. QED
        BY <1>1, <3>1, SubSeqProperties
    <2>. HIDE DEF a
    <2>2. QED
      BY <1>1, <2>1
  <1>3. b \in Seq(Record) /\ Len(b) = n - p /\ \A i \in 1 .. n - p : b[i] = s[p + i]
    <2>1. /\ b \in Seq(Record) /\ Len(b) = (IF p + 1 <= n THEN n - (p + 1) + 1 ELSE 0)
          /\ \A i \in 1 .. n - (p + 1) + 1 : b[i] = s[(p + 1) + i - 1]
      <3>1. \A i \in p + 1 .. n : s[i] \in Record
        BY <1>1
      <3>2. QED
        BY <1>1, <3>1, SubSeqProperties DEF n
    <2>. HIDE DEF b
    <2>2. QED
      BY <1>1, <2>1
  <1>4. c \in Seq(Record) /\ Len(c) = 1 /\ c[1] = x
    OBVIOUS
  <1>5. InsertAt(s, p + 1, x) = (a \o c) \o b
    <2>1. p \in Int
      BY <1>1
    <2>2. QED
      BY <2>1, InsertAtIs, Zenon
  <1>. HIDE DEF a, b, c
  <1>6. /\ a \o c \in Seq(Record) /\ Len(a \o c) = p + 1
        /\ \A i \in 1 .. p + 1 : (a \o c)[i] = IF i <= p THEN s[i] ELSE x
    <2>1. /\ a \o c \in Seq(Record) /\ Len(a \o c) = Len(a) + Len(c)
          /\ \A i \in 1 .. Len(a) + Len(c) : (a \o c)[i] = IF i <= Len(a) THEN a[i] ELSE c[i - Len(a)]
      BY <1>2, <1>4, ConcatProperties
    <2>2. \A i \in 1 .. p + 1 : i > p => i = p + 1 /\ i - p = 1
      BY <1>1
    <2>3. QED
      BY <1>1, <1>2, <1>4, <2>1, <2>2
  <1>. DEFINE d == a \o c
  <1>7. /\ d \o b \in Seq(Record) /\ Len(d \o b) = n + 1
        /\ \A i \in 1 .. n + 1 : (d \o b)[i] = IF i <= p + 1 THEN d[i] ELSE b[i - (p + 1)]
    <2>. HIDE DEF d
    <2>1. /\ d \o b \in Seq(Record) /\ Len(d \o b) = Len(d) + Len(b)
          /\ \A i \in 1 .. Len(d) + Len(b) : (d \o b)[i] = IF i <= Len(d) THEN d[i] ELSE b[i - Len(d)]
      BY <1>3, <1>6, ConcatProperties DEF d
    <2>2. QED
      BY <1>1, <1>3, <1>6, <2>1 DEF d
  <1>. HIDE DEF d
  <1>8. ASSUME NEW i \in 1 .. n + 1
        PROVE  (d \o b)[i] = IF i <= p THEN s[i] ELSE IF i = p + 1 THEN x ELSE s[i - 1]
    <2>0. \A j \in 1 .. p + 1 : d[j] = IF j <= p THEN s[j] ELSE x
      BY <1>6 DEF d
    <2>1. CASE i <= p + 1
      <3>1. i \in 1 .. p + 1
        BY <1>1, <2>1
      <3>2. (d \o b)[i] = d[i]
        BY <1>7, <2>1
      <3>3. i <= p \/ (~(i <= p) /\ i = p + 1)
        BY <1>1, <2>1
      <3>4. QED
        BY <2>0, <3>1, <3>2, <3>3, Zenon
    <2>2. CASE i > p + 1
      <3>1. i - (p + 1) \in 1 .. n - p /\ p + (i - (p + 1)) = i - 1 /\ ~(i <= p + 1) /\ ~(i <= p)
        BY <1>1, <2>2
      <3>2. (d \o b)[i] = b[i - (p + 1)]
        BY <1>7, <3>1
      <3>3. b[i - (p + 1)] = s[p + (i - (p + 1))]
        BY <1>3, <3>1
      <3>4. (d \o b)[i] = s[i - 1] /\ i # p + 1
        BY <1>1, <2>2, <3>1, <3>2, <3>3
      <3>5. QED
        BY <3>1, <3>4
    <2>3. i <= p + 1 \/ i > p + 1
      BY <1>1
    <2>4. QED
      BY <2>1, <2>2, <2>3
  <1>9. InsertAt(s, p + 1, x) = d \o b
    BY <1>5 DEF d
  <1>. DEFINE e == d \o b
  <1>10. e \in Seq(Record) /\ Len(e) = n + 1
    BY <1>7
  <1>11. \A i \in 1 .. n + 1 : e[i] = IF i <= p THEN s[i] ELSE IF i = p + 1 THEN x ELSE s[i - 1]
    BY <1>8
  <1>12. InsertAt(s, p + 1, x) = e
    BY <1>9
  <1>. HIDE DEF e
  <1>13. QED
    BY <1>10, <1>11, <1>12 DEF n

\* A new record in its place.
LEMMA AddIs ==
    ASSUME recs \in Seq(Record), Rising(recs), NEW k \in Keys, NEW v \in Values, At(k) = {}
    PROVE  LET t == InsertAt(recs, Before(k) + 1, [key |-> k, value |-> v])
           IN  /\ t \in Seq(Record) /\ Rising(t) /\ Len(t) = Len(recs) + 1
               /\ \A x \in Record : In(t, x) <=> In(recs, x) \/ x = [key |-> k, value |-> v]
  <1>. DEFINE p == Before(k)
              x == [key |-> k, value |-> v]
              t == InsertAt(recs, p + 1, x)
              n == Len(recs)
  <1>1. x \in Record /\ x.key = k /\ k \in Int
    BY SortAssumption DEF SortAssumption, Record
  <1>2. n \in Nat /\ DOMAIN recs = 1 .. n /\ \A i \in 1 .. n : recs[i].key \in Int
    BY Records
  <1>3. p \in 0 .. n /\ \A i \in 1 .. n : recs[i].key < k <=> i <= p
    BY BeforeIs
  <1>4. \A i \in 1 .. n : i > p => recs[i].key > k
    BY <1>1, <1>2, <1>3 DEF At
  <1>. HIDE DEF x, p
  <1>5. /\ t \in Seq(Record) /\ Len(t) = n + 1
        /\ \A i \in 1 .. n + 1 : t[i] = IF i <= p THEN recs[i] ELSE IF i = p + 1 THEN x ELSE recs[i - 1]
    BY <1>1, <1>3, Inserted
  <1>. HIDE DEF t, n
  <1>6. ASSUME NEW i \in 1 .. n + 1, NEW j \in 1 .. n + 1, i < j PROVE t[i].key < t[j].key
    <2>1. CASE j <= p
      <3>1. i \in 1 .. n /\ j \in 1 .. n /\ i <= p
        BY <1>2, <1>3, <1>6, <2>1
      <3>2. QED
        BY <1>5, <1>6, <2>1, <3>1 DEF Rising, n
    <2>2. CASE j = p + 1
      <3>1. i \in 1 .. n /\ i <= p /\ ~(j <= p)
        BY <1>2, <1>3, <1>6, <2>2
      <3>2. t[j] = x /\ t[i] = recs[i]
        BY <1>5, <2>2, <3>1
      <3>3. QED
        BY <1>1, <1>3, <3>1, <3>2
    <2>3. CASE j > p + 1
      <3>1. j - 1 \in 1 .. n /\ j - 1 > p /\ ~(j <= p) /\ j # p + 1
        BY <1>2, <1>3, <1>6, <2>3
      <3>2. t[j] = recs[j - 1]
        BY <1>5, <3>1
      <3>3. CASE i <= p
        <4>1. i \in 1 .. n /\ i < j - 1 /\ t[i] = recs[i]
          BY <1>2, <1>3, <1>5, <2>3, <3>3
        <4>2. QED
          BY <3>1, <3>2, <4>1 DEF Rising, n
      <3>4. CASE i = p + 1
        <4>1. t[i] = x
          <5>1. ~(i <= p)
            BY <1>3, <3>4
          <5>2. QED
            BY <1>5, <3>4, <5>1
        <4>2. QED
          BY <1>1, <1>4, <3>1, <3>2, <4>1
      <3>5. CASE i > p + 1
        <4>1. i - 1 \in 1 .. n /\ i - 1 < j - 1 /\ ~(i <= p) /\ i # p + 1
          BY <1>2, <1>3, <1>6, <3>5
        <4>2. t[i] = recs[i - 1]
          BY <1>5, <4>1
        <4>3. QED
          BY <3>1, <3>2, <4>1, <4>2 DEF Rising, n
      <3>6. QED
        BY <1>3, <3>3, <3>4, <3>5
    <2>4. QED
      BY <1>3, <2>1, <2>2, <2>3
  <1>7. ASSUME NEW y PROVE In(t, y) <=> In(recs, y) \/ y = x
    <2>1. ASSUME NEW i \in 1 .. n + 1 PROVE t[i] = x \/ \E j \in 1 .. n : t[i] = recs[j]
      <3>1. CASE i <= p
        BY <1>2, <1>3, <1>5, <3>1
      <3>2. CASE i = p + 1
        <4>1. ~(i <= p)
          BY <1>3, <3>2
        <4>2. QED
          BY <1>5, <3>2, <4>1
      <3>3. CASE i > p + 1
        <4>1. i - 1 \in 1 .. n /\ ~(i <= p) /\ i # p + 1
          BY <1>2, <1>3, <3>3
        <4>2. QED
          BY <1>5, <4>1
      <3>4. QED
        BY <1>3, <3>1, <3>2, <3>3
    <2>2. p + 1 \in 1 .. n + 1 /\ t[p + 1] = x
      <3>1. p + 1 \in 1 .. n + 1 /\ ~(p + 1 <= p)
        BY <1>2, <1>3
      <3>2. QED
        BY <1>5, <3>1
    <2>3. ASSUME NEW j \in 1 .. n PROVE \E i \in 1 .. n + 1 : t[i] = recs[j]
      <3>1. CASE j <= p
        BY <1>2, <1>5, <3>1
      <3>2. CASE j > p
        <4>1. j + 1 \in 1 .. n + 1 /\ ~(j + 1 <= p) /\ j + 1 # p + 1 /\ (j + 1) - 1 = j
          BY <1>2, <1>3, <3>2
        <4>2. t[j + 1] = recs[j]
          BY <1>5, <4>1
        <4>3. QED
          BY <4>1, <4>2
      <3>3. QED
        BY <1>3, <3>1, <3>2
    <2>4. QED
      BY <1>5, <2>1, <2>2, <2>3 DEF In, n
  <1>8. QED
    BY <1>5, <1>6, <1>7 DEF Rising, t, p, x, n

\* A new value for a record that is there.
LEMMA SetIs ==
    ASSUME recs \in Seq(Record), Rising(recs), NEW k \in Keys, NEW v \in Values, At(k) # {}
    PROVE  LET t == [i \in DOMAIN recs |-> IF i \in At(k) THEN [key |-> k, value |-> v] ELSE recs[i]]
           IN  /\ t \in Seq(Record) /\ Rising(t) /\ Len(t) = Len(recs)
               /\ \A x \in Record : In(t, x) <=> (x.key # k /\ In(recs, x)) \/ x = [key |-> k, value |-> v]
  <1>. DEFINE x == [key |-> k, value |-> v]
              t == [i \in DOMAIN recs |-> IF i \in At(k) THEN x ELSE recs[i]]
              n == Len(recs)
  <1>1. x \in Record /\ x.key = k
    BY DEF Record
  <1>2. n \in Nat /\ DOMAIN recs = 1 .. n /\ \A i \in 1 .. n : recs[i] \in Record
    BY Records
  <1>. HIDE DEF x
  <1>3. /\ t \in Seq(Record) /\ Len(t) = n
        /\ \A i \in 1 .. n : t[i] = IF recs[i].key = k THEN x ELSE recs[i]
    <2>1. t = [i \in 1 .. n |-> IF i \in At(k) THEN x ELSE recs[i]]
      BY <1>2
    <2>2. \A i \in 1 .. n : i \in At(k) <=> recs[i].key = k
      BY <1>2 DEF At
    <2>3. QED
      BY <1>1, <1>2, <2>1, <2>2
  <1>. HIDE DEF t
  <1>4. \A i \in 1 .. n : t[i].key = recs[i].key
    BY <1>1, <1>3
  <1>5. Rising(t)
    BY <1>3, <1>4 DEF Rising
  <1>6. \E i \in 1 .. n : recs[i].key = k
    BY <1>2 DEF At
  <1>7. \A y : In(t, y) <=> (y.key # k /\ In(recs, y)) \/ y = x
    BY <1>1, <1>3, <1>6 DEF In
  <1>8. QED
    BY <1>3, <1>5, <1>7 DEF t, x

-----------------------------------------------------------------------------
(* BatchInsert *)

\* The records of a batch that the merge is given, after i of its records.
Picked(batch, i) ==
    {f \in Seq(Record) :
       /\ Rising(f)
       /\ \A x \in Record : In(f, x) <=> At(x.key) = {} /\ \E j \in 1 .. i : batch[j] = x}

LEMMA PickedStep ==
    ASSUME NEW batch \in Seq(Record), Rising(batch), NEW i \in 1 .. Len(batch),
           NEW f \in Picked(batch, i - 1)
    PROVE  /\ At(batch[i].key) = {} => Append(f, batch[i]) \in Picked(batch, i)
           /\ At(batch[i].key) # {} => f \in Picked(batch, i)
  <1>. DEFINE x == batch[i]
              g == Append(f, x)
              n == Len(f)
  <1>1. f \in Seq(Record) /\ Rising(f) /\ n \in Nat /\ x \in Record
    BY Records DEF Picked
  <1>2. \A y \in Record : In(f, y) <=> At(y.key) = {} /\ \E j \in 1 .. i - 1 : batch[j] = y
    BY DEF Picked
  <1>3. ASSUME NEW y PROVE (\E j \in 1 .. i : batch[j] = y) <=> (\E j \in 1 .. i - 1 : batch[j] = y) \/ y = x
    <2>1. \A j \in 1 .. i : j = i \/ j \in 1 .. i - 1
      OBVIOUS
    <2>2. i \in 1 .. i /\ \A j \in 1 .. i - 1 : j \in 1 .. i
      OBVIOUS
    <2>3. QED
      BY <2>1, <2>2
  <1>4. ASSUME At(x.key) # {} PROVE f \in Picked(batch, i)
    <2>. HIDE DEF x
    <2>1. \A y \in Record : In(f, y) <=> At(y.key) = {} /\ \E j \in 1 .. i : batch[j] = y
      BY <1>2, <1>3, <1>4
    <2>2. QED
      BY <1>1, <2>1 DEF Picked
  <1>5. ASSUME At(x.key) = {} PROVE g \in Picked(batch, i)
    <2>. HIDE DEF x
    <2>1. /\ g \in Seq(Record) /\ Len(g) = n + 1 /\ g[n + 1] = x
          /\ \A j \in 1 .. n : g[j] = f[j]
      BY <1>1
    <2>. HIDE DEF g
    <2>2. ASSUME NEW j \in 1 .. n PROVE f[j].key < x.key
      <3>1. f[j] \in Record /\ In(f, f[j])
        BY <1>1, Records DEF In
      <3>2. PICK l \in 1 .. i - 1 : batch[l] = f[j]
        BY <1>2, <3>1
      <3>3. l \in 1 .. Len(batch) /\ l < i
        BY <3>2, Records
      <3>4. QED
        BY <3>2, <3>3 DEF Rising, x
    <2>. HIDE DEF n
    <2>3. \A j \in 1 .. n + 1 : j \in 1 .. n \/ j = n + 1
      BY <1>1
    <2>4. \A j, l \in 1 .. n + 1 : j < l => j \in 1 .. n
      BY <1>1
    <2>5. Rising(g)
      <3>1. ASSUME NEW j \in 1 .. n + 1, NEW l \in 1 .. n + 1, j < l PROVE g[j].key < g[l].key
        <4>1. j \in 1 .. n
          BY <3>1, <2>4
        <4>2. CASE l \in 1 .. n
          BY <1>1, <2>1, <3>1, <4>1, <4>2 DEF Rising, n
        <4>3. CASE l = n + 1
          BY <2>1, <2>2, <4>1, <4>3
        <4>4. QED
          BY <2>3, <4>2, <4>3
      <3>2. QED
        BY <2>1, <3>1 DEF Rising
    <2>6. ASSUME NEW y PROVE In(g, y) <=> In(f, y) \/ y = x
      <3>1. n + 1 \in 1 .. n + 1 /\ \A j \in 1 .. n : j \in 1 .. n + 1
        BY <1>1
      <3>2. QED
        BY <2>1, <2>3, <3>1 DEF In, n
    <2>7. \A y \in Record : In(g, y) <=> At(y.key) = {} /\ \E j \in 1 .. i : batch[j] = y
      BY <1>2, <1>3, <1>5, <2>6
    <2>8. QED
      BY <2>1, <2>5, <2>7 DEF Picked
  <1>6. QED
    BY <1>4, <1>5

LEMMA FreshIs ==
    ASSUME NEW batch \in Seq(Record), Rising(batch)
    PROVE  Fresh(batch) \in Picked(batch, Len(batch))
  <1>. DEFINE N == Len(batch)
              Turn(i, f) == IF At(batch[i].key) = {} THEN Append(f, batch[i]) ELSE f
              Is(g) == g = [i \in 0 .. N |-> IF i = 0 THEN <<>> ELSE Turn(i, g[i - 1])]
              S == [i \in 0 .. N |-> Picked(batch, i)]
              step == [i \in 1 .. N |-> [f \in S[i - 1] |-> Turn(i, f)]]
              pick == CHOOSE g : Is(g)
  <1>1. N \in Nat
    BY Records
  <1>2. /\ \A i \in 0 .. N : S[i] = Picked(batch, i)
        /\ \A i \in 1 .. N : i - 1 \in 0 .. N /\ i \in 0 .. N
    <2>. HIDE DEF N
    <2>1. QED
      BY <1>1
  <1>3. \A i \in 1 .. N : \A f \in S[i - 1] : Turn(i, f) \in S[i]
    <2>. SUFFICES ASSUME NEW i \in 1 .. N, NEW f \in Picked(batch, i - 1)
                  PROVE  Turn(i, f) \in Picked(batch, i)
      BY <1>2
    <2>1. QED
      BY PickedStep
  <1>4. \A i \in 1 .. N : \A f \in S[i - 1] : step[i][f] = Turn(i, f)
    <2>. HIDE DEF N, S, Turn
    <2>1. QED
      OBVIOUS
  <1>5. <<>> \in S[0]
    <2>1. <<>> \in Seq(Record) /\ Len(<<>>) = 0
      OBVIOUS
    <2>2. <<>> \in Picked(batch, 0)
      BY <2>1 DEF Picked, Rising, In
    <2>3. 0 \in 0 .. N
      BY <1>1
    <2>4. QED
      BY <1>2, <2>2, <2>3
  <1>6. PICK g : Runs(g, N, <<>>, step) /\ \A i \in 0 .. N : g[i] \in S[i]
    <2>. HIDE DEF N, S, Turn, step
    <2>1. \A i \in 1 .. N : \A f \in S[i - 1] : step[i][f] \in S[i]
      BY <1>3, <1>4
    <2>2. QED
      BY <1>1, <1>5, <2>1, LoopExists
  <1>7. Is(g)
    <2>. HIDE DEF N, S, Turn, step
    <2>1. \A i \in 0 .. N : i # 0 => i \in 1 .. N
      BY <1>1
    <2>2. \A i \in 0 .. N : g[i] = IF i = 0 THEN <<>> ELSE Turn(i, g[i - 1])
      BY <1>2, <1>4, <1>6, <2>1 DEF Runs
    <2>3. g = [i \in 0 .. N |-> g[i]]
      BY <1>6 DEF Runs
    <2>4. QED
      BY <2>2, <2>3, Zenon
  <1>8. Is(pick)
    <2>. HIDE DEF Is
    <2>1. QED
      BY <1>7
  <1>9. \A i \in 0 .. N : pick[i] \in S[i]
    <2>. HIDE DEF pick
    <2>1. \A i \in 0 .. N : pick[i] = IF i = 0 THEN <<>> ELSE Turn(i, pick[i - 1])
      <3>. HIDE DEF N, Turn
      <3>1. QED
        BY <1>8
    <2>. HIDE DEF N, S, Turn, step, Is
    <2>2. pick[0] \in S[0]
      BY <1>1, <1>5, <2>1
    <2>3. \A i \in 1 .. N : pick[i - 1] \in S[i - 1] => pick[i] \in S[i]
      BY <1>2, <1>3, <2>1
    <2>4. QED
      BY <1>1, <2>2, <2>3, LoopKeeps
  <1>10. Fresh(batch) = pick[N]
    BY DEF Fresh
  <1>11. N \in 0 .. N
    BY <1>1
  <1>. HIDE DEF pick, S, N
  <1>12. QED
    BY <1>2, <1>9, <1>10, <1>11 DEF N


\* A record put right below a sorted upper part.
LEMMA PutBelow ==
    ASSUME NEW M \in Nat, NEW w \in 1 .. M, NEW a, DOMAIN a = 1 .. M, NEW x,
           \A i, j \in w + 1 .. M : i < j => a[i].key < a[j].key,
           \A i \in w + 1 .. M : x.key < a[i].key,
           NEW b, b = [a EXCEPT ![w] = x]
    PROVE  /\ \A i \in 1 .. M : i # w => b[i] = a[i]
           /\ b[w] = x
           /\ \A i, j \in w .. M : i < j => b[i].key < b[j].key
           /\ \A y : (\E i \in w .. M : b[i] = y) <=> y = x \/ \E i \in w + 1 .. M : a[i] = y
  <1>1. b[w] = x /\ \A i \in 1 .. M : i # w => b[i] = a[i]
    OBVIOUS
  <1>2. \A i \in w .. M : i \in 1 .. M /\ (i = w \/ (i # w /\ i \in w + 1 .. M))
    OBVIOUS
  <1>3. w \in w .. M /\ \A i \in w + 1 .. M : i \in w .. M /\ i # w /\ i \in 1 .. M
    OBVIOUS
  <1>4. \A i, j \in w .. M : i < j => j \in w + 1 .. M
    OBVIOUS
  <1>5. ASSUME NEW i \in w .. M, NEW j \in w .. M, i < j PROVE b[i].key < b[j].key
    <2>1. j \in w + 1 .. M /\ b[j] = a[j]
      BY <1>1, <1>3, <1>4, <1>5
    <2>2. CASE i = w
      BY <1>1, <2>1, <2>2
    <2>3. CASE i # w
      <3>1. i \in w + 1 .. M /\ b[i] = a[i]
        BY <1>1, <1>2, <2>3
      <3>2. QED
        BY <1>5, <2>1, <3>1
    <2>4. QED
      BY <2>2, <2>3
  <1>6. ASSUME NEW y
        PROVE  (\E i \in w .. M : b[i] = y) <=> y = x \/ \E i \in w + 1 .. M : a[i] = y
    BY <1>1, <1>2, <1>3
  <1>7. QED
    BY <1>1, <1>5, <1>6

\* What the merge is in the middle of: the first r old records lie where they were, and
\* from behind the next place to write on are the other ones and all but n of the new.
MergeStates(new) ==
    [mem : [1 .. Len(recs) + Len(new) -> Record \cup {Blank}],
     r : 0 .. Len(recs), n : 0 .. Len(new)]

Upper(new, s) == s.r + s.n + 1 .. Len(recs) + Len(new)

Merging(new, s) ==
    /\ \A i \in 1 .. s.r : s.mem[i] = recs[i]
    /\ \A i \in Upper(new, s) : s.mem[i] \in Record
    /\ \A i, j \in Upper(new, s) : i < j => s.mem[i].key < s.mem[j].key
    /\ \A i \in Upper(new, s) : \A j \in 1 .. s.r : recs[j].key < s.mem[i].key
    /\ \A i \in Upper(new, s) : \A j \in 1 .. s.n : new[j].key < s.mem[i].key
    /\ \A y : (\E i \in Upper(new, s) : s.mem[i] = y)
                <=> \/ \E i \in s.r + 1 .. Len(recs) : recs[i] = y
                    \/ \E i \in s.n + 1 .. Len(new) : new[i] = y

\* A turn that takes an old record.
LEMMA TakeOld ==
    ASSUME recs \in Seq(Record), Rising(recs), NEW new \in Seq(Record), Rising(new),
           NEW s \in MergeStates(new), Merging(new, s), s.n > 0, s.r > 0,
           new[s.n].key < recs[s.r].key,
           NEW t, t = [mem |-> [s.mem EXCEPT ![s.r + s.n] = s.mem[s.r]], r |-> s.r - 1, n |-> s.n]
    PROVE  t \in MergeStates(new) /\ Merging(new, t)
  <1>. DEFINE M == Len(recs) + Len(new)
              w == s.r + s.n
              a == s.mem
              x == a[s.r]
              b == [a EXCEPT ![w] = x]
              r == s.r
              n == s.n
  <1>1. /\ Len(recs) \in Nat /\ Len(new) \in Nat /\ M \in Nat
        /\ r \in 1 .. Len(recs) /\ n \in 1 .. Len(new) /\ w \in 1 .. M /\ r < w /\ r \in Nat /\ n \in Nat
        /\ a \in [1 .. M -> Record \cup {Blank}] /\ DOMAIN a = 1 .. M
    <2>1. Len(recs) \in Nat /\ Len(new) \in Nat /\ M \in Nat
      BY Records
    <2>2. r \in 0 .. Len(recs) /\ n \in 0 .. Len(new) /\ a \in [1 .. M -> Record \cup {Blank}]
      BY DEF MergeStates
    <2>3. QED
      BY <2>1, <2>2
  <1>2. Upper(new, s) = w + 1 .. M
    BY DEF Upper
  <1>3. t.mem = b /\ t.r = r - 1 /\ t.n = n
    OBVIOUS
  <1>4. Upper(new, t) = w .. M
    BY <1>1, <1>3 DEF Upper
  <1>5. /\ \A i \in 1 .. r : a[i] = recs[i]
        /\ \A i \in w + 1 .. M : a[i] \in Record
        /\ \A i, j \in w + 1 .. M : i < j => a[i].key < a[j].key
        /\ \A i \in w + 1 .. M : \A j \in 1 .. r : recs[j].key < a[i].key
        /\ \A i \in w + 1 .. M : \A j \in 1 .. n : new[j].key < a[i].key
    BY <1>2 DEF Merging
  <1>6. \A y : (\E i \in w + 1 .. M : a[i] = y)
                 <=> \/ \E i \in r + 1 .. Len(recs) : recs[i] = y
                     \/ \E i \in n + 1 .. Len(new) : new[i] = y
    BY <1>2 DEF Merging
  <1>7. x = recs[r] /\ x \in Record /\ r \in 1 .. r
    <2>1. r \in 1 .. r
      BY <1>1
    <2>2. x = recs[r]
      BY <1>5, <2>1
    <2>3. QED
      BY <1>1, <2>1, <2>2, Records
  <1>8. new[n].key < x.key
    BY <1>7
  <1>9. b \in [1 .. M -> Record \cup {Blank}] /\ b = [a EXCEPT ![w] = x]
    BY <1>1, <1>7
  <1>. HIDE DEF w, a, x, r, n, M, b
  <1>10. \A i \in w + 1 .. M : x.key < a[i].key
    BY <1>5, <1>7
  <1>11. /\ \A i \in 1 .. M : i # w => b[i] = a[i]
         /\ b[w] = x
         /\ \A i, j \in w .. M : i < j => b[i].key < b[j].key
         /\ \A y : (\E i \in w .. M : b[i] = y) <=> y = x \/ \E i \in w + 1 .. M : a[i] = y
    BY <1>1, <1>5, <1>9, <1>10, PutBelow
  <1>12. \A i \in w .. M : i = w \/ (i # w /\ i \in w + 1 .. M /\ i \in 1 .. M)
    BY <1>1
  <1>13. t \in MergeStates(new)
    <2>1. r - 1 \in 0 .. Len(recs) /\ n \in 0 .. Len(new)
      BY <1>1
    <2>2. t = [mem |-> b, r |-> r - 1, n |-> n]
      BY DEF b, a, w, x, r, n
    <2>3. b \in [1 .. Len(recs) + Len(new) -> Record \cup {Blank}]
      BY <1>9 DEF M
    <2>4. [mem |-> b, r |-> r - 1, n |-> n] \in MergeStates(new)
      BY <2>1, <2>3 DEF MergeStates
    <2>5. QED
      BY <2>2, <2>4, Zenon
  <1>14. \A i \in 1 .. r - 1 : b[i] = recs[i]
    <2>1. \A i \in 1 .. r - 1 : i \in 1 .. r /\ i \in 1 .. M /\ i # w
      BY <1>1
    <2>2. QED
      BY <1>5, <1>11, <2>1
  <1>15. \A i \in w .. M : b[i] \in Record
    BY <1>5, <1>7, <1>11, <1>12
  <1>16. ASSUME NEW i \in w .. M, NEW j \in 1 .. r - 1 PROVE recs[j].key < b[i].key
    <2>1. j \in 1 .. r /\ j \in 1 .. Len(recs) /\ r \in 1 .. Len(recs) /\ j < r
      BY <1>1
    <2>2. recs[j].key < x.key
      BY <1>7, <2>1 DEF Rising
    <2>3. QED
      BY <1>5, <1>11, <1>12, <2>1, <2>2
  <1>17. ASSUME NEW i \in w .. M, NEW j \in 1 .. n PROVE new[j].key < b[i].key
    <2>1. j \in 1 .. Len(new) /\ n \in 1 .. Len(new) /\ (j = n \/ j < n)
      BY <1>1
    <2>2. new[j].key \in Int /\ new[n].key \in Int /\ x.key \in Int
      BY <1>1, <1>7, <2>1, Records
    <2>3. j < n => new[j].key < new[n].key
      BY <2>1 DEF Rising
    <2>4. new[j].key < x.key
      BY <1>8, <2>1, <2>2, <2>3
    <2>5. QED
      BY <1>5, <1>11, <1>12, <2>4
  <1>18. ASSUME NEW y
         PROVE  (\E i \in w .. M : b[i] = y)
                  <=> \/ \E i \in (r - 1) + 1 .. Len(recs) : recs[i] = y
                      \/ \E i \in n + 1 .. Len(new) : new[i] = y
    <2>1. (\E i \in (r - 1) + 1 .. Len(recs) : recs[i] = y)
            <=> y = x \/ \E i \in r + 1 .. Len(recs) : recs[i] = y
      <3>1. \A i \in (r - 1) + 1 .. Len(recs) : i = r \/ i \in r + 1 .. Len(recs)
        BY <1>1
      <3>2. r \in (r - 1) + 1 .. Len(recs) /\ \A i \in r + 1 .. Len(recs) : i \in (r - 1) + 1 .. Len(recs)
        BY <1>1
      <3>3. QED
        BY <1>7, <3>1, <3>2
    <2>2. QED
      BY <1>6, <1>11, <2>1, Zenon
  <1>19. Merging(new, t)
    BY <1>3, <1>4, <1>11, <1>14, <1>15, <1>16, <1>17, <1>18 DEF Merging, r, n, M
  <1>20. QED
    BY <1>13, <1>19


\* A turn that takes a new one.
LEMMA TakeNew ==
    ASSUME recs \in Seq(Record), NEW new \in Seq(Record), Rising(new),
           NEW s \in MergeStates(new), Merging(new, s), s.n > 0,
           \A j \in 1 .. s.r : recs[j].key < new[s.n].key,
           NEW t, t = [mem |-> [s.mem EXCEPT ![s.r + s.n] = new[s.n]], r |-> s.r, n |-> s.n - 1]
    PROVE  t \in MergeStates(new) /\ Merging(new, t)
  <1>. DEFINE M == Len(recs) + Len(new)
              w == s.r + s.n
              a == s.mem
              x == new[s.n]
              b == [a EXCEPT ![w] = x]
              r == s.r
              n == s.n
  <1>1. /\ Len(recs) \in Nat /\ Len(new) \in Nat /\ M \in Nat
        /\ r \in 0 .. Len(recs) /\ n \in 1 .. Len(new) /\ w \in 1 .. M /\ r < w /\ r \in Nat /\ n \in Nat
        /\ a \in [1 .. M -> Record \cup {Blank}] /\ DOMAIN a = 1 .. M
    <2>1. Len(recs) \in Nat /\ Len(new) \in Nat /\ M \in Nat
      BY Records
    <2>2. r \in 0 .. Len(recs) /\ n \in 0 .. Len(new) /\ a \in [1 .. M -> Record \cup {Blank}]
      BY DEF MergeStates
    <2>3. QED
      BY <2>1, <2>2
  <1>2. Upper(new, s) = w + 1 .. M
    BY DEF Upper
  <1>3. t.mem = b /\ t.r = r /\ t.n = n - 1
    OBVIOUS
  <1>4. Upper(new, t) = w .. M
    BY <1>1, <1>3 DEF Upper
  <1>5. /\ \A i \in 1 .. r : a[i] = recs[i]
        /\ \A i \in w + 1 .. M : a[i] \in Record
        /\ \A i, j \in w + 1 .. M : i < j => a[i].key < a[j].key
        /\ \A i \in w + 1 .. M : \A j \in 1 .. r : recs[j].key < a[i].key
        /\ \A i \in w + 1 .. M : \A j \in 1 .. n : new[j].key < a[i].key
    BY <1>2 DEF Merging
  <1>6. \A y : (\E i \in w + 1 .. M : a[i] = y)
                 <=> \/ \E i \in r + 1 .. Len(recs) : recs[i] = y
                     \/ \E i \in n + 1 .. Len(new) : new[i] = y
    BY <1>2 DEF Merging
  <1>7. x = new[n] /\ x \in Record /\ n \in 1 .. n /\ \A j \in 1 .. r : recs[j].key < x.key
    <2>1. n \in 1 .. n
      BY <1>1
    <2>2. QED
      BY <1>1, <2>1, Records
  <1>9. b \in [1 .. M -> Record \cup {Blank}] /\ b = [a EXCEPT ![w] = x]
    BY <1>1, <1>7
  <1>. HIDE DEF w, a, x, r, n, M, b
  <1>10. \A i \in w + 1 .. M : x.key < a[i].key
    BY <1>5, <1>7
  <1>11. /\ \A i \in 1 .. M : i # w => b[i] = a[i]
         /\ b[w] = x
         /\ \A i, j \in w .. M : i < j => b[i].key < b[j].key
         /\ \A y : (\E i \in w .. M : b[i] = y) <=> y = x \/ \E i \in w + 1 .. M : a[i] = y
    BY <1>1, <1>5, <1>9, <1>10, PutBelow
  <1>12. \A i \in w .. M : i = w \/ (i # w /\ i \in w + 1 .. M /\ i \in 1 .. M)
    BY <1>1
  <1>13. t \in MergeStates(new)
    <2>1. r \in 0 .. Len(recs) /\ n - 1 \in 0 .. Len(new)
      BY <1>1
    <2>2. t = [mem |-> b, r |-> r, n |-> n - 1]
      BY DEF b, a, w, x, r, n
    <2>3. b \in [1 .. Len(recs) + Len(new) -> Record \cup {Blank}]
      BY <1>9 DEF M
    <2>4. [mem |-> b, r |-> r, n |-> n - 1] \in MergeStates(new)
      BY <2>1, <2>3 DEF MergeStates
    <2>5. QED
      BY <2>2, <2>4, Zenon
  <1>14. \A i \in 1 .. r : b[i] = recs[i]
    <2>1. \A i \in 1 .. r : i \in 1 .. M /\ i # w
      BY <1>1
    <2>2. QED
      BY <1>5, <1>11, <2>1
  <1>15. \A i \in w .. M : b[i] \in Record
    BY <1>5, <1>7, <1>11, <1>12
  <1>16. ASSUME NEW i \in w .. M, NEW j \in 1 .. r PROVE recs[j].key < b[i].key
    BY <1>5, <1>7, <1>11, <1>12
  <1>17. ASSUME NEW i \in w .. M, NEW j \in 1 .. n - 1 PROVE new[j].key < b[i].key
    <2>1. j \in 1 .. Len(new) /\ n \in 1 .. Len(new) /\ j < n /\ j \in 1 .. n
      BY <1>1
    <2>2. new[j].key < x.key
      BY <1>7, <2>1 DEF Rising
    <2>3. QED
      BY <1>5, <1>11, <1>12, <2>1, <2>2
  <1>18. ASSUME NEW y
         PROVE  (\E i \in w .. M : b[i] = y)
                  <=> \/ \E i \in r + 1 .. Len(recs) : recs[i] = y
                      \/ \E i \in (n - 1) + 1 .. Len(new) : new[i] = y
    <2>1. (\E i \in (n - 1) + 1 .. Len(new) : new[i] = y)
            <=> y = x \/ \E i \in n + 1 .. Len(new) : new[i] = y
      <3>1. \A i \in (n - 1) + 1 .. Len(new) : i = n \/ i \in n + 1 .. Len(new)
        BY <1>1
      <3>2. n \in (n - 1) + 1 .. Len(new) /\ \A i \in n + 1 .. Len(new) : i \in (n - 1) + 1 .. Len(new)
        BY <1>1
      <3>3. QED
        BY <1>7, <3>1, <3>2
    <2>2. QED
      BY <1>6, <1>11, <2>1, Zenon
  <1>19. Merging(new, t)
    BY <1>3, <1>4, <1>11, <1>14, <1>15, <1>16, <1>17, <1>18 DEF Merging, r, n, M
  <1>20. QED
    BY <1>13, <1>19

\* The states of the merge after m turns: all m of them wrote a place, unless the new
\* records ran out.
MergeLoop(new) ==
    [m \in 0 .. Len(recs) + Len(new) |->
       {s \in MergeStates(new) :
          Merging(new, s) /\ (s.n = 0 \/ (Len(recs) - s.r) + (Len(new) - s.n) = m)}]

LEMMA MergeTurnStep ==
    ASSUME recs \in Seq(Record), Rising(recs), NEW new \in Seq(Record), Rising(new),
           \A i \in 1 .. Len(new) : At(new[i].key) = {},
           NEW m \in 1 .. Len(recs) + Len(new), NEW s \in MergeLoop(new)[m - 1]
    PROVE  MergeTurn(new, s) \in MergeLoop(new)[m]
  <1>. DEFINE t == MergeTurn(new, s)
              Left(u) == (Len(recs) - u.r) + (Len(new) - u.n)
  <1>1. /\ Len(recs) \in Nat /\ Len(new) \in Nat /\ DOMAIN recs = 1 .. Len(recs)
        /\ m \in 0 .. Len(recs) + Len(new) /\ m - 1 \in 0 .. Len(recs) + Len(new)
    <2>1. Len(recs) \in Nat /\ Len(new) \in Nat /\ DOMAIN recs = 1 .. Len(recs)
      BY Records
    <2>2. QED
      BY <2>1
  <1>2. s \in MergeStates(new) /\ Merging(new, s) /\ (s.n = 0 \/ Left(s) = m - 1)
    BY <1>1 DEF MergeLoop
  <1>3. SUFFICES t \in MergeStates(new) /\ Merging(new, t) /\ (t.n = 0 \/ Left(t) = m)
    BY <1>1 DEF MergeLoop
  <1>4. s.r \in 0 .. Len(recs) /\ s.n \in 0 .. Len(new)
    BY <1>2 DEF MergeStates
  <1>5. CASE s.n = 0
    BY <1>2, <1>5 DEF MergeTurn
  <1>6. CASE s.n > 0
    <2>1. s.n \in 1 .. Len(new) /\ s.n # 0
      BY <1>1, <1>4, <1>6
    <2>. DEFINE k == new[s.n].key
    <2>2. k \in Keys /\ k \in Int
      BY <2>1, Records
    <2>3. /\ Before(k) \in 0 .. Len(recs)
          /\ \A i \in 1 .. Len(recs) : recs[i].key < k <=> i <= Before(k)
      BY <2>2, BeforeIs
    <2>4. \A i \in 1 .. Len(recs) : recs[i].key # k /\ recs[i].key \in Int
      BY <1>1, <2>1, Records DEF At
    <2>. HIDE DEF k
    <2>5. CASE s.r > 0 /\ s.r > Before(k)
      <3>1. t = [mem |-> [s.mem EXCEPT ![s.r + s.n] = s.mem[s.r]], r |-> s.r - 1, n |-> s.n]
        BY <2>1, <2>5, Zenon DEF MergeTurn, k
      <3>2. k < recs[s.r].key
        <4>1. s.r \in 1 .. Len(recs) /\ ~(s.r <= Before(k))
          BY <1>1, <1>4, <2>3, <2>5
        <4>2. QED
          BY <2>2, <2>3, <2>4, <4>1
      <3>. HIDE DEF t
      <3>3. t \in MergeStates(new) /\ Merging(new, t)
        BY <1>2, <1>6, <2>5, <3>1, <3>2, TakeOld DEF k
      <3>4. Left(t) = Left(s) + 1
        <4>1. t.r = s.r - 1 /\ t.n = s.n
          BY <3>1
        <4>2. QED
          BY <1>1, <1>4, <4>1
      <3>5. QED
        BY <1>1, <1>2, <2>1, <3>3, <3>4
    <2>6. CASE ~(s.r > 0 /\ s.r > Before(k))
      <3>1. t = [mem |-> [s.mem EXCEPT ![s.r + s.n] = new[s.n]], r |-> s.r, n |-> s.n - 1]
        BY <2>1, <2>6, Zenon DEF MergeTurn, k
      <3>2. \A j \in 1 .. s.r : recs[j].key < k
        <4>1. \A j \in 1 .. s.r : j \in 1 .. Len(recs) /\ j <= Before(k)
          BY <1>1, <1>4, <2>3, <2>6
        <4>2. QED
          BY <2>3, <4>1
      <3>. HIDE DEF t
      <3>3. t \in MergeStates(new) /\ Merging(new, t)
        BY <1>2, <1>6, <3>1, <3>2, TakeNew DEF k
      <3>4. Left(t) = Left(s) + 1
        <4>1. t.r = s.r /\ t.n = s.n - 1
          BY <3>1
        <4>2. QED
          BY <1>1, <1>4, <4>1
      <3>5. QED
        BY <1>1, <1>2, <2>1, <3>3, <3>4
    <2>7. QED
      BY <2>5, <2>6
  <1>7. QED
    BY <1>4, <1>5, <1>6


\* The merge of new records, whose keys are not in the table, leaves the sorted table of
\* the old ones and them.
LEMMA MergeIs ==
    ASSUME recs \in Seq(Record), Rising(recs), NEW new \in Seq(Record), Rising(new),
           \A i \in 1 .. Len(new) : At(new[i].key) = {}
    PROVE  /\ MergeIn(new) \in Seq(Record) /\ Rising(MergeIn(new))
           /\ Len(MergeIn(new)) = Len(recs) + Len(new)
           /\ \A x \in Record : In(MergeIn(new), x) <=> In(recs, x) \/ In(new, x)
  <1>. DEFINE M == Len(recs) + Len(new)
              blanks == [i \in 1 .. Len(new) |-> Blank]
              room == recs \o blanks
              s0 == [mem |-> room, r |-> Len(recs), n |-> Len(new)]
              Is(g) == g = [m \in 0 .. M |-> IF m = 0 THEN s0 ELSE MergeTurn(new, g[m - 1])]
              S == MergeLoop(new)
              step == [m \in 1 .. M |-> [s \in S[m - 1] |-> MergeTurn(new, s)]]
              turn == CHOOSE g : Is(g)
  <1>1. Len(recs) \in Nat /\ Len(new) \in Nat /\ M \in Nat
    BY Records
  <1>2. s0 \in S[0]
    <2>1. /\ room \in Seq(Record \cup {Blank}) /\ Len(room) = M
          /\ \A i \in 1 .. M : room[i] = IF i <= Len(recs) THEN recs[i] ELSE blanks[i - Len(recs)]
      <3>1. blanks \in Seq(Record \cup {Blank}) /\ Len(blanks) = Len(new)
        BY <1>1
      <3>2. recs \in Seq(Record \cup {Blank})
        BY Records
      <3>. HIDE DEF blanks
      <3>3. QED
        BY <3>1, <3>2, ConcatProperties
    <2>. HIDE DEF room
    <2>2. room \in [1 .. M -> Record \cup {Blank}]
      BY <2>1
    <2>3. \A i \in 1 .. Len(recs) : room[i] = recs[i]
      BY <1>1, <2>1
    <2>4. s0 \in MergeStates(new)
      BY <1>1, <2>2 DEF MergeStates
    <2>5. s0.mem = room /\ s0.r = Len(recs) /\ s0.n = Len(new)
      OBVIOUS
    <2>. HIDE DEF s0
    <2>6. Upper(new, s0) = {}
      BY <1>1, <2>5 DEF Upper
    <2>7. ~ \E i \in s0.r + 1 .. Len(recs) : TRUE
      BY <1>1, <2>5
    <2>8. ~ \E i \in s0.n + 1 .. Len(new) : TRUE
      BY <1>1, <2>5
    <2>9. Merging(new, s0)
      BY <2>3, <2>5, <2>6, <2>7, <2>8 DEF Merging
    <2>10. (Len(recs) - s0.r) + (Len(new) - s0.n) = 0
      BY <1>1, <2>5
    <2>11. 0 \in 0 .. Len(recs) + Len(new)
      BY <1>1
    <2>12. QED
      BY <2>4, <2>9, <2>10, <2>11 DEF MergeLoop
  <1>3. \A m \in 1 .. M : \A s \in S[m - 1] : MergeTurn(new, s) \in S[m]
    BY MergeTurnStep
  <1>. HIDE DEF M, S, s0
  <1>4. \A m \in 1 .. M : \A s \in S[m - 1] : step[m][s] = MergeTurn(new, s)
    OBVIOUS
  <1>5. PICK g : Runs(g, M, s0, step) /\ \A m \in 0 .. M : g[m] \in S[m]
    <2>. HIDE DEF step
    <2>1. \A m \in 1 .. M : \A s \in S[m - 1] : step[m][s] \in S[m]
      BY <1>3, <1>4
    <2>2. QED
      BY <1>1, <1>2, <2>1, LoopExists
  <1>6. Is(g)
    <2>. HIDE DEF step
    <2>1. \A m \in 0 .. M : m # 0 => m \in 1 .. M /\ m - 1 \in 0 .. M
      BY <1>1
    <2>2. \A m \in 0 .. M : g[m] = IF m = 0 THEN s0 ELSE MergeTurn(new, g[m - 1])
      BY <1>4, <1>5, <2>1 DEF Runs
    <2>3. g = [m \in 0 .. M |-> g[m]]
      BY <1>5 DEF Runs
    <2>4. QED
      BY <2>2, <2>3, Zenon
  <1>7. Is(turn)
    <2>. HIDE DEF Is
    <2>1. QED
      BY <1>6
  <1>8. \A m \in 0 .. M : turn[m] \in S[m]
    <2>. HIDE DEF turn
    <2>1. \A m \in 0 .. M : turn[m] = IF m = 0 THEN s0 ELSE MergeTurn(new, turn[m - 1])
      BY <1>7
    <2>. HIDE DEF Is, step
    <2>2. turn[0] \in S[0]
      <3>1. 0 \in 0 .. M
        BY <1>1
      <3>2. turn[0] = s0
        BY <2>1, <3>1
      <3>3. QED
        BY <1>2, <3>2
    <2>3. \A m \in 1 .. M : turn[m - 1] \in S[m - 1] => turn[m] \in S[m]
      <3>1. \A m \in 1 .. M : m \in 0 .. M /\ m # 0
        BY <1>1
      <3>2. QED
        BY <1>3, <2>1, <3>1
    <2>4. QED
      BY <1>1, <2>2, <2>3, LoopKeeps
  <1>. DEFINE e == turn[M]
              f == e.mem
  <1>9. MergeIn(new) = f
    BY Zenon DEF MergeIn, M, s0
  <1>10. e \in MergeStates(new) /\ Merging(new, e) /\ (e.n = 0 \/ (Len(recs) - e.r) + (Len(new) - e.n) = M)
    <2>. HIDE DEF turn
    <2>1. M \in 0 .. M
      BY <1>1
    <2>2. e \in S[M]
      BY <1>8, <2>1
    <2>3. QED
      BY <2>1, <2>2 DEF S, M, MergeLoop
  <1>. HIDE DEF e
  <1>11. e.n = 0 /\ e.r \in 0 .. Len(recs) /\ f \in [1 .. M -> Record \cup {Blank}]
    BY <1>1, <1>10 DEF MergeStates, M
  <1>. DEFINE r == e.r
  <1>12. Upper(new, e) = r + 1 .. M
    BY <1>11 DEF Upper, M
  <1>13. /\ \A i \in 1 .. r : f[i] = recs[i]
         /\ \A i \in r + 1 .. M : f[i] \in Record
         /\ \A i, j \in r + 1 .. M : i < j => f[i].key < f[j].key
         /\ \A i \in r + 1 .. M : \A j \in 1 .. r : recs[j].key < f[i].key
    BY <1>10, <1>12 DEF Merging
  <1>14. \A y : (\E i \in r + 1 .. M : f[i] = y)
                  <=> (\E i \in r + 1 .. Len(recs) : recs[i] = y) \/ In(new, y)
    <2>1. e.n + 1 = 1
      BY <1>11
    <2>2. QED
      BY <1>10, <1>12, <2>1 DEF Merging, In
  <1>. HIDE DEF f, r
  <1>15. r \in 0 .. Len(recs)
    BY <1>11 DEF r
  <1>16. \A i \in 1 .. M : i \in 1 .. r \/ i \in r + 1 .. M
    BY <1>1, <1>15
  <1>17. \A i \in 1 .. r : i \in 1 .. M /\ i \in 1 .. Len(recs)
    BY <1>1, <1>15 DEF M
  <1>18. f \in Seq(Record) /\ Len(f) = M
    <2>1. \A i \in 1 .. M : f[i] \in Record
      BY <1>13, <1>16, <1>17, Records
    <2>2. f \in [1 .. M -> Record]
      BY <1>11, <2>1
    <2>3. QED
      BY <1>1, <2>2
  <1>19. ASSUME NEW i \in 1 .. M, NEW j \in 1 .. M, i < j PROVE f[i].key < f[j].key
    <2>1. CASE j \in 1 .. r
      <3>1. i \in 1 .. r
        BY <1>15, <1>19, <2>1
      <3>2. QED
        BY <1>13, <1>17, <1>19, <2>1, <3>1 DEF Rising
    <2>2. CASE j \in r + 1 .. M
      BY <1>13, <1>16, <1>19, <2>2
    <2>3. QED
      BY <1>16, <2>1, <2>2
  <1>20. ASSUME NEW y PROVE In(f, y) <=> In(recs, y) \/ In(new, y)
    <2>1. (\E i \in 1 .. M : f[i] = y)
            <=> (\E i \in 1 .. r : recs[i] = y) \/ (\E i \in r + 1 .. M : f[i] = y)
      <3>1. \A i \in r + 1 .. M : i \in 1 .. M
        BY <1>1, <1>15
      <3>2. QED
        BY <1>13, <1>16, <1>17, <3>1
    <2>2. In(recs, y) <=> (\E i \in 1 .. r : recs[i] = y) \/ (\E i \in r + 1 .. Len(recs) : recs[i] = y)
      <3>1. \A i \in 1 .. Len(recs) : i \in 1 .. r \/ i \in r + 1 .. Len(recs)
        BY <1>1, <1>15
      <3>2. \A i \in r + 1 .. Len(recs) : i \in 1 .. Len(recs)
        BY <1>1, <1>15
      <3>3. QED
        BY <1>17, <3>1, <3>2 DEF In
    <2>3. In(f, y) <=> \E i \in 1 .. M : f[i] = y
      BY <1>18 DEF In
    <2>4. QED
      BY <1>14, <2>1, <2>2, <2>3, Zenon
  <1>21. QED
    BY <1>9, <1>18, <1>19, <1>20 DEF Rising, M


-----------------------------------------------------------------------------
(* BatchDelete *)

Ascending(ks) == \A i, j \in 1 .. Len(ks) : i < j => ks[i] <= ks[j]
Taken(ks, k) == \E i \in 1 .. Len(ks) : ks[i] = k

\* What the sift is in the middle of: in front of the place to write on are the records read
\* whose keys the batch does not take out; the batch has passed only keys smaller than those
\* to read.
SiftStates(ks) ==
    [mem : [1 .. Len(recs) -> Record], read : 1 .. Len(recs) + 1,
     write : 1 .. Len(recs) + 1, k : 1 .. Len(ks) + 1]

Sifting(ks, s) ==
    /\ s.write <= s.read
    /\ \A i \in s.read .. Len(recs) : s.mem[i] = recs[i]
    /\ \A i, j \in 1 .. s.write - 1 : i < j => s.mem[i].key < s.mem[j].key
    /\ \A y : (\E i \in 1 .. s.write - 1 : s.mem[i] = y)
                <=> ~Taken(ks, y.key) /\ \E i \in 1 .. s.read - 1 : recs[i] = y
    /\ \A j \in 1 .. s.k - 1 : \A i \in s.read .. Len(recs) : ks[j] < recs[i].key

\* A record whose key the batch takes out.
LEMMA SiftDrop ==
    ASSUME recs \in Seq(Record), Rising(recs), NEW ks \in Seq(Keys), Ascending(ks),
           NEW s \in SiftStates(ks), Sifting(ks, s), s.read <= Len(recs),
           s.k <= Len(ks), recs[s.read].key = ks[s.k],
           NEW t, t = [mem |-> s.mem, read |-> s.read + 1, write |-> s.write, k |-> s.k + 1]
    PROVE  t \in SiftStates(ks) /\ Sifting(ks, t)
  <1>. DEFINE n == Len(recs)
              r == s.read
              w == s.write
              k == s.k
              a == s.mem
  <1>1. /\ n \in Nat /\ r \in 1 .. n /\ w \in 1 .. n + 1 /\ k \in 1 .. Len(ks) /\ Len(ks) \in Nat
        /\ a \in [1 .. n -> Record]
    <2>1. n \in Nat /\ Len(ks) \in Nat
      BY Records
    <2>2. r \in 1 .. n + 1 /\ w \in 1 .. n + 1 /\ k \in 1 .. Len(ks) + 1 /\ a \in [1 .. n -> Record]
      BY DEF SiftStates
    <2>3. QED
      BY <2>1, <2>2
  <1>2. t.mem = a /\ t.read = r + 1 /\ t.write = w /\ t.k = k + 1
    OBVIOUS
  <1>3. /\ w <= r
        /\ \A i \in r .. n : a[i] = recs[i]
        /\ \A i, j \in 1 .. w - 1 : i < j => a[i].key < a[j].key
        /\ \A j \in 1 .. k - 1 : \A i \in r .. n : ks[j] < recs[i].key
    BY DEF Sifting
  <1>4. \A y : (\E i \in 1 .. w - 1 : a[i] = y)
                  <=> ~Taken(ks, y.key) /\ \E i \in 1 .. r - 1 : recs[i] = y
    BY DEF Sifting
  <1>5. recs[r].key = ks[k]
    OBVIOUS
  <1>6. t \in SiftStates(ks)
    <2>1. r + 1 \in 1 .. n + 1 /\ k + 1 \in 1 .. Len(ks) + 1
      BY <1>1
    <2>2. t = [mem |-> a, read |-> r + 1, write |-> w, k |-> k + 1]
      OBVIOUS
    <2>. HIDE DEF a, r, w, k
    <2>3. [mem |-> a, read |-> r + 1, write |-> w, k |-> k + 1] \in SiftStates(ks)
      BY <1>1, <2>1 DEF SiftStates
    <2>4. QED
      BY <2>2, <2>3, Zenon
  <1>. HIDE DEF n, r, w, k, a
  <1>7. w <= r + 1 /\ (\A i \in r + 1 .. n : i \in r .. n) /\ \A i \in r + 1 .. n : a[i] = recs[i]
    <2>1. w <= r + 1 /\ \A i \in r + 1 .. n : i \in r .. n
      BY <1>1, <1>3
    <2>2. QED
      BY <1>3, <2>1
  <1>8. ASSUME NEW y
        PROVE  (\E i \in 1 .. w - 1 : a[i] = y)
                  <=> ~Taken(ks, y.key) /\ \E i \in 1 .. (r + 1) - 1 : recs[i] = y
    <2>1. (\A i \in 1 .. (r + 1) - 1 : i = r \/ i \in 1 .. r - 1) /\ \A i \in 1 .. r - 1 : i \in 1 .. (r + 1) - 1
      BY <1>1
    <2>2. Taken(ks, recs[r].key)
      BY <1>1, <1>5 DEF Taken
    <2>3. QED
      BY <1>4, <2>1, <2>2
  <1>9. ASSUME NEW j \in 1 .. (k + 1) - 1, NEW i \in r + 1 .. n PROVE ks[j] < recs[i].key
    <2>1. j = k \/ j \in 1 .. k - 1
      BY <1>1
    <2>2. r \in 1 .. Len(recs) /\ i \in 1 .. Len(recs) /\ r < i
      BY <1>1 DEF n
    <2>3. ks[k] < recs[i].key
      BY <1>5, <2>2 DEF Rising
    <2>4. QED
      BY <1>3, <1>7, <2>1, <2>3
  <1>10. Sifting(ks, t)
    <2>1. t.write <= t.read /\ \A i \in t.read .. Len(recs) : t.mem[i] = recs[i]
      BY <1>2, <1>7 DEF n
    <2>2. \A i, j \in 1 .. t.write - 1 : i < j => t.mem[i].key < t.mem[j].key
      BY <1>2, <1>3
    <2>3. \A y : (\E i \in 1 .. t.write - 1 : t.mem[i] = y)
                    <=> ~Taken(ks, y.key) /\ \E i \in 1 .. t.read - 1 : recs[i] = y
      BY <1>2, <1>8
    <2>4. \A j \in 1 .. t.k - 1 : \A i \in t.read .. Len(recs) : ks[j] < recs[i].key
      BY <1>2, <1>9 DEF n
    <2>5. QED
      BY <2>1, <2>2, <2>3, <2>4, Zenon DEF Sifting
  <1>11. QED
    BY <1>6, <1>10

\* A key of the batch that is not in the table.
LEMMA SiftPass ==
    ASSUME recs \in Seq(Record), Rising(recs), NEW ks \in Seq(Keys),
           NEW s \in SiftStates(ks), Sifting(ks, s), s.read <= Len(recs),
           s.k <= Len(ks), recs[s.read].key > ks[s.k],
           NEW t, t = [mem |-> s.mem, read |-> s.read, write |-> s.write, k |-> s.k + 1]
    PROVE  t \in SiftStates(ks) /\ Sifting(ks, t)
  <1>. DEFINE n == Len(recs)
              r == s.read
              k == s.k
  <1>1. /\ n \in Nat /\ r \in 1 .. n /\ k \in 1 .. Len(ks) /\ Len(ks) \in Nat
        /\ s.write \in 1 .. n + 1 /\ s.mem \in [1 .. n -> Record]
    <2>1. n \in Nat /\ Len(ks) \in Nat
      BY Records
    <2>2. r \in 1 .. n + 1 /\ s.write \in 1 .. n + 1 /\ k \in 1 .. Len(ks) + 1 /\ s.mem \in [1 .. n -> Record]
      BY DEF SiftStates
    <2>3. QED
      BY <2>1, <2>2
  <1>2. t.mem = s.mem /\ t.read = r /\ t.write = s.write /\ t.k = k + 1
    OBVIOUS
  <1>3. \A j \in 1 .. k - 1 : \A i \in r .. n : ks[j] < recs[i].key
    BY DEF Sifting
  <1>4. recs[r].key > ks[k]
    OBVIOUS
  <1>5. t \in SiftStates(ks)
    <2>1. k + 1 \in 1 .. Len(ks) + 1 /\ r \in 1 .. n + 1
      BY <1>1
    <2>2. t = [mem |-> s.mem, read |-> r, write |-> s.write, k |-> k + 1]
      OBVIOUS
    <2>. HIDE DEF r, k
    <2>3. [mem |-> s.mem, read |-> r, write |-> s.write, k |-> k + 1] \in SiftStates(ks)
      BY <1>1, <2>1 DEF SiftStates
    <2>4. QED
      BY <2>2, <2>3, Zenon
  <1>. HIDE DEF n, r, k
  <1>6. ASSUME NEW j \in 1 .. (k + 1) - 1, NEW i \in r .. n PROVE ks[j] < recs[i].key
    <2>1. j = k \/ j \in 1 .. k - 1
      BY <1>1
    <2>2. r \in 1 .. Len(recs) /\ i \in 1 .. Len(recs) /\ (r < i \/ r = i) /\ k \in 1 .. Len(ks)
      BY <1>1 DEF n
    <2>3. recs[r].key \in Int /\ recs[i].key \in Int /\ ks[k] \in Int
      <3>1. ks[k] \in Keys
        BY <2>2
      <3>2. QED
        BY <2>2, <3>1, Records, SortAssumption DEF SortAssumption
    <2>4. r < i => recs[r].key < recs[i].key
      BY <2>2 DEF Rising
    <2>5. ks[k] < recs[i].key
      BY <1>4, <2>2, <2>3, <2>4
    <2>6. QED
      BY <1>3, <2>1, <2>5
  <1>7. Sifting(ks, t)
    BY <1>2, <1>6 DEF Sifting, n, r, k
  <1>8. QED
    BY <1>5, <1>7

\* A record that stays.
LEMMA SiftCopy ==
    ASSUME recs \in Seq(Record), Rising(recs), NEW ks \in Seq(Keys),
           NEW s \in SiftStates(ks), Sifting(ks, s), s.read <= Len(recs),
           ~Taken(ks, recs[s.read].key),
           NEW t, t = [mem |-> [s.mem EXCEPT ![s.write] = s.mem[s.read]],
                       read |-> s.read + 1, write |-> s.write + 1, k |-> s.k]
    PROVE  t \in SiftStates(ks) /\ Sifting(ks, t)
  <1>. DEFINE n == Len(recs)
              r == s.read
              w == s.write
              k == s.k
              a == s.mem
              b == [a EXCEPT ![w] = a[r]]
  <1>1. /\ n \in Nat /\ r \in 1 .. n /\ w \in 1 .. n + 1 /\ k \in 1 .. Len(ks) + 1 /\ Len(ks) \in Nat
        /\ a \in [1 .. n -> Record]
    <2>1. n \in Nat /\ Len(ks) \in Nat
      BY Records
    <2>2. r \in 1 .. n + 1 /\ w \in 1 .. n + 1 /\ k \in 1 .. Len(ks) + 1 /\ a \in [1 .. n -> Record]
      BY DEF SiftStates
    <2>3. QED
      BY <2>1, <2>2
  <1>2. t.mem = b /\ t.read = r + 1 /\ t.write = w + 1 /\ t.k = k
    OBVIOUS
  <1>3. /\ w <= r
        /\ \A i \in r .. n : a[i] = recs[i]
        /\ \A i, j \in 1 .. w - 1 : i < j => a[i].key < a[j].key
        /\ \A j \in 1 .. k - 1 : \A i \in r .. n : ks[j] < recs[i].key
    BY DEF Sifting
  <1>4. \A y : (\E i \in 1 .. w - 1 : a[i] = y)
                  <=> ~Taken(ks, y.key) /\ \E i \in 1 .. r - 1 : recs[i] = y
    BY DEF Sifting
  <1>5. ~Taken(ks, recs[r].key)
    OBVIOUS
  <1>6. t = [mem |-> b, read |-> r + 1, write |-> w + 1, k |-> k]
    OBVIOUS
  <1>7. w \in 1 .. n /\ r \in r .. n /\ a[r] = recs[r] /\ b \in [1 .. n -> Record]
        /\ b[w] = recs[r] /\ \A i \in 1 .. n : i # w => b[i] = a[i]
    <2>1. w \in 1 .. n /\ r \in r .. n
      BY <1>1, <1>3
    <2>2. a[r] = recs[r]
      BY <1>3, <2>1
    <2>3. QED
      BY <1>1, <2>1, <2>2
  <1>. HIDE DEF n, r, w, k, a, b
  <1>8. t \in SiftStates(ks)
    <2>1. r + 1 \in 1 .. n + 1 /\ w + 1 \in 1 .. n + 1
      BY <1>1, <1>7
    <2>2. [mem |-> b, read |-> r + 1, write |-> w + 1, k |-> k] \in SiftStates(ks)
      BY <1>1, <1>7, <2>1 DEF SiftStates, n
    <2>3. QED
      BY <1>6, <2>2, Zenon
  <1>9. \A i \in r + 1 .. n : i \in r .. n /\ i \in 1 .. n /\ i # w
    BY <1>1, <1>3
  <1>10. \A i \in 1 .. (w + 1) - 1 : i = w \/ (i \in 1 .. w - 1 /\ i \in 1 .. n /\ i # w)
    BY <1>1, <1>7
  <1>11. w \in 1 .. (w + 1) - 1 /\ \A i \in 1 .. w - 1 : i \in 1 .. (w + 1) - 1
    BY <1>1
  <1>12. \A i \in r + 1 .. n : b[i] = recs[i]
    BY <1>3, <1>7, <1>9
  <1>13. ASSUME NEW i \in 1 .. (w + 1) - 1, NEW j \in 1 .. (w + 1) - 1, i < j
         PROVE  b[i].key < b[j].key
    <2>1. i \in 1 .. w - 1 /\ i \in 1 .. n /\ i # w
      BY <1>1, <1>7, <1>13
    <2>2. b[i] = a[i]
      BY <1>7, <2>1
    <2>3. CASE j = w
      <3>1. PICK l \in 1 .. r - 1 : recs[l] = a[i]
        BY <1>4, <2>1
      <3>2. l \in 1 .. Len(recs) /\ r \in 1 .. Len(recs) /\ l < r
        BY <1>1, <3>1 DEF n
      <3>3. recs[l].key < recs[r].key
        BY <3>2 DEF Rising
      <3>4. QED
        BY <1>7, <2>2, <2>3, <3>1, <3>3
    <2>4. CASE j # w
      BY <1>3, <1>7, <1>10, <1>13, <2>1, <2>2, <2>4
    <2>5. QED
      BY <2>3, <2>4
  <1>14. ASSUME NEW y
         PROVE  (\E i \in 1 .. (w + 1) - 1 : b[i] = y)
                  <=> ~Taken(ks, y.key) /\ \E i \in 1 .. (r + 1) - 1 : recs[i] = y
    <2>1. (\E i \in 1 .. (w + 1) - 1 : b[i] = y) <=> y = recs[r] \/ \E i \in 1 .. w - 1 : a[i] = y
      BY <1>7, <1>10, <1>11
    <2>2. (\E i \in 1 .. (r + 1) - 1 : recs[i] = y) <=> y = recs[r] \/ \E i \in 1 .. r - 1 : recs[i] = y
      <3>1. (\A i \in 1 .. (r + 1) - 1 : i = r \/ i \in 1 .. r - 1) /\ \A i \in 1 .. r - 1 : i \in 1 .. (r + 1) - 1
        BY <1>1
      <3>2. r \in 1 .. (r + 1) - 1
        BY <1>1
      <3>3. QED
        BY <3>1, <3>2
    <2>3. QED
      BY <1>4, <1>5, <2>1, <2>2
  <1>15. w + 1 <= r + 1
    BY <1>1, <1>3
  <1>16. \A j \in 1 .. k - 1 : \A i \in r + 1 .. n : ks[j] < recs[i].key
    BY <1>3, <1>9
  <1>17. Sifting(ks, t)
    <2>1. t.write <= t.read /\ \A i \in t.read .. Len(recs) : t.mem[i] = recs[i]
      BY <1>2, <1>12, <1>15 DEF n
    <2>2. \A i, j \in 1 .. t.write - 1 : i < j => t.mem[i].key < t.mem[j].key
      BY <1>2, <1>13
    <2>3. \A y : (\E i \in 1 .. t.write - 1 : t.mem[i] = y)
                    <=> ~Taken(ks, y.key) /\ \E i \in 1 .. t.read - 1 : recs[i] = y
      BY <1>2, <1>14
    <2>4. \A j \in 1 .. t.k - 1 : \A i \in t.read .. Len(recs) : ks[j] < recs[i].key
      BY <1>2, <1>16 DEF n
    <2>5. QED
      BY <2>1, <2>2, <2>3, <2>4, Zenon DEF Sifting
  <1>18. QED
    BY <1>8, <1>17


\* The states of the sift after m turns: each of them read a record or passed a key, unless
\* the records ran out.
SiftLoop(ks) ==
    [m \in 0 .. Len(recs) + Len(ks) |->
       {s \in SiftStates(ks) :
          Sifting(ks, s) /\ (s.read = Len(recs) + 1 \/ (s.read - 1) + (s.k - 1) >= m)}]

LEMMA SiftTurnStep ==
    ASSUME recs \in Seq(Record), Rising(recs), NEW ks \in Seq(Keys), Ascending(ks),
           NEW m \in 1 .. Len(recs) + Len(ks), NEW s \in SiftLoop(ks)[m - 1]
    PROVE  SiftTurn(ks, s) \in SiftLoop(ks)[m]
  <1>. DEFINE t == SiftTurn(ks, s)
              Far(u, i) == u.read = Len(recs) + 1 \/ (u.read - 1) + (u.k - 1) >= i
              k == ks[s.k]
              x == recs[s.read]
  <1>1. /\ Len(recs) \in Nat /\ Len(ks) \in Nat
        /\ m \in 0 .. Len(recs) + Len(ks) /\ m - 1 \in 0 .. Len(recs) + Len(ks)
    <2>1. Len(recs) \in Nat /\ Len(ks) \in Nat
      BY Records
    <2>2. QED
      BY <2>1
  <1>2. s \in SiftStates(ks) /\ Sifting(ks, s) /\ Far(s, m - 1)
    BY <1>1 DEF SiftLoop
  <1>3. SUFFICES t \in SiftStates(ks) /\ Sifting(ks, t) /\ Far(t, m)
    BY <1>1 DEF SiftLoop
  <1>4. s.read \in 1 .. Len(recs) + 1 /\ s.k \in 1 .. Len(ks) + 1
    BY <1>2 DEF SiftStates
  <1>5. CASE s.read > Len(recs)
    <2>1. t = s
      BY <1>5, Zenon DEF SiftTurn
    <2>2. s.read = Len(recs) + 1
      BY <1>1, <1>4, <1>5
    <2>. HIDE DEF t
    <2>3. QED
      BY <1>2, <2>1, <2>2
  <1>6. CASE s.read <= Len(recs)
    <2>1. s.read \in 1 .. Len(recs) /\ ~(s.read > Len(recs)) /\ s.read \in s.read .. Len(recs)
      BY <1>1, <1>4, <1>6
    <2>2. s.mem[s.read] = x
      BY <1>2, <2>1 DEF Sifting
    <2>3. x.key \in Int
      BY <2>1, Records
    <2>4. \A j \in 1 .. Len(ks) : ks[j] \in Int
      <3>1. \A j \in 1 .. Len(ks) : ks[j] \in Keys
        OBVIOUS
      <3>2. QED
        BY <3>1, SortAssumption DEF SortAssumption
    <2>5. \A j \in 1 .. s.k - 1 : ks[j] < x.key
      BY <1>2, <2>1 DEF Sifting
    <2>6. s.k <= Len(ks) => s.k \in 1 .. Len(ks) /\ k \in Int
      BY <1>1, <1>4, <2>4
    <2>7. Far(s, m - 1) /\ s.read # Len(recs) + 1
      BY <1>1, <1>2, <2>1
    <2>8. CASE s.k <= Len(ks) /\ x.key = k
      <3>1. t = [mem |-> s.mem, read |-> s.read + 1, write |-> s.write, k |-> s.k + 1]
        <4>1. s.k <= Len(ks) /\ s.mem[s.read].key = ks[s.k]
          BY <2>2, <2>8
        <4>2. QED
          BY <2>1, <4>1, Zenon DEF SiftTurn
      <3>. HIDE DEF t
      <3>2. t \in SiftStates(ks) /\ Sifting(ks, t)
        BY <1>2, <1>6, <2>8, <3>1, SiftDrop
      <3>3. t.read = s.read + 1 /\ t.k = s.k + 1
        BY <3>1
      <3>4. QED
        BY <1>1, <1>4, <2>7, <3>2, <3>3
    <2>9. CASE s.k <= Len(ks) /\ x.key > k
      <3>1. x.key # k
        BY <2>3, <2>6, <2>9
      <3>2. t = [mem |-> s.mem, read |-> s.read, write |-> s.write, k |-> s.k + 1]
        <4>1. ~(s.k <= Len(ks) /\ s.mem[s.read].key = ks[s.k])
          BY <2>2, <3>1
        <4>2. s.k <= Len(ks) /\ s.mem[s.read].key > ks[s.k]
          BY <2>2, <2>9
        <4>3. QED
          BY <2>1, <4>1, <4>2, Zenon DEF SiftTurn
      <3>. HIDE DEF t
      <3>3. t \in SiftStates(ks) /\ Sifting(ks, t)
        BY <1>2, <1>6, <2>9, <3>2, SiftPass
      <3>4. t.read = s.read /\ t.k = s.k + 1
        BY <3>2
      <3>5. QED
        BY <1>1, <1>4, <2>7, <3>3, <3>4
    <2>10. CASE ~(s.k <= Len(ks) /\ x.key = k) /\ ~(s.k <= Len(ks) /\ x.key > k)
      <3>1. t = [mem |-> [s.mem EXCEPT ![s.write] = s.mem[s.read]],
                 read |-> s.read + 1, write |-> s.write + 1, k |-> s.k]
        <4>1. ~(s.k <= Len(ks) /\ s.mem[s.read].key = ks[s.k])
          BY <2>2, <2>10
        <4>2. ~(s.k <= Len(ks) /\ s.mem[s.read].key > ks[s.k])
          BY <2>2, <2>10
        <4>3. QED
          BY <2>1, <4>1, <4>2, Zenon DEF SiftTurn
      <3>2. ~Taken(ks, x.key)
        <4>1. ASSUME NEW j \in 1 .. Len(ks), ks[j] = x.key PROVE FALSE
          <5>1. ~(j \in 1 .. s.k - 1)
            BY <2>3, <2>5, <4>1
          <5>2. s.k <= j /\ s.k <= Len(ks)
            BY <1>1, <1>4, <5>1
          <5>3. s.k = j \/ s.k < j
            BY <1>1, <1>4, <5>2
          <5>4. k <= ks[j]
            <6>1. CASE s.k = j
              BY <2>4, <6>1
            <6>2. CASE s.k < j
              BY <2>6, <5>2, <6>2 DEF Ascending
            <6>3. QED
              BY <5>3, <6>1, <6>2
          <5>5. QED
            BY <2>3, <2>6, <2>10, <4>1, <5>2, <5>4
        <4>2. QED
          BY <4>1 DEF Taken
      <3>. HIDE DEF t
      <3>3. t \in SiftStates(ks) /\ Sifting(ks, t)
        BY <1>2, <1>6, <3>1, <3>2, SiftCopy
      <3>4. t.read = s.read + 1 /\ t.k = s.k
        BY <3>1
      <3>5. QED
        BY <1>1, <1>4, <2>7, <3>3, <3>4
    <2>11. QED
      BY <2>8, <2>9, <2>10
  <1>7. QED
    BY <1>1, <1>4, <1>5, <1>6

\* The sift leaves the records whose keys are not in the batch.
LEMMA SiftIs ==
    ASSUME recs \in Seq(Record), Rising(recs), NEW ks \in Seq(Keys), Ascending(ks)
    PROVE  /\ Sift(ks) \in Seq(Record) /\ Rising(Sift(ks)) /\ Len(Sift(ks)) <= Len(recs)
           /\ \A x \in Record : In(Sift(ks), x) <=> ~Taken(ks, x.key) /\ In(recs, x)
  <1>. DEFINE M == Len(recs) + Len(ks)
              s0 == [mem |-> recs, read |-> 1, write |-> 1, k |-> 1]
              Is(g) == g = [m \in 0 .. M |-> IF m = 0 THEN s0 ELSE SiftTurn(ks, g[m - 1])]
              S == SiftLoop(ks)
              step == [m \in 1 .. M |-> [s \in S[m - 1] |-> SiftTurn(ks, s)]]
              turn == CHOOSE g : Is(g)
  <1>1. Len(recs) \in Nat /\ Len(ks) \in Nat /\ M \in Nat
    BY Records
  <1>2. s0 \in S[0]
    <2>1. recs \in [1 .. Len(recs) -> Record]
      OBVIOUS
    <2>2. s0 \in SiftStates(ks)
      BY <1>1, <2>1 DEF SiftStates
    <2>3. s0.mem = recs /\ s0.read = 1 /\ s0.write = 1 /\ s0.k = 1
      OBVIOUS
    <2>. HIDE DEF s0
    <2>4. Sifting(ks, s0)
      BY <1>1, <2>3 DEF Sifting
    <2>5. (s0.read - 1) + (s0.k - 1) >= 0 /\ 0 \in 0 .. Len(recs) + Len(ks)
      BY <1>1, <2>3
    <2>6. QED
      BY <2>2, <2>4, <2>5 DEF SiftLoop
  <1>3. \A m \in 1 .. M : \A s \in S[m - 1] : SiftTurn(ks, s) \in S[m]
    BY SiftTurnStep
  <1>. HIDE DEF M, S, s0
  <1>4. \A m \in 1 .. M : \A s \in S[m - 1] : step[m][s] = SiftTurn(ks, s)
    OBVIOUS
  <1>5. PICK g : Runs(g, M, s0, step) /\ \A m \in 0 .. M : g[m] \in S[m]
    <2>. HIDE DEF step
    <2>1. \A m \in 1 .. M : \A s \in S[m - 1] : step[m][s] \in S[m]
      BY <1>3, <1>4
    <2>2. QED
      BY <1>1, <1>2, <2>1, LoopExists
  <1>6. Is(g)
    <2>. HIDE DEF step
    <2>1. \A m \in 0 .. M : m # 0 => m \in 1 .. M /\ m - 1 \in 0 .. M
      BY <1>1
    <2>2. \A m \in 0 .. M : g[m] = IF m = 0 THEN s0 ELSE SiftTurn(ks, g[m - 1])
      BY <1>4, <1>5, <2>1 DEF Runs
    <2>3. g = [m \in 0 .. M |-> g[m]]
      BY <1>5 DEF Runs
    <2>4. QED
      BY <2>2, <2>3, Zenon
  <1>7. Is(turn)
    <2>. HIDE DEF Is
    <2>1. QED
      BY <1>6
  <1>8. \A m \in 0 .. M : turn[m] \in S[m]
    <2>. HIDE DEF turn
    <2>1. \A m \in 0 .. M : turn[m] = IF m = 0 THEN s0 ELSE SiftTurn(ks, turn[m - 1])
      BY <1>7
    <2>. HIDE DEF Is, step
    <2>2. turn[0] \in S[0]
      <3>1. 0 \in 0 .. M
        BY <1>1
      <3>2. turn[0] = s0
        BY <2>1, <3>1
      <3>3. QED
        BY <1>2, <3>2
    <2>3. \A m \in 1 .. M : turn[m - 1] \in S[m - 1] => turn[m] \in S[m]
      <3>1. \A m \in 1 .. M : m \in 0 .. M /\ m # 0
        BY <1>1
      <3>2. QED
        BY <1>3, <2>1, <3>1
    <2>4. QED
      BY <1>1, <2>2, <2>3, LoopKeeps
  <1>. DEFINE e == turn[M]
              a == e.mem
              n == Len(recs)
              l == e.write - 1
              f == SubSeq(a, 1, l)
  <1>9. Sift(ks) = f
    BY Zenon DEF Sift, M, s0
  <1>10. e \in SiftStates(ks) /\ Sifting(ks, e) /\ (e.read = n + 1 \/ (e.read - 1) + (e.k - 1) >= M)
    <2>. HIDE DEF turn
    <2>1. M \in 0 .. M
      BY <1>1
    <2>2. e \in S[M]
      BY <1>8, <2>1
    <2>3. QED
      BY <2>1, <2>2 DEF S, M, SiftLoop
  <1>. HIDE DEF e
  <1>11. e.read = n + 1 /\ l \in 0 .. n /\ a \in [1 .. n -> Record]
    <2>1. /\ e.read \in 1 .. n + 1 /\ e.write \in 1 .. n + 1 /\ e.k \in 1 .. Len(ks) + 1
          /\ a \in [1 .. n -> Record]
      BY <1>10 DEF SiftStates
    <2>. HIDE DEF a
    <2>2. n \in Nat /\ Len(ks) \in Nat /\ M = n + Len(ks)
      BY <1>1 DEF M
    <2>. HIDE DEF n
    <2>3. e.read = n + 1
      BY <1>10, <2>1, <2>2
    <2>4. l \in 0 .. n
      BY <2>1, <2>2
    <2>5. QED
      BY <2>1, <2>3, <2>4
  <1>12. \A i, j \in 1 .. l : i < j => a[i].key < a[j].key
    BY <1>10 DEF Sifting
  <1>13. \A y : (\E i \in 1 .. l : a[i] = y) <=> ~Taken(ks, y.key) /\ \E i \in 1 .. n : recs[i] = y
    <2>1. e.read - 1 = n
      BY <1>1, <1>11
    <2>2. QED
      BY <1>10, <2>1 DEF Sifting
  <1>. HIDE DEF a, l
  <1>14. f \in Seq(Record) /\ Len(f) = l /\ \A i \in 1 .. l : f[i] = a[i]
    <2>1. a \in Seq(Record) /\ Len(a) = n
      BY <1>1, <1>11
    <2>2. \A i \in 1 .. l : a[i] \in Record
      BY <1>1, <1>11
    <2>3. /\ f \in Seq(Record) /\ Len(f) = (IF 1 <= l THEN l - 1 + 1 ELSE 0)
          /\ \A i \in 1 .. l - 1 + 1 : f[i] = a[1 + i - 1]
      BY <1>1, <1>11, <2>1, <2>2, SubSeqProperties
    <2>. HIDE DEF f
    <2>4. QED
      BY <1>1, <1>11, <2>3
  <1>. HIDE DEF f, n
  <1>15. Rising(f)
    BY <1>12, <1>14 DEF Rising
  <1>16. \A y : In(f, y) <=> ~Taken(ks, y.key) /\ In(recs, y)
    BY <1>13, <1>14 DEF In, n
  <1>17. QED
    BY <1>1, <1>9, <1>11, <1>14, <1>15, <1>16 DEF n


-----------------------------------------------------------------------------
(* Invariants *)

\* The dictionary is what the records say, and the records are what the searches need.
SInv ==
    /\ recs \in Seq(Record) /\ Rising(recs)
    /\ total \in Nat /\ type \in {"SHARED", "EXCLUSIVE"}
    /\ FitsBlock
    /\ dict = [k \in Keys |-> Lookup(recs, k)]

LEMMA SInvInit == Init => SInv
  <1>. SUFFICES ASSUME Init PROVE SInv
    OBVIOUS
  <1>1. recs = <<>> /\ recs \in Seq(Record) /\ Len(recs) = 0
    BY DEF Init
  <1>2. Rising(recs)
    BY <1>1 DEF Rising
  <1>3. total \in Nat /\ type \in {"SHARED", "EXCLUSIVE"}
    BY SortAssumption DEF SortAssumption, Init
  <1>4. FitsBlock
    BY <1>1, <1>3 DEF FitsBlock
  <1>5. \A k \in Keys : Lookup(recs, k) = Absent
    <2>1. \A k \in Keys : \A i \in 1 .. Len(recs) : recs[i].key # k
      BY <1>1
    <2>2. QED
      BY <1>1, <1>2, <2>1, LookupIs
  <1>6. dict = [k \in Keys |-> Lookup(recs, k)]
    BY <1>5 DEF Init
  <1>7. QED
    BY <1>1, <1>2, <1>3, <1>4, <1>6 DEF SInv

LEMMA InsertKeeps ==
    ASSUME SInv, NEW k \in Keys, NEW v \in Values, Insert(k, v) PROVE SInv'
  <1>. DEFINE x == [key |-> k, value |-> v]
  <1>1. recs \in Seq(Record) /\ Rising(recs) /\ total \in Nat /\ Len(recs) \in Nat
        /\ type \in {"SHARED", "EXCLUSIVE"} /\ dict = [i \in Keys |-> Lookup(recs, i)]
    BY Records DEF SInv
  <1>2. x \in Record /\ x.key = k /\ x.value = v
    BY DEF Record
  <1>3. type' = type /\ dict' = [dict EXCEPT ![k] = v]
    BY DEF Insert, Keep
  <1>. HIDE DEF x
  <1>4. /\ recs' \in Seq(Record) /\ Rising(recs')
        /\ \A y \in Record : y.key = k => (In(recs', y) <=> y = x)
        /\ \A y \in Record : y.key # k => (In(recs', y) <=> In(recs, y))
        /\ total' \in Nat /\ FitsBlock'
    <2>1. CASE At(k) # {}
      <3>1. recs' = [i \in DOMAIN recs |-> IF i \in At(k) THEN x ELSE recs[i]] /\ total' = total
        BY <2>1 DEF Insert, x
      <3>2. /\ recs' \in Seq(Record) /\ Rising(recs') /\ Len(recs') = Len(recs)
            /\ \A y \in Record : In(recs', y) <=> (y.key # k /\ In(recs, y)) \/ y = x
        BY <1>1, <2>1, <3>1, SetIs DEF x
      <3>3. FitsBlock'
        BY <1>3, <3>1, <3>2 DEF SInv, FitsBlock
      <3>4. QED
        BY <1>1, <1>2, <3>1, <3>2, <3>3
    <2>2. CASE At(k) = {}
      <3>1. recs' = InsertAt(recs, Before(k) + 1, x) /\ Grow
        BY <2>2 DEF Insert, Add, x
      <3>2. /\ recs' \in Seq(Record) /\ Rising(recs') /\ Len(recs') = Len(recs) + 1
            /\ \A y \in Record : In(recs', y) <=> In(recs, y) \/ y = x
        BY <1>1, <2>2, <3>1, AddIs DEF x
      <3>3. ASSUME NEW y, In(recs, y) PROVE y.key # k
        BY <1>1, <2>2, <3>3, Records DEF At, In
      <3>4. total' \in Nat
        BY <1>1, <3>1 DEF Grow
      <3>5. FitsBlock'
        BY <1>1, <1>3, <3>1, <3>2 DEF SInv, FitsBlock, Grow
      <3>6. QED
        BY <1>2, <3>2, <3>3, <3>4, <3>5
    <2>3. QED
      BY <2>1, <2>2
  <1>5. ASSUME NEW i \in Keys PROVE dict'[i] = Lookup(recs', i)
    <2>1. CASE i = k
      <3>1. In(recs', x)
        BY <1>2, <1>4
      <3>2. PICK j \in 1 .. Len(recs') : recs'[j] = x
        BY <3>1 DEF In
      <3>3. Lookup(recs', k) = v
        BY <1>2, <1>4, <3>2, LookupIs
      <3>4. QED
        BY <1>1, <1>3, <2>1, <3>3
    <2>2. CASE i # k
      <3>1. \A y \in Record : y.key = i => (In(recs', y) <=> In(recs, y))
        BY <1>4, <2>2
      <3>2. Lookup(recs', i) = Lookup(recs, i)
        BY <1>1, <1>4, <3>1, LookupSame
      <3>3. QED
        BY <1>1, <1>3, <2>2, <3>2
    <2>3. QED
      BY <2>1, <2>2
  <1>6. dict' = [i \in Keys |-> Lookup(recs', i)]
    <2>1. dict' = [i \in Keys |-> dict'[i]]
      BY <1>1, <1>3
    <2>2. QED
      BY <1>5, <2>1, Zenon
  <1>7. QED
    BY <1>1, <1>3, <1>4, <1>6 DEF SInv

LEMMA BatchInsertKeeps ==
    ASSUME SInv, NEW batch \in Batch, BatchInsert(batch) PROVE SInv'
  <1>. DEFINE new == Fresh(batch)
  <1>1. recs \in Seq(Record) /\ Rising(recs) /\ total \in Nat /\ Len(recs) \in Nat
        /\ DOMAIN recs = 1 .. Len(recs)
        /\ type \in {"SHARED", "EXCLUSIVE"} /\ dict = [i \in Keys |-> Lookup(recs, i)]
    BY Records DEF SInv
  <1>2. batch \in Seq(Record) /\ Rising(batch)
    <2>1. PICK n \in 1 .. MaxBatch : batch \in [1 .. n -> Record]
      BY DEF Batch
    <2>2. n \in Nat
      BY SortAssumption DEF SortAssumption
    <2>3. batch \in Seq(Record)
      BY <2>1, <2>2
    <2>4. QED
      BY <2>3 DEF Batch, Rising
  <1>3. /\ new \in Seq(Record) /\ Rising(new) /\ Len(new) \in Nat
        /\ \A y \in Record : In(new, y) <=> At(y.key) = {} /\ In(batch, y)
    <2>1. new \in Picked(batch, Len(batch))
      BY <1>2, FreshIs
    <2>. HIDE DEF new
    <2>2. QED
      BY <2>1, Records DEF Picked, In
  <1>. HIDE DEF new
  <1>4. type' = type /\ total' = total
    BY DEF BatchInsert
  <1>5. CASE ~(total >= Len(recs) + Len(new))
    <2>1. recs' = recs /\ dict' = dict
      BY <1>5 DEF BatchInsert, new
    <2>2. QED
      BY <1>4, <2>1 DEF SInv, FitsBlock
  <1>6. CASE total >= Len(recs) + Len(new)
    <2>1. recs' = MergeIn(new)
      BY <1>6 DEF BatchInsert, new
    <2>2. dict' = [k \in Keys |-> IF At(k) = {} /\ Lookup(batch, k) # Absent
                                  THEN Lookup(batch, k) ELSE dict[k]]
      BY <1>6 DEF BatchInsert, new
    <2>3. \A i \in 1 .. Len(new) : At(new[i].key) = {}
      <3>1. \A i \in 1 .. Len(new) : new[i] \in Record /\ In(new, new[i])
        BY <1>3, Records DEF In
      <3>2. QED
        BY <1>3, <3>1
    <2>4. /\ recs' \in Seq(Record) /\ Rising(recs') /\ Len(recs') = Len(recs) + Len(new)
          /\ \A y \in Record : In(recs', y) <=> In(recs, y) \/ In(new, y)
      BY <1>1, <1>3, <2>1, <2>3, MergeIs
    <2>5. FitsBlock'
      BY <1>1, <1>3, <1>4, <1>6, <2>4 DEF FitsBlock
    <2>6. ASSUME NEW y, In(recs, y) PROVE At(y.key) # {}
      BY <1>1, <2>6 DEF In, At
    <2>7. ASSUME NEW k \in Keys
          PROVE  Lookup(recs', k) = IF At(k) = {} /\ Lookup(batch, k) # Absent
                                    THEN Lookup(batch, k) ELSE Lookup(recs, k)
      <3>1. CASE At(k) = {}
        <4>1. \A y \in Record : y.key = k => (In(recs', y) <=> In(batch, y))
          BY <1>3, <2>4, <2>6, <3>1
        <4>2. Lookup(recs', k) = Lookup(batch, k)
          BY <1>2, <2>4, <4>1, LookupSame
        <4>3. Lookup(recs, k) = Absent
          BY <1>1, <3>1, LookupIs DEF At
        <4>4. QED
          BY <3>1, <4>2, <4>3
      <3>2. CASE At(k) # {}
        <4>1. \A y \in Record : y.key = k => (In(recs', y) <=> In(recs, y))
          BY <1>3, <2>4, <3>2
        <4>2. Lookup(recs', k) = Lookup(recs, k)
          BY <1>1, <2>4, <4>1, LookupSame
        <4>3. QED
          BY <3>2, <4>2
      <3>3. QED
        BY <3>1, <3>2
    <2>8. dict' = [k \in Keys |-> Lookup(recs', k)]
      <3>1. \A k \in Keys : dict'[k] = Lookup(recs', k)
        BY <1>1, <2>2, <2>7
      <3>2. dict' = [k \in Keys |-> dict'[k]]
        BY <2>2
      <3>3. QED
        BY <3>1, <3>2, Zenon
    <2>9. QED
      BY <1>1, <1>4, <2>4, <2>5, <2>8 DEF SInv
  <1>7. QED
    BY <1>5, <1>6

LEMMA BatchDeleteKeeps ==
    ASSUME SInv, NEW ks \in KeyBatch, BatchDelete(ks) PROVE SInv'
  <1>1. recs \in Seq(Record) /\ Rising(recs) /\ total \in Nat /\ Len(recs) \in Nat
        /\ type \in {"SHARED", "EXCLUSIVE"} /\ dict = [i \in Keys |-> Lookup(recs, i)]
    BY Records DEF SInv
  <1>2. ks \in Seq(Keys) /\ Ascending(ks) /\ DOMAIN ks = 1 .. Len(ks)
    <2>1. PICK n \in 1 .. MaxBatch : ks \in [1 .. n -> Keys]
      BY DEF KeyBatch
    <2>2. n \in Nat
      BY SortAssumption DEF SortAssumption
    <2>3. ks \in Seq(Keys)
      BY <2>1, <2>2
    <2>4. QED
      BY <2>3 DEF KeyBatch, Ascending
  <1>3. /\ recs' = Sift(ks) /\ type' = type /\ total' = total
        /\ dict' = [k \in Keys |-> IF \E i \in DOMAIN ks : ks[i] = k THEN Absent ELSE dict[k]]
    BY DEF BatchDelete
  <1>4. /\ recs' \in Seq(Record) /\ Rising(recs') /\ Len(recs') <= Len(recs) /\ Len(recs') \in Nat
        /\ \A y \in Record : In(recs', y) <=> ~Taken(ks, y.key) /\ In(recs, y)
    <2>1. /\ recs' \in Seq(Record) /\ Rising(recs') /\ Len(recs') <= Len(recs)
          /\ \A y \in Record : In(recs', y) <=> ~Taken(ks, y.key) /\ In(recs, y)
      BY <1>1, <1>2, <1>3, SiftIs
    <2>2. QED
      BY <2>1, Records
  <1>5. FitsBlock'
    BY <1>1, <1>3, <1>4 DEF SInv, FitsBlock
  <1>6. ASSUME NEW k \in Keys PROVE dict'[k] = Lookup(recs', k)
    <2>1. CASE Taken(ks, k)
      <3>1. \A i \in 1 .. Len(recs') : recs'[i] \in Record /\ In(recs', recs'[i])
        BY <1>4, Records DEF In
      <3>2. \A i \in 1 .. Len(recs') : recs'[i].key # k
        BY <1>4, <2>1, <3>1
      <3>3. Lookup(recs', k) = Absent
        BY <1>4, <3>2, LookupIs
      <3>4. dict'[k] = Absent
        BY <1>2, <1>3, <2>1 DEF Taken
      <3>5. QED
        BY <3>3, <3>4
    <2>2. CASE ~Taken(ks, k)
      <3>1. \A y \in Record : y.key = k => (In(recs', y) <=> In(recs, y))
        BY <1>4, <2>2
      <3>2. Lookup(recs', k) = Lookup(recs, k)
        BY <1>1, <1>4, <3>1, LookupSame
      <3>3. dict'[k] = dict[k]
        BY <1>2, <1>3, <2>2 DEF Taken
      <3>4. QED
        BY <1>1, <3>2, <3>3
    <2>3. QED
      BY <2>1, <2>2
  <1>7. dict' = [k \in Keys |-> Lookup(recs', k)]
    <2>1. dict' = [k \in Keys |-> dict'[k]]
      BY <1>3
    <2>2. QED
      BY <1>6, <2>1, Zenon
  <1>8. QED
    BY <1>1, <1>3, <1>4, <1>5, <1>7 DEF SInv

\* A state of the table, whatever the calls: sorted, in its block, and the dictionary.
THEOREM SortInvariant == Spec => []SInv
  <1>1. Init => SInv
    BY SInvInit
  <1>2. SInv /\ [Next]_vars => SInv'
    <2>. SUFFICES ASSUME SInv, [Next]_vars PROVE SInv'
      OBVIOUS
    <2>1. ASSUME NEW k \in Keys, NEW v \in Values, Insert(k, v) PROVE SInv'
      BY <2>1, InsertKeeps
    <2>2. ASSUME NEW k \in Keys, InsertFails(k) PROVE SInv'
      BY <2>2 DEF InsertFails, vars, SInv, FitsBlock
    <2>3. ASSUME NEW k \in Keys, Delete(k) PROVE SInv'
      BY <2>3 DEF Delete, SInv, FitsBlock
    <2>4. ASSUME NEW batch \in Batch, BatchInsert(batch) PROVE SInv'
      BY <2>4, BatchInsertKeeps
    <2>5. ASSUME NEW ks \in KeyBatch, BatchDelete(ks) PROVE SInv'
      BY <2>5, BatchDeleteKeeps
    <2>6. CASE UNCHANGED vars
      BY <2>6 DEF vars, SInv, FitsBlock
    <2>7. QED
      BY <2>1, <2>2, <2>3, <2>4, <2>5, <2>6 DEF Next
  <1>3. QED
    BY <1>1, <1>2, PTL DEF Spec

\* Insert, AllocAdd, ExpandAdd, BatchInsert and BatchDelete leave the keys of the table
\* strictly increasing: what the next SimdBinarySearch needs.
THEOREM StaysSorted == Spec => []SortedKeys
  <1>1. SInv => SortedKeys
    BY Records DEF SInv, Rising, SortedKeys
  <1>2. QED
    BY <1>1, SortInvariant, PTL

\* None of them writes a record behind total_size.
THEOREM StaysInBlock == Spec => []FitsBlock
  <1>1. SInv => FitsBlock
    BY DEF SInv
  <1>2. QED
    BY <1>1, SortInvariant, PTL

\* A search finds the last value that was inserted and not taken out since, for every key:
\* no shift, merge or sift in place loses, repeats or brings back a record.
THEOREM IsAMap == Spec => []Agrees
  <1>1. SInv => Agrees
    BY DEF SInv, Agrees, Search
  <1>2. QED
    BY <1>1, SortInvariant, PTL

-----------------------------------------------------------------------------
(* SimdBinarySearch, which every operation begins with                     *)

\* The types of the search's locals; before the loop they describe the whole table.
SearchTypes ==
    /\ table \in Tables /\ target \in Targets
    /\ left \in Int /\ right \in Int /\ size \in Int
    /\ pc \in {"start", "loop", "found", "absent"}
    /\ found \in Int /\ pos \in Int
    /\ pc = "start" => left = 0 /\ right = table.used - 1 /\ size = table.used

SearchInv == SearchTypes /\ Window /\ Correct

-----------------------------------------------------------------------------
\* What the assumptions say of the one table that is searched.
LEMMA TableFacts ==
    ASSUME SearchTypes
    PROVE  /\ table.used \in Nat
           /\ \A j \in 0 .. table.used - 1 : table.key[j] \in Int
           /\ \A i, j \in 0 .. table.used - 1 : i < j => table.key[i] < table.key[j]
           /\ target \in Int
  BY TablesAssumption DEF SearchTypes, TablesAssumption, Sorted

\* The division of the window in four parts and a remainder.
LEMMA Quarters ==
    ASSUME NEW s \in Nat
    PROVE  /\ s \div 4 \in Nat /\ s % 4 \in 0 .. 3
           /\ s = 4 * (s \div 4) + (s % 4)
           /\ (s \div 4) \div 2 \in Nat
           /\ 2 * ((s \div 4) \div 2) <= s \div 4
           /\ s \div 4 <= 2 * ((s \div 4) \div 2) + 1
  BY SMT

\* The lanes of a round on a window that is not empty: each reads in front of the next,
\* the first one is in the window, and a lane behind the window is the one just behind it.
LEMMA Lanes ==
    ASSUME left \in Int, right \in Int, size \in Int,
           left <= right, size = right - left + 1
    PROVE  /\ \A i \in 0 .. 2 : Mid(i) \in Int /\ left <= Mid(i) /\ Mid(i) <= right + 1
           /\ Mid(0) <= right
           /\ Mid(0) <= Mid(1) /\ Mid(1) <= Mid(2)
           /\ Mid(0) <= right => Mid(0) < Mid(1)
           /\ Mid(1) <= right => Mid(1) < Mid(2)
           /\ 2 * (Mid(0) - left) <= size
           /\ 2 * (Mid(1) - Mid(0) - 1) <= size
           /\ 2 * (Mid(2) - Mid(1) - 1) <= size
           /\ Mid(2) <= right => 2 * (right - Mid(2)) <= size
  <1> DEFINE b == size \div 4
             r == size % 4
             h == b \div 2
  <1>1. size \in Nat /\ size > 0
    OBVIOUS
  <1>2. /\ b \in Nat /\ r \in 0 .. 3 /\ size = 4 * b + r
        /\ h \in Nat /\ 2 * h <= b /\ b <= 2 * h + 1
    BY <1>1, Quarters
  <1>3. /\ Mid(0) = left + h
        /\ Mid(1) = left + b + (IF 1 > r THEN r ELSE 1) + h
        /\ Mid(2) = left + b * 2 + (IF 2 > r THEN r ELSE 2) + h
    <2> HIDE DEF b, r, h
    <2>1. \A i \in 0 .. 2 : Mid(i) = left + b * i + (IF i > r THEN r ELSE i) + h
      BY DEF Mid, b, r, h
    <2>2. b * 0 = 0 /\ b * 1 = b /\ (IF 0 > r THEN r ELSE 0) = 0
      BY <1>2
    <2> QED
      BY <2>1, <2>2, <1>2
  <1> HIDE DEF b, r, h
  <1>4. \A i \in 0 .. 2 : i = 0 \/ i = 1 \/ i = 2
    OBVIOUS
  <1> QED
    BY <1>1, <1>2, <1>3, <1>4

-----------------------------------------------------------------------------
\* The search begins with the whole table as its window.
LEMMA SearchBegins == SearchInit => SearchInv
  <1> SUFFICES ASSUME SearchInit PROVE SearchInv
    OBVIOUS
  <1>1. table.used \in Nat /\ target \in Int
    BY TablesAssumption DEF SearchInit, TablesAssumption, Sorted
  <1> QED
    BY <1>1 DEF SearchInit, SearchInv, SearchTypes, Window, Correct

\* The comparisons with both ends settle the whole table or leave the window as it is.
LEMMA StartKeeps == SearchInv /\ Start => SearchInv'
  <1> SUFFICES ASSUME SearchInv, Start PROVE SearchInv'
    OBVIOUS
  <1>2. /\ table.used \in Nat
        /\ \A j \in 0 .. table.used - 1 : table.key[j] \in Int
        /\ target \in Int
    BY TableFacts DEF SearchInv
  <1>3. left = 0 /\ right = table.used - 1 /\ size = table.used /\ pc = "start"
    BY DEF SearchInv, SearchTypes, Start
  <1>4. CASE table.used <= 0
    BY <1>2, <1>3, <1>4 DEF SearchInv, SearchTypes, Window, Correct, Start
  <1>5. CASE table.used > 0
    <2>1. SearchTypes'
      BY <1>2, <1>3, <1>5 DEF SearchInv, SearchTypes, Start
    <2>2. Window'
      BY <1>2, <1>3, <1>5 DEF Window, Start
    <2>3. Correct'
      BY <1>2, <1>3, <1>5 DEF Correct, Start
    <2> QED
      BY <2>1, <2>2, <2>3 DEF SearchInv
  <1> QED
    BY <1>2, <1>4, <1>5

\* What a round does, lane by lane.
LEMMA RoundKeeps == SearchInv /\ Round => SearchInv'
  <1> SUFFICES ASSUME SearchInv, Round PROVE SearchInv'
    OBVIOUS
  <1>1. /\ table.used \in Nat
        /\ \A j \in 0 .. table.used - 1 : table.key[j] \in Int
        /\ \A i, j \in 0 .. table.used - 1 : i < j => table.key[i] < table.key[j]
        /\ target \in Int
    BY TableFacts DEF SearchInv
  <1>2. /\ pc = "loop" /\ left <= right /\ 0 <= left /\ right < table.used
        /\ left \in Int /\ right \in Int /\ size \in Int /\ size = right - left + 1
        /\ \A j \in 0 .. left - 1 : table.key[j] < target
        /\ \A j \in right + 1 .. table.used - 1 : table.key[j] > target
    BY DEF SearchInv, SearchTypes, Window, Round
  <1>3. PICK i \in 0 .. 3 :
          /\ Stop(i) /\ \A j \in 0 .. i - 1 : ~Stop(j)
          /\ IF i > 0 /\ table.key[Mid(i - 1)] = target
             THEN /\ pc' = "found" /\ found' = Mid(i - 1)
                  /\ UNCHANGED <<left, right, size>>
             ELSE Narrow(i) /\ UNCHANGED <<pc, found>>
    BY DEF Round, Mids
  <1>4. /\ \A j \in 0 .. 2 : Mid(j) \in Int /\ left <= Mid(j) /\ Mid(j) <= right + 1
        /\ Mid(0) <= Mid(1) /\ Mid(1) <= Mid(2)
    BY <1>2, Lanes
  <1>5. ASSUME i > 0
        PROVE  /\ i - 1 \in 0 .. 2
               /\ Mid(i - 1) \in left .. right /\ Mid(i - 1) \in 0 .. table.used - 1
               /\ table.key[Mid(i - 1)] \in Int
               /\ table.key[Mid(i - 1)] <= target
    <2>1. i - 1 \in 0 .. 2 /\ ~Stop(i - 1)
      BY <1>3, <1>5
    <2>2. Mid(i - 1) <= right /\ ~(table.key[Mid(i - 1)] > target)
      BY <2>1 DEF Stop
    <2> QED
      BY <1>1, <1>2, <1>4, <2>1, <2>2
  <1>6. ASSUME i < 3
        PROVE  /\ Mid(i) \in Int /\ left <= Mid(i) /\ Mid(i) - 1 <= right
               /\ Mid(i) <= right => table.key[Mid(i)] > target
               /\ i > 0 => Mid(i - 1) <= Mid(i)
    <2>1. i \in 0 .. 2 /\ (i > 0 => i = 1 \/ i = 2)
      BY <1>6
    <2>2. Mid(i) \in Int /\ left <= Mid(i) /\ Mid(i) - 1 <= right
      BY <1>2, <1>4, <2>1
    <2>3. Mid(i) <= right => table.key[Mid(i)] > target
      BY <1>3, <1>6 DEF Stop, Mids
    <2>4. i = 1 => Mid(i - 1) = Mid(0)
      OBVIOUS
    <2>5. i = 2 => Mid(i - 1) = Mid(1)
      OBVIOUS
    <2> QED
      BY <1>4, <2>1, <2>2, <2>3, <2>4, <2>5
  <1>7. UNCHANGED <<table, target, pos>>
    BY DEF Round
  <1>8. CASE i > 0 /\ table.key[Mid(i - 1)] = target
    <2>1. pc' = "found" /\ found' = Mid(i - 1) /\ UNCHANGED <<left, right, size>>
      BY <1>3, <1>8
    <2> QED
      BY <1>2, <1>5, <1>7, <1>8, <2>1 DEF SearchInv, SearchTypes, Window, Correct
  <1>9. CASE ~(i > 0 /\ table.key[Mid(i - 1)] = target)
    <2>1. Narrow(i) /\ UNCHANGED <<pc, found>>
      BY <1>3, <1>9
    <2>2. /\ left' = IF i > 0 THEN Mid(i - 1) + 1 ELSE left
          /\ right' = IF i < 3 THEN Mid(i) - 1 ELSE right
          /\ size' = right' - left' + 1
      BY <2>1 DEF Narrow, Mids
    <2>3. left' \in Int /\ 0 <= left' /\ left' <= table.used
      BY <1>1, <1>2, <1>5, <2>2
    <2>4. right' \in Int /\ right' < table.used
      BY <1>2, <1>1, <1>6, <2>2
    <2>5. left' <= right' + 1
      <3>1. CASE i = 0
        BY <1>2, <1>6, <2>2, <3>1
      <3>2. CASE i > 0 /\ i < 3
        <4>1. Mid(i - 1) < Mid(i)
          <5>1. \A j \in 1 .. 2 : Mid(j - 1) <= right => Mid(j - 1) < Mid(j)
            BY <1>2, Lanes
          <5> QED
            BY <1>5, <3>2, <5>1
        <4> QED
          BY <1>5, <1>6, <2>2, <3>2, <4>1
      <3>3. CASE i = 3
        BY <1>2, <1>5, <2>2, <3>3
      <3> QED
        BY <3>1, <3>2, <3>3
    <2>6. \A j \in 0 .. left' - 1 : table.key[j] < target
      <3>1. CASE i > 0
        <4>1. table.key[Mid(i - 1)] < target
          BY <1>1, <1>5, <1>9, <3>1
        <4> QED
          BY <1>1, <1>5, <2>2, <3>1, <4>1
      <3>2. CASE ~(i > 0)
        BY <1>2, <2>2, <3>2
      <3> QED
        BY <3>1, <3>2
    <2>7. \A j \in right' + 1 .. table.used - 1 : table.key[j] > target
      <3>1. CASE i < 3 /\ Mid(i) <= right
        <4>1. Mid(i) \in 0 .. table.used - 1 /\ table.key[Mid(i)] > target
          BY <1>1, <1>2, <1>6, <3>1
        <4>2. right' + 1 = Mid(i)
          BY <1>6, <2>2, <3>1
        <4> QED
          BY <1>1, <4>1, <4>2
      <3>2. CASE ~(i < 3 /\ Mid(i) <= right)
        <4>1. right' = right
          BY <1>2, <1>6, <2>2, <3>2
        <4> QED
          BY <1>2, <4>1
      <3> QED
        BY <3>1, <3>2
    <2>8. SearchTypes'
      BY <1>2, <1>7, <2>1, <2>2, <2>3, <2>4 DEF SearchInv, SearchTypes
    <2>9. Window'
      BY <1>7, <2>2, <2>3, <2>4, <2>5, <2>6, <2>7 DEF Window
    <2>10. Correct'
      BY <1>2, <1>7, <2>1 DEF Correct
    <2> QED
      BY <2>8, <2>9, <2>10 DEF SearchInv
  <1> QED
    BY <1>8, <1>9

\* An empty window is the gap the target belongs in.
LEMMA FinishKeeps == SearchInv /\ Finish => SearchInv'
  <1> SUFFICES ASSUME SearchInv, Finish PROVE SearchInv'
    OBVIOUS
  <1>1. table.used \in Nat /\ \A j \in 0 .. table.used - 1 : table.key[j] \in Int
    BY TableFacts DEF SearchInv
  <1>2. SearchTypes'
    BY DEF SearchInv, SearchTypes, Finish
  <1>3. Window'
    BY DEF Window, Finish
  <1>4. Correct'
    BY <1>1 DEF SearchInv, SearchTypes, Window, Correct, Finish
  <1> QED
    BY <1>2, <1>3, <1>4 DEF SearchInv

\* SimdBinarySearch, on any sorted table and any key: the loop invariant holds in every
\* round and the answer is the record of the key or the position of the nearest smaller.
THEOREM SearchCorrect == SearchSpec => []SearchInv
  <1>1. SearchInv /\ UNCHANGED searchVars => SearchInv'
    BY DEF SearchInv, SearchTypes, Window, Correct, searchVars
  <1>2. SearchInv /\ [SearchNext]_(searchVars) => SearchInv'
    BY <1>1, StartKeeps, RoundKeeps, FinishKeeps DEF SearchNext
  <1> QED
    BY SearchBegins, <1>2, PTL DEF SearchSpec

\* The records a round reads lie in the table, and the window only drops records that
\* are smaller or greater than the key.
THEOREM WindowHolds == SearchSpec => []Window
  <1>1. SearchInv => Window
    BY DEF SearchInv
  <1> QED
    BY SearchCorrect, <1>1, PTL

\* The answer is right.
THEOREM AnswerCorrect == SearchSpec => []Correct
  <1>1. SearchInv => Correct
    BY DEF SearchInv
  <1> QED
    BY SearchCorrect, <1>1, PTL

\* A round at least halves the window: the search of a table of n records ends after at
\* most log2(n) + 1 rounds.
THEOREM RoundsNarrow == SearchSpec => Narrows
  <1>1. SearchInv /\ [SearchNext]_(searchVars) => [pc = "loop" /\ pc' = "loop" => size' < size /\ 2 * size' <= size]_(searchVars)
    <2> SUFFICES ASSUME SearchInv, SearchNext, pc = "loop", pc' = "loop"
                 PROVE  size' < size /\ 2 * size' <= size
      BY DEF searchVars
    <2>1. Round
      BY DEF SearchNext, Start, Finish
    <2>2. /\ left <= right /\ left \in Int /\ right \in Int /\ size \in Int
          /\ size = right - left + 1
      BY <2>1 DEF SearchInv, SearchTypes, Window, Round
    <2>3. PICK i \in 0 .. 3 : /\ Stop(i) /\ \A j \in 0 .. i - 1 : ~Stop(j)
                              /\ Narrow(i)
      BY <2>1 DEF Round, Mids
    <2>4. /\ \A j \in 0 .. 2 : Mid(j) \in Int /\ left <= Mid(j) /\ Mid(j) <= right + 1
          /\ 2 * (Mid(0) - left) <= size
          /\ 2 * (Mid(1) - Mid(0) - 1) <= size
          /\ 2 * (Mid(2) - Mid(1) - 1) <= size
          /\ Mid(2) <= right => 2 * (right - Mid(2)) <= size
      BY <2>2, Lanes
    <2>5. /\ left' = IF i > 0 THEN Mid(i - 1) + 1 ELSE left
          /\ right' = IF i < 3 THEN Mid(i) - 1 ELSE right
          /\ size' = right' - left' + 1
      BY <2>3 DEF Narrow, Mids
    <2>6. 2 * size' <= size /\ size' \in Int
      <3>1. CASE i = 0
        BY <2>2, <2>4, <2>5, <3>1
      <3>2. CASE i = 1
        BY <2>2, <2>4, <2>5, <3>2
      <3>3. CASE i = 2
        BY <2>2, <2>4, <2>5, <3>3
      <3>4. CASE i = 3
        <4>1. Mid(2) <= right
          <5>1. ~Stop(2)
            BY <2>3, <3>4
          <5> QED
            BY <5>1, <2>2, <2>4 DEF Stop
        <4> QED
          BY <2>2, <2>4, <2>5, <3>4, <4>1
      <3> QED
        BY <3>1, <3>2, <3>3, <3>4
    <2>7. size >= 1
      BY <2>2
    <2>8. \A m, n \in Int : n >= 1 /\ 2 * m <= n => m < n
      OBVIOUS
    <2> QED
      BY <2>2, <2>6, <2>7, <2>8
  <1> QED
    BY SearchCorrect, <1>1, PTL DEF SearchSpec, Narrows


-----------------------------------------------------------------------------
(* The search and the table it searches *)

\* The records as SimdBinarySearch sees them.
Stored == [used |-> Len(recs), key |-> [j \in 0 .. Len(recs) - 1 |-> recs[j + 1].key]]

\* The answer is what Insert, Delete and the batches take it for: the place of the record,
\* or the number of records in front of the place where it belongs.
Contract ==
    \A k \in Keys : table = Stored /\ target = k =>
        /\ pc = "found" => found + 1 \in At(k)
        /\ pc = "absent" => At(k) = {} /\ Before(k) = pos + 1

\* The tables that TablesAssumption admits.
SortedTables == {t \in UNION {[used : {n}, key : [0 .. n - 1 -> Int]] : n \in Nat} : Sorted(t)}

\* The records as the search sees them are a sorted table.
LEMMA StoredIs == SInv => Stored \in SortedTables
  <1>. SUFFICES ASSUME SInv PROVE Stored \in SortedTables
    OBVIOUS
  <1>. DEFINE n == Len(recs)
              key == [j \in 0 .. n - 1 |-> recs[j + 1].key]
  <1>1. n \in Nat /\ \A i \in 1 .. n : recs[i].key \in Int
    BY Records DEF SInv
  <1>2. \A i, j \in 1 .. n : i < j => recs[i].key < recs[j].key
    BY DEF SInv, Rising
  <1>3. Stored = [used |-> n, key |-> key] /\ \A j \in 0 .. n - 1 : key[j] = recs[j + 1].key
    BY DEF Stored
  <1>. HIDE DEF n
  <1>4. \A j \in 0 .. n - 1 : j + 1 \in 1 .. n
    BY <1>1
  <1>5. key \in [0 .. n - 1 -> Int]
    BY <1>1, <1>4
  <1>. HIDE DEF key
  <1>6. \A i, j \in 0 .. n - 1 : i < j => key[i] < key[j]
    BY <1>1, <1>2, <1>3, <1>4
  <1>7. Stored.used = n /\ Stored.key = key /\ Stored \in [used : {n}, key : [0 .. n - 1 -> Int]]
    BY <1>3, <1>5
  <1>8. QED
    BY <1>1, <1>6, <1>7 DEF SortedTables, Sorted

\* The index the search answers with is the one place of the key, or the one before its place.
LEMMA ContractIs == SInv /\ Correct => Contract
  <1>. SUFFICES ASSUME SInv, Correct, NEW k \in Keys, table = Stored, target = k
                PROVE  /\ pc = "found" => found + 1 \in At(k)
                       /\ pc = "absent" => At(k) = {} /\ Before(k) = pos + 1
    BY DEF Contract
  <1>. DEFINE n == Len(recs)
  <1>1. /\ recs \in Seq(Record) /\ Rising(recs) /\ n \in Nat /\ DOMAIN recs = 1 .. n
        /\ \A i \in 1 .. n : recs[i].key \in Int
    BY Records DEF SInv
  <1>2. k \in Int
    BY SortAssumption DEF SortAssumption
  <1>3. table.used = n /\ \A j \in 0 .. n - 1 : table.key[j] = recs[j + 1].key
    BY DEF Stored
  <1>4. Before(k) \in 0 .. n /\ \A i \in 1 .. n : recs[i].key < k <=> i <= Before(k)
    BY <1>1, BeforeIs
  <1>. HIDE DEF n
  <1>5. CASE pc = "found"
    <2>1. found \in 0 .. n - 1 /\ recs[found + 1].key = k
      BY <1>3, <1>5 DEF Correct
    <2>2. found + 1 \in 1 .. n
      BY <1>1, <2>1
    <2>3. QED
      BY <1>1, <1>5, <2>1, <2>2 DEF At
  <1>6. CASE pc = "absent"
    <2>1. /\ pos \in -1 .. n - 1
          /\ \A j \in 0 .. n - 1 : IF j <= pos THEN recs[j + 1].key < k ELSE recs[j + 1].key > k
      BY <1>3, <1>6 DEF Correct
    <2>2. \A i \in 1 .. n : IF i <= pos + 1 THEN recs[i].key < k ELSE recs[i].key > k
      <3>1. ASSUME NEW i \in 1 .. n PROVE IF i <= pos + 1 THEN recs[i].key < k ELSE recs[i].key > k
        <4>. DEFINE j == i - 1
        <4>1. j \in 0 .. n - 1 /\ j + 1 = i /\ (j <= pos <=> i <= pos + 1)
          BY <1>1, <2>1
        <4>. HIDE DEF j
        <4>2. IF j <= pos THEN recs[j + 1].key < k ELSE recs[j + 1].key > k
          BY <2>1, <4>1
        <4>3. QED
          BY <4>1, <4>2
      <3>2. QED
        BY <3>1
    <2>3. At(k) = {}
      BY <1>1, <1>2, <2>2 DEF At
    <2>4. \A i \in 1 .. n : i <= pos + 1 <=> i <= Before(k)
      BY <1>1, <1>2, <1>4, <2>2
    <2>5. pos + 1 \in 0 .. n /\ Before(k) \in 0 .. n
      BY <1>1, <1>4, <2>1
    <2>6. Before(k) = pos + 1
      <3>. DEFINE b == Before(k)
                  p == pos + 1
      <3>1. /\ b \in 0 .. n /\ p \in 0 .. n
            /\ \A i \in 1 .. n : i <= p <=> i <= b
        BY <2>4, <2>5
      <3>. HIDE DEF b, p
      <3>2. ~(b < p)
        <4>. SUFFICES ASSUME b < p PROVE FALSE
          OBVIOUS
        <4>1. p \in 1 .. n
          BY <1>1, <3>1
        <4>2. p <= p <=> p <= b
          BY <3>1, <4>1
        <4>3. QED
          BY <1>1, <3>1, <4>2
      <3>3. ~(p < b)
        <4>. SUFFICES ASSUME p < b PROVE FALSE
          OBVIOUS
        <4>1. b \in 1 .. n
          BY <1>1, <3>1
        <4>2. b <= p <=> b <= b
          BY <3>1, <4>1
        <4>3. QED
          BY <1>1, <3>1, <4>2
      <3>4. b = p
        BY <1>1, <3>1, <3>2, <3>3
      <3>5. QED
        BY <3>4 DEF b, p
    <2>7. QED
      BY <1>6, <2>3, <2>6
  <1>7. QED
    BY <1>5, <1>6

\* Every table the operations leave behind is one that SimdBinarySearch is proved right for.
THEOREM TablesSearched == Spec => [](Stored \in SortedTables)
  <1>1. QED
    BY SortInvariant, StoredIs, PTL

\* A search of the table, at any time between the operations, answers what the operations
\* of SortTable take it to answer (SimdBinarySearch, called by each of them).
THEOREM SearchServesTable == Spec /\ SearchSpec => []Contract
  <1>1. QED
    BY SortInvariant, AnswerCorrect, ContractIs, PTL

=============================================================================
