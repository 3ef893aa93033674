--------------------------- MODULE DataPoolProofs ---------------------------
(***************************************************************************)
(* Proofs about DataPool, for both classes, any number of clients, any     *)
(* lengths and any time gap: the blocks lie apart, every client reads back *)
(* what it wrote, or the front of it that a Write the store refused has    *)
(* left, and a freed value stays until the gap has passed.                 *)
(***************************************************************************)
EXTENDS DataPool, SequenceTheorems, TLAPS

-----------------------------------------------------------------------------
(* The inductive invariant *)

HasValue(c) == held[c] # None

Types ==
    /\ kind \in {"fix", "var"}
    /\ mem \in [Addrs -> Nat]
    /\ used \in 0 .. MaxUsed
    /\ freeList \subseteq [addr : Nat, size : Nat]
    /\ pending \in Seq([addr : Nat, ext : Nat, wait : Nat])
    /\ DOMAIN held = Clients
    /\ \A c \in Clients : HasValue(c) =>
          held[c] \in [addr : Nat, data : Seq(Nat), ext : Nat, written : BOOLEAN]
    /\ lease \subseteq [addr : Nat, data : Seq(Nat), age : Nat]

\* The m units at a and the n units at b have nothing in common.
Apart(a, m, b, n) == a + m <= b \/ b + n <= a

InUsed ==
    /\ \A c \in Clients : HasValue(c) => held[c].addr + held[c].ext <= used
    /\ \A i \in DOMAIN pending : pending[i].addr + pending[i].ext <= used
    /\ \A b \in freeList : b.addr + b.size <= used

HeldApart ==
    \A c \in Clients : HasValue(c) =>
        /\ \A d \in Clients : HasValue(d) /\ c # d =>
              Apart(held[c].addr, held[c].ext, held[d].addr, held[d].ext)
        /\ \A i \in DOMAIN pending :
              Apart(held[c].addr, held[c].ext, pending[i].addr, pending[i].ext)
        /\ \A b \in freeList : Apart(held[c].addr, held[c].ext, b.addr, b.size)

PendingApart ==
    \A i \in DOMAIN pending :
        /\ \A j \in DOMAIN pending : i # j =>
              Apart(pending[i].addr, pending[i].ext, pending[j].addr, pending[j].ext)
        /\ \A b \in freeList : Apart(pending[i].addr, pending[i].ext, b.addr, b.size)

FreeApart ==
    \A b, d \in freeList : b # d => Apart(b.addr, b.size, d.addr, d.size)

Placed == InUsed /\ HeldApart /\ PendingApart /\ FreeApart

\* The length and the contents of the value at a in memory m.
SizeIn(m, a) == IF kind = "var" THEN m[a] ELSE ValueSize
Holds(m, a, data) == \A i \in 1 .. Len(data) : m[a + HeaderSize + i - 1] = data[i]

HeldValues ==
    \A c \in Clients : HasValue(c) =>
        /\ Len(held[c].data) + HeaderSize <= held[c].ext
        /\ SizeIn(mem, held[c].addr) = Len(held[c].data)
        /\ held[c].written => Holds(mem, held[c].addr, held[c].data)

PendingSizes ==
    \A i \in DOMAIN pending :
        /\ HeaderSize <= pending[i].ext
        /\ SizeIn(mem, pending[i].addr) + HeaderSize <= pending[i].ext

\* The value of a lease is in a block whose delayed free still has to wait as long as
\* the lease may last.
Kept(l, i) ==
    /\ pending[i].addr = l.addr
    /\ pending[i].wait >= ReuseTimegap - l.age
    /\ Len(l.data) + HeaderSize <= pending[i].ext

LeasesKept ==
    \A l \in lease :
        /\ l.age < ReuseTimegap
        /\ SizeIn(mem, l.addr) = Len(l.data) /\ Holds(mem, l.addr, l.data)
        /\ \E i \in DOMAIN pending : Kept(l, i)

Valued == HeldValues /\ PendingSizes /\ LeasesKept

IInv == Types /\ Placed /\ Valued

-----------------------------------------------------------------------------
(* Memory *)

LEMMA ConstantFacts ==
    /\ MaxUsed \in Nat /\ ValueSize \in Nat \ {0} /\ ReuseTimegap \in Nat \ {0}
    /\ Addrs = 0 .. MaxUsed - 1
    /\ HeaderSize \in Nat
    /\ kind = "var" => HeaderSize = 1
    /\ kind # "var" => HeaderSize = 0
  BY DataPoolAssumption DEF DataPoolAssumption, Addrs, HeaderSize, Header

\* What the clients store is a sequence of numbers.
LEMMA DataFacts ==
    ASSUME NEW data \in Data
    PROVE  data \in Seq(Nat) /\ Len(data) \in Nat
  <1>1. PICK n \in Lengths, v \in Values : data = Datum(n, v)
    BY DEF Data
  <1>2. n \in Nat /\ v \in Nat
    BY <1>1, DataPoolAssumption DEF DataPoolAssumption
  <1>3. data = [i \in 1 .. n |-> v]
    BY <1>1 DEF Datum
  <1>4. data \in Seq(Nat)
    BY <1>2, <1>3, IsASeq
  <1>5. QED
    BY <1>4, LenProperties

\* Put changes the units of the value and no other.
LEMMA PutFacts ==
    ASSUME NEW m \in [Addrs -> Nat], NEW a \in Nat, NEW data \in Seq(Nat),
           a + HeaderSize + Len(data) <= MaxUsed
    PROVE  LET p == Put(m, a + HeaderSize, data)
           IN  /\ p \in [Addrs -> Nat]
               /\ Holds(p, a, data)
               /\ \A x \in Addrs :
                     ~(a + HeaderSize <= x /\ x < a + HeaderSize + Len(data)) => p[x] = m[x]
  <1>. DEFINE at == a + HeaderSize
              p == Put(m, at, data)
  <1>1. at \in Nat /\ Len(data) \in Nat /\ Addrs = 0 .. MaxUsed - 1 /\ MaxUsed \in Nat /\ at + Len(data) <= MaxUsed
    BY ConstantFacts, LenProperties
  <1>2. p = [x \in Addrs |-> IF x \in at .. at + Len(data) - 1 THEN data[x - at + 1] ELSE m[x]]
    BY DEF Put
  <1>. HIDE DEF p, at
  <1>3. ASSUME NEW x \in Addrs, x \in at .. at + Len(data) - 1
        PROVE  p[x] = data[x - at + 1] /\ p[x] \in Nat
    <2>1. x - at + 1 \in 1 .. Len(data)
      BY <1>1, <1>3
    <2>2. data[x - at + 1] \in Nat
      BY <2>1, ElementOfSeq
    <2>3. QED
      BY <1>2, <1>3, <2>2
  <1>4. ASSUME NEW x \in Addrs, ~(at <= x /\ x < at + Len(data)) PROVE p[x] = m[x]
    BY <1>1, <1>2, <1>4
  <1>5. \A x \in Addrs : p[x] \in Nat
    BY <1>1, <1>3, <1>4
  <1>6. p \in [Addrs -> Nat]
    BY <1>2, <1>5
  <1>7. ASSUME NEW i \in 1 .. Len(data) PROVE p[at + i - 1] = data[i]
    <2>1. PICK x \in Addrs : x = at + i - 1
      BY <1>1
    <2>2. x \in at .. at + Len(data) - 1 /\ x - at + 1 = i
      BY <1>1, <2>1
    <2>3. QED
      BY <1>3, <2>1, <2>2
  <1>8. Holds(p, a, data)
    BY <1>7 DEF Holds, at
  <1>9. QED
    BY <1>4, <1>6, <1>8 DEF p, at

\* The header is the unit at a, if there is one.
LEMMA SetHeaderFacts ==
    ASSUME NEW m \in [Addrs -> Nat], NEW a \in Nat, NEW n \in Nat,
           a + HeaderSize <= MaxUsed, kind = "fix" => n = ValueSize, kind \in {"fix", "var"}
    PROVE  /\ SetHeader(m, a, n) \in [Addrs -> Nat]
           /\ SizeIn(SetHeader(m, a, n), a) = n
           /\ \A x \in Addrs : ~(a <= x /\ x < a + HeaderSize) => SetHeader(m, a, n)[x] = m[x]
  <1>1. CASE kind = "var"
    <2>1. a \in Addrs /\ HeaderSize = 1
      BY <1>1, ConstantFacts
    <2>2. SetHeader(m, a, n) = [m EXCEPT ![a] = n]
      BY <1>1 DEF SetHeader
    <2>3. QED
      BY <1>1, <2>1, <2>2, ConstantFacts DEF SizeIn
  <1>2. CASE kind = "fix"
    BY <1>2 DEF SetHeader, SizeIn
  <1>3. QED
    BY <1>1, <1>2

\* What is written apart from a block changes neither its header nor its value.
LEMMA Untouched ==
    ASSUME Types, NEW m \in [Addrs -> Nat], NEW a \in Nat, NEW e \in Nat,
           \A x \in Addrs : ~(a <= x /\ x < a + e) => m[x] = mem[x],
           NEW b \in Nat, NEW f \in Nat, b + f <= MaxUsed, Apart(a, e, b, f),
           f >= HeaderSize
    PROVE  /\ SizeIn(m, b) = SizeIn(mem, b)
           /\ \A d \in Seq(Nat) : Len(d) + HeaderSize <= f /\ Holds(mem, b, d) => Holds(m, b, d)
  <1>1. Addrs = 0 .. MaxUsed - 1 /\ MaxUsed \in Nat /\ HeaderSize \in Nat
    BY ConstantFacts
  <1>2. ASSUME NEW x \in Nat, b <= x, x < b + f PROVE m[x] = mem[x]
    BY <1>1, <1>2 DEF Apart
  <1>3. SizeIn(m, b) = SizeIn(mem, b)
    <2>1. CASE kind = "var"
      <3>1. b < b + f
        BY <2>1, ConstantFacts
      <3>2. QED
        BY <1>2, <2>1, <3>1 DEF SizeIn
    <2>2. CASE kind # "var"
      BY <2>2 DEF SizeIn
    <2>3. QED
      BY <2>1, <2>2
  <1>4. ASSUME NEW d \in Seq(Nat), Len(d) + HeaderSize <= f, Holds(mem, b, d),
               NEW i \in 1 .. Len(d)
        PROVE  m[b + HeaderSize + i - 1] = d[i]
    <2>1. Len(d) \in Nat
      BY LenProperties
    <2>2. PICK x \in Nat : x = b + HeaderSize + i - 1
      BY <1>1, <2>1
    <2>3. b <= x /\ x < b + f
      BY <1>1, <1>4, <2>1, <2>2
    <2>4. mem[b + HeaderSize + i - 1] = d[i]
      BY <1>4 DEF Holds
    <2>5. QED
      BY <1>2, <2>2, <2>3, <2>4
  <1>5. QED
    BY <1>3, <1>4 DEF Holds

-----------------------------------------------------------------------------
(* The parts of the invariant that a step leaves alone *)

\* The numbers in the invariant.
LEMMA Numbers ==
    ASSUME Types
    PROVE  /\ used \in Nat /\ used <= MaxUsed /\ MaxUsed \in Nat /\ Len(pending) \in Nat
           /\ DOMAIN pending = 1 .. Len(pending)
           /\ \A c \in Clients : HasValue(c) =>
                 /\ held[c].addr \in Nat /\ held[c].ext \in Nat
                 /\ held[c].data \in Seq(Nat) /\ Len(held[c].data) \in Nat
           /\ \A i \in DOMAIN pending :
                 /\ pending[i] \in [addr : Nat, ext : Nat, wait : Nat]
                 /\ pending[i].addr \in Nat /\ pending[i].ext \in Nat /\ pending[i].wait \in Nat
           /\ \A b \in freeList : b.addr \in Nat /\ b.size \in Nat
           /\ \A l \in lease : l.addr \in Nat /\ l.data \in Seq(Nat) /\ Len(l.data) \in Nat /\ l.age \in Nat
           /\ \A a \in Nat : SizeIn(mem, a) \in Nat \/ a >= MaxUsed
  <1>1. ASSUME NEW i \in DOMAIN pending PROVE pending[i] \in [addr : Nat, ext : Nat, wait : Nat]
    <2>1. pending \in Seq([addr : Nat, ext : Nat, wait : Nat]) /\ i \in 1 .. Len(pending)
      BY LenProperties DEF Types
    <2>2. QED
      BY <2>1, ElementOfSeq
  <1>2. \A c \in Clients : HasValue(c) => held[c].data \in Seq(Nat)
    BY DEF Types
  <1>3. \A l \in lease : l.data \in Seq(Nat)
    BY DEF Types
  <1>4. \A a \in Nat : SizeIn(mem, a) \in Nat \/ a >= MaxUsed
    BY ConstantFacts DEF Types, SizeIn
  <1>5. used \in Nat /\ used <= MaxUsed /\ MaxUsed \in Nat /\ Len(pending) \in Nat /\ DOMAIN pending = 1 .. Len(pending)
    BY ConstantFacts, LenProperties DEF Types
  <1>6. \A c \in Clients : HasValue(c) => held[c].addr \in Nat /\ held[c].ext \in Nat /\ Len(held[c].data) \in Nat
    BY <1>2, LenProperties DEF Types
  <1>7. /\ \A b \in freeList : b.addr \in Nat /\ b.size \in Nat
        /\ \A l \in lease : l.addr \in Nat /\ Len(l.data) \in Nat /\ l.age \in Nat
    BY <1>3, LenProperties DEF Types
  <1>8. QED
    BY <1>1, <1>2, <1>3, <1>4, <1>5, <1>6, <1>7

\* A value that keeps its place stays apart from the others.
LEMMA PlacedKept ==
    ASSUME IInv, used' = used, UNCHANGED pending, freeList' \subseteq freeList,
           \A c \in Clients : held'[c] # None =>
               /\ HasValue(c) /\ held'[c].addr = held[c].addr /\ held'[c].ext = held[c].ext
    PROVE  Placed'
  BY DEF IInv, Placed, InUsed, HeldApart, PendingApart, FreeApart, HasValue

\* Memory that is written apart from the blocks of the clients in S, of the delayed frees
\* and of the leases keeps their values.
LEMMA OthersKept ==
    ASSUME IInv, NEW a \in Nat, NEW e \in Nat, NEW S \in SUBSET Clients,
           mem' \in [Addrs -> Nat],
           \A x \in Addrs : ~(a <= x /\ x < a + e) => mem'[x] = mem[x],
           \A c \in S : HasValue(c) => Apart(a, e, held[c].addr, held[c].ext),
           \A i \in DOMAIN pending : Apart(a, e, pending[i].addr, pending[i].ext)
    PROVE  /\ \A c \in S : HasValue(c) =>
                 /\ SizeIn(mem', held[c].addr) = Len(held[c].data)
                 /\ held[c].written => Holds(mem', held[c].addr, held[c].data)
           /\ \A i \in DOMAIN pending : SizeIn(mem', pending[i].addr) = SizeIn(mem, pending[i].addr)
           /\ \A l \in lease : SizeIn(mem', l.addr) = Len(l.data) /\ Holds(mem', l.addr, l.data)
  <1>1. Types /\ Placed /\ Valued /\ HeaderSize \in Nat
    BY ConstantFacts DEF IInv
  <1>2. ASSUME NEW c \in S, HasValue(c)
        PROVE  /\ SizeIn(mem', held[c].addr) = Len(held[c].data)
               /\ held[c].written => Holds(mem', held[c].addr, held[c].data)
    <2>1. /\ held[c].addr \in Nat /\ held[c].ext \in Nat /\ held[c].data \in Seq(Nat)
          /\ held[c].addr + held[c].ext <= MaxUsed
      BY <1>1, <1>2, Numbers DEF Placed, InUsed
    <2>2. /\ Len(held[c].data) + HeaderSize <= held[c].ext /\ Len(held[c].data) \in Nat
          /\ SizeIn(mem, held[c].addr) = Len(held[c].data)
          /\ held[c].written => Holds(mem, held[c].addr, held[c].data)
      BY <1>1, <1>2, Numbers DEF Valued, HeldValues
    <2>3. Apart(a, e, held[c].addr, held[c].ext) /\ held[c].ext >= HeaderSize
      BY <1>1, <1>2, <2>1, <2>2
    <2>4. QED
      BY <1>1, <2>1, <2>2, <2>3, Untouched
  <1>3. ASSUME NEW i \in DOMAIN pending
        PROVE  /\ SizeIn(mem', pending[i].addr) = SizeIn(mem, pending[i].addr)
               /\ \A d \in Seq(Nat) : Len(d) + HeaderSize <= pending[i].ext
                     /\ Holds(mem, pending[i].addr, d) => Holds(mem', pending[i].addr, d)
    <2>1. /\ pending[i].addr \in Nat /\ pending[i].ext \in Nat
          /\ pending[i].addr + pending[i].ext <= MaxUsed
      BY <1>1, Numbers DEF Placed, InUsed
    <2>2. pending[i].ext >= HeaderSize
      BY <1>1, <2>1 DEF Valued, PendingSizes
    <2>3. QED
      BY <1>1, <2>1, <2>2, Untouched
  <1>4. ASSUME NEW l \in lease
        PROVE  SizeIn(mem', l.addr) = Len(l.data) /\ Holds(mem', l.addr, l.data)
    <2>1. PICK i \in DOMAIN pending : Kept(l, i)
      BY <1>1 DEF Valued, LeasesKept
    <2>2. /\ l.data \in Seq(Nat) /\ pending[i].addr = l.addr /\ Len(l.data) + HeaderSize <= pending[i].ext
          /\ SizeIn(mem, l.addr) = Len(l.data) /\ Holds(mem, l.addr, l.data)
      BY <1>1, <2>1, Numbers DEF Kept, Valued, LeasesKept
    <2>3. QED
      BY <1>3, <2>2
  <1>5. QED
    BY <1>2, <1>3, <1>4

\* kind does not change, and so neither does what the operators mean.
LEMMA SameClass ==
    ASSUME UNCHANGED kind
    PROVE  /\ HeaderSize' = HeaderSize
           /\ \A a : SizeIn(mem, a)' = SizeIn(mem', a)
           /\ \A a, d : Holds(mem, a, d)' = Holds(mem', a, d)
  BY DEF HeaderSize, SizeIn, Holds

\* A step that keeps the values of the delayed frees and of the leases.
LEMMA RestKept ==
    ASSUME IInv, UNCHANGED <<kind, pending, lease>>,
           \A i \in DOMAIN pending : SizeIn(mem', pending[i].addr) = SizeIn(mem, pending[i].addr),
           \A l \in lease : SizeIn(mem', l.addr) = Len(l.data) /\ Holds(mem', l.addr, l.data)
    PROVE  PendingSizes' /\ LeasesKept'
  <1>1. PendingSizes /\ LeasesKept
    BY DEF IInv, Valued
  <1>2. PendingSizes'
    BY <1>1, SameClass DEF PendingSizes
  <1>3. LeasesKept'
    BY <1>1, SameClass DEF LeasesKept, Kept
  <1>4. QED
    BY <1>2, <1>3

-----------------------------------------------------------------------------
(* NewData *)

\* The block that Alloc finds or carves is nobody else's.
LEMMA AllocFacts ==
    ASSUME IInv, NEW a \in Addrs, NEW n \in Nat, DoAlloc(a, n),
           kind = "fix" => n = ValueSize
    PROVE  /\ a \in Nat /\ used' \in 0 .. MaxUsed /\ used <= used' /\ a + n + HeaderSize <= used'
           /\ freeList' \subseteq freeList
           /\ \A c \in Clients : HasValue(c) => Apart(a, n + HeaderSize, held[c].addr, held[c].ext)
           /\ \A i \in DOMAIN pending : Apart(a, n + HeaderSize, pending[i].addr, pending[i].ext)
           /\ \A b \in freeList' : Apart(a, n + HeaderSize, b.addr, b.size)
           /\ mem' = SetHeader(mem, a, n)
  <1>1. Types /\ Placed /\ a \in Nat /\ HeaderSize \in Nat /\ mem' = SetHeader(mem, a, n)
    BY ConstantFacts DEF IInv, DoAlloc
  <1>. DEFINE size == n + HeaderSize
  <1>2. size \in Nat
    BY <1>1
  <1>3. CASE a \in Fit(size) /\ freeList' = freeList \ {[addr |-> a, size |-> size]} /\ used' = used
    <2>1. PICK b \in freeList : b.size = size /\ b.addr = a
      BY <1>3 DEF Fit
    <2>2. b = [addr |-> a, size |-> size]
      BY <1>1, <2>1 DEF Types
    <2>3. /\ a + size <= used
          /\ \A c \in Clients : HasValue(c) => Apart(held[c].addr, held[c].ext, a, size)
          /\ \A i \in DOMAIN pending : Apart(pending[i].addr, pending[i].ext, a, size)
          /\ \A d \in freeList : d # b => Apart(a, size, d.addr, d.size)
      BY <1>1, <2>1 DEF Placed, InUsed, HeldApart, PendingApart, FreeApart
    <2>4. QED
      BY <1>1, <1>2, <1>3, <2>2, <2>3, Numbers DEF Apart
  <1>4. CASE a = used /\ used + size <= MaxUsed /\ used' = used + size /\ freeList' = freeList
    <2>1. used \in Nat /\ used' \in 0 .. MaxUsed
      BY <1>1, <1>2, <1>4, Numbers
    <2>2. QED
      BY <1>1, <1>2, <1>4, <2>1 DEF Placed, InUsed, Apart
  <1>5. QED
    BY <1>3, <1>4 DEF DoAlloc

LEMMA NewDataAllocIInv ==
    ASSUME IInv, NEW c \in Clients, NEW data \in Data, NewDataAlloc(c, data)
    PROVE  IInv'
  <1>1. /\ Types /\ Placed /\ Valued /\ data \in Seq(Nat) /\ Len(data) \in Nat /\ HeaderSize \in Nat
        /\ ~HasValue(c) /\ UNCHANGED <<kind, pending, lease>>
        /\ kind = "fix" => Len(data) = ValueSize
    BY DataFacts, ConstantFacts DEF IInv, NewDataAlloc, FixTakes, HasValue
  <1>. DEFINE ext == Len(data) + HeaderSize
  <1>2. PICK a \in Addrs :
           /\ DoAlloc(a, Len(data))
           /\ held' = [held EXCEPT ![c] = [addr |-> a, data |-> data, ext |-> ext, written |-> FALSE]]
    BY DEF NewDataAlloc
  <1>3. /\ a \in Nat /\ used' \in 0 .. MaxUsed /\ used <= used' /\ a + ext <= used'
        /\ freeList' \subseteq freeList
        /\ \A d \in Clients : HasValue(d) => Apart(a, ext, held[d].addr, held[d].ext)
        /\ \A i \in DOMAIN pending : Apart(a, ext, pending[i].addr, pending[i].ext)
        /\ \A b \in freeList' : Apart(a, ext, b.addr, b.size)
        /\ mem' = SetHeader(mem, a, Len(data))
    <2>1. a + Len(data) + HeaderSize <= used' => a + ext <= used'
      BY <1>1, ConstantFacts
    <2>2. QED
      BY <1>1, <1>2, <2>1, AllocFacts
  <1>4. /\ ext \in Nat /\ ext >= HeaderSize /\ a + HeaderSize <= MaxUsed /\ HeaderSize \in Nat
        /\ Len(data) + HeaderSize <= ext
    BY <1>1, <1>3, ConstantFacts
  <1>. HIDE DEF ext
  <1>5. /\ mem' \in [Addrs -> Nat] /\ SizeIn(mem', a) = Len(data)
        /\ \A x \in Addrs : ~(a <= x /\ x < a + ext) => mem'[x] = mem[x]
    <2>1. /\ mem' \in [Addrs -> Nat] /\ SizeIn(mem', a) = Len(data)
          /\ \A x \in Addrs : ~(a <= x /\ x < a + HeaderSize) => mem'[x] = mem[x]
      <3>1. mem \in [Addrs -> Nat] /\ kind \in {"fix", "var"}
        BY <1>1 DEF Types
      <3>2. PICK n \in Nat : n = Len(data)
        BY <1>1
      <3>3. mem' = SetHeader(mem, a, n) /\ a \in Nat /\ (kind = "fix" => n = ValueSize)
        BY <1>1, <1>3, <3>2
      <3>4. QED
        BY <1>4, <3>1, <3>2, <3>3, SetHeaderFacts
    <2>2. ASSUME NEW x \in Addrs, ~(a <= x /\ x < a + ext) PROVE mem'[x] = mem[x]
      <3>1. x \in Nat /\ a \in Nat
        BY <1>3, ConstantFacts
      <3>2. ~(a <= x /\ x < a + HeaderSize)
        BY <1>4, <2>2, <3>1
      <3>3. QED
        BY <2>1, <3>2
    <2>3. QED
      BY <2>1, <2>2
  <1>6. /\ held'[c] = [addr |-> a, data |-> data, ext |-> ext, written |-> FALSE]
        /\ DOMAIN held' = Clients
        /\ \A d \in Clients : d # c => held'[d] = held[d]
    BY <1>1, <1>2 DEF Types
  <1>7. Types'
    <2>1. held'[c] \in [addr : Nat, data : Seq(Nat), ext : Nat, written : BOOLEAN]
      BY <1>1, <1>3, <1>4, <1>6
    <2>2. \A d \in Clients : held'[d] # None =>
             held'[d] \in [addr : Nat, data : Seq(Nat), ext : Nat, written : BOOLEAN]
      BY <1>1, <1>6, <2>1 DEF Types, HasValue
    <2>3. QED
      BY <1>1, <1>3, <1>5, <1>6, <2>2 DEF Types, HasValue
  <1>8. Placed'
    <2>1. InUsed'
      <3>1. used \in Nat /\ used' \in Nat
        BY <1>1, <1>3, Numbers
      <3>2. ASSUME NEW d \in Clients, held'[d] # None PROVE held'[d].addr + held'[d].ext <= used'
        <4>1. CASE d = c
          BY <1>3, <1>6, <4>1
        <4>2. CASE d # c
          <5>1. HasValue(d) /\ held'[d] = held[d]
            BY <1>6, <3>2, <4>2 DEF HasValue
          <5>2. held[d].addr + held[d].ext <= used /\ held[d].addr \in Nat /\ held[d].ext \in Nat
            BY <1>1, <5>1, Numbers DEF Placed, InUsed
          <5>3. QED
            BY <1>3, <3>1, <5>1, <5>2
        <4>3. QED
          BY <4>1, <4>2
      <3>3. ASSUME NEW i \in DOMAIN pending PROVE pending[i].addr + pending[i].ext <= used'
        BY <1>1, <1>3, <3>1, Numbers DEF Placed, InUsed
      <3>4. ASSUME NEW b \in freeList' PROVE b.addr + b.size <= used'
        BY <1>1, <1>3, <3>1, Numbers DEF Placed, InUsed
      <3>5. QED
        BY <1>1, <3>2, <3>3, <3>4 DEF InUsed, HasValue
    <2>2. HeldApart'
      <3>1. ASSUME NEW d \in Clients, held'[d] # None, d # c
            PROVE  /\ held'[d] = held[d] /\ HasValue(d)
                   /\ Apart(held[d].addr, held[d].ext, a, ext)
        BY <1>1, <1>3, <1>4, <1>6, <3>1, Numbers DEF Apart, HasValue
      <3>2. QED
        BY <1>1, <1>3, <1>6, <3>1 DEF Placed, HeldApart, HasValue
    <2>3. PendingApart' /\ FreeApart'
      BY <1>1, <1>3 DEF Placed, PendingApart, FreeApart
    <2>4. QED
      BY <2>1, <2>2, <2>3 DEF Placed
  <1>9. Valued'
    <2>1. /\ \A d \in Clients : HasValue(d) =>
                /\ SizeIn(mem', held[d].addr) = Len(held[d].data)
                /\ held[d].written => Holds(mem', held[d].addr, held[d].data)
          /\ \A i \in DOMAIN pending : SizeIn(mem', pending[i].addr) = SizeIn(mem, pending[i].addr)
          /\ \A l \in lease : SizeIn(mem', l.addr) = Len(l.data) /\ Holds(mem', l.addr, l.data)
      BY <1>3, <1>4, <1>5, OthersKept
    <2>2. HeldValues'
      <3>1. ASSUME NEW d \in Clients, held'[d] # None
            PROVE  /\ Len(held'[d].data) + HeaderSize <= held'[d].ext
                   /\ SizeIn(mem', held'[d].addr) = Len(held'[d].data)
                   /\ held'[d].written => Holds(mem', held'[d].addr, held'[d].data)
        <4>1. CASE d = c
          BY <1>4, <1>5, <1>6, <4>1
        <4>2. CASE d # c
          <5>1. HasValue(d) /\ held'[d] = held[d]
            BY <1>6, <3>1, <4>2 DEF HasValue
          <5>2. QED
            BY <1>1, <2>1, <5>1 DEF Valued, HeldValues
        <4>3. QED
          BY <4>1, <4>2
      <3>2. QED
        BY <1>1, <3>1, SameClass DEF HeldValues, HasValue
    <2>3. PendingSizes' /\ LeasesKept'
      BY <1>1, <2>1, RestKept
    <2>4. QED
      BY <2>2, <2>3 DEF Valued
  <1>10. QED
    BY <1>7, <1>8, <1>9 DEF IInv

-----------------------------------------------------------------------------
(* The other calls of the clients *)

\* A client writes data into its own block and nobody else's: NewData's Write and Write.
LEMMA OwnWrite ==
    ASSUME IInv, NEW c \in Clients, HasValue(c), NEW data \in Seq(Nat),
           NEW m \in [Addrs -> Nat],
           SizeIn(m, held[c].addr) = Len(data),
           Len(data) + HeaderSize <= held[c].ext,
           \A x \in Addrs :
               ~(held[c].addr <= x /\ x < held[c].addr + held[c].ext) => m[x] = mem[x],
           mem' = Put(m, held[c].addr + HeaderSize, data),
           UNCHANGED <<kind, used, freeList, pending, lease>>,
           DOMAIN held' = Clients,
           \A d \in Clients : d # c => held'[d] = held[d],
           held'[c] # None =>
              /\ held'[c] \in [addr : Nat, data : Seq(Nat), ext : Nat, written : BOOLEAN]
              /\ held'[c].addr = held[c].addr /\ held'[c].ext = held[c].ext /\ held'[c].data = data
    PROVE  IInv'
  <1>1. /\ Types /\ Placed /\ Valued /\ Len(data) \in Nat /\ HeaderSize \in Nat
        /\ held[c].addr \in Nat /\ held[c].ext \in Nat /\ held[c].addr + held[c].ext <= MaxUsed
        /\ MaxUsed \in Nat /\ used \in Nat /\ used <= MaxUsed
    <2>1. Types /\ Placed /\ Valued
      BY DEF IInv
    <2>2. held[c].addr + held[c].ext <= used
      BY <2>1 DEF Placed, InUsed
    <2>3. QED
      BY <2>1, <2>2, Numbers, ConstantFacts, LenProperties
  <1>. DEFINE a == held[c].addr
              e == held[c].ext
  <1>2. a + HeaderSize + Len(data) <= MaxUsed
    BY <1>1
  <1>3. /\ mem' \in [Addrs -> Nat] /\ Holds(mem', a, data)
        /\ \A x \in Addrs :
              ~(a + HeaderSize <= x /\ x < a + HeaderSize + Len(data)) => mem'[x] = m[x]
    <2>1. PICK b \in Nat : b = held[c].addr
      BY <1>1
    <2>2. b + HeaderSize + Len(data) <= MaxUsed
      BY <1>2, <2>1
    <2>3. LET p == Put(m, b + HeaderSize, data)
          IN  /\ p \in [Addrs -> Nat]
              /\ Holds(p, b, data)
              /\ \A x \in Addrs :
                    ~(b + HeaderSize <= x /\ x < b + HeaderSize + Len(data)) => p[x] = m[x]
      BY <2>2, PutFacts, Zenon
    <2>4. mem' = Put(m, b + HeaderSize, data)
      BY <2>1
    <2>5. QED
      BY <2>1, <2>3, <2>4
  <1>4. ASSUME NEW x \in Addrs, ~(a <= x /\ x < a + e) PROVE mem'[x] = mem[x]
    <2>1. x \in Nat
      BY ConstantFacts
    <2>2. ~(a + HeaderSize <= x /\ x < a + HeaderSize + Len(data))
      BY <1>1, <1>4, <2>1
    <2>3. QED
      BY <1>3, <1>4, <2>2
  <1>5. SizeIn(mem', a) = Len(data)
    <2>1. CASE kind = "var"
      <3>1. HeaderSize = 1 /\ a \in Addrs
        BY <1>1, <1>2, <2>1, ConstantFacts
      <3>2. mem'[a] = m[a]
        BY <1>1, <1>3, <3>1
      <3>3. QED
        BY <2>1, <3>2 DEF SizeIn
    <2>2. CASE kind # "var"
      BY <2>2 DEF SizeIn
    <2>3. QED
      BY <2>1, <2>2
  <1>. DEFINE S == Clients \ {c}
  <1>6. /\ \A d \in S : HasValue(d) => Apart(a, e, held[d].addr, held[d].ext)
        /\ \A i \in DOMAIN pending : Apart(a, e, pending[i].addr, pending[i].ext)
    BY <1>1 DEF Placed, HeldApart
  <1>7. /\ \A d \in S : HasValue(d) =>
              /\ SizeIn(mem', held[d].addr) = Len(held[d].data)
              /\ held[d].written => Holds(mem', held[d].addr, held[d].data)
        /\ \A i \in DOMAIN pending : SizeIn(mem', pending[i].addr) = SizeIn(mem, pending[i].addr)
        /\ \A l \in lease : SizeIn(mem', l.addr) = Len(l.data) /\ Holds(mem', l.addr, l.data)
    <2>1. S \in SUBSET Clients /\ a \in Nat /\ e \in Nat
      BY <1>1
    <2>. HIDE DEF a, e, S
    <2>2. QED
      BY <1>3, <1>4, <1>6, <2>1, OthersKept
  <1>8. Types'
    BY <1>1, <1>3 DEF Types, HasValue
  <1>9. Placed'
    BY <1>1, PlacedKept DEF HasValue
  <1>10. HeldValues'
    <2>1. ASSUME NEW d \in Clients, held'[d] # None
          PROVE  /\ Len(held'[d].data) + HeaderSize <= held'[d].ext
                 /\ SizeIn(mem', held'[d].addr) = Len(held'[d].data)
                 /\ held'[d].written => Holds(mem', held'[d].addr, held'[d].data)
      <3>1. CASE d = c
        BY <1>3, <1>5, <2>1, <3>1
      <3>2. CASE d # c
        BY <1>1, <1>7, <2>1, <3>2 DEF Valued, HeldValues, HasValue
      <3>3. QED
        BY <3>1, <3>2
    <2>2. QED
      BY <2>1, SameClass DEF HeldValues, HasValue
  <1>11. PendingSizes' /\ LeasesKept'
    BY <1>7, RestKept
  <1>12. QED
    BY <1>8, <1>9, <1>10, <1>11 DEF IInv, Valued

LEMMA NewDataWriteIInv ==
    ASSUME IInv, NEW c \in Clients, NewDataWrite(c)
    PROVE  IInv'
  <1>1. Types /\ Valued /\ HasValue(c)
    BY DEF IInv, NewDataWrite, HasValue
  <1>2. /\ held[c] \in [addr : Nat, data : Seq(Nat), ext : Nat, written : BOOLEAN]
        /\ mem \in [Addrs -> Nat] /\ DOMAIN held = Clients
        /\ SizeIn(mem, held[c].addr) = Len(held[c].data)
        /\ Len(held[c].data) + HeaderSize <= held[c].ext
    BY <1>1 DEF Types, Valued, HeldValues
  <1>3. /\ mem' = Put(mem, held[c].addr + HeaderSize, held[c].data)
        /\ held' = [held EXCEPT ![c].written = TRUE]
        /\ UNCHANGED <<kind, used, freeList, pending, lease>>
    BY DEF NewDataWrite
  <1>4. PICK data \in Seq(Nat) : data = held[c].data
    BY <1>2
  <1>5. /\ DOMAIN held' = Clients
        /\ \A d \in Clients : d # c => held'[d] = held[d]
        /\ held'[c] \in [addr : Nat, data : Seq(Nat), ext : Nat, written : BOOLEAN]
        /\ held'[c].addr = held[c].addr /\ held'[c].ext = held[c].ext /\ held'[c].data = data
    BY <1>2, <1>3, <1>4
  <1>6. PICK m \in [Addrs -> Nat] : m = mem
    BY <1>2
  <1>7. /\ SizeIn(m, held[c].addr) = Len(data) /\ Len(data) + HeaderSize <= held[c].ext
        /\ mem' = Put(m, held[c].addr + HeaderSize, data)
        /\ \A x \in Addrs :
              ~(held[c].addr <= x /\ x < held[c].addr + held[c].ext) => m[x] = mem[x]
    BY <1>2, <1>3, <1>4, <1>6
  <1>8. QED
    BY <1>1, <1>3, <1>4, <1>5, <1>6, <1>7, OwnWrite, ZenonT(60)

LEMMA WriteIInv ==
    ASSUME IInv, NEW c \in Clients, NEW data \in Data, Write(c, data)
    PROVE  IInv'
  <1>1. Types /\ Placed /\ Valued /\ HasValue(c) /\ data \in Seq(Nat) /\ Len(data) \in Nat /\ HeaderSize \in Nat
    BY DataFacts, ConstantFacts DEF IInv, Write, Takes, HasValue
  <1>2. /\ held[c] \in [addr : Nat, data : Seq(Nat), ext : Nat, written : BOOLEAN]
        /\ mem \in [Addrs -> Nat] /\ DOMAIN held = Clients /\ kind \in {"fix", "var"}
        /\ SizeIn(mem, held[c].addr) = Len(held[c].data) /\ Len(held[c].data) \in Nat
        /\ Len(held[c].data) + HeaderSize <= held[c].ext
        /\ held[c].addr + held[c].ext <= MaxUsed /\ MaxUsed \in Nat
    <2>1. held[c].addr + held[c].ext <= used /\ used \in Nat /\ used <= MaxUsed /\ MaxUsed \in Nat
      BY <1>1, Numbers DEF Placed, InUsed
    <2>2. QED
      BY <1>1, <2>1, Numbers DEF Types, Valued, HeldValues
  <1>3. /\ mem' = Put(SetHeader(mem, held[c].addr, Len(data)), held[c].addr + HeaderSize, data)
        /\ held' = [held EXCEPT ![c].data = data]
        /\ UNCHANGED <<kind, used, freeList, pending, lease>>
    BY DEF Write
  <1>4. Len(data) <= Len(held[c].data) /\ (kind = "fix" => Len(data) = ValueSize)
    BY <1>2 DEF Write, Takes, SizeIn, FixTakes
  <1>5. PICK a \in Nat, n \in Nat : a = held[c].addr /\ n = Len(data)
    BY <1>1, <1>2
  <1>6. a + HeaderSize <= MaxUsed /\ n + HeaderSize <= held[c].ext /\ HeaderSize <= held[c].ext
    BY <1>1, <1>2, <1>4, <1>5
  <1>. DEFINE m == SetHeader(mem, a, n)
  <1>7. /\ m \in [Addrs -> Nat] /\ SizeIn(m, a) = n
        /\ \A x \in Addrs : ~(a <= x /\ x < a + HeaderSize) => m[x] = mem[x]
    BY <1>2, <1>4, <1>5, <1>6, SetHeaderFacts
  <1>8. \A x \in Addrs :
           ~(held[c].addr <= x /\ x < held[c].addr + held[c].ext) => m[x] = mem[x]
    <2>1. \A x \in Addrs : x \in Nat
      BY ConstantFacts
    <2>. HIDE DEF m
    <2>2. QED
      BY <1>1, <1>2, <1>5, <1>6, <1>7, <2>1
  <1>9. /\ DOMAIN held' = Clients
        /\ \A d \in Clients : d # c => held'[d] = held[d]
        /\ held'[c] \in [addr : Nat, data : Seq(Nat), ext : Nat, written : BOOLEAN]
        /\ held'[c].addr = held[c].addr /\ held'[c].ext = held[c].ext /\ held'[c].data = data
    BY <1>1, <1>2, <1>3
  <1>10. mem' = Put(m, held[c].addr + HeaderSize, data)
    BY <1>3, <1>5
  <1>11. SizeIn(m, held[c].addr) = Len(data) /\ Len(data) + HeaderSize <= held[c].ext
    BY <1>5, <1>6, <1>7
  <1>. HIDE DEF m
  <1>12. QED
    BY <1>1, <1>3, <1>7, <1>8, <1>9, <1>10, <1>11, OwnWrite, ZenonT(60)

\* To write what is there already changes nothing.
LEMMA PutSame ==
    ASSUME NEW m \in [Addrs -> Nat], NEW a \in Nat, NEW data \in Seq(Nat), Holds(m, a, data)
    PROVE  Put(m, a + HeaderSize, data) = m
  <1>. DEFINE at == a + HeaderSize
  <1>1. at \in Nat /\ Len(data) \in Nat /\ \A x \in Addrs : x \in Nat
    BY ConstantFacts, LenProperties
  <1>2. ASSUME NEW x \in Addrs, x \in at .. at + Len(data) - 1 PROVE data[x - at + 1] = m[x]
    <2>1. PICK i \in 1 .. Len(data) : i = x - at + 1
      BY <1>1, <1>2
    <2>2. m[at + i - 1] = data[i]
      BY DEF Holds
    <2>3. at + i - 1 = x
      BY <1>1, <2>1
    <2>4. QED
      BY <2>1, <2>2, <2>3
  <1>3. Put(m, at, data) = [x \in Addrs |-> m[x]]
    BY <1>2 DEF Put
  <1>4. QED
    BY <1>3

\* A refused Write leaves the front of the old value, as long as the header now says.
LEMMA WriteFailsIInv ==
    ASSUME IInv, NEW c \in Clients, NEW data \in Data, WriteFails(c, data)
    PROVE  IInv'
  <1>1. /\ Types /\ Placed /\ Valued /\ HasValue(c) /\ held[c].written = TRUE
        /\ data \in Seq(Nat) /\ Len(data) \in Nat /\ HeaderSize \in Nat
    <2>1. Types /\ Placed /\ Valued /\ HasValue(c) /\ held[c].written
      BY DEF IInv, WriteFails, Takes, HasValue
    <2>2. held[c].written \in BOOLEAN
      BY <2>1 DEF Types
    <2>3. QED
      BY <2>1, <2>2, DataFacts, ConstantFacts
  <1>2. /\ held[c] \in [addr : Nat, data : Seq(Nat), ext : Nat, written : BOOLEAN]
        /\ mem \in [Addrs -> Nat] /\ DOMAIN held = Clients /\ kind \in {"fix", "var"}
        /\ SizeIn(mem, held[c].addr) = Len(held[c].data) /\ Len(held[c].data) \in Nat
        /\ Len(held[c].data) + HeaderSize <= held[c].ext
        /\ Holds(mem, held[c].addr, held[c].data)
        /\ held[c].addr + held[c].ext <= MaxUsed /\ MaxUsed \in Nat
    <2>1. held[c].addr + held[c].ext <= used /\ used \in Nat /\ used <= MaxUsed /\ MaxUsed \in Nat
      BY <1>1, Numbers DEF Placed, InUsed
    <2>2. QED
      BY <1>1, <2>1, Numbers DEF Types, Valued, HeldValues
  <1>3. /\ mem' = SetHeader(mem, held[c].addr, Len(data))
        /\ held' = [held EXCEPT ![c].data = SubSeq(held[c].data, 1, Len(data))]
        /\ UNCHANGED <<kind, used, freeList, pending, lease>>
    BY DEF WriteFails
  <1>4. Len(data) <= Len(held[c].data) /\ (kind = "fix" => Len(data) = ValueSize)
    BY <1>2 DEF WriteFails, Takes, SizeIn, FixTakes
  <1>5. PICK a \in Nat, n \in Nat, old \in Seq(Nat) :
           a = held[c].addr /\ n = Len(data) /\ old = held[c].data
    BY <1>1, <1>2
  <1>6. a + HeaderSize <= MaxUsed /\ n + HeaderSize <= held[c].ext /\ HeaderSize <= held[c].ext
    BY <1>1, <1>2, <1>4, <1>5
  <1>. DEFINE m == SetHeader(mem, a, n)
              cut == SubSeq(old, 1, n)
  <1>7. /\ m \in [Addrs -> Nat] /\ SizeIn(m, a) = n
        /\ \A x \in Addrs : ~(a <= x /\ x < a + HeaderSize) => m[x] = mem[x]
    <2>1. mem \in [Addrs -> Nat] /\ (kind = "fix" => n = ValueSize) /\ kind \in {"fix", "var"}
      BY <1>2, <1>4, <1>5
    <2>2. QED
      BY <1>6, <2>1, SetHeaderFacts
  <1>8. cut \in Seq(Nat) /\ Len(cut) = n /\ \A i \in 1 .. n : cut[i] = old[i]
    <2>1. ASSUME NEW i \in 1 .. n PROVE i \in 1 .. Len(old)
      BY <1>2, <1>4, <1>5
    <2>2. \A i \in 1 .. n : old[i] \in Nat
      BY <2>1, ElementOfSeq
    <2>3. 1 \in Int /\ n \in Int
      OBVIOUS
    <2>4. /\ cut \in Seq(Nat) /\ Len(cut) = (IF 1 <= n THEN n - 1 + 1 ELSE 0)
          /\ \A i \in 1 .. n - 1 + 1 : cut[i] = old[1 + i - 1]
      BY <2>2, <2>3, SubSeqProperties
    <2>5. n - 1 + 1 = n /\ \A i \in 1 .. n : 1 + i - 1 = i
      OBVIOUS
    <2>. HIDE DEF cut
    <2>6. QED
      BY <2>4, <2>5
  <1>. HIDE DEF m, cut
  <1>9. \A x \in Addrs :
           ~(held[c].addr <= x /\ x < held[c].addr + held[c].ext) => m[x] = mem[x]
    <2>1. \A x \in Addrs : x \in Nat
      BY ConstantFacts
    <2>2. QED
      BY <1>1, <1>2, <1>5, <1>6, <1>7, <2>1
  <1>10. ASSUME NEW i \in 1 .. Len(cut) PROVE m[a + HeaderSize + i - 1] = cut[i]
    <2>1. i \in 1 .. n /\ i \in 1 .. Len(old)
      BY <1>2, <1>4, <1>5, <1>8
    <2>2. mem[a + HeaderSize + i - 1] = old[i]
      BY <1>2, <1>5, <2>1 DEF Holds
    <2>3. PICK x \in Nat : x = a + HeaderSize + i - 1 /\ a + HeaderSize <= x
      BY <1>1, <2>1
    <2>4. x \in Addrs
      <3>1. PICK l \in Nat, e \in Nat, h \in Nat :
               l = Len(old) /\ e = held[c].ext /\ h = HeaderSize
        BY <1>1, <1>2, <1>5
      <3>2. l + h <= e /\ a + e <= MaxUsed
        BY <1>2, <1>5, <3>1
      <3>3. x = a + h + i - 1 /\ i \in 1 .. l
        BY <2>1, <2>3, <3>1
      <3>4. x \in 0 .. MaxUsed - 1
        BY <1>2, <3>2, <3>3
      <3>5. QED
        BY <3>4, ConstantFacts
    <2>5. m[x] = mem[x]
      BY <1>1, <1>7, <2>3, <2>4
    <2>6. QED
      BY <1>8, <2>1, <2>2, <2>3, <2>5
  <1>11. Holds(m, a, cut)
    BY <1>10 DEF Holds
  <1>12. mem' = Put(m, held[c].addr + HeaderSize, cut)
    <2>1. Put(m, a + HeaderSize, cut) = m
      BY <1>7, <1>8, <1>11, PutSame, Zenon
    <2>2. QED
      BY <1>3, <1>5, <2>1 DEF m
  <1>13. /\ DOMAIN held' = Clients
         /\ \A d \in Clients : d # c => held'[d] = held[d]
         /\ held'[c] \in [addr : Nat, data : Seq(Nat), ext : Nat, written : BOOLEAN]
         /\ held'[c].addr = held[c].addr /\ held'[c].ext = held[c].ext /\ held'[c].data = cut
    <2>1. held' = [held EXCEPT ![c].data = cut]
      BY <1>3, <1>5 DEF cut
    <2>2. QED
      BY <1>1, <1>2, <1>8, <2>1
  <1>14. SizeIn(m, held[c].addr) = Len(cut) /\ Len(cut) + HeaderSize <= held[c].ext
    BY <1>5, <1>6, <1>7, <1>8
  <1>15. /\ HasValue(c) /\ cut \in Seq(Nat) /\ m \in [Addrs -> Nat]
         /\ UNCHANGED <<kind, used, freeList, pending, lease>>
    BY <1>1, <1>3, <1>7, <1>8
  <1>16. QED
    BY <1>9, <1>12, <1>13, <1>14, <1>15, OwnWrite, ZenonT(60)

LEMMA NewDataFailsIInv ==
    ASSUME IInv, NEW c \in Clients, NewDataFails(c)
    PROVE  IInv'
  <1>1. /\ Types /\ Placed /\ Valued
        /\ held' = [held EXCEPT ![c] = None]
        /\ UNCHANGED <<kind, mem, used, freeList, pending, lease>>
    BY DEF IInv, NewDataFails
  <1>2. \A d \in Clients : held'[d] # None => HasValue(d) /\ held'[d] = held[d]
    BY <1>1 DEF Types, HasValue
  <1>3. Types'
    BY <1>1, <1>2 DEF Types, HasValue
  <1>4. Placed'
    BY <1>1, <1>2, PlacedKept
  <1>5. Valued'
    <2>1. HeldValues'
      BY <1>1, <1>2, SameClass DEF Valued, HeldValues, HasValue
    <2>2. PendingSizes' /\ LeasesKept'
      BY <1>1, RestKept DEF Valued, LeasesKept
    <2>3. QED
      BY <2>1, <2>2 DEF Valued
  <1>6. QED
    BY <1>3, <1>4, <1>5 DEF IInv

-----------------------------------------------------------------------------
(* Free, the delayed free, the clock *)

LEMMA FreeIInv ==
    ASSUME IInv, NEW c \in Clients, Free(c)
    PROVE  IInv'
  <1>1. Types /\ Placed /\ Valued /\ HasValue(c) /\ held[c].written
    BY DEF IInv, Free, HasValue
  <1>2. /\ held[c].addr \in Nat /\ held[c].ext \in Nat /\ held[c].data \in Seq(Nat)
        /\ Len(held[c].data) \in Nat /\ HeaderSize \in Nat /\ ReuseTimegap \in Nat \ {0}
        /\ held[c].addr + held[c].ext <= used
        /\ SizeIn(mem, held[c].addr) = Len(held[c].data) /\ Holds(mem, held[c].addr, held[c].data)
        /\ Len(held[c].data) + HeaderSize <= held[c].ext
    BY <1>1, Numbers, ConstantFacts DEF Placed, InUsed, Valued, HeldValues
  <1>. DEFINE new == [addr |-> held[c].addr, ext |-> held[c].ext, wait |-> ReuseTimegap]
              l0 == [addr |-> held[c].addr, data |-> held[c].data, age |-> 0]
              n == Len(pending)
  <1>3. /\ pending' = Append(pending, new) /\ lease' = lease \cup {l0}
        /\ held' = [held EXCEPT ![c] = None]
        /\ UNCHANGED <<kind, mem, used, freeList>>
    BY DEF Free
  <1>4. /\ new \in [addr : Nat, ext : Nat, wait : Nat]
        /\ new.addr = held[c].addr /\ new.ext = held[c].ext /\ new.wait = ReuseTimegap
        /\ l0 \in [addr : Nat, data : Seq(Nat), age : Nat]
        /\ l0.addr = held[c].addr /\ l0.data = held[c].data /\ l0.age = 0
    BY <1>2
  <1>5. n \in Nat /\ DOMAIN pending = 1 .. n /\ pending \in Seq([addr : Nat, ext : Nat, wait : Nat])
    BY <1>1, Numbers DEF Types
  <1>. HIDE DEF new, l0, n
  <1>6. /\ pending' \in Seq([addr : Nat, ext : Nat, wait : Nat]) /\ DOMAIN pending' = 1 .. n + 1
        /\ \A i \in DOMAIN pending : pending'[i] = pending[i]
        /\ pending'[n + 1] = new
    BY <1>3, <1>4, <1>5, AppendProperties DEF n
  <1>7. \A d \in Clients : held'[d] # None => d # c /\ HasValue(d) /\ held'[d] = held[d]
    BY <1>1, <1>3 DEF Types, HasValue
  <1>8. \A i \in DOMAIN pending' : i \in DOMAIN pending \/ (i = n + 1 /\ pending'[i] = new)
    BY <1>5, <1>6
  <1>9. Types'
    BY <1>1, <1>3, <1>4, <1>6, <1>7 DEF Types, HasValue
  <1>10. Placed'
    <2>1. \A i \in DOMAIN pending' : pending'[i].addr + pending'[i].ext <= used
      BY <1>1, <1>2, <1>4, <1>6, <1>8 DEF Placed, InUsed
    <2>2. InUsed'
      BY <1>1, <1>3, <1>7, <2>1 DEF Placed, InUsed, HasValue
    <2>3. ASSUME NEW d \in Clients, held'[d] # None, NEW i \in DOMAIN pending'
          PROVE  Apart(held[d].addr, held[d].ext, pending'[i].addr, pending'[i].ext)
      <3>1. HasValue(d) /\ d # c
        BY <1>7, <2>3
      <3>2. CASE i \in DOMAIN pending
        BY <1>1, <1>6, <3>1, <3>2 DEF Placed, HeldApart
      <3>3. CASE pending'[i] = new
        <4>1. Apart(held[d].addr, held[d].ext, held[c].addr, held[c].ext)
          BY <1>1, <3>1 DEF Placed, HeldApart
        <4>2. QED
          BY <1>4, <3>3, <4>1
      <3>4. QED
        BY <1>8, <3>2, <3>3
    <2>4. HeldApart'
      BY <1>1, <1>3, <1>7, <2>3 DEF Placed, HeldApart, HasValue
    <2>5. ASSUME NEW i \in DOMAIN pending
          PROVE  /\ Apart(pending[i].addr, pending[i].ext, new.addr, new.ext)
                 /\ Apart(new.addr, new.ext, pending[i].addr, pending[i].ext)
      <3>1. Apart(held[c].addr, held[c].ext, pending[i].addr, pending[i].ext)
        BY <1>1 DEF Placed, HeldApart
      <3>2. QED
        BY <1>1, <1>2, <1>4, <3>1, Numbers DEF Apart
    <2>6. \A b \in freeList : Apart(new.addr, new.ext, b.addr, b.size)
      BY <1>1, <1>4 DEF Placed, HeldApart
    <2>7. PendingApart'
      <3>1. ASSUME NEW i \in DOMAIN pending', NEW j \in DOMAIN pending', i # j
            PROVE  Apart(pending'[i].addr, pending'[i].ext, pending'[j].addr, pending'[j].ext)
        BY <1>1, <1>6, <1>8, <2>5, <3>1 DEF Placed, PendingApart
      <3>2. ASSUME NEW i \in DOMAIN pending', NEW b \in freeList
            PROVE  Apart(pending'[i].addr, pending'[i].ext, b.addr, b.size)
        BY <1>1, <1>6, <1>8, <2>6 DEF Placed, PendingApart
      <3>3. QED
        BY <1>3, <3>1, <3>2 DEF PendingApart
    <2>8. FreeApart'
      BY <1>1, <1>3 DEF Placed, FreeApart
    <2>9. QED
      BY <2>2, <2>4, <2>7, <2>8 DEF Placed
  <1>11. Valued'
    <2>1. HeldValues'
      BY <1>1, <1>3, <1>7, SameClass DEF Valued, HeldValues, HasValue
    <2>2. PendingSizes'
      <3>1. ASSUME NEW i \in DOMAIN pending'
            PROVE  /\ HeaderSize <= pending'[i].ext
                   /\ SizeIn(mem, pending'[i].addr) + HeaderSize <= pending'[i].ext
        <4>1. CASE i \in DOMAIN pending
          BY <1>1, <1>6, <4>1 DEF Valued, PendingSizes
        <4>2. CASE pending'[i] = new
          BY <1>2, <1>4, <4>2
        <4>3. QED
          BY <1>8, <4>1, <4>2
      <3>2. QED
        BY <1>3, <3>1, SameClass DEF PendingSizes
    <2>3. LeasesKept'
      <3>1. ASSUME NEW l \in lease'
            PROVE  /\ l.age < ReuseTimegap
                   /\ SizeIn(mem, l.addr) = Len(l.data) /\ Holds(mem, l.addr, l.data)
                   /\ \E i \in DOMAIN pending' :
                         /\ pending'[i].addr = l.addr
                         /\ pending'[i].wait >= ReuseTimegap - l.age
                         /\ Len(l.data) + HeaderSize <= pending'[i].ext
        <4>1. CASE l \in lease
          <5>1. /\ l.age < ReuseTimegap
                /\ SizeIn(mem, l.addr) = Len(l.data) /\ Holds(mem, l.addr, l.data)
            BY <1>1, <4>1 DEF Valued, LeasesKept
          <5>2. PICK i \in DOMAIN pending : Kept(l, i)
            BY <1>1, <4>1 DEF Valued, LeasesKept
          <5>3. i \in DOMAIN pending' /\ pending'[i] = pending[i]
            BY <1>5, <1>6
          <5>4. QED
            BY <5>1, <5>2, <5>3 DEF Kept
        <4>2. CASE l = l0
          <5>1. n + 1 \in DOMAIN pending'
            BY <1>5, <1>6
          <5>2. l.age < ReuseTimegap /\ ReuseTimegap >= ReuseTimegap - l.age
            BY <1>2, <1>4, <4>2
          <5>3. QED
            BY <1>2, <1>4, <1>6, <4>2, <5>1, <5>2
        <4>3. QED
          BY <1>3, <4>1, <4>2
      <3>2. QED
        BY <1>3, <3>1, SameClass DEF LeasesKept, Kept
    <2>4. QED
      BY <2>1, <2>2, <2>3 DEF Valued
  <1>12. QED
    BY <1>9, <1>10, <1>11 DEF IInv

LEMMA DelayedFreeIInv ==
    ASSUME IInv, DelayedFree
    PROVE  IInv'
  <1>1. Types /\ Placed /\ Valued /\ pending # <<>> /\ Head(pending).wait = 0
    BY DEF IInv, DelayedFree
  <1>. DEFINE n == Len(pending)
              p == pending[1]
              b == [addr |-> p.addr, size |-> SizeIn(mem, p.addr) + HeaderSize]
  <1>2. /\ pending \in Seq([addr : Nat, ext : Nat, wait : Nat])
        /\ n \in Nat \ {0} /\ DOMAIN pending = 1 .. n /\ 1 \in DOMAIN pending
        /\ Head(pending) = p
    <2>1. pending \in Seq([addr : Nat, ext : Nat, wait : Nat])
      BY <1>1 DEF Types
    <2>2. n \in Nat /\ DOMAIN pending = 1 .. n
      BY <1>1, Numbers
    <2>3. n # 0
      BY <1>1, <2>1, EmptySeq
    <2>4. QED
      BY <1>1, <2>1, <2>2, <2>3
  <1>3. /\ freeList' = freeList \cup {b} /\ pending' = Tail(pending)
        /\ UNCHANGED <<kind, mem, used, held, lease>>
    <2>1. SizeAt(p.addr) = SizeIn(mem, p.addr)
      BY DEF SizeAt, SizeIn
    <2>2. QED
      BY <1>2, <2>1 DEF DelayedFree
  <1>4. /\ p.addr \in Nat /\ p.ext \in Nat /\ p.wait = 0 /\ HeaderSize \in Nat
        /\ p.addr + p.ext <= used /\ used \in Nat /\ used <= MaxUsed /\ MaxUsed \in Nat
        /\ SizeIn(mem, p.addr) + HeaderSize <= p.ext /\ HeaderSize <= p.ext
    BY <1>1, <1>2, Numbers, ConstantFacts DEF Placed, InUsed, Valued, PendingSizes
  <1>5. SizeIn(mem, p.addr) \in Nat
    <2>1. CASE kind = "var"
      <3>1. p.addr \in Addrs
        BY <1>4, <2>1, ConstantFacts
      <3>2. QED
        BY <1>1, <2>1, <3>1 DEF Types, SizeIn
    <2>2. CASE kind # "var"
      BY <2>2, ConstantFacts DEF SizeIn
    <2>3. QED
      BY <2>1, <2>2
  <1>6. b \in [addr : Nat, size : Nat] /\ b.addr = p.addr /\ b.size \in Nat /\ b.size <= p.ext
    BY <1>4, <1>5
  <1>7. /\ pending' \in Seq([addr : Nat, ext : Nat, wait : Nat])
        /\ DOMAIN pending' = 1 .. n - 1
        /\ \A i \in 1 .. n - 1 : i + 1 \in DOMAIN pending /\ pending'[i] = pending[i + 1]
    BY <1>1, <1>2, <1>3, HeadTailProperties
  <1>. HIDE DEF n, p, b
  <1>8. \A i \in DOMAIN pending' : \E j \in DOMAIN pending :
           j = i + 1 /\ j # 1 /\ pending'[i] = pending[j]
    <2>1. ASSUME NEW i \in 1 .. n - 1 PROVE i + 1 # 1
      BY <1>2
    <2>2. QED
      BY <1>7, <2>1
  <1>9. Types'
    BY <1>1, <1>3, <1>6, <1>7 DEF Types, HasValue
  <1>10. ASSUME NEW x \in Nat, NEW y \in Nat
         PROVE  /\ Apart(x, y, p.addr, p.ext) => Apart(x, y, b.addr, b.size)
                /\ Apart(p.addr, p.ext, x, y) => Apart(b.addr, b.size, x, y)
                /\ Apart(p.addr, p.ext, x, y) => Apart(x, y, b.addr, b.size)
    BY <1>4, <1>6 DEF Apart
  <1>11. Placed'
    <2>1. InUsed'
      <3>1. b.addr + b.size <= used
        BY <1>4, <1>6
      <3>2. \A i \in DOMAIN pending' : pending'[i].addr + pending'[i].ext <= used
        BY <1>1, <1>8 DEF Placed, InUsed
      <3>3. QED
        BY <1>1, <1>3, <3>1, <3>2 DEF Placed, InUsed, HasValue
    <2>2. HeldApart'
      <3>1. ASSUME NEW c \in Clients, HasValue(c)
            PROVE  Apart(held[c].addr, held[c].ext, b.addr, b.size)
        <4>1. Apart(held[c].addr, held[c].ext, p.addr, p.ext)
          BY <1>1, <1>2, <3>1 DEF Placed, HeldApart, p
        <4>2. QED
          BY <1>1, <1>10, <3>1, <4>1, Numbers
      <3>2. ASSUME NEW c \in Clients, HasValue(c), NEW i \in DOMAIN pending'
            PROVE  Apart(held[c].addr, held[c].ext, pending'[i].addr, pending'[i].ext)
        BY <1>1, <1>8, <3>2 DEF Placed, HeldApart
      <3>3. QED
        BY <1>1, <1>3, <3>1, <3>2 DEF Placed, HeldApart, HasValue
    <2>3. PendingApart'
      <3>1. ASSUME NEW i \in DOMAIN pending', NEW j \in DOMAIN pending', i # j
            PROVE  Apart(pending'[i].addr, pending'[i].ext, pending'[j].addr, pending'[j].ext)
        <4>1. PICK k \in DOMAIN pending : k = i + 1 /\ pending'[i] = pending[k]
          BY <1>8
        <4>2. PICK m \in DOMAIN pending : m = j + 1 /\ pending'[j] = pending[m]
          BY <1>8
        <4>3. k # m
          BY <1>2, <1>7, <3>1, <4>1, <4>2
        <4>4. QED
          BY <1>1, <4>1, <4>2, <4>3 DEF Placed, PendingApart
      <3>2. ASSUME NEW i \in DOMAIN pending', NEW d \in freeList'
            PROVE  Apart(pending'[i].addr, pending'[i].ext, d.addr, d.size)
        <4>1. PICK k \in DOMAIN pending : k # 1 /\ pending'[i] = pending[k]
          BY <1>8
        <4>2. CASE d \in freeList
          BY <1>1, <4>1, <4>2 DEF Placed, PendingApart
        <4>3. CASE d = b
          <5>1. Apart(pending[k].addr, pending[k].ext, p.addr, p.ext)
            BY <1>1, <1>2, <4>1 DEF Placed, PendingApart, p
          <5>2. pending[k].addr \in Nat /\ pending[k].ext \in Nat
            BY <1>1, Numbers
          <5>3. QED
            BY <1>10, <4>1, <4>3, <5>1, <5>2
        <4>4. QED
          BY <1>3, <4>2, <4>3
      <3>3. QED
        BY <3>1, <3>2 DEF PendingApart
    <2>4. FreeApart'
      <3>1. ASSUME NEW d \in freeList
            PROVE  Apart(b.addr, b.size, d.addr, d.size) /\ Apart(d.addr, d.size, b.addr, b.size)
        <4>1. Apart(p.addr, p.ext, d.addr, d.size)
          BY <1>1, <1>2 DEF Placed, PendingApart, p
        <4>2. QED
          BY <1>1, <1>10, <4>1, Numbers
      <3>2. QED
        BY <1>1, <1>3, <3>1 DEF Placed, FreeApart
    <2>5. QED
      BY <2>1, <2>2, <2>3, <2>4 DEF Placed
  <1>12. Valued'
    <2>1. HeldValues'
      BY <1>1, <1>3, SameClass DEF Valued, HeldValues, HasValue
    <2>2. PendingSizes'
      BY <1>1, <1>3, <1>8, SameClass DEF Valued, PendingSizes
    <2>3. LeasesKept'
      <3>1. ASSUME NEW l \in lease
            PROVE  \E i \in DOMAIN pending' :
                      /\ pending'[i].addr = l.addr
                      /\ pending'[i].wait >= ReuseTimegap - l.age
                      /\ Len(l.data) + HeaderSize <= pending'[i].ext
        <4>1. PICK i \in DOMAIN pending : Kept(l, i)
          BY <1>1 DEF Valued, LeasesKept
        <4>2. l.age < ReuseTimegap /\ l.age \in Nat /\ ReuseTimegap \in Nat
          BY <1>1, Numbers, ConstantFacts DEF Valued, LeasesKept
        <4>3. i # 1
          BY <1>4, <4>1, <4>2 DEF Kept, p
        <4>4. PICK j \in 1 .. n - 1 : i = j + 1
          <5>1. i - 1 \in 1 .. n - 1 /\ i = (i - 1) + 1
            BY <1>2, <4>3
          <5>2. QED
            BY <5>1
        <4>5. j \in DOMAIN pending' /\ pending'[j] = pending[i]
          BY <1>7, <4>4
        <4>6. QED
          BY <4>1, <4>5 DEF Kept
      <3>2. QED
        BY <1>1, <1>3, <3>1, SameClass DEF Valued, LeasesKept, Kept
    <2>4. QED
      BY <2>1, <2>2, <2>3 DEF Valued
  <1>13. QED
    BY <1>9, <1>11, <1>12 DEF IInv

LEMMA TickIInv ==
    ASSUME IInv, Tick
    PROVE  IInv'
  <1>1. Types /\ Placed /\ Valued /\ ReuseTimegap \in Nat \ {0}
    BY ConstantFacts DEF IInv
  <1>2. /\ pending' = [i \in DOMAIN pending |->
                         [pending[i] EXCEPT !.wait = IF @ > 0 THEN @ - 1 ELSE 0]]
        /\ lease' = {[l EXCEPT !.age = @ + 1] : l \in {k \in lease : k.age + 1 < ReuseTimegap}}
        /\ UNCHANGED <<kind, mem, used, freeList, held>>
    BY DEF Tick
  <1>3. DOMAIN pending' = DOMAIN pending /\ DOMAIN pending = 1 .. Len(pending) /\ Len(pending) \in Nat
    BY <1>1, <1>2, Numbers
  <1>4. ASSUME NEW i \in DOMAIN pending
        PROVE  /\ pending'[i] \in [addr : Nat, ext : Nat, wait : Nat]
               /\ pending'[i].addr = pending[i].addr /\ pending'[i].ext = pending[i].ext
               /\ pending'[i].wait >= pending[i].wait - 1
    <2>1. pending[i] \in [addr : Nat, ext : Nat, wait : Nat]
      BY <1>1, Numbers
    <2>2. pending'[i] = [pending[i] EXCEPT !.wait = IF pending[i].wait > 0 THEN pending[i].wait - 1 ELSE 0]
      BY <1>2
    <2>3. QED
      BY <2>1, <2>2
  <1>5. pending' \in Seq([addr : Nat, ext : Nat, wait : Nat])
    <2>. DEFINE w(i) == [pending[i] EXCEPT !.wait = IF @ > 0 THEN @ - 1 ELSE 0]
    <2>1. pending' = [i \in 1 .. Len(pending) |-> w(i)]
      BY <1>2, <1>3
    <2>2. \A i \in 1 .. Len(pending) : w(i) \in [addr : Nat, ext : Nat, wait : Nat]
      BY <1>3, <1>4, <2>1
    <2>. HIDE DEF w
    <2>3. QED
      BY <1>3, <2>1, <2>2, IsASeq
  <1>6. \A l \in lease' : \E k \in lease :
           /\ k.age + 1 < ReuseTimegap
           /\ l \in [addr : Nat, data : Seq(Nat), age : Nat]
           /\ l.addr = k.addr /\ l.data = k.data /\ l.age = k.age + 1
    <2>1. ASSUME NEW l \in lease'
          PROVE  \E k \in lease :
                    /\ k.age + 1 < ReuseTimegap
                    /\ l \in [addr : Nat, data : Seq(Nat), age : Nat]
                    /\ l.addr = k.addr /\ l.data = k.data /\ l.age = k.age + 1
      <3>1. PICK k \in lease : k.age + 1 < ReuseTimegap /\ l = [k EXCEPT !.age = k.age + 1]
        BY <1>2
      <3>2. k \in [addr : Nat, data : Seq(Nat), age : Nat]
        BY <1>1 DEF Types
      <3>3. QED
        BY <3>1, <3>2
    <2>2. QED
      BY <2>1
  <1>7. Types'
    BY <1>1, <1>2, <1>5, <1>6 DEF Types, HasValue
  <1>8. Placed'
    BY <1>1, <1>2, <1>3, <1>4
       DEF Placed, InUsed, HeldApart, PendingApart, FreeApart, HasValue
  <1>9. Valued'
    <2>1. HeldValues'
      BY <1>1, <1>2, SameClass DEF Valued, HeldValues, HasValue
    <2>2. PendingSizes'
      <3>1. ASSUME NEW i \in DOMAIN pending'
            PROVE  /\ HeaderSize <= pending'[i].ext
                   /\ SizeIn(mem, pending'[i].addr) + HeaderSize <= pending'[i].ext
        BY <1>1, <1>3, <1>4 DEF Valued, PendingSizes
      <3>2. UNCHANGED <<kind, mem>>
        BY <1>2
      <3>3. QED
        BY <3>1, <3>2, SameClass DEF PendingSizes
    <2>3. ASSUME NEW l \in lease'
          PROVE  /\ l.age < ReuseTimegap
                 /\ SizeIn(mem, l.addr) = Len(l.data) /\ Holds(mem, l.addr, l.data)
                 /\ \E i \in DOMAIN pending' :
                       /\ pending'[i].addr = l.addr
                       /\ pending'[i].wait >= ReuseTimegap - l.age
                       /\ Len(l.data) + HeaderSize <= pending'[i].ext
      <3>1. PICK k \in lease : /\ k.age + 1 < ReuseTimegap
                               /\ l.addr = k.addr /\ l.data = k.data /\ l.age = k.age + 1
        BY <1>6
      <3>2. /\ SizeIn(mem, k.addr) = Len(k.data) /\ Holds(mem, k.addr, k.data)
            /\ k.age \in Nat
        BY <1>1, Numbers DEF Valued, LeasesKept
      <3>3. PICK i \in DOMAIN pending : Kept(k, i)
        BY <1>1 DEF Valued, LeasesKept
      <3>4. /\ pending[i].addr = k.addr /\ pending[i].wait >= ReuseTimegap - k.age
            /\ Len(k.data) + HeaderSize <= pending[i].ext /\ pending[i].wait \in Nat
        BY <1>1, <3>3, Numbers DEF Kept
      <3>5. pending'[i].wait \in Nat /\ pending'[i].wait >= ReuseTimegap - l.age
        BY <1>1, <1>4, <3>1, <3>2, <3>4
      <3>6. QED
        BY <1>3, <1>4, <3>1, <3>2, <3>4, <3>5
    <2>4. LeasesKept'
      <3>1. UNCHANGED <<kind, mem>>
        BY <1>2
      <3>2. QED
        BY <2>3, <3>1, SameClass DEF LeasesKept, Kept
    <2>5. QED
      BY <2>1, <2>2, <2>4 DEF Valued
  <1>10. QED
    BY <1>7, <1>8, <1>9 DEF IInv

-----------------------------------------------------------------------------
(* The theorems *)

LEMMA InitIInv == Init => IInv
  <1>. SUFFICES ASSUME Init PROVE IInv
    OBVIOUS
  <1>1. /\ kind \in {"fix", "var"} /\ mem = [a \in Addrs |-> 0] /\ used = 0
        /\ freeList = {} /\ pending = <<>> /\ lease = {}
        /\ DOMAIN held = Clients /\ \A c \in Clients : ~HasValue(c)
    BY DataPoolAssumption DEF DataPoolAssumption, Init, HasValue
  <1>2. pending \in Seq([addr : Nat, ext : Nat, wait : Nat]) /\ DOMAIN pending = {}
    BY <1>1, EmptySeq
  <1>3. Types
    BY <1>1, <1>2, ConstantFacts DEF Types
  <1>4. Placed
    BY <1>1, <1>2 DEF Placed, InUsed, HeldApart, PendingApart, FreeApart
  <1>5. Valued
    BY <1>1, <1>2 DEF Valued, HeldValues, PendingSizes, LeasesKept
  <1>6. QED
    BY <1>3, <1>4, <1>5 DEF IInv

LEMMA NextIInv == IInv /\ [Next]_vars => IInv'
  <1>. SUFFICES ASSUME IInv, [Next]_vars PROVE IInv'
    OBVIOUS
  <1>1. ASSUME NEW c \in Clients, NEW data \in Data,
               NewDataAlloc(c, data) \/ Write(c, data) \/ WriteFails(c, data)
        PROVE  IInv'
    BY <1>1, NewDataAllocIInv, WriteIInv, WriteFailsIInv
  <1>2. ASSUME NEW c \in Clients, NewDataWrite(c) \/ NewDataFails(c) \/ Free(c)
        PROVE  IInv'
    BY <1>2, NewDataWriteIInv, NewDataFailsIInv, FreeIInv
  <1>3. CASE DelayedFree
    BY <1>3, DelayedFreeIInv
  <1>4. CASE Tick
    BY <1>4, TickIInv
  <1>5. CASE UNCHANGED vars
    BY <1>5 DEF vars, IInv, Types, Placed, InUsed, HeldApart, PendingApart, FreeApart, Valued,
                HeldValues, PendingSizes, LeasesKept, Kept, HasValue, SizeIn, Holds, HeaderSize, Apart
  <1>6. QED
    BY <1>1, <1>2, <1>3, <1>4, <1>5 DEF Next

\* The inductive invariant holds in every reachable state.
THEOREM Invariance == Spec => []IInv
  BY InitIInv, NextIInv, PTL DEF Spec

\* The blocks of the clients, of the delayed frees and of the free list lie apart inside the
\* used space, whatever a Write has done to a header before its block comes back.
THEOREM BlocksApart == Spec => []Extents
  <1>1. ASSUME IInv PROVE Extents
    <2>1. Types /\ Placed
      BY <1>1 DEF IInv
    <2>2. ASSUME NEW r \in Regions PROVE r.addr >= 0 /\ r.addr + r.size <= used
      <3>1. CASE \E c \in Clients : /\ HasValue(c)
                                    /\ r = [addr |-> held[c].addr, size |-> held[c].ext,
                                            of |-> <<"client", c>>]
        BY <2>1, <3>1, Numbers DEF Placed, InUsed
      <3>2. CASE \E i \in DOMAIN pending :
                    r = [addr |-> pending[i].addr, size |-> pending[i].ext,
                         of |-> <<"pending", i>>]
        BY <2>1, <3>2, Numbers DEF Placed, InUsed
      <3>3. CASE \E b \in freeList :
                    r = [addr |-> b.addr, size |-> b.size, of |-> <<"free", b.size>>]
        BY <2>1, <3>3, Numbers DEF Placed, InUsed
      <3>4. QED
        BY <3>1, <3>2, <3>3 DEF Regions, HasValue
    <2>3. ASSUME NEW r \in Regions, NEW s \in Regions, r # s
          PROVE  Apart(r.addr, r.size, s.addr, s.size)
      <3>. DEFINE Client(x) == \E c \in Clients : /\ HasValue(c)
                                  /\ x = [addr |-> held[c].addr, size |-> held[c].ext,
                                          of |-> <<"client", c>>]
                  Waiting(x) == \E i \in DOMAIN pending :
                                   x = [addr |-> pending[i].addr, size |-> pending[i].ext,
                                        of |-> <<"pending", i>>]
                  Listed(x) == \E b \in freeList :
                                  x = [addr |-> b.addr, size |-> b.size, of |-> <<"free", b.size>>]
      <3>1. \A x \in Regions : Client(x) \/ Waiting(x) \/ Listed(x)
        BY DEF Regions, HasValue
      <3>2. CASE Client(r) /\ Client(s)
        BY <2>1, <2>3, <3>2 DEF Placed, HeldApart
      <3>3. CASE Client(r) /\ Waiting(s)
        BY <2>1, <3>3 DEF Placed, HeldApart
      <3>4. CASE Client(r) /\ Listed(s)
        BY <2>1, <3>4 DEF Placed, HeldApart
      <3>5. CASE Waiting(r) /\ Client(s)
        BY <2>1, <3>5, Numbers DEF Placed, HeldApart, Apart
      <3>6. CASE Waiting(r) /\ Waiting(s)
        BY <2>1, <2>3, <3>6 DEF Placed, PendingApart
      <3>7. CASE Waiting(r) /\ Listed(s)
        BY <2>1, <3>7 DEF Placed, PendingApart
      <3>8. CASE Listed(r) /\ Client(s)
        BY <2>1, <3>8, Numbers DEF Placed, HeldApart, Apart
      <3>9. CASE Listed(r) /\ Waiting(s)
        BY <2>1, <3>9, Numbers DEF Placed, PendingApart, Apart
      <3>10. CASE Listed(r) /\ Listed(s)
        BY <2>1, <2>3, <3>10 DEF Placed, FreeApart
      <3>11. QED
        BY <2>3, <3>1, <3>2, <3>3, <3>4, <3>5, <3>6, <3>7, <3>8, <3>9, <3>10
    <2>4. QED
      BY <2>2, <2>3 DEF Extents, Apart
  <1>2. QED
    BY <1>1, Invariance, PTL

\* Memory that holds data at a is read as data.
LEMMA ReadsAs ==
    ASSUME NEW a, NEW data \in Seq(Nat), SizeIn(mem, a) = Len(data), Holds(mem, a, data)
    PROVE  Read(a) = data
  <1>1. SizeAt(a) = Len(data)
    BY DEF SizeAt, SizeIn
  <1>2. Read(a) = [i \in 1 .. Len(data) |-> mem[a + HeaderSize + i - 1]]
    BY <1>1 DEF Read
  <1>3. data = [i \in 1 .. Len(data) |-> data[i]]
    BY LenProperties
  <1>4. QED
    BY <1>2, <1>3 DEF Holds

\* Every client reads what it last wrote, or the front of it that a refused Write has left,
\* whatever the others allocate, write and free.
THEOREM ValuesReadBack == Spec => []ReadBack
  <1>1. ASSUME IInv PROVE ReadBack
    <2>1. Types /\ HeldValues
      BY <1>1 DEF IInv, Valued
    <2>2. ASSUME NEW c \in Clients, HasValue(c), held[c].written
          PROVE  Read(held[c].addr) = held[c].data
      <3>1. /\ SizeIn(mem, held[c].addr) = Len(held[c].data)
            /\ Holds(mem, held[c].addr, held[c].data)
        BY <2>1, <2>2 DEF HeldValues
      <3>2. held[c].data \in Seq(Nat)
        BY <2>1, <2>2, Numbers
      <3>3. QED
        BY <3>1, <3>2, ReadsAs
    <2>3. QED
      BY <2>2 DEF ReadBack, HasValue
  <1>2. QED
    BY <1>1, Invariance, PTL

\* A freed value stays readable until the time gap has passed.
THEOREM FreedValuesStay == Spec => []LeaseIntact
  <1>1. ASSUME IInv PROVE LeaseIntact
    <2>1. Types /\ LeasesKept
      BY <1>1 DEF IInv, Valued
    <2>2. ASSUME NEW l \in lease PROVE Read(l.addr) = l.data
      <3>1. SizeIn(mem, l.addr) = Len(l.data) /\ Holds(mem, l.addr, l.data)
        BY <2>1 DEF LeasesKept
      <3>2. l.data \in Seq(Nat)
        BY <2>1, Numbers
      <3>3. QED
        BY <3>1, <3>2, ReadsAs
    <2>3. QED
      BY <2>2 DEF LeaseIntact
  <1>2. QED
    BY <1>1, Invariance, PTL

=============================================================================
