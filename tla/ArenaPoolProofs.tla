--------------------------- MODULE ArenaPoolProofs ---------------------------
(***************************************************************************)
(* Proofs about ArenaPool: its blocks, pages and heads stay apart, no cell *)
(* is forgotten, and a refused request is served when it is repeated,      *)
(* whatever the sizes of pages, tables and sections.                       *)
(*                                                                         *)
(* The invariant speaks of single addresses: which address is on a free    *)
(* list, in a slab page, or held.  An operation on a table then only moves *)
(* addresses from one of these to another.                                 *)
(***************************************************************************)
EXTENDS ArenaPool, SequenceTheorems, FiniteSetTheorems, TLAPS

-----------------------------------------------------------------------------
(* Least numbers and loops *)

\* A set of natural numbers that is not empty has a least one.
LEMMA LeastNatural ==
    ASSUME NEW T \in SUBSET Nat, T # {}
    PROVE  \E m \in T : \A k \in T : m <= k
  <1>. DEFINE Less == {p \in Nat \X Nat : p[1] < p[2]}
  <1>1. IsWellFoundedOn(Less, Nat)
    BY NatLessThanWellFounded DEF OpToRel
  <1>2. PICK m \in T : \A k \in T : <<k, m>> \notin Less
    <2>. HIDE DEF Less
    <2>. QED
      BY <1>1, WFMin
  <1>3. \A k \in T : m <= k
    <2>. SUFFICES ASSUME NEW k \in T, k < m PROVE FALSE
      OBVIOUS
    <2>1. <<k, m>> \in Nat \X Nat
      OBVIOUS
    <2>2. QED
      BY <1>2, <2>1
  <1>4. QED
    BY <1>3

\* A loop whose turn m leads from S[m - 1] to S[m] runs through these sets.
LEMMA LoopKeeps ==
    ASSUME NEW N \in Nat, NEW S, NEW f, f[0] \in S[0],
           \A m \in 1 .. N : f[m - 1] \in S[m - 1] => f[m] \in S[m]
    PROVE  \A m \in 0 .. N : f[m] \in S[m]
  <1>. DEFINE T == {m \in Nat : m <= N /\ f[m] \notin S[m]}
  <1>1. T = {}
    <2>. SUFFICES ASSUME T # {} PROVE FALSE
      OBVIOUS
    <2>1. PICK m \in T : \A k \in T : m <= k
      <3>1. T \in SUBSET Nat
        OBVIOUS
      <3>. HIDE DEF T
      <3>2. QED
        BY <3>1, LeastNatural
    <2>2. m \in 1 .. N /\ f[m] \notin S[m] /\ m - 1 \in Nat /\ m - 1 <= N /\ ~(m <= m - 1)
      BY <2>1
    <2>3. m - 1 \notin T
      <3>. HIDE DEF T
      <3>1. QED
        BY <2>1, <2>2
    <2>4. QED
      BY <2>2, <2>3
  <1>2. QED
    BY <1>1

\* A run of a loop of N turns from s0; step is its turn.
Runs(f, N, s0, step) ==
    /\ f = [m \in 0 .. N |-> f[m]] /\ f[0] = s0
    /\ \A m \in 1 .. N : f[m] = step[m][f[m - 1]]

\* Its recursive function exists.
LEMMA LoopExists ==
    ASSUME NEW N \in Nat, NEW S, NEW s0 \in S[0], NEW step,
           \A m \in 1 .. N : \A s \in S[m - 1] : step[m][s] \in S[m]
    PROVE  \E f : Runs(f, N, s0, step) /\ \A m \in 0 .. N : f[m] \in S[m]
  <1>. DEFINE Is(n, f) == f = [m \in 0 .. n |-> IF m = 0 THEN s0 ELSE step[m][f[m - 1]]]
              T == {n \in Nat : ~ \E f : Is(n, f)}
  <1>1. T = {}
    <2>. SUFFICES ASSUME T # {} PROVE FALSE
      OBVIOUS
    <2>1. PICK n \in T : \A k \in T : n <= k
      <3>1. T \in SUBSET Nat
        OBVIOUS
      <3>. HIDE DEF T
      <3>2. QED
        BY <3>1, LeastNatural
    <2>2. n # 0
      <3>1. Is(0, [m \in 0 .. 0 |-> s0])
        OBVIOUS
      <3>2. QED
        BY <2>1, <3>1
    <2>3. PICK g : Is(n - 1, g)
      <3>1. n - 1 \in Nat /\ n - 1 \notin T
        BY <2>1, <2>2
      <3>2. QED
        BY <3>1
    <2>. DEFINE f == [m \in 0 .. n |-> IF m = 0 THEN s0 ELSE step[m][g[m - 1]]]
    <2>4. \A m \in 0 .. n - 1 : m \in 0 .. n /\ f[m] = g[m]
      BY <2>3
    <2>5. ASSUME NEW m \in 0 .. n
          PROVE  f[m] = IF m = 0 THEN s0 ELSE step[m][f[m - 1]]
      <3>1. m # 0 => m - 1 \in 0 .. n - 1
        OBVIOUS
      <3>2. m # 0 => f[m - 1] = g[m - 1]
        BY <2>4, <3>1
      <3>3. QED
        BY <3>2
    <2>6. Is(n, f)
      <3>1. f = [m \in 0 .. n |-> f[m]]
        OBVIOUS
      <3>. HIDE DEF f
      <3>2. QED
        BY <2>5, <3>1, Zenon
    <2>7. QED
      BY <2>1, <2>6
  <1>2. PICK f : Is(N, f)
    BY <1>1
  <1>3. f[0] \in S[0]
    BY <1>2
  <1>4. ASSUME NEW m \in 1 .. N, f[m - 1] \in S[m - 1] PROVE f[m] \in S[m]
    <2>1. f[m] = step[m][f[m - 1]]
      BY <1>2
    <2>2. QED
      BY <1>4, <2>1
  <1>5. \A m \in 0 .. N : f[m] \in S[m]
    <2>. HIDE DEF Is
    <2>1. QED
      BY <1>3, <1>4, LoopKeeps
  <1>6. Runs(f, N, s0, step)
    BY <1>2 DEF Runs
  <1>7. QED
    BY <1>5, <1>6


LEMMA LeastIs ==
    ASSUME NEW T \in SUBSET Nat, T # {}
    PROVE  Min(T) \in T /\ Min(T) \in Nat /\ \A k \in T : Min(T) <= k
  BY LeastNatural DEF Min

LEMMA GreatestIs ==
    ASSUME NEW N \in Nat, NEW T \in SUBSET (0..N), T # {}
    PROVE  Max(T) \in T /\ Max(T) \in 0..N /\ \A k \in T : k <= Max(T)
  <1>. DEFINE R == {N - k : k \in T}
  <1>1. R \in SUBSET Nat /\ R # {}
    <2>1. PICK n \in T : TRUE
      OBVIOUS
    <2>2. N - n \in R
      OBVIOUS
    <2>3. \A k \in T : N - k \in Nat
      OBVIOUS
    <2>4. QED
      BY <2>2, <2>3
  <1>2. PICK m \in R : \A k \in R : m <= k
    <2>. HIDE DEF R
    <2>. QED
      BY <1>1, LeastNatural
  <1>3. PICK n \in T : m = N - n
    BY <1>2
  <1>4. \A k \in T : N - k \in R
    OBVIOUS
  <1>5. \A k \in T : n >= k
    BY <1>2, <1>3, <1>4
  <1>6. QED
    BY <1>5 DEF Max

-----------------------------------------------------------------------------
(* The sizes of pages *)

LEMMA Constants ==
    /\ Unit \in Nat /\ Unit > 0 /\ MaxLevels \in Nat /\ MaxLevels > 0
    /\ Header \in Nat /\ Header > 0 /\ HeapHead \in Nat /\ HeapHead > 0
    /\ TableHead \in Nat /\ TableHead > 0 /\ TableSize \in Nat /\ TableSize > 0
    /\ SectionHead \in Nat /\ SectionHead > 0 /\ SectionSize \in Nat /\ SectionSize > 0
    /\ SlabHead \in Nat /\ SlabHead > 0 /\ Room \in Nat
    /\ SectionHead <= SectionSize
    /\ Len(ItemSizes) \in Nat
    /\ \A l \in SlabLevels : ItemSizes[l] \in Nat /\ 0 < ItemSizes[l] /\ SlabHead + ItemSizes[l] <= Unit
    /\ \A len \in Lens : len \in Nat
  <1>1. \A l \in SlabLevels : ItemSizes[l] \in Nat
    BY Sizes DEF Sizes, SlabLevels
  <1>2. /\ Unit \in Nat \ {0} /\ MaxLevels \in Nat \ {0} /\ Header \in Nat \ {0}
        /\ HeapHead \in Nat \ {0} /\ TableHead \in Nat \ {0} /\ TableSize \in Nat \ {0}
    BY Sizes DEF Sizes
  <1>3. /\ SectionHead \in Nat \ {0} /\ SectionSize \in Nat \ {0}
        /\ SlabHead \in Nat \ {0} /\ Room \in Nat \ {0}
    BY Sizes DEF Sizes
  <1>4. Len(ItemSizes) \in Nat /\ \A len \in Lens : len \in Nat
    BY Sizes DEF Sizes
  <1>5. SectionHead <= SectionSize /\ \A l \in SlabLevels : ItemSizes[l] \in 1..Unit - SlabHead
    BY Shape DEF Shape
  <1>6. \A l \in SlabLevels : 0 < ItemSizes[l] /\ SlabHead + ItemSizes[l] <= Unit
    BY <1>1, <1>2, <1>3, <1>5
  <1>7. QED
    BY <1>1, <1>2, <1>3, <1>4, <1>5, <1>6

\* page_level_to_size doubles from level to level.
LEMMA Doubles ==
    /\ \A l \in 0..MaxLevels : PageSize[l] \in Nat /\ PageSize[l] > 0
    /\ PageSize[0] = Unit
    /\ \A l \in 1..MaxLevels : PageSize[l] = 2 * PageSize[l - 1]
  <1>. DEFINE Is(g) == g = [l \in 0..MaxLevels |-> IF l = 0 THEN Unit ELSE 2 * g[l - 1]]
              S == [m \in 0..MaxLevels |-> Nat \ {0}]
              step == [m \in 1..MaxLevels |-> [s \in Nat \ {0} |-> 2 * s]]
  <1>1. MaxLevels \in Nat /\ Unit \in Nat \ {0}
    BY Constants
  <1>2. PICK g : Runs(g, MaxLevels, Unit, step) /\ \A m \in 0..MaxLevels : g[m] \in S[m]
    <2>1. Unit \in S[0]
      BY <1>1
    <2>2. \A m \in 1..MaxLevels : \A s \in S[m - 1] : step[m][s] \in S[m]
      BY <1>1
    <2>. HIDE DEF S, step
    <2>3. QED
      BY <1>1, <2>1, <2>2, LoopExists
  <1>3. Is(g)
    <2>1. \A m \in 0..MaxLevels : m # 0 => m \in 1..MaxLevels /\ m - 1 \in 0..MaxLevels
      BY <1>1
    <2>2. \A m \in 0..MaxLevels : g[m] = IF m = 0 THEN Unit ELSE 2 * g[m - 1]
      BY <1>2, <2>1 DEF Runs
    <2>3. g = [m \in 0..MaxLevels |-> g[m]]
      BY <1>2 DEF Runs
    <2>4. QED
      BY <2>2, <2>3, Zenon
  <1>4. Is(PageSize)
    <2>1. PageSize = CHOOSE h : Is(h)
      BY Zenon DEF PageSize
    <2>. HIDE DEF Is
    <2>2. QED
      BY <1>3, <2>1
  <1>5. \A l \in 0..MaxLevels : PageSize[l] = IF l = 0 THEN Unit ELSE 2 * PageSize[l - 1]
    BY <1>4
  <1>. HIDE DEF Is
  <1>6. \A l \in 0..MaxLevels : PageSize[l] \in S[l]
    <2>1. PageSize[0] \in S[0]
      BY <1>1, <1>5
    <2>2. \A m \in 1..MaxLevels : PageSize[m - 1] \in S[m - 1] => PageSize[m] \in S[m]
      BY <1>1, <1>5
    <2>. HIDE DEF S, step
    <2>3. QED
      BY <1>1, <2>1, <2>2, LoopKeeps
  <1>7. QED
    BY <1>1, <1>5, <1>6

\* A higher level has larger pages.
LEMMA Grows ==
    ASSUME NEW l \in 0..MaxLevels, NEW m \in 0..MaxLevels
    PROVE  /\ l < m => 2 * PageSize[l] <= PageSize[m]
           /\ l <= m => PageSize[l] <= PageSize[m]
           /\ Unit <= PageSize[m]
  <1>1. MaxLevels \in Nat
    BY Constants
  <1>2. ASSUME NEW a \in 0..MaxLevels, NEW b \in 0..MaxLevels, a < b
        PROVE  2 * PageSize[a] <= PageSize[b]
    <2>. DEFINE T == {n \in Nat : n <= MaxLevels /\ a < n /\ ~(2 * PageSize[a] <= PageSize[n])}
    <2>1. T = {}
      <3>. SUFFICES ASSUME T # {} PROVE FALSE
        OBVIOUS
      <3>1. PICK n \in T : \A k \in T : n <= k
        <4>1. T \in SUBSET Nat
          OBVIOUS
        <4>. HIDE DEF T
        <4>2. QED
          BY <4>1, LeastNatural
      <3>2. n \in 1..MaxLevels /\ a <= n - 1 /\ n - 1 \in 0..MaxLevels /\ ~(2 * PageSize[a] <= PageSize[n])
        BY <1>1, <3>1
      <3>3. n - 1 \notin T
        <4>. HIDE DEF T
        <4>. QED
          BY <3>1, <3>2
      <3>4. a = n - 1 \/ 2 * PageSize[a] <= PageSize[n - 1]
        BY <3>2, <3>3
      <3>5. PageSize[n] = 2 * PageSize[n - 1] /\ PageSize[n - 1] \in Nat /\ PageSize[a] \in Nat
        BY <3>2, Doubles
      <3>. HIDE DEF T
      <3>6. QED
        BY <3>2, <3>4, <3>5
    <2>2. b \notin T
      BY <2>1
    <2>3. QED
      BY <1>1, <1>2, <2>2
  <1>3. PageSize[l] \in Nat /\ PageSize[m] \in Nat /\ PageSize[0] = Unit /\ 0 \in 0..MaxLevels
    BY <1>1, Doubles
  <1>4. 0 < m => 2 * PageSize[0] <= PageSize[m]
    BY <1>2, <1>3
  <1>5. l < m => 2 * PageSize[l] <= PageSize[m]
    BY <1>2
  <1>6. m = 0 \/ 0 < m
    BY <1>1
  <1>7. l = m \/ l < m \/ ~(l <= m)
    BY <1>1
  <1>8. Unit \in Nat
    BY Constants
  <1>9. QED
    BY <1>3, <1>4, <1>5, <1>6, <1>7, <1>8

-----------------------------------------------------------------------------
(* The invariant: one table *)

Address == Nat \cup {None}

\* The address x is one of the n from a on; two such pieces are apart.
Within(x, a, n) == a <= x /\ x < a + n
Beside(a, n, b, m) == a + n <= b \/ b + m <= a

\* The address x is in a page of a free list.
Listed(lists, x) ==
    \E l \in PageLevels : \E i \in DOMAIN lists[l] : Within(x, lists[l][i], PageSize[l])

\* Where the next item of a slab page will be.
Behind(t, p) == p + SlabHead + t.slabs[p].item * t.slabs[p].use

\* It is in a slab page; it is in the head of one or behind the last item handed out.
Slabbed(t, x) == \E p \in DOMAIN t.slabs : Within(x, p, Unit)
Spare(t, x) ==
    \E p \in DOMAIN t.slabs : Within(x, p, SlabHead) \/ (Behind(t, p) <= x /\ x < p + Unit)

\* The table can still hand it out, or needs it itself.
Unheld(t, x) == Listed(t.lists, x) \/ Spare(t, x)

\* The table has cut it off.
Taken(t, x) == t.begin + TableHead <= x /\ x < t.current

\* Free lists, and that no two of their pages overlap.
Lists == [PageLevels -> Seq(Nat)]

ListsApart(lists) ==
    \A l, m \in PageLevels : \A i \in DOMAIN lists[l], j \in DOMAIN lists[m] :
        l # m \/ i # j => Beside(lists[l][i], PageSize[l], lists[m][j], PageSize[m])

IsTable(t) ==
    t = [begin |-> t.begin, current |-> t.current, next |-> t.next, valid |-> t.valid,
         lists |-> t.lists, node |-> t.node, slabs |-> t.slabs]

TableType(t) ==
    /\ IsTable(t)
    /\ t.begin \in Nat /\ t.current \in Nat /\ t.next \in Address /\ t.valid \in BOOLEAN
    /\ t.lists \in Lists
    /\ t.node \in [SlabLevels -> Address]
    /\ DOMAIN t.slabs \subseteq Nat
    /\ t.slabs \in [DOMAIN t.slabs -> [item : Nat, use : Nat]]

\* Slab pages lie in what the table has cut off and overlap no other, their items fit in
\* them, and the current slab page of a level has items of its size.
SlabsGood(t) ==
    /\ \A p \in DOMAIN t.slabs :
          /\ t.begin + TableHead <= p /\ p + Unit <= t.current
          /\ SlabHead + t.slabs[p].item * t.slabs[p].use <= Unit
    /\ \A p, q \in DOMAIN t.slabs : p # q => Beside(p, Unit, q, Unit)
    /\ \A l \in SlabLevels :
          t.node[l] # None => /\ t.node[l] \in DOMAIN t.slabs
                              /\ t.slabs[t.node[l]].item = ItemSizes[l]

\* Free pages are apart from each other and from the slab pages, in what has been cut off.
TableGood(t) ==
    /\ TableType(t)
    /\ t.begin + TableHead <= t.current /\ t.current <= TableEnd(t)
    /\ ListsApart(t.lists)
    /\ \A x \in Nat : Listed(t.lists, x) => Taken(t, x) /\ ~Slabbed(t, x)
    /\ SlabsGood(t)

-----------------------------------------------------------------------------
(* The invariant: the file.  u, T, S, H and C are the used size, the tables, *)
(* the sections, the blocks callers hold, and the addresses they gave up.    *)

InTable(c, x) == Within(x, c, TableSize)
InSection(s, x) == Within(x, s, SectionSize)

\* Behind the head of the heap tables and sections lie side by side, below the used size.
Areas(u, T, S) ==
    /\ u \in Nat /\ (u = 0 \/ HeapHead <= u)
    /\ DOMAIN T \subseteq Nat /\ DOMAIN S \subseteq Nat
    /\ T = [b \in DOMAIN T |-> T[b]] /\ S = [s \in DOMAIN S |-> S[s]]
    /\ \A b \in DOMAIN T : /\ TableGood(T[b]) /\ T[b].begin = b
                           /\ HeapHead <= b /\ b + TableSize <= u
    /\ \A s \in DOMAIN S : /\ S[s] \in [current : Nat, next : Address]
                           /\ s + SectionHead <= S[s].current
                           /\ S[s].current <= s + SectionSize
                           /\ HeapHead <= s /\ s + SectionSize <= u
    /\ \A b, c \in DOMAIN T : b # c => Beside(b, TableSize, c, TableSize)
    /\ \A s, r \in DOMAIN S : s # r => Beside(s, SectionSize, r, SectionSize)
    /\ \A b \in DOMAIN T, s \in DOMAIN S : Beside(b, TableSize, s, SectionSize)

\* The section has handed it out.
Carved(S, s, x) == s + SectionHead <= x /\ x < S[s].current

InBlock(b, x) == Within(x, b.addr, b.span)

BlockType == [addr : Nat, span : Nat \ {0}, size : Nat]

\* A block is an item of a slab page, a page, or a piece of a section.
IsItem(b) == b.size + Header < Unit \div 2 /\ \E l \in SlabLevels : b.span = ItemSizes[l]
IsPage(b) == \E l \in PageLevels : b.span = PageSize[l]

\* Each lies in what one table or one section has cut off.
FromTable(b, T) ==
    /\ IsItem(b) \/ IsPage(b)
    /\ \E c \in DOMAIN T : \A x \in Nat : InBlock(b, x) => Taken(T[c], x)

FromSection(b, S) ==
    /\ Unit <= b.span
    /\ \E s \in DOMAIN S : \A x \in Nat : InBlock(b, x) => Carved(S, s, x)

\* A caller has it, or had it last.
Gone(H, C, x) == x \in C \/ \E b \in H : InBlock(b, x)

\* The blocks callers hold are apart from each other and from what they gave up.
Held(T, S, H, C) ==
    /\ \A b \in H : /\ b \in BlockType /\ b.size + Header <= b.span
                    /\ FromTable(b, T) \/ FromSection(b, S)
    /\ \A b, c \in H : b # c => Beside(b.addr, b.span, c.addr, c.span)
    /\ C \subseteq Nat
    /\ \A x \in C : \A b \in H : ~InBlock(b, x)
    /\ \A x \in C : \/ \E c \in DOMAIN T : Taken(T[c], x)
                    \/ \E s \in DOMAIN S : Carved(S, s, x)

\* What a table has cut off is either still its own or gone, everything a section has cut off
\* is gone, and a page is never a part of a slab page: the last keeps a page that is given
\* back from being listed in one.
Shared(T, S, H, C) ==
    /\ \A c \in DOMAIN T : \A x \in Nat : Unheld(T[c], x) => ~Gone(H, C, x)
    /\ \A c \in DOMAIN T : \A x \in Nat : Taken(T[c], x) => Unheld(T[c], x) \/ Gone(H, C, x)
    /\ \A s \in DOMAIN S : \A x \in Nat : Carved(S, s, x) => Gone(H, C, x)
    /\ \A c \in DOMAIN T : \A b \in H : \A x \in Nat :
          Unit <= b.span /\ InBlock(b, x) => ~Slabbed(T[c], x)

\* The three together, in a form that the lemmas can state of a file before and after.
Whole(u, T, S, H, C) == Areas(u, T, S) /\ Held(T, S, H, C) /\ Shared(T, S, H, C)

\* Only the first extension has a next, so that a chain never has more than two links,
\* and the one from pageStart or sectionStart never more than one.
LinksFrom(area, start, end) ==
    /\ \A a \in {start, end} : a # None => a \in DOMAIN area
    /\ start = end => start = None
    /\ \A b \in DOMAIN area :
          area[b].next # None => b = end /\ area[b].next \in DOMAIN area \ {end}

\* What the head of the heap says is there, and nothing is loaded before it is written.
Links ==
    /\ heap \in [formatted : BOOLEAN, pageStart : Address, pageEnd : Address,
                 sectionStart : Address, sectionEnd : Address]
    /\ ~heap.formatted => heap = NoHeap
    /\ phase = "open" => heap.formatted
    /\ heap.formatted => HeapHead <= used
    /\ LinksFrom(tables, heap.pageStart, heap.pageEnd)
    /\ LinksFrom(sections, heap.sectionStart, heap.sectionEnd)

Loaded ==
    /\ loaded = [pages |-> loaded.pages, sections |-> loaded.sections]
    /\ loaded.pages \in Seq(DOMAIN tables)
    /\ loaded.sections \in Seq(DOMAIN sections)

\* Of the tables loaded only the last may be valid, and none is after a refusal.
Retry ==
    /\ refusals \in {0, 1}
    /\ ~heap.formatted => refusals = 0
    /\ \A i \in 1..Len(loaded.pages) - 1 : ~tables[loaded.pages[i]].valid
    /\ phase = "open" /\ heap.pageStart # None =>
          loaded.pages # <<>> /\ loaded.pages[1] = heap.pageStart
    /\ refusals = 1 => /\ \A i \in DOMAIN loaded.pages : ~tables[loaded.pages[i]].valid
                       /\ heap.pageStart # None => ~tables[heap.pageStart].valid

\* The freed items, and with them all blocks that have left the free lists.
Slots == {f.block : f \in freed}
Out == held \cup Slots

\* A freed item is listed once, has the size of its level, and nobody holds it any more.
FreedGood ==
    /\ \A f \in freed : f.level \in SlabLevels /\ f.block.span = ItemSizes[f.level]
    /\ \A f, g \in freed : f.block.addr = g.block.addr => f = g
    /\ \A f \in freed, b \in held : f.block.addr # b.addr

Sound == /\ Whole(used, tables, sections, Out, lost.cells)
         /\ lost = [frees |-> lost.frees, cells |-> lost.cells] /\ lost.frees \in Nat
         /\ Links /\ Loaded /\ Retry /\ FreedGood

\* The inductive invariant.  Once the heap is not intact there is no next step.
IInv == Intact => Sound

-----------------------------------------------------------------------------
(* Free lists *)

\* Two stretches that share no address lie one behind the other.
LEMMA BesideIs ==
    ASSUME NEW a \in Nat, NEW n \in Nat, n > 0, NEW b \in Nat, NEW m \in Nat, m > 0
    PROVE  Beside(a, n, b, m) <=> \A x \in Nat : Within(x, a, n) => ~Within(x, b, m)
  <1>1. ASSUME ~Beside(a, n, b, m), \A x \in Nat : Within(x, a, n) => ~Within(x, b, m)
        PROVE  FALSE
    <2>1. a < b + m /\ b < a + n
      BY <1>1 DEF Beside
    <2>2. CASE a < b
      <3>1. Within(b, a, n) /\ Within(b, b, m)
        BY <2>1, <2>2 DEF Within
      <3>2. QED
        BY <1>1, <3>1
    <2>3. CASE b <= a
      <3>1. Within(a, a, n) /\ Within(a, b, m)
        BY <2>1, <2>3 DEF Within
      <3>2. QED
        BY <1>1, <3>1
    <2>4. QED
      BY <2>2, <2>3
  <1>2. ASSUME Beside(a, n, b, m), NEW x \in Nat, Within(x, a, n), Within(x, b, m) PROVE FALSE
    BY <1>2 DEF Beside, Within
  <1>3. QED
    BY <1>1, <1>2

LEMMA PageFacts ==
    ASSUME NEW lists \in Lists, NEW l \in PageLevels
    PROVE  /\ l \in 0..MaxLevels /\ l + 1 \in 0..MaxLevels /\ l \in Nat
           /\ PageSize[l] \in Nat /\ PageSize[l] > 0 /\ Unit <= PageSize[l]
           /\ PageSize[l + 1] = 2 * PageSize[l]
           /\ lists[l] \in Seq(Nat) /\ Len(lists[l]) \in Nat /\ DOMAIN lists[l] = 1..Len(lists[l])
           /\ \A i \in 1..Len(lists[l]) : lists[l][i] \in Nat
  <1>1. l \in 0..MaxLevels /\ l + 1 \in 1..MaxLevels /\ l + 1 \in 0..MaxLevels /\ (l + 1) - 1 = l /\ l \in Nat
    BY Constants DEF PageLevels
  <1>2. PageSize[l] \in Nat /\ PageSize[l] > 0 /\ Unit <= PageSize[l] /\ PageSize[l + 1] = 2 * PageSize[l]
    BY <1>1, Doubles, Grows
  <1>3. lists[l] \in Seq(Nat)
    BY DEF Lists
  <1>4. QED
    BY <1>1, <1>2, <1>3

\* The lists `after` hold what `lists` hold, without the page.
Without(lists, page, size, after) ==
    /\ after \in Lists /\ ListsApart(after)
    /\ \A x \in Nat : Listed(lists, x) <=> Listed(after, x) \/ Within(x, page, size)
    /\ \A x \in Nat : Listed(after, x) => ~Within(x, page, size)

\* A page taken off its list leaves the others.
LEMMA DropPage ==
    ASSUME NEW lists \in Lists, ListsApart(lists), NEW level \in PageLevels,
           NEW k \in DOMAIN lists[level], NEW rest \in Seq(Nat),
           Len(rest) = Len(lists[level]) - 1,
           \A i \in 1..Len(rest) : rest[i] = lists[level][IF i < k THEN i ELSE i + 1],
           NEW after, after = [lists EXCEPT ![level] = rest]
    PROVE  Without(lists, lists[level][k], PageSize[level], after)
  <1>. DEFINE from(l, i) == IF l = level /\ i >= k THEN i + 1 ELSE i
  <1>1. after \in Lists
    BY DEF Lists
  <1>2. k \in 1..Len(lists[level]) /\ Len(lists[level]) \in Nat
    BY PageFacts
  <1>3. \A l \in PageLevels : after[l] = IF l = level THEN rest ELSE lists[l]
    BY DEF Lists
  <1>4. ASSUME NEW l \in PageLevels, NEW i \in DOMAIN after[l]
        PROVE  /\ i \in Nat /\ from(l, i) \in DOMAIN lists[l] /\ after[l][i] = lists[l][from(l, i)]
               /\ l # level \/ from(l, i) # k
    <2>1. DOMAIN lists[l] = 1..Len(lists[l]) /\ Len(lists[l]) \in Nat
      BY PageFacts
    <2>2. CASE l # level
      BY <1>3, <2>1, <2>2
    <2>3. CASE l = level
      <3>1. i \in 1..Len(rest) /\ after[l][i] = rest[i]
        BY <1>3, <2>3
      <3>2. i \in Nat /\ from(level, i) = (IF i < k THEN i ELSE i + 1)
        BY <1>2, <3>1
      <3>3. from(level, i) \in 1..Len(lists[level]) /\ from(level, i) # k
        BY <1>2, <3>1, <3>2
      <3>. HIDE DEF from
      <3>4. rest[i] = lists[level][from(level, i)]
        BY <3>1, <3>2
      <3>5. QED
        BY <2>1, <2>3, <3>1, <3>2, <3>3, <3>4
    <2>4. QED
      BY <2>2, <2>3
  <1>5. ASSUME NEW l \in PageLevels, NEW i \in DOMAIN lists[l], l # level \/ i # k
        PROVE  \E j \in DOMAIN after[l] : after[l][j] = lists[l][i]
    <2>1. CASE l # level
      BY <1>3, <2>1
    <2>2. CASE l = level
      <3>. DEFINE j == IF i < k THEN i ELSE i - 1
      <3>1. DOMAIN lists[l] = 1..Len(lists[l]) /\ i # k
        BY <1>5, <2>2, PageFacts
      <3>2. j \in 1..Len(rest) /\ (IF j < k THEN j ELSE j + 1) = i
        BY <1>2, <2>2, <3>1
      <3>3. rest[j] = lists[l][i]
        BY <2>2, <3>2
      <3>4. QED
        BY <1>3, <2>2, <3>2, <3>3
    <2>3. QED
      BY <2>1, <2>2
  <1>6. ListsApart(after)
    <2>. SUFFICES ASSUME NEW l \in PageLevels, NEW m \in PageLevels,
                         NEW i \in DOMAIN after[l], NEW j \in DOMAIN after[m], l # m \/ i # j
                  PROVE  Beside(after[l][i], PageSize[l], after[m][j], PageSize[m])
      BY DEF ListsApart
    <2>1. l # m \/ from(l, i) # from(m, j)
      BY <1>2, <1>4
    <2>. HIDE DEF from
    <2>2. Beside(lists[l][from(l, i)], PageSize[l], lists[m][from(m, j)], PageSize[m])
      BY <1>4, <2>1 DEF ListsApart
    <2>3. QED
      BY <1>4, <2>2
  <1>. HIDE DEF from
  <1>7. ASSUME NEW x \in Nat, Listed(after, x)
        PROVE  Listed(lists, x) /\ ~Within(x, lists[level][k], PageSize[level])
    <2>0. PICK l \in PageLevels : \E i \in DOMAIN after[l] : Within(x, after[l][i], PageSize[l])
      BY <1>7 DEF Listed
    <2>1. PICK i \in DOMAIN after[l] : Within(x, after[l][i], PageSize[l])
      BY <2>0
    <2>2. Listed(lists, x)
      BY <1>4, <2>1 DEF Listed
    <2>3. Beside(lists[l][from(l, i)], PageSize[l], lists[level][k], PageSize[level])
      BY <1>4 DEF ListsApart
    <2>4. Beside(after[l][i], PageSize[l], lists[level][k], PageSize[level])
      BY <1>4, <2>3
    <2>5. /\ PageSize[l] \in Nat /\ PageSize[level] \in Nat
          /\ lists[level][k] \in Nat /\ after[l][i] \in Nat
      <3>1. PageSize[l] \in Nat /\ PageSize[level] \in Nat /\ lists[level][k] \in Nat
        BY <1>2, PageFacts
      <3>2. i \in 1..Len(after[l])
        BY <1>1, PageFacts
      <3>3. after[l][i] \in Nat
        BY <1>1, <3>2, PageFacts
      <3>4. QED
        BY <3>1, <3>3
    <2>6. QED
      BY <2>1, <2>2, <2>4, <2>5 DEF Beside, Within
  <1>8. ASSUME NEW x \in Nat, Listed(lists, x)
        PROVE  Listed(after, x) \/ Within(x, lists[level][k], PageSize[level])
    <2>0. PICK l \in PageLevels : \E i \in DOMAIN lists[l] : Within(x, lists[l][i], PageSize[l])
      BY <1>8 DEF Listed
    <2>1. PICK i \in DOMAIN lists[l] : Within(x, lists[l][i], PageSize[l])
      BY <2>0
    <2>2. CASE l # level \/ i # k
      BY <1>5, <2>1, <2>2 DEF Listed
    <2>3. CASE l = level /\ i = k
      BY <2>1, <2>3
    <2>4. QED
      BY <2>2, <2>3
  <1>9. ASSUME NEW x \in Nat, Within(x, lists[level][k], PageSize[level]) PROVE Listed(lists, x)
    BY <1>9 DEF Listed
  <1>10. QED
    BY <1>1, <1>6, <1>7, <1>8, <1>9 DEF Without

\* A page put on top of a list.
LEMMA AddPage ==
    ASSUME NEW lists \in Lists, ListsApart(lists), NEW level \in PageLevels, NEW page \in Nat,
           \A x \in Nat : Within(x, page, PageSize[level]) => ~Listed(lists, x),
           NEW after, after = [lists EXCEPT ![level] = <<page>> \o lists[level]]
    PROVE  /\ after \in Lists /\ ListsApart(after)
           /\ \A x \in Nat : Listed(after, x) <=> Listed(lists, x) \/ Within(x, page, PageSize[level])
  <1>. DEFINE top == <<page>> \o lists[level]
  <1>1. /\ top \in Seq(Nat) /\ Len(top) = Len(lists[level]) + 1 /\ top[1] = page
        /\ \A i \in 1..Len(lists[level]) : top[i + 1] = lists[level][i]
        /\ \A i \in 2..Len(top) : i - 1 \in 1..Len(lists[level]) /\ top[i] = lists[level][i - 1]
        /\ DOMAIN top = 1..Len(top)
    <2>1. <<page>> \in Seq(Nat) /\ Len(<<page>>) = 1 /\ <<page>>[1] = page
      OBVIOUS
    <2>2. lists[level] \in Seq(Nat) /\ Len(lists[level]) \in Nat
      BY PageFacts
    <2>3. top \in Seq(Nat) /\ Len(top) = Len(lists[level]) + 1
      BY <2>1, <2>2, ConcatProperties
    <2>4. \A i \in 1..Len(top) : top[i] = IF i <= 1 THEN page ELSE lists[level][i - 1]
      <3>. HIDE DEF top
      <3>1. \A i \in 1..Len(top) : top[i] = IF i <= Len(<<page>>) THEN <<page>>[i]
                                            ELSE lists[level][i - Len(<<page>>)]
        BY <2>1, <2>2, <2>3, ConcatProperties DEF top
      <3>2. \A i \in 1..Len(top) : i <= 1 => i = 1
        BY <2>2, <2>3
      <3>3. QED
        BY <2>1, <3>1, <3>2
    <2>. HIDE DEF top
    <2>5. 1 \in 1..Len(top) /\ DOMAIN top = 1..Len(top)
      BY <2>2, <2>3
    <2>6. \A i \in 1..Len(lists[level]) : i + 1 \in 1..Len(top) /\ ~(i + 1 <= 1) /\ (i + 1) - 1 = i
      BY <2>2, <2>3
    <2>7. \A i \in 2..Len(top) : i \in 1..Len(top) /\ ~(i <= 1) /\ i - 1 \in 1..Len(lists[level])
      BY <2>2, <2>3
    <2>8. QED
      BY <2>3, <2>4, <2>5, <2>6, <2>7
  <1>. HIDE DEF top
  <1>2. after = [lists EXCEPT ![level] = top]
    BY DEF top
  <1>3. after \in Lists
    BY <1>1, <1>2 DEF Lists
  <1>4. \A l \in PageLevels : after[l] = IF l = level THEN top ELSE lists[l]
    BY <1>2 DEF Lists
  <1>5. ASSUME NEW l \in PageLevels, NEW i \in DOMAIN after[l]
        PROVE  \/ l = level /\ i = 1 /\ after[l][i] = page
               \/ l = level /\ i \in Nat /\ i - 1 \in DOMAIN lists[l] /\ after[l][i] = lists[l][i - 1]
               \/ l # level /\ i \in DOMAIN lists[l] /\ after[l][i] = lists[l][i]
    <2>1. CASE l # level
      BY <1>4, <2>1
    <2>2. CASE l = level
      <3>1. i \in 1..Len(top) /\ after[l][i] = top[i] /\ Len(lists[level]) \in Nat
        BY <1>1, <1>4, <2>2, PageFacts
      <3>2. i = 1 \/ i \in 2..Len(top)
        BY <1>1, <3>1
      <3>3. i \in 2..Len(top) => i - 1 \in DOMAIN lists[level] /\ top[i] = lists[level][i - 1]
        BY <1>1, PageFacts
      <3>4. i \in Nat
        BY <3>1
      <3>5. QED
        BY <1>1, <2>2, <3>1, <3>2, <3>3, <3>4
    <2>3. QED
      BY <2>1, <2>2
  <1>6. \A l \in PageLevels : \A i \in DOMAIN lists[l] :
          Beside(page, PageSize[level], lists[l][i], PageSize[l])
    <2>. SUFFICES ASSUME NEW l \in PageLevels, NEW i \in DOMAIN lists[l]
                  PROVE  Beside(page, PageSize[level], lists[l][i], PageSize[l])
      OBVIOUS
    <2>1. /\ lists[l][i] \in Nat /\ PageSize[l] \in Nat /\ PageSize[l] > 0
          /\ PageSize[level] \in Nat /\ PageSize[level] > 0
      BY PageFacts
    <2>2. \A x \in Nat : Within(x, lists[l][i], PageSize[l]) => Listed(lists, x)
      BY DEF Listed
    <2>3. QED
      BY <2>1, <2>2, BesideIs
  <1>7. ListsApart(after)
    <2>. SUFFICES ASSUME NEW l \in PageLevels, NEW m \in PageLevels,
                         NEW i \in DOMAIN after[l], NEW j \in DOMAIN after[m], l # m \/ i # j
                  PROVE  Beside(after[l][i], PageSize[l], after[m][j], PageSize[m])
      BY DEF ListsApart
    <2>1. CASE l = level /\ i = 1
      <3>1. ~(m = level /\ j = 1) /\ after[l][i] = page
        BY <1>1, <1>4, <2>1
      <3>2. \E n \in DOMAIN lists[m] : after[m][j] = lists[m][n]
        BY <1>5, <3>1
      <3>3. QED
        BY <1>6, <2>1, <3>1, <3>2
    <2>2. CASE m = level /\ j = 1
      <3>1. ~(l = level /\ i = 1) /\ after[m][j] = page
        BY <1>1, <1>4, <2>2
      <3>2. PICK n \in DOMAIN lists[l] : after[l][i] = lists[l][n]
        BY <1>5, <3>1
      <3>3. Beside(page, PageSize[level], lists[l][n], PageSize[l])
        BY <1>6
      <3>4. QED
        BY <2>2, <3>1, <3>2, <3>3 DEF Beside
    <2>3. CASE ~(l = level /\ i = 1) /\ ~(m = level /\ j = 1)
      <3>. DEFINE a == IF l = level THEN i - 1 ELSE i
                  b == IF m = level THEN j - 1 ELSE j
      <3>1. a \in DOMAIN lists[l] /\ after[l][i] = lists[l][a]
        BY <1>5, <2>3
      <3>2. b \in DOMAIN lists[m] /\ after[m][j] = lists[m][b]
        BY <1>5, <2>3
      <3>3. l # m \/ a # b
        BY <1>5, <2>3
      <3>. HIDE DEF a, b
      <3>4. QED
        BY <3>1, <3>2, <3>3 DEF ListsApart
    <2>4. QED
      BY <2>1, <2>2, <2>3
  <1>8. ASSUME NEW x \in Nat, Listed(after, x)
        PROVE  Listed(lists, x) \/ Within(x, page, PageSize[level])
    <2>0. PICK l \in PageLevels : \E i \in DOMAIN after[l] : Within(x, after[l][i], PageSize[l])
      BY <1>8 DEF Listed
    <2>1. PICK i \in DOMAIN after[l] : Within(x, after[l][i], PageSize[l])
      BY <2>0
    <2>2. QED
      BY <1>5, <2>1 DEF Listed
  <1>9. ASSUME NEW x \in Nat, Listed(lists, x) PROVE Listed(after, x)
    <2>0. PICK l \in PageLevels : \E i \in DOMAIN lists[l] : Within(x, lists[l][i], PageSize[l])
      BY <1>9 DEF Listed
    <2>1. PICK i \in DOMAIN lists[l] : Within(x, lists[l][i], PageSize[l])
      BY <2>0
    <2>2. \E j \in DOMAIN after[l] : after[l][j] = lists[l][i]
      <3>1. CASE l # level
        BY <1>4, <3>1
      <3>2. CASE l = level
        <4>1. i \in 1..Len(lists[level]) /\ Len(lists[level]) \in Nat
          BY <3>2, PageFacts
        <4>2. i + 1 \in 1..Len(top) /\ top[i + 1] = lists[level][i]
          BY <1>1, <4>1
        <4>3. QED
          BY <1>1, <1>4, <3>2, <4>2
      <3>3. QED
        BY <3>1, <3>2
    <2>3. QED
      BY <2>1, <2>2 DEF Listed
  <1>10. ASSUME NEW x \in Nat, Within(x, page, PageSize[level]) PROVE Listed(after, x)
    <2>1. 1 \in DOMAIN after[level] /\ after[level][1] = page
      <3>1. Len(lists[level]) \in Nat
        BY PageFacts
      <3>2. QED
        BY <1>1, <1>4, <3>1
    <2>2. QED
      BY <1>10, <2>1 DEF Listed
  <1>11. QED
    BY <1>3, <1>7, <1>8, <1>9, <1>10

\* A page of each level from lo to hi - 1, one behind the other, put on top of the lists.
Ladder(lists, base, lo, hi) ==
    [l \in PageLevels |-> IF l \in lo..hi - 1 THEN <<base + PageSize[l]>> \o lists[l] ELSE lists[l]]

LEMMA AddLadder ==
    ASSUME NEW lists \in Lists, ListsApart(lists), NEW base \in Int,
           NEW lo \in 0..MaxLevels, NEW hi \in 0..MaxLevels, lo <= hi, base + PageSize[lo] \in Nat,
           \A x \in Nat : base + PageSize[lo] <= x /\ x < base + PageSize[hi] => ~Listed(lists, x)
    PROVE  /\ Ladder(lists, base, lo, hi) \in Lists /\ ListsApart(Ladder(lists, base, lo, hi))
           /\ \A x \in Nat : Listed(Ladder(lists, base, lo, hi), x) <=>
                \/ Listed(lists, x)
                \/ base + PageSize[lo] <= x /\ x < base + PageSize[hi]
  <1>. DEFINE L(n) == Ladder(lists, base, lo, n)
              P(n) == /\ L(n) \in Lists /\ ListsApart(L(n))
                      /\ \A x \in Nat : Listed(L(n), x) <=>
                           \/ Listed(lists, x)
                           \/ base + PageSize[lo] <= x /\ x < base + PageSize[n]
              T == {n \in Nat : lo <= n /\ n <= hi /\ ~P(n)}
  <1>1. MaxLevels \in Nat
    BY Constants
  <1>2. P(lo)
    <2>1. \A l \in PageLevels : l \notin lo..lo - 1
      OBVIOUS
    <2>2. L(lo) = [l \in PageLevels |-> lists[l]]
      BY <2>1, Zenon DEF Ladder
    <2>3. L(lo) = lists
      BY <2>2 DEF Lists
    <2>4. PageSize[lo] \in Nat
      BY Doubles
    <2>5. QED
      BY <2>3, <2>4
  <1>3. ASSUME NEW n \in Nat, lo <= n, n + 1 <= hi, P(n) PROVE P(n + 1)
    <2>1. n \in PageLevels /\ n \in 0..MaxLevels /\ n + 1 \in 0..MaxLevels
      BY <1>1, <1>3 DEF PageLevels
    <2>2. /\ PageSize[n] \in Nat /\ PageSize[n + 1] = 2 * PageSize[n] /\ PageSize[lo] \in Nat
          /\ PageSize[hi] \in Nat /\ PageSize[lo] <= PageSize[n] /\ PageSize[n + 1] <= PageSize[hi]
      BY <1>3, <2>1, PageFacts, Doubles, Grows
    <2>3. base + PageSize[n] \in Nat
      BY <2>2
    <2>4. \A x \in Nat : Within(x, base + PageSize[n], PageSize[n]) => ~Listed(L(n), x)
      BY <1>3, <2>2 DEF Within
    <2>5. L(n)[n] = lists[n]
      BY <2>1 DEF Ladder
    <2>6. L(n + 1) = [L(n) EXCEPT ![n] = <<base + PageSize[n]>> \o L(n)[n]]
      <3>1. \A l \in PageLevels : l \in lo..(n + 1) - 1 <=> l \in lo..n - 1 \/ l = n
        BY <1>1, <1>3 DEF PageLevels
      <3>2. ASSUME NEW l \in PageLevels
            PROVE  (IF l \in lo..(n + 1) - 1 THEN <<base + PageSize[l]>> \o lists[l] ELSE lists[l])
                     = IF l = n THEN <<base + PageSize[n]>> \o L(n)[n] ELSE L(n)[l]
        <4>1. L(n)[l] = IF l \in lo..n - 1 THEN <<base + PageSize[l]>> \o lists[l] ELSE lists[l]
          BY DEF Ladder
        <4>2. QED
          BY <2>5, <3>1, <4>1, Zenon
      <3>3. L(n) = [l \in PageLevels |-> L(n)[l]]
        BY DEF Ladder
      <3>4. L(n + 1) = [l \in PageLevels |-> IF l = n THEN <<base + PageSize[n]>> \o L(n)[n] ELSE L(n)[l]]
        BY <3>2, Zenon DEF Ladder
      <3>. HIDE DEF L
      <3>5. QED
        BY <3>3, <3>4
    <2>. HIDE DEF L
    <2>7. /\ L(n + 1) \in Lists /\ ListsApart(L(n + 1))
          /\ \A x \in Nat : Listed(L(n + 1), x) <=>
               Listed(L(n), x) \/ Within(x, base + PageSize[n], PageSize[n])
      BY <1>3, <2>1, <2>3, <2>4, <2>6, AddPage
    <2>8. QED
      BY <1>3, <2>2, <2>7 DEF Within
  <1>4. T = {}
    <2>. SUFFICES ASSUME T # {} PROVE FALSE
      OBVIOUS
    <2>. HIDE DEF P
    <2>1. PICK n \in T : \A k \in T : n <= k
      <3>1. T \in SUBSET Nat
        OBVIOUS
      <3>. HIDE DEF T
      <3>2. QED
        BY <3>1, LeastNatural
    <2>2. n # lo
      BY <1>2, <2>1
    <2>3. n - 1 \in Nat /\ lo <= n - 1 /\ (n - 1) + 1 = n /\ n <= hi /\ ~(n <= n - 1)
      BY <2>1, <2>2
    <2>4. P(n - 1)
      BY <2>1, <2>3
    <2>5. QED
      BY <1>3, <2>1, <2>3, <2>4
  <1>5. P(hi)
    <2>1. hi \notin T /\ hi \in Nat
      BY <1>4
    <2>. HIDE DEF P
    <2>2. QED
      BY <2>1
  <1>6. QED
    BY <1>5

\* The first page of a list.
LEMMA TakePageIs ==
    ASSUME NEW lists \in Lists, ListsApart(lists), NEW level \in PageLevels, lists[level] # <<>>,
           NEW got, got = TakePage(lists, level)
    PROVE  /\ got.page = lists[level][1] /\ got.page \in Nat
           /\ got.lists \in Lists /\ ListsApart(got.lists)
           /\ \A l \in PageLevels : got.lists[l] = IF l = level THEN Tail(lists[l]) ELSE lists[l]
           /\ \A x \in Nat : Listed(lists, x) <=> \/ Listed(got.lists, x)
                                                  \/ Within(x, got.page, PageSize[level])
           /\ \A x \in Nat : Listed(got.lists, x) => ~Within(x, got.page, PageSize[level])
  <1>. DEFINE list == lists[level]
              rest == Tail(list)
  <1>1. list \in Seq(Nat) /\ list # <<>> /\ Len(list) \in Nat /\ DOMAIN list = 1..Len(list)
    BY PageFacts
  <1>2. /\ Len(list) >= 1 /\ 1 \in DOMAIN list /\ Head(list) = list[1] /\ list[1] \in Nat
        /\ rest \in Seq(Nat) /\ Len(rest) = Len(list) - 1
        /\ \A i \in 1..Len(rest) : rest[i] = list[i + 1]
    <2>. HIDE DEF list
    <2>. QED
      BY <1>1, HeadTailProperties
  <1>3. \A i \in 1..Len(rest) : rest[i] = lists[level][IF i < 1 THEN i ELSE i + 1]
    BY <1>2
  <1>4. got.page = list[1] /\ got.lists = [lists EXCEPT ![level] = rest]
    BY <1>2 DEF TakePage
  <1>5. \A l \in PageLevels : got.lists[l] = IF l = level THEN Tail(lists[l]) ELSE lists[l]
    BY <1>4 DEF Lists
  <1>. HIDE DEF rest
  <1>. DEFINE after == got.lists
  <1>6. /\ after \in Lists /\ ListsApart(after)
        /\ \A x \in Nat : Listed(lists, x) <=> \/ Listed(after, x)
                                               \/ Within(x, lists[level][1], PageSize[level])
        /\ \A x \in Nat : Listed(after, x) => ~Within(x, lists[level][1], PageSize[level])
    <2>1. after = [lists EXCEPT ![level] = rest]
      BY <1>4
    <2>. HIDE DEF after
    <2>2. 1 \in DOMAIN lists[level] /\ rest \in Seq(Nat) /\ Len(rest) = Len(lists[level]) - 1
      BY <1>2
    <2>. HIDE DEF list
    <2>3. Without(lists, lists[level][1], PageSize[level], after)
      BY <1>3, <2>1, <2>2, DropPage
    <2>4. QED
      BY <2>3 DEF Without
  <1>7. QED
    BY <1>2, <1>4, <1>5, <1>6

\* SplitFromHighLevel takes a page of a higher level apart: its first part is the page asked
\* for, the other parts go to the lists of the levels below it.
LEMMA SplitIs ==
    ASSUME NEW lists \in Lists, ListsApart(lists), NEW level \in PageLevels,
           NEW got, got = SplitFromHighLevel(lists, level)
    PROVE  \/ got.page = None
           \/ /\ got.page \in Nat
              /\ got.lists \in Lists /\ ListsApart(got.lists)
              /\ \A x \in Nat : Listed(lists, x) <=> \/ Listed(got.lists, x)
                                                     \/ Within(x, got.page, PageSize[level])
              /\ \A x \in Nat : Listed(got.lists, x) => ~Within(x, got.page, PageSize[level])
  <1>. DEFINE rich == {l \in PageLevels : l > level /\ lists[l] # <<>>}
              from == Min(rich)
              page == Head(lists[from])
  <1>1. CASE rich = {}
    BY <1>1 DEF SplitFromHighLevel
  <1>2. CASE rich # {}
    <2>1. from \in PageLevels /\ from > level /\ lists[from] # <<>>
      <3>1. rich \in SUBSET Nat
        BY DEF PageLevels
      <3>2. from \in rich
        BY <1>2, <3>1, LeastIs
      <3>3. QED
        BY <3>2
    <2>2. got = [page  |-> page,
                 lists |-> [l \in PageLevels |->
                              IF l = from THEN Tail(lists[l])
                              ELSE IF l \in level..from THEN <<page + PageSize[l]>> \o lists[l]
                              ELSE lists[l]]]
      BY <1>2 DEF SplitFromHighLevel
    <2>. DEFINE took == TakePage(lists, from)
                mid == took.lists
    <2>3. /\ took.page = page /\ page \in Nat /\ mid \in Lists /\ ListsApart(mid)
          /\ \A l \in PageLevels : mid[l] = IF l = from THEN Tail(lists[l]) ELSE lists[l]
          /\ \A x \in Nat : Listed(lists, x) <=> Listed(mid, x) \/ Within(x, page, PageSize[from])
          /\ \A x \in Nat : Listed(mid, x) => ~Within(x, page, PageSize[from])
      <3>1. took.page = page
        BY DEF TakePage
      <3>. HIDE DEF took
      <3>2. took = TakePage(lists, from)
        BY DEF took
      <3>. HIDE DEF from, page
      <3>3. QED
        BY <2>1, <3>1, <3>2, TakePageIs
    <2>. HIDE DEF took, page, from
    <2>4. got.lists = Ladder(mid, page, level, from)
      <3>1. level \in Nat /\ from \in Nat
        BY <2>1 DEF PageLevels
      <3>2. ASSUME NEW l \in PageLevels
            PROVE  (IF l = from THEN Tail(lists[l])
                    ELSE IF l \in level..from THEN <<page + PageSize[l]>> \o lists[l]
                    ELSE lists[l])
                     = IF l \in level..from - 1 THEN <<page + PageSize[l]>> \o mid[l] ELSE mid[l]
        <4>1. l \in level..from - 1 <=> l # from /\ l \in level..from
          BY <3>1 DEF PageLevels
        <4>2. QED
          BY <2>3, <4>1, Zenon
      <3>3. got.lists = [l \in PageLevels |->
                           IF l = from THEN Tail(lists[l])
                           ELSE IF l \in level..from THEN <<page + PageSize[l]>> \o lists[l]
                           ELSE lists[l]]
        BY <2>2
      <3>4. QED
        BY <3>2, <3>3, Zenon DEF Ladder
    <2>5. /\ level \in 0..MaxLevels /\ from \in 0..MaxLevels /\ level <= from
          /\ PageSize[level] \in Nat /\ PageSize[from] \in Nat /\ PageSize[level] <= PageSize[from]
      <3>1. level \in 0..MaxLevels /\ from \in 0..MaxLevels /\ level <= from
        BY <2>1, PageFacts
      <3>2. QED
        BY <3>1, Doubles, Grows
    <2>6. \A x \in Nat : page + PageSize[level] <= x /\ x < page + PageSize[from] => ~Listed(mid, x)
      BY <2>3, <2>5 DEF Within
    <2>7. /\ got.lists \in Lists /\ ListsApart(got.lists)
          /\ \A x \in Nat : Listed(got.lists, x) <=>
               \/ Listed(mid, x)
               \/ page + PageSize[level] <= x /\ x < page + PageSize[from]
      BY <2>3, <2>4, <2>5, <2>6, AddLadder
    <2>8. got.page = page
      BY <2>2
    <2>9. QED
      BY <2>3, <2>5, <2>7, <2>8 DEF Within
  <1>3. QED
    BY <1>1, <1>2

\* GetUnitFromPageLevel
LEMMA UnitIs ==
    ASSUME NEW lists \in Lists, ListsApart(lists), NEW got, got = GetUnitFromPageLevel(lists)
    PROVE  \/ got.page = None
           \/ /\ got.page \in Nat
              /\ got.lists \in Lists /\ ListsApart(got.lists)
              /\ \A x \in Nat : Listed(lists, x) <=> Listed(got.lists, x) \/ Within(x, got.page, Unit)
              /\ \A x \in Nat : Listed(got.lists, x) => ~Within(x, got.page, Unit)
  <1>1. 0 \in PageLevels /\ PageSize[0] = Unit
    BY Constants, Doubles DEF PageLevels
  <1>2. CASE lists[0] # <<>>
    <2>1. got = TakePage(lists, 0)
      BY <1>2 DEF GetUnitFromPageLevel
    <2>2. QED
      BY <1>1, <1>2, <2>1, TakePageIs
  <1>3. CASE lists[0] = <<>>
    <2>1. got = SplitFromHighLevel(lists, 0)
      BY <1>3 DEF GetUnitFromPageLevel
    <2>2. QED
      BY <1>1, <2>1, SplitIs
  <1>4. QED
    BY <1>2, <1>3

\* The loops of Init and ExtendPageMem of a table: one page of each level below n.
LEMMA PushRowIs ==
    ASSUME NEW lists \in Lists, ListsApart(lists), NEW addr \in Nat, NEW n \in 0..MaxLevels,
           \A x \in Nat : Within(x, addr, Row(n)) => ~Listed(lists, x)
    PROVE  /\ PushRow(lists, addr, n) \in Lists /\ ListsApart(PushRow(lists, addr, n))
           /\ \A x \in Nat : Listed(PushRow(lists, addr, n), x) <=>
                Listed(lists, x) \/ Within(x, addr, Row(n))
           /\ Row(n) \in Nat
  <1>1. /\ Unit \in Nat /\ PageSize[0] = Unit /\ PageSize[n] \in Nat /\ Unit <= PageSize[n]
        /\ 0 \in 0..MaxLevels
    BY Constants, Doubles, Grows
  <1>2. PushRow(lists, addr, n) = Ladder(lists, addr - Unit, 0, n)
    <2>1. ASSUME NEW l \in PageLevels
          PROVE  (IF l < n THEN <<addr + Row(l)>> \o lists[l] ELSE lists[l])
                   = IF l \in 0..n - 1 THEN <<addr - Unit + PageSize[l]>> \o lists[l] ELSE lists[l]
      <3>1. l < n <=> l \in 0..n - 1
        BY Constants DEF PageLevels
      <3>2. addr + Row(l) = addr - Unit + PageSize[l]
        BY <1>1, PageFacts DEF Row
      <3>3. QED
        BY <3>1, <3>2
    <2>2. QED
      BY <2>1, Zenon DEF PushRow, Ladder
  <1>3. \A x \in Nat : addr - Unit + PageSize[0] <= x /\ x < addr - Unit + PageSize[n]
                         <=> Within(x, addr, Row(n))
    BY <1>1 DEF Within, Row
  <1>4. addr - Unit \in Int /\ addr - Unit + PageSize[0] \in Nat /\ 0 <= n
    BY <1>1
  <1>5. \A x \in Nat : addr - Unit + PageSize[0] <= x /\ x < addr - Unit + PageSize[n]
                         => ~Listed(lists, x)
    BY <1>3
  <1>. DEFINE ladder == Ladder(lists, addr - Unit, 0, n)
  <1>6. /\ ladder \in Lists /\ ListsApart(ladder)
        /\ \A x \in Nat : Listed(ladder, x) <=>
             \/ Listed(lists, x)
             \/ addr - Unit + PageSize[0] <= x /\ x < addr - Unit + PageSize[n]
    BY <1>1, <1>4, <1>5, AddLadder
  <1>. HIDE DEF ladder
  <1>7. Row(n) \in Nat
    BY <1>1 DEF Row
  <1>8. QED
    BY <1>2, <1>3, <1>6, <1>7 DEF ladder

-----------------------------------------------------------------------------
(* The merge of a page that is given back *)

\* Before turn n the page of level + n is in no list, and together with it the lists hold
\* what they held at first and the page that was given back; or it is in its list already.
MergeStates(lists, head, level, n) ==
    {s \in [page : Address, lists : Lists] :
        /\ ListsApart(s.lists)
        /\ s.page # None => \A x \in Nat : Within(x, s.page, PageSize[level + n]) => ~Listed(s.lists, x)
        /\ \A x \in Nat :
              Listed(lists, x) \/ Within(x, head, PageSize[level]) <=>
              Listed(s.lists, x) \/ (s.page # None /\ Within(x, s.page, PageSize[level + n]))}

\* RemoveAt leaves the other elements in their order.
LEMMA RemoveAtIs ==
    ASSUME NEW list \in Seq(Nat), NEW k \in DOMAIN list
    PROVE  /\ RemoveAt(list, k) \in Seq(Nat) /\ Len(RemoveAt(list, k)) = Len(list) - 1
           /\ \A i \in 1..Len(RemoveAt(list, k)) :
                RemoveAt(list, k)[i] = list[IF i < k THEN i ELSE i + 1]
  <1>. DEFINE a == SubSeq(list, 1, k - 1)
              b == SubSeq(list, k + 1, Len(list))
  <1>1. Len(list) \in Nat /\ k \in 1..Len(list)
    OBVIOUS
  <1>2. /\ a \in Seq(Nat) /\ Len(a) = k - 1
        /\ \A i \in 1..k - 1 : a[i] = list[i]
    BY <1>1, SubSeqProperties
  <1>3. /\ b \in Seq(Nat) /\ Len(b) = Len(list) - k
        /\ \A i \in 1..Len(list) - k : b[i] = list[i + k]
    <2>. DEFINE n == Len(list)
    <2>1. n \in Nat /\ k + 1 \in 1..n + 1 /\ n - k \in Nat
      BY <1>1
    <2>. DEFINE m == k + 1
    <2>2. /\ b \in Seq(Nat) /\ Len(b) = (IF m <= n THEN n - m + 1 ELSE 0)
          /\ \A i \in 1..n - m + 1 : b[i] = list[m + i - 1]
      <3>1. m \in Int /\ n \in Int /\ \A i \in m..n : list[i] \in Nat
        BY <1>1
      <3>2. b = SubSeq(list, m, n)
        OBVIOUS
      <3>. HIDE DEF m, n, b
      <3>3. QED
        BY <3>1, <3>2, SubSeqProperties
    <2>. HIDE DEF n, b
    <2>3. n - (k + 1) + 1 = n - k /\ (k + 1 <= n \/ n - k = 0)
      BY <1>1, <2>1 DEF n
    <2>4. \A i \in 1..n - k : k + 1 + i - 1 = i + k
      BY <1>1, <2>1
    <2>5. QED
      BY <2>2, <2>3, <2>4 DEF n
  <1>4. RemoveAt(list, k) = a \o b
    BY DEF RemoveAt
  <1>. HIDE DEF a, b
  <1>5. /\ a \o b \in Seq(Nat) /\ Len(a \o b) = Len(list) - 1
        /\ \A i \in 1..Len(list) - 1 : (a \o b)[i] = IF i <= k - 1 THEN a[i] ELSE b[i - (k - 1)]
    <2>. DEFINE both == a \o b
    <2>1. /\ both \in Seq(Nat) /\ Len(both) = Len(a) + Len(b)
          /\ \A i \in 1..Len(a) + Len(b) : both[i] = IF i <= Len(a) THEN a[i] ELSE b[i - Len(a)]
      BY <1>2, <1>3, ConcatProperties, Zenon
    <2>. HIDE DEF both
    <2>2. Len(a) + Len(b) = Len(list) - 1
      BY <1>1, <1>2, <1>3
    <2>3. \A i \in 1..Len(list) - 1 : both[i] = IF i <= k - 1 THEN a[i] ELSE b[i - (k - 1)]
      BY <1>2, <2>1, <2>2
    <2>4. QED
      BY <2>1, <2>2, <2>3, Zenon DEF both
  <1>. DEFINE both == a \o b
  <1>6. ASSUME NEW i \in 1..Len(list) - 1 PROVE both[i] = list[IF i < k THEN i ELSE i + 1]
    <2>. HIDE DEF both
    <2>0. both[i] = IF i <= k - 1 THEN a[i] ELSE b[i - (k - 1)]
      BY <1>5 DEF both
    <2>1. CASE i < k
      <3>1. i \in 1..k - 1 /\ i <= k - 1
        BY <1>1, <2>1
      <3>2. QED
        BY <1>2, <2>0, <2>1, <3>1
    <2>2. CASE i >= k
      <3>. DEFINE j == i - (k - 1)
      <3>1. j \in 1..Len(list) - k /\ j + k = i + 1 /\ ~(i <= k - 1) /\ ~(i < k)
        BY <1>1, <2>2
      <3>2. both[i] = b[j]
        BY <2>0, <3>1
      <3>. HIDE DEF j
      <3>3. b[j] = list[j + k]
        BY <1>3, <3>1
      <3>4. QED
        BY <3>1, <3>2, <3>3
    <2>3. QED
      BY <1>1, <2>1, <2>2
  <1>7. QED
    BY <1>4, <1>5, <1>6

\* A neighbour on the list leaves it, and the two are one page of the next level.
LEMMA MergeLevelIs ==
    ASSUME NEW lists \in Lists, NEW head \in Nat, NEW level \in PageLevels,
           NEW n \in Nat, level + n \in PageLevels, NEW s \in MergeStates(lists, head, level, n)
    PROVE  MergeLevel(s, level + n) \in MergeStates(lists, head, level, n + 1)
  <1>. DEFINE at == level + n
              size == PageSize[at]
              list == s.lists[at]
              peers == {i \in DOMAIN list : list[i] - size = s.page \/ s.page - size = list[i]}
              k == Min(peers)
              next == MergeLevel(s, at)
  <1>1. /\ s.page \in Address /\ s.lists \in Lists /\ ListsApart(s.lists)
        /\ s.page # None => \A x \in Nat : Within(x, s.page, size) => ~Listed(s.lists, x)
        /\ \A x \in Nat : Listed(lists, x) \/ Within(x, head, PageSize[level]) <=>
                          Listed(s.lists, x) \/ (s.page # None /\ Within(x, s.page, size))
        /\ s = [page |-> s.page, lists |-> s.lists]
    BY DEF MergeStates
  <1>2. /\ at \in PageLevels /\ size \in Nat /\ size > 0 /\ PageSize[level + (n + 1)] = 2 * size
        /\ list \in Seq(Nat) /\ DOMAIN list = 1..Len(list) /\ Len(list) \in Nat
        /\ \A i \in DOMAIN list : list[i] \in Nat
    <2>1. level + (n + 1) = at + 1
      BY PageFacts
    <2>2. at \in PageLevels /\ s.lists \in Lists
      BY <1>1
    <2>. HIDE DEF at
    <2>3. QED
      BY <2>1, <2>2, PageFacts
  <1>3. CASE s.page = None
    <2>1. next = s
      BY <1>3 DEF MergeLevel
    <2>2. QED
      BY <1>1, <1>3, <2>1 DEF MergeStates
  <1>4. CASE s.page # None /\ peers = {}
    <2>. DEFINE after == [s.lists EXCEPT ![at] = <<s.page>> \o list]
    <2>1. next = [page |-> None, lists |-> after]
      BY <1>4 DEF MergeLevel
    <2>2. s.page \in Nat
      BY <1>1, <1>4 DEF Address
    <2>3. /\ after \in Lists /\ ListsApart(after)
          /\ \A x \in Nat : Listed(after, x) <=> Listed(s.lists, x) \/ Within(x, s.page, size)
      <3>1. \A x \in Nat : Within(x, s.page, PageSize[at]) => ~Listed(s.lists, x)
        BY <1>1, <1>4
      <3>. HIDE DEF at
      <3>2. QED
        BY <1>1, <1>2, <2>2, <3>1, AddPage
    <2>. HIDE DEF after, size, peers
    <2>4. \A x \in Nat : Listed(lists, x) \/ Within(x, head, PageSize[level]) <=> Listed(after, x)
      BY <1>1, <1>4, <2>3
    <2>5. next.page = None /\ next.lists = after /\ next \in [page : Address, lists : Lists]
      BY <2>1, <2>3 DEF Address
    <2>. HIDE DEF next
    <2>6. next \in MergeStates(lists, head, level, n + 1)
      BY <2>3, <2>4, <2>5 DEF MergeStates
    <2>7. QED
      BY <2>6 DEF next
  <1>5. CASE s.page # None /\ peers # {}
    <2>. DEFINE after == [s.lists EXCEPT ![at] = RemoveAt(list, k)]
                peer == list[k]
                both == Min({s.page, peer})
    <2>1. next = [page |-> both, lists |-> after]
      BY <1>5 DEF MergeLevel
    <2>2. k \in DOMAIN list /\ (peer - size = s.page \/ s.page - size = peer)
      <3>1. peers \in SUBSET Nat /\ peers # {}
        BY <1>2, <1>5
      <3>2. k \in peers
        <4>. HIDE DEF peers
        <4>. QED
          BY <3>1, LeastIs
      <3>3. QED
        BY <3>2
    <2>3. s.page \in Nat /\ peer \in Nat
      BY <1>1, <1>2, <1>5, <2>2 DEF Address
    <2>. HIDE DEF peers, k
    <2>4. both \in Nat /\ both = IF s.page <= peer THEN s.page ELSE peer
      <3>1. both \in {s.page, peer} /\ \A j \in {s.page, peer} : both <= j
        <4>. DEFINE two == {s.page, peer}
        <4>1. two \in SUBSET Nat /\ two # {}
          BY <2>3
        <4>2. Min(two) \in two /\ \A j \in two : Min(two) <= j
          <5>. HIDE DEF two
          <5>. QED
            BY <4>1, LeastIs
        <4>3. QED
          BY <4>2
      <3>. HIDE DEF both, peer
      <3>2. QED
        BY <2>3, <3>1
    <2>. HIDE DEF both
    <2>5. /\ after \in Lists /\ ListsApart(after)
          /\ \A x \in Nat : Listed(s.lists, x) <=> \/ Listed(after, x)
                                                   \/ Within(x, peer, size)
          /\ \A x \in Nat : Listed(after, x) => ~Within(x, peer, size)
      <3>. DEFINE rest == RemoveAt(list, k)
      <3>1. /\ rest \in Seq(Nat) /\ Len(rest) = Len(list) - 1
            /\ \A i \in 1..Len(rest) : rest[i] = list[IF i < k THEN i ELSE i + 1]
        BY <1>2, <2>2, RemoveAtIs
      <3>. HIDE DEF rest
      <3>. DEFINE were == s.lists
      <3>2. after = [were EXCEPT ![at] = rest]
        BY DEF rest
      <3>3. /\ were \in Lists /\ ListsApart(were) /\ at \in PageLevels /\ k \in DOMAIN were[at]
            /\ rest \in Seq(Nat) /\ Len(rest) = Len(were[at]) - 1
            /\ \A i \in 1..Len(rest) : rest[i] = were[at][IF i < k THEN i ELSE i + 1]
        BY <1>1, <1>2, <2>2, <3>1
      <3>4. peer = were[at][k] /\ size = PageSize[at]
        OBVIOUS
      <3>. HIDE DEF were, at, after, list, peer, size
      <3>5. /\ after \in Lists /\ ListsApart(after)
            /\ \A x \in Nat : Listed(were, x) <=> \/ Listed(after, x)
                                                  \/ Within(x, were[at][k], PageSize[at])
            /\ \A x \in Nat : Listed(after, x) => ~Within(x, were[at][k], PageSize[at])
        <4>1. Without(were, were[at][k], PageSize[at], after)
          BY <3>2, <3>3, DropPage
        <4>2. QED
          BY <4>1 DEF Without
      <3>6. QED
        BY <3>4, <3>5, Zenon DEF were
    <2>. HIDE DEF after, size, peer
    <2>6. \A x \in Nat : Within(x, both, 2 * size) <=> Within(x, s.page, size) \/ Within(x, peer, size)
      <3>1. size \in Nat /\ 2 * size = size + size
        BY <1>2
      <3>2. peer = s.page + size \/ s.page = peer + size
        BY <2>2, <2>3, <3>1
      <3>3. QED
        BY <2>3, <2>4, <3>1, <3>2 DEF Within
    <2>7. \A x \in Nat : Within(x, both, 2 * size) => ~Listed(after, x)
      BY <1>1, <1>5, <2>5, <2>6
    <2>8. \A x \in Nat : Listed(lists, x) \/ Within(x, head, PageSize[level]) <=>
                         Listed(after, x) \/ Within(x, both, 2 * size)
      BY <1>1, <1>5, <2>5, <2>6
    <2>9. /\ next.page = both /\ next.lists = after /\ next \in [page : Address, lists : Lists]
          /\ next.page # None
      BY <2>1, <2>4, <2>5 DEF Address, None
    <2>. HIDE DEF next
    <2>10. next \in MergeStates(lists, head, level, n + 1)
      BY <1>2, <2>5, <2>7, <2>8, <2>9 DEF MergeStates
    <2>11. QED
      BY <2>10 DEF next
  <1>6. QED
    BY <1>3, <1>4, <1>5

\* MergePageLevel: unless a page is left over, the lists hold the page that was given back
\* and what they held before.
LEMMA MergeIs ==
    ASSUME NEW lists \in Lists, ListsApart(lists), NEW head \in Nat, NEW level \in PageLevels,
           \A x \in Nat : Within(x, head, PageSize[level]) => ~Listed(lists, x),
           NEW merged, merged = MergePageLevel(lists, head, level), merged.page = None
    PROVE  /\ merged.lists \in Lists /\ ListsApart(merged.lists)
           /\ \A x \in Nat : Listed(merged.lists, x) <=>
                Listed(lists, x) \/ Within(x, head, PageSize[level])
  <1>. DEFINE M == MaxLevels - level
              s0 == [page |-> head, lists |-> lists]
              Is(g) == g = [m \in 0..M |-> IF m = 0 THEN s0 ELSE MergeLevel(g[m - 1], level + m - 1)]
              S == [m \in 0..M |-> MergeStates(lists, head, level, m)]
              step == [m \in 1..M |-> [s \in S[m - 1] |-> MergeLevel(s, level + m - 1)]]
              turn == CHOOSE g : Is(g)
  <1>1. M \in Nat /\ level \in Nat /\ MaxLevels \in Nat /\ 0 \in 0..M /\ M \in 0..M
    BY Constants DEF PageLevels
  <1>2. s0 \in S[0]
    <2>1. level + 0 = level
      BY <1>1
    <2>2. /\ s0 \in [page : Address, lists : Lists] /\ s0.page = head /\ s0.lists = lists
          /\ head # None
      BY DEF Address, None
    <2>. HIDE DEF s0
    <2>3. s0 \in MergeStates(lists, head, level, 0)
      BY <2>1, <2>2 DEF MergeStates
    <2>4. QED
      BY <1>1, <2>3
  <1>3. \A m \in 1..M : \A s \in S[m - 1] : MergeLevel(s, level + m - 1) \in S[m]
    <2>. SUFFICES ASSUME NEW m \in 1..M, NEW s \in S[m - 1]
                  PROVE  MergeLevel(s, level + m - 1) \in S[m]
      OBVIOUS
    <2>1. /\ m - 1 \in Nat /\ (m - 1) + 1 = m /\ level + m - 1 = level + (m - 1)
          /\ level + (m - 1) \in PageLevels /\ m - 1 \in 0..M /\ m \in 0..M
      BY <1>1 DEF PageLevels
    <2>. DEFINE n == m - 1
    <2>2. s \in MergeStates(lists, head, level, n) /\ S[m] = MergeStates(lists, head, level, n + 1)
      BY <2>1
    <2>. HIDE DEF n, S
    <2>3. n \in Nat /\ level + n \in PageLevels /\ level + m - 1 = level + n
      BY <2>1 DEF n
    <2>4. MergeLevel(s, level + n) \in MergeStates(lists, head, level, n + 1)
      BY <2>2, <2>3, MergeLevelIs
    <2>5. QED
      BY <2>2, <2>3, <2>4
  <1>. HIDE DEF M, S, s0
  <1>4. \A m \in 1..M : \A s \in S[m - 1] : step[m][s] = MergeLevel(s, level + m - 1)
    OBVIOUS
  <1>5. PICK g : Runs(g, M, s0, step) /\ \A m \in 0..M : g[m] \in S[m]
    <2>. HIDE DEF step
    <2>1. \A m \in 1..M : \A s \in S[m - 1] : step[m][s] \in S[m]
      BY <1>3, <1>4
    <2>2. QED
      BY <1>1, <1>2, <2>1, LoopExists
  <1>6. Is(g)
    <2>. HIDE DEF step
    <2>1. \A m \in 0..M : m # 0 => m \in 1..M /\ m - 1 \in 0..M
      BY <1>1
    <2>2. \A m \in 0..M : g[m] = IF m = 0 THEN s0 ELSE MergeLevel(g[m - 1], level + m - 1)
      BY <1>4, <1>5, <2>1 DEF Runs
    <2>3. g = [m \in 0..M |-> g[m]]
      BY <1>5 DEF Runs
    <2>4. QED
      BY <2>2, <2>3, Zenon
  <1>7. Is(turn)
    <2>. HIDE DEF Is
    <2>1. QED
      BY <1>6
  <1>8. turn[M] \in S[M]
    <2>. HIDE DEF turn
    <2>1. \A m \in 0..M : turn[m] = IF m = 0 THEN s0 ELSE MergeLevel(turn[m - 1], level + m - 1)
      BY <1>7
    <2>. HIDE DEF Is, step
    <2>2. turn[0] \in S[0]
      BY <1>1, <1>2, <2>1
    <2>3. \A m \in 1..M : turn[m - 1] \in S[m - 1] => turn[m] \in S[m]
      <3>1. \A m \in 1..M : m \in 0..M /\ m # 0
        BY <1>1
      <3>2. QED
        BY <1>3, <2>1, <3>1
    <2>4. QED
      BY <1>1, <2>2, <2>3, LoopKeeps
  <1>9. MergePageLevel(lists, head, level) = turn[M]
    BY Zenon DEF MergePageLevel, M, s0
  <1>. HIDE DEF turn
  <1>10. merged \in MergeStates(lists, head, level, M)
    BY <1>1, <1>8, <1>9 DEF S
  <1>11. QED
    BY <1>10 DEF MergeStates

-----------------------------------------------------------------------------
(* The operations of a table *)

LEMMA ProductIs ==
    ASSUME NEW a \in Nat, NEW b \in Nat
    PROVE  a * b \in Nat /\ a * (b + 1) = a * b + a
  OBVIOUS

\* The parts of a slab page are in it.
LEMMA SlabPageIs ==
    ASSUME NEW t, TableType(t), SlabsGood(t), NEW p \in DOMAIN t.slabs
    PROVE  /\ p \in Nat /\ t.slabs[p].item \in Nat /\ t.slabs[p].use \in Nat
           /\ t.slabs[p].item * t.slabs[p].use \in Nat
           /\ Behind(t, p) \in Nat /\ p + SlabHead <= Behind(t, p) /\ Behind(t, p) <= p + Unit
           /\ t.begin + TableHead <= p /\ p + Unit <= t.current /\ SlabHead <= Unit
  <1>1. p \in Nat /\ t.slabs[p] \in [item : Nat, use : Nat]
    BY DEF TableType
  <1>2. t.slabs[p].item \in Nat /\ t.slabs[p].use \in Nat
    BY <1>1
  <1>. DEFINE used1 == t.slabs[p].item * t.slabs[p].use
  <1>3. used1 \in Nat
    BY <1>2, ProductIs
  <1>4. t.begin + TableHead <= p /\ p + Unit <= t.current /\ SlabHead + used1 <= Unit
    BY DEF SlabsGood
  <1>5. Behind(t, p) = p + SlabHead + used1
    BY DEF Behind
  <1>. HIDE DEF used1
  <1>6. QED
    BY <1>1, <1>2, <1>3, <1>4, <1>5, Constants DEF used1

LEMMA UnheldIs ==
    ASSUME NEW t, TableGood(t), NEW x \in Nat
    PROVE  /\ Listed(t.lists, x) => Taken(t, x) /\ ~Slabbed(t, x)
           /\ Spare(t, x) => Slabbed(t, x)
           /\ Slabbed(t, x) => Taken(t, x)
           /\ Unheld(t, x) => Taken(t, x)
  <1>1. TableType(t) /\ SlabsGood(t)
    BY DEF TableGood
  <1>2. Listed(t.lists, x) => Taken(t, x) /\ ~Slabbed(t, x)
    BY DEF TableGood
  <1>3. ASSUME Slabbed(t, x) PROVE Taken(t, x)
    <2>1. PICK p \in DOMAIN t.slabs : Within(x, p, Unit)
      BY <1>3 DEF Slabbed
    <2>2. p \in Nat /\ t.begin + TableHead <= p /\ p + Unit <= t.current
      BY <1>1, SlabPageIs
    <2>3. t.begin \in Nat /\ t.current \in Nat
      BY <1>1 DEF TableType
    <2>4. QED
      BY <2>1, <2>2, <2>3, Constants DEF Within, Taken
  <1>4. ASSUME Spare(t, x) PROVE Slabbed(t, x)
    <2>1. PICK p \in DOMAIN t.slabs : Within(x, p, SlabHead) \/ (Behind(t, p) <= x /\ x < p + Unit)
      BY <1>4 DEF Spare
    <2>2. p \in Nat /\ Behind(t, p) \in Nat /\ p + SlabHead <= Behind(t, p) /\ SlabHead <= Unit
      BY <1>1, SlabPageIs
    <2>3. Within(x, p, Unit)
      BY <2>1, <2>2, Constants DEF Within
    <2>4. QED
      BY <2>3 DEF Slabbed
  <1>5. QED
    BY <1>2, <1>3, <1>4 DEF Unheld

\* The addresses that are cut off now and were not before.
Fresh(t, u, x) == Taken(u, x) /\ ~Taken(t, x)

\* A table that was t and is u has given out the block of n addresses from a on, and
\* nothing when n is 0: whatever else it had or has cut off it still has.
Gives(t, u, a, n) ==
    /\ TableGood(u)
    /\ u.begin = t.begin /\ u.next = t.next /\ t.current <= u.current
    /\ \A x \in Nat : Within(x, a, n) => Unheld(t, x) \/ Fresh(t, u, x)
    /\ \A x \in Nat : Unheld(u, x) <=> (Unheld(t, x) \/ Fresh(t, u, x)) /\ ~Within(x, a, n)
    /\ \A x \in Nat : Slabbed(u, x) => Slabbed(t, x) \/ Unheld(t, x) \/ ~Taken(t, x)
    /\ Unit <= n => \A x \in Nat : Within(x, a, n) => ~Slabbed(u, x)

LEMMA GivesNothing ==
    ASSUME NEW t, TableGood(t)
    PROVE  Gives(t, t, None, 0)
  <1>1. t.current \in Nat
    BY DEF TableGood, TableType
  <1>2. \A x \in Nat : ~Within(x, None, 0)
    BY DEF Within, None
  <1>3. ~(Unit <= 0)
    BY Constants
  <1>4. QED
    BY <1>1, <1>2, <1>3 DEF Gives, Fresh

LEMMA GivesLater ==
    ASSUME NEW t, NEW u, NEW v, NEW a, NEW n, TableGood(t), Gives(t, u, None, 0), Gives(u, v, a, n)
    PROVE  Gives(t, v, a, n)
  <1>1. /\ t.current \in Nat /\ u.current \in Nat /\ v.current \in Nat /\ t.begin \in Nat
        /\ u.begin = t.begin /\ v.begin = t.begin /\ v.next = t.next /\ TableGood(v)
        /\ t.current <= u.current /\ u.current <= v.current
    BY DEF Gives, TableGood, TableType
  <1>2. t.current <= v.current
    BY <1>1
  <1>3. ASSUME NEW x \in Nat
        PROVE  /\ Taken(t, x) => Taken(u, x)
               /\ Taken(u, x) => Taken(v, x)
    BY <1>1, Constants DEF Taken
  <1>4. \A x \in Nat : ~Within(x, None, 0)
    BY DEF Within, None
  <1>5. ASSUME NEW x \in Nat
        PROVE  /\ Unheld(u, x) \/ Fresh(u, v, x) <=> Unheld(t, x) \/ Fresh(t, v, x)
               /\ Unheld(u, x) <=> Unheld(t, x) \/ Fresh(t, u, x)
    <2>1. Unheld(u, x) <=> Unheld(t, x) \/ Fresh(t, u, x)
      BY <1>4 DEF Gives
    <2>2. QED
      BY <1>3, <2>1 DEF Fresh
  <1>6. \A x \in Nat : Within(x, a, n) => Unheld(t, x) \/ Fresh(t, v, x)
    BY <1>5 DEF Gives
  <1>7. \A x \in Nat : Unheld(v, x) <=> (Unheld(t, x) \/ Fresh(t, v, x)) /\ ~Within(x, a, n)
    BY <1>5 DEF Gives
  <1>8. ASSUME NEW x \in Nat, Slabbed(v, x) PROVE Slabbed(t, x) \/ Unheld(t, x) \/ ~Taken(t, x)
    <2>1. Slabbed(u, x) \/ Unheld(u, x) \/ ~Taken(u, x)
      BY <1>8 DEF Gives
    <2>2. Slabbed(u, x) => Slabbed(t, x) \/ Unheld(t, x) \/ ~Taken(t, x)
      BY DEF Gives
    <2>3. QED
      BY <1>3, <1>5, <2>1, <2>2 DEF Fresh
  <1>9. Unit <= n => \A x \in Nat : Within(x, a, n) => ~Slabbed(v, x)
    BY DEF Gives
  <1>10. QED
    BY <1>1, <1>2, <1>6, <1>7, <1>8, <1>9 DEF Gives

\* Fields that say nothing of addresses.
LEMMA GivesAlike ==
    ASSUME NEW t, NEW u, NEW a, NEW n, TableGood(t), Gives(t, u, a, n)
    PROVE  Gives(t, [u EXCEPT !.valid = FALSE], a, n)
  <1>. DEFINE w == [u EXCEPT !.valid = FALSE]
  <1>1. TableType(u)
    BY DEF Gives, TableGood
  <1>2. IsTable(u)
    BY <1>1 DEF TableType
  <1>3. /\ w.begin = u.begin /\ w.current = u.current /\ w.next = u.next /\ w.valid = FALSE
        /\ w.lists = u.lists /\ w.node = u.node /\ w.slabs = u.slabs /\ IsTable(w)
    <2>1. w = [u EXCEPT !.valid = FALSE]
      OBVIOUS
    <2>. HIDE DEF w
    <2>2. QED
      BY <1>2, <2>1 DEF IsTable
  <1>. HIDE DEF w
  <1>4. TableType(w)
    BY <1>1, <1>3 DEF TableType
  <1>5. \A x : /\ Taken(w, x) <=> Taken(u, x)
               /\ Slabbed(w, x) <=> Slabbed(u, x)
    BY <1>3 DEF Taken, Slabbed
  <1>6. \A x : Unheld(w, x) <=> Unheld(u, x)
    BY <1>3 DEF Unheld, Spare, Behind
  <1>7. TableGood(w)
    <2>1. SlabsGood(w)
      <3>1. SlabsGood(u)
        BY DEF Gives, TableGood
      <3>2. QED
        BY <1>3, <3>1 DEF SlabsGood
    <2>2. TableEnd(w) = TableEnd(u)
      BY <1>3 DEF TableEnd
    <2>3. QED
      BY <1>3, <1>4, <1>5, <2>1, <2>2 DEF Gives, TableGood
  <1>8. \A x : Fresh(t, w, x) <=> Fresh(t, u, x)
    BY <1>5 DEF Fresh
  <1>9. QED
    BY <1>3, <1>5, <1>6, <1>7, <1>8 DEF Gives, w

\* ExtendPageMem of a table: what it cuts off is on the free lists.
LEMMA ExtendIs ==
    ASSUME NEW t, TableGood(t)
    PROVE  Gives(t, ExtendPageMem(t).table, None, 0)
  <1>. DEFINE fits == {n \in 0..MaxLevels : t.current + Row(n) <= TableEnd(t)}
              n == Fitting(t)
              u == ExtendPageMem(t).table
  <1>1. /\ TableType(t) /\ IsTable(t) /\ t.begin \in Nat /\ t.current \in Nat /\ t.lists \in Lists
        /\ t.begin + TableHead <= t.current /\ t.current <= TableEnd(t) /\ ListsApart(t.lists)
        /\ SlabsGood(t)
    BY DEF TableGood, TableType
  <1>2. n \in 0..MaxLevels /\ t.current + Row(n) <= TableEnd(t)
    <2>1. 0 \in fits
      <3>1. Row(0) = 0 /\ 0 \in 0..MaxLevels
        BY Constants, Doubles DEF Row
      <3>2. QED
        BY <1>1, <3>1
    <2>2. fits \in SUBSET (0..MaxLevels) /\ fits # {} /\ MaxLevels \in Nat
      BY <2>1, Constants
    <2>3. Max(fits) \in fits
      <3>. HIDE DEF fits
      <3>. QED
        BY <2>2, GreatestIs
    <2>4. n = Max(fits)
      BY DEF Fitting
    <2>5. QED
      BY <2>3, <2>4
  <1>. DEFINE lists == PushRow(t.lists, t.current, n)
  <1>3. u = [t EXCEPT !.lists = lists, !.current = t.current + Row(n)]
    BY DEF ExtendPageMem
  <1>. HIDE DEF n, lists, u
  <1>4. /\ u.begin = t.begin /\ u.current = t.current + Row(n) /\ u.next = t.next /\ u.valid = t.valid
        /\ u.lists = lists /\ u.node = t.node /\ u.slabs = t.slabs /\ IsTable(u)
    BY <1>1, <1>3 DEF IsTable
  <1>5. \A x \in Nat : Within(x, t.current, Row(n)) => ~Listed(t.lists, x)
    <2>1. \A x \in Nat : Listed(t.lists, x) => Taken(t, x)
      BY UnheldIs
    <2>2. QED
      BY <1>1, <2>1 DEF Taken, Within
  <1>6. /\ lists \in Lists /\ ListsApart(lists) /\ Row(n) \in Nat
        /\ \A x \in Nat : Listed(lists, x) <=> Listed(t.lists, x) \/ Within(x, t.current, Row(n))
    BY <1>1, <1>2, <1>5, PushRowIs DEF lists
  <1>7. \A x : Slabbed(u, x) <=> Slabbed(t, x)
    BY <1>4 DEF Slabbed
  <1>8. \A x : Spare(u, x) <=> Spare(t, x)
    BY <1>4 DEF Spare, Behind
  <1>9. \A x \in Nat : Fresh(t, u, x) <=> Within(x, t.current, Row(n))
    BY <1>1, <1>4, <1>6, Constants DEF Fresh, Taken, Within
  <1>10. \A x \in Nat : Unheld(u, x) <=> Unheld(t, x) \/ Fresh(t, u, x)
    BY <1>4, <1>6, <1>8, <1>9 DEF Unheld
  <1>11. TableGood(u)
    <2>1. TableType(u)
      BY <1>1, <1>4, <1>6 DEF TableType
    <2>2. SlabsGood(u)
      <3>1. ASSUME NEW p \in DOMAIN u.slabs
            PROVE  /\ u.begin + TableHead <= p /\ p + Unit <= u.current
                   /\ SlabHead + u.slabs[p].item * u.slabs[p].use <= Unit
        <4>1. /\ p \in Nat /\ t.begin + TableHead <= p /\ p + Unit <= t.current
              /\ SlabHead + t.slabs[p].item * t.slabs[p].use <= Unit
          BY <1>1, <1>4, SlabPageIs DEF SlabsGood
        <4>2. QED
          BY <1>1, <1>4, <1>6, <4>1, Constants
      <3>2. QED
        BY <1>1, <1>4, <3>1 DEF SlabsGood
    <2>3. u.begin + TableHead <= u.current /\ u.current <= TableEnd(u)
      BY <1>1, <1>2, <1>4, <1>6, Constants DEF TableEnd
    <2>4. ASSUME NEW x \in Nat, Listed(u.lists, x) PROVE Taken(u, x) /\ ~Slabbed(u, x)
      <3>1. CASE Listed(t.lists, x)
        <4>1. Taken(t, x) /\ ~Slabbed(t, x)
          BY <3>1, UnheldIs
        <4>2. QED
          BY <1>1, <1>4, <1>6, <1>7, <4>1 DEF Taken
      <3>2. CASE Within(x, t.current, Row(n))
        <4>1. Taken(u, x) /\ ~Taken(t, x)
          BY <1>9, <3>2 DEF Fresh
        <4>2. QED
          BY <1>7, <4>1, UnheldIs
      <3>3. QED
        BY <1>4, <1>6, <2>4, <3>1, <3>2
    <2>5. QED
      BY <1>4, <1>6, <2>1, <2>2, <2>3, <2>4 DEF TableGood
  <1>12. t.current <= u.current
    BY <1>1, <1>4, <1>6
  <1>13. \A x \in Nat : ~Within(x, None, 0)
    BY DEF Within, None
  <1>14. ~(Unit <= 0)
    BY Constants
  <1>15. QED
    BY <1>4, <1>7, <1>10, <1>11, <1>12, <1>13, <1>14 DEF Gives, u

\* A page that leaves the lists is given out.
LEMMA GivesPage ==
    ASSUME NEW t, TableGood(t), NEW page \in Nat, NEW size \in Nat, NEW after,
           Without(t.lists, page, size, after)
    PROVE  Gives(t, [t EXCEPT !.lists = after], page, size)
  <1>. DEFINE u == [t EXCEPT !.lists = after]
  <1>1. TableType(t) /\ IsTable(t) /\ SlabsGood(t) /\ t.current \in Nat
    BY DEF TableGood, TableType
  <1>2. /\ u.begin = t.begin /\ u.current = t.current /\ u.next = t.next /\ u.valid = t.valid
        /\ u.lists = after /\ u.node = t.node /\ u.slabs = t.slabs /\ IsTable(u)
    BY <1>1 DEF IsTable
  <1>. HIDE DEF u
  <1>3. /\ after \in Lists /\ ListsApart(after)
        /\ \A x \in Nat : Listed(t.lists, x) <=> Listed(after, x) \/ Within(x, page, size)
        /\ \A x \in Nat : Listed(after, x) => ~Within(x, page, size)
    BY DEF Without
  <1>4. \A x : (Slabbed(u, x) <=> Slabbed(t, x)) /\ (Taken(u, x) <=> Taken(t, x))
    BY <1>2 DEF Slabbed, Taken
  <1>5. \A x : Spare(u, x) <=> Spare(t, x)
    BY <1>2 DEF Spare, Behind
  <1>6. TableGood(u)
    <2>1. TableType(u)
      BY <1>1, <1>2, <1>3 DEF TableType
    <2>2. SlabsGood(u)
      BY <1>1, <1>2 DEF SlabsGood
    <2>3. \A x \in Nat : Listed(u.lists, x) => Taken(u, x) /\ ~Slabbed(u, x)
      BY <1>2, <1>3, <1>4, UnheldIs
    <2>4. u.begin + TableHead <= u.current /\ u.current <= TableEnd(u)
      BY <1>2 DEF TableGood, TableEnd
    <2>5. QED
      BY <1>2, <1>3, <2>1, <2>2, <2>3, <2>4 DEF TableGood
  <1>7. \A x \in Nat : Within(x, page, size) => Listed(t.lists, x) /\ ~Slabbed(t, x) /\ ~Spare(t, x)
    BY <1>3, UnheldIs
  <1>8. \A x \in Nat : Unheld(u, x) <=> (Unheld(t, x) \/ Fresh(t, u, x)) /\ ~Within(x, page, size)
    BY <1>2, <1>3, <1>4, <1>5, <1>7 DEF Unheld, Fresh
  <1>9. t.current <= u.current
    BY <1>1, <1>2
  <1>10. QED
    BY <1>2, <1>4, <1>6, <1>7, <1>8, <1>9 DEF Gives, Unheld, u

\* ExtendFromPageMem and SlabMemTable::Init: a page becomes the slab page of the level.
NewSlab(t, l, page, after) ==
    [t EXCEPT !.lists = after, !.node[l] = page,
              !.slabs = Put(t.slabs, page, [item |-> ItemSizes[l], use |-> 0])]

\* A page of the lists that becomes a slab page: its room is not given out yet.
LEMMA AddSlab ==
    ASSUME NEW t, TableGood(t), NEW l \in SlabLevels, NEW page \in Nat, NEW after,
           Without(t.lists, page, Unit, after),
           NEW u, u = NewSlab(t, l, page, after)
    PROVE  /\ Gives(t, u, None, 0) /\ u.valid = t.valid
           /\ u.node[l] = page /\ page \in DOMAIN u.slabs
           /\ u.slabs[page] = [item |-> ItemSizes[l], use |-> 0]
  <1>. DEFINE slab == [item |-> ItemSizes[l], use |-> 0]
              slabs == Put(t.slabs, page, slab)
              node == [t.node EXCEPT ![l] = page]
  <1>1. /\ TableType(t) /\ IsTable(t) /\ SlabsGood(t) /\ t.current \in Nat /\ t.begin \in Nat
        /\ t.node \in [SlabLevels -> Address] /\ DOMAIN t.slabs \subseteq Nat
        /\ t.slabs \in [DOMAIN t.slabs -> [item : Nat, use : Nat]]
    BY DEF TableGood, TableType
  <1>2. /\ u.begin = t.begin /\ u.current = t.current /\ u.next = t.next /\ u.valid = t.valid
        /\ u.lists = after /\ u.node = node /\ u.slabs = slabs /\ IsTable(u)
    <2>1. u = [t EXCEPT !.lists = after, !.node = node, !.slabs = slabs]
      BY <1>1 DEF IsTable, NewSlab
    <2>. HIDE DEF node, slabs
    <2>2. QED
      BY <1>1, <2>1 DEF IsTable
  <1>3. /\ after \in Lists /\ ListsApart(after)
        /\ \A x \in Nat : Listed(t.lists, x) <=> Listed(after, x) \/ Within(x, page, Unit)
        /\ \A x \in Nat : Listed(after, x) => ~Within(x, page, Unit)
    BY DEF Without
  <1>4. /\ Unit \in Nat /\ Unit > 0 /\ SlabHead \in Nat /\ SlabHead <= Unit
        /\ ItemSizes[l] \in Nat /\ slab \in [item : Nat, use : Nat]
        /\ slab.item * slab.use = 0
    BY Constants
  <1>5. /\ DOMAIN slabs = {page} \cup DOMAIN t.slabs /\ slabs = [p \in DOMAIN slabs |-> slabs[p]]
        /\ slabs[page] = slab /\ \A p \in DOMAIN t.slabs : p # page => slabs[p] = t.slabs[p]
    <2>. DEFINE before == t.slabs
    <2>1. slabs = Put(before, page, slab)
      OBVIOUS
    <2>. HIDE DEF slab, slabs, before
    <2>2. /\ DOMAIN slabs = {page} \cup DOMAIN before /\ slabs = [p \in DOMAIN slabs |-> slabs[p]]
          /\ slabs[page] = slab /\ \A p \in DOMAIN before : p # page => slabs[p] = before[p]
      BY <2>1 DEF Put
    <2>3. QED
      BY <2>2 DEF before
  <1>6. /\ node \in [SlabLevels -> Address] /\ node[l] = page
        /\ \A k \in SlabLevels : k # l => node[k] = t.node[k]
    BY <1>1 DEF Address
  <1>. HIDE DEF slabs, node, slab
  <1>7. \A x \in Nat : Within(x, page, Unit) => Taken(t, x) /\ ~Slabbed(t, x) /\ ~Spare(t, x)
    BY <1>3, UnheldIs
  <1>8. \A p \in DOMAIN t.slabs : Beside(p, Unit, page, Unit) /\ p # page /\ p \in Nat
    <2>. SUFFICES ASSUME NEW p \in DOMAIN t.slabs
                  PROVE  Beside(p, Unit, page, Unit) /\ p # page /\ p \in Nat
      OBVIOUS
    <2>1. p \in Nat
      BY <1>1
    <2>2. \A x \in Nat : Within(x, p, Unit) => Slabbed(t, x)
      BY DEF Slabbed
    <2>3. Beside(p, Unit, page, Unit)
      BY <1>4, <1>7, <2>1, <2>2, BesideIs
    <2>4. QED
      BY <1>4, <2>1, <2>3 DEF Beside
  <1>9. page \in Nat /\ t.begin + TableHead <= page /\ page + Unit <= t.current
    <2>1. Within(page, page, Unit) /\ Within(page + Unit - 1, page, Unit) /\ page + Unit - 1 \in Nat
      BY <1>4 DEF Within
    <2>2. Taken(t, page) /\ Taken(t, page + Unit - 1)
      BY <1>7, <2>1
    <2>3. QED
      BY <1>1, <1>4, <2>2 DEF Taken
  <1>10. \A x \in Nat : Slabbed(u, x) <=> Slabbed(t, x) \/ Within(x, page, Unit)
    BY <1>2, <1>5 DEF Slabbed
  <1>11. \A x \in Nat : Spare(u, x) <=> Spare(t, x) \/ Within(x, page, Unit)
    <2>1. Behind(u, page) = page + SlabHead
      BY <1>2, <1>4, <1>5 DEF Behind
    <2>2. \A p \in DOMAIN t.slabs : Behind(u, p) = Behind(t, p)
      BY <1>2, <1>5, <1>8 DEF Behind
    <2>3. ASSUME NEW x \in Nat
          PROVE  Within(x, page, SlabHead) \/ (Behind(u, page) <= x /\ x < page + Unit)
                   <=> Within(x, page, Unit)
      BY <1>4, <2>1 DEF Within
    <2>4. ASSUME NEW x \in Nat, Spare(u, x) PROVE Spare(t, x) \/ Within(x, page, Unit)
      <3>1. PICK p \in DOMAIN u.slabs : Within(x, p, SlabHead) \/ (Behind(u, p) <= x /\ x < p + Unit)
        BY <2>4 DEF Spare
      <3>2. CASE p = page
        BY <2>3, <3>1, <3>2
      <3>3. CASE p \in DOMAIN t.slabs
        <4>1. Behind(u, p) = Behind(t, p)
          BY <2>2, <3>3
        <4>2. QED
          BY <3>1, <3>3, <4>1 DEF Spare
      <3>4. QED
        BY <1>2, <1>5, <3>1, <3>2, <3>3
    <2>5. ASSUME NEW x \in Nat, Spare(t, x) PROVE Spare(u, x)
      <3>1. PICK p \in DOMAIN t.slabs : Within(x, p, SlabHead) \/ (Behind(t, p) <= x /\ x < p + Unit)
        BY <2>5 DEF Spare
      <3>2. p \in DOMAIN u.slabs /\ Behind(u, p) = Behind(t, p)
        BY <1>2, <1>5, <2>2
      <3>3. QED
        BY <3>1, <3>2 DEF Spare
    <2>6. ASSUME NEW x \in Nat, Within(x, page, Unit) PROVE Spare(u, x)
      <3>1. page \in DOMAIN u.slabs
        BY <1>2, <1>5
      <3>2. QED
        BY <2>3, <2>6, <3>1 DEF Spare
    <2>7. QED
      BY <2>4, <2>5, <2>6
  <1>12. \A x : Taken(u, x) <=> Taken(t, x)
    BY <1>2 DEF Taken
  <1>13. \A x \in Nat : Unheld(u, x) <=> Unheld(t, x) \/ Fresh(t, u, x)
    BY <1>2, <1>3, <1>11, <1>12 DEF Unheld, Fresh
  <1>14. TableGood(u)
    <2>1. TableType(u)
      <3>1. slabs \in [DOMAIN slabs -> [item : Nat, use : Nat]]
        <4>1. \A p \in DOMAIN slabs : slabs[p] \in [item : Nat, use : Nat]
          BY <1>1, <1>4, <1>5
        <4>2. QED
          BY <1>5, <4>1
      <3>2. DOMAIN slabs \subseteq Nat
        BY <1>1, <1>5
      <3>3. QED
        BY <1>1, <1>2, <1>3, <1>6, <3>1, <3>2 DEF TableType
    <2>2. SlabsGood(u)
      <3>1. ASSUME NEW p \in DOMAIN u.slabs
            PROVE  /\ u.begin + TableHead <= p /\ p + Unit <= u.current
                   /\ SlabHead + u.slabs[p].item * u.slabs[p].use <= Unit
        <4>1. CASE p = page
          BY <1>2, <1>4, <1>5, <1>9, <4>1
        <4>2. CASE p \in DOMAIN t.slabs
          BY <1>1, <1>2, <1>5, <1>8, <4>2 DEF SlabsGood
        <4>3. QED
          BY <1>2, <1>5, <4>1, <4>2
      <3>2. ASSUME NEW p \in DOMAIN u.slabs, NEW q \in DOMAIN u.slabs, p # q
            PROVE  Beside(p, Unit, q, Unit)
        <4>1. CASE p = page
          <5>1. Beside(q, Unit, page, Unit)
            BY <1>2, <1>5, <1>8, <3>2, <4>1
          <5>2. QED
            BY <4>1, <5>1 DEF Beside
        <4>2. CASE q = page
          BY <1>2, <1>5, <1>8, <3>2, <4>2
        <4>3. CASE p # page /\ q # page
          BY <1>1, <1>2, <1>5, <3>2, <4>3 DEF SlabsGood
        <4>4. QED
          BY <4>1, <4>2, <4>3
      <3>3. ASSUME NEW k \in SlabLevels, u.node[k] # None
            PROVE  u.node[k] \in DOMAIN u.slabs /\ u.slabs[u.node[k]].item = ItemSizes[k]
        <4>1. CASE k = l
          BY <1>2, <1>5, <1>6, <4>1 DEF slab
        <4>2. CASE k # l
          <5>1. t.node[k] # None /\ u.node[k] = t.node[k]
            BY <1>2, <1>6, <3>3, <4>2
          <5>2. t.node[k] \in DOMAIN t.slabs /\ t.slabs[t.node[k]].item = ItemSizes[k]
            BY <1>1, <5>1 DEF SlabsGood
          <5>3. u.slabs[t.node[k]] = t.slabs[t.node[k]]
            BY <1>2, <1>5, <1>8, <5>2
          <5>4. QED
            BY <1>2, <1>5, <5>1, <5>2, <5>3
        <4>3. QED
          BY <4>1, <4>2
      <3>4. QED
        BY <3>1, <3>2, <3>3 DEF SlabsGood
    <2>3. u.begin + TableHead <= u.current /\ u.current <= TableEnd(u)
      BY <1>2 DEF TableGood, TableEnd
    <2>4. \A x \in Nat : Listed(u.lists, x) => Taken(u, x) /\ ~Slabbed(u, x)
      BY <1>2, <1>3, <1>10, <1>12, UnheldIs
    <2>5. QED
      BY <1>2, <1>3, <2>1, <2>2, <2>3, <2>4 DEF TableGood
  <1>15. \A x \in Nat : ~Within(x, None, 0)
    BY DEF Within, None
  <1>16. Gives(t, u, None, 0)
    <2>1. t.current <= u.current /\ ~(Unit <= 0)
      BY <1>1, <1>2, <1>4
    <2>2. \A x \in Nat : Slabbed(u, x) => Slabbed(t, x) \/ Unheld(t, x) \/ ~Taken(t, x)
      BY <1>3, <1>10 DEF Unheld
    <2>3. QED
      BY <1>2, <1>13, <1>14, <1>15, <2>1, <2>2 DEF Gives
  <1>17. QED
    BY <1>2, <1>5, <1>6, <1>16 DEF slab

LEMMA QuotientIs ==
    ASSUME NEW a \in Nat, NEW b \in Nat, b > 0, NEW n \in Nat, n < a \div b
    PROVE  b * (n + 1) <= a /\ b * n \in Nat /\ b * (n + 1) = b * n + b
  <1>. DEFINE q == a \div b
  <1>1. q \in Nat /\ b * q <= a
    OBVIOUS
  <1>. HIDE DEF q
  <1>2. PICK k \in Nat : q = (n + 1) + k
    <2>1. q - (n + 1) \in Nat /\ q = (n + 1) + (q - (n + 1))
      BY <1>1 DEF q
    <2>2. QED
      BY <2>1
  <1>3. b * q = b * (n + 1) + b * k /\ b * k \in Nat
    BY <1>2, ProductIs
  <1>4. b * n \in Nat /\ b * (n + 1) = b * n + b
    BY ProductIs
  <1>5. QED
    BY <1>1, <1>3, <1>4

\* An item is the first of what is behind the last one.
LEMMA ItemIs ==
    ASSUME NEW t, TableGood(t), NEW l \in SlabLevels, NEW got, got = AllocBlock(t, l)
    PROVE  \/ got = Refusal(t)
           \/ /\ got.addr \in Nat /\ got.span = ItemSizes[l] /\ got.table.valid = t.valid
              /\ Gives(t, got.table, got.addr, got.span)
              /\ got = [addr |-> got.addr, span |-> got.span, table |-> got.table]
  <1>. DEFINE page == t.node[l]
              slab == t.slabs[page]
              item == ItemSizes[l]
              more == [slab EXCEPT !.use = slab.use + 1]
              slabs == [t.slabs EXCEPT ![page] = more]
              u == [t EXCEPT !.slabs[page].use = @ + 1]
              addr == Behind(t, page)
  <1>. SUFFICES ASSUME got # Refusal(t)
                PROVE  /\ got.addr \in Nat /\ got.span = item /\ got.table.valid = t.valid
                       /\ Gives(t, got.table, got.addr, got.span)
                       /\ got = [addr |-> got.addr, span |-> got.span, table |-> got.table]
    OBVIOUS
  <1>1. page # None /\ slab.use < (Unit - SlabHead) \div item
    BY DEF AllocBlock
  <1>2. /\ TableType(t) /\ IsTable(t) /\ SlabsGood(t) /\ t.current \in Nat /\ t.begin \in Nat
        /\ DOMAIN t.slabs \subseteq Nat /\ t.slabs \in [DOMAIN t.slabs -> [item : Nat, use : Nat]]
    BY DEF TableGood, TableType
  <1>3. page \in DOMAIN t.slabs /\ slab.item = item
    BY <1>1, <1>2 DEF SlabsGood
  <1>4. /\ Unit \in Nat /\ Unit > 0 /\ SlabHead \in Nat /\ item \in Nat /\ item > 0 /\ Unit - SlabHead \in Nat
        /\ item < Unit
    BY Constants
  <1>5. /\ page \in Nat /\ slab.use \in Nat /\ addr \in Nat /\ page + SlabHead <= addr
        /\ t.begin + TableHead <= page /\ page + Unit <= t.current
    BY <1>2, <1>3, SlabPageIs
  <1>6. /\ slab = [item |-> item, use |-> slab.use]
        /\ more = [item |-> item, use |-> slab.use + 1]
    <2>1. slab \in [item : Nat, use : Nat]
      BY <1>2, <1>3
    <2>. HIDE DEF slab, item
    <2>2. slab = [item |-> item, use |-> slab.use]
      BY <1>3, <2>1
    <2>3. QED
      BY <2>2
  <1>7. /\ item * (slab.use + 1) <= Unit - SlabHead /\ item * slab.use \in Nat
        /\ item * (slab.use + 1) = item * slab.use + item
    BY <1>1, <1>4, <1>5, QuotientIs
  <1>8. addr = page + SlabHead + item * slab.use
    BY <1>3 DEF Behind
  <1>9. addr + item <= page + Unit
    BY <1>4, <1>5, <1>7, <1>8
  <1>10. /\ got.addr = addr /\ got.span = item /\ got.table = u
         /\ got = [addr |-> got.addr, span |-> got.span, table |-> got.table]
    BY <1>1, <1>8 DEF AllocBlock
  <1>11. /\ u.begin = t.begin /\ u.current = t.current /\ u.next = t.next /\ u.valid = t.valid
         /\ u.lists = t.lists /\ u.node = t.node /\ u.slabs = slabs /\ IsTable(u)
    <2>1. u = [t EXCEPT !.slabs = slabs]
      BY <1>2 DEF IsTable
    <2>. HIDE DEF slabs, u
    <2>2. QED
      BY <1>2, <2>1 DEF IsTable
  <1>12. /\ DOMAIN slabs = DOMAIN t.slabs /\ slabs[page] = more
         /\ \A p \in DOMAIN t.slabs : p # page => slabs[p] = t.slabs[p]
         /\ slabs \in [DOMAIN slabs -> [item : Nat, use : Nat]]
    <2>1. more \in [item : Nat, use : Nat]
      BY <1>4, <1>5, <1>6
    <2>. HIDE DEF more
    <2>2. QED
      BY <1>2, <1>3, <2>1
  <1>13. Behind(u, page) = addr + item
    <2>1. u.slabs[page] = more
      BY <1>11, <1>12
    <2>2. more.item = item /\ more.use = slab.use + 1
      BY <1>6
    <2>. HIDE DEF u, more, page, slab, item, addr
    <2>3. Behind(u, page) = page + SlabHead + item * (slab.use + 1)
      BY <2>1, <2>2 DEF Behind
    <2>. DEFINE old == item * slab.use
                new == item * (slab.use + 1)
    <2>4. old \in Nat /\ new = old + item /\ addr = page + SlabHead + old
      BY <1>7, <1>8
    <2>. HIDE DEF old, new
    <2>5. page + SlabHead + new = addr + item
      BY <1>4, <1>5, <2>4
    <2>6. QED
      BY <2>3, <2>5 DEF new
  <1>. HIDE DEF page, slab, item, more, slabs, u, addr
  <1>14. \A p \in DOMAIN t.slabs : p # page => Behind(u, p) = Behind(t, p)
    BY <1>11, <1>12 DEF Behind
  <1>15. \A x : /\ Slabbed(u, x) <=> Slabbed(t, x)
                /\ Taken(u, x) <=> Taken(t, x)
    BY <1>11, <1>12 DEF Slabbed, Taken
  <1>16. ASSUME NEW x \in Nat
         PROVE  /\ Within(x, addr, item) => Spare(t, x)
                /\ Spare(u, x) <=> Spare(t, x) /\ ~Within(x, addr, item)
    <2>1. ASSUME Within(x, addr, item) PROVE Spare(t, x) /\ Within(x, page, Unit)
      <3>1. addr <= x /\ x < page + Unit /\ page <= x
        BY <1>4, <1>5, <1>9, <2>1 DEF Within
      <3>2. Behind(t, page) <= x
        BY <3>1 DEF addr
      <3>3. QED
        BY <1>3, <3>1, <3>2 DEF Spare, Within
    <2>2. ASSUME NEW p \in DOMAIN t.slabs, p # page,
                 Within(x, p, SlabHead) \/ (Behind(t, p) <= x /\ x < p + Unit)
          PROVE  ~Within(x, addr, item)
      <3>1. Beside(p, Unit, page, Unit)
        BY <1>2, <1>3, <2>2 DEF SlabsGood
      <3>2. p \in Nat /\ Behind(t, p) \in Nat /\ p + SlabHead <= Behind(t, p) /\ SlabHead <= Unit
        BY <1>2, SlabPageIs
      <3>3. Within(x, p, Unit)
        BY <1>4, <2>2, <3>2 DEF Within
      <3>4. ~Within(x, page, Unit)
        BY <1>4, <1>5, <3>1, <3>2, <3>3 DEF Beside, Within
      <3>5. QED
        BY <2>1, <3>4
    <2>3. Within(x, page, SlabHead) \/ (addr + item <= x /\ x < page + Unit)
            <=> (Within(x, page, SlabHead) \/ (addr <= x /\ x < page + Unit)) /\ ~Within(x, addr, item)
      BY <1>4, <1>5, <1>9 DEF Within
    <2>4. ASSUME Spare(u, x) PROVE Spare(t, x) /\ ~Within(x, addr, item)
      <3>1. PICK p \in DOMAIN u.slabs : Within(x, p, SlabHead) \/ (Behind(u, p) <= x /\ x < p + Unit)
        BY <2>4 DEF Spare
      <3>2. p \in DOMAIN t.slabs
        BY <1>11, <1>12, <3>1
      <3>3. CASE p = page
        <4>1. Within(x, page, SlabHead) \/ (addr + item <= x /\ x < page + Unit)
          BY <1>13, <3>1, <3>3
        <4>2. Within(x, page, SlabHead) \/ (Behind(t, page) <= x /\ x < page + Unit)
          BY <2>3, <4>1 DEF addr
        <4>3. QED
          BY <1>3, <2>3, <4>1, <4>2 DEF Spare
      <3>4. CASE p # page
        <4>1. Within(x, p, SlabHead) \/ (Behind(t, p) <= x /\ x < p + Unit)
          BY <1>14, <3>1, <3>2, <3>4
        <4>2. QED
          BY <2>2, <3>2, <3>4, <4>1 DEF Spare
      <3>5. QED
        BY <3>3, <3>4
    <2>5. ASSUME Spare(t, x), ~Within(x, addr, item) PROVE Spare(u, x)
      <3>1. PICK p \in DOMAIN t.slabs : Within(x, p, SlabHead) \/ (Behind(t, p) <= x /\ x < p + Unit)
        BY <2>5 DEF Spare
      <3>2. p \in DOMAIN u.slabs
        BY <1>11, <1>12
      <3>3. CASE p = page
        <4>1. Within(x, page, SlabHead) \/ (addr <= x /\ x < page + Unit)
          BY <3>1, <3>3 DEF addr
        <4>2. Within(x, page, SlabHead) \/ (Behind(u, page) <= x /\ x < page + Unit)
          BY <1>13, <2>3, <2>5, <4>1
        <4>3. QED
          BY <3>2, <3>3, <4>2 DEF Spare
      <3>4. CASE p # page
        BY <1>14, <3>1, <3>2, <3>4 DEF Spare
      <3>5. QED
        BY <3>3, <3>4
    <2>6. QED
      BY <2>1, <2>4, <2>5
  <1>17. ASSUME NEW x \in Nat
         PROVE  Unheld(u, x) <=> (Unheld(t, x) \/ Fresh(t, u, x)) /\ ~Within(x, addr, item)
    <2>1. Listed(t.lists, x) => ~Spare(t, x)
      BY UnheldIs
    <2>2. QED
      BY <1>11, <1>15, <1>16, <2>1 DEF Unheld, Fresh
  <1>18. TableGood(u)
    <2>1. TableType(u)
      BY <1>2, <1>11, <1>12 DEF TableType
    <2>2. SlabsGood(u)
      <3>1. ASSUME NEW p \in DOMAIN u.slabs
            PROVE  /\ u.begin + TableHead <= p /\ p + Unit <= u.current
                   /\ SlabHead + u.slabs[p].item * u.slabs[p].use <= Unit
        <4>1. CASE p = page
          <5>1. u.slabs[p].item = item /\ u.slabs[p].use = slab.use + 1
            BY <1>6, <1>11, <1>12, <4>1
          <5>2. SlabHead + item * (slab.use + 1) <= Unit
            BY <1>4, <1>7
          <5>3. QED
            BY <1>5, <1>11, <4>1, <5>1, <5>2
        <4>2. CASE p # page
          BY <1>2, <1>11, <1>12, <4>2 DEF SlabsGood
        <4>3. QED
          BY <4>1, <4>2
      <3>2. \A p, q \in DOMAIN u.slabs : p # q => Beside(p, Unit, q, Unit)
        BY <1>2, <1>11, <1>12 DEF SlabsGood
      <3>3. ASSUME NEW k \in SlabLevels, u.node[k] # None
            PROVE  u.node[k] \in DOMAIN u.slabs /\ u.slabs[u.node[k]].item = ItemSizes[k]
        <4>1. t.node[k] \in DOMAIN t.slabs /\ t.slabs[t.node[k]].item = ItemSizes[k]
          BY <1>2, <1>11, <3>3 DEF SlabsGood
        <4>2. more.item = slab.item /\ slab = t.slabs[page]
          BY <1>3, <1>6 DEF slab
        <4>3. u.slabs[t.node[k]].item = t.slabs[t.node[k]].item
          BY <1>11, <1>12, <4>1, <4>2
        <4>4. QED
          BY <1>11, <1>12, <4>1, <4>3
      <3>4. QED
        BY <3>1, <3>2, <3>3 DEF SlabsGood
    <2>3. u.begin + TableHead <= u.current /\ u.current <= TableEnd(u)
      BY <1>11 DEF TableGood, TableEnd
    <2>4. QED
      BY <1>11, <1>15, <2>1, <2>2, <2>3, UnheldIs DEF TableGood
  <1>19. Gives(t, u, addr, item)
    <2>1. t.current <= u.current /\ ~(Unit <= item)
      BY <1>2, <1>4, <1>11
    <2>2. QED
      BY <1>11, <1>15, <1>16, <1>17, <1>18, <2>1 DEF Gives, Unheld
  <1>20. QED
    BY <1>5, <1>10, <1>11, <1>19

LEMMA FindLevelIs ==
    ASSUME NEW size \in Nat, divide_size(size) \notin {"small", "huge"}
    PROVE  /\ find_level(size) \in PageLevels /\ size <= PageSize[find_level(size)]
           /\ \A l \in PageLevels : size <= PageSize[l] => PageSize[find_level(size)] <= PageSize[l]
           /\ Unit \div 2 <= size
  <1>. DEFINE fit == {l \in PageLevels : PageSize[l] >= size}
  <1>1. /\ MaxLevels \in Nat /\ MaxLevels > 0 /\ MaxLevels - 1 \in PageLevels
        /\ MaxLevels - 1 \in 0..MaxLevels /\ fit \in SUBSET Nat
    BY Constants DEF PageLevels
  <1>2. size \in Unit \div 2..PageSize[MaxLevels - 1] - 1
    BY DEF divide_size
  <1>3. PageSize[MaxLevels - 1] \in Nat /\ Unit \in Nat /\ Unit \div 2 \in Nat
    BY <1>1, Doubles, Constants
  <1>4. MaxLevels - 1 \in fit
    BY <1>1, <1>2, <1>3
  <1>5. Min(fit) \in fit /\ \A l \in fit : Min(fit) <= l
    <2>. HIDE DEF fit
    <2>. QED
      BY <1>1, <1>4, LeastIs
  <1>6. find_level(size) = Min(fit)
    BY DEF find_level
  <1>. DEFINE level == find_level(size)
  <1>7. level \in PageLevels /\ PageSize[level] >= size /\ \A l \in fit : level <= l
    BY <1>5, <1>6
  <1>. HIDE DEF level
  <1>8. ASSUME NEW l \in PageLevels, size <= PageSize[l] PROVE PageSize[level] <= PageSize[l]
    <2>1. l \in 0..MaxLevels /\ level \in 0..MaxLevels /\ PageSize[l] \in Nat
      BY <1>1, <1>7, Doubles DEF PageLevels
    <2>2. level <= l
      BY <1>7, <1>8, <2>1
    <2>3. QED
      BY <2>1, <2>2, Grows
  <1>9. PageSize[level] \in Nat
    BY <1>1, <1>7, Doubles DEF PageLevels
  <1>10. QED
    BY <1>2, <1>3, <1>7, <1>8, <1>9 DEF level

LEMMA FindSlabLevelIs ==
    ASSUME NEW size \in Nat, divide_size(size) = "small"
    PROVE  /\ find_slab_level(size) \in SlabLevels /\ size <= ItemSizes[find_slab_level(size)]
           /\ size < Unit \div 2
  <1>. DEFINE fit == {l \in SlabLevels : ItemSizes[l] >= size}
  <1>1. Unit \in Nat /\ Unit \div 2 \in Int
    BY Constants
  <1>2. size < Unit \div 2
    BY DEF divide_size
  <1>3. PICK l \in SlabLevels : ItemSizes[l] >= Unit \div 2 - 1
    BY Shape DEF Shape
  <1>4. ItemSizes[l] \in Nat
    BY Constants
  <1>5. l \in fit
    BY <1>1, <1>2, <1>3, <1>4
  <1>6. fit \in SUBSET Nat
    BY Constants DEF SlabLevels
  <1>7. Min(fit) \in fit
    <2>. HIDE DEF fit
    <2>. QED
      BY <1>5, <1>6, LeastIs
  <1>8. find_slab_level(size) \in SlabLevels /\ ItemSizes[find_slab_level(size)] >= size
    BY <1>7 DEF find_slab_level
  <1>9. QED
    BY <1>2, <1>8, Constants

\* What a table answers: nothing, and keeps what it had, or a block that is large enough.
Outcome(t, got, size) ==
    /\ got = [addr |-> got.addr, span |-> got.span, table |-> got.table]
    /\ \/ got.addr = None /\ Gives(t, got.table, None, 0)
       \/ /\ got.addr \in Nat /\ got.span \in Nat /\ got.span > 0 /\ size <= got.span
          /\ \/ size < Unit \div 2 /\ \E l \in SlabLevels : got.span = ItemSizes[l]
             \/ \E l \in PageLevels : got.span = PageSize[l]
          /\ Gives(t, got.table, got.addr, got.span)

\* An item of the slab page of the level, or of a new one.
LEMMA AllocBlockIs ==
    ASSUME NEW t, NEW u, TableGood(t), Gives(t, u, None, 0), NEW size \in Nat,
           divide_size(size) = "small", NEW got, got = AllocBlock(u, find_slab_level(size))
    PROVE  Outcome(t, got, size) /\ got.table.valid = u.valid
  <1>. DEFINE l == find_slab_level(size)
  <1>1. l \in SlabLevels /\ size <= ItemSizes[l] /\ size < Unit \div 2 /\ got = AllocBlock(u, l)
    BY FindSlabLevelIs
  <1>. HIDE DEF l
  <1>2. ItemSizes[l] \in Nat /\ ItemSizes[l] > 0 /\ ItemSizes[l] < Unit /\ TableGood(u)
    BY <1>1, Constants DEF Gives
  <1>3. CASE got = Refusal(u)
    BY <1>3 DEF Outcome, Refusal
  <1>4. CASE got # Refusal(u)
    <2>1. /\ got.addr \in Nat /\ got.span = ItemSizes[l] /\ got.table.valid = u.valid
          /\ Gives(u, got.table, got.addr, got.span)
          /\ got = [addr |-> got.addr, span |-> got.span, table |-> got.table]
      BY <1>1, <1>2, <1>4, ItemIs
    <2>2. Gives(t, got.table, got.addr, got.span)
      BY <2>1, GivesLater
    <2>3. QED
      BY <1>1, <1>2, <2>1, <2>2 DEF Outcome
  <1>5. QED
    BY <1>3, <1>4

LEMMA ExtendFromPageMemIs ==
    ASSUME NEW t, NEW u, TableGood(t), Gives(t, u, None, 0), NEW size \in Nat,
           divide_size(size) = "small", NEW got, got = ExtendFromPageMem(u, find_slab_level(size))
    PROVE  Outcome(t, got, size) /\ got.table.valid = u.valid
  <1>. DEFINE l == find_slab_level(size)
              unit == GetUnitFromPageLevel(u.lists)
              page == unit.page
              after == unit.lists
              v == NewSlab(u, l, page, after)
  <1>1. TableGood(u) /\ u.lists \in Lists /\ ListsApart(u.lists)
    BY DEF Gives, TableGood, TableType
  <1>2. CASE page = None
    <2>1. got = Refusal(u)
      BY <1>2 DEF ExtendFromPageMem
    <2>2. QED
      BY <2>1 DEF Outcome, Refusal
  <1>3. CASE page # None
    <2>1. got = AllocBlock(v, l)
      BY <1>3 DEF ExtendFromPageMem, NewSlab
    <2>2. page \in Nat /\ Without(u.lists, page, Unit, after)
      <3>. HIDE DEF unit
      <3>1. unit = GetUnitFromPageLevel(u.lists)
        BY DEF unit
      <3>2. QED
        BY <1>1, <1>3, <3>1, UnitIs DEF Without
    <2>3. l \in SlabLevels
      BY FindSlabLevelIs
    <2>4. Gives(u, v, None, 0) /\ v.valid = u.valid
      <3>. HIDE DEF page, after, l
      <3>1. v = NewSlab(u, l, page, after)
        OBVIOUS
      <3>. HIDE DEF v
      <3>2. Gives(u, v, None, 0)
        BY <1>1, <2>2, <2>3, <3>1, AddSlab
      <3>3. v.valid = u.valid
        BY <1>1, <3>1 DEF NewSlab, TableGood, TableType, IsTable
      <3>4. QED
        BY <3>2, <3>3
    <2>. HIDE DEF v
    <2>5. Gives(t, v, None, 0)
      BY <2>4, GivesLater
    <2>6. QED
      BY <2>1, <2>4, <2>5, AllocBlockIs
  <1>4. QED
    BY <1>2, <1>3

LEMMA AllocBySlabIs ==
    ASSUME NEW t, TableGood(t), NEW size \in Nat, divide_size(size) = "small",
           NEW got, got = AllocBySlab(t, size)
    PROVE  Outcome(t, got, size) /\ got.table.valid = t.valid
  <1>. DEFINE l == find_slab_level(size)
              more == ExtendPageMem(t)
  <1>1. Gives(t, t, None, 0) /\ Gives(t, more.table, None, 0)
    BY GivesNothing, ExtendIs
  <1>2. more.table.valid = t.valid
    <2>. DEFINE n == Fitting(t)
    <2>1. more.table = [t EXCEPT !.lists = PushRow(@, t.current, n), !.current = @ + Row(n)]
      BY DEF ExtendPageMem
    <2>2. IsTable(t)
      BY DEF TableGood, TableType
    <2>. HIDE DEF more, n
    <2>3. QED
      BY <2>1, <2>2 DEF IsTable
  <1>3. got \in {AllocBlock(t, l), ExtendFromPageMem(t, l), ExtendFromPageMem(more.table, l),
                 Refusal(more.table)}
    BY DEF AllocBySlab
  <1>. HIDE DEF more
  <1>4. CASE got = AllocBlock(t, l)
    BY <1>1, <1>4, AllocBlockIs
  <1>5. CASE got = ExtendFromPageMem(t, l)
    BY <1>1, <1>5, ExtendFromPageMemIs
  <1>6. CASE got = ExtendFromPageMem(more.table, l)
    BY <1>1, <1>2, <1>6, ExtendFromPageMemIs
  <1>7. CASE got = Refusal(more.table)
    BY <1>1, <1>2, <1>7 DEF Outcome, Refusal
  <1>8. QED
    BY <1>3, <1>4, <1>5, <1>6, <1>7

LEMMA AllocByPageLevelIs ==
    ASSUME NEW t, TableGood(t), NEW size \in Nat, divide_size(size) \notin {"small", "huge"},
           NEW got \in AllocByPageLevel(t, size)
    PROVE  Outcome(t, got, size) /\ got.table.valid = t.valid
  <1>. DEFINE level == find_level(size)
              Page(took) == [addr |-> took.page, span |-> PageSize[level],
                             table |-> [t EXCEPT !.lists = took.lists]]
              take == TakePage(t.lists, level)
              high == SplitFromHighLevel(t.lists, level)
  <1>1. level \in PageLevels /\ size <= PageSize[level] /\ PageSize[level] \in Nat /\ PageSize[level] > 0
    <2>1. level \in PageLevels /\ size <= PageSize[level]
      BY FindLevelIs
    <2>. HIDE DEF level
    <2>2. level \in 0..MaxLevels
      BY <2>1, Constants DEF PageLevels
    <2>3. QED
      BY <2>1, <2>2, Doubles
  <1>2. t.lists \in Lists /\ ListsApart(t.lists) /\ IsTable(t)
    BY DEF TableGood, TableType
  <1>3. \/ t.lists[level] # <<>> /\ got = Page(take)
        \/ got = Refusal(t)
        \/ high.page # None /\ got = Page(high)
    BY DEF AllocByPageLevel
  <1>. HIDE DEF level
  <1>4. ASSUME NEW took, got = Page(took), took.page \in Nat,
               Without(t.lists, took.page, PageSize[level], took.lists)
        PROVE  Outcome(t, got, size) /\ got.table.valid = t.valid
    <2>1. Gives(t, [t EXCEPT !.lists = took.lists], took.page, PageSize[level])
      BY <1>1, <1>4, GivesPage
    <2>2. [t EXCEPT !.lists = took.lists].valid = t.valid
      BY <1>2 DEF IsTable
    <2>3. QED
      BY <1>1, <1>4, <2>1, <2>2 DEF Outcome
  <1>5. CASE t.lists[level] # <<>> /\ got = Page(take)
    <2>1. take = TakePage(t.lists, level)
      OBVIOUS
    <2>. HIDE DEF take
    <2>2. take.page \in Nat /\ Without(t.lists, take.page, PageSize[level], take.lists)
      BY <1>1, <1>2, <1>5, <2>1, TakePageIs DEF Without
    <2>3. QED
      BY <1>4, <1>5, <2>2
  <1>6. CASE got = Refusal(t)
    BY <1>6, GivesNothing DEF Outcome, Refusal
  <1>7. CASE high.page # None /\ got = Page(high)
    <2>1. high = SplitFromHighLevel(t.lists, level)
      OBVIOUS
    <2>. HIDE DEF high
    <2>2. high.page \in Nat /\ Without(t.lists, high.page, PageSize[level], high.lists)
      BY <1>1, <1>2, <1>7, <2>1, SplitIs DEF Without
    <2>3. QED
      BY <1>4, <1>7, <2>2
  <1>8. QED
    BY <1>3, <1>5, <1>6, <1>7

\* AllocData of a table: a refusal closes it.
LEMMA AllocDataIs ==
    ASSUME NEW t, TableGood(t), NEW size \in Nat, divide_size(size) # "huge",
           NEW got \in AllocData(t, size)
    PROVE  /\ Outcome(t, got, size)
           /\ got.table.valid = (t.valid /\ got.addr # None)
  <1>1. PICK g : /\ g \in IF divide_size(size) = "small" THEN {AllocBySlab(t, size)}
                          ELSE AllocByPageLevel(t, size)
                 /\ got = IF g.addr = None THEN [g EXCEPT !.table.valid = FALSE] ELSE g
    BY DEF AllocData
  <1>2. Outcome(t, g, size) /\ g.table.valid = t.valid
    <2>1. CASE divide_size(size) = "small"
      BY <1>1, <2>1, AllocBySlabIs
    <2>2. CASE divide_size(size) # "small"
      BY <1>1, <2>2, AllocByPageLevelIs
    <2>3. QED
      BY <2>1, <2>2
  <1>3. t.valid \in BOOLEAN
    BY DEF TableGood, TableType
  <1>4. CASE g.addr # None
    BY <1>1, <1>2, <1>3, <1>4
  <1>5. CASE g.addr = None
    <2>. DEFINE closed == [g.table EXCEPT !.valid = FALSE]
    <2>1. g = [addr |-> g.addr, span |-> g.span, table |-> g.table]
      BY <1>2 DEF Outcome
    <2>2. got = [g EXCEPT !.table.valid = FALSE]
      BY <1>1, <1>5
    <2>3. got = [g EXCEPT !.table = closed]
      BY <2>1, <2>2
    <2>4. Gives(t, g.table, None, 0)
      BY <1>2, <1>5 DEF Outcome, None
    <2>5. Gives(t, closed, None, 0)
      BY <2>4, GivesAlike
    <2>6. closed.valid = FALSE
      <3>1. IsTable(g.table)
        BY <2>4 DEF Gives, TableGood, TableType
      <3>2. QED
        BY <3>1 DEF IsTable
    <2>. HIDE DEF closed
    <2>7. /\ got.addr = None /\ got.table = closed
          /\ got = [addr |-> got.addr, span |-> got.span, table |-> got.table]
      BY <1>5, <2>1, <2>3
    <2>8. QED
      BY <2>5, <2>6, <2>7 DEF Outcome
  <1>6. QED
    BY <1>4, <1>5

\* PageMemTable::Init: a table that is good, and all it has cut off is on its lists.
LEMMA NewTableIs ==
    ASSUME NEW b \in Nat, NEW t, t = NewTable(b)
    PROVE  /\ TableGood(t) /\ t.begin = b /\ t.next = None /\ t.valid = TRUE
           /\ \A x \in Nat : Taken(t, x) <=> Unheld(t, x)
           /\ \A x : ~Slabbed(t, x)
  <1>. DEFINE none == [l \in PageLevels |-> <<>>]
              base == b + TableHead
              lists == PushRow(none, base, MaxLevels)
  <1>1. /\ t.begin = b /\ t.current = base + Row(MaxLevels) /\ t.next = None /\ t.valid = TRUE
        /\ t.lists = lists /\ t.node = [l \in SlabLevels |-> None] /\ t.slabs = <<>> /\ IsTable(t)
    <2>1. t = [begin |-> b, current |-> base + Row(MaxLevels), next |-> None, valid |-> TRUE,
               lists |-> lists, node |-> [l \in SlabLevels |-> None], slabs |-> <<>>]
      BY DEF NewTable
    <2>. HIDE DEF lists
    <2>2. QED
      BY <2>1 DEF IsTable
  <1>2. none \in Lists
    <2>1. <<>> \in Seq(Nat)
      OBVIOUS
    <2>2. QED
      BY <2>1 DEF Lists
  <1>3. \A l \in PageLevels : DOMAIN none[l] = {}
    OBVIOUS
  <1>. HIDE DEF none
  <1>4. ListsApart(none) /\ \A x : ~Listed(none, x)
    BY <1>3 DEF ListsApart, Listed
  <1>5. base \in Nat /\ MaxLevels \in 0..MaxLevels
    BY Constants
  <1>6. /\ lists \in Lists /\ ListsApart(lists) /\ Row(MaxLevels) \in Nat
        /\ \A x \in Nat : Listed(lists, x) <=> Within(x, base, Row(MaxLevels))
    BY <1>2, <1>4, <1>5, PushRowIs
  <1>7. TableHead + Row(MaxLevels) <= TableSize
    BY Shape DEF Shape
  <1>8. DOMAIN t.slabs = {}
    BY <1>1
  <1>. HIDE DEF lists
  <1>9. \A x : ~Slabbed(t, x) /\ ~Spare(t, x)
    BY <1>8 DEF Slabbed, Spare
  <1>10. \A x \in Nat : Taken(t, x) <=> Listed(t.lists, x)
    BY <1>1, <1>5, <1>6, Constants DEF Taken, Within
  <1>11. TableGood(t)
    <2>1. TableType(t)
      <3>1. t.node \in [SlabLevels -> Address] /\ None \in Address
        BY <1>1 DEF Address
      <3>2. t.slabs \in [DOMAIN t.slabs -> [item : Nat, use : Nat]] /\ DOMAIN t.slabs \subseteq Nat
        BY <1>1, <1>8
      <3>3. t.begin \in Nat /\ t.current \in Nat /\ t.valid \in BOOLEAN
        <4>1. t.begin \in Nat
          BY <1>1
        <4>2. t.current \in Nat
          <5>. DEFINE row == Row(MaxLevels)
          <5>1. t.current = base + row /\ row \in Nat /\ base \in Nat
            BY <1>1, <1>5, <1>6
          <5>. HIDE DEF row, base
          <5>2. QED
            BY <5>1
        <4>3. t.valid \in BOOLEAN
          BY <1>1
        <4>4. QED
          BY <4>1, <4>2, <4>3
      <3>4. QED
        BY <1>1, <1>6, <3>1, <3>2, <3>3 DEF TableType
    <2>2. SlabsGood(t)
      <3>1. \A l \in SlabLevels : t.node[l] = None
        BY <1>1
      <3>2. QED
        BY <1>8, <3>1 DEF SlabsGood
    <2>3. t.begin + TableHead <= t.current /\ t.current <= TableEnd(t)
      BY <1>1, <1>5, <1>6, <1>7, Constants DEF TableEnd
    <2>4. QED
      BY <1>1, <1>6, <1>9, <1>10, <2>1, <2>2, <2>3 DEF TableGood
  <1>12. QED
    BY <1>1, <1>9, <1>10, <1>11 DEF Unheld

\* A new table serves every request for a page or an item.
LEMMA NewTableServes ==
    ASSUME NEW b \in Nat, NEW size \in Nat, divide_size(size) # "huge",
           NEW got \in AllocData(NewTable(b), size)
    PROVE  got.addr # None
  <1>. DEFINE t == NewTable(b)
              none == [l \in PageLevels |-> <<>>]
              base == b + TableHead
  <1>1. t.lists = PushRow(none, base, MaxLevels)
    BY DEF NewTable
  <1>2. TableGood(t) /\ t.lists \in Lists /\ ListsApart(t.lists)
    BY NewTableIs DEF TableGood, TableType
  <1>3. \A l \in SlabLevels : t.node[l] = None
    BY DEF NewTable
  <1>4. \A l \in PageLevels : t.lists[l] # <<>>
    <2>. SUFFICES ASSUME NEW l \in PageLevels PROVE t.lists[l] # <<>>
      OBVIOUS
    <2>1. l < MaxLevels /\ none[l] = <<>>
      BY Constants DEF PageLevels
    <2>2. t.lists[l] = <<base + Row(l)>> \o <<>>
      BY <1>1, <2>1 DEF PushRow
    <2>3. base + Row(l) \in Int
      BY Constants, <1>2, PageFacts DEF Row
    <2>. DEFINE a == base + Row(l)
    <2>. HIDE DEF a
    <2>4. Len(<<a>> \o <<>>) = 1
      BY <2>3 DEF a
    <2>5. QED
      BY <2>2, <2>4 DEF a
  <1>. HIDE DEF t, none
  <1>5. PICK g : /\ g \in IF divide_size(size) = "small" THEN {AllocBySlab(t, size)}
                          ELSE AllocByPageLevel(t, size)
                 /\ got = IF g.addr = None THEN [g EXCEPT !.table.valid = FALSE] ELSE g
    BY DEF AllocData, t
  <1>6. CASE divide_size(size) = "small"
    <2>. DEFINE l == find_slab_level(size)
                unit == GetUnitFromPageLevel(t.lists)
                page == unit.page
                u == NewSlab(t, l, page, unit.lists)
                fresh == ExtendFromPageMem(t, l)
    <2>1. l \in SlabLevels
      BY <1>6, FindSlabLevelIs
    <2>2. AllocBlock(t, l).addr = None
      BY <1>3, <2>1 DEF AllocBlock, Refusal
    <2>3. page \in Nat /\ Without(t.lists, page, Unit, unit.lists)
      <3>1. 0 \in PageLevels /\ PageSize[0] = Unit
        BY Constants, Doubles DEF PageLevels
      <3>2. unit = TakePage(t.lists, 0)
        BY <1>4, <3>1 DEF GetUnitFromPageLevel
      <3>. HIDE DEF unit
      <3>3. QED
        BY <1>2, <1>4, <3>1, <3>2, TakePageIs DEF Without
    <2>4. fresh = AllocBlock(u, l)
      BY <2>3 DEF ExtendFromPageMem, NewSlab, None
    <2>5. u.node[l] = page /\ u.slabs[page] = [item |-> ItemSizes[l], use |-> 0]
      <3>. DEFINE after == unit.lists
      <3>1. u = NewSlab(t, l, page, after)
        OBVIOUS
      <3>. HIDE DEF u, page, after, l
      <3>2. QED
        BY <1>2, <2>1, <2>3, <3>1, AddSlab DEF after
    <2>. HIDE DEF l, u, page
    <2>6. /\ Unit \in Nat /\ SlabHead \in Nat /\ ItemSizes[l] \in Nat /\ ItemSizes[l] > 0
          /\ SlabHead + ItemSizes[l] <= Unit
      BY <2>1, Constants
    <2>7. 0 < (Unit - SlabHead) \div ItemSizes[l]
      <3>. DEFINE a == Unit - SlabHead
                  item == ItemSizes[l]
      <3>1. a \in Nat /\ item \in Nat /\ item > 0 /\ item <= a
        BY <2>6
      <3>. HIDE DEF a, item
      <3>2. 0 < a \div item
        BY <3>1
      <3>3. QED
        BY <3>2 DEF a, item
    <2>8. fresh.addr = page + SlabHead + ItemSizes[l] * 0
      BY <2>3, <2>4, <2>5, <2>7 DEF AllocBlock, None
    <2>9. fresh.addr # None
      BY <2>3, <2>6, <2>8 DEF None
    <2>10. g = fresh
      BY <1>5, <1>6, <2>2, <2>9 DEF AllocBySlab, l
    <2>11. QED
      BY <1>5, <2>9, <2>10
  <1>7. CASE divide_size(size) # "small"
    <2>. DEFINE level == find_level(size)
                took == TakePage(t.lists, level)
    <2>1. level \in PageLevels
      BY <1>7, FindLevelIs
    <2>2. g.addr = took.page
      BY <1>4, <1>5, <1>7, <2>1 DEF AllocByPageLevel
    <2>3. took.page \in Nat
      <3>1. took = TakePage(t.lists, level)
        OBVIOUS
      <3>. HIDE DEF took, level
      <3>2. QED
        BY <1>2, <1>4, <2>1, <3>1, TakePageIs
    <2>4. QED
      BY <1>5, <2>2, <2>3 DEF None
  <1>8. QED
    BY <1>6, <1>7

-----------------------------------------------------------------------------
(* What becomes of the file: constant facts about u, T, S, H and C *)

\* What is cut off is in its table or section, and no address is in two of them.
LEMMA Places ==
    ASSUME NEW u, NEW T, NEW S, Areas(u, T, S), NEW x \in Nat
    PROVE  /\ \A c \in DOMAIN T : Taken(T[c], x) => InTable(c, x)
           /\ \A s \in DOMAIN S : Carved(S, s, x) => InSection(s, x)
           /\ \A c, d \in DOMAIN T : InTable(c, x) /\ InTable(d, x) => c = d
           /\ \A s, r \in DOMAIN S : InSection(s, x) /\ InSection(r, x) => s = r
           /\ \A c \in DOMAIN T, s \in DOMAIN S : InTable(c, x) => ~InSection(s, x)
           /\ \A c \in DOMAIN T : InTable(c, x) => x < u /\ HeapHead <= x
           /\ \A s \in DOMAIN S : InSection(s, x) => x < u /\ HeapHead <= x
  <1>1. DOMAIN T \subseteq Nat /\ DOMAIN S \subseteq Nat /\ u \in Nat
    BY DEF Areas
  <1>2. ASSUME NEW c \in DOMAIN T, Taken(T[c], x) PROVE InTable(c, x)
    <2>1. /\ T[c].begin = c /\ T[c].current <= TableEnd(T[c]) /\ T[c].current \in Nat /\ c \in Nat
      BY <1>1 DEF Areas, TableGood, TableType
    <2>2. QED
      BY <1>2, <2>1, Constants DEF Taken, InTable, Within, TableEnd
  <1>3. ASSUME NEW s \in DOMAIN S, Carved(S, s, x) PROVE InSection(s, x)
    <2>1. s \in Nat /\ S[s].current <= s + SectionSize /\ S[s] \in [current : Nat, next : Address]
      BY <1>1 DEF Areas
    <2>2. S[s].current \in Nat
      BY <2>1
    <2>3. QED
      BY <1>3, <2>1, <2>2, Constants DEF Carved, InSection, Within
  <1>4. ASSUME NEW c \in DOMAIN T, NEW d \in DOMAIN T, InTable(c, x), InTable(d, x), c # d PROVE FALSE
    <2>1. Beside(c, TableSize, d, TableSize) /\ c \in Nat /\ d \in Nat
      BY <1>1, <1>4 DEF Areas
    <2>2. QED
      BY <1>4, <2>1, Constants DEF Beside, InTable, Within
  <1>5. ASSUME NEW c \in DOMAIN S, NEW d \in DOMAIN S, InSection(c, x), InSection(d, x), c # d PROVE FALSE
    <2>1. Beside(c, SectionSize, d, SectionSize) /\ c \in Nat /\ d \in Nat
      BY <1>1, <1>5 DEF Areas
    <2>2. QED
      BY <1>5, <2>1, Constants DEF Beside, InSection, Within
  <1>6. ASSUME NEW c \in DOMAIN T, NEW d \in DOMAIN S, InTable(c, x), InSection(d, x) PROVE FALSE
    <2>1. Beside(c, TableSize, d, SectionSize) /\ c \in Nat /\ d \in Nat
      BY <1>1 DEF Areas
    <2>2. QED
      BY <1>6, <2>1, Constants DEF Beside, InTable, InSection, Within
  <1>7. ASSUME NEW c \in DOMAIN T, InTable(c, x) PROVE x < u /\ HeapHead <= x
    <2>1. c \in Nat /\ HeapHead <= c /\ c + TableSize <= u
      BY <1>1 DEF Areas
    <2>2. QED
      BY <1>1, <1>7, <2>1, Constants DEF InTable, Within
  <1>8. ASSUME NEW s \in DOMAIN S, InSection(s, x) PROVE x < u /\ HeapHead <= x
    <2>1. s \in Nat /\ HeapHead <= s /\ s + SectionSize <= u
      BY <1>1 DEF Areas
    <2>2. QED
      BY <1>1, <1>8, <2>1, Constants DEF InSection, Within
  <1>9. QED
    BY <1>2, <1>3, <1>4, <1>5, <1>6, <1>7, <1>8

LEMMA BlockIs ==
    ASSUME NEW b \in BlockType
    PROVE  b.addr \in Nat /\ b.span \in Nat /\ b.span > 0 /\ b.size \in Nat /\ InBlock(b, b.addr)
  <1>1. b.addr \in Nat /\ b.span \in Nat \ {0} /\ b.size \in Nat
    BY DEF BlockType
  <1>2. QED
    BY <1>1 DEF InBlock, Within

\* What a caller has or had is cut off somewhere.
LEMMA GoneIs ==
    ASSUME NEW T, NEW S, NEW H, NEW C, Held(T, S, H, C), NEW x \in Nat, Gone(H, C, x)
    PROVE  (\E c \in DOMAIN T : Taken(T[c], x)) \/ (\E s \in DOMAIN S : Carved(S, s, x))
  <1>1. CASE x \in C
    BY <1>1 DEF Held
  <1>2. CASE x \notin C
    <2>1. PICK b \in H : InBlock(b, x)
      BY <1>2 DEF Gone
    <2>2. FromTable(b, T) \/ FromSection(b, S)
      BY DEF Held
    <2>3. QED
      BY <2>1, <2>2 DEF FromTable, FromSection
  <1>3. QED
    BY <1>1, <1>2

\* An address that a table has not cut off yet is not gone.
LEMMA FreshIs ==
    ASSUME NEW u, NEW T, NEW S, NEW H, NEW C, Whole(u, T, S, H, C), NEW c \in DOMAIN T,
           NEW x \in Nat, InTable(c, x), ~Taken(T[c], x)
    PROVE  ~Gone(H, C, x)
  <1>1. Areas(u, T, S) /\ Held(T, S, H, C)
    BY DEF Whole
  <1>2. \A d \in DOMAIN T : ~Taken(T[d], x)
    BY <1>1, Places
  <1>3. \A s \in DOMAIN S : ~Carved(S, s, x)
    BY <1>1, Places
  <1>4. QED
    BY <1>1, <1>2, <1>3, GoneIs

\* The blocks of `more` are given out, at addresses that no other block has.
Given(u, T, S, H, C, more) ==
    Whole(u, T, S, H \cup more, C) /\ \A b \in more, d \in H : d.addr # b.addr

\* A table of the file is changed by an operation that gives a block out, or none: more is
\* the set of that block, or empty.
LEMMA GiveKeepsWhole ==
    ASSUME NEW u, NEW T, NEW S, NEW H, NEW C, Whole(u, T, S, H, C),
           NEW c \in DOMAIN T, NEW v, NEW a, NEW n, Gives(T[c], v, a, n),
           NEW more, more \subseteq BlockType,
           \A b \in more : /\ b.addr = a /\ b.span = n /\ b.size + Header <= b.span
                           /\ IsItem(b) \/ IsPage(b),
           \A b, d \in more : b = d,
           \A x \in Nat : Within(x, a, n) => \E b \in more : InBlock(b, x),
           NEW T2, T2 = Put(T, c, v)
    PROVE  Given(u, T2, S, H, C, more)
  <1>. DEFINE t == T[c]
              G == H \cup more
  <1>1. Areas(u, T, S) /\ Held(T, S, H, C) /\ Shared(T, S, H, C)
    BY DEF Whole
  <1>2. /\ DOMAIN T2 = DOMAIN T /\ T2 = [b \in DOMAIN T2 |-> T2[b]]
        /\ T2[c] = v /\ \A d \in DOMAIN T : d # c => T2[d] = T[d]
    BY DEF Put
  <1>3. /\ TableGood(t) /\ TableGood(v) /\ t.begin = c /\ v.begin = c /\ t.current <= v.current
        /\ c \in Nat /\ t.current \in Nat /\ v.current \in Nat
        /\ \A x \in Nat : Within(x, a, n) => Unheld(t, x) \/ Fresh(t, v, x)
        /\ \A x \in Nat : Unheld(v, x) <=> (Unheld(t, x) \/ Fresh(t, v, x)) /\ ~Within(x, a, n)
        /\ \A x \in Nat : Slabbed(v, x) => Slabbed(t, x) \/ Unheld(t, x) \/ ~Taken(t, x)
        /\ Unit <= n => \A x \in Nat : Within(x, a, n) => ~Slabbed(v, x)
    <2>1. TableGood(t) /\ t.begin = c /\ c \in Nat
      BY <1>1 DEF Areas
    <2>2. TableGood(v) /\ v.begin = c /\ t.current <= v.current
      BY <2>1 DEF Gives
    <2>3. t.current \in Nat /\ v.current \in Nat
      BY <2>1, <2>2 DEF TableGood, TableType
    <2>4. QED
      BY <2>1, <2>2, <2>3 DEF Gives
  <1>4. Areas(u, T2, S)
    BY <1>1, <1>2, <1>3 DEF Areas
  <1>. HIDE DEF t
  <1>5. \A x \in Nat : Taken(t, x) => Taken(v, x)
    BY <1>3, Constants DEF Taken
  <1>6. \A x \in Nat : Unheld(t, x) => Taken(t, x)
    BY <1>3, UnheldIs
  <1>7. \A x \in Nat : Fresh(t, v, x) => ~Gone(H, C, x)
    <2>1. \A x \in Nat : Taken(v, x) => InTable(c, x)
      BY <1>2, <1>4, Places
    <2>2. QED
      BY <2>1, FreshIs DEF Fresh, t
  <1>8. \A x \in Nat : Within(x, a, n) => Taken(v, x) /\ ~Gone(H, C, x)
    <2>1. \A x \in Nat : Unheld(t, x) => ~Gone(H, C, x)
      BY <1>1 DEF Shared, t
    <2>2. QED
      BY <1>3, <1>5, <1>6, <1>7, <2>1 DEF Fresh
  <1>9. \A b \in more : \A x \in Nat : InBlock(b, x) <=> Within(x, a, n)
    BY DEF InBlock
  <1>10. \A x \in Nat : Gone(G, C, x) <=> Gone(H, C, x) \/ Within(x, a, n)
    BY <1>9 DEF Gone
  <1>11. \A d \in DOMAIN T : \A x \in Nat : Taken(T[d], x) => Taken(T2[d], x)
    BY <1>2, <1>5 DEF t
  <1>12. Held(T2, S, G, C)
    <2>1. ASSUME NEW b \in G
          PROVE  b \in BlockType /\ b.size + Header <= b.span /\ (FromTable(b, T2) \/ FromSection(b, S))
      <3>1. CASE b \in H
        <4>1. b \in BlockType /\ b.size + Header <= b.span /\ (FromTable(b, T) \/ FromSection(b, S))
          BY <1>1, <3>1 DEF Held
        <4>2. FromTable(b, T) => FromTable(b, T2)
          BY <1>2, <1>11 DEF FromTable
        <4>3. QED
          BY <4>1, <4>2
      <3>2. CASE b \in more
        <4>1. FromTable(b, T2)
          BY <1>2, <1>8, <1>9, <3>2 DEF FromTable
        <4>2. QED
          BY <3>2, <4>1
      <3>3. QED
        BY <3>1, <3>2
    <2>2. ASSUME NEW b \in more, NEW d \in H PROVE Beside(b.addr, b.span, d.addr, d.span)
      <3>1. d \in BlockType /\ b \in BlockType
        BY <1>1 DEF Held
      <3>2. /\ b.addr \in Nat /\ b.span \in Nat /\ b.span > 0
            /\ d.addr \in Nat /\ d.span \in Nat /\ d.span > 0
        BY <3>1, BlockIs
      <3>3. \A x \in Nat : InBlock(b, x) => ~InBlock(d, x)
        BY <1>8, <1>9 DEF Gone
      <3>4. QED
        BY <3>2, <3>3, BesideIs DEF InBlock
    <2>3. ASSUME NEW b \in G, NEW d \in G, b # d PROVE Beside(b.addr, b.span, d.addr, d.span)
      <3>1. CASE b \in H /\ d \in H
        BY <1>1, <2>3, <3>1 DEF Held
      <3>2. CASE b \in more /\ d \in H
        BY <2>2, <3>2
      <3>3. CASE b \in H /\ d \in more
        BY <2>2, <3>3 DEF Beside
      <3>4. QED
        BY <2>3, <3>1, <3>2, <3>3
    <2>4. ASSUME NEW x \in C, NEW b \in G PROVE ~InBlock(b, x)
      <3>1. CASE b \in H
        BY <1>1, <3>1 DEF Held
      <3>2. CASE b \in more
        <4>1. x \in Nat /\ Gone(H, C, x)
          BY <1>1 DEF Held, Gone
        <4>2. QED
          BY <1>8, <1>9, <3>2, <4>1
      <3>3. QED
        BY <3>1, <3>2
    <2>5. C \subseteq Nat /\ \A x \in C : \/ \E d \in DOMAIN T2 : Taken(T2[d], x)
                                          \/ \E s \in DOMAIN S : Carved(S, s, x)
      BY <1>1, <1>2, <1>11 DEF Held
    <2>6. QED
      BY <2>1, <2>3, <2>4, <2>5 DEF Held
  <1>. HIDE DEF G
  <1>13. \A d \in DOMAIN T : d # c => \A x \in Nat : Taken(T[d], x) => ~Within(x, a, n)
    <2>. SUFFICES ASSUME NEW d \in DOMAIN T, d # c, NEW x \in Nat, Taken(T[d], x), Within(x, a, n)
                  PROVE  FALSE
      OBVIOUS
    <2>1. Taken(T2[c], x) /\ Taken(T2[d], x) /\ c \in DOMAIN T2 /\ d \in DOMAIN T2
      BY <1>2, <1>8
    <2>2. QED
      BY <1>4, <2>1, Places
  <1>14. Shared(T2, S, G, C)
    <2>1. ASSUME NEW d \in DOMAIN T2, NEW x \in Nat, Unheld(T2[d], x) PROVE ~Gone(G, C, x)
      <3>1. CASE d = c
        <4>1. (Unheld(t, x) \/ Fresh(t, v, x)) /\ ~Within(x, a, n)
          BY <1>2, <1>3, <2>1, <3>1
        <4>2. Unheld(t, x) => ~Gone(H, C, x)
          BY <1>1 DEF Shared, t
        <4>3. QED
          BY <1>7, <1>10, <4>1, <4>2
      <3>2. CASE d # c
        <4>1. Unheld(T[d], x) /\ d \in DOMAIN T
          BY <1>2, <2>1, <3>2
        <4>2. ~Gone(H, C, x) /\ Taken(T[d], x)
          <5>1. TableGood(T[d])
            BY <1>1, <4>1 DEF Areas
          <5>2. Taken(T[d], x)
            BY <4>1, <5>1, UnheldIs
          <5>3. QED
            BY <1>1, <4>1, <5>2 DEF Shared
        <4>3. QED
          BY <1>10, <1>13, <3>2, <4>1, <4>2
      <3>3. QED
        BY <3>1, <3>2
    <2>2. ASSUME NEW d \in DOMAIN T2, NEW x \in Nat, Taken(T2[d], x)
          PROVE  Unheld(T2[d], x) \/ Gone(G, C, x)
      <3>1. CASE d = c
        <4>1. Taken(t, x) => Unheld(t, x) \/ Gone(H, C, x)
          BY <1>1 DEF Shared, t
        <4>2. Taken(t, x) \/ Fresh(t, v, x)
          BY <1>2, <2>2, <3>1 DEF Fresh
        <4>3. QED
          BY <1>2, <1>3, <1>10, <3>1, <4>1, <4>2
      <3>2. CASE d # c
        BY <1>1, <1>2, <1>10, <2>2, <3>2 DEF Shared
      <3>3. QED
        BY <3>1, <3>2
    <2>3. \A s \in DOMAIN S : \A x \in Nat : Carved(S, s, x) => Gone(G, C, x)
      BY <1>1, <1>10 DEF Shared
    <2>4. ASSUME NEW d \in DOMAIN T2, NEW b \in G, NEW x \in Nat, Unit <= b.span, InBlock(b, x),
                 Slabbed(T2[d], x)
          PROVE  FALSE
      <3>1. CASE d = c /\ b \in H
        <4>1. Slabbed(t, x) \/ Unheld(t, x) \/ ~Taken(t, x)
          BY <1>2, <1>3, <2>4, <3>1
        <4>2. ~Slabbed(t, x)
          BY <1>1, <2>4, <3>1 DEF Shared, t
        <4>3. Gone(H, C, x)
          BY <2>4, <3>1 DEF Gone
        <4>4. ~Unheld(t, x)
          BY <1>1, <4>3 DEF Shared, t
        <4>5. Taken(v, x)
          BY <1>2, <1>3, <2>4, <3>1, UnheldIs
        <4>6. QED
          BY <1>7, <4>1, <4>2, <4>3, <4>4, <4>5 DEF Fresh
      <3>2. CASE d = c /\ b \in more
        BY <1>2, <1>3, <1>9, <2>4, <3>2
      <3>3. CASE d # c /\ b \in H
        BY <1>1, <1>2, <2>4, <3>3 DEF Shared
      <3>4. CASE d # c /\ b \in more
        <4>1. TableGood(T[d]) /\ d \in DOMAIN T /\ T2[d] = T[d]
          BY <1>1, <1>2, <3>4 DEF Areas
        <4>2. Taken(T[d], x)
          BY <2>4, <4>1, UnheldIs
        <4>3. QED
          BY <1>9, <1>13, <2>4, <3>4, <4>1, <4>2
      <3>5. QED
        BY <3>1, <3>2, <3>3, <3>4 DEF G
    <2>5. QED
      BY <2>1, <2>2, <2>3, <2>4 DEF Shared
  <1>15. ASSUME NEW b \in more, NEW d \in H, d.addr = b.addr PROVE FALSE
    <2>1. b \in BlockType /\ InBlock(b, b.addr) /\ b.addr \in Nat
      BY BlockIs
    <2>2. d \in BlockType /\ InBlock(d, d.addr)
      BY <1>1, BlockIs DEF Held
    <2>3. Within(b.addr, a, n)
      BY <1>9, <2>1
    <2>4. QED
      BY <1>8, <1>15, <2>1, <2>2, <2>3 DEF Gone
  <1>16. QED
    BY <1>4, <1>12, <1>14, <1>15 DEF Whole, Given, G

\* A new table behind all there is.
LEMMA AddTableKeepsWhole ==
    ASSUME NEW u, NEW T, NEW S, NEW H, NEW C, Whole(u, T, S, H, C),
           NEW v \in Nat, u <= v, HeapHead <= v, NEW w \in Nat, v + TableSize <= w,
           NEW T2, T2 = Put(T, v, NewTable(v))
    PROVE  Whole(w, T2, S, H, C) /\ v \notin DOMAIN T
  <1>. DEFINE t == NewTable(v)
  <1>1. Areas(u, T, S) /\ Held(T, S, H, C) /\ Shared(T, S, H, C)
    BY DEF Whole
  <1>2. /\ TableGood(t) /\ t.begin = v
        /\ \A x \in Nat : Taken(t, x) <=> Unheld(t, x)
        /\ \A x : ~Slabbed(t, x)
    BY NewTableIs
  <1>. HIDE DEF t
  <1>3. /\ u \in Nat /\ \A b \in DOMAIN T : b \in Nat /\ b + TableSize <= u
        /\ \A s \in DOMAIN S : s \in Nat /\ s + SectionSize <= u
    BY <1>1 DEF Areas
  <1>4. v \notin DOMAIN T
    BY <1>3, Constants
  <1>5. /\ DOMAIN T2 = {v} \cup DOMAIN T /\ T2 = [b \in DOMAIN T2 |-> T2[b]]
        /\ T2[v] = t /\ \A d \in DOMAIN T : T2[d] = T[d]
    BY <1>4 DEF Put, t
  <1>6. \A b \in DOMAIN T : Beside(b, TableSize, v, TableSize) /\ Beside(v, TableSize, b, TableSize)
    BY <1>3, Constants DEF Beside
  <1>7. \A s \in DOMAIN S : Beside(v, TableSize, s, SectionSize)
    BY <1>3, Constants DEF Beside
  <1>8. Areas(w, T2, S)
    <2>1. w \in Nat /\ (w = 0 \/ HeapHead <= w) /\ v + TableSize <= w
      BY Constants
    <2>2. DOMAIN T2 \subseteq Nat
      BY <1>3, <1>5
    <2>3. \A b \in DOMAIN T2 : /\ TableGood(T2[b]) /\ T2[b].begin = b
                               /\ HeapHead <= b /\ b + TableSize <= w
      <3>. SUFFICES ASSUME NEW b \in DOMAIN T2
                    PROVE  /\ TableGood(T2[b]) /\ T2[b].begin = b
                           /\ HeapHead <= b /\ b + TableSize <= w
        OBVIOUS
      <3>1. CASE b = v
        BY <1>2, <1>5, <3>1
      <3>2. CASE b \in DOMAIN T
        <4>1. T2[b] = T[b] /\ TableGood(T[b]) /\ T[b].begin = b /\ HeapHead <= b /\ b + TableSize <= u
          BY <1>1, <1>5, <3>2 DEF Areas
        <4>2. b + TableSize <= w
          BY <1>3, <3>2, <4>1, Constants
        <4>3. QED
          BY <4>1, <4>2
      <3>3. QED
        BY <1>5, <3>1, <3>2
    <2>4. \A s \in DOMAIN S : s + SectionSize <= w
      BY <1>3, Constants
    <2>5. \A b, c \in DOMAIN T2 : b # c => Beside(b, TableSize, c, TableSize)
      BY <1>1, <1>5, <1>6 DEF Areas
    <2>6. \A b \in DOMAIN T2, s \in DOMAIN S : Beside(b, TableSize, s, SectionSize)
      BY <1>1, <1>5, <1>7 DEF Areas
    <2>7. QED
      BY <1>1, <1>5, <2>1, <2>2, <2>3, <2>4, <2>5, <2>6 DEF Areas
  <1>9. \A x \in Nat : Taken(t, x) => ~Gone(H, C, x)
    <2>. SUFFICES ASSUME NEW x \in Nat, Taken(t, x), Gone(H, C, x) PROVE FALSE
      OBVIOUS
    <2>1. x < u
      BY <1>1, GoneIs, Places
    <2>2. v <= x
      BY <1>2, Constants DEF Taken
    <2>3. QED
      BY <1>3, <2>1, <2>2
  <1>10. Held(T2, S, H, C)
    <2>1. \A b \in H : FromTable(b, T) => FromTable(b, T2)
      BY <1>5 DEF FromTable
    <2>2. \A x \in C : (\E c \in DOMAIN T : Taken(T[c], x)) => \E c \in DOMAIN T2 : Taken(T2[c], x)
      BY <1>5
    <2>3. QED
      BY <1>1, <2>1, <2>2 DEF Held
  <1>11. Shared(T2, S, H, C)
    <2>1. ASSUME NEW c \in DOMAIN T2, NEW x \in Nat
          PROVE  /\ Unheld(T2[c], x) => ~Gone(H, C, x)
                 /\ Taken(T2[c], x) => Unheld(T2[c], x) \/ Gone(H, C, x)
      <3>1. CASE c = v
        BY <1>2, <1>5, <1>9, <3>1
      <3>2. CASE c \in DOMAIN T
        BY <1>1, <1>5, <3>2 DEF Shared
      <3>3. QED
        BY <1>5, <3>1, <3>2
    <2>2. ASSUME NEW c \in DOMAIN T2, NEW b \in H, NEW x \in Nat, Unit <= b.span, InBlock(b, x)
          PROVE  ~Slabbed(T2[c], x)
      <3>1. CASE c = v
        BY <1>2, <1>5, <3>1
      <3>2. CASE c \in DOMAIN T
        BY <1>1, <1>5, <2>2, <3>2 DEF Shared
      <3>3. QED
        BY <1>5, <3>1, <3>2
    <2>3. QED
      BY <1>1, <2>1, <2>2 DEF Shared
  <1>12. QED
    BY <1>4, <1>8, <1>10, <1>11 DEF Whole

\* A new section behind all there is.
LEMMA AddSectionKeepsWhole ==
    ASSUME NEW u, NEW T, NEW S, NEW H, NEW C, Whole(u, T, S, H, C),
           NEW v \in Nat, u <= v, HeapHead <= v, NEW w \in Nat, v + SectionSize <= w,
           NEW S2, S2 = Put(S, v, NewSection(v))
    PROVE  Whole(w, T, S2, H, C) /\ v \notin DOMAIN S
  <1>. DEFINE sec == NewSection(v)
  <1>1. Areas(u, T, S) /\ Held(T, S, H, C) /\ Shared(T, S, H, C)
    BY DEF Whole
  <1>2. /\ sec \in [current : Nat, next : Address] /\ sec.current = v + SectionHead
        /\ sec.current <= v + SectionSize
    BY Constants DEF NewSection, Address
  <1>. HIDE DEF sec
  <1>3. /\ u \in Nat /\ \A b \in DOMAIN T : b \in Nat /\ b + TableSize <= u
        /\ \A s \in DOMAIN S : s \in Nat /\ s + SectionSize <= u
    BY <1>1 DEF Areas
  <1>4. v \notin DOMAIN S
    BY <1>3, Constants
  <1>5. /\ DOMAIN S2 = {v} \cup DOMAIN S /\ S2 = [b \in DOMAIN S2 |-> S2[b]]
        /\ S2[v] = sec /\ \A d \in DOMAIN S : S2[d] = S[d]
    BY <1>4 DEF Put, sec
  <1>6. \A s \in DOMAIN S : Beside(s, SectionSize, v, SectionSize) /\ Beside(v, SectionSize, s, SectionSize)
    BY <1>3, Constants DEF Beside
  <1>7. \A b \in DOMAIN T : Beside(b, TableSize, v, SectionSize)
    BY <1>3, Constants DEF Beside
  <1>8. Areas(w, T, S2)
    <2>1. w \in Nat /\ (w = 0 \/ HeapHead <= w)
      BY Constants
    <2>2. DOMAIN S2 \subseteq Nat
      BY <1>3, <1>5
    <2>3. \A s \in DOMAIN S2 : /\ S2[s] \in [current : Nat, next : Address]
                               /\ s + SectionHead <= S2[s].current
                               /\ S2[s].current <= s + SectionSize
                               /\ HeapHead <= s /\ s + SectionSize <= w
      <3>. SUFFICES ASSUME NEW s \in DOMAIN S2
                    PROVE  /\ S2[s] \in [current : Nat, next : Address]
                           /\ s + SectionHead <= S2[s].current
                           /\ S2[s].current <= s + SectionSize
                           /\ HeapHead <= s /\ s + SectionSize <= w
        OBVIOUS
      <3>1. CASE s = v
        BY <1>2, <1>5, <3>1, Constants
      <3>2. CASE s \in DOMAIN S
        <4>1. /\ S2[s] = S[s] /\ S[s] \in [current : Nat, next : Address]
              /\ s + SectionHead <= S[s].current /\ S[s].current <= s + SectionSize
              /\ HeapHead <= s /\ s + SectionSize <= u
          BY <1>1, <1>5, <3>2 DEF Areas
        <4>2. s + SectionSize <= w
          BY <1>3, <3>2, <4>1, Constants
        <4>3. QED
          BY <4>1, <4>2
      <3>3. QED
        BY <1>5, <3>1, <3>2
    <2>4. \A b \in DOMAIN T : b + TableSize <= w
      BY <1>3, Constants
    <2>5. \A b, c \in DOMAIN S2 : b # c => Beside(b, SectionSize, c, SectionSize)
      BY <1>1, <1>5, <1>6 DEF Areas
    <2>6. \A b \in DOMAIN T, s \in DOMAIN S2 : Beside(b, TableSize, s, SectionSize)
      BY <1>1, <1>5, <1>7 DEF Areas
    <2>7. QED
      BY <1>1, <1>5, <2>1, <2>2, <2>3, <2>4, <2>5, <2>6 DEF Areas
  <1>9. \A s \in DOMAIN S : \A x : Carved(S2, s, x) <=> Carved(S, s, x)
    BY <1>5 DEF Carved
  <1>10. Held(T, S2, H, C)
    <2>1. \A b \in H : FromSection(b, S) => FromSection(b, S2)
      BY <1>5, <1>9 DEF FromSection
    <2>2. \A x \in C : (\E s \in DOMAIN S : Carved(S, s, x)) => \E s \in DOMAIN S2 : Carved(S2, s, x)
      BY <1>5, <1>9
    <2>3. QED
      BY <1>1, <2>1, <2>2 DEF Held
  <1>11. \A x \in Nat : ~Carved(S2, v, x)
    BY <1>2, <1>5, Constants DEF Carved
  <1>12. Shared(T, S2, H, C)
    BY <1>1, <1>5, <1>9, <1>11 DEF Shared
  <1>13. QED
    BY <1>4, <1>8, <1>10, <1>12 DEF Whole

\* Tables that differ from others in nothing but their links and whether they are valid.
Alike(T, T2) ==
    /\ DOMAIN T2 = DOMAIN T /\ T2 = [b \in DOMAIN T2 |-> T2[b]]
    /\ \A b \in DOMAIN T : /\ TableGood(T2[b]) /\ T2[b].begin = T[b].begin
                           /\ \A x \in Nat : /\ Taken(T2[b], x) <=> Taken(T[b], x)
                                             /\ Unheld(T2[b], x) <=> Unheld(T[b], x)
                                             /\ Slabbed(T2[b], x) <=> Slabbed(T[b], x)

\* They keep what the invariant says of the file.
LEMMA AlikeKeepsWhole ==
    ASSUME NEW u, NEW T, NEW S, NEW H, NEW C, Whole(u, T, S, H, C), NEW T2, Alike(T, T2)
    PROVE  Whole(u, T2, S, H, C)
  <1>. USE DEF Alike
  <1>1. Areas(u, T, S) /\ Held(T, S, H, C) /\ Shared(T, S, H, C)
    BY DEF Whole
  <1>2. Areas(u, T2, S)
    BY <1>1 DEF Areas
  <1>3. Held(T2, S, H, C)
    <2>1. \A b \in H : FromTable(b, T) => FromTable(b, T2)
      BY DEF FromTable
    <2>2. \A x \in C : (\E c \in DOMAIN T : Taken(T[c], x)) => \E c \in DOMAIN T2 : Taken(T2[c], x)
      BY <1>1 DEF Held
    <2>3. QED
      BY <1>1, <2>1, <2>2 DEF Held
  <1>4. Shared(T2, S, H, C)
    BY <1>1 DEF Shared
  <1>5. QED
    BY <1>2, <1>3, <1>4 DEF Whole

\* The new next of a table or a section.
Linked(area, e, b) == [area EXCEPT ![e].next = b]

\* LinkTable leaves the cells of the file as they are.
LEMMA LinkTableKeepsWhole ==
    ASSUME NEW u, NEW T, NEW S, NEW H, NEW C, Whole(u, T, S, H, C),
           NEW e \in DOMAIN T, NEW b \in Nat, NEW T2, T2 = Linked(T, e, b)
    PROVE  /\ Whole(u, T2, S, H, C) /\ DOMAIN T2 = DOMAIN T /\ T2[e].next = b
           /\ \A c \in DOMAIN T : c # e => T2[c] = T[c]
           /\ \A c \in DOMAIN T : T2[c].valid <=> T[c].valid
  <1>. DEFINE t == T[e]
              v == [t EXCEPT !.next = b]
  <1>1. Areas(u, T, S)
    BY DEF Whole
  <1>2. T = [c \in DOMAIN T |-> T[c]] /\ TableGood(t) /\ TableType(t) /\ IsTable(t) /\ SlabsGood(t)
    BY <1>1 DEF Areas, TableGood, TableType
  <1>3. T2 = [T EXCEPT ![e] = v]
    BY <1>2 DEF Linked
  <1>4. /\ v.begin = t.begin /\ v.current = t.current /\ v.next = b /\ v.valid = t.valid
        /\ v.lists = t.lists /\ v.node = t.node /\ v.slabs = t.slabs /\ IsTable(v)
    <2>1. v = [t EXCEPT !.next = b]
      OBVIOUS
    <2>. HIDE DEF v, t
    <2>2. QED
      BY <1>2, <2>1 DEF IsTable
  <1>. HIDE DEF v
  <1>5. /\ DOMAIN T2 = DOMAIN T /\ T2 = [c \in DOMAIN T2 |-> T2[c]] /\ T2[e] = v
        /\ \A c \in DOMAIN T : c # e => T2[c] = T[c]
    BY <1>2, <1>3
  <1>. HIDE DEF t
  <1>6. \A x : /\ Taken(v, x) <=> Taken(t, x)
               /\ Slabbed(v, x) <=> Slabbed(t, x)
    BY <1>4 DEF Taken, Slabbed
  <1>7. \A x : Unheld(v, x) <=> Unheld(t, x)
    BY <1>4 DEF Unheld, Spare, Behind
  <1>8. TableGood(v)
    <2>1. TableType(v)
      BY <1>2, <1>4 DEF TableType, Address
    <2>2. SlabsGood(v)
      BY <1>2, <1>4 DEF SlabsGood
    <2>3. TableEnd(v) = TableEnd(t)
      BY <1>4 DEF TableEnd
    <2>4. QED
      BY <1>2, <1>4, <1>6, <2>1, <2>2, <2>3 DEF TableGood
  <1>9. \A c \in DOMAIN T : /\ TableGood(T2[c]) /\ T2[c].begin = T[c].begin
                            /\ \A x \in Nat : /\ Taken(T2[c], x) <=> Taken(T[c], x)
                                              /\ Unheld(T2[c], x) <=> Unheld(T[c], x)
                                              /\ Slabbed(T2[c], x) <=> Slabbed(T[c], x)
    <2>1. \A c \in DOMAIN T : TableGood(T[c])
      BY <1>1 DEF Areas
    <2>2. QED
      BY <1>4, <1>5, <1>6, <1>7, <1>8, <2>1 DEF t
  <1>10. Whole(u, T2, S, H, C)
    <2>1. Alike(T, T2)
      BY <1>5, <1>9 DEF Alike
    <2>2. QED
      BY <2>1, AlikeKeepsWhole
  <1>11. \A c \in DOMAIN T : T2[c].valid <=> T[c].valid
    BY <1>4, <1>5 DEF t
  <1>12. QED
    BY <1>4, <1>5, <1>10, <1>11

LEMMA LinkSectionKeepsWhole ==
    ASSUME NEW u, NEW T, NEW S, NEW H, NEW C, Whole(u, T, S, H, C),
           NEW e \in DOMAIN S, NEW b \in Nat, NEW S2, S2 = Linked(S, e, b)
    PROVE  /\ Whole(u, T, S2, H, C) /\ DOMAIN S2 = DOMAIN S /\ S2[e].next = b
           /\ \A s \in DOMAIN S : s # e => S2[s] = S[s]
           /\ \A s \in DOMAIN S : S2[s].current = S[s].current
  <1>1. Areas(u, T, S) /\ Held(T, S, H, C) /\ Shared(T, S, H, C)
    BY DEF Whole
  <1>2. S[e] \in [current : Nat, next : Address] /\ S = [s \in DOMAIN S |-> S[s]]
    BY <1>1 DEF Areas
  <1>. DEFINE v == [S[e] EXCEPT !.next = b]
  <1>3. v.current = S[e].current /\ v.next = b /\ v \in [current : Nat, next : Address]
    BY <1>2 DEF Address
  <1>4. S2 = [S EXCEPT ![e] = v]
    BY DEF Linked
  <1>. HIDE DEF v
  <1>5. /\ DOMAIN S2 = DOMAIN S /\ S2 = [s \in DOMAIN S2 |-> S2[s]] /\ S2[e] = v
        /\ \A s \in DOMAIN S : s # e => S2[s] = S[s]
    BY <1>2, <1>4
  <1>6. \A s \in DOMAIN S : S2[s].current = S[s].current
    BY <1>3, <1>5
  <1>7. \A s \in DOMAIN S : \A x : Carved(S2, s, x) <=> Carved(S, s, x)
    BY <1>6 DEF Carved
  <1>8. Areas(u, T, S2)
    <2>1. \A s \in DOMAIN S : S2[s] \in [current : Nat, next : Address]
      BY <1>1, <1>3, <1>5 DEF Areas
    <2>2. QED
      BY <1>1, <1>5, <1>6, <2>1 DEF Areas
  <1>9. Held(T, S2, H, C)
    <2>1. \A b1 \in H : FromSection(b1, S) => FromSection(b1, S2)
      BY <1>5, <1>7 DEF FromSection
    <2>2. \A x \in C : (\E s \in DOMAIN S : Carved(S, s, x)) => \E s \in DOMAIN S2 : Carved(S2, s, x)
      BY <1>5, <1>7
    <2>3. QED
      BY <1>1, <2>1, <2>2 DEF Held
  <1>10. Shared(T, S2, H, C)
    BY <1>1, <1>5, <1>7 DEF Shared
  <1>11. QED
    BY <1>3, <1>5, <1>6, <1>8, <1>9, <1>10 DEF Whole

\* A section whose current is n further on.
Advanced(S, s, n) == [S EXCEPT ![s].current = @ + n]

\* A section hands out what is next behind its last block.
LEMMA CarveKeepsWhole ==
    ASSUME NEW u, NEW T, NEW S, NEW H, NEW C, Whole(u, T, S, H, C),
           NEW s \in DOMAIN S, NEW b \in BlockType, b.addr = S[s].current, Unit <= b.span,
           b.size + Header <= b.span, S[s].current + b.span <= s + SectionSize,
           NEW S2, S2 = Advanced(S, s, b.span)
    PROVE  /\ Whole(u, T, S2, H \cup {b}, C) /\ DOMAIN S2 = DOMAIN S
           /\ \A r \in DOMAIN S : S2[r].next = S[r].next
           /\ \A d \in H : d.addr # b.addr
  <1>. DEFINE v == [S[s] EXCEPT !.current = S[s].current + b.span]
              G == H \cup {b}
  <1>1. Areas(u, T, S) /\ Held(T, S, H, C) /\ Shared(T, S, H, C)
    BY DEF Whole
  <1>2. S[s] \in [current : Nat, next : Address] /\ S = [r \in DOMAIN S |-> S[r]] /\ s \in Nat
    BY <1>1 DEF Areas
  <1>3. b.addr \in Nat /\ b.span \in Nat /\ b.span > 0 /\ S[s].current \in Nat
    BY <1>2, BlockIs
  <1>4. /\ v.current = S[s].current + b.span /\ v.next = S[s].next
        /\ v \in [current : Nat, next : Address]
    BY <1>2, <1>3
  <1>5. S2 = [S EXCEPT ![s] = v]
    BY <1>2 DEF Advanced
  <1>. HIDE DEF v
  <1>6. /\ DOMAIN S2 = DOMAIN S /\ S2 = [r \in DOMAIN S2 |-> S2[r]] /\ S2[s] = v
        /\ \A r \in DOMAIN S : r # s => S2[r] = S[r]
    BY <1>2, <1>5
  <1>7. /\ \A r \in DOMAIN S : \A x \in Nat : Carved(S, r, x) => Carved(S2, r, x)
        /\ \A x \in Nat : Carved(S2, s, x) <=> Carved(S, s, x) \/ InBlock(b, x)
        /\ \A x \in Nat : Carved(S, s, x) => ~InBlock(b, x)
        /\ \A r \in DOMAIN S : r # s => \A x \in Nat : Carved(S2, r, x) <=> Carved(S, r, x)
    <2>1. s + SectionHead <= S[s].current
      BY <1>1 DEF Areas
    <2>2. \A x \in Nat : Carved(S2, s, x) <=> Carved(S, s, x) \/ InBlock(b, x)
      BY <1>2, <1>3, <1>4, <1>6, <2>1, Constants DEF Carved, InBlock, Within
    <2>3. \A x \in Nat : Carved(S, s, x) => ~InBlock(b, x)
      BY <1>3 DEF Carved, InBlock, Within
    <2>4. \A r \in DOMAIN S : r # s => \A x \in Nat : Carved(S2, r, x) <=> Carved(S, r, x)
      BY <1>6 DEF Carved
    <2>5. QED
      BY <2>2, <2>3, <2>4
  <1>8. Areas(u, T, S2)
    <2>1. \A r \in DOMAIN S2 : /\ S2[r] \in [current : Nat, next : Address]
                               /\ r + SectionHead <= S2[r].current
                               /\ S2[r].current <= r + SectionSize
                               /\ HeapHead <= r /\ r + SectionSize <= u
      <3>. SUFFICES ASSUME NEW r \in DOMAIN S
                    PROVE  /\ S2[r] \in [current : Nat, next : Address]
                           /\ r + SectionHead <= S2[r].current
                           /\ S2[r].current <= r + SectionSize
                           /\ HeapHead <= r /\ r + SectionSize <= u
        BY <1>6
      <3>1. /\ S[r] \in [current : Nat, next : Address] /\ r + SectionHead <= S[r].current
            /\ S[r].current <= r + SectionSize /\ HeapHead <= r /\ r + SectionSize <= u
        BY <1>1 DEF Areas
      <3>2. CASE r = s
        <4>. DEFINE old == S[s].current
                    new == S2[s].current
        <4>1. /\ S2[s] \in [current : Nat, next : Address] /\ new = old + b.span
              /\ s + SectionHead <= old /\ old \in Nat
          BY <1>3, <1>4, <1>6, <3>1, <3>2
        <4>2. old + b.span <= s + SectionSize
          OBVIOUS
        <4>. HIDE DEF old, new
        <4>3. b.span \in Nat /\ s \in Nat /\ SectionHead \in Nat /\ SectionSize \in Nat
          BY <1>2, <1>3, Constants
        <4>. DEFINE n == b.span
        <4>4. n \in Nat /\ new = old + n /\ old + n <= s + SectionSize
          BY <4>1, <4>2, <4>3
        <4>. HIDE DEF n
        <4>5. s + SectionHead <= new /\ new <= s + SectionSize
          BY <4>1, <4>3, <4>4
        <4>6. QED
          BY <3>1, <3>2, <4>1, <4>5 DEF new
      <3>3. CASE r # s
        BY <1>6, <3>1, <3>3
      <3>4. QED
        BY <3>2, <3>3
    <2>2. QED
      BY <1>1, <1>6, <2>1 DEF Areas
  <1>9. \A x \in Nat : InBlock(b, x) => ~Gone(H, C, x) /\ InSection(s, x)
    <2>. SUFFICES ASSUME NEW x \in Nat, InBlock(b, x) PROVE ~Gone(H, C, x) /\ InSection(s, x)
      OBVIOUS
    <2>1. Carved(S2, s, x) /\ ~Carved(S, s, x)
      BY <1>7
    <2>2. InSection(s, x)
      BY <1>6, <1>8, <2>1, Places
    <2>3. \A c \in DOMAIN T : ~Taken(T[c], x)
      <3>1. /\ \A c \in DOMAIN T : Taken(T[c], x) => InTable(c, x)
            /\ \A c \in DOMAIN T, r \in DOMAIN S : InTable(c, x) => ~InSection(r, x)
        BY <1>1, Places
      <3>2. QED
        BY <2>2, <3>1
    <2>4. \A r \in DOMAIN S : ~Carved(S, r, x)
      BY <1>1, <2>1, <2>2, Places
    <2>5. QED
      BY <1>1, <2>2, <2>3, <2>4, GoneIs
  <1>10. \A x \in Nat : Gone(G, C, x) <=> Gone(H, C, x) \/ InBlock(b, x)
    BY DEF Gone
  <1>11. Held(T, S2, G, C)
    <2>1. ASSUME NEW d \in G
          PROVE  d \in BlockType /\ d.size + Header <= d.span /\ (FromTable(d, T) \/ FromSection(d, S2))
      <3>1. CASE d \in H
        <4>1. d \in BlockType /\ d.size + Header <= d.span /\ (FromTable(d, T) \/ FromSection(d, S))
          BY <1>1, <3>1 DEF Held
        <4>2. FromSection(d, S) => FromSection(d, S2)
          BY <1>6, <1>7 DEF FromSection
        <4>3. QED
          BY <4>1, <4>2
      <3>2. CASE d = b
        <4>1. FromSection(b, S2)
          BY <1>6, <1>7 DEF FromSection
        <4>2. QED
          BY <3>2, <4>1
      <3>3. QED
        BY <3>1, <3>2
    <2>2. ASSUME NEW d \in H PROVE Beside(b.addr, b.span, d.addr, d.span)
      <3>1. d \in BlockType
        BY <1>1 DEF Held
      <3>2. d.addr \in Nat /\ d.span \in Nat /\ d.span > 0
        BY <3>1, BlockIs
      <3>3. \A x \in Nat : InBlock(b, x) => ~InBlock(d, x)
        BY <1>9 DEF Gone
      <3>4. QED
        BY <1>3, <3>2, <3>3, BesideIs DEF InBlock
    <2>3. ASSUME NEW c \in G, NEW d \in G, c # d PROVE Beside(c.addr, c.span, d.addr, d.span)
      <3>1. CASE c \in H /\ d \in H
        BY <1>1, <2>3, <3>1 DEF Held
      <3>2. CASE c = b /\ d \in H
        BY <2>2, <3>2
      <3>3. CASE c \in H /\ d = b
        BY <2>2, <3>3 DEF Beside
      <3>4. QED
        BY <2>3, <3>1, <3>2, <3>3
    <2>4. ASSUME NEW x \in C, NEW d \in G PROVE ~InBlock(d, x)
      <3>1. x \in Nat /\ Gone(H, C, x)
        BY <1>1 DEF Held, Gone
      <3>2. QED
        BY <1>1, <1>9, <3>1 DEF Held
    <2>5. C \subseteq Nat /\ \A x \in C : \/ \E d \in DOMAIN T : Taken(T[d], x)
                                          \/ \E r \in DOMAIN S2 : Carved(S2, r, x)
      BY <1>1, <1>6, <1>7 DEF Held
    <2>6. QED
      BY <2>1, <2>3, <2>4, <2>5 DEF Held
  <1>. HIDE DEF G
  <1>12. \A c \in DOMAIN T : \A x \in Nat : InBlock(b, x) => ~Taken(T[c], x)
    <2>. SUFFICES ASSUME NEW c \in DOMAIN T, NEW x \in Nat, InBlock(b, x) PROVE ~Taken(T[c], x)
      OBVIOUS
    <2>1. /\ Taken(T[c], x) => InTable(c, x)
          /\ \A r \in DOMAIN S : InTable(c, x) => ~InSection(r, x)
      BY <1>1, Places
    <2>2. QED
      BY <1>9, <2>1
  <1>13. Shared(T, S2, G, C)
    <2>1. ASSUME NEW c \in DOMAIN T, NEW x \in Nat, Unheld(T[c], x) PROVE ~Gone(G, C, x)
      <3>1. TableGood(T[c])
        BY <1>1 DEF Areas
      <3>2. Taken(T[c], x)
        BY <2>1, <3>1, UnheldIs
      <3>3. QED
        BY <1>1, <1>10, <1>12, <2>1, <3>2 DEF Shared
    <2>2. \A c \in DOMAIN T : \A x \in Nat : Taken(T[c], x) => Unheld(T[c], x) \/ Gone(G, C, x)
      BY <1>1, <1>10 DEF Shared
    <2>3. ASSUME NEW r \in DOMAIN S2, NEW x \in Nat, Carved(S2, r, x) PROVE Gone(G, C, x)
      <3>1. Carved(S, r, x) \/ InBlock(b, x)
        BY <1>6, <1>7, <2>3
      <3>2. QED
        BY <1>1, <1>6, <1>10, <3>1 DEF Shared
    <2>4. ASSUME NEW c \in DOMAIN T, NEW d \in G, NEW x \in Nat, Unit <= d.span, InBlock(d, x)
          PROVE  ~Slabbed(T[c], x)
      <3>1. CASE d \in H
        BY <1>1, <2>4, <3>1 DEF Shared
      <3>2. CASE d = b
        <4>1. ~Taken(T[c], x) /\ TableGood(T[c])
          BY <1>1, <1>12, <2>4, <3>2 DEF Areas
        <4>2. QED
          BY <4>1, UnheldIs
      <3>3. QED
        BY <3>1, <3>2 DEF G
    <2>5. QED
      BY <2>1, <2>2, <2>3, <2>4 DEF Shared
  <1>14. \A r \in DOMAIN S : S2[r].next = S[r].next
    BY <1>4, <1>6
  <1>15. ASSUME NEW d \in H, d.addr = b.addr PROVE FALSE
    <2>1. d \in BlockType /\ InBlock(d, d.addr)
      BY <1>1, BlockIs DEF Held
    <2>2. InBlock(b, b.addr) /\ b.addr \in Nat
      BY BlockIs
    <2>3. QED
      BY <1>9, <1>15, <2>1, <2>2 DEF Gone
  <1>16. QED
    BY <1>6, <1>8, <1>11, <1>13, <1>14, <1>15 DEF Whole, G

\* The blocks, of which b has another header.
Resized(H, b, len) == (H \ {b}) \cup {[b EXCEPT !.size = len]}

\* A header is written in a block that has the room for what it promises.
LEMMA ResizeKeepsWhole ==
    ASSUME NEW u, NEW T, NEW S, NEW H, NEW C, Whole(u, T, S, H, C),
           NEW b \in H, NEW len \in Nat, len + Header <= b.span,
           IsItem(b) => len + Header < Unit \div 2, NEW G, G = Resized(H, b, len)
    PROVE  Whole(u, T, S, G, C)
  <1>. DEFINE d == [b EXCEPT !.size = len]
  <1>0. G = (H \ {b}) \cup {d}
    BY DEF Resized
  <1>1. Areas(u, T, S) /\ Held(T, S, H, C) /\ Shared(T, S, H, C)
    BY DEF Whole
  <1>2. b \in BlockType /\ b.size + Header <= b.span /\ (FromTable(b, T) \/ FromSection(b, S))
    BY <1>1 DEF Held
  <1>3. d \in BlockType /\ d.addr = b.addr /\ d.span = b.span /\ d.size = len
    BY <1>2 DEF BlockType
  <1>. HIDE DEF d
  <1>4. d.size + Header <= d.span
    BY <1>3
  <1>5. \A x : InBlock(d, x) <=> InBlock(b, x)
    BY <1>3 DEF InBlock
  <1>6. FromTable(d, T) \/ FromSection(d, S)
    <2>1. IsItem(b) => IsItem(d)
      BY <1>3 DEF IsItem
    <2>2. IsPage(b) => IsPage(d)
      BY <1>3 DEF IsPage
    <2>3. FromTable(b, T) => FromTable(d, T)
      BY <1>5, <2>1, <2>2 DEF FromTable
    <2>4. FromSection(b, S) => FromSection(d, S)
      BY <1>3, <1>5 DEF FromSection
    <2>5. QED
      BY <1>2, <2>3, <2>4
  <1>7. \A x : Gone(G, C, x) <=> Gone(H, C, x)
    BY <1>0, <1>5 DEF Gone
  <1>8. Held(T, S, G, C)
    <2>1. ASSUME NEW c \in G, NEW e \in G, c # e PROVE Beside(c.addr, c.span, e.addr, e.span)
      <3>1. CASE c \in H \ {b} /\ e \in H \ {b}
        BY <1>1, <2>1, <3>1 DEF Held
      <3>2. CASE c = d /\ e \in H \ {b}
        BY <1>1, <1>3, <3>2 DEF Held
      <3>3. CASE c \in H \ {b} /\ e = d
        BY <1>1, <1>3, <3>3 DEF Held
      <3>4. QED
        BY <1>0, <2>1, <3>1, <3>2, <3>3
    <2>2. \A x \in C : \A e \in G : ~InBlock(e, x)
      BY <1>0, <1>1, <1>5 DEF Held
    <2>3. \A e \in G : e \in BlockType /\ e.size + Header <= e.span /\ (FromTable(e, T) \/ FromSection(e, S))
      BY <1>0, <1>1, <1>3, <1>4, <1>6 DEF Held
    <2>4. QED
      BY <1>1, <2>1, <2>2, <2>3 DEF Held
  <1>9. Shared(T, S, G, C)
    <2>1. \A c \in DOMAIN T : \A e \in G : \A x \in Nat :
            Unit <= e.span /\ InBlock(e, x) => ~Slabbed(T[c], x)
      BY <1>0, <1>1, <1>3, <1>5 DEF Shared
    <2>2. QED
      BY <1>1, <1>7, <2>1 DEF Shared
  <1>10. QED
    BY <1>1, <1>8, <1>9 DEF Whole

\* A block the caller gives up and the pool does not take back.
LEMMA ForgetKeepsWhole ==
    ASSUME NEW u, NEW T, NEW S, NEW H, NEW C, Whole(u, T, S, H, C), NEW b \in H,
           NEW D, D = C \cup (b.addr..b.addr + b.span - 1)
    PROVE  Whole(u, T, S, H \ {b}, D)
  <1>. DEFINE G == H \ {b}
  <1>1. Areas(u, T, S) /\ Held(T, S, H, C) /\ Shared(T, S, H, C)
    BY DEF Whole
  <1>2. b \in BlockType /\ (FromTable(b, T) \/ FromSection(b, S))
    BY <1>1 DEF Held
  <1>3. b.addr \in Nat /\ b.span \in Nat /\ b.span > 0
    BY <1>2, BlockIs
  <1>4. \A x : x \in D <=> x \in C \/ (x \in Nat /\ InBlock(b, x))
    BY <1>3 DEF InBlock, Within
  <1>5. \A x \in Nat : Gone(G, D, x) <=> Gone(H, C, x)
    BY <1>4 DEF Gone
  <1>6. Held(T, S, G, D)
    <2>1. ASSUME NEW x \in D, NEW d \in G PROVE ~InBlock(d, x)
      <3>1. CASE x \in C
        BY <1>1, <3>1 DEF Held
      <3>2. CASE x \in Nat /\ InBlock(b, x)
        <4>1. Beside(b.addr, b.span, d.addr, d.span) /\ d \in BlockType
          BY <1>1 DEF Held
        <4>2. d.addr \in Nat /\ d.span \in Nat
          BY <4>1, BlockIs
        <4>3. QED
          BY <1>3, <3>2, <4>1, <4>2 DEF Beside, InBlock, Within
      <3>3. QED
        BY <1>4, <3>1, <3>2
    <2>2. D \subseteq Nat /\ \A x \in D : \/ \E d \in DOMAIN T : Taken(T[d], x)
                                          \/ \E r \in DOMAIN S : Carved(S, r, x)
      <3>1. \A x \in Nat : InBlock(b, x) => \/ \E d \in DOMAIN T : Taken(T[d], x)
                                            \/ \E r \in DOMAIN S : Carved(S, r, x)
        BY <1>2 DEF FromTable, FromSection
      <3>2. QED
        BY <1>1, <1>4, <3>1 DEF Held
    <2>3. QED
      BY <1>1, <2>1, <2>2 DEF Held
  <1>7. Shared(T, S, G, D)
    <2>1. \A c \in DOMAIN T : \A e \in G : \A x \in Nat :
            Unit <= e.span /\ InBlock(e, x) => ~Slabbed(T[c], x)
      BY <1>1 DEF Shared
    <2>. HIDE DEF G
    <2>2. QED
      BY <1>1, <1>5, <2>1 DEF Shared
  <1>8. QED
    BY <1>1, <1>6, <1>7 DEF Whole

\* The front of a block, `back` cells long, and the rest of it.
PartOf(b, back) == back \in Nat /\ back <= b.span
Remnant(b, back) == b.addr + back..b.addr + b.span - 1

\* A block is cut to its front, which is an item, and the rest is given up.
LEMMA TrimKeepsWhole ==
    ASSUME NEW u, NEW T, NEW S, NEW H, NEW C, Whole(u, T, S, H, C), NEW b \in H, FromTable(b, T),
           NEW d \in BlockType, d.addr = b.addr, d.size + Header <= d.span, IsItem(d),
           PartOf(b, d.span), NEW G, G = (H \ {b}) \cup {d}, NEW D, D = C \cup Remnant(b, d.span)
    PROVE  Whole(u, T, S, G, D)
  <1>1. Areas(u, T, S) /\ Held(T, S, H, C) /\ Shared(T, S, H, C)
    BY DEF Whole
  <1>2. b \in BlockType
    BY <1>1 DEF Held
  <1>3. /\ b.addr \in Nat /\ b.span \in Nat /\ b.span > 0
        /\ d.addr = b.addr /\ d.span \in Nat /\ d.span <= b.span /\ d.span > 0
    BY <1>2, BlockIs DEF PartOf
  <1>4. \A x \in Nat : InBlock(b, x) <=> InBlock(d, x) \/ x \in Remnant(b, d.span)
    <2>. DEFINE a == b.addr
                m == b.span
                n == d.span
    <2>1. a \in Nat /\ m \in Nat /\ n \in Nat /\ n <= m
      BY <1>3
    <2>2. \A x \in Nat : /\ InBlock(b, x) <=> a <= x /\ x < a + m
                         /\ InBlock(d, x) <=> a <= x /\ x < a + n
                         /\ x \in Remnant(b, d.span) <=> x \in a + n..a + m - 1
      BY <1>3 DEF InBlock, Within, Remnant
    <2>. HIDE DEF a, m, n
    <2>3. \A x \in Nat : a <= x /\ x < a + m <=> (a <= x /\ x < a + n) \/ x \in a + n..a + m - 1
      BY <2>1
    <2>4. QED
      BY <2>2, <2>3
  <1>5. Remnant(b, d.span) \subseteq Nat /\ \A x \in Remnant(b, d.span) : ~InBlock(d, x)
    <2>. DEFINE a == b.addr
                m == b.span
                n == d.span
    <2>1. a \in Nat /\ m \in Nat /\ n \in Nat
      BY <1>3
    <2>2. /\ Remnant(b, d.span) = a + n..a + m - 1
          /\ \A x : InBlock(d, x) => x < a + n
      BY <1>3 DEF InBlock, Within, Remnant
    <2>. HIDE DEF a, m, n
    <2>3. \A x \in a + n..a + m - 1 : x \in Nat /\ ~(x < a + n)
      BY <2>1
    <2>4. QED
      BY <2>2, <2>3
  <1>6. \A x \in Nat : Gone(G, D, x) <=> Gone(H, C, x)
    BY <1>4 DEF Gone
  <1>7. /\ \E c \in DOMAIN T : \A x \in Nat : InBlock(b, x) => Taken(T[c], x)
        /\ FromTable(d, T)
    BY <1>4 DEF FromTable
  <1>8. \A e \in H : b # e => /\ Beside(d.addr, d.span, e.addr, e.span)
                              /\ Beside(e.addr, e.span, d.addr, d.span)
                              /\ \A x \in Nat : InBlock(b, x) => ~InBlock(e, x)
    <2>. SUFFICES ASSUME NEW e \in H, b # e
                  PROVE  /\ Beside(d.addr, d.span, e.addr, e.span)
                         /\ Beside(e.addr, e.span, d.addr, d.span)
                         /\ \A x \in Nat : InBlock(b, x) => ~InBlock(e, x)
      OBVIOUS
    <2>1. Beside(b.addr, b.span, e.addr, e.span) /\ e \in BlockType
      BY <1>1 DEF Held
    <2>. DEFINE a == b.addr
                m == b.span
                n == d.span
                a2 == e.addr
                m2 == e.span
    <2>2. /\ a \in Nat /\ m \in Nat /\ n \in Nat /\ n <= m /\ d.addr = a /\ a2 \in Nat /\ m2 \in Nat
          /\ a + m <= a2 \/ a2 + m2 <= a
      BY <1>3, <2>1, BlockIs DEF Beside
    <2>3. \A x : /\ InBlock(b, x) <=> a <= x /\ x < a + m
                 /\ InBlock(e, x) <=> a2 <= x /\ x < a2 + m2
      BY DEF InBlock, Within
    <2>. HIDE DEF a, m, n, a2, m2
    <2>4. a + n <= a2 \/ a2 + m2 <= a
      BY <2>2
    <2>5. \A x \in Nat : ~(a <= x /\ x < a + m /\ a2 <= x /\ x < a2 + m2)
      BY <2>2
    <2>6. QED
      BY <2>2, <2>3, <2>4, <2>5 DEF Beside, n, a2, m2
  <1>9. Held(T, S, G, D)
    <2>1. \A e \in G : e \in BlockType /\ e.size + Header <= e.span /\ (FromTable(e, T) \/ FromSection(e, S))
      BY <1>1, <1>7 DEF Held
    <2>2. \A e, f \in G : e # f => Beside(e.addr, e.span, f.addr, f.span)
      BY <1>1, <1>8 DEF Held
    <2>3. D \subseteq Nat /\ \A x \in D : \/ \E c \in DOMAIN T : Taken(T[c], x)
                                          \/ \E r \in DOMAIN S : Carved(S, r, x)
      <3>1. \A x \in Remnant(b, d.span) : \E c \in DOMAIN T : Taken(T[c], x)
        BY <1>4, <1>5, <1>7
      <3>2. QED
        BY <1>1, <1>5, <3>1 DEF Held
    <2>4. ASSUME NEW x \in D, NEW e \in G PROVE ~InBlock(e, x)
      <3>1. x \in Nat
        BY <2>3
      <3>2. CASE x \in C
        <4>1. ~InBlock(b, x) /\ (e # d => ~InBlock(e, x))
          BY <1>1, <3>2 DEF Held
        <4>2. QED
          BY <1>4, <3>1, <4>1
      <3>3. CASE x \in Remnant(b, d.span)
        <4>1. InBlock(b, x) /\ ~InBlock(d, x)
          BY <1>4, <1>5, <3>1, <3>3
        <4>2. QED
          BY <1>8, <3>1, <4>1
      <3>4. QED
        BY <3>2, <3>3
    <2>5. QED
      BY <2>1, <2>2, <2>3, <2>4 DEF Held
  <1>10. Shared(T, S, G, D)
    <2>1. ~(Unit <= d.span)
      <3>1. PICK l \in SlabLevels : d.span = ItemSizes[l]
        BY DEF IsItem
      <3>2. QED
        BY <1>3, <3>1, Constants
    <2>2. \A c \in DOMAIN T : \A e \in G : \A x \in Nat :
            Unit <= e.span /\ InBlock(e, x) => ~Slabbed(T[c], x)
      BY <1>1, <2>1 DEF Shared
    <2>3. QED
      BY <1>1, <1>6, <2>2 DEF Shared
  <1>11. QED
    BY <1>1, <1>9, <1>10 DEF Whole

\* The table c with other free lists.
Relisted(T, c, after) == [T EXCEPT ![c].lists = after]

\* The block was cut off by the table.
OfTable(b, t) == \A x \in Nat : InBlock(b, x) => Taken(t, x)

\* The lists `after` hold what `lists` hold, and the page.
With(lists, page, size, after) ==
    /\ after \in Lists /\ ListsApart(after)
    /\ \A x \in Nat : Listed(after, x) <=> Listed(lists, x) \/ Within(x, page, size)

\* The front of a block goes back to the free lists of its table, the rest is given up.
LEMMA ReturnKeepsWhole ==
    ASSUME NEW u, NEW T, NEW S, NEW H, NEW C, Whole(u, T, S, H, C), NEW b \in H, NEW c \in DOMAIN T,
           Unit <= b.span, OfTable(b, T[c]), NEW back, PartOf(b, back),
           NEW after, With(T[c].lists, b.addr, back, after), NEW D, D = C \cup Remnant(b, back),
           NEW T2, T2 = Relisted(T, c, after)
    PROVE  /\ Whole(u, T2, S, H \ {b}, D) /\ DOMAIN T2 = DOMAIN T
           /\ \A d \in DOMAIN T : T2[d].next = T[d].next /\ (T2[d].valid <=> T[d].valid)
  <1>. USE DEF OfTable, With, Remnant, PartOf
  <1>. DEFINE G == H \ {b}
              t == T[c]
              v == [t EXCEPT !.lists = after]
  <1>1. Areas(u, T, S) /\ Held(T, S, H, C) /\ Shared(T, S, H, C)
    BY DEF Whole
  <1>2. b \in BlockType /\ b.addr \in Nat /\ b.span \in Nat /\ b.span > 0
    BY <1>1, BlockIs DEF Held
  <1>3. /\ TableGood(t) /\ TableType(t) /\ IsTable(t) /\ SlabsGood(t) /\ t.begin = c
        /\ T = [d \in DOMAIN T |-> T[d]]
    BY <1>1 DEF Areas, TableGood, TableType
  <1>4. /\ v.begin = t.begin /\ v.current = t.current /\ v.next = t.next /\ v.valid = t.valid
        /\ v.lists = after /\ v.node = t.node /\ v.slabs = t.slabs /\ IsTable(v)
    <2>1. v = [t EXCEPT !.lists = after]
      OBVIOUS
    <2>. HIDE DEF v, t
    <2>2. QED
      BY <1>3, <2>1 DEF IsTable
  <1>5. T2 = [T EXCEPT ![c] = v]
    BY DEF Relisted
  <1>. HIDE DEF v
  <1>6. /\ DOMAIN T2 = DOMAIN T /\ T2 = [d \in DOMAIN T2 |-> T2[d]] /\ T2[c] = v
        /\ \A d \in DOMAIN T : d # c => T2[d] = T[d]
    BY <1>3, <1>5
  <1>7. \A x : /\ Taken(v, x) <=> Taken(t, x)
               /\ Slabbed(v, x) <=> Slabbed(t, x)
    BY <1>4 DEF Taken, Slabbed
  <1>8. \A x \in Nat : Unheld(v, x) <=> Unheld(t, x) \/ Within(x, b.addr, back)
    <2>1. \A x : Spare(v, x) <=> Spare(t, x)
      BY <1>4 DEF Spare, Behind
    <2>2. QED
      BY <1>4, <2>1 DEF Unheld
  <1>9. \A x \in Nat : Within(x, b.addr, back) => InBlock(b, x)
    BY <1>2 DEF InBlock, Within
  <1>10. TableGood(v)
    <2>1. TableType(v)
      BY <1>3, <1>4 DEF TableType
    <2>2. SlabsGood(v)
      BY <1>3, <1>4 DEF SlabsGood
    <2>3. TableEnd(v) = TableEnd(t)
      BY <1>4 DEF TableEnd
    <2>4. ASSUME NEW x \in Nat, Listed(v.lists, x) PROVE Taken(v, x) /\ ~Slabbed(v, x)
      <3>1. CASE Listed(t.lists, x)
        BY <1>3, <1>7, <3>1, UnheldIs
      <3>2. CASE Within(x, b.addr, back)
        BY <1>1, <1>7, <1>9, <3>2 DEF Shared
      <3>3. QED
        BY <1>4, <2>4, <3>1, <3>2
    <2>5. QED
      BY <1>3, <1>4, <2>1, <2>2, <2>3, <2>4 DEF TableGood
  <1>11. Areas(u, T2, S)
    BY <1>1, <1>3, <1>4, <1>6, <1>10 DEF Areas
  <1>12. \A x : x \in D <=> x \in C \/ (x \in Nat /\ InBlock(b, x) /\ ~Within(x, b.addr, back))
    BY <1>2 DEF InBlock, Within
  <1>13. \A d \in DOMAIN T : \A x : (Taken(T2[d], x) <=> Taken(T[d], x)) /\ (Slabbed(T2[d], x) <=> Slabbed(T[d], x))
    BY <1>6, <1>7
  <1>14. \A x \in Nat : InBlock(b, x) => Gone(H, C, x) /\ x \notin C /\ \A d \in G : ~InBlock(d, x)
    <2>. SUFFICES ASSUME NEW x \in Nat, InBlock(b, x), NEW d \in G, InBlock(d, x) PROVE FALSE
      BY <1>1 DEF Gone, Held
    <2>1. Beside(b.addr, b.span, d.addr, d.span) /\ d \in BlockType
      BY <1>1 DEF Held
    <2>2. d.addr \in Nat /\ d.span \in Nat
      BY <2>1, BlockIs
    <2>3. QED
      BY <1>2, <2>1, <2>2 DEF Beside, InBlock, Within
  <1>15. \A x \in Nat : Gone(G, D, x) <=> Gone(H, C, x) /\ ~Within(x, b.addr, back)
    BY <1>9, <1>12, <1>14 DEF Gone
  <1>16. Held(T2, S, G, D)
    <2>1. ASSUME NEW d \in G
          PROVE  d \in BlockType /\ d.size + Header <= d.span /\ (FromTable(d, T2) \/ FromSection(d, S))
      <3>1. d \in BlockType /\ d.size + Header <= d.span /\ (FromTable(d, T) \/ FromSection(d, S))
        BY <1>1 DEF Held
      <3>2. FromTable(d, T) => FromTable(d, T2)
        BY <1>6, <1>13 DEF FromTable
      <3>3. QED
        BY <3>1, <3>2
    <2>2. \A x \in D : \A d \in G : ~InBlock(d, x)
      BY <1>1, <1>12, <1>14 DEF Held
    <2>3. \A c1, d \in G : c1 # d => Beside(c1.addr, c1.span, d.addr, d.span)
      BY <1>1 DEF Held
    <2>4. D \subseteq Nat /\ \A x \in D : \/ \E d \in DOMAIN T2 : Taken(T2[d], x)
                                          \/ \E r \in DOMAIN S : Carved(S, r, x)
      BY <1>1, <1>6, <1>12, <1>13 DEF Held
    <2>5. QED
      BY <2>1, <2>2, <2>3, <2>4 DEF Held
  <1>17. Shared(T2, S, G, D)
    <2>1. ASSUME NEW d \in DOMAIN T2, NEW x \in Nat, Unheld(T2[d], x) PROVE ~Gone(G, D, x)
      <3>1. CASE d = c
        BY <1>1, <1>6, <1>8, <1>15, <2>1, <3>1 DEF Shared
      <3>2. CASE d # c
        BY <1>1, <1>6, <1>15, <2>1, <3>2 DEF Shared
      <3>3. QED
        BY <3>1, <3>2
    <2>2. ASSUME NEW d \in DOMAIN T2, NEW x \in Nat, Taken(T2[d], x)
          PROVE  Unheld(T2[d], x) \/ Gone(G, D, x)
      <3>1. d \in DOMAIN T /\ Taken(T[d], x)
        BY <1>6, <1>13, <2>2
      <3>2. Unheld(T[d], x) \/ Gone(H, C, x)
        BY <1>1, <3>1 DEF Shared
      <3>3. CASE d = c
        BY <1>6, <1>8, <1>15, <3>2, <3>3
      <3>4. CASE d # c
        <4>1. ~Within(x, b.addr, back)
          <5>1. InTable(d, x) /\ (Taken(T[c], x) => InTable(c, x))
            BY <1>1, <3>1, Places
          <5>2. ~Taken(T[c], x)
            BY <1>1, <3>1, <3>4, <5>1, Places
          <5>3. QED
            BY <1>9, <5>2
        <4>2. QED
          BY <1>6, <1>15, <3>1, <3>2, <3>4, <4>1
      <3>5. QED
        BY <3>3, <3>4
    <2>3. ASSUME NEW s \in DOMAIN S, NEW x \in Nat, Carved(S, s, x) PROVE Gone(G, D, x)
      <3>1. Gone(H, C, x)
        BY <1>1, <2>3 DEF Shared
      <3>2. ~Taken(T[c], x)
        BY <1>1, <2>3, Places
      <3>3. QED
        BY <1>9, <1>15, <3>1, <3>2
    <2>4. \A d \in DOMAIN T2 : \A e \in G : \A x \in Nat :
            Unit <= e.span /\ InBlock(e, x) => ~Slabbed(T2[d], x)
      BY <1>1, <1>6, <1>13 DEF Shared
    <2>5. QED
      BY <2>1, <2>2, <2>3, <2>4 DEF Shared
  <1>18. \A d \in DOMAIN T : T2[d].next = T[d].next /\ (T2[d].valid <=> T[d].valid)
    BY <1>4, <1>6
  <1>19. QED
    BY <1>6, <1>11, <1>16, <1>17, <1>18 DEF Whole

\* The space of the file grows.
LEMMA RoomKeepsWhole ==
    ASSUME NEW u, NEW T, NEW S, NEW H, NEW C, Whole(u, T, S, H, C),
           NEW w \in Nat, u <= w, HeapHead <= w
    PROVE  Whole(w, T, S, H, C)
  <1>1. Areas(u, T, S) /\ Held(T, S, H, C) /\ Shared(T, S, H, C) /\ u \in Nat
    BY DEF Whole, Areas
  <1>2. \A b \in DOMAIN T : b + TableSize <= w
    <2>1. \A b \in DOMAIN T : b + TableSize <= u /\ b \in Nat
      BY <1>1 DEF Areas
    <2>2. QED
      BY <1>1, <2>1, Constants
  <1>3. \A s \in DOMAIN S : s + SectionSize <= w
    <2>1. \A s \in DOMAIN S : s + SectionSize <= u /\ s \in Nat
      BY <1>1 DEF Areas
    <2>2. QED
      BY <1>1, <2>1, Constants
  <1>4. Areas(w, T, S)
    BY <1>1, <1>2, <1>3 DEF Areas
  <1>5. QED
    BY <1>1, <1>4 DEF Whole

\* The table c has answered: only it has changed, and a block is at a new address.
Answered(u, T, S, H, C, c, got, T2, G) ==
    /\ Whole(u, T2, S, G, C) /\ DOMAIN T2 = DOMAIN T /\ got.table.begin = c
    /\ \A d \in DOMAIN T : d # c => T2[d] = T[d]
    /\ T2[c].next = T[c].next /\ (T2[c].valid <=> T[c].valid /\ got.addr # None)
    /\ got.addr # None => \A d \in H : d.addr # got.addr

\* AllocData of a table of the file, and the caller's end of it.
LEMMA AnswerKeepsWhole ==
    ASSUME NEW u, NEW T, NEW S, NEW H, NEW C, Whole(u, T, S, H, C), NEW c \in DOMAIN T,
           NEW len \in Nat, divide_size(len + Header) # "huge",
           NEW got \in AllocData(T[c], len + Header),
           NEW T2, T2 = Put(T, got.table.begin, got.table),
           NEW G, G = IF got.addr = None THEN H
                      ELSE H \cup {[addr |-> got.addr, span |-> got.span, size |-> len]}
    PROVE  Answered(u, T, S, H, C, c, got, T2, G)
  <1>. USE DEF Answered
  <1>. DEFINE size == len + Header
              t == T[c]
              v == got.table
              block == [addr |-> got.addr, span |-> got.span, size |-> len]
  <1>1. size \in Nat /\ Header \in Nat
    BY Constants
  <1>2. TableGood(t) /\ t.begin = c
    BY DEF Whole, Areas
  <1>3. Outcome(t, got, size) /\ v.valid = (t.valid /\ got.addr # None)
    <2>. HIDE DEF t, size
    <2>1. divide_size(size) # "huge" /\ got \in AllocData(t, size)
      BY DEF t, size
    <2>2. QED
      BY <1>1, <1>2, <2>1, AllocDataIs
  <1>4. CASE got.addr = None
    <2>1. Gives(t, v, None, 0)
      BY <1>3, <1>4 DEF Outcome, None
    <2>2. v.begin = c /\ v.next = t.next
      BY <1>2, <2>1 DEF Gives
    <2>3. T2 = Put(T, c, v)
      BY <2>2
    <2>. DEFINE more == {}
    <2>4. /\ more \subseteq BlockType /\ \A b, d \in more : b = d
          /\ \A b \in more : /\ b.addr = None /\ b.span = 0 /\ b.size + Header <= b.span
                             /\ IsItem(b) \/ IsPage(b)
          /\ \A x \in Nat : Within(x, None, 0) => \E b \in more : InBlock(b, x)
      BY DEF Within, None
    <2>. HIDE DEF more, v, t
    <2>5. Given(u, T2, S, H, C, more)
      BY <2>1, <2>3, <2>4, GiveKeepsWhole DEF t
    <2>6. H \cup more = G
      BY <1>4 DEF more
    <2>7. QED
      BY <1>3, <1>4, <2>2, <2>3, <2>5, <2>6 DEF Put, Given, t, v
  <1>5. CASE got.addr # None
    <2>1. /\ got.addr \in Nat /\ got.span \in Nat /\ got.span > 0 /\ size <= got.span
          /\ \/ size < Unit \div 2 /\ \E l \in SlabLevels : got.span = ItemSizes[l]
             \/ \E l \in PageLevels : got.span = PageSize[l]
          /\ Gives(t, v, got.addr, got.span)
      BY <1>3, <1>5 DEF Outcome
    <2>2. v.begin = c /\ v.next = t.next
      BY <1>2, <2>1 DEF Gives
    <2>3. T2 = Put(T, c, v)
      BY <2>2
    <2>. DEFINE more == {block}
    <2>4. block \in BlockType /\ block.addr = got.addr /\ block.span = got.span /\ block.size = len
      BY <2>1 DEF BlockType
    <2>5. block.size + Header <= block.span /\ (IsItem(block) \/ IsPage(block))
      BY <2>1, <2>4 DEF IsItem, IsPage
    <2>. HIDE DEF block
    <2>6. /\ more \subseteq BlockType /\ \A b, d \in more : b = d
          /\ \A b \in more : /\ b.addr = got.addr /\ b.span = got.span /\ b.size + Header <= b.span
                             /\ IsItem(b) \/ IsPage(b)
          /\ \A x \in Nat : Within(x, got.addr, got.span) => \E b \in more : InBlock(b, x)
      BY <2>4, <2>5 DEF InBlock
    <2>. HIDE DEF more, v, t
    <2>7. Given(u, T2, S, H, C, more)
      BY <2>1, <2>3, <2>6, GiveKeepsWhole DEF t
    <2>11. Whole(u, T2, S, H \cup more, C) /\ \A b \in more, d \in H : d.addr # b.addr
      BY <2>7 DEF Given
    <2>8. H \cup more = G
      BY <1>5 DEF more, block
    <2>9. \A d \in H : d.addr # got.addr
      BY <2>4, <2>11 DEF more
    <2>10. QED
      BY <1>3, <1>5, <2>2, <2>3, <2>8, <2>9, <2>11 DEF Put, t, v
  <1>6. QED
    BY <1>4, <1>5

\* The loops of HeapMemManager::Init find at most one table or section.
LEMMA ChainIs ==
    ASSUME NEW area, DOMAIN area \subseteq Nat, NEW start \in Address, NEW end,
           LinksFrom(area, start, end)
    PROVE  Chain(area, start) = IF start = None THEN <<>> ELSE <<start>>
  <1>. DEFINE D == DOMAIN area \cup {None}
              Is(g) == g = [begin \in D |-> IF begin = None THEN <<>>
                                            ELSE <<begin>> \o g[area[begin].next]]
              base == [begin \in D |-> IF begin = None THEN <<>> ELSE <<begin>> \o <<>>]
              g0 == [begin \in D |-> IF begin = None THEN <<>>
                                     ELSE <<begin>> \o base[area[begin].next]]
              Walk == CHOOSE g : Is(g)
  <1>1. /\ start # None => start \in DOMAIN area /\ start # end
        /\ \A b \in DOMAIN area : area[b].next # None => /\ b = end
                                                         /\ area[b].next \in DOMAIN area \ {end}
    BY DEF LinksFrom
  <1>2. None \notin DOMAIN area
    BY DEF None
  <1>3. Is(g0)
    <2>1. ASSUME NEW b \in DOMAIN area PROVE base[area[b].next] = g0[area[b].next]
      <3>1. CASE area[b].next = None
        BY <3>1
      <3>2. CASE area[b].next # None
        <4>. DEFINE n == area[b].next
        <4>1. n \in DOMAIN area /\ n # end /\ n # None /\ n \in D
          BY <1>1, <1>2, <3>2
        <4>2. area[n].next = None
          BY <1>1, <4>1
        <4>. HIDE DEF n
        <4>3. base[n] = <<n>> \o <<>> /\ base[None] = <<>>
          BY <4>1
        <4>4. g0[n] = <<n>> \o base[area[n].next]
          BY <4>1
        <4>. HIDE DEF base, g0
        <4>5. QED
          BY <4>2, <4>3, <4>4 DEF n
      <3>3. QED
        BY <3>1, <3>2
    <2>2. ASSUME NEW b \in D
          PROVE  g0[b] = IF b = None THEN <<>> ELSE <<b>> \o g0[area[b].next]
      <3>1. g0[b] = IF b = None THEN <<>> ELSE <<b>> \o base[area[b].next]
        OBVIOUS
      <3>. HIDE DEF g0, base
      <3>2. QED
        BY <2>1, <3>1
    <2>3. g0 = [b \in D |-> g0[b]]
      OBVIOUS
    <2>. HIDE DEF g0, D
    <2>4. QED
      BY <2>2, <2>3, Zenon
  <1>4. Is(Walk)
    <2>. HIDE DEF Is, g0
    <2>. QED
      BY <1>3
  <1>5. Chain(area, start) = Walk[start]
    BY Zenon DEF Chain
  <1>6. \A b \in D : Walk[b] = IF b = None THEN <<>> ELSE <<b>> \o Walk[area[b].next]
    <2>. HIDE DEF Walk, D
    <2>. QED
      BY <1>4
  <1>. HIDE DEF Walk, Is
  <1>7. Walk[None] = <<>>
    BY <1>6
  <1>8. CASE start # None
    <2>1. area[start].next = None /\ start \in D
      BY <1>1, <1>8
    <2>2. Walk[start] = <<start>> \o <<>>
      BY <1>6, <1>7, <1>8, <2>1
    <2>3. <<start>> \o <<>> = <<start>>
      <3>1. <<start>> \in Seq(Address)
        OBVIOUS
      <3>. DEFINE one == <<start>>
      <3>. HIDE DEF one
      <3>2. one \o <<>> = one
        BY <3>1, ConcatEmptySeq DEF one
      <3>3. QED
        BY <3>2 DEF one
    <2>4. QED
      BY <1>5, <1>8, <2>2, <2>3
  <1>9. QED
    BY <1>5, <1>7, <1>8

-----------------------------------------------------------------------------
(* The steps *)

LEMMA InitHolds == Init => Sound
  <1>. SUFFICES ASSUME Init PROVE Sound
    OBVIOUS
  <1>. USE DEF Init
  <1>1. DOMAIN tables = {} /\ DOMAIN sections = {}
    OBVIOUS
  <1>2. tables = [b \in DOMAIN tables |-> tables[b]] /\ sections = [s \in DOMAIN sections |-> sections[s]]
    OBVIOUS
  <1>0. Out = {} /\ FreedGood
    BY DEF Out, Slots, FreedGood
  <1>3. Whole(used, tables, sections, Out, lost.cells)
    <2>1. Areas(used, tables, sections)
      BY <1>1, <1>2 DEF Areas
    <2>2. Held(tables, sections, Out, lost.cells)
      BY <1>0 DEF Held
    <2>3. Shared(tables, sections, Out, lost.cells)
      BY <1>1 DEF Shared
    <2>4. QED
      BY <2>1, <2>2, <2>3 DEF Whole
  <1>4. Links
    BY <1>1 DEF Links, LinksFrom, NoHeap, Address
  <1>5. Loaded
    <2>1. <<>> \in Seq(DOMAIN tables) /\ <<>> \in Seq(DOMAIN sections)
      OBVIOUS
    <2>2. QED
      BY <2>1 DEF Loaded, Closed
  <1>6. Retry
    <2>1. loaded.pages = <<>> /\ Len(loaded.pages) = 0
      BY DEF Closed
    <2>2. QED
      BY <2>1 DEF Retry
  <1>7. QED
    BY <1>0, <1>3, <1>4, <1>5, <1>6 DEF Sound

\* What leaves the chains alone.
LEMMA LinksKeep ==
    ASSUME Sound, UNCHANGED <<used, heap, loaded>>, phase' = "open" => phase = "open",
           DOMAIN tables' = DOMAIN tables, DOMAIN sections' = DOMAIN sections,
           \A d \in DOMAIN tables : tables'[d].next = tables[d].next,
           \A s \in DOMAIN sections : sections'[s].next = sections[s].next
    PROVE  Links' /\ Loaded'
  <1>1. Links /\ Loaded
    BY DEF Sound
  <1>2. Links'
    BY <1>1 DEF Links, LinksFrom
  <1>3. Loaded'
    BY <1>1 DEF Loaded
  <1>4. QED
    BY <1>2, <1>3

\* The operations that touch the blocks only, or nothing that matters here.
LEMMA RestKeeps ==
    ASSUME Sound, UNCHANGED <<used, heap, loaded, refusals>>, phase' = "open" => phase = "open",
           DOMAIN tables' = DOMAIN tables, DOMAIN sections' = DOMAIN sections,
           \A d \in DOMAIN tables : tables'[d].next = tables[d].next /\ (tables'[d].valid <=> tables[d].valid),
           \A s \in DOMAIN sections : sections'[s].next = sections[s].next
    PROVE  Links' /\ Loaded' /\ Retry'
  <1>1. Links /\ Loaded /\ Retry
    BY DEF Sound
  <1>2. Links' /\ Loaded'
    BY LinksKeep
  <1>4. Retry'
    <2>1. \A i \in DOMAIN loaded.pages : loaded.pages[i] \in DOMAIN tables
      BY <1>1 DEF Loaded
    <2>2. DOMAIN loaded.pages = 1..Len(loaded.pages) /\ Len(loaded.pages) \in Nat
      BY <1>1 DEF Loaded
    <2>3. \A i \in 1..Len(loaded.pages) - 1 : i \in DOMAIN loaded.pages
      BY <2>2
    <2>4. heap.pageStart # None => heap.pageStart \in DOMAIN tables
      BY <1>1 DEF Links, LinksFrom
    <2>5. QED
      BY <1>1, <2>1, <2>3, <2>4 DEF Retry
  <1>5. QED
    BY <1>2, <1>4

\* Every block callers hold now begins where one did before, or where none did.
LEMMA FreedKeep ==
    ASSUME Sound, freed' = freed,
           \A b \in held' : (\E e \in held : e.addr = b.addr) \/ \A e \in Out : e.addr # b.addr
    PROVE  FreedGood'
  <1>1. FreedGood
    BY DEF Sound
  <1>2. ASSUME NEW f \in freed, NEW b \in held' PROVE f.block.addr # b.addr
    <2>1. CASE \E e \in held : e.addr = b.addr
      BY <1>1, <2>1 DEF FreedGood
    <2>2. CASE \A e \in Out : e.addr # b.addr
      BY <2>2 DEF Out, Slots
    <2>3. QED
      BY <2>1, <2>2
  <1>3. QED
    BY <1>1, <1>2 DEF FreedGood

\* The operations that touch no block.
LEMMA OutKeeps ==
    ASSUME Sound, UNCHANGED <<held, freed>>
    PROVE  Out' = Out /\ FreedGood'
  <1>1. Out' = Out
    BY DEF Out, Slots
  <1>2. FreedGood'
    BY DEF Sound, FreedGood
  <1>3. QED
    BY <1>1, <1>2

LEMMA CloseKeeps ==
    ASSUME Sound, Close
    PROVE  Sound'
  <1>. USE DEF Close
  <1>1. Links /\ Loaded /\ Retry
    BY DEF Sound
  <1>2. Links'
    BY <1>1 DEF Links
  <1>3. loaded'.pages = <<>> /\ loaded'.sections = <<>> /\ Len(loaded'.pages) = 0
    BY DEF Closed
  <1>4. Loaded'
    <2>1. <<>> \in Seq(DOMAIN tables) /\ <<>> \in Seq(DOMAIN sections)
      OBVIOUS
    <2>2. QED
      BY <2>1 DEF Loaded, Closed
  <1>5. Retry'
    BY <1>1, <1>3 DEF Retry
  <1>6. Out' = Out /\ FreedGood'
    BY OutKeeps
  <1>7. QED
    BY <1>2, <1>4, <1>5, <1>6 DEF Sound

\* A list of one address, or of none.
AtMost(a) == IF a = None THEN <<>> ELSE <<a>>

LEMMA AtMostIs ==
    ASSUME NEW D, NEW a, a # None => a \in D
    PROVE  AtMost(a) \in Seq(D)
  <1>1. <<>> \in Seq(D)
    OBVIOUS
  <1>2. ASSUME a \in D PROVE <<a>> \in Seq(D)
    BY <1>2
  <1>3. QED
    BY <1>1, <1>2 DEF AtMost

LEMMA LoadKeeps ==
    ASSUME Sound, Open, heap.formatted
    PROVE  Sound'
  <1>1. Links /\ Loaded /\ Retry /\ Areas(used, tables, sections)
    BY DEF Sound, Whole
  <1>2. /\ loaded' = [pages |-> Chain(tables, heap.pageStart),
                      sections |-> Chain(sections, heap.sectionStart)]
        /\ phase' = "open" /\ UNCHANGED <<used, heap, tables, sections, held, freed, lost, refusals>>
    BY DEF Open
  <1>3. heap.pageStart \in Address /\ heap.sectionStart \in Address
    BY <1>1 DEF Links
  <1>4. loaded'.pages = AtMost(heap.pageStart) /\ loaded'.sections = AtMost(heap.sectionStart)
    <2>1. DOMAIN tables \subseteq Nat /\ DOMAIN sections \subseteq Nat
      BY <1>1 DEF Areas
    <2>2. /\ LinksFrom(tables, heap.pageStart, heap.pageEnd)
          /\ LinksFrom(sections, heap.sectionStart, heap.sectionEnd)
      BY <1>1 DEF Links
    <2>3. Chain(tables, heap.pageStart) = AtMost(heap.pageStart)
      BY <1>3, <2>1, <2>2, ChainIs DEF AtMost
    <2>4. Chain(sections, heap.sectionStart) = AtMost(heap.sectionStart)
      BY <1>3, <2>1, <2>2, ChainIs DEF AtMost
    <2>5. QED
      BY <1>2, <2>3, <2>4
  <1>5. Links'
    BY <1>1, <1>2 DEF Links
  <1>6. Loaded'
    <2>1. /\ heap.pageStart # None => heap.pageStart \in DOMAIN tables
          /\ heap.sectionStart # None => heap.sectionStart \in DOMAIN sections
      BY <1>1 DEF Links, LinksFrom
    <2>2. AtMost(heap.pageStart) \in Seq(DOMAIN tables)
      BY <2>1, AtMostIs
    <2>3. AtMost(heap.sectionStart) \in Seq(DOMAIN sections)
      BY <2>1, AtMostIs
    <2>4. loaded' = [pages |-> loaded'.pages, sections |-> loaded'.sections]
      BY <1>2
    <2>5. QED
      BY <1>2, <1>4, <2>2, <2>3, <2>4 DEF Loaded
  <1>7. Retry'
    <2>1. CASE heap.pageStart = None
      <3>1. loaded'.pages = <<>> /\ Len(loaded'.pages) = 0 /\ DOMAIN loaded'.pages = {}
        BY <1>4, <2>1 DEF AtMost
      <3>2. QED
        BY <1>1, <1>2, <2>1, <3>1 DEF Retry
    <2>2. CASE heap.pageStart # None
      <3>. DEFINE start == heap.pageStart
      <3>1. loaded'.pages = <<start>>
        BY <1>4, <2>2 DEF AtMost
      <3>. HIDE DEF start
      <3>2. /\ Len(loaded'.pages) = 1 /\ DOMAIN loaded'.pages = 1..1 /\ loaded'.pages[1] = start
            /\ loaded'.pages # <<>>
        BY <3>1
      <3>3. start # None /\ heap'.pageStart = start /\ heap.formatted /\ refusals' = refusals
        BY <1>2, <2>2 DEF start
      <3>4. refusals \in {0, 1} /\ (refusals = 1 => ~tables[start].valid)
        BY <1>1, <2>2 DEF Retry, start
      <3>5. \A i \in DOMAIN loaded'.pages : i = 1
        BY <3>2
      <3>6. \A i \in 1..Len(loaded'.pages) - 1 : FALSE
        BY <3>2
      <3>7. tables' = tables
        BY <1>2
      <3>8. heap' = heap
        BY <1>2
      <3>9. QED
        BY <3>2, <3>3, <3>4, <3>5, <3>6, <3>7, <3>8 DEF Retry
    <2>3. QED
      BY <2>1, <2>2
  <1>8. Out' = Out /\ FreedGood'
    BY <1>2, OutKeeps
  <1>9. QED
    BY <1>2, <1>5, <1>6, <1>7, <1>8 DEF Sound

\* A new file, or one that died before its head was written.
LEMMA FormatKeeps ==
    ASSUME Sound, NEW step \in 0..5, Format(step), ~heap.formatted,
           UNCHANGED <<held, freed, lost, refusals>>
    PROVE  Sound'
  <1>1. Links /\ Loaded /\ Retry /\ Whole(used, tables, sections, Out, lost.cells)
    BY DEF Sound
  <1>2. phase' = IF step = 5 THEN "open" ELSE "closed"
    BY DEF Format
  <1>3. UNCHANGED <<lost, refusals>> /\ Out' = Out /\ FreedGood'
    BY OutKeeps
  <1>4. step \in 0..5
    OBVIOUS
  <1>. DEFINE table == used + HeapHead
              section == table + TableSize
  <1>5. /\ used' = used + HeapHead + (IF step >= 2 THEN TableSize ELSE 0)
                                   + (IF step >= 4 THEN SectionSize ELSE 0)
        /\ heap' = [NoHeap EXCEPT !.formatted = step >= 1,
                                  !.pageStart = IF step >= 3 THEN table ELSE None,
                                  !.sectionStart = IF step = 5 THEN section ELSE None]
        /\ tables' = IF step >= 2 THEN Put(tables, table, NewTable(table)) ELSE tables
        /\ sections' = IF step >= 4 THEN Put(sections, section, NewSection(section)) ELSE sections
        /\ loaded' = IF step = 5 THEN [pages |-> <<table>>, sections |-> <<section>>] ELSE Closed
    BY DEF Format
  <1>6. /\ used \in Nat /\ table \in Nat /\ section \in Nat /\ HeapHead <= table /\ HeapHead <= section
        /\ used <= table /\ section = table + TableSize /\ table <= section
    <2>1. used \in Nat
      BY <1>1 DEF Whole, Areas
    <2>2. HeapHead \in Nat /\ TableSize \in Nat
      BY Constants
    <2>3. QED
      BY <2>1, <2>2
  <1>. HIDE DEF table, section
  <1>0. /\ step < 2 => used' = table
        /\ step >= 2 /\ step < 4 => used' = section
        /\ step >= 4 => used' = section + SectionSize
    <2>1. step \in Nat /\ HeapHead \in Nat /\ TableSize \in Nat /\ SectionSize \in Nat
      BY <1>4, Constants
    <2>2. used' = used + HeapHead + (IF step >= 2 THEN TableSize ELSE 0)
                                  + (IF step >= 4 THEN SectionSize ELSE 0)
      BY <1>5
    <2>3. QED
      BY <1>6, <2>1, <2>2 DEF table
  <1>7. used' \in Nat /\ used <= used' /\ HeapHead <= used'
    <2>1. step \in Nat /\ SectionSize \in Nat /\ HeapHead \in Nat
      BY <1>4, Constants
    <2>2. QED
      BY <1>0, <1>6, <2>1
  <1>8. Whole(used', tables', sections', Out, lost.cells)
    <2>1. CASE step < 2
      <3>1. tables' = tables /\ sections' = sections
        BY <1>4, <1>5, <2>1
      <3>2. QED
        BY <1>1, <1>7, <3>1, RoomKeepsWhole
    <2>2. CASE step >= 2 /\ step < 4
      <3>1. tables' = Put(tables, table, NewTable(table)) /\ sections' = sections
        BY <1>4, <1>5, <2>2
      <3>2. table + TableSize <= used'
        BY <1>0, <1>6, <2>2
      <3>3. QED
        BY <1>1, <1>6, <1>7, <3>1, <3>2, AddTableKeepsWhole
    <2>3. CASE step >= 4
      <3>0. step >= 2 /\ SectionSize \in Nat
        BY <1>4, <2>3, Constants
      <3>1. /\ tables' = Put(tables, table, NewTable(table))
            /\ sections' = Put(sections, section, NewSection(section))
        BY <1>5, <2>3, <3>0
      <3>2. table + TableSize <= section /\ section <= section /\ section + SectionSize <= used'
        BY <1>0, <1>6, <2>3, <3>0
      <3>3. Whole(section, tables', sections, Out, lost.cells)
        BY <1>1, <1>6, <3>1, <3>2, AddTableKeepsWhole
      <3>4. QED
        BY <1>6, <1>7, <3>1, <3>2, <3>3, AddSectionKeepsWhole
    <2>4. QED
      BY <1>4, <2>1, <2>2, <2>3
  <1>9. /\ heap = NoHeap /\ heap.pageStart = None /\ heap.pageEnd = None
        /\ heap.sectionStart = None /\ heap.sectionEnd = None /\ refusals = 0
    BY <1>1 DEF Links, NoHeap, Retry
  <1>10. /\ DOMAIN tables' = DOMAIN tables \cup (IF step >= 2 THEN {table} ELSE {})
         /\ DOMAIN sections' = DOMAIN sections \cup (IF step >= 4 THEN {section} ELSE {})
    BY <1>5 DEF Put
  <1>11. /\ \A b \in DOMAIN tables' : tables'[b].next = None
         /\ \A s \in DOMAIN sections' : sections'[s].next = None
    <2>1. DOMAIN tables \subseteq Nat /\ DOMAIN sections \subseteq Nat
      BY <1>1 DEF Whole, Areas
    <2>2. \A b \in DOMAIN tables : b # None
      BY <2>1 DEF None
    <2>3. \A s \in DOMAIN sections : s # None
      BY <2>1 DEF None
    <2>4. \A b \in DOMAIN tables : tables[b].next = None
      BY <1>1, <1>9, <2>2 DEF Links, LinksFrom
    <2>5. \A s \in DOMAIN sections : sections[s].next = None
      BY <1>1, <1>9, <2>3 DEF Links, LinksFrom
    <2>6. NewTable(table).next = None /\ NewSection(section).next = None
      BY DEF NewTable, NewSection
    <2>7. \A b \in DOMAIN tables' : tables'[b].next = None
      BY <1>5, <2>4, <2>6 DEF Put
    <2>8. \A s \in DOMAIN sections' : sections'[s].next = None
      BY <1>5, <2>5, <2>6 DEF Put
    <2>9. QED
      BY <2>7, <2>8
  <1>12. /\ heap'.formatted = (step >= 1) /\ heap'.pageEnd = None /\ heap'.sectionEnd = None
         /\ heap'.pageStart = (IF step >= 3 THEN table ELSE None)
         /\ heap'.sectionStart = (IF step = 5 THEN section ELSE None)
         /\ heap' = [formatted |-> heap'.formatted, pageStart |-> heap'.pageStart, pageEnd |-> None,
                     sectionStart |-> heap'.sectionStart, sectionEnd |-> None]
    <2>. DEFINE f == step >= 1
                a == IF step >= 3 THEN table ELSE None
                b == IF step = 5 THEN section ELSE None
    <2>1. heap' = [NoHeap EXCEPT !.formatted = f, !.pageStart = a, !.sectionStart = b]
      BY <1>5
    <2>. HIDE DEF f, a, b
    <2>2. heap' = [formatted |-> f, pageStart |-> a, pageEnd |-> None,
                   sectionStart |-> b, sectionEnd |-> None]
      BY <2>1 DEF NoHeap
    <2>3. QED
      BY <2>2 DEF f, a, b
  <1>13. Links'
    <2>1. /\ heap'.pageStart \in Address /\ heap'.sectionStart \in Address /\ None \in Address
          /\ heap'.formatted \in BOOLEAN
      BY <1>6, <1>12 DEF Address
    <2>2. heap' \in [formatted : BOOLEAN, pageStart : Address, pageEnd : Address,
                     sectionStart : Address, sectionEnd : Address]
      BY <1>12, <2>1
    <2>3. ~heap'.formatted => heap' = NoHeap
      <3>. SUFFICES ASSUME ~heap'.formatted PROVE heap' = NoHeap
        OBVIOUS
      <3>1. ~(step >= 1) /\ step \in 0..5
        BY <1>4, <1>12
      <3>2. heap'.pageStart = None /\ heap'.sectionStart = None /\ heap'.formatted = FALSE
        BY <1>12, <3>1
      <3>3. QED
        BY <1>12, <3>2 DEF NoHeap
    <2>4. phase' = "open" => heap'.formatted
      <3>1. phase' = "open" => step = 5
        BY <1>2
      <3>2. step = 5 => step >= 1
        OBVIOUS
      <3>3. QED
        BY <1>12, <3>1, <3>2
    <2>5. LinksFrom(tables', heap'.pageStart, heap'.pageEnd)
      BY <1>4, <1>6, <1>10, <1>11, <1>12 DEF LinksFrom
    <2>6. LinksFrom(sections', heap'.sectionStart, heap'.sectionEnd)
      BY <1>4, <1>6, <1>10, <1>11, <1>12 DEF LinksFrom
    <2>7. QED
      BY <1>7, <2>2, <2>3, <2>4, <2>5, <2>6 DEF Links
  <1>14. CASE step = 5
    <2>1. loaded' = [pages |-> <<table>>, sections |-> <<section>>]
      BY <1>5, <1>14
    <2>2. table \in DOMAIN tables' /\ section \in DOMAIN sections' /\ heap'.pageStart = table
      BY <1>10, <1>12, <1>14
    <2>3. <<table>> \in Seq(DOMAIN tables') /\ <<section>> \in Seq(DOMAIN sections')
      BY <2>2
    <2>4. Loaded'
      BY <2>1, <2>3 DEF Loaded
    <2>5. /\ Len(loaded'.pages) = 1 /\ loaded'.pages[1] = table /\ loaded'.pages # <<>>
      BY <2>1
    <2>6. Retry'
      BY <1>3, <1>9, <2>2, <2>5 DEF Retry
    <2>7. QED
      BY <1>3, <1>8, <1>13, <2>4, <2>6 DEF Sound
  <1>15. CASE step # 5
    <2>1. loaded' = Closed /\ phase' = "closed"
      BY <1>2, <1>5, <1>15
    <2>2. loaded'.pages = <<>> /\ Len(loaded'.pages) = 0
      BY <2>1 DEF Closed
    <2>3. Loaded'
      <3>1. <<>> \in Seq(DOMAIN tables') /\ <<>> \in Seq(DOMAIN sections')
        OBVIOUS
      <3>2. QED
        BY <2>1, <3>1 DEF Loaded, Closed
    <2>4. Retry'
      BY <1>3, <1>9, <2>1, <2>2 DEF Retry
    <2>5. QED
      BY <1>3, <1>8, <1>13, <2>3, <2>4 DEF Sound
  <1>16. QED
    BY <1>14, <1>15

\* Only the last of the loaded tables can be open, and none is after a refusal.
LEMMA FirstOpenIs ==
    ASSUME Sound, OpenTables # {}
    PROVE  /\ Len(loaded.pages) \in Nat \ {0} /\ DOMAIN loaded.pages = 1..Len(loaded.pages)
           /\ loaded.pages[Len(loaded.pages)] \in DOMAIN tables
           /\ FirstOpen = tables[loaded.pages[Len(loaded.pages)]] /\ FirstOpen.valid
           /\ refusals = 0
  <1>1. Loaded /\ Retry
    BY DEF Sound
  <1>2. /\ Len(loaded.pages) \in Nat /\ DOMAIN loaded.pages = 1..Len(loaded.pages)
        /\ \A i \in DOMAIN loaded.pages : loaded.pages[i] \in DOMAIN tables
    BY <1>1 DEF Loaded
  <1>3. ASSUME NEW i \in OpenTables PROVE i = Len(loaded.pages)
    <2>1. i \in 1..Len(loaded.pages) /\ tables[loaded.pages[i]].valid
      BY <1>2 DEF OpenTables
    <2>2. i \notin 1..Len(loaded.pages) - 1
      BY <1>1, <2>1 DEF Retry
    <2>3. QED
      BY <1>2, <2>1, <2>2
  <1>4. OpenTables \in SUBSET Nat
    BY <1>2 DEF OpenTables
  <1>5. Min(OpenTables) \in OpenTables
    BY <1>4, LeastIs
  <1>6. Min(OpenTables) = Len(loaded.pages)
    BY <1>3, <1>5
  <1>7. Min(OpenTables) \in DOMAIN loaded.pages /\ FirstOpen.valid
    BY <1>5 DEF OpenTables, FirstOpen
  <1>8. refusals = 0
    BY <1>1, <1>7 DEF Retry, FirstOpen
  <1>9. QED
    BY <1>2, <1>6, <1>7, <1>8 DEF FirstOpen

\* The caller's end of a request, and what its block is to the blocks there were.
LEMMA AnswerOut ==
    ASSUME NEW area, NEW got, NEW len, Answer(area, got, len), freed' = freed
    PROVE  Out' = IF got.addr = None THEN Out
                  ELSE Out \cup {[addr |-> got.addr, span |-> got.span, size |-> len]}
  BY DEF Answer, Out, Slots

LEMMA AnswerFreed ==
    ASSUME Sound, NEW area, NEW got, NEW len, Answer(area, got, len), freed' = freed,
           got.addr # None => \A d \in Out : d.addr # got.addr
    PROVE  FreedGood'
  <1>. DEFINE new == [addr |-> got.addr, span |-> got.span, size |-> len]
  <1>1. held' = IF got.addr = None THEN held ELSE held \cup {new}
    BY DEF Answer
  <1>. HIDE DEF new
  <1>2. CASE held' = held
    BY <1>2, OutKeeps
  <1>3. CASE held' = held \cup {new} /\ got.addr # None
    <2>1. \A d \in Out : d.addr # new.addr
      BY <1>3 DEF new
    <2>2. QED
      BY <1>3, <2>1, FreedKeep
  <1>4. QED
    BY <1>1, <1>2, <1>3

LEMMA AllocFromTableKeeps ==
    ASSUME Sound, phase = "open", NEW len \in Lens, divide_size(len + Header) # "huge",
           AllocFromTable(len)
    PROVE  Sound'
  <1>. DEFINE last == Len(loaded.pages)
              c == loaded.pages[last]
  <1>1. /\ OpenTables # {} /\ UNCHANGED <<used, heap, sections, loaded, freed, lost, phase>>
    BY DEF AllocFromTable
  <1>2. PICK got \in AllocData(FirstOpen, len + Header) : Answer(tables, got, len)
    BY DEF AllocFromTable
  <1>3. /\ last \in Nat \ {0} /\ DOMAIN loaded.pages = 1..last /\ c \in DOMAIN tables
        /\ FirstOpen = tables[c] /\ tables[c].valid /\ refusals = 0
    BY <1>1, FirstOpenIs
  <1>4. len \in Nat
    BY Constants
  <1>5. Whole(used, tables, sections, Out, lost.cells) /\ Links /\ Loaded /\ Retry
    BY DEF Sound
  <1>. HIDE DEF last, c
  <1>6. /\ tables' = Put(tables, got.table.begin, got.table)
        /\ Out' = IF got.addr = None THEN Out
                  ELSE Out \cup {[addr |-> got.addr, span |-> got.span, size |-> len]}
        /\ refusals' = IF got.addr = None THEN 1 ELSE 0
    <2>1. /\ tables' = Put(tables, got.table.begin, got.table)
          /\ refusals' = IF got.addr = None THEN 1 ELSE 0
      BY <1>2, <1>3 DEF Answer
    <2>2. Out' = IF got.addr = None THEN Out
                 ELSE Out \cup {[addr |-> got.addr, span |-> got.span, size |-> len]}
      BY <1>1, <1>2, AnswerOut
    <2>3. QED
      BY <2>1, <2>2
  <1>7. got \in AllocData(tables[c], len + Header)
    BY <1>2, <1>3
  <1>8. /\ Whole(used, tables', sections, Out', lost.cells) /\ DOMAIN tables' = DOMAIN tables
        /\ \A d \in DOMAIN tables : d # c => tables'[d] = tables[d]
        /\ tables'[c].next = tables[c].next /\ (tables'[c].valid <=> tables[c].valid /\ got.addr # None)
        /\ got.addr # None => \A d \in Out : d.addr # got.addr
    <2>1. tables' = Put(tables, got.table.begin, got.table)
      BY <1>6
    <2>2. Out' = IF got.addr = None THEN Out
                 ELSE Out \cup {[addr |-> got.addr, span |-> got.span, size |-> len]}
      BY <1>6
    <2>3. Whole(used, tables, sections, Out, lost.cells)
      BY <1>5
    <2>4. c \in DOMAIN tables /\ len \in Nat
      BY <1>3, <1>4
    <2>5. Answered(used, tables, sections, Out, lost.cells, c, got, tables', Out')
      BY <1>7, <2>1, <2>2, <2>3, <2>4, AnswerKeepsWhole
    <2>6. QED
      BY <2>5 DEF Answered
  <1>9. \A d \in DOMAIN tables : tables'[d].next = tables[d].next
    BY <1>8
  <1>10. Links' /\ Loaded'
    BY <1>1, <1>8, <1>9, LinksKeep
  <1>11. Retry'
    <2>1. \A i \in 1..last : loaded.pages[i] \in DOMAIN tables
      BY <1>3, <1>5 DEF Loaded
    <2>2. ASSUME NEW i \in 1..last - 1 PROVE ~tables'[loaded.pages[i]].valid
      <3>1. ~tables[loaded.pages[i]].valid
        BY <1>5 DEF Retry, last
      <3>2. loaded.pages[i] # c /\ i \in 1..last
        BY <1>3, <3>1
      <3>3. QED
        BY <1>8, <2>1, <3>1, <3>2
    <2>3. got.addr = None => ~tables'[loaded.pages[last]].valid
      BY <1>8 DEF c
    <2>4. got.addr = None => \A i \in DOMAIN loaded.pages : ~tables'[loaded.pages[i]].valid
      BY <1>3, <2>2, <2>3
    <2>5. heap.pageStart # None => heap.pageStart = loaded.pages[1] /\ 1 \in DOMAIN loaded.pages
      BY <1>3, <1>5 DEF Retry
    <2>6. heap.formatted
      BY <1>5 DEF Links
    <2>7. refusals' \in {0, 1} /\ (refusals' = 1 => got.addr = None)
      BY <1>6
    <2>8. phase = "open" /\ heap.pageStart # None => loaded.pages # <<>> /\ loaded.pages[1] = heap.pageStart
      BY <1>5 DEF Retry
    <2>9. \A i \in 1..Len(loaded.pages) - 1 : ~tables'[loaded.pages[i]].valid
      BY <2>2 DEF last
    <2>10. heap' = heap /\ loaded' = loaded /\ phase' = phase
      BY <1>1
    <2>11. QED
      BY <2>4, <2>5, <2>6, <2>7, <2>8, <2>9, <2>10 DEF Retry
  <1>12. FreedGood'
    BY <1>1, <1>2, <1>8, AnswerFreed
  <1>13. lost = [frees |-> lost.frees, cells |-> lost.cells] /\ lost.frees \in Nat
    BY DEF Sound
  <1>14. QED
    BY <1>1, <1>5, <1>8, <1>10, <1>11, <1>12, <1>13 DEF Sound

-----------------------------------------------------------------------------
(* New tables and sections *)

LEMMA PutTwice ==
    ASSUME NEW f, NEW k, NEW v, NEW w
    PROVE  Put(Put(f, k, v), k, w) = Put(f, k, w)
  <1>1. DOMAIN Put(f, k, v) = {k} \cup DOMAIN f /\ \A x \in DOMAIN f : x # k => Put(f, k, v)[x] = f[x]
    BY DEF Put
  <1>. DEFINE g == Put(f, k, v)
  <1>2. g = Put(f, k, v)
    OBVIOUS
  <1>. HIDE DEF g
  <1>3. {k} \cup DOMAIN g = {k} \cup DOMAIN f
    BY <1>1, <1>2
  <1>4. \A x \in {k} \cup DOMAIN f : (IF x = k THEN w ELSE g[x]) = (IF x = k THEN w ELSE f[x])
    BY <1>1, <1>2
  <1>5. Put(g, k, w) = Put(f, k, w)
    BY <1>3, <1>4 DEF Put
  <1>6. QED
    BY <1>2, <1>5

\* A table or section v is added, and linked to the first extension if there is one.
Lengthened(A, B, end, v) ==
    /\ DOMAIN A \subseteq Nat /\ end \in Address /\ v \in Nat /\ v \notin DOMAIN A
    /\ DOMAIN B = DOMAIN A \cup {v} /\ B[v].next = None
    /\ \A b \in DOMAIN A : B[b].next = IF b = end THEN v ELSE A[b].next

\* UpdatePageOffset and UpdateSectionOffset lengthen a chain as LinksFrom says.
LEMMA LinkIs ==
    ASSUME NEW A, NEW B, NEW start, NEW end, NEW v, LinksFrom(A, start, end),
           Lengthened(A, B, end, v), NEW last, last = IF end = None THEN v ELSE end
    PROVE  LinksFrom(B, start, last)
  <1>. USE DEF Lengthened
  <1>1. None \notin Nat
    BY DEF None
  <1>2. CASE end = None
    <2>1. \A b \in DOMAIN A : b # None /\ A[b].next = None
      BY <1>1, <1>2 DEF LinksFrom
    <2>2. \A b \in DOMAIN B : B[b].next = None
      BY <1>2, <2>1
    <2>3. start # None => start \in DOMAIN A
      BY DEF LinksFrom
    <2>4. LinksFrom(B, start, v)
      BY <2>2, <2>3 DEF LinksFrom
    <2>5. QED
      BY <1>2, <2>4
  <1>3. CASE end # None
    <2>1. /\ start # None => start \in DOMAIN A
          /\ end \in DOMAIN A /\ (start = end => start = None)
      BY <1>3 DEF LinksFrom
    <2>2. \A b \in DOMAIN B : B[b].next # None => b = end /\ B[b].next = v
      BY <1>3 DEF LinksFrom
    <2>3. v \in DOMAIN B \ {end}
      BY <2>1
    <2>4. LinksFrom(B, start, end)
      BY <2>1, <2>2, <2>3 DEF LinksFrom
    <2>5. QED
      BY <1>3, <2>4
  <1>4. QED
    BY <1>2, <1>3

LEMMA LinkTableIs ==
    ASSUME Sound, NEW b \in Nat, NEW T, T = LinkTable(b)
    PROVE  /\ Whole(used, T, sections, Out, lost.cells) /\ DOMAIN T = DOMAIN tables
           /\ \A c \in DOMAIN tables : /\ T[c].valid <=> tables[c].valid
                                       /\ T[c].next = IF c = heap.pageEnd THEN b ELSE tables[c].next
  <1>1. /\ Whole(used, tables, sections, Out, lost.cells)
        /\ LinksFrom(tables, heap.pageStart, heap.pageEnd) /\ DOMAIN tables \subseteq Nat
    BY DEF Sound, Links, Whole, Areas
  <1>2. CASE heap.pageEnd = None
    <2>1. T = tables
      BY <1>2 DEF LinkTable
    <2>2. \A c \in DOMAIN tables : c # heap.pageEnd
      BY <1>1, <1>2 DEF None
    <2>3. QED
      BY <1>1, <2>1, <2>2
  <1>3. CASE heap.pageEnd # None
    <2>1. heap.pageEnd \in DOMAIN tables
      BY <1>1, <1>3 DEF LinksFrom
    <2>2. T = [tables EXCEPT ![heap.pageEnd].next = b]
      BY <1>3 DEF LinkTable
    <2>. DEFINE e == heap.pageEnd
    <2>3. e \in DOMAIN tables /\ T = Linked(tables, e, b)
      BY <2>1, <2>2 DEF Linked
    <2>4. \A c \in DOMAIN tables : c = heap.pageEnd <=> c = e
      OBVIOUS
    <2>. HIDE DEF e
    <2>5. /\ Whole(used, T, sections, Out, lost.cells) /\ DOMAIN T = DOMAIN tables /\ T[e].next = b
          /\ \A c \in DOMAIN tables : c # e => T[c] = tables[c]
          /\ \A c \in DOMAIN tables : T[c].valid <=> tables[c].valid
      <3>1. Whole(used, tables, sections, Out, lost.cells)
        BY <1>1
      <3>2. e \in DOMAIN tables
        BY <2>3
      <3>3. T = Linked(tables, e, b)
        BY <2>3
      <3>4. QED
        BY <3>1, <3>2, <3>3, LinkTableKeepsWhole
    <2>6. \A c \in DOMAIN tables : T[c].next = IF c = e THEN b ELSE tables[c].next
      BY <2>5
    <2>7. QED
      BY <2>4, <2>5, <2>6
  <1>4. QED
    BY <1>2, <1>3

LEMMA AllocFromNewTableKeeps ==
    ASSUME Sound, phase = "open", Intact', NEW len \in Lens, divide_size(len + Header) # "huge",
           AllocFromNewTable(len)
    PROVE  Sound'
  <1>. DEFINE new == NewTable(used)
              T0 == LinkTable(used)
              T1 == Put(T0, used, new)
  <1>1. CASE OverlayTable(len)
    BY <1>1 DEF OverlayTable, Intact
  <1>2. CASE /\ used' = used + TableSize
             /\ loaded' = [loaded EXCEPT !.pages = Append(@, used)]
             /\ heap' = [heap EXCEPT !.pageEnd = IF @ = None THEN used ELSE @]
             /\ \E got \in AllocData(new, len + Header) : Answer(LinkTable(used), got, len)
             /\ UNCHANGED <<sections, freed, lost, phase>>
    <2>1. PICK got \in AllocData(new, len + Header) : Answer(T0, got, len)
      BY <1>2
    <2>2. /\ Whole(used, tables, sections, Out, lost.cells) /\ Links /\ Loaded /\ Retry
          /\ used \in Nat /\ DOMAIN tables \subseteq Nat
      BY DEF Sound, Whole, Areas
    <2>3. heap.formatted /\ HeapHead <= used
      BY <2>2 DEF Links
    <2>4. len \in Nat /\ TableSize \in Nat
      BY Constants
    <2>5. used' \in Nat /\ used <= used' /\ used + TableSize <= used' /\ HeapHead <= used' /\ used <= used
      <3>1. HeapHead \in Nat
        BY Constants
      <3>2. used' = used + TableSize
        BY <1>2
      <3>3. QED
        BY <2>2, <2>3, <2>4, <3>1, <3>2
    <2>. HIDE DEF T0
    <2>6. /\ Whole(used, T0, sections, Out, lost.cells) /\ DOMAIN T0 = DOMAIN tables
          /\ \A c \in DOMAIN tables :
                /\ T0[c].valid <=> tables[c].valid
                /\ T0[c].next = IF c = heap.pageEnd THEN used ELSE tables[c].next
      BY <2>2, LinkTableIs DEF T0
    <2>7. T1 = Put(T0, used, NewTable(used))
      OBVIOUS
    <2>. HIDE DEF T1
    <2>8. Whole(used', T1, sections, Out, lost.cells) /\ used \notin DOMAIN T0
      BY <2>2, <2>3, <2>5, <2>6, <2>7, AddTableKeepsWhole
    <2>9. /\ DOMAIN T1 = {used} \cup DOMAIN tables /\ T1[used] = new
          /\ \A c \in DOMAIN tables : c # used => T1[c] = T0[c]
      <3>1. /\ DOMAIN T1 = {used} \cup DOMAIN T0 /\ T1[used] = NewTable(used)
            /\ \A c \in DOMAIN T0 : c # used => T1[c] = T0[c]
        BY <2>7 DEF Put
      <3>2. DOMAIN T0 = DOMAIN tables
        BY <2>6
      <3>3. QED
        BY <3>1, <3>2
    <2>10. /\ tables' = Put(T0, got.table.begin, got.table)
           /\ Out' = IF got.addr = None THEN Out
                     ELSE Out \cup {[addr |-> got.addr, span |-> got.span, size |-> len]}
           /\ refusals' = IF got.addr = None THEN refusals + 1 ELSE 0
      <3>1. /\ tables' = Put(T0, got.table.begin, got.table)
            /\ refusals' = IF got.addr = None THEN refusals + 1 ELSE 0
        BY <2>1 DEF Answer
      <3>2. Out' = IF got.addr = None THEN Out
                   ELSE Out \cup {[addr |-> got.addr, span |-> got.span, size |-> len]}
        BY <1>2, <2>1, AnswerOut
      <3>3. QED
        BY <3>1, <3>2
    <2>. DEFINE T2 == Put(T1, got.table.begin, got.table)
    <2>11. T2 = Put(T1, got.table.begin, got.table)
      OBVIOUS
    <2>. HIDE DEF T2
    <2>12. /\ Whole(used', T2, sections, Out', lost.cells) /\ DOMAIN T2 = DOMAIN T1
           /\ got.table.begin = used
           /\ \A d \in DOMAIN T1 : d # used => T2[d] = T1[d]
           /\ T2[used].next = T1[used].next
           /\ got.addr # None => \A d \in Out : d.addr # got.addr
      <3>1. Out' = IF got.addr = None THEN Out
                   ELSE Out \cup {[addr |-> got.addr, span |-> got.span, size |-> len]}
        BY <2>10
      <3>2. got \in AllocData(T1[used], len + Header)
        BY <2>1, <2>9
      <3>3. used \in DOMAIN T1
        BY <2>9
      <3>. HIDE DEF new
      <3>4. Whole(used', T1, sections, Out, lost.cells) /\ len \in Nat
        BY <2>4, <2>8
      <3>5. Answered(used', T1, sections, Out, lost.cells, used, got, T2, Out')
        BY <2>11, <3>1, <3>2, <3>3, <3>4, AnswerKeepsWhole
      <3>6. QED
        BY <3>5 DEF Answered
    <2>13. tables' = T2
      <3>1. got.table.begin = used
        BY <2>12
      <3>2. T2 = Put(Put(T0, used, new), used, got.table)
        BY <2>11, <3>1 DEF T1
      <3>3. tables' = Put(T0, used, got.table)
        BY <2>10, <3>1
      <3>. HIDE DEF new
      <3>4. QED
        BY <3>2, <3>3, PutTwice
    <2>14. got.addr # None
      BY <2>1, <2>2, <2>4, Constants, NewTableServes
    <2>15. /\ DOMAIN tables' = DOMAIN tables \cup {used} /\ used \notin DOMAIN tables
           /\ tables'[used].next = None
           /\ \A c \in DOMAIN tables :
                /\ tables'[c].valid <=> tables[c].valid
                /\ tables'[c].next = IF c = heap.pageEnd THEN used ELSE tables[c].next
      <3>1. new.next = None
        BY DEF NewTable
      <3>. HIDE DEF new
      <3>2. \A c \in DOMAIN tables : c # used /\ tables'[c] = T0[c]
        BY <2>6, <2>8, <2>9, <2>12, <2>13
      <3>3. tables'[used].next = None
        BY <2>9, <2>12, <2>13, <3>1
      <3>4. DOMAIN tables' = DOMAIN tables \cup {used} /\ used \notin DOMAIN tables
        BY <2>6, <2>8, <2>9, <2>12, <2>13
      <3>5. QED
        BY <2>6, <3>2, <3>3, <3>4
    <2>. HIDE DEF new
    <2>16. /\ heap.pageEnd \in Address /\ heap.pageStart \in Address
           /\ heap'.formatted = heap.formatted /\ heap'.pageStart = heap.pageStart
           /\ heap'.sectionStart = heap.sectionStart /\ heap'.sectionEnd = heap.sectionEnd
           /\ heap'.pageEnd = IF heap.pageEnd = None THEN used ELSE heap.pageEnd
      BY <1>2, <2>2 DEF Links
    <2>17. Links'
      <3>1. LinksFrom(tables, heap.pageStart, heap.pageEnd)
        BY <2>2 DEF Links
      <3>2. LinksFrom(tables', heap.pageStart, IF heap.pageEnd = None THEN used ELSE heap.pageEnd)
        <4>. DEFINE end == heap.pageEnd
                    last == IF end = None THEN used ELSE end
        <4>1. Lengthened(tables, tables', end, used)
          BY <2>2, <2>15, <2>16 DEF Lengthened
        <4>. HIDE DEF end
        <4>2. last = IF end = None THEN used ELSE end
          OBVIOUS
        <4>3. LinksFrom(tables, heap.pageStart, end)
          BY <3>1 DEF end
        <4>. HIDE DEF last
        <4>4. LinksFrom(tables', heap.pageStart, last)
          BY <4>1, <4>2, <4>3, LinkIs
        <4>5. QED
          BY <4>4 DEF end, last
      <3>3. LinksFrom(tables', heap'.pageStart, heap'.pageEnd)
        BY <2>16, <3>2
      <3>4. LinksFrom(sections', heap'.sectionStart, heap'.sectionEnd)
        BY <1>2, <2>2, <2>16 DEF Links
      <3>5. heap' \in [formatted : BOOLEAN, pageStart : Address, pageEnd : Address,
                       sectionStart : Address, sectionEnd : Address]
        <4>1. used \in Address
          BY <2>2 DEF Address
        <4>2. QED
          BY <1>2, <2>2, <4>1 DEF Links
      <3>6. heap'.formatted
        BY <2>3, <2>16
      <3>7. QED
        BY <2>5, <3>3, <3>4, <3>5, <3>6 DEF Links
    <2>18. /\ loaded'.pages = Append(loaded.pages, used) /\ loaded'.sections = loaded.sections
           /\ loaded' = [pages |-> loaded'.pages, sections |-> loaded'.sections]
      BY <1>2, <2>2 DEF Loaded
    <2>. DEFINE n == Len(loaded.pages)
    <2>19. /\ loaded.pages \in Seq(DOMAIN tables) /\ n \in Nat /\ DOMAIN loaded.pages = 1..n
           /\ \A i \in 1..n : loaded.pages[i] \in DOMAIN tables
      BY <2>2 DEF Loaded
    <2>20. Loaded'
      <3>1. loaded.pages \in Seq(DOMAIN tables') /\ used \in DOMAIN tables'
        <4>1. DOMAIN tables \subseteq DOMAIN tables' /\ used \in DOMAIN tables'
          BY <2>15
        <4>2. QED
          BY <2>19, <4>1
      <3>2. Append(loaded.pages, used) \in Seq(DOMAIN tables')
        BY <3>1, AppendProperties
      <3>3. loaded'.sections \in Seq(DOMAIN sections')
        BY <1>2, <2>2, <2>18 DEF Loaded
      <3>4. QED
        BY <2>18, <3>2, <3>3 DEF Loaded
    <2>21. /\ Len(loaded'.pages) = n + 1 /\ loaded'.pages # <<>>
           /\ \A i \in 1..n : loaded'.pages[i] = loaded.pages[i]
      BY <2>18, <2>19, AppendProperties
    <2>22. Retry'
      <3>1. refusals' = 0
        BY <2>10, <2>14
      <3>2. \A i \in 1..n : ~tables[loaded.pages[i]].valid
        <4>1. OpenTables = {}
          BY DEF AllocFromNewTable
        <4>2. QED
          BY <2>19, <4>1 DEF OpenTables
      <3>3. \A i \in 1..n : ~tables'[loaded'.pages[i]].valid
        BY <2>15, <2>19, <2>21, <3>2
      <3>4. n + 1 - 1 = n
        BY <2>19
      <3>5. \A i \in 1..Len(loaded'.pages) - 1 : ~tables'[loaded'.pages[i]].valid
        BY <2>21, <3>3, <3>4
      <3>6. heap.pageStart # None => loaded.pages # <<>> /\ loaded.pages[1] = heap.pageStart
        BY <2>2 DEF Retry
      <3>7. heap.pageStart # None => loaded'.pages[1] = heap.pageStart
        <4>1. loaded.pages # <<>> => n # 0
          BY <2>19
        <4>2. n # 0 => 1 \in 1..n
          BY <2>19
        <4>3. QED
          BY <2>21, <3>6, <4>1, <4>2
      <3>8. QED
        BY <2>16, <2>21, <3>1, <3>5, <3>7 DEF Retry
    <2>23. QED
      <3>1. Whole(used', tables', sections', Out', lost'.cells) /\ lost' = lost
        BY <1>2, <2>12, <2>13
      <3>2. lost = [frees |-> lost.frees, cells |-> lost.cells] /\ lost.frees \in Nat
        BY DEF Sound
      <3>3. FreedGood'
        BY <1>2, <2>1, <2>12, AnswerFreed
      <3>4. QED
        BY <2>17, <2>20, <2>22, <3>1, <3>2, <3>3 DEF Sound
  <1>3. QED
    BY <1>1, <1>2 DEF AllocFromNewTable

LEMMA HugeIs ==
    ASSUME NEW size \in Nat, divide_size(size) = "huge"
    PROVE  Unit <= size
  <1>1. MaxLevels - 1 \in 0..MaxLevels /\ Unit \in Nat
    BY Constants
  <1>2. PageSize[MaxLevels - 1] \in Nat /\ Unit <= PageSize[MaxLevels - 1]
    BY <1>1, Doubles, Grows
  <1>. DEFINE half == Unit \div 2
              top == PageSize[MaxLevels - 1]
  <1>3. half \in Nat
    BY <1>1
  <1>4. ~(size < half) /\ size \notin half..top - 1
    BY DEF divide_size
  <1>5. top \in Nat /\ Unit <= top
    BY <1>2
  <1>. HIDE DEF half, top
  <1>6. size >= top
    BY <1>3, <1>4, <1>5
  <1>7. QED
    BY <1>1, <1>5, <1>6

\* What SectionMemTable hands out.
LEMMA CarveIs ==
    ASSUME Sound, freed' = freed, NEW u, NEW area, Whole(u, tables, area, Out, lost.cells), NEW s \in DOMAIN area,
           NEW len \in Nat, divide_size(len + Header) = "huge",
           area[s].current + (len + Header) <= s + SectionSize, Carve(area, s, len)
    PROVE  /\ Whole(u, tables, sections', Out', lost.cells)
           /\ DOMAIN sections' = DOMAIN area
           /\ \A r \in DOMAIN area : sections'[r].next = area[r].next
           /\ FreedGood'
  <1>. DEFINE n == len + Header
              b == [addr |-> area[s].current, span |-> n, size |-> len]
  <1>1. area[s] \in [current : Nat, next : Address] /\ area = [r \in DOMAIN area |-> area[r]]
    BY DEF Whole, Areas
  <1>2. area[s].current \in Nat /\ Header \in Nat /\ Header > 0 /\ Unit \in Nat
    BY <1>1, Constants
  <1>3. n \in Nat /\ n > 0 /\ Unit <= n
    BY <1>2, HugeIs
  <1>4. area[s].current + len + Header = area[s].current + n
    BY <1>2
  <1>5. sections' = Advanced(area, s, n)
    <2>1. sections' = [area EXCEPT ![s].current = area[s].current + len + Header]
      BY DEF Carve
    <2>2. Advanced(area, s, n) = [area EXCEPT ![s].current = area[s].current + n]
      BY DEF Advanced
    <2>3. QED
      BY <1>4, <2>1, <2>2
  <1>6. held' = held \cup {b} /\ Out' = Out \cup {b}
    <2>1. held' = held \cup {b}
      BY DEF Carve
    <2>. HIDE DEF b
    <2>2. QED
      BY <2>1 DEF Out, Slots
  <1>7. b \in BlockType /\ b.addr = area[s].current /\ b.span = n /\ b.size = len
    BY <1>2, <1>3 DEF BlockType
  <1>8. Unit <= b.span /\ b.size + Header <= b.span /\ area[s].current + b.span <= s + SectionSize
    BY <1>2, <1>3, <1>7
  <1>9. sections' = Advanced(area, s, b.span)
    BY <1>5, <1>7
  <1>. HIDE DEF b
  <1>10. /\ Whole(u, tables, sections', Out \cup {b}, lost.cells) /\ DOMAIN sections' = DOMAIN area
         /\ \A r \in DOMAIN area : sections'[r].next = area[r].next
         /\ \A d \in Out : d.addr # b.addr
    BY <1>7, <1>8, <1>9, CarveKeepsWhole
  <1>11. FreedGood'
    BY <1>6, <1>10, FreedKeep
  <1>12. QED
    BY <1>6, <1>10, <1>11

LEMMA AllocFromSectionKeeps ==
    ASSUME Sound, NEW len \in Lens, divide_size(len + Header) = "huge", AllocFromSection(len)
    PROVE  Sound'
  <1>. DEFINE size == len + Header
              i == Min(Roomy(size))
              s == loaded.sections[i]
  <1>1. /\ Whole(used, tables, sections, Out, lost.cells) /\ Links /\ Loaded /\ Retry
        /\ lost = [frees |-> lost.frees, cells |-> lost.cells] /\ lost.frees \in Nat
    BY DEF Sound
  <1>2. /\ Roomy(size) # {} /\ Carve(sections, s, len)
        /\ UNCHANGED <<used, heap, tables, loaded, freed, lost, refusals, phase>>
    BY DEF AllocFromSection
  <1>3. i \in Roomy(size)
    <2>1. DOMAIN loaded.sections \subseteq Nat
      BY <1>1 DEF Loaded
    <2>2. Roomy(size) \in SUBSET Nat
      BY <2>1 DEF Roomy
    <2>3. QED
      BY <1>2, <2>2, LeastIs
  <1>4. s \in DOMAIN sections /\ sections[s].current + size <= s + SectionSize
    <2>1. i \in DOMAIN loaded.sections /\ sections[s].current + size <= s + SectionSize
      BY <1>3 DEF Roomy
    <2>2. QED
      BY <1>1, <2>1 DEF Loaded
  <1>5. len \in Nat
    BY Constants
  <1>. HIDE DEF s
  <1>6. /\ Whole(used, tables, sections', Out', lost.cells) /\ DOMAIN sections' = DOMAIN sections
        /\ \A r \in DOMAIN sections : sections'[r].next = sections[r].next
        /\ FreedGood'
    BY <1>1, <1>2, <1>4, <1>5, CarveIs
  <1>7. Links' /\ Loaded' /\ Retry'
    BY <1>2, <1>6, RestKeeps
  <1>8. QED
    BY <1>1, <1>2, <1>6, <1>7 DEF Sound

LEMMA AllocFromNewSectionKeeps ==
    ASSUME Sound, phase = "open", Intact', NEW len \in Lens, divide_size(len + Header) = "huge",
           AllocFromNewSection(len)
    PROVE  Sound'
  <1>. DEFINE area == Put(sections, used, NewSection(used))
              linked == LinkSection(area, used)
              e == heap.sectionEnd
  <1>1. CASE OverlaySection(len)
    BY <1>1 DEF OverlaySection, Intact
  <1>2. CASE /\ used' = used + SectionSize
             /\ loaded' = [loaded EXCEPT !.sections = Append(@, used)]
             /\ heap' = [heap EXCEPT !.sectionEnd = IF @ = None THEN used ELSE @]
             /\ CarveNew(linked, used, len)
             /\ UNCHANGED <<tables, freed, lost, refusals, phase>>
    <2>2. /\ Whole(used, tables, sections, Out, lost.cells) /\ Links /\ Loaded /\ Retry
          /\ used \in Nat /\ DOMAIN sections \subseteq Nat
      BY DEF Sound, Whole, Areas
    <2>3. heap.formatted /\ HeapHead <= used /\ used # None
      BY <2>2 DEF Links, None
    <2>4. /\ len \in Nat /\ SectionSize \in Nat /\ HeapHead \in Nat /\ SectionHead \in Nat
          /\ Header \in Nat
      BY Constants
    <2>5. used' \in Nat /\ used <= used' /\ used + SectionSize <= used' /\ HeapHead <= used' /\ used <= used
      <3>2. used' = used + SectionSize
        BY <1>2
      <3>3. QED
        BY <2>2, <2>3, <2>4, <3>2
    <2>6. /\ DOMAIN area = {used} \cup DOMAIN sections /\ area[used] = NewSection(used)
          /\ \A r \in DOMAIN sections : r # used => area[r] = sections[r]
      BY DEF Put
    <2>7. area = Put(sections, used, NewSection(used))
      OBVIOUS
    <2>. HIDE DEF area
    <2>8. Whole(used', tables, area, Out, lost.cells) /\ used \notin DOMAIN sections
      BY <2>2, <2>3, <2>5, <2>7, AddSectionKeepsWhole
    <2>9. e \in Address /\ (e # None => e \in DOMAIN sections)
      BY <2>2 DEF Links, LinksFrom
    <2>10. /\ Whole(used', tables, linked, Out, lost.cells) /\ DOMAIN linked = DOMAIN area
           /\ linked[used].next = None /\ linked[used].current = used + SectionHead
           /\ \A r \in DOMAIN sections : linked[r].next = IF r = e THEN used ELSE sections[r].next
      <3>1. area[used].next = None /\ area[used].current = used + SectionHead
        BY <2>6 DEF NewSection
      <3>2. CASE e = None
        <4>1. linked = area
          BY <3>2 DEF LinkSection
        <4>2. \A r \in DOMAIN sections : r # e
          BY <2>2, <3>2 DEF None
        <4>3. \A r \in DOMAIN sections : area[r] = sections[r]
          BY <2>6, <2>8
        <4>4. QED
          BY <2>8, <3>1, <4>1, <4>2, <4>3
      <3>3. CASE e # None
        <4>1. linked = Linked(area, e, used)
          BY <3>3 DEF LinkSection, Linked
        <4>2. e \in DOMAIN area /\ e # used
          BY <2>6, <2>8, <2>9, <3>3
        <4>. HIDE DEF linked, e
        <4>3. /\ Whole(used', tables, linked, Out, lost.cells) /\ DOMAIN linked = DOMAIN area
              /\ linked[e].next = used
              /\ \A r \in DOMAIN area : r # e => linked[r] = area[r]
              /\ \A r \in DOMAIN area : linked[r].current = area[r].current
          BY <2>2, <2>8, <4>1, <4>2, LinkSectionKeepsWhole
        <4>4. linked[used] = area[used]
          BY <2>6, <4>2, <4>3
        <4>5. \A r \in DOMAIN sections : r # e => linked[r] = sections[r]
          BY <2>6, <2>8, <4>3
        <4>6. QED
          BY <3>1, <4>3, <4>4, <4>5
      <3>4. QED
        BY <3>2, <3>3
    <2>. HIDE DEF linked
    <2>11. /\ Whole(used', tables, sections', Out', lost.cells) /\ DOMAIN sections' = DOMAIN linked
           /\ \A r \in DOMAIN linked : sections'[r].next = linked[r].next
           /\ FreedGood'
      <3>1. CASE SectionHead + len + Header <= SectionSize
        <4>1. Carve(linked, used, len)
          BY <1>2, <3>1 DEF CarveNew
        <4>2. linked[used].current + (len + Header) <= used + SectionSize
          BY <2>2, <2>4, <2>10, <3>1
        <4>3. used \in DOMAIN linked
          BY <2>6, <2>10
        <4>4. Whole(used', tables, linked, Out, lost.cells)
          BY <2>10
        <4>5. freed' = freed
          BY <1>2
        <4>6. QED
          BY <2>4, <4>1, <4>2, <4>3, <4>4, <4>5, CarveIs
      <3>2. CASE ~(SectionHead + len + Header <= SectionSize)
        <4>1. sections' = linked /\ UNCHANGED <<held, freed>>
          BY <1>2, <3>2 DEF CarveNew
        <4>2. Out' = Out /\ FreedGood'
          BY <4>1, OutKeeps
        <4>3. QED
          BY <2>10, <4>1, <4>2
      <3>3. QED
        BY <3>1, <3>2
    <2>12. /\ DOMAIN sections' = DOMAIN sections \cup {used} /\ sections'[used].next = None
           /\ \A r \in DOMAIN sections : sections'[r].next = IF r = e THEN used ELSE sections[r].next
      <3>1. DOMAIN linked = DOMAIN sections \cup {used}
        BY <2>6, <2>10
      <3>2. QED
        BY <2>10, <2>11, <3>1
    <2>13. /\ heap.pageEnd \in Address /\ heap.pageStart \in Address /\ heap.sectionStart \in Address
           /\ heap'.formatted = heap.formatted /\ heap'.pageStart = heap.pageStart
           /\ heap'.sectionStart = heap.sectionStart /\ heap'.pageEnd = heap.pageEnd
           /\ heap'.sectionEnd = IF e = None THEN used ELSE e
      BY <1>2, <2>2 DEF Links
    <2>14. Links'
      <3>1. LinksFrom(sections, heap.sectionStart, e)
        BY <2>2 DEF Links
      <3>. HIDE DEF e
      <3>2. LinksFrom(sections', heap.sectionStart, IF e = None THEN used ELSE e)
        <4>. DEFINE last == IF e = None THEN used ELSE e
        <4>1. Lengthened(sections, sections', e, used)
          BY <2>2, <2>8, <2>9, <2>12 DEF Lengthened
        <4>2. last = IF e = None THEN used ELSE e
          OBVIOUS
        <4>. HIDE DEF last
        <4>3. LinksFrom(sections', heap.sectionStart, last)
          BY <3>1, <4>1, <4>2, LinkIs
        <4>4. QED
          BY <4>3 DEF last
      <3>3. LinksFrom(sections', heap'.sectionStart, heap'.sectionEnd)
        BY <2>13, <3>2
      <3>4. LinksFrom(tables', heap'.pageStart, heap'.pageEnd)
        BY <1>2, <2>2, <2>13 DEF Links
      <3>5. heap' \in [formatted : BOOLEAN, pageStart : Address, pageEnd : Address,
                       sectionStart : Address, sectionEnd : Address]
        <4>1. used \in Address
          BY <2>2 DEF Address
        <4>2. QED
          BY <1>2, <2>2, <4>1 DEF Links
      <3>6. heap'.formatted
        BY <2>3, <2>13
      <3>7. QED
        BY <2>5, <3>3, <3>4, <3>5, <3>6 DEF Links
    <2>15. Loaded'
      <3>1. /\ loaded'.sections = Append(loaded.sections, used) /\ loaded'.pages = loaded.pages
            /\ loaded' = [pages |-> loaded'.pages, sections |-> loaded'.sections]
        BY <1>2, <2>2 DEF Loaded
      <3>2. loaded.sections \in Seq(DOMAIN sections') /\ used \in DOMAIN sections'
        <4>1. DOMAIN sections \subseteq DOMAIN sections' /\ used \in DOMAIN sections'
          BY <2>12
        <4>2. loaded.sections \in Seq(DOMAIN sections)
          BY <2>2 DEF Loaded
        <4>3. QED
          BY <4>1, <4>2
      <3>3. Append(loaded.sections, used) \in Seq(DOMAIN sections')
        BY <3>2, AppendProperties
      <3>4. loaded'.pages \in Seq(DOMAIN tables')
        BY <1>2, <2>2, <3>1 DEF Loaded
      <3>5. QED
        BY <3>1, <3>3, <3>4 DEF Loaded
    <2>16. Retry'
      <3>1. /\ loaded'.pages = loaded.pages /\ tables' = tables /\ refusals' = refusals /\ phase' = phase
        BY <1>2, <2>2 DEF Loaded
      <3>2. QED
        BY <2>2, <2>13, <3>1 DEF Retry
    <2>17. QED
      <3>1. Whole(used', tables', sections', Out', lost'.cells) /\ lost' = lost
        BY <1>2, <2>11
      <3>2. lost = [frees |-> lost.frees, cells |-> lost.cells] /\ lost.frees \in Nat
        BY DEF Sound
      <3>3. QED
        BY <2>11, <2>14, <2>15, <2>16, <3>1, <3>2 DEF Sound
  <1>3. QED
    BY <1>1, <1>2 DEF AllocFromNewSection

-----------------------------------------------------------------------------
(* Writes and frees *)

\* A block is known by its address.
LEMMA SameBlock ==
    ASSUME NEW T, NEW S, NEW H, NEW C, Held(T, S, H, C), NEW b \in H, NEW c \in H, b.addr = c.addr
    PROVE  b = c
  <1>. SUFFICES ASSUME b # c PROVE FALSE
    OBVIOUS
  <1>1. Beside(b.addr, b.span, c.addr, c.span) /\ b \in BlockType /\ c \in BlockType
    BY DEF Held
  <1>2. /\ b.addr \in Nat /\ b.span \in Nat /\ b.span > 0
        /\ c.addr \in Nat /\ c.span \in Nat /\ c.span > 0
    BY <1>1, BlockIs
  <1>3. QED
    BY <1>1, <1>2 DEF Beside

\* No caller holds a freed item.
LEMMA NotFreed ==
    ASSUME Sound, NEW b \in held
    PROVE  b \in Out /\ b \notin Slots
  BY DEF Sound, FreedGood, Out, Slots

LEMMA WriteKeeps ==
    ASSUME Sound, NEW b \in held, NEW len \in Lens, Write(b, len)
    PROVE  Sound'
  <1>1. /\ len <= b.size /\ held' = Resized(held, b, len)
        /\ UNCHANGED <<used, heap, tables, sections, loaded, freed, lost, refusals, phase>>
    BY DEF Write, Resized
  <1>2. len \in Nat /\ Whole(used, tables, sections, Out, lost.cells) /\ b \in Out /\ b \notin Slots
    BY Constants, NotFreed DEF Sound
  <1>3. b \in BlockType /\ b.size + Header <= b.span
    BY <1>2 DEF Whole, Held
  <1>4. len + Header <= b.span /\ (IsItem(b) => len + Header < Unit \div 2)
    <2>. DEFINE size == b.size
                span == b.span
                half == Unit \div 2
    <2>1. size \in Nat /\ span \in Nat /\ half \in Int /\ len <= size /\ size + Header <= span
      BY <1>1, <1>3, BlockIs, Constants
    <2>2. IsItem(b) => size + Header < half
      BY DEF IsItem
    <2>. HIDE DEF size, span, half
    <2>3. len + Header <= span /\ (IsItem(b) => len + Header < half)
      BY <1>2, <2>1, <2>2, Constants
    <2>4. QED
      BY <2>3 DEF span, half
  <1>5. Out' = Resized(Out, b, len)
    BY <1>1, <1>2 DEF Out, Slots, Resized
  <1>6. Whole(used, tables, sections, Out', lost.cells)
    BY <1>2, <1>4, <1>5, ResizeKeepsWhole
  <1>7. FreedGood'
    <2>1. [b EXCEPT !.size = len].addr = b.addr
      BY <1>3 DEF BlockType
    <2>2. \A e \in held' : \E d \in held : d.addr = e.addr
      BY <1>1, <2>1 DEF Resized
    <2>3. QED
      BY <1>1, <2>2, FreedKeep
  <1>8. Links' /\ Loaded' /\ Retry'
    BY <1>1, RestKeeps
  <1>9. QED
    BY <1>1, <1>6, <1>7, <1>8 DEF Sound

\* The history grows by the cells of a block that are not given back.
LEMMA LoseIs ==
    ASSUME NEW b \in BlockType, NEW back \in Nat, Lose(b, back),
           lost = [frees |-> lost.frees, cells |-> lost.cells], lost.frees \in Nat
    PROVE  /\ lost' = [frees |-> lost'.frees, cells |-> lost'.cells] /\ lost'.frees \in Nat
           /\ lost'.cells = lost.cells \cup (b.addr + back..b.addr + b.span - 1)
  <1>. DEFINE cells == b.addr + back..b.addr + b.span - 1
  <1>1. CASE cells = {}
    <2>1. lost' = lost
      BY <1>1 DEF Lose
    <2>. HIDE DEF cells
    <2>2. lost.cells \cup cells = lost.cells
      BY <1>1
    <2>3. lost'.cells = lost.cells \cup cells
      BY <2>1, <2>2
    <2>4. QED
      BY <2>1, <2>3 DEF cells
  <1>2. CASE cells # {}
    <2>1. lost' = [frees |-> lost.frees + 1, cells |-> lost.cells \cup cells]
      BY <1>2 DEF Lose
    <2>. HIDE DEF cells
    <2>2. lost'.frees = lost.frees + 1 /\ lost'.cells = lost.cells \cup cells
      BY <2>1
    <2>3. lost'.frees \in Nat
      BY <2>2
    <2>4. QED
      BY <2>1, <2>2, <2>3 DEF cells
  <1>3. QED
    BY <1>1, <1>2

\* What is left of the blocks when one is freed and no item is listed.
LEMMA FreedOut ==
    ASSUME Sound, NEW b \in held, held' = held \ {b}, freed' = freed
    PROVE  Out' = Out \ {b} /\ FreedGood'
  <1>1. Out' = Out \ {b}
    BY NotFreed DEF Out, Slots
  <1>2. FreedGood'
    BY FreedKeep
  <1>3. QED
    BY <1>1, <1>2

LEMMA ForgetKeeps ==
    ASSUME Sound, NEW b \in held, Forget(b), held' = held \ {b},
           UNCHANGED <<used, heap, sections, loaded, refusals>>
    PROVE  Sound'
  <1>1. Lose(b, 0) /\ UNCHANGED <<used, heap, tables, sections, loaded, freed, refusals, phase>>
    BY DEF Forget
  <1>2. /\ Whole(used, tables, sections, Out, lost.cells) /\ b \in Out
        /\ lost = [frees |-> lost.frees, cells |-> lost.cells] /\ lost.frees \in Nat
    BY NotFreed DEF Sound
  <1>3. b \in BlockType /\ b.addr \in Nat /\ b.span \in Nat
    BY <1>2, BlockIs DEF Whole, Held
  <1>4. /\ lost' = [frees |-> lost'.frees, cells |-> lost'.cells] /\ lost'.frees \in Nat
        /\ lost'.cells = lost.cells \cup (b.addr + 0..b.addr + b.span - 1)
    BY <1>1, <1>2, <1>3, LoseIs
  <1>5. lost'.cells = lost.cells \cup (b.addr..b.addr + b.span - 1)
    <2>1. b.addr + 0 = b.addr
      BY <1>3
    <2>2. QED
      BY <1>4, <2>1
  <1>6. Out' = Out \ {b} /\ FreedGood'
    BY <1>1, FreedOut
  <1>7. Whole(used, tables, sections, Out', lost'.cells)
    BY <1>1, <1>2, <1>5, <1>6, ForgetKeepsWhole
  <1>8. Links' /\ Loaded' /\ Retry'
    BY <1>1, RestKeeps
  <1>9. QED
    BY <1>1, <1>4, <1>6, <1>7, <1>8 DEF Sound

\* A block that is freed to a table was cut off by that table.
LEMMA OwnerIs ==
    ASSUME Sound, NEW b \in Out, NEW size, size = b.size + Header,
           Owners(b.addr, size) # {}, NEW c, c = loaded.pages[Min(Owners(b.addr, size))]
    PROVE  /\ c \in DOMAIN tables /\ b \in BlockType /\ OfTable(b, tables[c])
           /\ FromTable(b, tables) /\ size \in Nat /\ size <= b.span
  <1>1. /\ Areas(used, tables, sections) /\ Held(tables, sections, Out, lost.cells) /\ Loaded
    BY DEF Sound, Whole
  <1>. DEFINE i == Min(Owners(b.addr, size))
  <1>2. i \in Owners(b.addr, size)
    <2>1. DOMAIN loaded.pages \subseteq Nat
      BY <1>1 DEF Loaded
    <2>2. Owners(b.addr, size) \in SUBSET Nat
      BY <2>1 DEF Owners
    <2>3. QED
      BY <2>2, LeastIs
  <1>3. i \in DOMAIN loaded.pages /\ BelongToTable(tables[c], b.addr, size)
    BY <1>2 DEF Owners
  <1>4. c \in DOMAIN tables
    BY <1>1, <1>3 DEF Loaded
  <1>5. /\ b \in BlockType /\ b.size + Header <= b.span
        /\ FromTable(b, tables) \/ FromSection(b, sections)
    BY <1>1 DEF Held
  <1>6. b.addr \in Nat /\ b.span \in Nat /\ b.size \in Nat /\ InBlock(b, b.addr)
    BY <1>5, BlockIs
  <1>7. InTable(c, b.addr)
    <2>1. tables[c].begin = c /\ c \in Nat
      BY <1>1, <1>4 DEF Areas
    <2>2. c < b.addr /\ b.addr < c + TableSize
      BY <1>3, <2>1 DEF BelongToTable, TableEnd
    <2>3. TableSize \in Nat
      BY Constants
    <2>4. QED
      BY <1>6, <2>1, <2>2, <2>3 DEF InTable, Within
  <1>8. size \in Nat /\ size <= b.span
    BY <1>5, <1>6, Constants
  <1>13. FromTable(b, tables)
    <2>. SUFFICES ASSUME FromSection(b, sections) PROVE FALSE
      BY <1>5
    <2>1. PICK s \in DOMAIN sections : Carved(sections, s, b.addr)
      BY <1>6 DEF FromSection
    <2>2. /\ Carved(sections, s, b.addr) => InSection(s, b.addr)
          /\ InTable(c, b.addr) => ~InSection(s, b.addr)
      BY <1>1, <1>4, <1>6, Places
    <2>3. QED
      BY <1>7, <2>1, <2>2
  <1>15. PICK d \in DOMAIN tables : \A x \in Nat : InBlock(b, x) => Taken(tables[d], x)
    BY <1>13 DEF FromTable
  <1>16. d = c
    <2>1. Taken(tables[d], b.addr)
      BY <1>6, <1>15
    <2>2. /\ Taken(tables[d], b.addr) => InTable(d, b.addr)
          /\ InTable(c, b.addr) /\ InTable(d, b.addr) => c = d
      BY <1>1, <1>4, <1>6, Places
    <2>3. QED
      BY <1>7, <2>1, <2>2
  <1>17. QED
    BY <1>4, <1>5, <1>8, <1>13, <1>15, <1>16 DEF OfTable

\* When its size is that of a page, it is a page, and no smaller.
LEMMA PageIs ==
    ASSUME NEW b \in BlockType, FromTable(b, tables), NEW size \in Nat, size = b.size + Header,
           size <= b.span, divide_size(size) = "large", NEW level, level = find_level(size)
    PROVE  /\ Unit <= b.span /\ level \in PageLevels /\ PageSize[level] \in Nat
           /\ PageSize[level] <= b.span
  <1>1. /\ level \in PageLevels /\ Unit \div 2 <= size
        /\ \A l \in PageLevels : size <= PageSize[l] => PageSize[level] <= PageSize[l]
    BY FindLevelIs
  <1>2. \A l \in PageLevels : l \in 0..MaxLevels
    BY Constants DEF PageLevels
  <1>3. \A l \in PageLevels : PageSize[l] \in Nat /\ Unit <= PageSize[l]
    BY <1>2, Doubles, Grows
  <1>4. ~IsItem(b)
    <2>1. Unit \div 2 \in Nat
      BY Constants
    <2>2. QED
      BY <1>1, <2>1 DEF IsItem
  <1>5. PICK l \in PageLevels : b.span = PageSize[l]
    BY <1>4 DEF FromTable, IsPage
  <1>6. QED
    BY <1>1, <1>3, <1>5

\* Otherwise it is large enough for an item of its size.
LEMMA ItemFits ==
    ASSUME NEW b \in BlockType, FromTable(b, tables), NEW size \in Nat, size = b.size + Header,
           size <= b.span, divide_size(size) = "small", NEW level, level = find_slab_level(size)
    PROVE  /\ level \in SlabLevels /\ ItemSizes[level] \in Nat \ {0} /\ size < Unit \div 2
           /\ size <= ItemSizes[level] /\ ItemSizes[level] <= b.span
  <1>. DEFINE fit == {l \in SlabLevels : ItemSizes[l] >= size}
  <1>1. level \in SlabLevels /\ size <= ItemSizes[level] /\ size < Unit \div 2
    BY FindSlabLevelIs
  <1>2. \A l \in SlabLevels : l \in Nat /\ ItemSizes[l] \in Nat /\ ItemSizes[l] > 0 /\ ItemSizes[l] < Unit
    BY Constants DEF SlabLevels
  <1>3. \A l \in SlabLevels : ItemSizes[l] >= size => level <= l
    <2>1. fit \in SUBSET Nat
      BY <1>2
    <2>2. \A l \in fit : Min(fit) <= l
      <3>. SUFFICES ASSUME NEW l \in fit PROVE Min(fit) <= l
        OBVIOUS
      <3>. HIDE DEF fit
      <3>1. QED
        BY <2>1, LeastIs
    <2>3. level = Min(fit)
      BY DEF find_slab_level
    <2>4. QED
      BY <2>2, <2>3
  <1>4. \A k, l \in SlabLevels : k <= l => ItemSizes[k] <= ItemSizes[l]
    BY Shape DEF Shape
  <1>5. CASE IsItem(b)
    <2>1. PICK l \in SlabLevels : b.span = ItemSizes[l]
      BY <1>5 DEF IsItem
    <2>2. ItemSizes[l] >= size
      BY <1>2, <2>1
    <2>3. QED
      BY <1>1, <1>2, <1>3, <1>4, <2>1, <2>2
  <1>6. CASE IsPage(b)
    <2>1. PICK l \in PageLevels : b.span = PageSize[l]
      BY <1>6 DEF IsPage
    <2>2. l \in 0..MaxLevels
      BY Constants DEF PageLevels
    <2>3. PageSize[l] \in Nat /\ Unit <= PageSize[l] /\ Unit \in Nat
      BY <2>2, Doubles, Grows, Constants
    <2>4. QED
      BY <1>1, <1>2, <2>1, <2>3
  <1>7. QED
    BY <1>1, <1>2, <1>5, <1>6 DEF FromTable

LEMMA FreeDataByPageKeeps ==
    ASSUME Sound, Intact', phase = "open", NEW b \in held, held' = held \ {b},
           NEW size, size = b.size + Header, divide_size(size) = "large", Owners(b.addr, size) # {},
           FreeDataByPage(tables[loaded.pages[Min(Owners(b.addr, size))]], b),
           UNCHANGED <<used, heap, sections, loaded, refusals>>
    PROVE  Sound'
  <1>. DEFINE c == loaded.pages[Min(Owners(b.addr, size))]
              t == tables[c]
              level == find_level(size)
              merged == MergePageLevel(t.lists, b.addr, level)
  <1>1. /\ Whole(used, tables, sections, Out, lost.cells) /\ b \in Out
        /\ lost = [frees |-> lost.frees, cells |-> lost.cells] /\ lost.frees \in Nat
    BY NotFreed DEF Sound
  <1>2. /\ c \in DOMAIN tables /\ b \in BlockType /\ OfTable(b, tables[c])
        /\ Unit <= b.span /\ level \in PageLevels /\ PageSize[level] \in Nat
        /\ PageSize[level] <= b.span
    <2>1. /\ c \in DOMAIN tables /\ b \in BlockType /\ OfTable(b, tables[c])
          /\ FromTable(b, tables) /\ size \in Nat /\ size <= b.span
      BY <1>1, OwnerIs
    <2>. HIDE DEF c
    <2>2. /\ Unit <= b.span /\ level \in PageLevels /\ PageSize[level] \in Nat
          /\ PageSize[level] <= b.span
      BY <2>1, PageIs
    <2>3. QED
      BY <2>1, <2>2
  <1>3. /\ IF merged.page = None
           THEN /\ tables' = [tables EXCEPT ![t.begin].lists = merged.lists]
                /\ phase' = phase
           ELSE phase' = "stray page"
        /\ Lose(b, PageSize[level])
        /\ freed' = freed
    BY DEF FreeDataByPage
  <1>4. merged = MergePageLevel(t.lists, b.addr, level)
    OBVIOUS
  <1>5. TableGood(t) /\ t.begin = c
    BY <1>1, <1>2 DEF Whole, Areas
  <1>6. t.lists \in Lists /\ ListsApart(t.lists)
    BY <1>5 DEF TableGood, TableType
  <1>7. b.addr \in Nat /\ b.span \in Nat
    BY <1>2, BlockIs
  <1>8. \A x \in Nat : Within(x, b.addr, PageSize[level]) => ~Listed(t.lists, x)
    <2>. SUFFICES ASSUME NEW x \in Nat, Within(x, b.addr, PageSize[level]) PROVE ~Listed(t.lists, x)
      OBVIOUS
    <2>. DEFINE n == PageSize[level]
    <2>1. n \in Nat /\ n <= b.span /\ b.addr <= x /\ x < b.addr + n
      BY <1>2 DEF Within
    <2>. HIDE DEF n
    <2>2. InBlock(b, x)
      BY <1>7, <2>1 DEF InBlock, Within
    <2>3. Gone(Out, lost.cells, x)
      BY <1>1, <2>2 DEF Gone
    <2>4. ~Unheld(tables[c], x)
      BY <1>1, <1>2, <2>3 DEF Whole, Shared
    <2>5. QED
      BY <2>4 DEF Unheld
  <1>9. merged.page = None
    BY <1>3 DEF Intact
  <1>10. /\ tables' = [tables EXCEPT ![t.begin].lists = merged.lists]
         /\ Lose(b, PageSize[level])
         /\ UNCHANGED <<used, heap, sections, loaded, freed, refusals, phase>>
    BY <1>3, <1>9
  <1>11. tables' = Relisted(tables, c, merged.lists)
    BY <1>5, <1>10 DEF Relisted
  <1>. HIDE DEF c, t, level, merged
  <1>12. /\ merged.lists \in Lists /\ ListsApart(merged.lists)
         /\ \A x \in Nat : Listed(merged.lists, x) <=>
              Listed(t.lists, x) \/ Within(x, b.addr, PageSize[level])
    BY <1>2, <1>4, <1>6, <1>7, <1>8, <1>9, MergeIs
  <1>13. /\ lost' = [frees |-> lost'.frees, cells |-> lost'.cells] /\ lost'.frees \in Nat
         /\ lost'.cells = lost.cells \cup (b.addr + PageSize[level]..b.addr + b.span - 1)
    BY <1>1, <1>2, <1>10, LoseIs
  <1>14. Out' = Out \ {b} /\ FreedGood'
    BY <1>10, FreedOut
  <1>. DEFINE after == merged.lists
              back == PageSize[level]
  <1>15. /\ after \in Lists /\ ListsApart(after)
         /\ \A x \in Nat : Listed(after, x) <=> Listed(tables[c].lists, x) \/ Within(x, b.addr, back)
    BY <1>12 DEF t
  <1>16. lost'.cells = lost.cells \cup (b.addr + back..b.addr + b.span - 1)
    BY <1>13
  <1>17. back \in Nat /\ back <= b.span /\ tables' = Relisted(tables, c, after)
    BY <1>2, <1>11
  <1>. HIDE DEF after, back
  <1>18. /\ Whole(used, tables', sections, Out \ {b}, lost'.cells) /\ DOMAIN tables' = DOMAIN tables
         /\ \A d \in DOMAIN tables :
               tables'[d].next = tables[d].next /\ (tables'[d].valid <=> tables[d].valid)
    <2>1. Whole(used, tables, sections, Out, lost.cells) /\ c \in DOMAIN tables /\ Unit <= b.span
      BY <1>1, <1>2
    <2>2. OfTable(b, tables[c]) /\ b \in Out
      BY <1>1, <1>2
    <2>3. PartOf(b, back)
      BY <1>17 DEF PartOf
    <2>4. With(tables[c].lists, b.addr, back, after)
      BY <1>15 DEF With
    <2>5. tables' = Relisted(tables, c, after)
      BY <1>17
    <2>6. lost'.cells = lost.cells \cup Remnant(b, back)
      BY <1>16 DEF Remnant
    <2>7. QED
      BY <2>1, <2>2, <2>3, <2>4, <2>5, <2>6, ReturnKeepsWhole
  <1>19. Links' /\ Loaded' /\ Retry'
    BY <1>10, <1>18, RestKeeps
  <1>20. QED
    BY <1>10, <1>13, <1>14, <1>18, <1>19 DEF Sound

\* The block leaves an item on the list of its level, and gives up the rest.
LEMMA FreeDataBySlabKeeps ==
    ASSUME Sound, NEW b \in held, held' = held \ {b},
           NEW size, size = b.size + Header, divide_size(size) = "small", Owners(b.addr, size) # {},
           FreeDataBySlab(tables[loaded.pages[Min(Owners(b.addr, size))]], b),
           UNCHANGED <<used, heap, sections, loaded, refusals>>
    PROVE  Sound'
  <1>. DEFINE c == loaded.pages[Min(Owners(b.addr, size))]
              level == find_slab_level(size)
              n == ItemSizes[level]
              item == [b EXCEPT !.span = n]
              f == [table |-> tables[c].begin, level |-> level, block |-> item]
  <1>1. /\ Whole(used, tables, sections, Out, lost.cells) /\ b \in Out /\ b \notin Slots
        /\ lost = [frees |-> lost.frees, cells |-> lost.cells] /\ lost.frees \in Nat /\ FreedGood
    BY NotFreed DEF Sound
  <1>2. b \in BlockType /\ FromTable(b, tables) /\ size \in Nat /\ size <= b.span
    BY <1>1, OwnerIs
  <1>3. level \in SlabLevels /\ n \in Nat \ {0} /\ size < Unit \div 2 /\ size <= n /\ n <= b.span
    BY <1>2, ItemFits
  <1>4. freed' = freed \cup {f} /\ Lose(b, n) /\ UNCHANGED <<tables, phase>>
    BY DEF FreeDataBySlab
  <1>5. f.level = level /\ f.block = item
    OBVIOUS
  <1>. HIDE DEF c, level, f
  <1>6. item \in BlockType /\ item.addr = b.addr /\ item.span = n /\ item.size = b.size
    BY <1>2, <1>3 DEF BlockType
  <1>7. IsItem(item) /\ item.size + Header <= item.span /\ PartOf(b, item.span)
    BY <1>3, <1>6 DEF IsItem, PartOf
  <1>8. n \in Nat
    BY <1>3
  <1>. HIDE DEF n
  <1>9. /\ lost' = [frees |-> lost'.frees, cells |-> lost'.cells] /\ lost'.frees \in Nat
        /\ lost'.cells = lost.cells \cup Remnant(b, item.span)
    BY <1>1, <1>2, <1>4, <1>6, <1>8, LoseIs DEF Remnant
  <1>. HIDE DEF item
  <1>10. Out' = (Out \ {b}) \cup {item}
    BY <1>1, <1>4, <1>5 DEF Out, Slots
  <1>11. Whole(used, tables, sections, Out', lost'.cells)
    BY <1>1, <1>2, <1>6, <1>7, <1>9, <1>10, TrimKeepsWhole
  <1>12. \A e \in Out : e # b => e.addr # b.addr
    BY <1>1, SameBlock DEF Whole
  <1>13. FreedGood'
    <2>1. \A g \in freed : g.block \in Out /\ g.block # b
      BY <1>1 DEF Out, Slots
    <2>2. \A g \in freed : g.block.addr # f.block.addr
      BY <1>5, <1>6, <1>12, <2>1
    <2>3. \A g \in freed' : g.level \in SlabLevels /\ g.block.span = ItemSizes[g.level]
      BY <1>1, <1>3, <1>4, <1>5, <1>6 DEF FreedGood, n
    <2>4. \A g, h \in freed' : g.block.addr = h.block.addr => g = h
      BY <1>1, <1>4, <2>2 DEF FreedGood
    <2>5. \A g \in freed', d \in held' : g.block.addr # d.addr
      <3>1. \A d \in held' : d \in held /\ d \in Out /\ d.addr # f.block.addr
        BY <1>5, <1>6, <1>12 DEF Out
      <3>2. QED
        BY <1>1, <1>4, <3>1 DEF FreedGood
    <2>6. QED
      BY <2>3, <2>4, <2>5 DEF FreedGood
  <1>14. Links' /\ Loaded' /\ Retry'
    BY <1>4, RestKeeps
  <1>15. QED
    BY <1>4, <1>9, <1>11, <1>13, <1>14 DEF Sound

\* A freed item is handed out again.
LEMMA AllocFreedKeeps ==
    ASSUME Sound, NEW len \in Lens, AllocFreed(len)
    PROVE  Sound'
  <1>1. PICK f \in freed : /\ f.level = find_slab_level(len + Header)
                           /\ freed' = freed \ {f}
                           /\ held' = held \cup {[f.block EXCEPT !.size = len]}
    BY DEF AllocFreed
  <1>2. /\ refusals' = 0 /\ UNCHANGED <<used, heap, tables, sections, loaded, lost, phase>>
        /\ OpenTables # {} /\ divide_size(len + Header) = "small"
    BY DEF AllocFreed
  <1>. DEFINE b == f.block
              d == [b EXCEPT !.size = len]
              size == len + Header
  <1>3. /\ Whole(used, tables, sections, Out, lost.cells) /\ FreedGood
        /\ lost = [frees |-> lost.frees, cells |-> lost.cells] /\ lost.frees \in Nat
    BY DEF Sound
  <1>4. b \in Out /\ b \in BlockType /\ b.span = ItemSizes[f.level]
    BY <1>3 DEF Out, Slots, Whole, Held, FreedGood
  <1>5. len \in Nat /\ size \in Nat /\ size <= b.span /\ size < Unit \div 2
    <2>1. len \in Nat /\ size \in Nat
      BY Constants
    <2>. HIDE DEF size
    <2>2. size <= ItemSizes[find_slab_level(size)] /\ size < Unit \div 2
      BY <1>2, <2>1, FindSlabLevelIs DEF size
    <2>3. QED
      BY <1>1, <1>4, <2>1, <2>2 DEF size
  <1>6. d.addr = b.addr
    BY <1>4 DEF BlockType
  <1>. HIDE DEF d
  <1>7. Out' = Resized(Out, b, len)
    <2>1. Slots' = Slots \ {b}
      BY <1>1, <1>3 DEF Slots, FreedGood
    <2>2. b \notin held
      BY <1>3 DEF FreedGood
    <2>3. held' = held \cup {d}
      BY <1>1 DEF d
    <2>4. Out' = (Out \ {b}) \cup {d}
      BY <2>1, <2>2, <2>3 DEF Out
    <2>5. QED
      BY <2>4 DEF Resized, d
  <1>8. Whole(used, tables, sections, Out', lost.cells)
    <2>. HIDE DEF b
    <2>1. len + Header <= b.span /\ (IsItem(b) => len + Header < Unit \div 2)
      BY <1>5
    <2>2. QED
      BY <1>3, <1>4, <1>5, <1>7, <2>1, ResizeKeepsWhole
  <1>9. FreedGood'
    <2>1. \A g \in freed' : g.block.addr # d.addr
      BY <1>1, <1>3, <1>6 DEF FreedGood
    <2>2. held' = held \cup {d}
      BY <1>1 DEF d
    <2>3. QED
      BY <1>1, <1>3, <2>1, <2>2 DEF FreedGood
  <1>10. refusals = 0
    BY <1>2, FirstOpenIs
  <1>11. Links' /\ Loaded' /\ Retry'
    BY <1>2, <1>10, RestKeeps
  <1>12. QED
    BY <1>2, <1>3, <1>8, <1>9, <1>11 DEF Sound

LEMMA FreeKeeps ==
    ASSUME Sound, Intact', NEW b \in held, Free(b)
    PROVE  Sound'
  <1>. DEFINE size == b.size + Header
              owner == tables[loaded.pages[Min(Owners(b.addr, size))]]
  <1>1. /\ HeapFree(b, size) /\ held' = held \ {b} /\ phase = "open"
        /\ UNCHANGED <<used, heap, sections, loaded, refusals>>
    BY DEF Free
  <1>2. size = b.size + Header
    OBVIOUS
  <1>. HIDE DEF size
  <1>3. \/ Forget(b)
        \/ divide_size(size) = "large" /\ Owners(b.addr, size) # {} /\ FreeDataByPage(owner, b)
        \/ divide_size(size) = "small" /\ Owners(b.addr, size) # {} /\ FreeDataBySlab(owner, b)
    <2>1. divide_size(size) \in {"small", "large", "huge"}
      BY DEF divide_size
    <2>2. QED
      BY <1>1, <2>1 DEF HeapFree
  <1>4. CASE Forget(b)
    BY <1>1, <1>4, ForgetKeeps
  <1>5. CASE divide_size(size) = "large" /\ Owners(b.addr, size) # {} /\ FreeDataByPage(owner, b)
    BY <1>1, <1>2, <1>5, FreeDataByPageKeeps
  <1>6. CASE divide_size(size) = "small" /\ Owners(b.addr, size) # {} /\ FreeDataBySlab(owner, b)
    BY <1>1, <1>2, <1>6, FreeDataBySlabKeeps
  <1>7. QED
    BY <1>3, <1>4, <1>5, <1>6

LEMMA AllocKeeps ==
    ASSUME Sound, Intact', NEW len \in Lens, Alloc(len)
    PROVE  Sound'
  <1>1. phase = "open" /\ HeapAllocData(len)
    BY DEF Alloc
  <1>2. CASE divide_size(len + Header) = "huge"
    <2>1. AllocFromSection(len) \/ AllocFromNewSection(len)
      BY <1>1, <1>2 DEF HeapAllocData
    <2>2. QED
      BY <1>1, <1>2, <2>1, AllocFromSectionKeeps, AllocFromNewSectionKeeps
  <1>3. CASE divide_size(len + Header) # "huge"
    <2>1. AllocFromTable(len) \/ AllocFreed(len) \/ AllocFromNewTable(len)
      BY <1>1, <1>3 DEF HeapAllocData
    <2>2. QED
      BY <1>1, <1>3, <2>1, AllocFromTableKeeps, AllocFreedKeeps, AllocFromNewTableKeeps
  <1>4. QED
    BY <1>2, <1>3

LEMMA OpenKeeps ==
    ASSUME Sound, Intact', Open
    PROVE  Sound'
  <1>1. CASE heap.formatted
    BY <1>1, LoadKeeps
  <1>2. CASE ~heap.formatted
    <2>1. ~OverlayFormat
      BY DEF OverlayFormat, Intact
    <2>2. PICK step \in IF used = 0 THEN Deaths \cup {5} ELSE {5} : Format(step)
      BY <1>2, <2>1 DEF Open
    <2>3. step \in 0..5
      BY Sizes DEF Sizes
    <2>4. UNCHANGED <<held, freed, lost, refusals>>
      BY DEF Open
    <2>5. QED
      BY <1>2, <2>2, <2>3, <2>4, FormatKeeps
  <1>3. QED
    BY <1>1, <1>2

\* While the heap stays intact every step keeps what is sound; once it is not, there is no step.
LEMMA NextKeeps == IInv /\ [Next]_vars => IInv'
  <1>. SUFFICES ASSUME IInv, [Next]_vars, Intact' PROVE Sound'
    BY DEF IInv
  <1>1. CASE Next
    <2>1. phase \in {"closed", "open"}
      BY <1>1 DEF Next, Open, Close, Alloc, Free, Write
    <2>2. Sound
      BY <2>1 DEF IInv, Intact
    <2>3. CASE Open
      BY <2>2, <2>3, OpenKeeps
    <2>4. CASE Close
      BY <2>2, <2>4, CloseKeeps
    <2>5. ASSUME NEW len \in Lens, Alloc(len) PROVE Sound'
      BY <2>2, <2>5, AllocKeeps
    <2>6. ASSUME NEW b \in held, Free(b) PROVE Sound'
      BY <2>2, <2>6, FreeKeeps
    <2>7. ASSUME NEW b \in held, NEW len \in Lens, Write(b, len) PROVE Sound'
      BY <2>2, <2>7, WriteKeeps
    <2>8. QED
      BY <1>1, <2>3, <2>4, <2>5, <2>6, <2>7 DEF Next
  <1>2. CASE UNCHANGED vars
    <2>1. UNCHANGED <<used, heap, tables, sections, loaded, held, freed, lost, refusals, phase>>
      BY <1>2 DEF vars
    <2>2. Sound
      BY <2>1 DEF IInv, Intact
    <2>3. Links' /\ Loaded' /\ Retry'
      BY <2>1, <2>2, RestKeeps
    <2>4. Out' = Out /\ FreedGood'
      BY <2>1, <2>2, OutKeeps
    <2>5. QED
      BY <2>1, <2>2, <2>3, <2>4 DEF Sound
  <1>3. QED
    BY <1>1, <1>2

\* As long as no growth of the file has failed and no merge has gone past the highest level,
\* whatever the requests, frees, writes and restarts: tables and sections lie side by side,
\* what a table has cut off is in one place only, and the chains of the file are those that
\* loading finds.
THEOREM Invariance == Spec => []IInv
  <1>1. Init => IInv
    BY InitHolds DEF IInv
  <1>2. QED
    BY <1>1, NextKeeps, PTL DEF Spec


-----------------------------------------------------------------------------
(* What the file has been cut into, cell by cell *)

BlockCell(b) == [kind |-> IF b \in Slots THEN "freed" ELSE "held", addr |-> b.addr, span |-> b.span]
FreeCell(t, l, i) == [kind |-> <<"free", l, i>>, addr |-> t.lists[l][i], span |-> PageSize[l]]
FrontCell(p) == [kind |-> "slab head", addr |-> p, span |-> SlabHead]
RoomCell(t, p) == [kind |-> "slab room", addr |-> Behind(t, p), span |-> p + Unit - Behind(t, p)]
HeadCell(a, n) == [kind |-> "head", addr |-> a, span |-> n]

IsFree(c, t) == \E l \in PageLevels : \E i \in DOMAIN t.lists[l] : c = FreeCell(t, l, i)
IsSlab(c, t) == \E p \in DOMAIN t.slabs : c = FrontCell(p) \/ c = RoomCell(t, p)

LEMMA CellsAre ==
    ASSUME Sound, NEW c
    PROVE  c \in Cells <=> \/ \E b \in Out : c = BlockCell(b)
                           \/ \E a \in DOMAIN tables : IsFree(c, tables[a]) \/ IsSlab(c, tables[a])
  <1>1. c \in Blocks <=> \E b \in Out : c = BlockCell(b)
    <2>1. \A b \in held : BlockCell(b) = [kind |-> "held", addr |-> b.addr, span |-> b.span]
      BY NotFreed DEF BlockCell
    <2>2. \A f \in freed :
             BlockCell(f.block) = [kind |-> "freed", addr |-> f.block.addr, span |-> f.block.span]
      BY DEF BlockCell, Slots
    <2>3. c \in Blocks <=> \/ \E b \in held : c = BlockCell(b)
                           \/ \E f \in freed : c = BlockCell(f.block)
      BY <2>1, <2>2 DEF Blocks
    <2>4. QED
      BY <2>3 DEF Out, Slots
  <1>2. \A t : c \in FreePages(t) <=> IsFree(c, t)
    BY DEF FreePages, IsFree, FreeCell
  <1>3. \A t : c \in SlabParts(t) <=> IsSlab(c, t)
    BY DEF SlabParts, IsSlab, FrontCell, RoomCell, Behind
  <1>4. c \in UNION {FreePages(t) \cup SlabParts(t) : t \in Tables} <=>
          \E a \in DOMAIN tables : c \in FreePages(tables[a]) \/ c \in SlabParts(tables[a])
    BY DEF Tables
  <1>5. QED
    BY <1>1, <1>2, <1>3, <1>4 DEF Cells

LEMMA HeadsAre ==
    ASSUME NEW c
    PROVE  c \in Heads <=> \/ c = HeadCell(0, HeapHead)
                           \/ \E a \in DOMAIN tables : c = HeadCell(tables[a].begin, TableHead)
                           \/ \E s \in DOMAIN sections : c = HeadCell(s, SectionHead)
  BY DEF Heads, HeadCell, Tables

LEMMA ExtentIs ==
    ASSUME NEW c, NEW a \in Nat, NEW n \in Int, c.addr = a, c.span = n, NEW x
    PROVE  x \in Extent(c) <=> x \in Nat /\ Within(x, a, n)
  BY DEF Extent, Within

\* The extents of the cells.
LEMMA HeldExtent ==
    ASSUME NEW b \in BlockType, NEW x
    PROVE  x \in Extent(BlockCell(b)) <=> x \in Nat /\ InBlock(b, x)
  <1>1. b.addr \in Nat /\ b.span \in Int
    BY BlockIs
  <1>2. BlockCell(b).addr = b.addr /\ BlockCell(b).span = b.span
    BY DEF BlockCell
  <1>3. QED
    BY <1>1, <1>2, ExtentIs DEF InBlock

LEMMA FreeExtent ==
    ASSUME NEW t, TableGood(t), NEW l \in PageLevels, NEW i \in DOMAIN t.lists[l], NEW x
    PROVE  x \in Extent(FreeCell(t, l, i)) <=> x \in Nat /\ Within(x, t.lists[l][i], PageSize[l])
  <1>1. t.lists[l][i] \in Nat /\ PageSize[l] \in Int
    <2>1. t.lists \in Lists
      BY DEF TableGood, TableType
    <2>2. QED
      BY <2>1, PageFacts
  <1>2. FreeCell(t, l, i).addr = t.lists[l][i] /\ FreeCell(t, l, i).span = PageSize[l]
    BY DEF FreeCell
  <1>3. QED
    BY <1>1, <1>2, ExtentIs

LEMMA SlabExtent ==
    ASSUME NEW t, TableGood(t), NEW p \in DOMAIN t.slabs, NEW x
    PROVE  /\ x \in Extent(FrontCell(p)) <=> x \in Nat /\ Within(x, p, SlabHead)
           /\ x \in Extent(RoomCell(t, p)) <=> x \in Nat /\ Behind(t, p) <= x /\ x < p + Unit
  <1>1. /\ p \in Nat /\ SlabHead \in Int /\ Behind(t, p) \in Nat /\ Unit \in Nat
        /\ p + Unit - Behind(t, p) \in Int
    <2>1. p \in Nat /\ Behind(t, p) \in Nat
      BY SlabPageIs DEF TableGood
    <2>2. QED
      BY <2>1, Constants
  <1>2. FrontCell(p).addr = p /\ FrontCell(p).span = SlabHead
    BY DEF FrontCell
  <1>. DEFINE y == Behind(t, p)
              n == p + Unit - y
  <1>3. RoomCell(t, p).addr = y /\ RoomCell(t, p).span = n
    BY DEF RoomCell
  <1>4. y \in Nat /\ n \in Int /\ y + n = p + Unit
    BY <1>1
  <1>5. x \in Extent(FrontCell(p)) <=> x \in Nat /\ Within(x, p, SlabHead)
    BY <1>1, <1>2, ExtentIs
  <1>. HIDE DEF y, n
  <1>6. x \in Extent(RoomCell(t, p)) <=> x \in Nat /\ Within(x, y, n)
    BY <1>3, <1>4, ExtentIs
  <1>7. QED
    BY <1>4, <1>5, <1>6 DEF Within, y

\* A held or freed cell is gone; the others of a table are still its own.
LEMMA CellIs ==
    ASSUME Sound, NEW c \in Cells, NEW x \in Extent(c)
    PROVE  /\ x \in Nat
           /\ \/ \E b \in Out : c = BlockCell(b) /\ InBlock(b, x)
              \/ \E a \in DOMAIN tables :
                    /\ TableGood(tables[a]) /\ Unheld(tables[a], x)
                    /\ \/ IsFree(c, tables[a]) /\ Listed(tables[a].lists, x)
                       \/ IsSlab(c, tables[a]) /\ Spare(tables[a], x)
  <1>1. /\ \A a \in DOMAIN tables : TableGood(tables[a])
        /\ \A b \in Out : b \in BlockType
    BY DEF Sound, Whole, Areas, Held
  <1>2. ASSUME NEW b \in Out, c = BlockCell(b)
        PROVE  x \in Nat /\ InBlock(b, x)
    BY <1>1, <1>2, HeldExtent
  <1>3. ASSUME NEW a \in DOMAIN tables, IsFree(c, tables[a])
        PROVE  x \in Nat /\ Listed(tables[a].lists, x)
    <2>1. PICK l \in PageLevels : \E i \in DOMAIN tables[a].lists[l] : c = FreeCell(tables[a], l, i)
      BY <1>3 DEF IsFree
    <2>0. PICK i \in DOMAIN tables[a].lists[l] : c = FreeCell(tables[a], l, i)
      BY <2>1
    <2>2. x \in Nat /\ Within(x, tables[a].lists[l][i], PageSize[l])
      BY <1>1, <2>0, FreeExtent
    <2>3. QED
      BY <2>2 DEF Listed
  <1>4. ASSUME NEW a \in DOMAIN tables, IsSlab(c, tables[a])
        PROVE  x \in Nat /\ Spare(tables[a], x)
    <2>1. PICK p \in DOMAIN tables[a].slabs : c = FrontCell(p) \/ c = RoomCell(tables[a], p)
      BY <1>4 DEF IsSlab
    <2>2. x \in Nat /\ (Within(x, p, SlabHead) \/ (Behind(tables[a], p) <= x /\ x < p + Unit))
      BY <1>1, <2>1, SlabExtent
    <2>3. QED
      BY <2>2 DEF Spare
  <1>5. QED
    BY <1>1, <1>2, <1>3, <1>4, CellsAre DEF Unheld

\* The other way round: what is held, freed or still a table's own is in a cell.
LEMMA KeptIs ==
    ASSUME Sound, NEW x
    PROVE  x \in UNION {Extent(c) : c \in Cells} <=>
             x \in Nat /\ \/ \E b \in Out : InBlock(b, x)
                          \/ \E a \in DOMAIN tables : Unheld(tables[a], x)
  <1>1. /\ \A a \in DOMAIN tables : TableGood(tables[a])
        /\ \A b \in Out : b \in BlockType
    BY DEF Sound, Whole, Areas, Held
  <1>2. ASSUME x \in UNION {Extent(c) : c \in Cells}
        PROVE  x \in Nat /\ \/ \E b \in Out : InBlock(b, x)
                            \/ \E a \in DOMAIN tables : Unheld(tables[a], x)
    <2>1. PICK c \in Cells : x \in Extent(c)
      BY <1>2
    <2>2. QED
      BY <2>1, CellIs
  <1>3. ASSUME x \in Nat, NEW b \in Out, InBlock(b, x)
        PROVE  x \in UNION {Extent(c) : c \in Cells}
    <2>1. x \in Extent(BlockCell(b))
      BY <1>1, <1>3, HeldExtent
    <2>2. BlockCell(b) \in Cells
      BY CellsAre
    <2>3. QED
      BY <2>1, <2>2
  <1>4. ASSUME x \in Nat, NEW a \in DOMAIN tables, Unheld(tables[a], x)
        PROVE  x \in UNION {Extent(c) : c \in Cells}
    <2>. DEFINE t == tables[a]
    <2>1. TableGood(t) /\ Unheld(t, x)
      BY <1>1, <1>4
    <2>2. \A c : IsFree(c, t) \/ IsSlab(c, t) => c \in Cells
      BY CellsAre
    <2>. HIDE DEF t
    <2>3. CASE Listed(t.lists, x)
      <3>1. PICK l \in PageLevels : \E i \in DOMAIN t.lists[l] : Within(x, t.lists[l][i], PageSize[l])
        BY <2>3 DEF Listed
      <3>2. PICK i \in DOMAIN t.lists[l] : Within(x, t.lists[l][i], PageSize[l])
        BY <3>1
      <3>3. x \in Extent(FreeCell(t, l, i))
        BY <1>4, <2>1, <3>2, FreeExtent
      <3>4. FreeCell(t, l, i) \in Cells
        BY <2>2 DEF IsFree
      <3>5. QED
        BY <3>3, <3>4
    <2>4. CASE Spare(t, x)
      <3>1. PICK p \in DOMAIN t.slabs : Within(x, p, SlabHead) \/ (Behind(t, p) <= x /\ x < p + Unit)
        BY <2>4 DEF Spare
      <3>2. x \in Extent(FrontCell(p)) \/ x \in Extent(RoomCell(t, p))
        BY <1>4, <2>1, <3>1, SlabExtent
      <3>3. FrontCell(p) \in Cells /\ RoomCell(t, p) \in Cells
        BY <2>2 DEF IsSlab
      <3>4. QED
        BY <3>2, <3>3
    <2>5. QED
      BY <2>1, <2>3, <2>4 DEF Unheld
  <1>5. QED
    BY <1>2, <1>3, <1>4

LEMMA CutIs ==
    ASSUME Sound, NEW x
    PROVE  x \in Cut <=> x \in Nat /\ \/ \E a \in DOMAIN tables : Taken(tables[a], x)
                                      \/ \E s \in DOMAIN sections : Carved(sections, s, x)
  <1>1. /\ \A a \in DOMAIN tables : tables[a].begin \in Nat /\ tables[a].current \in Nat
        /\ \A s \in DOMAIN sections : s \in Nat /\ sections[s].current \in Nat
    BY DEF Sound, Whole, Areas, TableGood, TableType
  <1>2. TableHead \in Nat /\ SectionHead \in Nat
    BY Constants
  <1>3. \A a \in DOMAIN tables :
           x \in tables[a].begin + TableHead..tables[a].current - 1 <=> x \in Nat /\ Taken(tables[a], x)
    <2>. SUFFICES ASSUME NEW a \in DOMAIN tables
                  PROVE  x \in tables[a].begin + TableHead..tables[a].current - 1 <=>
                           x \in Nat /\ Taken(tables[a], x)
      OBVIOUS
    <2>. DEFINE lo == tables[a].begin
                hi == tables[a].current
    <2>1. lo \in Nat /\ hi \in Nat
      BY <1>1
    <2>2. Taken(tables[a], x) <=> lo + TableHead <= x /\ x < hi
      BY DEF Taken
    <2>. HIDE DEF lo, hi
    <2>3. x \in lo + TableHead..hi - 1 <=> x \in Nat /\ lo + TableHead <= x /\ x < hi
      BY <1>2, <2>1
    <2>4. QED
      BY <2>2, <2>3 DEF lo, hi
  <1>4. \A s \in DOMAIN sections :
           x \in s + SectionHead..sections[s].current - 1 <=> x \in Nat /\ Carved(sections, s, x)
    <2>. SUFFICES ASSUME NEW s \in DOMAIN sections
                  PROVE  x \in s + SectionHead..sections[s].current - 1 <=>
                           x \in Nat /\ Carved(sections, s, x)
      OBVIOUS
    <2>. DEFINE hi == sections[s].current
    <2>1. s \in Nat /\ hi \in Nat
      BY <1>1
    <2>2. Carved(sections, s, x) <=> s + SectionHead <= x /\ x < hi
      BY DEF Carved
    <2>. HIDE DEF hi
    <2>3. x \in s + SectionHead..hi - 1 <=> x \in Nat /\ s + SectionHead <= x /\ x < hi
      BY <1>2, <2>1
    <2>4. QED
      BY <2>2, <2>3 DEF hi
  <1>5. x \in Cut <=>
          \/ \E a \in DOMAIN tables : x \in tables[a].begin + TableHead..tables[a].current - 1
          \/ \E s \in DOMAIN sections : x \in s + SectionHead..sections[s].current - 1
    BY DEF Cut, Tables
  <1>6. QED
    BY <1>3, <1>4, <1>5

LEMMA KeptAndLost ==
    ASSUME Sound
    PROVE  /\ (UNION {Extent(c) : c \in Cells}) \cup lost.cells = Cut
           /\ (UNION {Extent(c) : c \in Cells}) \cap lost.cells = {}
  <1>. DEFINE kept == UNION {Extent(c) : c \in Cells}
              C == lost.cells
  <1>1. /\ Whole(used, tables, sections, Out, C) /\ Areas(used, tables, sections)
        /\ Held(tables, sections, Out, C) /\ Shared(tables, sections, Out, C)
    BY DEF Sound, Whole
  <1>2. \A a \in DOMAIN tables : TableGood(tables[a])
    BY <1>1 DEF Areas
  <1>. HIDE DEF kept
  <1>3. ASSUME NEW x
        PROVE  /\ x \in kept \cup C <=> x \in Cut
               /\ ~(x \in kept /\ x \in C)
    <2>1. x \in kept <=> x \in Nat /\ \/ \E b \in Out : InBlock(b, x)
                                      \/ \E a \in DOMAIN tables : Unheld(tables[a], x)
      BY KeptIs DEF kept
    <2>2. x \in Cut <=> x \in Nat /\ \/ \E a \in DOMAIN tables : Taken(tables[a], x)
                                     \/ \E s \in DOMAIN sections : Carved(sections, s, x)
      BY CutIs
    <2>3. x \in C => x \in Nat
      BY <1>1 DEF Held
    <2>4. ASSUME x \in kept \cup C PROVE x \in Cut
      <3>1. x \in Nat
        BY <2>1, <2>3, <2>4
      <3>2. CASE Gone(Out, C, x)
        BY <1>1, <2>2, <3>1, <3>2, GoneIs
      <3>3. CASE \E a \in DOMAIN tables : Unheld(tables[a], x)
        BY <1>2, <2>2, <3>1, <3>3, UnheldIs
      <3>4. QED
        BY <2>1, <2>4, <3>2, <3>3 DEF Gone
    <2>5. ASSUME x \in Cut PROVE x \in kept \cup C
      <3>1. Gone(Out, C, x) \/ \E a \in DOMAIN tables : Unheld(tables[a], x)
        BY <1>1, <2>2, <2>5 DEF Shared
      <3>2. QED
        BY <2>1, <2>2, <2>5, <3>1 DEF Gone
    <2>6. ASSUME x \in kept, x \in C PROVE FALSE
      <3>1. x \in Nat /\ Gone(Out, C, x)
        BY <2>3, <2>6 DEF Gone
      <3>2. \A b \in Out : ~InBlock(b, x)
        BY <1>1, <2>6 DEF Held
      <3>3. \A a \in DOMAIN tables : ~Unheld(tables[a], x)
        BY <1>1, <3>1 DEF Shared
      <3>4. QED
        BY <2>1, <2>6, <3>2, <3>3
    <2>7. QED
      BY <2>4, <2>5, <2>6
  <1>4. kept \cup C = Cut /\ kept \cap C = {}
    BY <1>3
  <1>5. QED
    BY <1>4 DEF kept

LEMMA ConservedHolds == IInv => Conserved
  BY KeptAndLost DEF IInv, Conserved

\* The pages of the free lists do not overlap, nor do the parts of the slab pages.
LEMMA FreeCellsApart ==
    ASSUME NEW t, TableGood(t), NEW c, NEW d, IsFree(c, t), IsFree(d, t),
           NEW x \in Extent(c), x \in Extent(d)
    PROVE  c = d
  <1>1. PICK l \in PageLevels : \E i \in DOMAIN t.lists[l] : c = FreeCell(t, l, i)
    BY DEF IsFree
  <1>2. PICK i \in DOMAIN t.lists[l] : c = FreeCell(t, l, i)
    BY <1>1
  <1>3. PICK m \in PageLevels : \E j \in DOMAIN t.lists[m] : d = FreeCell(t, m, j)
    BY DEF IsFree
  <1>4. PICK j \in DOMAIN t.lists[m] : d = FreeCell(t, m, j)
    BY <1>3
  <1>. DEFINE p == t.lists[l][i]
              q == t.lists[m][j]
  <1>5. x \in Nat /\ Within(x, p, PageSize[l]) /\ Within(x, q, PageSize[m])
    BY <1>2, <1>4, FreeExtent
  <1>6. t.lists \in Lists /\ ListsApart(t.lists)
    BY DEF TableGood, TableType
  <1>7. /\ p \in Nat /\ PageSize[l] \in Nat /\ PageSize[l] > 0
        /\ q \in Nat /\ PageSize[m] \in Nat /\ PageSize[m] > 0
    BY <1>6, PageFacts
  <1>8. l # m \/ i # j => Beside(p, PageSize[l], q, PageSize[m])
    BY <1>6 DEF ListsApart
  <1>. HIDE DEF p, q
  <1>9. ~Beside(p, PageSize[l], q, PageSize[m])
    BY <1>5, <1>7, BesideIs
  <1>10. l = m /\ i = j
    BY <1>8, <1>9
  <1>11. QED
    BY <1>2, <1>4, <1>10

LEMMA SlabCellsApart ==
    ASSUME NEW t, TableGood(t), NEW c, NEW d, IsSlab(c, t), IsSlab(d, t),
           NEW x \in Extent(c), x \in Extent(d)
    PROVE  c = d
  <1>1. PICK p \in DOMAIN t.slabs : c = FrontCell(p) \/ c = RoomCell(t, p)
    BY DEF IsSlab
  <1>2. PICK q \in DOMAIN t.slabs : d = FrontCell(q) \/ d = RoomCell(t, q)
    BY DEF IsSlab
  <1>3. TableType(t) /\ SlabsGood(t)
    BY DEF TableGood
  <1>4. /\ p \in Nat /\ Behind(t, p) \in Nat /\ p + SlabHead <= Behind(t, p) /\ Behind(t, p) <= p + Unit
        /\ q \in Nat /\ Behind(t, q) \in Nat /\ q + SlabHead <= Behind(t, q) /\ Behind(t, q) <= q + Unit
        /\ SlabHead \in Nat /\ Unit \in Nat /\ Unit > 0 /\ SlabHead <= Unit
    BY <1>3, SlabPageIs, Constants
  <1>5. /\ x \in Nat
        /\ \/ c = FrontCell(p) /\ p <= x /\ x < p + SlabHead
           \/ c = RoomCell(t, p) /\ Behind(t, p) <= x /\ x < p + Unit
    BY <1>1, SlabExtent DEF Within
  <1>6. \/ d = FrontCell(q) /\ q <= x /\ x < q + SlabHead
        \/ d = RoomCell(t, q) /\ Behind(t, q) <= x /\ x < q + Unit
    BY <1>2, SlabExtent DEF Within
  <1>7. Within(x, p, Unit) /\ Within(x, q, Unit)
    <2>. DEFINE y == Behind(t, p)
                z == Behind(t, q)
    <2>1. /\ y \in Nat /\ p + SlabHead <= y /\ z \in Nat /\ q + SlabHead <= z
          /\ (x < p + SlabHead /\ p <= x) \/ (y <= x /\ x < p + Unit)
          /\ (x < q + SlabHead /\ q <= x) \/ (z <= x /\ x < q + Unit)
      BY <1>4, <1>5, <1>6
    <2>. HIDE DEF y, z
    <2>2. QED
      BY <1>4, <1>5, <2>1 DEF Within
  <1>8. p = q
    <2>1. p # q => Beside(p, Unit, q, Unit)
      BY <1>3 DEF SlabsGood
    <2>2. QED
      BY <1>4, <1>5, <1>7, <2>1, BesideIs
  <1>9. ~(x < p + SlabHead /\ Behind(t, p) <= x)
    BY <1>4, <1>5
  <1>10. QED
    BY <1>5, <1>6, <1>8, <1>9

\* An address of a cell has been cut off.
LEMMA CellIsCut ==
    ASSUME Sound, NEW c \in Cells, NEW x \in Extent(c)
    PROVE  /\ x \in Nat
           /\ \/ \E a \in DOMAIN tables : Taken(tables[a], x)
              \/ \E s \in DOMAIN sections : Carved(sections, s, x)
  <1>1. x \in UNION {Extent(d) : d \in Cells}
    OBVIOUS
  <1>2. UNION {Extent(d) : d \in Cells} \subseteq Cut
    BY KeptAndLost
  <1>3. x \in Cut
    BY <1>1, <1>2
  <1>4. QED
    BY <1>3, CutIs

\* An address of a head is in the head of the heap, of a table or of a section.
LEMMA HeadIs ==
    ASSUME Sound, NEW c \in Heads, NEW x \in Extent(c)
    PROVE  /\ x \in Nat
           /\ \/ c = HeadCell(0, HeapHead) /\ x < HeapHead
              \/ \E a \in DOMAIN tables : /\ c = HeadCell(a, TableHead)
                                          /\ InTable(a, x) /\ ~Taken(tables[a], x)
              \/ \E s \in DOMAIN sections : /\ c = HeadCell(s, SectionHead)
                                            /\ InSection(s, x) /\ ~Carved(sections, s, x)
  <1>1. \A a \in DOMAIN tables : /\ a \in Nat /\ tables[a].begin = a /\ tables[a].current \in Nat
                                 /\ a + TableHead <= tables[a].current
                                 /\ tables[a].current <= a + TableSize
    BY DEF Sound, Whole, Areas, TableGood, TableType, TableEnd
  <1>2. \A s \in DOMAIN sections : s \in Nat
    BY DEF Sound, Whole, Areas
  <1>3. /\ HeapHead \in Nat /\ TableHead \in Nat /\ TableSize \in Nat
        /\ SectionHead \in Nat /\ SectionSize \in Nat /\ SectionHead <= SectionSize
    BY Constants
  <1>4. ASSUME NEW a \in Nat, NEW n \in Nat, c = HeadCell(a, n) PROVE x \in Nat /\ a <= x /\ x < a + n
    <2>1. c.addr = a /\ c.span = n
      BY <1>4 DEF HeadCell
    <2>2. n \in Int
      OBVIOUS
    <2>3. x \in Nat /\ Within(x, a, n)
      BY <2>1, <2>2, ExtentIs
    <2>4. QED
      BY <2>3 DEF Within
  <1>5. CASE c = HeadCell(0, HeapHead)
    <2>1. 0 \in Nat
      OBVIOUS
    <2>2. x \in Nat /\ x < 0 + HeapHead
      BY <1>3, <1>4, <1>5, <2>1
    <2>3. QED
      BY <1>3, <1>5, <2>2
  <1>6. ASSUME NEW a \in DOMAIN tables, c = HeadCell(tables[a].begin, TableHead)
        PROVE  x \in Nat /\ c = HeadCell(a, TableHead) /\ InTable(a, x) /\ ~Taken(tables[a], x)
    <2>1. c = HeadCell(a, TableHead) /\ a \in Nat /\ tables[a].begin = a
      BY <1>1, <1>6
    <2>2. x \in Nat /\ a <= x /\ x < a + TableHead
      BY <1>3, <1>4, <2>1
    <2>3. ~Taken(tables[a], x)
      BY <1>3, <2>1, <2>2 DEF Taken
    <2>4. InTable(a, x)
      <3>. DEFINE y == tables[a].current
      <3>1. y \in Nat /\ a + TableHead <= y /\ y <= a + TableSize
        BY <1>1
      <3>. HIDE DEF y
      <3>2. x < a + TableSize
        BY <1>3, <2>1, <2>2, <3>1
      <3>3. QED
        BY <2>2, <3>2 DEF InTable, Within
    <2>5. QED
      BY <2>1, <2>2, <2>3, <2>4
  <1>7. ASSUME NEW s \in DOMAIN sections, c = HeadCell(s, SectionHead)
        PROVE  x \in Nat /\ InSection(s, x) /\ ~Carved(sections, s, x)
    <2>1. x \in Nat /\ s \in Nat /\ s <= x /\ x < s + SectionHead
      BY <1>2, <1>3, <1>4, <1>7
    <2>2. ~Carved(sections, s, x)
      BY <1>3, <2>1 DEF Carved
    <2>3. x < s + SectionSize
      BY <1>3, <2>1
    <2>4. QED
      BY <2>1, <2>2, <2>3 DEF InSection, Within
  <1>8. QED
    BY <1>5, <1>6, <1>7, HeadsAre

\* No address is in two heads, or in a head and a cell.
LEMMA HeadsApart ==
    ASSUME Sound, NEW c \in Heads, NEW d \in Heads \cup Cells, NEW x \in Extent(c), x \in Extent(d)
    PROVE  c = d
  <1>1. Areas(used, tables, sections)
    BY DEF Sound, Whole
  <1>2. /\ x \in Nat
        /\ \/ c = HeadCell(0, HeapHead) /\ x < HeapHead
           \/ \E a \in DOMAIN tables : /\ c = HeadCell(a, TableHead)
                                       /\ InTable(a, x) /\ ~Taken(tables[a], x)
           \/ \E s \in DOMAIN sections : /\ c = HeadCell(s, SectionHead)
                                         /\ InSection(s, x) /\ ~Carved(sections, s, x)
    BY HeadIs
  <1>3. /\ \A a \in DOMAIN tables : InTable(a, x) => ~(x < HeapHead)
        /\ \A s \in DOMAIN sections : InSection(s, x) => ~(x < HeapHead)
    <2>1. /\ \A a \in DOMAIN tables : InTable(a, x) => HeapHead <= x
          /\ \A s \in DOMAIN sections : InSection(s, x) => HeapHead <= x
      BY <1>1, <1>2, Places
    <2>2. HeapHead <= x => ~(x < HeapHead)
      BY <1>2, Constants
    <2>3. QED
      BY <2>1, <2>2
  <1>4. /\ \A a \in DOMAIN tables : Taken(tables[a], x) => InTable(a, x)
        /\ \A s \in DOMAIN sections : Carved(sections, s, x) => InSection(s, x)
    BY <1>1, <1>2, Places
  <1>5. /\ \A a, b \in DOMAIN tables : InTable(a, x) /\ InTable(b, x) => a = b
        /\ \A s, r \in DOMAIN sections : InSection(s, x) /\ InSection(r, x) => s = r
        /\ \A a \in DOMAIN tables, s \in DOMAIN sections : InTable(a, x) => ~InSection(s, x)
    BY <1>1, <1>2, Places
  <1>6. CASE d \in Cells
    <2>1. \/ \E a \in DOMAIN tables : Taken(tables[a], x)
          \/ \E s \in DOMAIN sections : Carved(sections, s, x)
      BY <1>6, CellIsCut
    <2>2. QED
      BY <1>2, <1>3, <1>4, <1>5, <2>1
  <1>7. CASE d \in Heads
    <2>1. \/ d = HeadCell(0, HeapHead) /\ x < HeapHead
          \/ \E a \in DOMAIN tables : d = HeadCell(a, TableHead) /\ InTable(a, x)
          \/ \E s \in DOMAIN sections : d = HeadCell(s, SectionHead) /\ InSection(s, x)
      BY <1>7, HeadIs
    <2>2. QED
      BY <1>2, <1>3, <1>5, <2>1
  <1>8. QED
    BY <1>6, <1>7

\* No address is in two cells.
LEMMA CellsApart ==
    ASSUME Sound, NEW c \in Cells, NEW d \in Cells, NEW x \in Extent(c), x \in Extent(d)
    PROVE  c = d
  <1>1. /\ Areas(used, tables, sections) /\ Held(tables, sections, Out, lost.cells)
        /\ Shared(tables, sections, Out, lost.cells)
    BY DEF Sound, Whole
  <1>. DEFINE OfBlocks(e) == \E b \in Out : e = BlockCell(b) /\ InBlock(b, x)
              OfTables(e) == \E a \in DOMAIN tables :
                                /\ TableGood(tables[a]) /\ Unheld(tables[a], x)
                                /\ \/ IsFree(e, tables[a]) /\ Listed(tables[a].lists, x)
                                   \/ IsSlab(e, tables[a]) /\ Spare(tables[a], x)
  <1>2. x \in Nat /\ (OfBlocks(c) \/ OfTables(c)) /\ (OfBlocks(d) \/ OfTables(d))
    BY CellIs
  <1>3. CASE OfBlocks(c) /\ OfBlocks(d)
    <2>1. PICK b \in Out : c = BlockCell(b) /\ InBlock(b, x)
      BY <1>3
    <2>2. PICK e \in Out : d = BlockCell(e) /\ InBlock(e, x)
      BY <1>3
    <2>3. b = e
      <3>1. /\ b # e => Beside(b.addr, b.span, e.addr, e.span)
            /\ b \in BlockType /\ e \in BlockType
        BY <1>1 DEF Held
      <3>2. /\ b.addr \in Nat /\ b.span \in Nat /\ b.span > 0
            /\ e.addr \in Nat /\ e.span \in Nat /\ e.span > 0
        BY <3>1, BlockIs
      <3>3. Within(x, b.addr, b.span) /\ Within(x, e.addr, e.span)
        BY <2>1, <2>2 DEF InBlock
      <3>4. Beside(b.addr, b.span, e.addr, e.span) => ~Within(x, e.addr, e.span)
        BY <1>2, <3>2, <3>3, BesideIs
      <3>5. QED
        BY <3>1, <3>3, <3>4
    <2>4. QED
      BY <2>1, <2>2, <2>3
  <1>4. ASSUME OfBlocks(c) \/ OfBlocks(d), OfTables(c) \/ OfTables(d) PROVE FALSE
    <2>1. Gone(Out, lost.cells, x)
      BY <1>4 DEF Gone
    <2>2. \E a \in DOMAIN tables : Unheld(tables[a], x)
      BY <1>4
    <2>3. QED
      BY <1>1, <1>2, <2>1, <2>2 DEF Shared
  <1>5. CASE OfTables(c) /\ OfTables(d)
    <2>1. PICK a \in DOMAIN tables :
            /\ TableGood(tables[a]) /\ Unheld(tables[a], x)
            /\ \/ IsFree(c, tables[a]) /\ Listed(tables[a].lists, x)
               \/ IsSlab(c, tables[a]) /\ Spare(tables[a], x)
      BY <1>5
    <2>2. PICK b \in DOMAIN tables :
            /\ TableGood(tables[b]) /\ Unheld(tables[b], x)
            /\ \/ IsFree(d, tables[b]) /\ Listed(tables[b].lists, x)
               \/ IsSlab(d, tables[b]) /\ Spare(tables[b], x)
      BY <1>5
    <2>3. a = b
      <3>1. Taken(tables[a], x) /\ Taken(tables[b], x)
        BY <1>2, <2>1, <2>2, UnheldIs
      <3>2. /\ Taken(tables[a], x) => InTable(a, x)
            /\ Taken(tables[b], x) => InTable(b, x)
            /\ InTable(a, x) /\ InTable(b, x) => a = b
        BY <1>1, <1>2, Places
      <3>3. QED
        BY <3>1, <3>2
    <2>. DEFINE t == tables[a]
    <2>4. /\ TableGood(t)
          /\ (IsFree(c, t) /\ Listed(t.lists, x)) \/ (IsSlab(c, t) /\ Spare(t, x))
          /\ (IsFree(d, t) /\ Listed(t.lists, x)) \/ (IsSlab(d, t) /\ Spare(t, x))
      BY <2>1, <2>2, <2>3
    <2>. HIDE DEF t
    <2>5. ~(Listed(t.lists, x) /\ Spare(t, x))
      BY <1>2, <2>4, UnheldIs
    <2>6. CASE IsFree(c, t) /\ IsFree(d, t)
      BY <1>2, <2>4, <2>6, FreeCellsApart
    <2>7. CASE IsSlab(c, t) /\ IsSlab(d, t)
      BY <1>2, <2>4, <2>7, SlabCellsApart
    <2>8. QED
      BY <2>4, <2>5, <2>6, <2>7
  <1>6. QED
    BY <1>2, <1>3, <1>4, <1>5

LEMMA ApartHolds == IInv => Apart
  <1>. SUFFICES ASSUME Intact, Sound PROVE Apart
    BY DEF IInv, Apart
  <1>1. /\ Areas(used, tables, sections) /\ Held(tables, sections, Out, lost.cells)
    BY DEF Sound, Whole
  <1>2. ASSUME used > 0, NEW c \in Cells \cup Heads PROVE Extent(c) \subseteq 0..used - 1
    <2>. SUFFICES ASSUME NEW x \in Extent(c) PROVE x \in 0..used - 1
      OBVIOUS
    <2>1. used \in Nat /\ HeapHead \in Nat /\ HeapHead <= used
      BY <1>1, <1>2, Constants DEF Areas
    <2>2. x \in Nat /\ \/ x < HeapHead
                       \/ \E a \in DOMAIN tables : Taken(tables[a], x) \/ InTable(a, x)
                       \/ \E s \in DOMAIN sections : Carved(sections, s, x) \/ InSection(s, x)
      BY CellIsCut, HeadIs
    <2>3. /\ \A a \in DOMAIN tables : Taken(tables[a], x) \/ InTable(a, x) => x < used
          /\ \A s \in DOMAIN sections : Carved(sections, s, x) \/ InSection(s, x) => x < used
      BY <1>1, <2>2, Places
    <2>4. x < used
      BY <2>1, <2>2, <2>3
    <2>5. QED
      BY <2>1, <2>2, <2>4
  <1>3. ASSUME NEW c \in Cells \cup Heads, NEW d \in Cells \cup Heads, c # d
        PROVE  Extent(c) \cap Extent(d) = {}
    <2>. SUFFICES ASSUME NEW x \in Extent(c), x \in Extent(d) PROVE FALSE
      OBVIOUS
    <2>1. CASE c \in Heads
      BY <1>3, <2>1, HeadsApart
    <2>2. CASE d \in Heads
      BY <1>3, <2>2, HeadsApart
    <2>3. CASE c \in Cells /\ d \in Cells
      BY <1>3, <2>3, CellsApart
    <2>4. QED
      BY <2>1, <2>2, <2>3
  <1>4. \A b \in held : b.size + Header <= b.span
    BY <1>1 DEF Held, Out
  <1>5. QED
    BY <1>2, <1>3, <1>4 DEF Apart

-----------------------------------------------------------------------------
(* The theorems *)

\* As long as no growth of the file has failed and no merge has gone past the highest level:
\* the blocks callers hold, the freed items, the pages on the free lists, the slab pages and
\* the heads of tables, sections and the heap never overlap, they lie in the used part of the
\* file, and no header promises more than its block.
THEOREM BlocksApart == Spec => []Apart
  <1>1. QED
    BY Invariance, ApartHolds, PTL

\* As long as no growth has failed and no merge has gone past the highest level: splitting and
\* merging keep the memory.  What has been cut off is on a free list, in a slab page, a freed
\* item, held by a caller, or was given up by a Free, and what was given up is none of the
\* others.
THEOREM MemoryConserved == Spec => []Conserved
  <1>1. QED
    BY Invariance, ConservedHolds, PTL

\* As long as no growth has failed and no merge has gone past the highest level, a request for
\* a page or an item is never refused twice in a row: the refusal closes the table, and the
\* next request makes a table that serves it.
THEOREM RepeatServed == Spec => []RetryServed
  <1>1. IInv => RetryServed
    BY DEF IInv, Sound, Retry, RetryServed
  <1>2. QED
    BY <1>1, Invariance, PTL

=============================================================================
