------------------------------ MODULE ArenaPool ------------------------------
(***************************************************************************)
(* AreanaBuddyPool: an MMapPool whose data area is cut by HeapMemManager   *)
(* into page tables and sections.  A page table hands out pages of a few   *)
(* sizes (one free list per size, split and merged as in a buddy system)   *)
(* and, for the smallest requests, the items of slab pages; a section only *)
(* grows.  The heap head, the heads of the tables, the free lists and the  *)
(* slab pages live in the mapped file and outlive the process; which       *)
(* tables it has loaded does not.                                          *)
(*                                                                         *)
(* The directory is not in the build, and page_mem_table.cc is damaged:    *)
(* free_lists_ and GetUnitFromPageLevel are misspelt, and the text between *)
(* step 1 of AllocByPageLevel and step 2 of AllocBySlab is missing.  What  *)
(* stood there is left open.  A request that finds the list of its own     *)
(* level empty is either refused or served by SplitFromHighLevel, the only *)
(* operation of the class that is written for any level and called for     *)
(* none but level 0; a small request may or may not take a freed item      *)
(* before it turns to the slab page.                                       *)
(*                                                                         *)
(* When the file cannot grow, a head is laid over the head of the heap and *)
(* the request is served from it; when a merge goes past the highest       *)
(* level, the page left over lands in the list of slab pages.  The model   *)
(* takes that step as the code does and ends there: from then on the file  *)
(* is no longer a heap of separate structures.                             *)
(*                                                                         *)
(* Addresses are offsets from GetMMapDataBegin, in cells.  A block is      *)
(* known by the address of its AreanaBuddyDataHeader.                      *)
(***************************************************************************)
EXTENDS Integers, Sequences, FiniteSetsExt, SequencesExt

CONSTANTS
    Unit,          \* SIZE_LIMIT_SMALL: the smallest page, in cells
    MaxLevels,     \* PAGE_MAX_LEVELS
    ItemSizes,     \* slab_level_to_size: the item size of each slab level
    Header,        \* sizeof(AreanaBuddyDataHeader)
    HeapHead,      \* sizeof(HeapHead)
    TableHead,     \* the PageMemTableHead with its PageInfo and SlabInfo
    TableSize,     \* DEFAULT_PAGE_MEM_SIZE
    SectionHead,   \* sizeof(SectionMemTableHead)
    SectionSize,   \* DEFAULT_SECTION_MEM_SIZE
    SlabHead,      \* sizeof(SlabMemTableHead)
    Lens,          \* the lengths callers ask for and write
    Room,          \* the size the file can grow to
    Deaths,        \* bound: the writes of InitMmap the process may die after
    MaxHeld,       \* bound: the blocks callers hold at a time
    MaxFreed,      \* bound: the blocks on the lists of freed items
    MaxLosses      \* bound: the frees that do not give back all

PageLevels == 0..MaxLevels - 1
SlabLevels == 1..Len(ItemSizes)
None == -1                                        \* INVALID_MEM_ADDR

\* page_level_to_size: each level twice the one below, the last one for the bound only.
PageSize[level \in 0..MaxLevels] == IF level = 0 THEN Unit ELSE 2 * PageSize[level - 1]

Row(n) == PageSize[n] - Unit                      \* one page of each level below n

\* What is written at an offset, beside or over what was there.
Put(area, begin, what) ==
    [b \in {begin} \cup DOMAIN area |-> IF b = begin THEN what ELSE area[b]]

\* The sizes are those of structures that are not empty.
ASSUME Sizes ==
    /\ {Unit, MaxLevels, Header, HeapHead, TableHead, TableSize} \subseteq Nat \ {0}
    /\ {SectionHead, SectionSize, SlabHead, Room} \subseteq Nat \ {0}
    /\ ItemSizes \in Seq(Nat) /\ Lens \subseteq Nat /\ Deaths \subseteq 0..4
    /\ MaxHeld \in Nat /\ MaxFreed \in Nat /\ MaxLosses \in Nat

\* A new table has a page of each level, a slab page an item of each size, the largest items
\* serve every small request, and a section has room behind its head.
ASSUME Shape ==
    /\ TableHead + Row(MaxLevels) <= TableSize /\ SectionHead <= SectionSize
    /\ \A l \in SlabLevels : ItemSizes[l] \in 1..Unit - SlabHead
    /\ \A k, l \in SlabLevels : k <= l => ItemSizes[k] <= ItemSizes[l]
    /\ \E l \in SlabLevels : ItemSizes[l] >= Unit \div 2 - 1
    /\ 2 * HeapHead + TableSize + SectionSize <= Room

VARIABLES
    used,      \* the used size of the mapped file, without its header
    heap,      \* HeapHead: [formatted, pageStart, pageEnd, sectionStart, sectionEnd]
    tables,    \* the page tables of the file, by their begin
    sections,  \* the sections of the file, by their begin: [current, next]
    loaded,    \* page_mem_list_ and section_mem_list_: [pages, sections], <<>> when closed
    held,      \* the blocks callers hold: [addr, span, size], size as in the header
    freed,     \* the lists SlabInfo.free_block: [table, level, block]
    lost,      \* history: what Free did not give back: [frees, cells], cells a set of addresses
    refusals,  \* history: the requests for pages and items refused in a row
    phase      \* "closed" or "open"; "overlaid" or "stray page" when structures of the file
               \* have come to share memory: there the model ends

vars == <<used, heap, tables, sections, loaded, held, freed, lost, refusals, phase>>
-----------------------------------------------------------------------------
(* PageMemTable                                                            *)

divide_size(size) == CASE size < Unit \div 2 -> "small"
                       [] size \in Unit \div 2..PageSize[MaxLevels - 1] - 1 -> "large"
                       [] OTHER -> "huge"

find_level(size) == Min({l \in PageLevels : PageSize[l] >= size})

find_slab_level(size) == Min({l \in SlabLevels : ItemSizes[l] >= size})

\* The row of pages that starts at addr, on top of the lists: levels below n.
PushRow(lists, addr, n) ==
    [l \in PageLevels |-> IF l < n THEN <<addr + Row(l)>> \o lists[l] ELSE lists[l]]

\* PageMemTable::Init
NewTable(begin) ==
    [begin   |-> begin,
     current |-> begin + TableHead + Row(MaxLevels),
     next    |-> None,
     valid   |-> TRUE,
     lists   |-> PushRow([l \in PageLevels |-> <<>>], begin + TableHead, MaxLevels),
     node    |-> [l \in SlabLevels |-> None],
     slabs   |-> <<>>]                  \* slab page -> [item, use]

TableEnd(t) == t.begin + TableSize

BelongToTable(t, addr, size) == t.begin < addr /\ addr < TableEnd(t) /\ addr + size < TableEnd(t)

\* How many pages, from the smallest on, AllocMem cuts off the rest of the table.
Fitting(t) == Max({n \in 0..MaxLevels : t.current + Row(n) <= TableEnd(t)})

\* Mutant: the pages taken before the one that does not fit are not listed.
ExtendPageMemDropsRow(t) ==
    LET n == Fitting(t)
    IN  [ok    |-> n = MaxLevels,
         table |-> [t EXCEPT !.lists = IF n = MaxLevels THEN PushRow(@, t.current, n) ELSE @,
                             !.current = @ + Row(n)]]

\* ExtendPageMem takes one page of each level while they fit; it fails when one
\* does not, and keeps those it took.
ExtendPageMem(t) ==
    LET n == Fitting(t)
    IN  [ok    |-> n = MaxLevels,
         table |-> [t EXCEPT !.lists = PushRow(@, t.current, n), !.current = @ + Row(n)]]

SplitFromHighLevel(lists, level) ==
    LET rich == {l \in PageLevels : l > level /\ lists[l] # <<>>}
        from == Min(rich)
        page == Head(lists[from])
    IN  IF rich = {} THEN [page |-> None, lists |-> lists]
        ELSE [page  |-> page,
              lists |-> [l \in PageLevels |->
                           IF l = from THEN Tail(lists[l])
                           ELSE IF l \in level..from THEN <<page + PageSize[l]>> \o lists[l]
                           ELSE lists[l]]]

TakePage(lists, level) ==
    [page |-> Head(lists[level]), lists |-> [lists EXCEPT ![level] = Tail(@)]]

\* Mutant: the last page of the list is handed out and stays listed.
GetUnitKeepsLast(lists) ==
    IF lists[0] # <<>>
    THEN [page |-> Head(lists[0]),
          lists |-> [lists EXCEPT ![0] = IF Len(@) > 1 THEN Tail(@) ELSE @]]
    ELSE SplitFromHighLevel(lists, 0)

GetUnitFromPageLevel(lists) ==
    IF lists[0] # <<>> THEN TakePage(lists, 0) ELSE SplitFromHighLevel(lists, 0)

\* One turn of MergePageLevel: the page goes to the list of its level, unless the
\* list has a neighbour of it, on either side: the two leave as one page, one level up.
MergeLevel(merge, level) ==
    LET size  == PageSize[level]
        list  == merge.lists[level]
        peers == {i \in DOMAIN list : list[i] - size = merge.page \/ merge.page - size = list[i]}
    IN  IF merge.page = None THEN merge
        ELSE IF peers = {}
        THEN [page  |-> None, lists |-> [merge.lists EXCEPT ![level] = <<merge.page>> \o list]]
        ELSE [page  |-> Min({merge.page, list[Min(peers)]}),
              lists |-> [merge.lists EXCEPT ![level] = RemoveAt(list, Min(peers))]]

\* A page is left over when two pages of the highest level meet: the code goes on
\* with free_lists_[PAGE_MAX_LEVELS].
MergePageLevel(lists, head, level) ==
    LET turn[n \in 0..MaxLevels - level] ==
            IF n = 0 THEN [page |-> head, lists |-> lists]
            ELSE MergeLevel(turn[n - 1], level + n - 1)
    IN  turn[MaxLevels - level]

\* What a request does to a table: the block (None if refused), its true extent.
Refusal(t) == [addr |-> None, span |-> 0, table |-> t]

\* SlabMemTable::AllocBlock on the current slab page of the level.
AllocBlock(t, l) ==
    LET page == t.node[l]
        slab == t.slabs[page]
    IN  IF page # None /\ slab.use < (Unit - SlabHead) \div ItemSizes[l]
        THEN [addr  |-> page + SlabHead + ItemSizes[l] * slab.use,
              span  |-> ItemSizes[l],
              table |-> [t EXCEPT !.slabs[page].use = @ + 1]]
        ELSE Refusal(t)

ExtendFromPageMem(t, l) ==
    LET unit == GetUnitFromPageLevel(t.lists)
        slab == [item |-> ItemSizes[l], use |-> 0]        \* SlabMemTable::Init
    IN  IF unit.page = None THEN Refusal(t)
        ELSE AllocBlock([t EXCEPT !.lists = unit.lists, !.node[l] = unit.page,
                                  !.slabs = Put(@, unit.page, slab)], l)

AllocBySlab(t, size) ==
    LET l     == find_slab_level(size)
        item  == AllocBlock(t, l)
        fresh == ExtendFromPageMem(t, l)
        more  == ExtendPageMem(t)
    IN  IF item.addr # None THEN item
        ELSE IF fresh.addr # None THEN fresh
        ELSE IF more.ok THEN ExtendFromPageMem(more.table, l)
        ELSE Refusal(more.table)

AllocByPageLevel(t, size) ==
    LET level     == find_level(size)
        Page(got) == [addr |-> got.page, span |-> PageSize[level],
                      table |-> [t EXCEPT !.lists = got.lists]]
        high      == SplitFromHighLevel(t.lists, level)
    IN  IF t.lists[level] # <<>> THEN {Page(TakePage(t.lists, level))}
        ELSE {Refusal(t)} \cup IF high.page = None THEN {} ELSE {Page(high)}

\* Mutant: a table that refuses stays valid.
AllocDataStaysValid(t, size) ==
    IF divide_size(size) = "small" THEN {AllocBySlab(t, size)} ELSE AllocByPageLevel(t, size)

\* PageMemTable::AllocData: a table that refuses one request takes no other.
AllocData(t, size) ==
    {IF got.addr = None THEN [got EXCEPT !.table.valid = FALSE] ELSE got :
        got \in IF divide_size(size) = "small" THEN {AllocBySlab(t, size)}
                ELSE AllocByPageLevel(t, size)}
-----------------------------------------------------------------------------
(* HeapMemManager: opening and loading                                     *)

Closed == [pages |-> <<>>, sections |-> <<>>]
NoHeap == [formatted |-> FALSE, pageStart |-> None, pageEnd |-> None,
           sectionStart |-> None, sectionEnd |-> None]

NewSection(begin) == [current |-> begin + SectionHead, next |-> None]

Init == /\ used = 0
        /\ heap = NoHeap
        /\ tables = <<>>
        /\ sections = <<>>
        /\ loaded = Closed
        /\ held = {}
        /\ freed = {}
        /\ lost = [frees |-> 0, cells |-> {}]
        /\ refusals = 0
        /\ phase = "closed"

\* HeapMemManager::Alloc when the file cannot grow, be it full or the disk.  No caller tests
\* for it: the new table or section is laid over the head of the heap and what is behind it.
ErrorAllocOffset == 0

\* The first `step` writes of InitMmap: 0 the space of the head, 1 the head,
\* 2 the first page table, 3 its link, 4 the first section, 5 its link.
Format(step) ==
    LET table   == used + HeapHead
        section == table + TableSize
    IN  /\ used' = used + HeapHead + (IF step >= 2 THEN TableSize ELSE 0)
                                   + (IF step >= 4 THEN SectionSize ELSE 0)
        /\ heap' = [NoHeap EXCEPT !.formatted = step >= 1,
                                  !.pageStart = IF step >= 3 THEN table ELSE None,
                                  !.sectionStart = IF step = 5 THEN section ELSE None]
        /\ tables' = IF step >= 2 THEN Put(tables, table, NewTable(table)) ELSE tables
        /\ sections' = IF step >= 4 THEN Put(sections, section, NewSection(section)) ELSE sections
        /\ loaded' = IF step = 5 THEN [pages |-> <<table>>, sections |-> <<section>>] ELSE Closed
        /\ phase' = IF step = 5 THEN "open" ELSE "closed"

\* InitMmap gets no room for the first table: the begin noted for it is the table's current.
OverlayFirstTable ==
    LET table == [NewTable(ErrorAllocOffset) EXCEPT !.current = ErrorAllocOffset]
    IN  /\ used' = used + HeapHead
        /\ heap' = [NoHeap EXCEPT !.formatted = TRUE, !.pageStart = ErrorAllocOffset]
        /\ tables' = Put(tables, ErrorAllocOffset, table)
        /\ loaded' = [Closed EXCEPT !.pages = <<ErrorAllocOffset>>]
        /\ UNCHANGED sections

\* It gets none for the first section: the section's current is the heap's pageStart.
OverlayFirstSection ==
    LET table   == used + HeapHead
        section == NewSection(ErrorAllocOffset)
    IN  /\ used' = table + TableSize
        /\ heap' = [NoHeap EXCEPT !.formatted = TRUE, !.pageStart = section.current,
                                  !.sectionStart = ErrorAllocOffset]
        /\ tables' = Put(tables, table, NewTable(table))
        /\ sections' = Put(sections, ErrorAllocOffset, section)
        /\ loaded' = [pages |-> <<table>>, sections |-> <<ErrorAllocOffset>>]

OverlayFormat == phase' = "overlaid" /\ (OverlayFirstTable \/ OverlayFirstSection)

\* The loops of HeapMemManager::Init: the chain of next from a first table.
Chain(area, first) ==
    LET Walk[begin \in DOMAIN area \cup {None}] ==
            IF begin = None THEN <<>> ELSE <<begin>> \o Walk[area[begin].next]
    IN  Walk[first]

\* Init loads what the heap head leads to.  A new file is formatted instead; the
\* process may die on the way.
Open == /\ phase = "closed"
        /\ IF heap.formatted
           THEN /\ loaded' = [pages    |-> Chain(tables, heap.pageStart),
                              sections |-> Chain(sections, heap.sectionStart)]
                /\ phase' = "open"
                /\ UNCHANGED <<used, heap, tables, sections>>
           ELSE \/ \E step \in IF used = 0 THEN Deaths \cup {5} ELSE {5} : Format(step)
                \/ OverlayFormat
        /\ UNCHANGED <<held, freed, lost, refusals>>

\* The pool is closed, or the process dies, between two operations; a NewDataLen whose
\* request is refused makes it die, for it writes the header at the address -1.
Close == /\ phase = "open"
         /\ phase' = "closed"
         /\ loaded' = Closed
         /\ UNCHANGED <<used, heap, tables, sections, held, freed, lost, refusals>>
-----------------------------------------------------------------------------
(* HeapMemManager: requests                                                *)

\* The caller's end of a request for a page or an item; area is what the file holds.
Answer(area, got, len) ==
    /\ tables' = Put(area, got.table.begin, got.table)
    /\ held' = IF got.addr = None THEN held
               ELSE held \cup {[addr |-> got.addr, span |-> got.span, size |-> len]}
    /\ refusals' = IF got.addr = None THEN refusals + 1 ELSE 0

OpenTables == {i \in DOMAIN loaded.pages : tables[loaded.pages[i]].valid}
FirstOpen == tables[loaded.pages[Min(OpenTables)]]

\* Only the first valid table is asked, and its refusal is the answer.
AllocFromTable(len) ==
    /\ OpenTables # {}
    /\ \E got \in AllocData(FirstOpen, len + Header) : Answer(tables, got, len)
    /\ UNCHANGED <<used, heap, sections, loaded, freed, lost, phase>>

\* Step 1 of AllocBySlab is not in the text: it may have taken what FreeDataBySlab puts on
\* the list of the level.
AllocFreed(len) ==
    /\ OpenTables # {} /\ divide_size(len + Header) = "small"
    /\ \E f \in freed :
          /\ f.table = FirstOpen.begin /\ f.level = find_slab_level(len + Header)
          /\ freed' = freed \ {f}
          /\ held' = held \cup {[f.block EXCEPT !.size = len]}
    /\ refusals' = 0
    /\ UNCHANGED <<used, heap, tables, sections, loaded, lost, phase>>

\* UpdatePageOffset: the first extension is noted in the head and linked to nothing,
\* each later one becomes the next of that first one.
LinkTable(begin) ==
    IF heap.pageEnd = None THEN tables ELSE [tables EXCEPT ![heap.pageEnd].next = begin]

\* The file cannot grow.  The heap's pageStart and pageEnd are now the current and the next
\* of the new head; UpdatePageOffset finds no pageEnd.
OverlayTable(len) ==
    LET table == [NewTable(ErrorAllocOffset) EXCEPT !.next = ErrorAllocOffset]
    IN  /\ heap' = [heap EXCEPT !.pageStart = table.current, !.pageEnd = ErrorAllocOffset]
        /\ loaded' = [loaded EXCEPT !.pages = Append(@, ErrorAllocOffset)]
        /\ \E got \in AllocData(table, len + Header) : Answer(tables, got, len)
        /\ phase' = "overlaid"
        /\ used' = used

\* ExtendPageMem of the heap.
AllocFromNewTable(len) ==
    /\ OpenTables = {}
    /\ \/ /\ used + TableSize <= Room
          /\ used' = used + TableSize
          /\ loaded' = [loaded EXCEPT !.pages = Append(@, used)]
          /\ heap' = [heap EXCEPT !.pageEnd = IF @ = None THEN used ELSE @]
          /\ \E got \in AllocData(NewTable(used), len + Header) : Answer(LinkTable(used), got, len)
          /\ phase' = phase
       \/ OverlayTable(len)
    /\ UNCHANGED <<sections, freed, lost>>

\* SectionMemTable::AllocData, in the first section that has the room.
Roomy(size) == {i \in DOMAIN loaded.sections :
                    sections[loaded.sections[i]].current + size <= loaded.sections[i] + SectionSize}

Carve(area, s, len) ==
    /\ sections' = [area EXCEPT ![s].current = @ + len + Header]
    /\ held' = held \cup {[addr |-> area[s].current, span |-> len + Header, size |-> len]}

AllocFromSection(len) ==
    /\ Roomy(len + Header) # {}
    /\ Carve(sections, loaded.sections[Min(Roomy(len + Header))], len)
    /\ UNCHANGED <<used, heap, tables, loaded, freed, lost, refusals, phase>>

LinkSection(area, begin) ==
    IF heap.sectionEnd = None THEN area ELSE [area EXCEPT ![heap.sectionEnd].next = begin]

\* The first piece of a new section, unless the request is larger than the section.
CarveNew(area, s, len) ==
    IF SectionHead + len + Header <= SectionSize THEN Carve(area, s, len)
    ELSE sections' = area /\ UNCHANGED held

\* The file cannot grow: pageStart and pageEnd are now the current and the next of a section.
OverlaySection(len) ==
    LET begin == ErrorAllocOffset
    IN  /\ CarveNew(LinkSection(Put(sections, begin, NewSection(begin)), begin), begin, len)
        /\ heap' = [heap EXCEPT !.pageStart = sections'[begin].current, !.pageEnd = None,
                                !.sectionEnd = IF @ = None THEN begin ELSE @]
        /\ loaded' = [loaded EXCEPT !.sections = Append(@, begin)]
        /\ phase' = "overlaid"
        /\ used' = used

\* A request that is larger than a section takes a new one each time, and fails.
AllocFromNewSection(len) ==
    /\ Roomy(len + Header) = {}
    /\ \/ LET area == Put(sections, used, NewSection(used))
              linked == LinkSection(area, used)
          IN  /\ used + SectionSize <= Room
              /\ used' = used + SectionSize
              /\ loaded' = [loaded EXCEPT !.sections = Append(@, used)]
              /\ heap' = [heap EXCEPT !.sectionEnd = IF @ = None THEN used ELSE @]
              /\ CarveNew(linked, used, len)
              /\ phase' = phase
       \/ OverlaySection(len)
    /\ UNCHANGED <<tables, freed, lost, refusals>>

HeapAllocData(len) ==
    IF divide_size(len + Header) = "huge"
    THEN AllocFromSection(len) \/ AllocFromNewSection(len)
    ELSE AllocFromTable(len) \/ AllocFreed(len) \/ AllocFromNewTable(len)

\* AreanaBuddyPool::DoAlloc and NewData, under alloc_free_mutex_; NewDataLen without it.
Alloc(len) ==
    /\ phase = "open"
    /\ Cardinality(held) < MaxHeld
    /\ HeapAllocData(len)
-----------------------------------------------------------------------------
(* AreanaBuddyPool: Write and Free                                         *)

\* Write refuses data longer than the header says, and shortens the header, before the data
\* reaches the store and whether or not the store takes it.
Write(b, len) ==
    /\ phase = "open"
    /\ len <= b.size
    /\ held' = (held \ {b}) \cup {[b EXCEPT !.size = len]}
    /\ UNCHANGED <<used, heap, tables, sections, loaded, freed, lost, refusals, phase>>

\* What the caller no longer holds and the pool did not take back.
Lose(b, back) ==
    LET cells == b.addr + back..b.addr + b.span - 1
    IN  IF cells = {} THEN UNCHANGED lost
        ELSE /\ lost.frees < MaxLosses
             /\ lost' = [frees |-> lost.frees + 1, cells |-> lost.cells \cup cells]

\* FreeDataByPage, at the level of the size the header has now.  Behind the last free list
\* is the SlabInfo of the smallest items: a page left over becomes their slab page, though
\* it has no slab's head.
FreeDataByPage(t, b) ==
    LET level  == find_level(b.size + Header)
        merged == MergePageLevel(t.lists, b.addr, level)
    IN  /\ IF merged.page = None
           THEN /\ tables' = [tables EXCEPT ![t.begin].lists = merged.lists]
                /\ phase' = phase
           ELSE /\ tables' = [tables EXCEPT ![t.begin].lists = merged.lists,
                                            ![t.begin].node[1] = merged.page]
                /\ phase' = "stray page"
        /\ Lose(b, PageSize[level])
        /\ UNCHANGED freed

\* FreeDataBySlab, likewise: of a block that was larger, or a page, an item is left.
FreeDataBySlab(t, b) ==
    LET level == find_slab_level(b.size + Header)
        item  == [b EXCEPT !.span = ItemSizes[level]]
    IN  /\ Cardinality(freed) < MaxFreed
        /\ freed' = freed \cup {[table |-> t.begin, level |-> level, block |-> item]}
        /\ Lose(b, ItemSizes[level])
        /\ UNCHANGED <<tables, phase>>

\* FreeDataFromSection does nothing; a block of a table that is not loaded is not taken back.
Forget(b) == Lose(b, 0) /\ UNCHANGED <<tables, freed, phase>>

\* FreeDataFromPage looks for the table among those that are loaded.
Owners(addr, size) ==
    {i \in DOMAIN loaded.pages : BelongToTable(tables[loaded.pages[i]], addr, size)}

HeapFree(b, size) ==
    LET owner == tables[loaded.pages[Min(Owners(b.addr, size))]]
    IN  IF divide_size(size) = "huge" \/ Owners(b.addr, size) = {} THEN Forget(b)
        ELSE IF divide_size(size) = "large" THEN FreeDataByPage(owner, b)
        ELSE FreeDataBySlab(owner, b)

\* DoFree goes by the size the header has now, not by the one that was asked for.
Free(b) ==
    /\ phase = "open"
    /\ held' = held \ {b}
    /\ HeapFree(b, b.size + Header)
    /\ UNCHANGED <<used, heap, sections, loaded, refusals>>

Next == \/ Open \/ Close
        \/ \E len \in Lens : Alloc(len)
        \/ \E b \in held : Free(b) \/ \E len \in Lens : Write(b, len)

Spec == Init /\ [][Next]_vars
-----------------------------------------------------------------------------
(* Properties                                                              *)

Tables == {tables[begin] : begin \in DOMAIN tables}

FreePages(t) ==
    UNION {{[kind |-> <<"free", l, i>>, addr |-> t.lists[l][i], span |-> PageSize[l]] :
               i \in DOMAIN t.lists[l]} : l \in PageLevels}

\* Of a slab page: its head, and the room behind the last item handed out.
SlabParts(t) ==
    UNION {LET behind == page + SlabHead + t.slabs[page].item * t.slabs[page].use
           IN  {[kind |-> "slab head", addr |-> page, span |-> SlabHead],
                [kind |-> "slab room", addr |-> behind, span |-> page + Unit - behind]} :
              page \in DOMAIN t.slabs}

Blocks == {[kind |-> "held", addr |-> b.addr, span |-> b.span] : b \in held}
             \cup {[kind |-> "freed", addr |-> f.block.addr, span |-> f.block.span] : f \in freed}

\* What the page areas of all tables and the sections have been cut into.
Cells == Blocks \cup UNION {FreePages(t) \cup SlabParts(t) : t \in Tables}

Heads == {[kind |-> "head", addr |-> 0, span |-> HeapHead]}
            \cup {[kind |-> "head", addr |-> t.begin, span |-> TableHead] : t \in Tables}
            \cup {[kind |-> "head", addr |-> s, span |-> SectionHead] : s \in DOMAIN sections}

Extent(c) == c.addr..c.addr + c.span - 1

\* Until the file could not grow when it had to (heap_mem_manager.cc:69, :79 go on at offset
\* 0) and until a merge went past the highest level (page_mem_table.cc:192).
Intact == phase \in {"closed", "open"}

\* As long as the heap is intact no two of these overlap, whatever the requests, the frees,
\* the writes that shorten a header and the restarts: the blocks callers hold, the freed
\* items, the pages on the free lists, the slab pages, the heads of tables and sections, and
\* the head of the heap; and no header promises more than its block (arena_buddy_pool.cc Read
\* returns the length of the header, page_mem_table.cc Split- and MergePageLevel move
\* addresses).
Apart ==
    Intact =>
    /\ used > 0 => \A c \in Cells \cup Heads : Extent(c) \subseteq 0..used - 1
    /\ \A c, d \in Cells \cup Heads : c # d => Extent(c) \cap Extent(d) = {}
    /\ \A b \in held : b.size + Header <= b.span

\* What the tables and the sections have cut off so far.
Cut == UNION ({t.begin + TableHead..t.current - 1 : t \in Tables}
                \cup {s + SectionHead..sections[s].current - 1 : s \in DOMAIN sections})

\* Splitting and merging keep the memory: as long as the heap is intact every address a table
\* or a section has cut off is on a free list, in a slab page, a freed item, held by a
\* caller, or was given up by a Free, and what was given up is none of the others again.
Conserved ==
    LET kept == UNION {Extent(c) : c \in Cells}
    IN  Intact => kept \cup lost.cells = Cut /\ kept \cap lost.cells = {}

\* A table refuses one request and is closed for good, and AllocDataFromPage returns the
\* refusal (heap_mem_manager.cc:44-48): the caller that tries again is served by a new table,
\* as long as the file can grow.
RetryServed == Intact => refusals <= 1
=============================================================================
