# Formal models of ad_index

ad_index is an in-process index engine for advertisement retrieval: C++ classes that keep
tables, indexes and values in memory-mapped files.  The code lives in `src/kernel/`; it has
no network and no server loop.  What is hard about it is memory: blocks are carved off a
shared file by many threads, given back with a delay through a worker thread, kept across
restarts by a dumped free list, and pointed at from data structures that live in the same
file.  The modules here model that code, TLC checks them on small instances, and TLAPS proves
the allocator, the value pools, the arena, the stores, the thread pool, its queue, the search and
both index tables for every instance.

Run `tlc -config <run>.cfg <MC module>.tla` for a run of the table in section 3 and
`tlapm <X>Proofs.tla` for the proofs of section 4.

## 1. Inventory

| component (source) | state it keeps | operations | what is hard | what makes it correct | module |
|---|---|---|---|---|---|
| ThreadPool (`common/concurrency/thread_pool.*`) | `status_`, a queue, mutex and condition variable per worker, a round-robin counter | Start, Stop, AddTask, ThreadBody | `status_` is read without a lock; a Stop between a worker's test and its sleep; a full queue and a caller that tries again | accepted tasks run once and in order; no worker sleeps through a notification; Stop returns and has drained | ThreadPool |
| LockFreeQueue (`lock_free_queue.hpp`) | a linked list with a dummy node: `head_`, `tail_`, `size_` | Push, Pop, Empty, constructor, destructor | `size_` is claimed before the list is touched; a node is linked after it has become the tail; nodes are deleted while others may read them | first in, first out; the size accounts for every claim; nothing deleted is touched; nothing leaks | LockFreeQueue, BoundedFifo |
| FilePool, MMapPool (`pool/file_pool.*`, `pool/mmap_pool.*`) | file and used size, free list per size, queue of delayed frees, `<file>.fl` | Init, Alloc, Free, DoFree, EnableFreeList, DisableFreeList, Release | clients, delay thread and Release interleave; restart at another address; a death or a full disk in the middle of the dumped list; read-only sessions; failing expansions | every byte has one owner; blocks lie in the file; no block is recycled before the time gap; Release returns | FilePool |
| FixLengthPool, VariableLengthPool | the same, and a header with the length before each value | NewData, Write, Read, Free, DoFree | the size of a freed block is read from its header after the delay; Read returns a pointer | values read back; extents lie apart; a freed value stays until the gap is over | DataPool |
| Arena buddy pool (`pool/arena_buddy_pool/*`) | in the file: heap head, page tables with a free list per level and slab pages, sections; in memory: the tables it has loaded | NewData, Write, Free, Init with formatting and loading | split and merge over two rows of levels; a file that cannot grow; what a reload finds; a header that Write shortens | nothing overlaps as long as growth succeeds; no cell is lost; who is refused is served on a second try | ArenaPool |
| FileStore, MMapStore (`store/*`) | descriptor, `size_`, mapping | Open, Close, Read, Write, Append, Expand, Truncate | one file written through two ways of different reach; `size_` can leave the file | what was written reads back; the size is true; no copy behind the end of the file | Store |
| MurMurHashTable (`index/hash_table/*`) | buckets in the pool, chained by distances; `used_size` | Init, Load, Insert, Delete, Search, Begin, GetNextElement | tombstones, buckets moved between places of a chain, buckets freed and recycled, loading | it is a map; chains never cross; an iteration is complete | HashTable, KvIndex |
| SortTable (`index/sort_table/*`) | one sorted array with a header | Insert with two ways to grow, Delete, BatchInsert, BatchDelete, Search | the search's arithmetic, merges in place | sorted, a map, inside its block; the search finds | SortTable, SimdSearch |
| Index (`index/index.*`) | file header with a magic | the interface of both | | a map with a size | KvIndex |
| Table info (`manager/table_info/*`) | fields with offsets and sizes, table config, related fields | CreateTableInfo, ParseTableConfig, ParseFieldDesc, conversions | recursion over tuples, fields of one name in several messages, keys related after their layout | fields of a row lie apart and stay in place; only the right tables are accepted; values fit their place | TableLayout |
| snapshot, data manager, utilities, log, TinyXML | | | | | not modelled |

How they interact.  Both index tables allocate from an MMapPool and name their blocks by
distances in the mapping.  MMapPool, the value pools and the arena are FilePools over an
MMapStore.  `FilePool::Free` posts a closure to a ThreadPool of one worker that sleeps until
`reuse_timegap_` seconds have passed since the call, takes `alloc_free_mutex_` and calls the
virtual `DoFree`.  A ThreadPool keeps the tasks of each worker in a LockFreeQueue, which it
pushes and pops under the worker's mutex and asks Empty without it.  `FilePool::Release` stops
its thread pool, which joins the thread after it has worked off its queue, and then dumps the
free list.  There is no other asynchronous call; everything else runs in the caller's thread.
`PROJECT.json` lists the hazards, each at its line.

## 2. Modules

* **FilePool** models both allocators; `Mapped` selects the class.  A block is its address and
  size.  `freeList`, `spaceSize`, `readOnly`, `useFreeList`, `base` are the members of the same
  meaning, `fileSize` and `used` the store's size and the header's first word, `pending` the
  queue of the delay thread with the time each task still has to sleep.  `held`, `age` and
  `stale` are history: who holds what, for how long a block has been free, and whether an Init
  has loaded a list that was wrong in itself (`Wrong`: it names a byte twice, a block somebody
  holds, or one that was never carved off).  An action is one critical section:
  `InitPool`/`InitHeader` (a crash may come between expanding a new file and writing its
  header), `Alloc`, `Free`, `DelayedFree`, `Tick` (time), `SetFreeList`, `Release` (Stop begins),
  the writes of the dump, `Construct`, `Destroy`, `Crash`.
  The dump file `fl` is its first word, the number of entries, and the entries behind it.
  `DumpFreeList` opens it without truncating; `DumpEntry` writes one entry over what is in its
  place and pops the block; `DumpCount` writes the number, and only then resets `spaceSize`;
  `DumpTruncate` cuts the file.  `Crash` may come between any two of them.  `full` says that
  writes to the file fail, which `Disk` switches at any time: `DumpFails` counts the entry and
  goes round the loop again, a failing `DumpCount` gives the dump up.  `LoadFreeList` reads as
  many entries as the number says (`Entry`): behind the end of the file the last one comes
  again, and a gap filled by Truncate holds zeros, which are kept apart in `zeros`.  `Width` is
  the number of values of `Block::size`, a uint32_t; block sizes lie below it.
* **ThreadPool** has one action per critical section or unlocked read.  `wpc = "drowsy"` is the
  worker that has evaluated its predicate and not gone to sleep: it holds the mutex, and the
  notifications of Stop and AddTask, which take it, wait.  Waits may wake up spuriously.  A
  client may offer a refused task again (`OfferAgain`, as the unit test does): by then AddTask
  has moved its function away, and the worker that pops the empty function is `dead`.
* **BoundedFifo** is what a queue between threads promises.  **LockFreeQueue** is the list that
  keeps it, one action per access to `head_`, `tail_`, `size_` or a node's next; `locked` says
  whether the threads hold a mutex around Push and Pop, and `poppers` which consumers take part.
  The allocator may return the address of a deleted node.  Where the code touches a deleted node,
  or lets `head_` point to one, the model stops with the reason in `fault`.  `waiting` of
  BoundedFifo maps to what has been hung behind the tail and not been popped, `got` to what came
  out, and its capacity is `max_queue_size_ + 1`: without a mutex a consumer between its claim
  and its entity makes room for one more.  With several consumers and no mutex the order of the
  answers is not defined (`InTurn`), and nothing is claimed of it.
* **KvIndex** is what Index promises: a map with a size.  **HashTable** is the table in its
  pool (`brk`, `free` and `delayed` are the pool's side), bucket by bucket: a bucket is
  occupied, has a key, a value and a next.  The walks of the code down a chain are recursive
  functions (inside `Walk`, `Hit` and `Iteration`).  It is shown to implement KvIndex, with
  `map[k] = Search(k)` and `size = used_size`.
* **SimdSearch** is the four-lane search, one action per round (its specification is called
  `SearchSpec`, so that one module can reason about both); **SortTable** the table around
  it, whose merge and sift loops are recursive functions of the turn (`MergeTurn`, `SiftTurn`)
  that move records in place as the loops do.  Its ghost map `dict` plays the part KvIndex plays
  for the hash table.  A batch of records has distinct keys: of two records with one new key
  the source would store both (`sort_table.cc:363`).
* **Store** is one file with both ways to write it: `size` is what the store believes, `file`
  what is there.
* **DataPool** keeps the contents: the mapping unit by unit, with headers.  The store may refuse
  any write: `NewDataFails` leaks the block, `WriteFails` leaves the header at the new length.
* **ArenaPool** has the heap head, the page tables (free lists per level, slab pages) and the
  sections of the file, and apart from them `loaded`, what the process knows of them.  `Alloc`
  takes the way of `AllocData` by size: an item of a slab page, a page, a piece of a section.
  `Free` takes the size in the header for what the block is: a page of that size is given back
  and merged, an item goes to the list of its level (`freed`, the lists `SlabInfo.free_block`), and
  a piece of a section is forgotten; `Write` shortens that header; `Open` formats a new file,
  and may die in between, or loads an old one.  The sizes of pages (`PageSize`), the merge and the
  chain of tables that a reload follows are recursive functions.  `lost.cells` is history: the
  addresses a Free did not take back, so that Conserved can say of every address that has been cut
  off where it is: on a free list, in a slab page, a freed item, held, or given up.
  The text of `page_mem_table.cc` is damaged between step 1 of AllocByPageLevel and step 2 of
  AllocBySlab, and what stood there is open.  For AllocByPageLevel the model allows both outcomes
  that the rest of the class suggests: a refusal, and `SplitFromHighLevel`.  For step 1 of
  AllocBySlab it allows that a freed item is taken (`AllocFreed`) and that none ever is.
  When the file cannot grow, `HeapMemManager::Alloc` returns 0, which nobody tests: `OverlayTable`,
  `OverlaySection` and `OverlayFormat` do what the code then does, a whole new head laid over the
  head of the heap and what is behind it, linked, loaded, and the request served from it.  When a
  merge goes past the highest level, the page left over becomes the slab page of the smallest
  items.  The model takes that step and ends there (`phase` is "overlaid" or "stray page"): the
  memory is then no heap of structures that this state could name.  The properties speak of
  what comes before (`Intact`).
  NewDataLen is an `Alloc` (it takes no mutex, which is not modelled); when it is refused it writes
  a header at address -1, and the process dies: `Close`.
* **TableLayout** has one action per turn of the field loop; the recursion over tuples is a
  recursive operator.  What `Accepted` measures the outcome by is the entry and the fields'
  declarations (`Proper`, `Sized`, `Unique`), not what the code works out from them.
* **MC\*** give the constants values; **\*Proofs** hold the theorems.

The components stand for each other where they meet.  FilePool's `pending` is a ThreadPool of one
worker with what is shown of it (in order, once, drained by Stop), and its file is the Store's.
ThreadPool's queues are BoundedFifo, which LockFreeQueue implements under exactly the locking
ThreadPool does, with `SureToPop` for the one call made outside it.  HashTable's `free` and
`delayed` are FilePool's lists for one block size.

## 3. Runs

| run (MC module) | question | bounds |
|---|---|---|
| pool_mmap (MCFilePool) | An MMapPool that is used, released, destroyed or lost and mapped again at another address: one owner per byte, when a dump can be stale, the list's size, blocks in the file, no byte lost, no early reuse | three handles, sizes 1 and 2 in a file of 5 units, where a block of 2 needs two expansions of 1; a gap of one tick; two addresses; three Inits, of which the third is the first that can be wrong; deaths between any two writes of a dump; 1,209,786 states |
| pool_file (MCFilePool) | A FilePool that is released, reopened, read only, crashed, its list on and off, on a disk that refuses writes of the dump and takes them again: one owner, and Release returns unless writing keeps failing | two handles, expansions of 3, two Inits (with failing writes the second can already be wrong), two failing writes counted by one dump; 727,301 states |
| thread_pool (MCThreadPool) | Two workers with queues of one, two clients of two tasks that may try again, Stop at any time: order, no lost wake-up, Stop drains and returns, promises are kept | full and empty queues both occur, tasks outnumber places |
| lock_free_queue (MCLockFreeQueue) | Two producers and one or two consumers, with and without a mutex: size, no touch of what is deleted, no leak, first in first out, what Empty promises | a capacity of 2 and three pushes, so that the queue fills and empties; four addresses, used again; a size_t of 8 values; 177,725 states |
| hash_table (MCHashTable) | Four keys in two chains, lists on and off, one restart between any two calls: complete iteration, recycled buckets apart, implements KvIndex | both raw buckets and three overflow buckets: chains of two each, or recycled |
| hash_reuse (MCHashTable, violation) | What the table does once a raw bucket that it has freed comes back | three keys, two of one chain |
| search (MCSimdSearch) | Every table of up to 40 records and every present and absent key: window, answer, progress | 40 records take three rounds and reach every remainder modulo 4 at each |
| sort_table (MCSortTable) | Tables of both types with no or one record of room, all operations: sorted, in its block, the map its clients asked for | five keys, batches of three |
| store (MCStore) | One file, both classes, mappings shorter and longer than the file, truncation and short writes: durable, the true size, inside the file | writes of up to 2 in a file of 5, mappings of 2 and 4 |
| data_pool (MCDataPool) | Both value pools, three clients, a store that may refuse any write: extents apart, values read back, cut short at most where a Write was refused, freed values stay | 7 units, values of 1 and 2, a gap of 2 ticks; 104,031 states |
| arena (MCArenaPool) | Requests of every class, frees, shortening writes, freed items handed out again or not, restarts, a death while formatting, up to the first failed growth or merge past the top: nothing overlaps, no cell is lost, a second try is served | pages of 8 and 16, items of 1 and 3, tables of one row; the file has room for one more table or section, for two after a death while formatting; three blocks held, one on a list of freed items; 1,321,498 states |
| table_layout (MCTableLayout) | Every entry of up to three fields of 15 kinds, with a second message, and the other forms: layout, acceptance, stability, conversions | kinds chosen for every branch; tuples nested twice |


*Bounds.*  Every one is a constant named in its module: `MaxUsed`, `MaxInits` and `MaxFails` (FilePool),
`MaxUsed` (DataPool), `TasksPer` (ThreadPool), `MaxPushes`, `Nodes` and `Modulus`
(LockFreeQueue), `MaxBuckets` and the one restart (HashTable), `MaxBatch` (SortTable), `MaxLen`
and `MaxSize` (Store), `Room`, `Deaths`, `MaxHeld`, `MaxFreed` and `MaxLosses` (ArenaPool).  Clients simply
stop at a bound.  `Modulus` keeps the wrap-around of `size_` and makes it come early: Pop of an
empty queue passes through -1.

*Symmetry* is used for handles, clients, threads and nodes, and for the keys of one chain, only in
runs that check no liveness.

*Constraint.*  hash_table explores up to the first raw bucket that a pool with a free list
receives (`Sound`).  What comes after is the defect that hash_reuse shows.

*Deadlock* is checked in hash_table and hash_reuse.  In the other runs the system may stop for
good: all clients are at their bound, a pool is stopped, a process has been killed, a queue is
destroyed or has faulted, a search or a parse is done.

*Fairness.*  FilePool: weak fairness of the delay thread, of the clock and of the rest of a
Release, each step of its dump; the thread does nothing but sleep and lock.  The disk owes
nothing: ReleaseReturns has the premise that writing does not keep failing (`<>[]~full`), and
without it the dump loop goes on for ever.  ThreadPool: weak fairness of each worker (the
operating system schedules threads, and tasks are assumed to return) and of a Stop that has
begun.  Nobody is obliged to call anything: no fairness of clients, of Stop or of Release.  All
other runs check safety only.

## 4. Proofs

Each holds for every value of the constants that satisfies the module's named assumption: any
number of clients and threads, any sizes, gaps, capacities and bounds.

**FilePoolProofs** (`PoolAssumption`, `NoneAssumption`).  The inductive invariant is

    IInv == TypeOK /\ Shape /\ (Trusted => Below) /\ SingleOwner /\ Dumps

`Below` says that everything that is held, free, waiting or written to the `.fl` file lies
below `used`, so that a block carved off at `used` overlaps nothing; without it SingleOwner is not
inductive.  It is lost when failing writes have made a list of blocks that never were and an Init
has loaded it (`Trusted`); SingleOwner asks nothing of such a pool.  `Shape` ties the phase to the
file (between the expansion of a new file and its header nothing is used, a FilePool's used size is
its file's, no delayed free outlives its pool).  `Dumps` says how far a dump has come: what it has
written is in the file, and while no write fails the number in front never promises more entries
than there are.  There is one lemma per action and one step per conjunct it can disturb; bags,
address shifts and the reading of the file have lemmas of their own (`BagPush`, `BagPop`,
`MoveFacts`, `MoveAllFacts`, `EntryFacts`, `OnFileFacts`).  Theorems: `Invariance`, `TypeCorrect`,
`AllocatorSafety` (SingleOwner): until an Init loads a list that is wrong in itself no byte has two
owners, wherever a process dies in a dump and whichever writes fail.
`StaleOnlyOnThirdInit` says when that can first be, if no write fails.  It adds `Sessions`, whose
part `FirstFile` follows the first dump: the number of entries is 0 until they are all written, so
that a death in between leaves an empty list; and those written so far (`Sure`) overlap neither one
another nor what is held or still to be written.  On `SInv == IInv /\ Sessions` and IInv rest four
more; of them NoEarlyReuse and FreeListSize, like StaleNeedsReload, are about environments in which
no write to the `.fl` file fails (`"full" \notin Env`):

* `FInv == SInv /\ Filled /\ Floor`.  `Filled` says that the used mark is ahead of the file only
  as long as nothing lies in it, `Floor` that in the first session no block lies in the reserved
  area.  Theorem `HeldInFile` (BlocksInFile).
* `RInv == SInv /\ Ages /\ Rested`.  What has an age lies below `used`, a waiting block still waits
  for what its gap lacks, a block on the list is older than the gap, and so is everything in the
  first dump, as far as it has come.  Theorem `GapKept` (NoEarlyReuse).
* `Sized`: the size of the list is the sum of its blocks, and 0 before the list is loaded and
  once the number of entries is written.
  Theorem `FreeListCounted` (FreeListSize), for behaviours without a read-only session, after
  which the source counts the dump twice.
* `CInv == FInv /\ Finite /\ Accounted`: the bytes held, waiting and free are those carved off.
  Theorem `NothingLost` (Conserved), for behaviours in which the free list stays on; switching it
  off drops blocks, by design.

The last two need what a sum over a bag does when a block comes or goes.  The sums are those of
the community module Functions, recursive functions over sets.  The prover cannot instantiate
an induction rule, whose parameter is an operator; it can use that the finite subsets of a set
are well founded, which is a fact about sets.  So a law of sums that failed somewhere would fail
for a least set (`LeastSet`), and its sum is an element more than the one before: `SumsExist`,
`SumRemove`, `SumImage`, `SumExtend`.

**ThreadPoolProofs** (`ThreadAssumption`, `TaskAssumption`).  `TInv == TypeOK /\ Holding` says who
is where in AddTask and in the queues.  On it rest three invariants: `OrderInv` (what was accepted
is what has run, what runs and what waits, in this order) for `TasksInOrder`; `WakeInv` (the queue of a
worker that is drowsy or asleep is empty, and after `status_` is cleared Stop's notification of it is
still to come) for `NoWakeupLost`; `DrainInv` (a worker ends only after Stop, and each task that was
accepted while `status_` was 1 is in a queue, with its worker or among what has run, and among what
has run once the worker has ended) for `StopRunsAll`.

**LockFreeQueueProofs** (`QueueAssumption`: finite sets of threads, a size_t wider than the
capacity and the threads together).  The invariant is that there is a sequence of nodes, from
`head_` to `tail_`, that is the list in memory, except for links that a producer has still to set:

    \E s : List(s)      List(s) == Ring(s) /\ Made(s) /\ Front(s) /\ Promise(s)

`Ring` ties the nodes to the entities that wait, `Made` the node of each Push under way to its
place in the sequence, `Front` what the consumer inside has read to the first two nodes, `Promise`
the answer of Empty to the first link, which nobody else takes away.  `Exclusion`, `Items` and `Sizes`
say who holds the mutex, which entities are on their way, and what `size_` is.  The whole, `QInv`,
holds under the mutex for any number of consumers, and without it for a single one.  Theorems:
`Refinement` (the list implements BoundedFifo), `NothingDeletedTouched` (Safe), `PromiseKept`
(SureToPop), `ClaimsAccounted` (SizeAccounts), `EverythingDeleted` (NoLeak).  For several consumers
without a mutex nothing is proved.

**StoreProofs** (`StoreAssumption`).  `IInv == Types /\ SizeIsTrue /\ InsideFile /\ Stored`, where
`Stored` says of every byte written with success that the file has it.  Theorems: `SizeTrue`,
`CopiesInside`, `WritesDurable`.

**DataPoolProofs** (`DataPoolAssumption`).  `IInv == Types /\ Placed /\ Valued`: `Placed` keeps the
extents of held, waiting and free blocks apart and below the used mark, `Valued` ties the units of
the mapping to them: the header of a held block and the value behind it, which is what was written
last, cut to the shortest length of a Write refused since; the header a waiting block will be
freed by, never larger than the block; the value that a reader may still have a pointer to.  Theorems: `BlocksApart` (Extents),
`ValuesReadBack` (ReadBack), `FreedValuesStay` (LeaseIntact).

**HashTableProofs** (the assumptions of HashTable: any number of buckets, any keys and any hash).
As long as no raw bucket has been freed the invariant is

    InOrder == Table(bucket, Trails(bucket)) /\ Lending(brk, delayed, free, Trails(bucket))
               /\ usedSize = Cardinality(Taken(bucket))

`Table` says that there is a chain for every raw bucket, the sequence `Trail` of the buckets a walk
meets (`Chains`), that a bucket has one place in one chain (`Apart`), that every occupied bucket is
in the chain of its key's hash (`Kept`), and that no key is there twice (`Once`).  `Lending` puts
every overflow bucket that the pool has carved off and that is in no chain (`Loose`) into the
pool's bags at most once.  That a recursive walk ends is shown with a least natural number
(`LeastNatural`).  Each operation is reduced to what it does to the chains: a bucket put behind a
chain, filled, emptied, moved up, or taken out.  Theorems: `BucketsApart` (RecycledApart); `IsAnIndex`
(RefinesIndex), step by step: every call of the table is one of KvIndex or changes nothing in
it; `IterationMeetsAll` (IterationComplete), where the iteration is a walk through the order of
(raw bucket, place in its chain), which with as many steps as there are occupied buckets meets
each once (`WalkMeetsAll`).  The premise of all three, that no raw bucket has been freed, is the
line between the table that works and the defect that hash_reuse shows.

**SortTableProofs** (`SortAssumption`).  The invariant is small,

    SInv == recs \in Seq(Record) /\ Rising(recs) /\ FitsBlock /\ dict = [k \in Keys |-> Lookup(recs, k)] /\ ...

and the work lies in the loops.  `LoopExists` and `LoopKeeps` say of a recursive function over
0 .. N that it exists and stays in sets S[0], ..., S[N] when each turn leads from one to the next;
the loop invariants are such sets.  `Merging`: in front of r are old records where they were, from
r + n + 1 on the records taken so far, rising and above all that are to come, and the place
between is free to be written on.  `Sifting`: in front of the write place what was read and is not
in the batch, from the read place on the old records, and the keys the batch has passed are
smaller than those.  `MergeIs` and `SiftIs` say what comes out.  Theorems: `SortInvariant`,
`StaysSorted` (SortedKeys), `StaysInBlock` (FitsBlock), `IsAMap` (Agrees).

The module extends SimdSearch too, and proves the search of any table with strictly increasing keys
for any key (`TablesAssumption`).  The loop invariant is `SearchTypes /\ Window /\ Correct`: whatever
lies left of the window is smaller, right of it larger than the key.  `Quarters` and `Lanes` carry
the arithmetic of the four midpoints.  Theorems: `SearchCorrect`, `WindowHolds`, `AnswerCorrect`,
`RoundsNarrow`.  Then the two specifications are put side by side: SortTable takes the search by what
it returns (`At`, `Before`), `TablesSearched` says that its records are always a table the search is
proved right for (`SortedTables`), and `SearchServesTable` that whenever the table searched is the one
SortTable has, the index the search ends with is what SortTable takes it to be (`Contract`).

**ArenaPoolProofs** (`Sizes`, `Shape`: structures are not empty, a new table has a page of each
level behind its head, a slab page holds an item of each size, some item serves every small request,
a section has room behind its head, and the file has room for a heap).  What a free list, a slab
page and a block have in common is addresses, and the invariant says of every address where it is:

    IInv == Intact => Sound
    Sound == Whole(used, tables, sections, Out, lost.cells) /\ Links /\ Loaded /\ Retry /\ FreedGood /\ ...
    Whole(u, T, S, H, C) == Areas(u, T, S) /\ Held(T, S, H, C) /\ Shared(T, S, H, C)

`Out` is what callers hold together with the freed items, which are blocks like them but for their
owner; `FreedGood` says that an item is listed once, with the size of its level.  `Intact` is the
limit of every theorem of the module: a growth that fails or a merge past the highest level does
put structures over one another, and the theorems speak of the states before.

`Areas`: tables and sections lie side by side, and each table keeps its free pages apart from
one another and from its slab pages (`TableGood`).  `Held`: blocks are apart, each within what one
table or one section has cut off; an item's header never reaches half a page, so that Free does
not take it for a page.  `Shared`: what a table has cut off is its own (`Unheld`) or gone, and a page
is not a part of a slab page, without which a page that is given back might come to lie in one.

The proof has three layers.  *Free lists*: what a split and a merge do to the set of addresses on
the lists (`SplitIs`, `MergeIs`; the loop invariant of the merge is `MergeStates`).  *One table*:
every operation of a table gives out one block or nothing and keeps every other address (`Gives`,
`Outcome`): `ExtendIs`, `GivesPage`, `AddSlab`, `ItemIs`, up to `AllocDataIs`.  *The file*: `Whole` is
kept when a table gives something out, when a table or section is added or linked, a section carved,
a header shortened, a page returned, a block forgotten (`GiveKeepsWhole` and the lemmas after it,
which speak of values, not of states); each action cites one or two of them.  At the end the
addresses are compared with the cells the properties are about (`CellsAre`, `HeadsAre`, `KeptIs`,
`CutIs`).

Theorems, all of a heap that is `Intact`: `Invariance`; `BlocksApart` (Apart); `MemoryConserved`
(Conserved): nothing is lost, and nothing that was given up comes back, whether AllocBySlab takes
freed items or not; `RepeatServed` (RetryServed), by `Retry`: of the tables the
process has loaded only the last may be valid, none is after a refusal, and a new table serves any
request for a page or an item (`NewTableServes`).  A restart finds the original table and not the
extensions; that it, too, is closed after a refusal is the last part of `Retry`.

**Only model-checked.**  All liveness (ReleaseReturns, StopReturns, PromisedRun), which is beyond
the prover.  TableLayout (LayoutSound, Accepted, Converts, Stable), whose operations on a tuple are recursive
operators, with which the prover loses its SMT backend; they would have to be rewritten as recursive
functions, as those of HashTable, SortTable and ArenaPool are.  And of LockFreeQueue the case of
several consumers without a mutex, which the code has no user for.

## 5. Where the code differs from what it says

Shown by a run: Delete of the last key of a chain gives the table's own bucket to the pool
(hash_reuse).  Met while modelling; the models behave like the code, and the properties say how
far its promises reach:

* `DumpFreeList` leaves the old `.fl` file when the list is empty or the pool is read only;
  from the third Init on blocks that are held can be handed out again (StaleNeedsReload is
  exact about this).
* It writes the entries over those of an earlier dump, and their number last.  A process that dies
  in its second dump leaves new entries under the old number, and the third Init may load one
  block twice.
* An entry whose write fails is tried again without end, and counted each time
  (`file_pool.cc:266`): Release hangs while the disk is full, and when there is room again the
  number is too large.  What it promises beyond the entries is read as blocks of size 0, or, when
  the truncation fails too, as the last entry again and again, shifted by the begin of the data each
  time; such blocks may never have been.  When the number itself cannot be written the new entries
  stay under the old one.  With failing writes the second Init can already be wrong.
* `VariableLengthPool::Write` shortens the header before the store takes the value
  (`variable_length_pool.cc:26`): when the store refuses, the client is told that nothing was
  written and reads its old value cut short.  A `NewData` whose write fails loses the block.
* A pool used after Release and a second Init of the same object loses every freed block:
  nobody restarts the delay pool, and `Free` ignores AddTask's `false` (`file_pool.cc:117`).
* In a read-only session the list's size is not reset and counted twice at the next load; the
  model has it, FreeListSize is checked in the environment without read-only sessions.
* A process that dies in the first Init, between Expand and the header, leaves a used size of
  0, and the next Alloc returns the header.
* AddTask moves the caller's function away before it reports a full queue; the retry of
  `thread_pool_test.cc:27` queues an empty one, whose call ends the worker with an exception.
  thread_pool has this retry, and PromisedRun says what remains true.
* AddTask between the compare-and-swap of Start and its loop divides by zero
  (`thread_pool.cc:82`).
* LockFreeQueue without a mutex is not safe: a Pop that finds no next node swaps `head_` with
  itself, and when a Push links its node in between, deletes the node `head_` points to; with two
  consumers one may read a node the other has deleted.  ThreadPool holds its mutex.
* A read-only MMapStore copies into its mapping, which kills the process; the unit test passes
  because its file is empty.  A write that is cut short by the disk is taken for a whole one;
  Truncate does not update the store's size.  Threads of one store share the descriptor's
  position between lseek and the call after it (`file_store.cc:67`).
* SortTable::Delete tests for the opposite: a found key stays, an absent one ends in a null
  pointer.  BatchInsert into a full EXCLUSIVE table does nothing and returns true, and it skips
  keys that are there, where Index::BatchInsert overwrites.  AllocAdd publishes
  `first_` before `header_`, between which a reader pairs the new array with the old size
  (`sort_table.cc:236`).  The result of Alloc is not tested where the tables grow
  (`sort_table.cc:249`, `murmurhash_table.cc:146`).
* A hash bucket keeps the length of a key in 8 bits, the next bucket in 29 and a value in 48
  (`hash_bucket.h:93`); nobody tests that they fit.
* The proto option is `uniq_string`, the type constant `unig_string`: such fields have an
  unknown type, and their table is refused.  An entry without a key is logged and its missing
  member then read, which rapidjson asserts against, though the comment at `table_info.cc:150`
  lets it pass, as the key may be defined in the proto file.  Accepted claims nothing of either.
  A repeated tuple with a broken sub-field is accepted.  A related key becomes a single field
  after its place was laid out.  Small integers keep the low bytes of any 32-bit number.
* Arena pool, where things come to lie over one another: when the file cannot grow, the address 0
  goes untested into Init (`heap_mem_manager.cc:69`, `:79`).  A whole table head, or a section's,
  is written over the head of the heap and what is behind it, which for a table is the head of the
  first table and its pages; the heap's `page_mem_start` is then the current of the new head; and
  the request is served from it, out of memory others hold.  Merging goes on past the highest
  level into the word behind the free lists, the slab pages of the smallest items
  (`page_mem_table.cc:201`).  A process that dies in HeapHead::Init after its first store leaves a
  head whose chains lead to offset 0.
* Arena pool, the rest: the first valid table answers for all, and its refusal is returned
  without another being made (RetryServed).  NewDataLen takes no lock, and tests an address for
  null that is -1 when refused, so that it writes a header in front of the mapping.  The first
  table or section added to a heap is noted in its head and linked to nothing, the later ones are
  linked over each other behind it; a reload finds the original one only.  A request larger than a
  section leaves a section behind.  Free after a shortening Write gives a page back at a lower
  level, and what was a page of its own as an item.

## 6. Not modelled

Snapshot (headers and empty files), data manager, index infos and view tables, the reading of
proto files; the parsing of an XML descriptor is declared and not defined, and any outcome here.
Log, status, string helpers and TinyXML have no state worth a model.  Within modelled components:
individual unlocked loads and stores of readers beside a writer (operations of the tables are
atomic), a Start after a Stop, the position of a descriptor shared by threads, a Free with a gap
of 0 as unlocked steps, a `.fl` file that cannot be opened or an entry of it written in part, blocks
of 4 GiB and more (`Width`), the failing Alloc of a table that grows and batches with a key twice
(SortTable), the magic of an index file, Tail and Front of LockFreeQueue, which only read, and in
the arena its Read, the delay of its frees, which is FilePool's, the missing lock of NewDataLen, the
six stores of HeapHead::Init one by one, and what a heap does once structures of it share memory.
These leave ThreadPool, FilePool, MurMurHashTable, SortTable, the arena and the table info partly
modelled.

## 7. Plan

Done, in this order: FilePool and its proofs, ThreadPool, KvIndex and HashTable, SimdSearch
and its proofs, SortTable, Store, DataPool, TableLayout, LockFreeQueue and BoundedFifo, ArenaPool,
the retry of a refused task, the proofs of ThreadPool, Store, DataPool, LockFreeQueue and of
FilePool's file and reuse, then FilePool's byte counts, the refinement of KvIndex by HashTable and
its iteration, SortTable and its composition with SimdSearch, and ArenaPool.  What would come next:

1. A proof of TableLayout's LayoutSound, over recursive functions instead of operators.
2. HashTable with the stores of Insert and Delete as single steps: a crash between two of them
   (the new bucket is linked before its own next is set), and readers that walk meanwhile.
3. SortTable's AllocAdd and ExpandAdd against readers, and loading.
4. FilePool with a gap of 0 as unlocked steps.
5. ThreadPool over a second Start, and the shared position of a descriptor.
