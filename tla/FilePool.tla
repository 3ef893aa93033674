------------------------------ MODULE FilePool ------------------------------
(***************************************************************************)
(* kernel/pool: FilePool and its subclass MMapPool, the allocators every   *)
(* index of the repository stores its blocks with.                         *)
(*                                                                         *)
(* A pool owns one store file.  Space is carved off the end of the used    *)
(* part of the file (AllocFromStore) and comes back through a free list    *)
(* kept per exact block size.  Free does not return a block at once: a     *)
(* task on a one-thread pool sleeps until reuse_timegap_ has passed, so    *)
(* that readers still holding the address finish first.  Release drains    *)
(* that thread and dumps the free list to "<file>.fl", entry by entry and  *)
(* the number of entries last, over what the file held; Init loads it.     *)
(*                                                                         *)
(* Mapped selects the class: MMapPool (the file is mapped at base, the     *)
(* used size lives in its first 8 bytes, the file grows by MinExpand) or   *)
(* plain FilePool (addresses are file positions, used size = file size).   *)
(* Block addresses are what the code holds: pointers into the mapping for  *)
(* an MMapPool.  The clients hold what survives a restart, the offsets of  *)
(* GetDataOffset, and so does the dumped list.                             *)
(***************************************************************************)
EXTENDS Integers, Sequences, FiniteSets, Bags, Functions

CONSTANTS Handles,      \* the clients' references, each to at most one block
          Sizes,        \* block sizes the clients ask for
          Mapped,       \* TRUE: MMapPool, FALSE: FilePool
          Bases,        \* addresses the kernel may map the file at
          Reserve,      \* kInitReserveSpace, the header area
          MinExpand,    \* min_expand_size_
          ReuseTimegap, \* reuse_timegap_, in ticks
          MaxUsed,      \* bound: the clients stop allocating at this used size
          MaxInits,     \* bound: calls of Init
          MaxFails,     \* bound: failing writes counted by one dump
          Width,        \* number of values of uint32_t, the type of Block::size
          Env,          \* what the environment does besides Alloc and Free
          None          \* a client without a block; in the .fl file, an entry of zeros

ASSUME PoolAssumption ==
    /\ Width \in Nat \ {0}
    /\ Sizes \subseteq 1 .. (Width - 1)
    /\ Mapped \in BOOLEAN
    /\ Bases \subseteq Nat /\ Bases # {}
    /\ Reserve \in Nat \ {0} /\ MinExpand \in Nat \ {0}
    /\ ReuseTimegap \in Nat /\ MaxUsed \in Nat /\ MaxInits \in Nat /\ MaxFails \in Nat
    /\ Env \subseteq {"crash", "destroy", "reopen", "readonly", "toggle", "full"}

Block == [addr : Int, size : Sizes]

ASSUME NoneAssumption == None \notin Block

VARIABLES phase,        \* "closed", "sizing" (in Init, before the header is written),
                        \* "open", "releasing" (Release is draining the delayed frees),
                        \* "dumping" (the entries), "truncating" (after their number)
          delayUp,      \* delay_free_thread_pool_ accepts tasks
          readOnly,     \* read_only_
          useFreeList,  \* use_free_list_
          base,         \* begin_ of the mapping
          fileSize,     \* size of the store file
          used,         \* GetUsedSize(); when Mapped it is stored in the file
          freeList,     \* free_list_: the bag of free blocks of every size
          zeros,        \* free_list_[0]: how many entries of zeros were loaded
          spaceSize,    \* free_list_meta_.user_space_size
          pending,      \* queued delayed frees, in Free order: [block, wait]
          fl,           \* the .fl file: [count, list], the number of entries in its
                        \* first word and the entries behind it (no file: 0 and <<>>)
          dump,         \* locals of DumpFreeList: [size, written], the entries it has
                        \* counted and those it has written
          full,         \* writing to the .fl file fails
          held,         \* history: the block each client holds, as an offset
          age,          \* history: ticks since a block was last freed
          stale,        \* history: an Init loaded a list that cannot be right
          inits         \* number of Init calls

vars == <<phase, delayUp, readOnly, useFreeList, base, fileSize, used, freeList, zeros,
          spaceSize, pending, fl, dump, full, held, age, stale, inits>>

-----------------------------------------------------------------------------
(* Helpers *)

Overlap(b, c) == b.addr < c.addr + c.size /\ c.addr < b.addr + b.size

Move(b, d) == [addr |-> b.addr + d, size |-> b.size]
MoveAll(B, d) == [c \in {Move(b, d) : b \in DOMAIN B} |-> B[Move(c, -d)]]

\* GetMMapDataBegin: what lies between a pointer and its persistent offset.
\* A FilePool hands out file positions, which it dumps unconverted.
DataBegin == IF Mapped THEN base + Reserve ELSE 0

Bytes(B) == SumFunction([b \in DOMAIN B |-> B[b] * b.size])

Running == phase \in {"open", "releasing"}

-----------------------------------------------------------------------------
(* Init *)

\* The i-th entry LoadFreeList reads, as an offset.  A read at the end of a file that is
\* too short succeeds with nothing, so the entry before comes again; the conversion of
\* an MMapPool adds GetMMapDataBegin, d, to what it has already converted.
Entry(i, d) ==
    LET n == Len(fl.list)
    IN  IF i <= n THEN fl.list[i]
        ELSE IF n = 0 \/ fl.list[n] = None THEN None
        ELSE Move(fl.list[n], (i - n) * d)

\* What the .fl file says is free.
Listed(d) == {i \in 1 .. fl.count : Entry(i, d) # None}
OnFile(d) == [b \in {Entry(i, d) : i \in Listed(d)} |->
                 Cardinality({i \in Listed(d) : Entry(i, d) = b})]

\* A loaded list is wrong when it names a byte twice, a block that a client holds or one
\* that was never carved off.
Wrong(d) ==
    \/ \E i, j \in Listed(d) : i # j /\ Overlap(Entry(i, d), Entry(j, d))
    \/ \E i \in Listed(d) :
          \/ \E h \in Handles : held[h] # None /\ Overlap(held[h], Entry(i, d))
          \/ Entry(i, d).addr + Entry(i, d).size + (IF Mapped THEN Reserve ELSE 0) > used'

\* Init reads the .fl file when there is one.  It replaces free_list_ but adds to
\* user_space_size, and leaves the .fl file in place.
LoadFreeList ==
    /\ freeList' = MoveAll(OnFile(DataBegin'), DataBegin')
    /\ zeros' = fl.count - Cardinality(Listed(DataBegin'))
    /\ spaceSize' = spaceSize + Bytes(OnFile(DataBegin'))
    /\ stale' = (stale \/ Wrong(DataBegin'))

\* FilePool::Init: an empty file gets its reserved area, then the list is loaded.
FileInit(ro) ==
    /\ ~Mapped
    /\ fileSize' = IF fileSize = 0 THEN Reserve ELSE fileSize
    /\ used' = fileSize'
    /\ phase' = "open"
    /\ base' = base
    /\ LoadFreeList

\* Mutant: the header is written at every Init.
MMapInitResets(ro) ==
    /\ Mapped
    /\ base' \in Bases
    /\ used' = 0
    /\ fileSize' = IF fileSize = 0 THEN MinExpand ELSE fileSize
    /\ phase' = "sizing"
    /\ UNCHANGED <<freeList, zeros, spaceSize, stale>>

\* MMapPool::Init up to the header: an empty file is expanded, but its header
\* still says that 0 bytes are used.
MMapInit(ro) ==
    /\ Mapped
    /\ base' \in Bases
    /\ used' = used
    /\ IF fileSize = 0
       THEN /\ fileSize' = MinExpand
            /\ phase' = "sizing"
            /\ UNCHANGED <<freeList, zeros, spaceSize, stale>>
       ELSE /\ fileSize' = fileSize
            /\ phase' = "open"
            /\ LoadFreeList

\* A read-only Init of a file that does not exist fails and changes nothing.
InitPool(ro) ==
    /\ phase = "closed" /\ inits < MaxInits
    /\ ro => fileSize > 0 /\ "readonly" \in Env
    /\ readOnly' = ro
    /\ inits' = inits + 1
    /\ FileInit(ro) \/ MMapInit(ro)
    /\ UNCHANGED <<delayUp, useFreeList, pending, fl, dump, full, held, age>>

\* MMapPool::Init: the header, then the free list.
InitHeader ==
    /\ phase = "sizing"
    /\ used' = Reserve
    /\ phase' = "open"
    /\ base' = base
    /\ LoadFreeList
    /\ UNCHANGED <<delayUp, readOnly, useFreeList, fileSize, pending, fl, dump, full, held,
                   age, inits>>

-----------------------------------------------------------------------------
(* Alloc: under alloc_free_mutex_, the free list first, then the store *)

Fit(size) == {b \in DOMAIN freeList : b.size = size}
\* priority_queue::top: Block::operator< orders by address.
IsTop(b, size) == b \in Fit(size) /\ \A c \in Fit(size) : c.addr <= b.addr

\* The client keeps GetDataOffset of what it was given.
Give(h, b) ==
    /\ held' = [held EXCEPT ![h] = Move(b, -DataBegin)]
    /\ age' = [c \in DOMAIN age \ {held'[h]} |-> age[c]]

\* Mutant: the block is not popped.
AllocWithoutPop(h, size) ==
    /\ spaceSize' = spaceSize - size
    /\ \E b \in DOMAIN freeList : IsTop(b, size) /\ Give(h, b)
    /\ UNCHANGED <<freeList, fileSize, used>>

AllocFromFreeList(h, size) ==
    /\ \E b \in DOMAIN freeList :
          /\ IsTop(b, size)
          /\ freeList' = freeList (-) SetToBag({b})
          /\ Give(h, b)
    /\ spaceSize' = spaceSize - size
    /\ UNCHANGED <<fileSize, used>>

\* FilePool: Expand by exactly the block; a failing Expand changes nothing.
FileAllocFromStore(h, size) ==
    /\ ~Mapped
    /\ fileSize' = fileSize + size
    /\ used' = fileSize'
    /\ Give(h, [addr |-> fileSize, size |-> size])
    /\ UNCHANGED <<freeList, spaceSize>>

\* Mutants: the test forgets the new block; the header updated before the check.
MMapAllocLateExpand(h, size) ==
    /\ Mapped
    /\ fileSize' = IF used >= fileSize THEN fileSize + MinExpand ELSE fileSize
    /\ used' = used + size
    /\ Give(h, [addr |-> base + used, size |-> size])
    /\ UNCHANGED <<freeList, spaceSize>>
MMapAllocHeaderFirst(h, size) ==
    /\ Mapped
    /\ \E n \in 0 .. (used + size) :
          /\ \A m \in 0 .. (n - 1) : used + size >= fileSize + m * MinExpand
          /\ fileSize' = fileSize + n * MinExpand
    /\ used' = used + size
    /\ IF used + size < fileSize'
       THEN Give(h, [addr |-> base + used, size |-> size])
       ELSE UNCHANGED <<held, age>>
    /\ UNCHANGED <<freeList, spaceSize>>

\* MMapPool: Expand until the block fits; n expansions succeed, and if that is
\* not enough the next one failed and Alloc returned nullptr.
MMapAllocFromStore(h, size) ==
    /\ Mapped
    /\ \E n \in 0 .. (used + size) :
          /\ \A m \in 0 .. (n - 1) : used + size >= fileSize + m * MinExpand
          /\ fileSize' = fileSize + n * MinExpand
    /\ IF used + size < fileSize'
       THEN /\ used' = used + size
            /\ Give(h, [addr |-> base + used, size |-> size])
       ELSE UNCHANGED <<used, held, age>>
    /\ UNCHANGED <<freeList, spaceSize>>

Alloc(h, size) ==
    /\ phase = "open" /\ ~readOnly
    /\ held[h] = None
    /\ IF useFreeList /\ Fit(size) # {}
       THEN AllocFromFreeList(h, size)
       ELSE /\ used + size <= MaxUsed
            /\ FileAllocFromStore(h, size) \/ MMapAllocFromStore(h, size)
    /\ UNCHANGED <<phase, delayUp, readOnly, useFreeList, base, zeros, pending, fl, dump,
                   full, stale, inits>>

-----------------------------------------------------------------------------
(* Free *)

\* Block::size is a uint32_t, the size given to Free a size_t.
AsBlock(b) == [b EXCEPT !.size = @ % Width]

\* DoFree: with the free list disabled the block is dropped.
DoFree(b) ==
    IF useFreeList
    THEN /\ freeList' = freeList (+) SetToBag({AsBlock(b)})
         /\ spaceSize' = spaceSize + AsBlock(b).size
    ELSE UNCHANGED <<freeList, spaceSize>>

\* Free returns TRUE in every case; the result of AddTask is not looked at.
Free(h) ==
    /\ phase = "open" /\ ~readOnly
    /\ held[h] # None
    /\ LET b == Move(held[h], DataBegin)
       IN  IF ReuseTimegap = 0
           THEN DoFree(b) /\ UNCHANGED pending
           ELSE /\ pending' = IF delayUp
                              THEN Append(pending, [block |-> b, wait |-> ReuseTimegap])
                              ELSE pending
                /\ UNCHANGED <<freeList, spaceSize>>
    /\ held' = [held EXCEPT ![h] = None]
    /\ age' = [c \in DOMAIN age \cup {held[h]} |-> IF c = held[h] THEN 0 ELSE age[c]]
    /\ UNCHANGED <<phase, delayUp, readOnly, useFreeList, base, fileSize, used, zeros, fl,
                   dump, full, stale, inits>>

\* Mutants: the task does not sleep; the thread ends with Stop, its queue not drained.
DelayedFreeNoSleep ==
    /\ Running /\ pending # <<>>
    /\ DoFree(Head(pending).block)
    /\ pending' = Tail(pending)
    /\ UNCHANGED <<phase, delayUp, readOnly, useFreeList, base, fileSize, used, zeros, fl,
                   dump, full, held, age, stale, inits>>
DelayedFreeNotStopped ==
    /\ phase = "open" /\ pending # <<>>
    /\ Head(pending).wait = 0
    /\ DoFree(Head(pending).block)
    /\ pending' = Tail(pending)
    /\ UNCHANGED <<phase, delayUp, readOnly, useFreeList, base, fileSize, used, zeros, fl,
                   dump, full, held, age, stale, inits>>

\* The one thread of delay_free_thread_pool_: its task sleeps for the rest of the
\* time gap, then frees under the mutex.
DelayedFree ==
    /\ Running /\ pending # <<>>
    /\ Head(pending).wait = 0
    /\ DoFree(Head(pending).block)
    /\ pending' = Tail(pending)
    /\ UNCHANGED <<phase, delayUp, readOnly, useFreeList, base, fileSize, used, zeros, fl,
                   dump, full, held, age, stale, inits>>

\* Time passes; ages stop at ReuseTimegap.
Tick ==
    /\ \/ \E i \in DOMAIN pending : pending[i].wait > 0
       \/ \E b \in DOMAIN age : age[b] < ReuseTimegap
    /\ pending' = [i \in DOMAIN pending |->
                     [pending[i] EXCEPT !.wait = IF @ > 0 THEN @ - 1 ELSE 0]]
    /\ age' = [b \in DOMAIN age |-> IF age[b] < ReuseTimegap THEN age[b] + 1 ELSE age[b]]
    /\ UNCHANGED <<phase, delayUp, readOnly, useFreeList, base, fileSize, used, freeList,
                   zeros, spaceSize, fl, dump, full, held, stale, inits>>

\* EnableFreeList and DisableFreeList
SetFreeList ==
    /\ phase = "open" /\ "toggle" \in Env
    /\ useFreeList' = ~useFreeList
    /\ UNCHANGED <<phase, delayUp, readOnly, base, fileSize, used, freeList, zeros,
                   spaceSize, pending, fl, dump, full, held, age, stale, inits>>

-----------------------------------------------------------------------------
(* Release, and what ends a pool without it *)

\* Release calls delay_free_thread_pool_.Stop(): no task is accepted any more and
\* the queued ones run to their end.
Release ==
    /\ phase = "open" /\ "reopen" \in Env
    /\ phase' = "releasing"
    /\ delayUp' = FALSE
    /\ UNCHANGED <<readOnly, useFreeList, base, fileSize, used, freeList, zeros, spaceSize,
                   pending, fl, dump, full, held, age, stale, inits>>

\* The thread has ended.  DumpFreeList writes nothing when the pool is read-only or its
\* list has no bytes; otherwise it opens the .fl file and leaves what is in it there.
DumpFreeList ==
    /\ phase = "releasing" /\ pending = <<>>
    /\ phase' = IF readOnly \/ spaceSize = 0 THEN "closed" ELSE "dumping"
    /\ UNCHANGED <<delayUp, readOnly, useFreeList, base, fileSize, used, freeList, zeros,
                   spaceSize, pending, fl, dump, full, held, age, stale, inits>>

\* The lists come by rising size, the blocks of a list by falling address.
DumpedNext(b) ==
    /\ b \in DOMAIN freeList
    /\ \A c \in DOMAIN freeList : c.size >= b.size
    /\ IsTop(b, b.size)

\* The next entry goes over the old one in its place, or behind the last.
PutEntry(e) ==
    LET n == dump.written + 1
    IN  fl' = [fl EXCEPT !.list = IF n <= Len(@) THEN [@ EXCEPT ![n] = e] ELSE Append(@, e)]

DumpEntry ==
    /\ phase = "dumping" /\ ~full
    /\ \/ zeros > 0 /\ PutEntry(None) /\ zeros' = zeros - 1 /\ freeList' = freeList
       \/ /\ zeros = 0 /\ zeros' = zeros
          /\ \E b \in DOMAIN freeList : /\ DumpedNext(b)
                                        /\ PutEntry(Move(b, -DataBegin))
                                        /\ freeList' = freeList (-) SetToBag({b})
    /\ dump' = [size |-> dump.size + 1, written |-> dump.written + 1]
    /\ UNCHANGED <<phase, delayUp, readOnly, useFreeList, base, fileSize, used, spaceSize,
                   pending, full, held, age, stale, inits>>

\* A write that fails is tried again, and its entry counted again.
DumpFails ==
    /\ phase = "dumping" /\ full
    /\ zeros > 0 \/ freeList # EmptyBag
    /\ dump.size < dump.written + MaxFails
    /\ dump' = [dump EXCEPT !.size = @ + 1]
    /\ UNCHANGED <<phase, delayUp, readOnly, useFreeList, base, fileSize, used, freeList,
                   zeros, spaceSize, pending, fl, full, held, age, stale, inits>>

\* Mutant: user_space_size is not reset.
DumpCountKeepsSize ==
    /\ phase = "dumping" /\ zeros = 0 /\ freeList = EmptyBag
    /\ fl' = [fl EXCEPT !.count = dump.size] /\ phase' = "truncating"
    /\ dump' = [size |-> 0, written |-> 0]
    /\ UNCHANGED <<delayUp, readOnly, useFreeList, base, fileSize, used, freeList, zeros,
                   spaceSize, pending, full, held, age, stale, inits>>

\* The number of entries, at the front of the file; when that write fails the dump is
\* given up, with the new entries under the old number and user_space_size as it was.
DumpCount ==
    /\ phase = "dumping" /\ zeros = 0 /\ freeList = EmptyBag
    /\ IF full
       THEN phase' = "closed" /\ UNCHANGED <<fl, spaceSize>>
       ELSE /\ fl' = [fl EXCEPT !.count = dump.size]
            /\ spaceSize' = 0
            /\ phase' = "truncating"
    /\ dump' = [size |-> 0, written |-> 0]
    /\ UNCHANGED <<delayUp, readOnly, useFreeList, base, fileSize, used, freeList, zeros,
                   pending, full, held, age, stale, inits>>

\* Truncate cuts the file after the counted entries, or fills it up to them with zeros;
\* that it failed is only logged.
DumpTruncate ==
    /\ phase = "truncating"
    /\ \/ fl' = [fl EXCEPT !.list = [i \in 1 .. fl.count |->
                                        IF i <= Len(@) THEN @[i] ELSE None]]
       \/ full /\ fl' = fl
    /\ phase' = "closed"
    /\ UNCHANGED <<delayUp, readOnly, useFreeList, base, fileSize, used, freeList, zeros,
                   spaceSize, pending, dump, full, held, age, stale, inits>>

\* The disk of the .fl file fills up, or has room again; nothing looks at it outside a dump.
Disk ==
    /\ phase \in {"dumping", "truncating"} /\ "full" \in Env
    /\ full' = ~full
    /\ UNCHANGED <<phase, delayUp, readOnly, useFreeList, base, fileSize, used, freeList,
                   zeros, spaceSize, pending, fl, dump, held, age, stale, inits>>

\* A fresh object: its constructor starts the delay thread.
Fresh ==
    /\ phase' = "closed"
    /\ delayUp' = TRUE
    /\ readOnly' = FALSE
    /\ useFreeList' = TRUE
    /\ freeList' = EmptyBag /\ zeros' = 0
    /\ spaceSize' = 0
    /\ pending' = <<>>
    /\ dump' = [size |-> 0, written |-> 0]
    /\ age' = <<>>
    /\ UNCHANGED <<base, fileSize, used, fl, full, held, stale, inits>>

\* The released object is destroyed and another one constructed.
Construct == phase = "closed" /\ ~delayUp /\ "reopen" \in Env /\ Fresh

\* ~MMapPool deletes the store itself, so the ~FilePool that follows finds none
\* and dumps nothing.
Destroy == Mapped /\ phase = "open" /\ "destroy" \in Env /\ Fresh

\* The process dies and another one starts; the file keeps what was mapped.
Crash == phase # "closed" /\ "crash" \in Env /\ Fresh

-----------------------------------------------------------------------------
Init ==
    /\ phase = "closed"
    /\ delayUp = TRUE /\ readOnly = FALSE /\ useFreeList = TRUE
    /\ base \in Bases
    /\ fileSize = 0 /\ used = 0
    /\ freeList = EmptyBag /\ zeros = 0 /\ spaceSize = 0 /\ pending = <<>>
    /\ fl = [count |-> 0, list |-> <<>>]
    /\ dump = [size |-> 0, written |-> 0]
    /\ full = FALSE
    /\ held = [h \in Handles |-> None]
    /\ age = <<>>
    /\ stale = FALSE
    /\ inits = 0

Next ==
    \/ \E ro \in BOOLEAN : InitPool(ro)
    \/ InitHeader
    \/ \E h \in Handles, size \in Sizes : Alloc(h, size)
    \/ \E h \in Handles : Free(h)
    \/ DelayedFree
    \/ Tick
    \/ SetFreeList
    \/ Release
    \/ DumpFreeList
    \/ DumpEntry
    \/ DumpFails
    \/ DumpCount
    \/ DumpTruncate
    \/ Disk
    \/ Construct
    \/ Destroy
    \/ Crash

Spec == Init /\ [][Next]_vars

\* The delay thread, the clock and the thread inside Release go on; clients and the disk
\* owe nothing.
Fairness ==
    /\ WF_vars(DelayedFree) /\ WF_vars(Tick)
    /\ WF_vars(DumpFreeList) /\ WF_vars(DumpEntry)
    /\ WF_vars(DumpCount) /\ WF_vars(DumpTruncate)

FairSpec == Spec /\ Fairness

-----------------------------------------------------------------------------
(* Properties *)

\* The pool's state has the types of the code's members (FreeListSize is the finer
\* statement about spaceSize).
TypeOK ==
    /\ phase \in {"closed", "sizing", "open", "releasing", "dumping", "truncating"}
    /\ delayUp \in BOOLEAN /\ readOnly \in BOOLEAN /\ useFreeList \in BOOLEAN
    /\ base \in Nat /\ fileSize \in Nat /\ used \in Nat
    /\ IsABag(freeList) /\ DOMAIN freeList \subseteq Block
    /\ zeros \in Nat
    /\ fl \in [count : Nat, list : Seq(Block \cup {None})]
    /\ dump \in [size : Nat, written : Nat]
    /\ full \in BOOLEAN
    /\ pending \in Seq([block : Block, wait : 0 .. ReuseTimegap])
    /\ held \in [Handles -> Block \cup {None}]
    /\ stale \in BOOLEAN
    /\ inits \in 0 .. MaxInits

\* The blocks of a bag are there once and do not overlap.
Apart(B) == \A b \in DOMAIN B : /\ B[b] = 1
                                /\ \A c \in DOMAIN B \ {b} : ~Overlap(b, c)

HeldApart == \A g, h \in Handles :
    g # h /\ held[g] # None /\ held[h] # None => ~Overlap(held[g], held[h])

PendingApart == \A i, j \in DOMAIN pending :
    i # j => ~Overlap(pending[i].block, pending[j].block)

FreeNotPending == \A i \in DOMAIN pending, b \in DOMAIN freeList :
    ~Overlap(pending[i].block, b)

HeldNotFree == \A h \in Handles : held[h] # None =>
    LET b == Move(held[h], DataBegin)
    IN  /\ \A c \in DOMAIN freeList : ~Overlap(b, c)
        /\ \A i \in DOMAIN pending : ~Overlap(b, pending[i].block)

\* Memory safety of the allocator (DoAlloc, DoFree): as long as no Init has loaded a list
\* that was wrong in itself (Wrong), each byte has at most one owner among the clients, the
\* free list and the delayed frees, however Alloc, Free, the delay thread, Release, reloads
\* at other addresses, failing writes and crashes interleave.
SingleOwner ==
    ~stale => /\ HeldApart
              /\ Running => Apart(freeList) /\ PendingApart /\ FreeNotPending /\ HeldNotFree

\* Where a wrong list can come from, when no write fails: a third Init, which finds the file
\* of the first dump again, or that of a second dump that a death left half written.  A pool
\* opened once, or once more after a Release or a crash anywhere in it, is safe without any
\* proviso: the number of entries is written last.
StaleNeedsReload == inits <= 2 /\ "full" \notin Env => ~stale

\* GetFreeListSize (user_space_size) is the number of bytes in the free list of a pool in
\* use, through pushes, pops, dumps and reloads, when no dump has been given up.  (A session
\* that is read only dumps nothing and resets nothing: in the next one the list counts twice.)
FreeListSize == Running /\ "full" \notin Env => spaceSize = Bytes(freeList)

\* Every block a client holds lies inside the file: a mapped block is never beyond its
\* end, where touching it would raise SIGBUS (the Expand loop of AllocFromStore).  Nor does
\* it lie in the reserved area, except in a file whose creation was interrupted between
\* Init's expansion and its header: a later Init takes that for a file with 0 bytes used.
\* Failing writes can leave a .fl file that names blocks that never were; once an Init has
\* loaded such a list nothing is promised.
BlocksInFile == Running /\ (stale => "full" \notin Env) =>
    \A h \in Handles : held[h] # None =>
        LET b == Move(held[h], IF Mapped THEN Reserve ELSE 0)
        IN  /\ b.addr + b.size <= fileSize
            /\ b.addr < Reserve => inits > 1

Holding == {h \in Handles : held[h] # None}
HeldBytes == SumFunction([h \in Holding |-> held[h].size])
PendingBytes == SumFunction([i \in DOMAIN pending |-> pending[i].block.size])

\* Conservation: until a file is opened a second time the bytes handed out, free and
\* waiting to be freed are all the bytes below the used mark; none is lost (with the
\* free list enabled).
Conserved ==
    phase = "open" /\ inits = 1 => Reserve + HeldBytes + PendingBytes + Bytes(freeList) = used

\* The reason for the delayed free: a block goes to a new owner only when reuse_timegap_
\* has passed since its last Free in this process, so that readers of the old contents
\* are done.  A third Init, or one that reads what failing writes left, can reload a block
\* that has just been freed (see StaleNeedsReload).
NoEarlyReuse ==
    [][\A h \in Handles :
         inits <= 2 /\ "full" \notin Env /\ held[h] = None /\ held'[h] # None /\ held'[h] \in DOMAIN age
            => age[held'[h]] = ReuseTimegap]_vars

\* Release returns: Stop joins a thread that always finishes its queue, and the dump comes
\* to its end unless writing keeps failing (then its loop goes on for ever).
Releasing == phase \in {"releasing", "dumping", "truncating"}
ReleaseReturns == (<>[]~full) => (Releasing ~> phase = "closed")

=============================================================================
