------------------------------ MODULE DataPool ------------------------------
(***************************************************************************)
(* kernel/pool: FixLengthPool and VariableLengthPool, the two pools that   *)
(* keep values and not just space.                                         *)
(*                                                                         *)
(* Both are MMapPools (FilePool models how those carve and recycle blocks) *)
(* that override what a block contains.  A FixLengthPool takes values of   *)
(* value_size_ only.  A VariableLengthPool puts a header with the value's  *)
(* length before it; Write may shrink a value in place, and the header is  *)
(* all that DoFree knows, when the delay thread comes to it, about the     *)
(* size of the block.                                                      *)
(*                                                                         *)
(* The mapping is modelled unit by unit, a header being one unit.  Read    *)
(* copies nothing: it returns a pointer into the mapping, which is why a   *)
(* freed block has to keep its value until the time gap has passed.        *)
(***************************************************************************)
EXTENDS Integers, Sequences, FiniteSets

CONSTANTS Clients,      \* the callers, each keeps at most one value
          Kinds,        \* the pools to model, among "fix" and "var"
          ValueSize,    \* value_size_ of the FixLengthPool
          Lengths,      \* lengths of the values the clients store
          Values,       \* what a unit of a value may contain
          ReuseTimegap, \* reuse_timegap_, in ticks
          MaxUsed,      \* bound: Alloc fails behind this used size
          None          \* a client without a value

Header == 1             \* sizeof(VariableDataHeader)

Addrs == 0 .. MaxUsed - 1

ASSUME DataPoolAssumption ==
    /\ Kinds \subseteq {"fix", "var"}
    /\ ValueSize \in Nat \ {0} /\ Lengths \subseteq Nat /\ Values \subseteq Nat
    /\ ReuseTimegap \in Nat \ {0} /\ MaxUsed \in Nat

VARIABLES kind,     \* the class of the pool
          mem,      \* the units of the mapping behind the reserved area
          used,     \* GetDataSize()
          freeList, \* free_list_: [addr, size]
          pending,  \* queued delayed frees: [addr, ext, wait]
          held,     \* each client's value: [addr, data, ext, written], data being what it
                    \* last wrote, cut to the length of every Write refused since
          lease     \* history: freed values that readers may still look at

vars == <<kind, mem, used, freeList, pending, held, lease>>

-----------------------------------------------------------------------------
(* Helpers *)

\* A value of n units, all the same, so that a torn value is seen.
Datum(n, v) == [i \in 1 .. n |-> v]

HeaderSize == IF kind = "var" THEN Header ELSE 0

\* memcpy of data to address a.
Put(m, a, data) ==
    [x \in Addrs |-> IF x \in a .. a + Len(data) - 1 THEN data[x - a + 1] ELSE m[x]]

SetHeader(m, a, n) == IF kind = "var" THEN [m EXCEPT ![a] = n] ELSE m

\* The length that a reader takes: the header's, or value_size_.
SizeAt(a) == IF kind = "var" THEN mem[a] ELSE ValueSize

\* A FixLengthPool allocates and writes values of its size only.
FixTakes(n) == n = ValueSize

\* Read: the units the returned pointer and length cover.
Read(a) == [i \in 1 .. SizeAt(a) |-> mem[a + HeaderSize + i - 1]]

-----------------------------------------------------------------------------
(* NewData: Alloc under the mutex, then the store's Write without it *)

Fit(size) == {b.addr : b \in {c \in freeList : c.size = size}}

\* Mutant: the header is not asked for.
DoAllocNoHeader(a, n) ==
    /\ \/ /\ a \in Fit(n) /\ \A x \in Fit(n) : x <= a
          /\ freeList' = freeList \ {[addr |-> a, size |-> n]} /\ used' = used
       \/ /\ a = used /\ Fit(n) = {} /\ used + n + HeaderSize <= MaxUsed
          /\ used' = used + n /\ freeList' = freeList
    /\ mem' = SetHeader(mem, a, n)

\* DoAlloc: a free block of exactly the size, the highest first, or new space; a
\* VariableLengthPool asks for the header too and fills it in.
DoAlloc(a, n) ==
    LET size == n + HeaderSize IN
    /\ \/ /\ a \in Fit(size) /\ \A x \in Fit(size) : x <= a
          /\ freeList' = freeList \ {[addr |-> a, size |-> size]} /\ used' = used
       \/ /\ a = used /\ Fit(size) = {} /\ used + size <= MaxUsed
          /\ used' = used + size /\ freeList' = freeList
    /\ mem' = SetHeader(mem, a, n)

NewDataAlloc(c, data) ==
    /\ held[c] = None
    /\ kind = "fix" => FixTakes(Len(data))
    /\ \E a \in Addrs :
          /\ DoAlloc(a, Len(data))
          /\ held' = [held EXCEPT ![c] = [addr |-> a, data |-> data,
                                          ext |-> Len(data) + HeaderSize, written |-> FALSE]]
    /\ UNCHANGED <<kind, pending, lease>>

NewDataWrite(c) ==
    /\ held[c] # None /\ ~held[c].written
    /\ mem' = Put(mem, held[c].addr + HeaderSize, held[c].data)
    /\ held' = [held EXCEPT ![c].written = TRUE]
    /\ UNCHANGED <<kind, used, freeList, pending, lease>>

\* A failing Write makes NewData return -1; nobody gives the block back.
NewDataFails(c) ==
    /\ held[c] # None /\ ~held[c].written
    /\ held' = [held EXCEPT ![c] = None]
    /\ UNCHANGED <<kind, mem, used, freeList, pending, lease>>

-----------------------------------------------------------------------------
(* Write in place *)

\* Mutant: the length is not compared with the header.
WriteUnchecked(c, data) ==
    /\ held[c] # None /\ held[c].written
    /\ held[c].addr + HeaderSize + Len(data) <= MaxUsed
    /\ mem' = Put(SetHeader(mem, held[c].addr, Len(data)), held[c].addr + HeaderSize, data)
    /\ held' = [held EXCEPT ![c].data = data]
    /\ UNCHANGED <<kind, used, freeList, pending, lease>>

\* A value longer than the last one is refused, one of another length by a
\* FixLengthPool.
Takes(c, data) ==
    /\ held[c] # None /\ held[c].written
    /\ IF kind = "var" THEN Len(data) <= mem[held[c].addr] ELSE FixTakes(Len(data))

\* The header takes the new length, then the store the value.
Write(c, data) ==
    /\ Takes(c, data)
    /\ mem' = Put(SetHeader(mem, held[c].addr, Len(data)), held[c].addr + HeaderSize, data)
    /\ held' = [held EXCEPT ![c].data = data]
    /\ UNCHANGED <<kind, used, freeList, pending, lease>>

\* The store refuses the value and Write returns false.  The header has taken the new
\* length all the same: of the old value a reader gets that much.
WriteFails(c, data) ==
    /\ Takes(c, data)
    /\ mem' = SetHeader(mem, held[c].addr, Len(data))
    /\ held' = [held EXCEPT ![c].data = SubSeq(@, 1, Len(data))]
    /\ UNCHANGED <<kind, used, freeList, pending, lease>>

-----------------------------------------------------------------------------
(* Free, and the thread of the delayed frees *)

\* The owner forgets its value; readers may have its address for the time gap.
Free(c) ==
    /\ held[c] # None /\ held[c].written
    /\ pending' = Append(pending, [addr |-> held[c].addr, ext |-> held[c].ext,
                                   wait |-> ReuseTimegap])
    /\ lease' = lease \cup {[addr |-> held[c].addr, data |-> held[c].data, age |-> 0]}
    /\ held' = [held EXCEPT ![c] = None]
    /\ UNCHANGED <<kind, mem, used, freeList>>

\* Mutant: the task does not sleep.
DelayedFreeNoSleep ==
    /\ pending # <<>>
    /\ LET a == Head(pending).addr
       IN  freeList' = freeList \cup {[addr |-> a, size |-> SizeAt(a) + HeaderSize]}
    /\ pending' = Tail(pending)
    /\ UNCHANGED <<kind, mem, used, held, lease>>

\* DoFree: the size comes from value_size_ or from the header as it is now; what
\* Write has cut off a value does not come back.
DelayedFree ==
    /\ pending # <<>> /\ Head(pending).wait = 0
    /\ LET a == Head(pending).addr
       IN  freeList' = freeList \cup {[addr |-> a, size |-> SizeAt(a) + HeaderSize]}
    /\ pending' = Tail(pending)
    /\ UNCHANGED <<kind, mem, used, held, lease>>

\* A reader is done ReuseTimegap after the Free at the latest.
Tick ==
    /\ lease # {}
    /\ pending' = [i \in DOMAIN pending |->
                     [pending[i] EXCEPT !.wait = IF @ > 0 THEN @ - 1 ELSE 0]]
    /\ lease' = {[l EXCEPT !.age = @ + 1] : l \in {k \in lease : k.age + 1 < ReuseTimegap}}
    /\ UNCHANGED <<kind, mem, used, freeList, held>>

-----------------------------------------------------------------------------
Data == {Datum(n, v) : n \in Lengths, v \in Values}

Init ==
    /\ kind \in Kinds
    /\ mem = [a \in Addrs |-> 0] /\ used = 0
    /\ freeList = {} /\ pending = <<>> /\ lease = {}
    /\ held = [c \in Clients |-> None]

Next ==
    \/ \E c \in Clients, data \in Data :
          NewDataAlloc(c, data) \/ Write(c, data) \/ WriteFails(c, data)
    \/ \E c \in Clients : NewDataWrite(c) \/ NewDataFails(c) \/ Free(c)
    \/ DelayedFree
    \/ Tick

Spec == Init /\ [][Next]_vars

-----------------------------------------------------------------------------
(* Properties *)

\* The space behind every block somebody is responsible for.
Regions ==
    {[addr |-> held[c].addr, size |-> held[c].ext, of |-> <<"client", c>>] :
         c \in {d \in Clients : held[d] # None}}
    \cup {[addr |-> pending[i].addr, size |-> pending[i].ext, of |-> <<"pending", i>>] :
             i \in DOMAIN pending}
    \cup {[addr |-> b.addr, size |-> b.size, of |-> <<"free", b.size>>] : b \in freeList}

\* The blocks of the clients, of the delayed frees and of the free list lie apart inside
\* the used space, although the size of a freed one is only read from its header when
\* the delay is over (DoAlloc, Write, DoFree of both pools).
Extents ==
    /\ \A r \in Regions : r.addr >= 0 /\ r.addr + r.size <= used
    /\ \A r, s \in Regions : r # s => r.addr + r.size <= s.addr \/ s.addr + s.size <= r.addr

\* A client that reads its value gets, in length and in contents, what it last wrote,
\* whatever the others allocate, write and free.  Not the whole of it when the store has
\* refused a Write since: a shorter value that did not get in has cut off the end of the
\* one that is there (variable_length_pool.cc:26 comes before :27), and nothing else.
ReadBack ==
    \A c \in Clients : held[c] # None /\ held[c].written => Read(held[c].addr) = held[c].data

\* Read hands out pointers into the mapping: a freed value stays as it was until the
\* time gap has passed.
LeaseIntact == \A l \in lease : Read(l.addr) = l.data

=============================================================================
