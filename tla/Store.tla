------------------------------- MODULE Store -------------------------------
(***************************************************************************)
(* kernel/store: FileStore and its subclass MMapStore, one open file.      *)
(*                                                                         *)
(* The file is written through the descriptor and, by MMapStore, through   *)
(* a shared mapping of its first mmap_size_ bytes.  Both go by size_,      *)
(* which is read from the file by Open and then kept up by Write, Append   *)
(* and Expand, but neither by Truncate nor by a write that the disk cuts   *)
(* short (write(2) returns less than it was given, which Write takes for   *)
(* success).  From then on the store is off its file, and what it does is  *)
(* modelled but promised nothing.  Addresses are offsets in the file.      *)
(***************************************************************************)
EXTENDS Integers, Sequences, FiniteSets, Functions

CONSTANTS Kinds,     \* classes: "file" and "mmap"
          MMapSizes, \* what mmap_size_ may be
          Values,    \* the bytes clients write
          MaxLen,    \* bound: length of what is written at once
          MaxSize,   \* bound: no call reaches behind this offset
          Env        \* "truncate", "short": what may happen besides the writes

ASSUME StoreAssumption ==
    /\ Kinds \subseteq {"file", "mmap"}
    /\ MMapSizes \subseteq Nat \ {0}
    /\ Values \subseteq Nat /\ MaxLen \in Nat /\ MaxSize \in Nat
    /\ Env \subseteq {"truncate", "short"}

VARIABLES kind,     \* the class of the store
          mmapSize, \* mmap_size_
          file,     \* the bytes of the file
          mode,     \* fd_: "closed", "ro" or "rw"
          base,     \* base_ is not null
          size,     \* size_
          fault,    \* "none", or what the process has been killed for: touching the
                    \* mapping behind the end of the file, or writing a read-only one
          written,  \* history: offset |-> byte, for the bytes written with success
          exact     \* history: no Truncate and no short write yet

opened == <<mode, base>>
vars == <<kind, mmapSize, file, opened, size, fault, written, exact>>

Bytes(v, n) == [i \in 1 .. n |-> v]
Max2(a, b) == IF a > b THEN a ELSE b
Min2(a, b) == IF a < b THEN a ELSE b

\* The file after n bytes of d are written at pos; a hole reads as zeros.
Patch(f, pos, d, n) ==
    [i \in 1 .. Max2(Len(f), pos + n) |->
        IF i > pos /\ i <= pos + n THEN d[i - pos] ELSE IF i <= Len(f) THEN f[i] ELSE 0]

Remember(pos, d) ==
    LET now == pos .. pos + Len(d) - 1
    IN  written' = [p \in now \cup DOMAIN written |-> IF p \in now THEN d[p - pos + 1] ELSE written[p]]

-----------------------------------------------------------------------------
(* Open and Close *)

\* What MMapStore::Open does once the file is open: the mapping may fail, and leaves the
\* descriptor open then.
MMap(maps) == maps /\ kind = "mmap"

\* An open store refuses to be opened again.
Open(ro, maps) ==
    /\ mode = "closed"
    /\ mode' = IF ro THEN "ro" ELSE "rw"
    /\ base' = MMap(maps)
    /\ size' = Len(file)
    /\ UNCHANGED <<kind, mmapSize, file, fault, written, exact>>

Close ==
    /\ mode # "closed"
    /\ mode' = "closed" /\ base' = FALSE /\ size' = 0
    /\ UNCHANGED <<kind, mmapSize, file, fault, written, exact>>

-----------------------------------------------------------------------------
(* Write.  sz and f are size_ and the file at the time of the write. *)

\* FileStore::Write: lseek and write.
FileWrite(f, sz, pos, d) ==
    /\ \E n \in IF "short" \in Env THEN 1 .. Len(d) ELSE {Len(d)} :
          /\ file' = Patch(f, pos, d, n)
          /\ exact' = (exact /\ n = Len(d))
    /\ size' = Max2(sz, pos + Len(d))
    /\ fault' = fault

\* memcpy into the mapping.  Behind the end of the file it is a bus error, or lost when
\* the last page reaches that far.
Copy(f, sz, pos, d) ==
    /\ size' = sz /\ exact' = exact
    /\ IF mode = "ro" THEN file' = f /\ fault' = "protected"
       ELSE /\ file' = Patch(f, pos, d, Max2(0, Min2(Len(d), Len(f) - pos)))
            /\ IF pos + Len(d) <= Len(f) THEN fault' = fault
               ELSE fault' \in {fault, "past_end"}

\* Mutant: only the size of the mapping is looked at.
MMapWriteInMapping(f, sz, pos, d) ==
    IF pos + Len(d) > mmapSize
    THEN mode = "rw" /\ FileWrite(f, sz, pos, d)
    ELSE Copy(f, sz, pos, d)

\* MMapStore::Write: what reaches behind the mapping or size_ goes through the descriptor.
MMapWrite(f, sz, pos, d) ==
    IF pos + Len(d) > Min2(sz, mmapSize)
    THEN mode = "rw" /\ FileWrite(f, sz, pos, d)
    ELSE Copy(f, sz, pos, d)

\* A descriptor that is not open for writing fails the write, and a null base_ too.
Write(pos, d) ==
    /\ mode # "closed"
    /\ \/ kind = "file" /\ mode = "rw" /\ FileWrite(file, size, pos, d)
       \/ kind = "mmap" /\ base /\ MMapWrite(file, size, pos, d)
    /\ Remember(pos, d)
    /\ UNCHANGED <<kind, mmapSize, opened>>

-----------------------------------------------------------------------------
(* Expand, Append, Truncate *)

\* Expand writes the low byte of its argument behind the hole it seeks over.
Expanded(n) == Patch(file, Len(file) + n - 1, <<n % 256>>, 1)

\* Mutant: size_ is not kept up.
ExpandOnly(n) ==
    /\ mode = "rw"
    /\ file' = Expanded(n)
    /\ UNCHANGED <<kind, mmapSize, opened, size, fault, written, exact>>

Expand(n) ==
    /\ mode = "rw"
    /\ file' = Expanded(n)
    /\ size' = size + n
    /\ UNCHANGED <<kind, mmapSize, opened, fault, written, exact>>

\* Mutant: the position is read after the Expand.
AppendDataLate(d) ==
    /\ mode = "rw"
    /\ \/ kind = "file" /\ FileWrite(file, size, size, d)
       \/ kind = "mmap" /\ base /\ MMapWrite(Expanded(Len(d)), size + Len(d), size + Len(d), d)
    /\ Remember(size, d)
    /\ UNCHANGED <<kind, mmapSize, opened>>

\* Append: FileStore writes at size_; MMapStore expands first and then writes where size_ was.
AppendData(d) ==
    /\ mode = "rw"
    /\ \/ kind = "file" /\ FileWrite(file, size, size, d)
       \/ kind = "mmap" /\ base /\ MMapWrite(Expanded(Len(d)), size + Len(d), size, d)
    /\ Remember(size, d)
    /\ UNCHANGED <<kind, mmapSize, opened>>

\* MMapStore::Append without a mapping: the file has grown when the write fails.
AppendUnmapped(n) ==
    /\ kind = "mmap" /\ ~base
    /\ Expand(n)

\* ftruncate; size_ stays as it is.
Truncate(n) ==
    /\ "truncate" \in Env /\ mode = "rw"
    /\ file' = [i \in 1 .. n |-> IF i <= Len(file) THEN file[i] ELSE 0]
    /\ written' = Restrict(written, {p \in DOMAIN written : p < n})
    /\ exact' = (exact /\ n = size)
    /\ UNCHANGED <<kind, mmapSize, opened, size, fault>>

-----------------------------------------------------------------------------
(* Read *)

Failed == "failed"

\* FileStore::Read: what there is of the n bytes at pos.
FileRead(pos, n) ==
    IF mode = "closed" \/ pos > Len(file) THEN Failed
    ELSE SubSeq(file, pos + 1, Min2(pos + n, Len(file)))

\* MMapStore::Read: a pointer, to what the mapping covers and to nothing behind it.
MMapRead(pos, n) ==
    IF ~base \/ pos + n > mmapSize THEN Failed
    ELSE [i \in 1 .. n |-> IF pos + i <= Len(file) THEN file[pos + i] ELSE 0]

Read(pos, n) == IF kind = "file" THEN FileRead(pos, n) ELSE MMapRead(pos, n)

-----------------------------------------------------------------------------
Init ==
    /\ kind \in Kinds /\ mmapSize \in MMapSizes
    /\ file = <<>> /\ mode = "closed" /\ base = FALSE /\ size = 0
    /\ fault = "none" /\ written = <<>> /\ exact = TRUE

Fits(pos, n) == pos + n <= MaxSize

Next ==
    /\ fault = "none"
    /\ \/ \E ro, maps \in BOOLEAN : Open(ro, maps)
       \/ Close
       \/ \E v \in Values, n \in 1 .. MaxLen :
             \/ \E pos \in 0 .. MaxSize - n : Write(pos, Bytes(v, n))
             \/ Fits(Max2(size, Len(file)), n) /\ AppendData(Bytes(v, n))
       \/ \E n \in 1 .. MaxLen :
             Fits(Max2(size, Len(file)), n) /\ (Expand(n) \/ AppendUnmapped(n))
       \/ \E n \in 0 .. MaxSize : Truncate(n)

Spec == Init /\ [][Next]_vars

-----------------------------------------------------------------------------
(* Properties *)

\* What was written with success is in the file and reads back, through the descriptor
\* or, as far as it reaches, through the mapping: after an Expand, an Append, a Close and
\* an Open, and across the end of the mapping (Write, Append, Read; FilePool keeps its
\* free list and MMapPool its blocks this way).
Durable == fault = "none" /\ exact =>
    \A p \in DOMAIN written :
        /\ p < Len(file) /\ file[p + 1] = written[p]
        /\ mode # "closed" =>
              Read(p, 1) = IF kind = "mmap" /\ ~(base /\ p < mmapSize)
                           THEN Failed ELSE <<written[p]>>

\* GetSize is the size of the file, on which the expansion of MMapPool and the choice
\* between the mapping and the descriptor rest.
SizeIsTrue == exact /\ mode # "closed" => size = Len(file)

\* No write through the mapping touches a page behind the end of the file.
InsideFile == exact => fault # "past_end"

=============================================================================
