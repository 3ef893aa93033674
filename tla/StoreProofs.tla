---------------------------- MODULE StoreProofs -----------------------------
(***************************************************************************)
(* Proofs about Store, for both classes, any sizes of the mapping and any  *)
(* sequence of calls: the size is true, nothing is written behind the end  *)
(* of the file, and what was written stays written and reads back.         *)
(***************************************************************************)
EXTENDS Store, SequenceTheorems, TLAPS

-----------------------------------------------------------------------------
(* Patches *)

\* Length and contents of a patched file.
LEMMA PatchFacts ==
    ASSUME NEW f \in Seq(Nat), NEW pos \in Nat, NEW d \in Seq(Nat), NEW n \in 0 .. Len(d)
    PROVE  /\ Patch(f, pos, d, n) \in Seq(Nat)
           /\ Len(Patch(f, pos, d, n)) = Max2(Len(f), pos + n)
           /\ \A i \in 1 .. Len(f) : ~(i > pos /\ i <= pos + n) => Patch(f, pos, d, n)[i] = f[i]
           /\ \A i \in (pos + 1) .. (pos + n) : Patch(f, pos, d, n)[i] = d[i - pos]
  <1>. DEFINE m == Max2(Len(f), pos + n)
              v(i) == IF i > pos /\ i <= pos + n THEN d[i - pos] ELSE IF i <= Len(f) THEN f[i] ELSE 0
  <1>1. Len(f) \in Nat /\ Len(d) \in Nat /\ m \in Nat /\ m >= Len(f) /\ m >= pos + n
    <2>1. Len(f) \in Nat /\ Len(d) \in Nat
      BY LenProperties
    <2>2. pos + n \in Nat
      BY <2>1
    <2>3. QED
      BY <2>1, <2>2 DEF Max2
  <1>2. ASSUME NEW i \in 1 .. m PROVE v(i) \in Nat
    <2>1. CASE i > pos /\ i <= pos + n
      <3>1. i - pos \in 1 .. Len(d)
        BY <1>1, <2>1
      <3>2. d[i - pos] \in Nat
        BY <3>1, ElementOfSeq
      <3>3. QED
        BY <2>1, <3>2
    <2>2. CASE ~(i > pos /\ i <= pos + n) /\ i <= Len(f)
      <3>1. f[i] \in Nat
        BY <1>1, <2>2, ElementOfSeq
      <3>2. QED
        BY <2>2, <3>1
    <2>3. QED
      BY <2>1, <2>2
  <1>3. Patch(f, pos, d, n) = [i \in 1 .. m |-> v(i)]
    BY DEF Patch
  <1>4. Patch(f, pos, d, n) \in Seq(Nat) /\ Len(Patch(f, pos, d, n)) = m
    <2>. HIDE DEF m, v
    <2>1. QED
      BY <1>1, <1>2, <1>3, IsASeq
  <1>5. \A i \in 1 .. m : Patch(f, pos, d, n)[i] = v(i)
    BY <1>3
  <1>6. ASSUME NEW i \in 1 .. Len(f), ~(i > pos /\ i <= pos + n)
        PROVE  Patch(f, pos, d, n)[i] = f[i]
    BY <1>1, <1>5, <1>6
  <1>7. ASSUME NEW i \in (pos + 1) .. (pos + n)
        PROVE  Patch(f, pos, d, n)[i] = d[i - pos]
    BY <1>1, <1>5, <1>7
  <1>8. QED
    BY <1>4, <1>6, <1>7

\* What Expand leaves behind the file.
LEMMA ExpandedFacts ==
    ASSUME file \in Seq(Nat), NEW n \in Nat \ {0}
    PROVE  /\ Expanded(n) \in Seq(Nat) /\ Len(Expanded(n)) = Len(file) + n
           /\ \A i \in 1 .. Len(file) : Expanded(n)[i] = file[i]
  <1>1. Len(file) \in Nat /\ Len(file) + n - 1 \in Nat
    BY LenProperties
  <1>2. (n % 256) \in Nat
    OBVIOUS
  <1>3. <<n % 256>> \in Seq(Nat) /\ Len(<<n % 256>>) = 1
    BY <1>2
  <1>4. PICK pos \in Nat : pos = Len(file) + n - 1
    BY <1>1
  <1>5. PICK d \in Seq(Nat) : d = <<n % 256>> /\ Len(d) = 1
    BY <1>3
  <1>6. PICK k \in 0 .. Len(d) : k = 1
    BY <1>5
  <1>7. /\ Patch(file, pos, d, k) \in Seq(Nat)
        /\ Len(Patch(file, pos, d, k)) = Max2(Len(file), pos + k)
        /\ \A i \in 1 .. Len(file) : ~(i > pos /\ i <= pos + k) => Patch(file, pos, d, k)[i] = file[i]
    BY PatchFacts
  <1>8. Expanded(n) = Patch(file, pos, d, k)
    BY <1>4, <1>5, <1>6 DEF Expanded
  <1>9. Max2(Len(file), pos + k) = Len(file) + n
    BY <1>1, <1>4, <1>6 DEF Max2
  <1>10. \A i \in 1 .. Len(file) : ~(i > pos /\ i <= pos + k)
    BY <1>1, <1>4
  <1>11. QED
    BY <1>7, <1>8, <1>9, <1>10

LEMMA BytesFacts ==
    ASSUME NEW v \in Values, NEW n \in 1 .. MaxLen
    PROVE  Bytes(v, n) \in Seq(Nat) /\ Len(Bytes(v, n)) = n /\ n \in Nat \ {0}
  <1>1. n \in Nat /\ v \in Nat
    BY StoreAssumption DEF StoreAssumption
  <1>2. QED
    BY <1>1, IsASeq DEF Bytes

-----------------------------------------------------------------------------
(* The inductive invariant *)

Types ==
    /\ kind \in Kinds /\ mmapSize \in Nat
    /\ file \in Seq(Nat) /\ size \in Nat
    /\ mode \in {"closed", "ro", "rw"} /\ base \in BOOLEAN /\ exact \in BOOLEAN
    /\ DOMAIN written \subseteq Nat

\* What was written is in the file.
Stored == fault = "none" /\ exact =>
    \A p \in DOMAIN written : p < Len(file) /\ file[p + 1] = written[p]

IInv == Types /\ SizeIsTrue /\ InsideFile /\ Stored

\* The file begins with what it was.
Extends(g, f) == Len(g) >= Len(f) /\ \A i \in 1 .. Len(f) : g[i] = f[i]

LEMMA InitIInv == Init => IInv
  <1>. SUFFICES ASSUME Init PROVE IInv
    OBVIOUS
  <1>1. Types
    <2>1. kind \in Kinds /\ mmapSize \in Nat
      BY StoreAssumption DEF StoreAssumption, Init
    <2>2. file \in Seq(Nat) /\ size \in Nat
      BY DEF Init
    <2>3. mode \in {"closed", "ro", "rw"} /\ base \in BOOLEAN /\ exact \in BOOLEAN
      BY DEF Init
    <2>4. DOMAIN written \subseteq Nat
      BY DEF Init
    <2>5. QED
      BY <2>1, <2>2, <2>3, <2>4 DEF Types
  <1>2. SizeIsTrue /\ InsideFile /\ Stored
    BY DEF Init, SizeIsTrue, InsideFile, Stored
  <1>3. QED
    BY <1>1, <1>2 DEF IInv

\* A write to file g, whose size the store takes for sz: either way it is the patch, unless
\* the disk cuts it short or the mapping is read-only.
LEMMA WriteEffect ==
    ASSUME NEW g \in Seq(Nat), NEW sz \in Nat, NEW pos \in Nat, NEW d \in Seq(Nat), Len(d) \in Nat \ {0},
           mmapSize \in Nat, exact \in BOOLEAN, fault = "none",
           FileWrite(g, sz, pos, d) \/ MMapWrite(g, sz, pos, d)
    PROVE  /\ file' \in Seq(Nat) /\ size' \in Nat /\ exact' \in BOOLEAN /\ (exact' => exact)
           /\ exact' /\ sz = Len(g) => /\ size' = Len(file') /\ fault' # "past_end"
                                       /\ fault' = "none" => file' = Patch(g, pos, d, Len(d))
  <1>1. Len(g) \in Nat
    BY LenProperties
  <1>2. CASE FileWrite(g, sz, pos, d)
    <2>1. PICK n \in 1 .. Len(d) : file' = Patch(g, pos, d, n) /\ exact' = (exact /\ n = Len(d))
      BY <1>2 DEF FileWrite
    <2>2. n \in 0 .. Len(d) /\ size' = Max2(sz, pos + Len(d)) /\ fault' = fault
      BY <1>2, <2>1 DEF FileWrite
    <2>3. file' \in Seq(Nat) /\ Len(file') = Max2(Len(g), pos + n)
      BY <2>1, <2>2, PatchFacts
    <2>4. size' \in Nat
      BY <2>2 DEF Max2
    <2>5. QED
      BY <2>1, <2>2, <2>3, <2>4
  <1>3. CASE MMapWrite(g, sz, pos, d) /\ ~FileWrite(g, sz, pos, d)
    <2>1. Copy(g, sz, pos, d) /\ pos + Len(d) <= sz
      BY <1>3 DEF MMapWrite, Min2
    <2>2. size' = sz /\ exact' = exact
      BY <2>1 DEF Copy
    <2>3. CASE mode = "ro"
      BY <2>1, <2>2, <2>3 DEF Copy
    <2>4. CASE mode # "ro"
      <3>1. PICK n \in 0 .. Len(d) : n = Max2(0, Min2(Len(d), Len(g) - pos))
        BY <1>1 DEF Max2, Min2
      <3>2. file' = Patch(g, pos, d, n) /\ (pos + Len(d) <= Len(g) => fault' = fault)
        BY <2>1, <2>4, <3>1 DEF Copy
      <3>3. file' \in Seq(Nat) /\ Len(file') = Max2(Len(g), pos + n)
        BY <3>2, PatchFacts
      <3>4. ASSUME sz = Len(g) PROVE n = Len(d) /\ Len(file') = Len(g)
        <4>1. Len(g) - pos \in Int /\ Len(d) <= Len(g) - pos
          BY <1>1, <2>1, <3>4
        <4>2. Min2(Len(d), Len(g) - pos) = Len(d)
          BY <4>1 DEF Min2
        <4>3. n = Len(d)
          BY <3>1, <4>2 DEF Max2
        <4>4. pos + n <= Len(g) /\ pos + n \in Nat
          BY <2>1, <3>4, <4>3
        <4>5. Max2(Len(g), pos + n) = Len(g)
          BY <1>1, <4>4 DEF Max2
        <4>6. QED
          BY <3>3, <4>3, <4>5
      <3>5. QED
        BY <2>1, <2>2, <3>2, <3>3, <3>4
    <2>5. QED
      BY <2>3, <2>4
  <1>4. QED
    BY <1>2, <1>3

\* A patch keeps what was stored elsewhere and stores what it brings.
LEMMA PatchStored ==
    ASSUME Types, Stored, fault = "none", exact,
           NEW g \in Seq(Nat), Extends(g, file), NEW pos \in Nat, NEW d \in Seq(Nat),
           file' = Patch(g, pos, d, Len(d)), Remember(pos, d)
    PROVE  Stored' /\ DOMAIN written' \subseteq Nat
  <1>1. Len(d) \in Nat /\ Len(g) \in Nat /\ Len(file) \in Nat /\ Len(d) \in 0 .. Len(d)
    BY LenProperties DEF Types
  <1>2. /\ Len(file') = Max2(Len(g), pos + Len(d))
        /\ \A i \in 1 .. Len(g) : ~(i > pos /\ i <= pos + Len(d)) => file'[i] = g[i]
        /\ \A i \in (pos + 1) .. (pos + Len(d)) : file'[i] = d[i - pos]
    <2>1. PICK n \in 0 .. Len(d) : n = Len(d)
      BY <1>1
    <2>2. /\ Len(Patch(g, pos, d, n)) = Max2(Len(g), pos + n)
          /\ \A i \in 1 .. Len(g) : ~(i > pos /\ i <= pos + n) => Patch(g, pos, d, n)[i] = g[i]
          /\ \A i \in (pos + 1) .. (pos + n) : Patch(g, pos, d, n)[i] = d[i - pos]
      BY PatchFacts
    <2>3. file' = Patch(g, pos, d, n)
      BY <2>1
    <2>4. QED
      BY <2>1, <2>2, <2>3
  <1>3. Len(file') >= Len(g) /\ Len(file') >= pos + Len(d)
    BY <1>1, <1>2 DEF Max2
  <1>4. ASSUME NEW p \in pos .. pos + Len(d) - 1
        PROVE  p \in Nat /\ p < Len(file') /\ file'[p + 1] = d[p - pos + 1]
    <2>1. p + 1 \in (pos + 1) .. (pos + Len(d)) /\ p + 1 - pos = p - pos + 1
      BY <1>1
    <2>2. QED
      BY <1>1, <1>2, <1>3, <2>1
  <1>5. ASSUME NEW p \in DOMAIN written, p \notin pos .. pos + Len(d) - 1
        PROVE  p < Len(file') /\ file'[p + 1] = written[p]
    <2>1. p \in Nat /\ p < Len(file) /\ file[p + 1] = written[p]
      BY DEF Types, Stored
    <2>2. p + 1 \in 1 .. Len(file) /\ p + 1 \in 1 .. Len(g)
      BY <1>1, <2>1 DEF Extends
    <2>3. g[p + 1] = file[p + 1]
      BY <2>2 DEF Extends
    <2>4. ~(p + 1 > pos /\ p + 1 <= pos + Len(d))
      BY <1>1, <1>5, <2>1
    <2>5. QED
      BY <1>1, <1>2, <1>3, <2>1, <2>2, <2>3, <2>4
  <1>6. DOMAIN written' = (pos .. pos + Len(d) - 1) \cup DOMAIN written
    BY DEF Remember
  <1>7. \A p \in DOMAIN written' :
            written'[p] = IF p \in pos .. pos + Len(d) - 1 THEN d[p - pos + 1] ELSE written[p]
    BY DEF Remember
  <1>8. \A p \in DOMAIN written' : p \in Nat /\ p < Len(file') /\ file'[p + 1] = written'[p]
    BY <1>4, <1>5, <1>6, <1>7 DEF Types
  <1>9. QED
    BY <1>8 DEF Stored

LEMMA WriteIInv ==
    ASSUME IInv, fault = "none", NEW pos \in Nat, NEW d \in Seq(Nat), Len(d) \in Nat \ {0}, Write(pos, d)
    PROVE  IInv'
  <1>1. Types /\ SizeIsTrue /\ Stored /\ mode # "closed"
    BY DEF IInv, Write
  <1>2. FileWrite(file, size, pos, d) \/ MMapWrite(file, size, pos, d)
    BY DEF Write
  <1>3. /\ file' \in Seq(Nat) /\ size' \in Nat /\ exact' \in BOOLEAN /\ (exact' => exact)
        /\ exact' /\ size = Len(file) => /\ size' = Len(file') /\ fault' # "past_end"
                                         /\ fault' = "none" => file' = Patch(file, pos, d, Len(d))
    BY <1>1, <1>2, WriteEffect DEF Types
  <1>4. exact => size = Len(file)
    BY <1>1 DEF SizeIsTrue
  <1>5. UNCHANGED <<kind, mmapSize, mode, base>> /\ Remember(pos, d)
    BY DEF Write, opened
  <1>6. DOMAIN written' \subseteq Nat
    <2>1. DOMAIN written' = (pos .. pos + Len(d) - 1) \cup DOMAIN written
      BY <1>5 DEF Remember
    <2>2. QED
      BY <1>1, <2>1 DEF Types
  <1>7. ASSUME fault' = "none", exact' PROVE Stored'
    <2>1. file' = Patch(file, pos, d, Len(d)) /\ exact
      BY <1>3, <1>4, <1>7
    <2>2. file \in Seq(Nat) /\ Extends(file, file)
      BY <1>1 DEF Types, Extends
    <2>3. QED
      BY <1>1, <1>5, <2>1, <2>2, PatchStored
  <1>8. Stored'
    BY <1>7 DEF Stored
  <1>9. SizeIsTrue' /\ InsideFile'
    BY <1>3, <1>4 DEF SizeIsTrue, InsideFile
  <1>10. Types'
    BY <1>1, <1>3, <1>5, <1>6 DEF Types
  <1>11. QED
    BY <1>8, <1>9, <1>10 DEF IInv

LEMMA AppendIInv ==
    ASSUME IInv, fault = "none", NEW d \in Seq(Nat), Len(d) \in Nat \ {0}, AppendData(d)
    PROVE  IInv'
  <1>1. Types /\ SizeIsTrue /\ Stored /\ mode = "rw" /\ file \in Seq(Nat) /\ size \in Nat
    BY DEF IInv, AppendData, Types
  <1>2. PICK g \in Seq(Nat), sz \in Nat :
            /\ FileWrite(g, sz, size, d) \/ MMapWrite(g, sz, size, d)
            /\ Extends(g, file)
            /\ size = Len(file) => sz = Len(g)
    <2>1. CASE FileWrite(file, size, size, d)
      BY <1>1, <2>1 DEF Extends
    <2>2. CASE MMapWrite(Expanded(Len(d)), size + Len(d), size, d)
      <3>1. PICK n \in Nat \ {0} : n = Len(d)
        OBVIOUS
      <3>2. Expanded(n) \in Seq(Nat) /\ Len(Expanded(n)) = Len(file) + n
            /\ \A i \in 1 .. Len(file) : Expanded(n)[i] = file[i]
        BY <1>1, ExpandedFacts
      <3>3. Len(file) \in Nat /\ size + n \in Nat
        BY <1>1, LenProperties
      <3>4. Extends(Expanded(n), file)
        BY <3>2, <3>3 DEF Extends
      <3>5. QED
        BY <2>2, <3>1, <3>2, <3>3, <3>4
    <2>3. QED
      BY <2>1, <2>2 DEF AppendData
  <1>3. /\ file' \in Seq(Nat) /\ size' \in Nat /\ exact' \in BOOLEAN /\ (exact' => exact)
        /\ exact' /\ sz = Len(g) => /\ size' = Len(file') /\ fault' # "past_end"
                                    /\ fault' = "none" => file' = Patch(g, size, d, Len(d))
    BY <1>1, <1>2, WriteEffect DEF Types
  <1>4. exact => sz = Len(g)
    BY <1>1, <1>2 DEF SizeIsTrue
  <1>5. UNCHANGED <<kind, mmapSize, mode, base>> /\ Remember(size, d)
    BY DEF AppendData, opened
  <1>6. DOMAIN written' \subseteq Nat
    <2>1. DOMAIN written' = (size .. size + Len(d) - 1) \cup DOMAIN written
      BY <1>5 DEF Remember
    <2>2. QED
      BY <1>1, <2>1 DEF Types
  <1>7. ASSUME fault' = "none", exact' PROVE Stored'
    <2>1. file' = Patch(g, size, d, Len(d)) /\ exact
      BY <1>3, <1>4, <1>7
    <2>2. QED
      BY <1>1, <1>2, <1>5, <2>1, PatchStored
  <1>8. Stored'
    BY <1>7 DEF Stored
  <1>9. SizeIsTrue' /\ InsideFile'
    BY <1>3, <1>4 DEF SizeIsTrue, InsideFile
  <1>10. Types'
    BY <1>1, <1>3, <1>5, <1>6 DEF Types
  <1>11. QED
    BY <1>8, <1>9, <1>10 DEF IInv

LEMMA ExpandIInv ==
    ASSUME IInv, NEW n \in Nat \ {0}, Expand(n)
    PROVE  IInv'
  <1>1. Types /\ SizeIsTrue /\ Stored /\ InsideFile /\ file \in Seq(Nat) /\ size \in Nat
    BY DEF IInv, Types
  <1>2. /\ mode = "rw" /\ file' = Expanded(n) /\ size' = size + n
        /\ UNCHANGED <<kind, mmapSize, mode, base, fault, written, exact>>
    BY DEF Expand, opened
  <1>3. /\ file' \in Seq(Nat) /\ Len(file') = Len(file) + n /\ Len(file) \in Nat
        /\ \A i \in 1 .. Len(file) : file'[i] = file[i]
    BY <1>1, <1>2, ExpandedFacts, LenProperties
  <1>4. Types'
    BY <1>1, <1>2, <1>3 DEF Types
  <1>5. SizeIsTrue' /\ InsideFile'
    BY <1>1, <1>2, <1>3 DEF SizeIsTrue, InsideFile
  <1>6. ASSUME fault = "none", exact, NEW p \in DOMAIN written
        PROVE  p < Len(file') /\ file'[p + 1] = written[p]
    <2>1. p \in Nat /\ p < Len(file) /\ file[p + 1] = written[p]
      BY <1>1, <1>6 DEF Stored, Types
    <2>2. p + 1 \in 1 .. Len(file)
      BY <1>3, <2>1
    <2>3. QED
      BY <1>3, <2>1, <2>2
  <1>7. Stored'
    BY <1>2, <1>6 DEF Stored
  <1>8. QED
    BY <1>4, <1>5, <1>7 DEF IInv

LEMMA TruncateIInv ==
    ASSUME IInv, NEW n \in Nat, Truncate(n)
    PROVE  IInv'
  <1>1. Types /\ SizeIsTrue /\ Stored /\ InsideFile /\ file \in Seq(Nat) /\ Len(file) \in Nat
    BY LenProperties DEF IInv, Types
  <1>2. /\ mode = "rw" /\ exact' = (exact /\ n = size)
        /\ file' = [i \in 1 .. n |-> IF i <= Len(file) THEN file[i] ELSE 0]
        /\ written' = [p \in {p \in DOMAIN written : p < n} |-> written[p]]
        /\ UNCHANGED <<kind, mmapSize, mode, base, size, fault>>
    BY DEF Truncate, opened, Restrict
  <1>3. \A i \in 1 .. n : (IF i <= Len(file) THEN file[i] ELSE 0) \in Nat
    BY <1>1, ElementOfSeq
  <1>4. file' \in Seq(Nat) /\ Len(file') = n
    BY <1>2, <1>3, IsASeq
  <1>5. Types'
    BY <1>1, <1>2, <1>4 DEF Types
  <1>6. SizeIsTrue' /\ InsideFile'
    BY <1>1, <1>2, <1>4 DEF SizeIsTrue, InsideFile
  <1>7. ASSUME fault = "none", exact, n = size, NEW p \in DOMAIN written, p < n
        PROVE  p < Len(file') /\ file'[p + 1] = written[p]
    <2>1. p \in Nat /\ p < Len(file) /\ file[p + 1] = written[p]
      BY <1>1, <1>7 DEF Stored, Types
    <2>2. p + 1 \in 1 .. n /\ p + 1 <= Len(file)
      BY <1>1, <1>7, <2>1
    <2>3. QED
      BY <1>2, <1>4, <1>7, <2>1, <2>2
  <1>8. Stored'
    <2>1. DOMAIN written' = {p \in DOMAIN written : p < n} /\ \A p \in DOMAIN written' : written'[p] = written[p]
      BY <1>2
    <2>2. QED
      BY <1>2, <1>7, <2>1 DEF Stored
  <1>9. QED
    BY <1>5, <1>6, <1>8 DEF IInv

LEMMA OpenCloseIInv ==
    ASSUME IInv, \/ \E ro, maps \in BOOLEAN : Open(ro, maps)
                 \/ Close
                 \/ UNCHANGED vars
    PROVE  IInv'
  <1>1. Types /\ SizeIsTrue /\ Stored /\ InsideFile /\ Len(file) \in Nat
    BY LenProperties DEF IInv, Types
  <1>2. UNCHANGED <<kind, mmapSize, file, fault, written, exact>>
    BY DEF Open, Close, vars
  <1>3. /\ size' \in Nat /\ mode' \in {"closed", "ro", "rw"} /\ base' \in BOOLEAN
        /\ exact /\ mode' # "closed" => size' = Len(file)
    <2>1. ASSUME NEW ro \in BOOLEAN, NEW maps \in BOOLEAN, Open(ro, maps)
          PROVE  /\ size' = Len(file) /\ mode' \in {"closed", "ro", "rw"} /\ base' \in BOOLEAN
      <3>1. size' = Len(file) /\ mode' \in {"closed", "ro", "rw"}
        BY <2>1 DEF Open
      <3>2. base' = (maps /\ kind = "mmap")
        BY <2>1, Zenon DEF Open, MMap
      <3>3. base' \in BOOLEAN
        BY <3>2
      <3>4. QED
        BY <3>1, <3>3
    <2>2. CASE Close
      BY <1>1, <2>2 DEF Close
    <2>3. CASE UNCHANGED vars
      BY <1>1, <2>3 DEF vars, opened, Types, SizeIsTrue
    <2>4. QED
      BY <1>1, <2>1, <2>2, <2>3
  <1>4. Types' /\ SizeIsTrue' /\ InsideFile'
    BY <1>1, <1>2, <1>3 DEF Types, SizeIsTrue, InsideFile
  <1>5. Stored'
    BY <1>1, <1>2 DEF Stored
  <1>6. QED
    BY <1>4, <1>5 DEF IInv

LEMMA NextIInv == IInv /\ [Next]_vars => IInv'
  <1>. SUFFICES ASSUME IInv, [Next]_vars PROVE IInv'
    OBVIOUS
  <1>1. CASE \/ \E ro, maps \in BOOLEAN : Open(ro, maps)
             \/ Close
             \/ UNCHANGED vars
    BY <1>1, OpenCloseIInv
  <1>2. ASSUME fault = "none", NEW v \in Values, NEW n \in 1 .. MaxLen, NEW pos \in 0 .. MaxSize - n,
               Write(pos, Bytes(v, n))
        PROVE  IInv'
    <2>1. pos \in Nat /\ n \in Nat
      BY <1>2, StoreAssumption DEF StoreAssumption
    <2>2. QED
      BY <1>2, <2>1, BytesFacts, WriteIInv
  <1>3. ASSUME fault = "none", NEW v \in Values, NEW n \in 1 .. MaxLen, AppendData(Bytes(v, n))
        PROVE  IInv'
    BY <1>3, BytesFacts, AppendIInv
  <1>4. ASSUME NEW n \in 1 .. MaxLen, Expand(n) \/ AppendUnmapped(n)
        PROVE  IInv'
    <2>1. n \in Nat \ {0} /\ Expand(n)
      BY <1>4, StoreAssumption DEF StoreAssumption, AppendUnmapped
    <2>2. QED
      BY <2>1, ExpandIInv
  <1>5. ASSUME NEW n \in 0 .. MaxSize, Truncate(n) PROVE IInv'
    <2>1. n \in Nat
      BY StoreAssumption DEF StoreAssumption
    <2>2. QED
      BY <1>5, <2>1, TruncateIInv
  <1>6. QED
    BY <1>1, <1>2, <1>3, <1>4, <1>5 DEF Next

\* The inductive invariant holds in every reachable state.
THEOREM Invariance == Spec => []IInv
  BY InitIInv, NextIInv, PTL DEF Spec

\* size_ is the size of the file, as long as nothing has been truncated or cut short.
THEOREM SizeTrue == Spec => []SizeIsTrue
  <1>1. IInv => SizeIsTrue
    BY DEF IInv
  <1>2. QED
    BY <1>1, Invariance, PTL

\* No write through the mapping goes behind the end of the file.
THEOREM CopiesInside == Spec => []InsideFile
  <1>1. IInv => InsideFile
    BY DEF IInv
  <1>2. QED
    BY <1>1, Invariance, PTL

\* What was written with success stays in the file and reads back, whichever class wrote
\* it and however often the store was expanded, closed and opened since.
THEOREM WritesDurable == Spec => []Durable
  <1>1. ASSUME IInv PROVE Durable
    <2>. SUFFICES ASSUME fault = "none", exact, NEW p \in DOMAIN written
                  PROVE  /\ p < Len(file) /\ file[p + 1] = written[p]
                         /\ mode # "closed" =>
                               Read(p, 1) = IF kind = "mmap" /\ ~(base /\ p < mmapSize)
                                            THEN Failed ELSE <<written[p]>>
      BY DEF Durable
    <2>1. /\ p \in Nat /\ p < Len(file) /\ file[p + 1] = written[p]
          /\ file \in Seq(Nat) /\ Len(file) \in Nat /\ mmapSize \in Nat /\ kind \in {"file", "mmap"}
      BY <1>1, LenProperties, StoreAssumption DEF StoreAssumption, IInv, Types, Stored
    <2>2. ASSUME mode # "closed", kind = "file" PROVE Read(p, 1) = <<written[p]>>
      <3>1. Min2(p + 1, Len(file)) = p + 1
        BY <2>1 DEF Min2
      <3>2. Read(p, 1) = SubSeq(file, p + 1, p + 1)
        <4>1. Read(p, 1) = FileRead(p, 1)
          BY <2>2 DEF Read
        <4>2. ~(mode = "closed" \/ p > Len(file))
          BY <2>1, <2>2
        <4>3. FileRead(p, 1) = SubSeq(file, p + 1, Min2(p + 1, Len(file)))
          BY <4>2, Zenon DEF FileRead
        <4>4. QED
          BY <3>1, <4>1, <4>3, Zenon
      <3>3. SubSeq(file, p + 1, p + 1) = <<file[p + 1]>>
        <4>. DEFINE s == SubSeq(file, p + 1, p + 1)
        <4>1. s \in Seq(Nat) /\ Len(s) = 1 /\ s[1] = file[p + 1]
          <5>1. PICK q \in 1 .. Len(file) : q = p + 1
            BY <2>1
          <5>2. /\ SubSeq(file, q, q) \in Seq(Nat) /\ Len(SubSeq(file, q, q)) = 1
                /\ SubSeq(file, q, q)[1] = file[q]
            BY <2>1, <5>1
          <5>3. QED
            BY <5>1, <5>2, Zenon
        <4>. HIDE DEF s
        <4>2. s = <<file[p + 1]>>
          BY <2>1, <4>1
        <4>3. QED
          BY <4>2 DEF s
      <3>4. QED
        BY <2>1, <3>2, <3>3
    <2>3. ASSUME kind = "mmap", base, p < mmapSize PROVE Read(p, 1) = <<written[p]>>
      <3>1. Read(p, 1) = [i \in 1 .. 1 |-> IF p + i <= Len(file) THEN file[p + i] ELSE 0]
        BY <2>1, <2>3 DEF Read, MMapRead
      <3>2. \A i \in 1 .. 1 : i = 1 /\ (IF p + i <= Len(file) THEN file[p + i] ELSE 0) = written[p]
        BY <2>1
      <3>3. [i \in 1 .. 1 |-> IF p + i <= Len(file) THEN file[p + i] ELSE 0] = <<written[p]>>
        BY <3>2
      <3>4. QED
        BY <3>1, <3>3
    <2>4. ASSUME kind = "mmap", ~(base /\ p < mmapSize) PROVE Read(p, 1) = Failed
      BY <2>1, <2>4 DEF Read, MMapRead
    <2>5. QED
      BY <2>1, <2>2, <2>3, <2>4
  <1>2. QED
    BY <1>1, Invariance, PTL

=============================================================================
