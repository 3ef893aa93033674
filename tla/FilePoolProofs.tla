--------------------------- MODULE FilePoolProofs ---------------------------
(***************************************************************************)
(* Proofs about FilePool, in the order of the inductive invariants, each   *)
(* of which uses the ones before it:                                       *)
(*   IInv    types, the single owner of every byte, what lies below the    *)
(*           used mark;                                                    *)
(*   SInv    a stale list needs a third Init;                              *)
(*   FInv    what the clients hold lies inside the file;                   *)
(*   RInv    the time gap between a Free and the next owner;               *)
(*   Sized   the free list's byte count;                                   *)
(*   CInv    conservation of the bytes of a new file.                      *)
(***************************************************************************)
EXTENDS FilePool, SequenceTheorems, FiniteSetTheorems, TLAPS

-----------------------------------------------------------------------------
(* Bags and sums *)

\* One copy more adds the element to the domain.
LEMMA BagPush ==
    ASSUME NEW B, IsABag(B), NEW b
    PROVE  /\ IsABag(B (+) SetToBag({b}))
           /\ DOMAIN (B (+) SetToBag({b})) = DOMAIN B \cup {b}
           /\ \A c \in DOMAIN B \ {b} : (B (+) SetToBag({b}))[c] = B[c]
           /\ b \notin DOMAIN B => (B (+) SetToBag({b}))[b] = 1
  BY DEF IsABag, (+), SetToBag

\* One copy less.
LEMMA BagPop ==
    ASSUME NEW B, IsABag(B), NEW b \in DOMAIN B
    PROVE  /\ IsABag(B (-) SetToBag({b}))
           /\ DOMAIN (B (-) SetToBag({b})) \subseteq DOMAIN B
           /\ B[b] = 1 => DOMAIN (B (-) SetToBag({b})) = DOMAIN B \ {b}
           /\ \A c \in DOMAIN B \ {b} :
                 c \in DOMAIN (B (-) SetToBag({b})) /\ (B (-) SetToBag({b}))[c] = B[c]
  BY DEF IsABag, (-), SetToBag

\* A non-empty family of finite sets has a member no proper subset of which is a member.
LEMMA LeastSet ==
    ASSUME NEW S, IsFiniteSet(S), NEW F \in SUBSET (SUBSET S), F # {}
    PROVE  \E A \in F : \A B \in F : B \subseteq A => B = A
  <1>1. F \subseteq FiniteSubsetsOf(S)
    BY FS_FiniteSubsetsOfFinite
  <1>2. IsWellFoundedOn(StrictSubsetOrdering(S), FiniteSubsetsOf(S))
    BY FS_StrictSubsetOrderingWellFounded
  <1>3. PICK A \in F : \A B \in F : ~(<<B, A>> \in StrictSubsetOrdering(S))
    BY <1>1, <1>2, WFMin
  <1>4. QED
    BY <1>3 DEF StrictSubsetOrdering

\* The recursive function behind SumFunctionOnSet, on the subsets of S.
Chosen(s) == CHOOSE x \in s : TRUE
SumOf(f, S, iter) == iter = [s \in SUBSET S |-> IF s = {} THEN 0 ELSE f[Chosen(s)] + iter[s \ {Chosen(s)}]]
Sums(f, S) == CHOOSE iter : SumOf(f, S, iter)

LEMMA SumsIs == \A f, S : SumFunctionOnSet(f, S) = Sums(f, S)[S]
  BY DEF SumFunctionOnSet, FoldFunctionOnSet, MapThenFoldSet, Sums, SumOf, Chosen

LEMMA ChosenIn == \A s : s # {} => Chosen(s) \in s
  BY DEF Chosen

\* The provers cannot instantiate an induction rule, whose parameter is an operator; they can
\* use that the subsets of a finite set are well founded: what fails for some subset fails
\* for a least one.
LEMMA SumsUnique ==
    ASSUME NEW f, NEW S, IsFiniteSet(S), NEW g, NEW h, SumOf(f, S, g), SumOf(f, S, h)
    PROVE  g = h
  <1>. DEFINE F == {s \in SUBSET S : g[s] # h[s]}
  <1>1. F = {}
    <2>. SUFFICES ASSUME F # {} PROVE FALSE
      OBVIOUS
    <2>1. F \in SUBSET (SUBSET S)
      OBVIOUS
    <2>2. PICK A \in F : \A B \in F : B \subseteq A => B = A
      <3>. HIDE DEF F
      <3>. QED
        BY <2>1, LeastSet
    <2>3. A \in SUBSET S /\ A # {}
      BY DEF SumOf
    <2>4. A \ {Chosen(A)} \in SUBSET S /\ A \ {Chosen(A)} # A
      BY <2>3, ChosenIn
    <2>5. g[A \ {Chosen(A)}] = h[A \ {Chosen(A)}]
      BY <2>2, <2>4
    <2>6. g[A] = h[A]
      BY <2>3, <2>5 DEF SumOf
    <2>7. QED
      BY <2>6
  <1>2. QED
    BY <1>1 DEF SumOf

Restricted(g, T) == [s \in SUBSET T |-> g[s]]

LEMMA SumsRestrict ==
    ASSUME NEW f, NEW S, IsFiniteSet(S), NEW T \in SUBSET S, NEW g, SumOf(f, S, g)
    PROVE  SumOf(f, T, Restricted(g, T))
  <1>1. \A s \in SUBSET T : s \in SUBSET S
    OBVIOUS
  <1>2. \A s \in SUBSET T : s # {} => s \ {Chosen(s)} \in SUBSET T
    OBVIOUS
  <1>3. \A s \in SUBSET T : g[s] = IF s = {} THEN 0 ELSE f[Chosen(s)] + g[s \ {Chosen(s)}]
    BY <1>1 DEF SumOf
  <1>4. QED
    BY <1>2, <1>3 DEF SumOf, Restricted

LEMMA SumsExist ==
    ASSUME NEW f, NEW S, IsFiniteSet(S)
    PROVE  SumOf(f, S, Sums(f, S))
  <1>. DEFINE F == {s \in SUBSET S : ~SumOf(f, s, Sums(f, s))}
  <1>1. F = {}
    <2>. SUFFICES ASSUME F # {} PROVE FALSE
      OBVIOUS
    <2>1. F \in SUBSET (SUBSET S)
      OBVIOUS
    <2>2. PICK A \in F : \A B \in F : B \subseteq A => B = A
      <3>. HIDE DEF F
      <3>. QED
        BY <2>1, LeastSet
    <2>3. A \in SUBSET S
      OBVIOUS
    <2>4. ASSUME NEW s \in SUBSET A, s # A
          PROVE  SumOf(f, s, Sums(f, s)) /\ IsFiniteSet(s)
      <3>1. s \in SUBSET S /\ s \notin F
        BY <2>2, <2>3, <2>4
      <3>2. QED
        BY <3>1, FS_Subset
    <2>. DEFINE G(s) == IF s = {} THEN 0 ELSE f[Chosen(s)] + Sums(f, s \ {Chosen(s)})[s \ {Chosen(s)}]
                g == [s \in SUBSET A |-> G(s)]
    <2>5. \A s \in SUBSET A : s # {} => /\ s \ {Chosen(s)} \in SUBSET A
                                        /\ s \ {Chosen(s)} # A
      BY ChosenIn
    <2>6. ASSUME NEW s \in SUBSET A, s # A
          PROVE  Sums(f, s)[s] = G(s)
      <3>1. SumOf(f, s, Sums(f, s)) /\ IsFiniteSet(s)
        BY <2>4, <2>6
      <3>2. Sums(f, s)[s] = IF s = {} THEN 0 ELSE f[Chosen(s)] + Sums(f, s)[s \ {Chosen(s)}]
        BY <3>1 DEF SumOf
      <3>3. CASE s = {}
        BY <3>2, <3>3
      <3>4. CASE s # {}
        <4>. DEFINE r == s \ {Chosen(s)}
        <4>1. r \in SUBSET s /\ r \in SUBSET A /\ r # A
          BY <2>5, <3>4
        <4>2. SumOf(f, r, Sums(f, r)) /\ IsFiniteSet(r)
          BY <4>1, <2>4
        <4>3. SumOf(f, r, Restricted(Sums(f, s), r))
          BY <3>1, <4>1, SumsRestrict
        <4>4. Sums(f, r) = Restricted(Sums(f, s), r)
          BY <4>2, <4>3, SumsUnique
        <4>5. Sums(f, r)[r] = Sums(f, s)[r]
          BY <4>4 DEF Restricted
        <4>6. QED
          BY <3>2, <3>4, <4>5
      <3>5. QED
        BY <3>3, <3>4
    <2>7. SumOf(f, A, g)
      <3>1. \A s \in SUBSET A : s # {} => g[s \ {Chosen(s)}] = Sums(f, s \ {Chosen(s)})[s \ {Chosen(s)}]
        BY <2>5, <2>6
      <3>2. g = [s \in SUBSET A |-> IF s = {} THEN 0 ELSE f[Chosen(s)] + g[s \ {Chosen(s)}]]
        BY <3>1
      <3>3. QED
        BY <3>2 DEF SumOf
    <2>8. SumOf(f, A, Sums(f, A))
      BY <2>7 DEF Sums
    <2>9. QED
      BY <2>8
  <1>2. QED
    BY <1>1

\* A sum over a finite set, without its recursion.
LEMMA SumEmpty == \A f : SumFunctionOnSet(f, {}) = 0
  <1>. SUFFICES ASSUME NEW f PROVE SumFunctionOnSet(f, {}) = 0
    OBVIOUS
  <1>1. SumOf(f, {}, Sums(f, {}))
    BY SumsExist, FS_EmptySet
  <1>2. QED
    BY <1>1, SumsIs DEF SumOf

LEMMA SumChosen ==
    ASSUME NEW f, NEW S, IsFiniteSet(S), S # {}
    PROVE  SumFunctionOnSet(f, S) = f[Chosen(S)] + SumFunctionOnSet(f, S \ {Chosen(S)})
  <1>. DEFINE r == S \ {Chosen(S)}
  <1>1. r \in SUBSET S /\ IsFiniteSet(r)
    BY FS_Subset
  <1>2. SumOf(f, S, Sums(f, S)) /\ SumOf(f, r, Sums(f, r))
    BY <1>1, SumsExist
  <1>3. SumOf(f, r, Restricted(Sums(f, S), r))
    BY <1>1, <1>2, SumsRestrict
  <1>4. Sums(f, r) = Restricted(Sums(f, S), r)
    BY <1>1, <1>2, <1>3, SumsUnique
  <1>5. Sums(f, r)[r] = Sums(f, S)[r]
    BY <1>4 DEF Restricted
  <1>6. Sums(f, S)[S] = f[Chosen(S)] + Sums(f, S)[r]
    BY <1>2 DEF SumOf
  <1>7. QED
    BY <1>5, <1>6, SumsIs

\* The order does not matter: any element can be taken out.
LEMMA SumRemove ==
    ASSUME NEW S, IsFiniteSet(S), NEW f, \A x \in S : f[x] \in Int
    PROVE  /\ SumFunctionOnSet(f, S) \in Int
           /\ \A x \in S : SumFunctionOnSet(f, S) = f[x] + SumFunctionOnSet(f, S \ {x})
  <1>. DEFINE Sum(s) == SumFunctionOnSet(f, s)
              Ok(s) == Sum(s) \in Int /\ \A x \in s : Sum(s) = f[x] + Sum(s \ {x})
              F == {s \in SUBSET S : ~Ok(s)}
  <1>1. F = {}
    <2>. SUFFICES ASSUME F # {} PROVE FALSE
      OBVIOUS
    <2>1. F \in SUBSET (SUBSET S)
      OBVIOUS
    <2>2. PICK A \in F : \A B \in F : B \subseteq A => B = A
      <3>. HIDE DEF F
      <3>. QED
        BY <2>1, LeastSet
    <2>3. A \in SUBSET S /\ ~Ok(A) /\ IsFiniteSet(A)
      BY FS_Subset
    <2>4. ASSUME NEW s \in SUBSET A, s # A
          PROVE  Ok(s)
      <3>1. s \in SUBSET S /\ s \notin F
        BY <2>2, <2>3, <2>4
      <3>2. QED
        BY <3>1
    <2>5. CASE A = {}
      BY <2>3, <2>5, SumEmpty
    <2>6. CASE A # {}
      <3>. DEFINE c == Chosen(A)
      <3>1. c \in A
        BY <2>6, ChosenIn
      <3>2. Sum(A) = f[c] + Sum(A \ {c})
        BY <2>3, <2>6, SumChosen
      <3>3. Sum(A \ {c}) \in Int /\ f[c] \in Int
        BY <2>3, <2>4, <3>1
      <3>4. ASSUME NEW x \in A
            PROVE  Sum(A) = f[x] + Sum(A \ {x})
        <4>1. CASE x = c
          BY <3>2, <4>1
        <4>2. CASE x # c
          <5>1. /\ A \ {c} \in SUBSET A /\ A \ {c} # A /\ x \in A \ {c}
                /\ A \ {x} \in SUBSET A /\ A \ {x} # A /\ c \in A \ {x}
                /\ (A \ {c}) \ {x} = (A \ {x}) \ {c}
                /\ (A \ {c}) \ {x} \in SUBSET A /\ (A \ {c}) \ {x} # A
            BY <3>1, <4>2
          <5>2. Sum(A \ {c}) = f[x] + Sum((A \ {c}) \ {x})
            BY <5>1, <2>4
          <5>3. Sum(A \ {x}) = f[c] + Sum((A \ {x}) \ {c})
            BY <5>1, <2>4
          <5>4. Sum((A \ {c}) \ {x}) \in Int
            BY <5>1, <2>4
          <5>5. f[x] \in Int
            BY <2>3
          <5>6. Sum((A \ {x}) \ {c}) = Sum((A \ {c}) \ {x})
            BY <5>1
          <5>. HIDE DEF Sum, c
          <5>7. QED
            BY <3>2, <3>3, <5>2, <5>3, <5>4, <5>5, <5>6
        <4>3. QED
          BY <4>1, <4>2
      <3>5. Sum(A) \in Int
        <4>. HIDE DEF Sum
        <4>. QED
          BY <3>2, <3>3
      <3>6. QED
        BY <2>3, <3>4, <3>5
    <2>7. QED
      BY <2>5, <2>6
  <1>2. QED
    BY <1>1

\* A new element adds its value.
LEMMA SumAdd ==
    ASSUME NEW S, IsFiniteSet(S), NEW x, x \notin S, NEW f, \A y \in S \cup {x} : f[y] \in Int
    PROVE  SumFunctionOnSet(f, S \cup {x}) = f[x] + SumFunctionOnSet(f, S)
  <1>1. IsFiniteSet(S \cup {x}) /\ (S \cup {x}) \ {x} = S
    BY FS_AddElement
  <1>2. QED
    BY <1>1, SumRemove

\* Renaming the summands does not change the sum.
LEMMA SumImage ==
    ASSUME NEW S, IsFiniteSet(S), NEW f, NEW g, NEW m,
           \A x \in S : f[x] \in Int /\ g[m[x]] = f[x],
           \A x, y \in S : m[x] = m[y] => x = y
    PROVE  SumFunctionOnSet(g, {m[x] : x \in S}) = SumFunctionOnSet(f, S)
  <1>. DEFINE Image(s) == {m[x] : x \in s}
              Ok(s) == SumFunctionOnSet(g, Image(s)) = SumFunctionOnSet(f, s)
              F == {s \in SUBSET S : ~Ok(s)}
  <1>1. F = {}
    <2>. SUFFICES ASSUME F # {} PROVE FALSE
      OBVIOUS
    <2>1. F \in SUBSET (SUBSET S)
      OBVIOUS
    <2>2. PICK A \in F : \A B \in F : B \subseteq A => B = A
      <3>. HIDE DEF F
      <3>. QED
        BY <2>1, LeastSet
    <2>3. A \in SUBSET S /\ ~Ok(A) /\ IsFiniteSet(A)
      BY FS_Subset
    <2>4. CASE A = {}
      <3>1. Image(A) = {}
        BY <2>4
      <3>2. QED
        BY <2>3, <2>4, <3>1, SumEmpty
    <2>5. CASE A # {}
      <3>1. PICK x \in A : TRUE
        BY <2>5
      <3>. DEFINE B == A \ {x}
      <3>2. B \in SUBSET S /\ B # A /\ B \subseteq A /\ IsFiniteSet(B) /\ Ok(B)
        BY <2>2, <2>3, <3>1, FS_Subset
      <3>3. /\ IsFiniteSet(Image(A)) /\ m[x] \in Image(A)
            /\ Image(A) \ {m[x]} = Image(B)
            /\ \A z \in Image(A) : g[z] \in Int
        <4>1. IsFiniteSet(Image(A))
          <5>1. [y \in A |-> m[y]] \in Surjection(A, Image(A))
            BY DEF Surjection
          <5>2. QED
            BY <5>1, <2>3, FS_Surjection
        <4>2. QED
          BY <4>1, <2>3, <3>1
      <3>4. SumFunctionOnSet(g, Image(A)) = g[m[x]] + SumFunctionOnSet(g, Image(B))
        <4>. DEFINE I == Image(A)
        <4>1. IsFiniteSet(I) /\ m[x] \in I /\ \A z \in I : g[z] \in Int
          BY <3>3
        <4>. HIDE DEF I, Image
        <4>2. SumFunctionOnSet(g, I) = g[m[x]] + SumFunctionOnSet(g, I \ {m[x]})
          BY <4>1, SumRemove
        <4>3. QED
          BY <4>2, <3>3 DEF I
      <3>5. SumFunctionOnSet(f, A) = f[x] + SumFunctionOnSet(f, B)
        BY <2>3, <3>1, SumRemove
      <3>6. g[m[x]] = f[x]
        BY <2>3, <3>1
      <3>. HIDE DEF Image, B
      <3>7. QED
        BY <2>3, <3>2, <3>4, <3>5, <3>6
    <2>6. QED
      BY <2>4, <2>5
  <1>2. Ok(S)
    BY <1>1
  <1>3. QED
    BY <1>2

\* Functions that agree on a set have the same sum over it.
LEMMA SumEqual ==
    ASSUME NEW S, IsFiniteSet(S), NEW f, NEW g, \A x \in S : f[x] \in Int /\ g[x] = f[x]
    PROVE  SumFunctionOnSet(g, S) = SumFunctionOnSet(f, S)
  <1>. DEFINE m == [x \in S |-> x]
  <1>1. /\ \A x \in S : f[x] \in Int /\ g[m[x]] = f[x]
        /\ \A x, y \in S : m[x] = m[y] => x = y
        /\ {m[x] : x \in S} = S
    OBVIOUS
  <1>. HIDE DEF m
  <1>2. SumFunctionOnSet(g, {m[x] : x \in S}) = SumFunctionOnSet(f, S)
    BY <1>1, SumImage
  <1>3. QED
    BY <1>1, <1>2

\* The sum of a function with a finite domain, and of the function with one more element.
LEMMA SumIsInt ==
    ASSUME NEW f, IsFiniteSet(DOMAIN f), \A x \in DOMAIN f : f[x] \in Int
    PROVE  SumFunction(f) \in Int
  BY SumRemove DEF SumFunction

LEMMA SumExtend ==
    ASSUME NEW f, IsFiniteSet(DOMAIN f), NEW g, NEW x, x \notin DOMAIN f,
           DOMAIN g = DOMAIN f \cup {x},
           \A y \in DOMAIN f : f[y] \in Int /\ g[y] = f[y], g[x] \in Int
    PROVE  SumFunction(g) = SumFunction(f) + g[x]
  <1>1. SumFunctionOnSet(g, DOMAIN f) = SumFunctionOnSet(f, DOMAIN f)
    BY SumEqual
  <1>2. SumFunctionOnSet(g, DOMAIN f \cup {x}) = g[x] + SumFunctionOnSet(g, DOMAIN f)
    BY SumAdd
  <1>3. SumFunctionOnSet(f, DOMAIN f) \in Int
    BY SumRemove
  <1>4. QED
    BY <1>1, <1>2, <1>3 DEF SumFunction

-----------------------------------------------------------------------------
(* Blocks *)

\* What the proofs use of the constants.
LEMMA SizesPositive == \A s \in Sizes : s \in Nat /\ s \in Int /\ s > 0
  BY PoolAssumption DEF PoolAssumption

LEMMA BlockFields == \A b \in Block : b.addr \in Int /\ b.size \in Int /\ b.size > 0
  BY SizesPositive DEF Block

\* The sizes the clients ask for fit into Block::size.
LEMMA BlockFits == \A b \in Block : AsBlock(b) = b
  <1> SUFFICES ASSUME NEW b \in Block PROVE AsBlock(b) = b
    OBVIOUS
  <1>1. Width \in Nat \ {0} /\ b.size \in 1 .. (Width - 1)
    BY PoolAssumption DEF PoolAssumption, Block
  <1>2. b.size % Width = b.size
    BY <1>1
  <1>3. QED
    BY <1>1, <1>2 DEF AsBlock, Block

\* Moving by d and by -d are inverse, keep blocks blocks and keep overlaps.
LEMMA MoveFacts ==
    ASSUME NEW b \in Block, NEW c \in Block, NEW d \in Int
    PROVE  /\ Move(b, d) \in Block
           /\ Move(Move(b, d), -d) = b
           /\ Move(Move(b, -d), d) = b
           /\ Move(b, d).addr = b.addr + d
           /\ Move(b, d).size = b.size
           /\ Overlap(Move(b, d), Move(c, d)) <=> Overlap(b, c)
           /\ Overlap(Move(b, d), c) <=> Overlap(b, Move(c, -d))
  <1>1. b.addr \in Int /\ b.size \in Int /\ c.addr \in Int /\ c.size \in Int
    BY BlockFields
  <1>2. b = [addr |-> b.addr, size |-> b.size]
    BY DEF Block
  <1>3. Move(b, d) \in Block
    BY DEF Block, Move
  <1>4. Move(Move(b, d), -d) = b /\ Move(Move(b, -d), d) = b
    BY <1>1, <1>2, b.addr + d + (-d) = b.addr, b.addr + (-d) + d = b.addr DEF Move
  <1>5. Overlap(Move(b, d), Move(c, d)) <=> Overlap(b, c)
    BY <1>1 DEF Overlap, Move
  <1>6. Overlap(Move(b, d), c) <=> Overlap(b, Move(c, -d))
    BY <1>1 DEF Overlap, Move
  <1>7. QED
    BY <1>3, <1>4, <1>5, <1>6 DEF Move

LEMMA OverlapFacts ==
    \A b, c \in Block : /\ Overlap(b, b)
                        /\ Overlap(b, c) <=> Overlap(c, b)
                        /\ \A m \in Int : b.addr + b.size <= m /\ m <= c.addr
                                            => ~Overlap(b, c) /\ ~Overlap(c, b)
  BY BlockFields DEF Overlap

LEMMA MoveAllFacts ==
    ASSUME NEW B, IsABag(B), DOMAIN B \subseteq Block, NEW d \in Int
    PROVE  /\ IsABag(MoveAll(B, d))
           /\ DOMAIN MoveAll(B, d) = {Move(b, d) : b \in DOMAIN B}
           /\ DOMAIN MoveAll(B, d) \subseteq Block
           /\ Apart(B) => Apart(MoveAll(B, d))
  <1>1. DOMAIN MoveAll(B, d) = {Move(b, d) : b \in DOMAIN B}
    BY DEF MoveAll
  <1>2. \A b \in DOMAIN B : Move(b, d) \in Block /\ Move(Move(b, d), -d) = b
    BY MoveFacts
  <1>3. \A b \in DOMAIN B : MoveAll(B, d)[Move(b, d)] = B[b]
    BY <1>2 DEF MoveAll
  <1>4. IsABag(MoveAll(B, d))
    <2>1. ASSUME NEW c \in DOMAIN MoveAll(B, d) PROVE MoveAll(B, d)[c] \in {n \in Nat : n > 0}
      <3>1. PICK b \in DOMAIN B : c = Move(b, d)
        BY <1>1
      <3>2. MoveAll(B, d)[c] = B[b]
        BY <1>3, <3>1
      <3>3. QED
        BY <3>2 DEF IsABag
    <2>2. MoveAll(B, d) = [c \in DOMAIN MoveAll(B, d) |-> MoveAll(B, d)[c]]
      BY DEF MoveAll
    <2>3. QED
      BY <2>1, <2>2, Zenon DEF IsABag
  <1>5. ASSUME Apart(B)
        PROVE  Apart(MoveAll(B, d))
    <2>1. ASSUME NEW x \in DOMAIN MoveAll(B, d), NEW y \in DOMAIN MoveAll(B, d), x # y
          PROVE  ~Overlap(x, y)
      <3>1. PICK b \in DOMAIN B : x = Move(b, d)
        BY <1>1
      <3>2. PICK c \in DOMAIN B : y = Move(c, d)
        BY <1>1
      <3>3. ~Overlap(b, c)
        BY <1>5, <2>1, <3>1, <3>2 DEF Apart
      <3>4. QED
        BY <3>1, <3>2, <3>3, MoveFacts
    <2>2. ASSUME NEW x \in DOMAIN MoveAll(B, d)
          PROVE  MoveAll(B, d)[x] = 1
      BY <1>1, <1>3, <1>5 DEF Apart
    <2>3. QED
      BY <2>1, <2>2 DEF Apart
  <1>6. QED
    BY <1>1, <1>2, <1>4, <1>5

-----------------------------------------------------------------------------
(* The inductive invariant *)

\* Where file position 0 is among the addresses, and among the offsets.
Origin == IF Mapped THEN base ELSE 0
Header == IF Mapped THEN Reserve ELSE 0

LEMMA ConstantFacts ==
    /\ Reserve \in Nat /\ Reserve > 0 /\ MinExpand \in Nat /\ MinExpand > 0
    /\ ReuseTimegap \in Nat /\ MaxInits \in Nat
    /\ Bases \subseteq Nat /\ Bases # {}
    /\ Header \in Nat
  <1>1. Reserve \in Nat \ {0} /\ MinExpand \in Nat \ {0}
    BY PoolAssumption DEF PoolAssumption
  <1>2. ReuseTimegap \in Nat /\ MaxInits \in Nat /\ Bases \subseteq Nat /\ Bases # {}
    BY PoolAssumption DEF PoolAssumption
  <1>3. QED
    BY <1>1, <1>2 DEF Header

\* How the phase, the file and the used mark go together.
Shape ==
    /\ phase = "sizing" => used = 0 /\ fileSize # 0 /\ Mapped
    /\ fileSize = 0 => used = 0
    /\ ~Mapped => fileSize = used
    /\ ~Running => pending = <<>>

\* The free list means something.
Active == Running \/ phase = "dumping"

\* Nothing a failing write has spoiled was loaded.
Trusted == stale => "full" \notin Env

\* Everything known to the clients, the .fl file and the lists lies below the used
\* mark: what AllocFromStore carves off is new.
Below ==
    /\ \A h \in Handles : held[h] # None => held[h].addr + held[h].size <= used - Header
    /\ \A i \in DOMAIN fl.list : fl.list[i] # None =>
          fl.list[i].addr + fl.list[i].size <= used - Header
    /\ Active => /\ \A b \in DOMAIN freeList : b.addr + b.size <= Origin + used
                 /\ \A i \in DOMAIN pending :
                       pending[i].block.addr + pending[i].block.size <= Origin + used

\* What is written is in the file; without failing writes the file never promises more
\* entries than it has, and all of them are blocks.
Dumps ==
    /\ dump.written <= Len(fl.list)
    /\ phase # "dumping" => dump = [size |-> 0, written |-> 0]
    /\ "full" \notin Env => /\ full = FALSE /\ zeros = 0
                            /\ fl.count <= Len(fl.list)
                            /\ dump.size = dump.written
                            /\ \A i \in DOMAIN fl.list : fl.list[i] \in Block

IInv ==
    /\ TypeOK
    /\ Shape
    /\ Trusted => Below
    /\ SingleOwner
    /\ Dumps

LEMMA DataBeginIs == DataBegin = Origin + Header
  BY ConstantFacts DEF DataBegin, Origin, Header

LEMMA OriginType == TypeOK => Origin \in Nat /\ DataBegin \in Int
  BY ConstantFacts DEF TypeOK, DataBegin, Origin

LEMMA SequenceElement ==
    ASSUME NEW S, NEW q \in Seq(S), NEW i \in DOMAIN q
    PROVE  q[i] \in S
  OBVIOUS

LEMMA PendingType ==
    TypeOK => \A i \in DOMAIN pending :
                 pending[i] \in [block : Block, wait : 0 .. ReuseTimegap] /\ pending[i].block \in Block
  <1> DEFINE Task == [block : Block, wait : 0 .. ReuseTimegap]
  <1>1. \A q \in Seq(Task) : \A i \in DOMAIN q : q[i] \in Task
    BY SequenceElement
  <1>2. \A t \in Task : t.block \in Block
    OBVIOUS
  <1>3. QED
    BY <1>1, <1>2 DEF TypeOK

LEMMA FileType ==
    TypeOK => /\ fl.count \in Nat /\ fl.list \in Seq(Block \cup {None})
              /\ Len(fl.list) \in Nat /\ DOMAIN fl.list = 1 .. Len(fl.list)
              /\ \A i \in DOMAIN fl.list : fl.list[i] \in Block \cup {None}
              /\ fl = [count |-> fl.count, list |-> fl.list]
              /\ dump.size \in Nat /\ dump.written \in Nat
  <1> SUFFICES ASSUME TypeOK
               PROVE  /\ fl.count \in Nat /\ fl.list \in Seq(Block \cup {None})
                      /\ Len(fl.list) \in Nat /\ DOMAIN fl.list = 1 .. Len(fl.list)
                      /\ \A i \in DOMAIN fl.list : fl.list[i] \in Block \cup {None}
                      /\ fl = [count |-> fl.count, list |-> fl.list]
                      /\ dump.size \in Nat /\ dump.written \in Nat
    OBVIOUS
  <1>1. /\ fl.count \in Nat /\ fl.list \in Seq(Block \cup {None})
        /\ fl = [count |-> fl.count, list |-> fl.list]
        /\ dump.size \in Nat /\ dump.written \in Nat
    BY DEF TypeOK
  <1>2. \A i \in DOMAIN fl.list : fl.list[i] \in Block \cup {None}
    BY <1>1, SequenceElement
  <1>3. QED
    BY <1>1, <1>2

LEMMA EntryFacts ==
    ASSUME TypeOK, NEW d \in Int, NEW i \in Listed(d)
    PROVE  /\ Entry(i, d) \in Block
           /\ i \in 1 .. fl.count
           /\ i <= Len(fl.list) => i \in DOMAIN fl.list /\ Entry(i, d) = fl.list[i]
                                  /\ fl.list[i] # None
  <1>1. i \in 1 .. fl.count /\ Entry(i, d) # None /\ i \in Nat
    BY FileType DEF Listed
  <1>2. ASSUME i <= Len(fl.list)
        PROVE  i \in DOMAIN fl.list /\ Entry(i, d) = fl.list[i]
    BY <1>1, <1>2, FileType DEF Entry
  <1>3. ASSUME ~(i <= Len(fl.list))
        PROVE  Entry(i, d) \in Block
    <2>1. /\ Len(fl.list) # 0 /\ fl.list[Len(fl.list)] # None
          /\ Entry(i, d) = Move(fl.list[Len(fl.list)], (i - Len(fl.list)) * d)
      BY <1>1, <1>3 DEF Entry
    <2>2. fl.list[Len(fl.list)] \in Block
      BY <2>1, FileType
    <2>3. (i - Len(fl.list)) * d \in Int
      BY <1>1, FileType
    <2>4. QED
      BY <2>1, <2>2, <2>3, MoveFacts
  <1>4. QED
    BY <1>1, <1>2, <1>3, FileType

\* The bag LoadFreeList makes of the file.
LEMMA OnFileFacts ==
    ASSUME TypeOK, NEW d \in Int
    PROVE  /\ IsABag(OnFile(d)) /\ DOMAIN OnFile(d) = {Entry(i, d) : i \in Listed(d)}
           /\ DOMAIN OnFile(d) \subseteq Block
           /\ IsFiniteSet(Listed(d)) /\ IsFiniteSet(DOMAIN OnFile(d))
           /\ (\A i, j \in Listed(d) : i # j => ~Overlap(Entry(i, d), Entry(j, d)))
                 => Apart(OnFile(d))
  <1> DEFINE At(b) == {i \in Listed(d) : Entry(i, d) = b}
  <1>1. DOMAIN OnFile(d) = {Entry(i, d) : i \in Listed(d)}
    BY DEF OnFile
  <1>2. IsFiniteSet(Listed(d))
    <2>0. 1 \in Int /\ fl.count \in Int
      BY FileType
    <2>1. IsFiniteSet(1 .. fl.count)
      BY <2>0, FS_Interval
    <2>2. QED
      BY <2>1, FS_Subset DEF Listed
  <1>3. \A b \in DOMAIN OnFile(d) : OnFile(d)[b] = Cardinality(At(b))
    BY DEF OnFile
  <1>4. ASSUME NEW b \in DOMAIN OnFile(d)
        PROVE  Cardinality(At(b)) \in {n \in Nat : n > 0}
    <2>1. IsFiniteSet(At(b)) /\ At(b) # {}
      BY <1>1, <1>2, FS_Subset
    <2>2. QED
      BY <2>1, FS_EmptySet, FS_CardinalityType
  <1>5. IsABag(OnFile(d))
    <2>1. OnFile(d) = [b \in DOMAIN OnFile(d) |-> OnFile(d)[b]]
      BY DEF OnFile
    <2>2. QED
      BY <2>1, <1>3, <1>4, Zenon DEF IsABag
  <1>6. DOMAIN OnFile(d) \subseteq Block
    BY <1>1, EntryFacts
  <1>7. IsFiniteSet(DOMAIN OnFile(d))
    <2> DEFINE m == [i \in Listed(d) |-> Entry(i, d)]
    <2>1. m \in Surjection(Listed(d), DOMAIN OnFile(d))
      BY <1>1 DEF Surjection
    <2>2. QED
      BY <2>1, <1>2, FS_Surjection
  <1>8. ASSUME \A i, j \in Listed(d) : i # j => ~Overlap(Entry(i, d), Entry(j, d))
        PROVE  Apart(OnFile(d))
    <2>1. ASSUME NEW b \in DOMAIN OnFile(d)
          PROVE  OnFile(d)[b] = 1
      <3>1. PICK i \in Listed(d) : b = Entry(i, d)
        BY <1>1
      <3>2. ASSUME NEW j \in At(b) PROVE j = i
        BY <3>1, <3>2, <1>6, <1>8, OverlapFacts
      <3>3. At(b) = {i}
        BY <3>1, <3>2
      <3>4. QED
        BY <3>3, <1>3, FS_Singleton
    <2>2. ASSUME NEW b \in DOMAIN OnFile(d), NEW c \in DOMAIN OnFile(d) \ {b}
          PROVE  ~Overlap(b, c)
      <3>1. PICK i \in Listed(d) : b = Entry(i, d)
        BY <1>1
      <3>2. PICK j \in Listed(d) : c = Entry(j, d)
        BY <1>1
      <3>3. QED
        BY <3>1, <3>2, <2>2, <1>8
    <2>3. QED
      BY <2>1, <2>2 DEF Apart
  <1>9. QED
    BY <1>1, <1>2, <1>5, <1>6, <1>7, <1>8

LEMMA EmptyBagFacts ==
    IsABag(EmptyBag) /\ DOMAIN EmptyBag = {} /\ Apart(EmptyBag)
  BY DEF EmptyBag, SetToBag, IsABag, Apart

LEMMA InitIInv == Init => IInv
  <1> SUFFICES ASSUME Init PROVE IInv
    OBVIOUS
  <1> USE ConstantFacts, EmptyBagFacts DEF Init
  <1>1. TypeOK
    <2>1. IsABag(freeList) /\ DOMAIN freeList \subseteq Block
      BY Zenon
    <2>2. /\ fl \in [count : Nat, list : Seq(Block \cup {None})]
          /\ dump \in [size : Nat, written : Nat]
      OBVIOUS
    <2>3. held \in [Handles -> Block \cup {None}]
      OBVIOUS
    <2>4. base \in Nat /\ inits \in 0 .. MaxInits
      OBVIOUS
    <2>5. pending \in Seq([block : Block, wait : 0 .. ReuseTimegap])
      OBVIOUS
    <2>6. QED
      BY <2>1, <2>2, <2>3, <2>4, <2>5 DEF TypeOK
  <1>2. Shape
    BY DEF Shape, Running
  <1>3. Below
    BY DEF Below, Active, Running
  <1>4. SingleOwner
    BY DEF SingleOwner, HeldApart, Running
  <1>5. Dumps
    BY DEF Dumps
  <1>6. QED
    BY <1>1, <1>2, <1>3, <1>4, <1>5 DEF IInv

-----------------------------------------------------------------------------
(* Consecution, one lemma per action *)

\* What LoadFreeList brings about in either Init.
LEMMA LoadStep ==
    ASSUME IInv, ~Active, pending = <<>>, LoadFreeList, phase' = "open",
           base' \in Nat, used' \in Nat, used <= used',
           UNCHANGED <<pending, fl, dump, full, held>>
    PROVE  /\ IsABag(freeList') /\ DOMAIN freeList' \subseteq Block
           /\ zeros' \in Nat
           /\ stale' \in BOOLEAN /\ (~stale' => ~stale)
           /\ (Trusted => Below)' /\ SingleOwner' /\ Dumps'
  <1> DEFINE d == DataBegin'
             E(i) == Entry(i, d)
  <1>1. /\ TypeOK /\ used \in Nat /\ stale \in BOOLEAN
        /\ fl.count \in Nat /\ Len(fl.list) \in Nat /\ DOMAIN fl.list = 1 .. Len(fl.list)
    BY FileType DEF IInv, TypeOK
  <1>2. d \in Int /\ d = Origin' + Header /\ Origin' \in Nat /\ Header \in Nat
    BY ConstantFacts DEF DataBegin, Origin, Header
  <1>a. /\ IsABag(OnFile(d)) /\ DOMAIN OnFile(d) = {E(i) : i \in Listed(d)}
        /\ DOMAIN OnFile(d) \subseteq Block /\ IsFiniteSet(Listed(d))
        /\ (\A i, j \in Listed(d) : i # j => ~Overlap(E(i), E(j))) => Apart(OnFile(d))
    BY <1>1, <1>2, OnFileFacts
  <1>3. /\ IsABag(freeList') /\ DOMAIN freeList' \subseteq Block
        /\ DOMAIN freeList' = {Move(b, d) : b \in DOMAIN OnFile(d)}
        /\ Apart(OnFile(d)) => Apart(freeList')
    BY <1>a, <1>2, MoveAllFacts DEF LoadFreeList
  <1>4. stale' \in BOOLEAN /\ (~stale' => ~stale /\ ~Wrong(d))
    BY <1>1 DEF LoadFreeList
  <1>b. Cardinality(Listed(d)) \in Nat /\ Cardinality(Listed(d)) <= fl.count
    <2>0. 1 \in Int /\ fl.count \in Int
      BY <1>1
    <2>1. IsFiniteSet(1 .. fl.count) /\ Cardinality(1 .. fl.count) = fl.count
      <3>1. IsFiniteSet(1 .. fl.count)
        BY <2>0, FS_Interval
      <3>2. Cardinality(1 .. fl.count) = IF 1 > fl.count THEN 0 ELSE fl.count - 1 + 1
        BY <2>0, FS_Interval
      <3>3. QED
        BY <3>1, <3>2, <1>1
    <2>2. Listed(d) \subseteq 1 .. fl.count
      BY DEF Listed
    <2>3. QED
      BY <2>1, <2>2, <1>a, FS_Subset, FS_CardinalityType
  <1>c. ASSUME "full" \notin Env
        PROVE  Listed(d) = 1 .. fl.count /\ \A i \in Listed(d) : i <= Len(fl.list)
    <2>1. /\ fl.count <= Len(fl.list)
          /\ \A i \in DOMAIN fl.list : fl.list[i] \in Block
      BY <1>c DEF IInv, Dumps
    <2>2. ASSUME NEW i \in 1 .. fl.count
          PROVE  i <= Len(fl.list) /\ Entry(i, d) # None
      BY <2>1, <1>1, NoneAssumption DEF Entry
    <2>3. QED
      BY <2>2 DEF Listed
  <1>d. Dumps'
    <2>0. 1 \in Int /\ fl.count \in Int
      BY <1>1
    <2>1. ASSUME "full" \notin Env PROVE zeros' = 0
      <3>1. Cardinality(1 .. fl.count) = IF 1 > fl.count THEN 0 ELSE fl.count - 1 + 1
        BY <2>0, FS_Interval
      <3>2. Cardinality(Listed(d)) = fl.count
        BY <3>1, <1>c, <2>1, <1>1
      <3>3. QED
        BY <3>2, <1>1 DEF LoadFreeList
    <2>2. QED
      BY <2>1 DEF IInv, Dumps, Active
  <1>e. zeros' \in Nat
    BY <1>b, <1>1 DEF LoadFreeList
  <1>5. ASSUME Trusted'
        PROVE  Below'
    <2>0. Trusted /\ Below
      BY <1>4, <1>5 DEF Trusted, IInv
    <2>1. \A h \in Handles : held'[h] # None => held'[h].addr + held'[h].size <= used' - Header
      <3> SUFFICES ASSUME NEW h \in Handles, held[h] # None
                   PROVE  held[h].addr + held[h].size <= used' - Header
        OBVIOUS
      <3>1. held[h] \in Block /\ held[h].addr + held[h].size <= used - Header
        BY <2>0 DEF IInv, TypeOK, Below
      <3>2. QED
        BY <3>1, <1>1, BlockFields, ConstantFacts
    <2>2. \A i \in DOMAIN fl.list : fl.list[i] # None =>
             fl.list[i].addr + fl.list[i].size <= used' - Header
      <3> SUFFICES ASSUME NEW i \in DOMAIN fl.list, fl.list[i] # None
                   PROVE  fl.list[i].addr + fl.list[i].size <= used' - Header
        OBVIOUS
      <3>1. fl.list[i] \in Block /\ fl.list[i].addr + fl.list[i].size <= used - Header
        BY <2>0, <1>1, FileType DEF Below
      <3>2. QED
        BY <3>1, <1>1, BlockFields, ConstantFacts
    <2>a. ASSUME NEW i \in Listed(d)
          PROVE  E(i) \in Block /\ E(i).addr + E(i).size <= used' - Header
      <3>1. E(i) \in Block
        BY <1>1, <1>2, EntryFacts
      <3>2. CASE ~stale'
        <4>1. ~(E(i).addr + E(i).size + Header > used')
          BY <1>4, <3>2 DEF Wrong, Header
        <4>2. QED
          BY <3>1, <4>1, <1>2, BlockFields
      <3>3. CASE "full" \notin Env
        BY <3>1, <3>3, <1>c, <1>1, <1>2, <2>2, EntryFacts
      <3>4. QED
        BY <3>2, <3>3, <1>5, <1>4 DEF Trusted
    <2>3. ASSUME NEW c \in DOMAIN freeList'
          PROVE  c.addr + c.size <= Origin' + used'
      <3>1. PICK i \in Listed(d) : c = Move(E(i), d)
        BY <1>3, <1>a
      <3>2. E(i).addr + E(i).size <= used' - Header /\ E(i).addr \in Int /\ E(i).size \in Int
        BY <2>a, BlockFields
      <3>3. c.addr = E(i).addr + (Origin' + Header) /\ c.size = E(i).size
        BY <3>1, <1>2 DEF Move
      <3>4. QED
        BY <3>2, <3>3, <1>2, ConstantFacts
    <2>4. QED
      BY <2>1, <2>2, <2>3, <1>1 DEF Below
  <1>6. ASSUME ~stale'
        PROVE  SingleOwner'
    <2>1. HeldApart' /\ Apart(OnFile(d))
      BY <1>4, <1>6, <1>a DEF IInv, SingleOwner, HeldApart, Wrong
    <2>2. PendingApart' /\ FreeNotPending'
      BY <1>1 DEF PendingApart, FreeNotPending
    <2>3. ASSUME NEW h \in Handles, held[h] # None, NEW c \in DOMAIN freeList'
          PROVE  ~Overlap(Move(held[h], DataBegin'), c)
      <3>1. PICK i \in Listed(d) : c = Move(E(i), d)
        BY <1>3, <1>a
      <3>2. ~Overlap(held[h], E(i))
        BY <1>4, <1>6, <2>3 DEF Wrong
      <3>3. held[h] \in Block /\ E(i) \in Block
        BY <2>3, <1>1, <1>2, EntryFacts DEF TypeOK
      <3>4. QED
        BY <3>1, <3>2, <3>3, <1>2, MoveFacts
    <2>4. HeldNotFree'
      BY <2>3, <1>1 DEF HeldNotFree
    <2>5. Apart(freeList)'
      BY <2>1, <1>3 DEF Apart
    <2>6. QED
      BY <2>1, <2>2, <2>4, <2>5 DEF SingleOwner
  <1>7. SingleOwner'
    BY <1>6 DEF SingleOwner
  <1>9. QED
    BY <1>3, <1>4, <1>5, <1>7, <1>d, <1>e

LEMMA InitPoolStep == ASSUME IInv, NEW ro \in BOOLEAN, InitPool(ro) PROVE IInv'
  <1> USE DEF InitPool
  <1>1. ~Active /\ pending = <<>>
    BY DEF Active, Running, IInv, Shape
  <1>2. inits' \in 0 .. MaxInits /\ inits \in Nat
    BY ConstantFacts DEF IInv, TypeOK
  <1>3. CASE LoadFreeList /\ phase' = "open" /\ base' \in Nat /\ used' \in Nat /\ used <= used'
             /\ fileSize' \in Nat /\ (fileSize' = 0 => used' = 0) /\ (~Mapped => fileSize' = used')
    <2>1. /\ IsABag(freeList') /\ DOMAIN freeList' \subseteq Block
          /\ zeros' \in Nat /\ stale' \in BOOLEAN
          /\ (Trusted => Below)' /\ SingleOwner' /\ Dumps'
      BY <1>1, <1>3, LoadStep
    <2>2. TypeOK'
      BY <2>1, <1>2, <1>3 DEF IInv, TypeOK
    <2>3. Shape'
      BY <1>3 DEF Shape, Running
    <2>4. QED
      BY <2>1, <2>2, <2>3 DEF IInv
  <1>4. CASE FileInit(ro)
    <2>1. used' \in Nat /\ used <= used' /\ fileSize' \in Nat /\ fileSize' = used' /\ base' \in Nat
      BY <1>4, ConstantFacts DEF FileInit, IInv, TypeOK, Shape
    <2>2. QED
      BY <2>1, <1>3, <1>4 DEF FileInit
  <1>5. CASE MMapInit(ro) /\ fileSize # 0
    <2>1. used' \in Nat /\ used <= used' /\ fileSize' \in Nat /\ fileSize' # 0 /\ base' \in Nat /\ Mapped
      BY <1>5, ConstantFacts DEF MMapInit, IInv, TypeOK
    <2>2. QED
      BY <2>1, <1>3, <1>5 DEF MMapInit
  <1>6. CASE MMapInit(ro) /\ fileSize = 0
    <2>1. /\ Mapped /\ base' \in Nat /\ used' = 0 /\ used = 0
          /\ fileSize' \in Nat /\ fileSize' # 0 /\ phase' = "sizing"
          /\ UNCHANGED <<freeList, zeros, stale>>
      BY <1>6, ConstantFacts DEF MMapInit, IInv, Shape
    <2>2. TypeOK'
      BY <2>1, <1>2 DEF IInv, TypeOK
    <2>3. Shape'
      BY <2>1, <1>1 DEF Shape, Running
    <2>4. (Trusted => Below)'
      BY <2>1 DEF IInv, Below, Active, Running, Trusted
    <2>5. SingleOwner' /\ Dumps'
      BY <2>1 DEF IInv, SingleOwner, HeldApart, Running, Dumps
    <2>6. QED
      BY <2>2, <2>3, <2>4, <2>5 DEF IInv
  <1>7. QED
    BY <1>4, <1>5, <1>6

LEMMA InitHeaderStep == ASSUME IInv, InitHeader PROVE IInv'
  <1> USE DEF InitHeader
  <1>1. ~Active /\ pending = <<>> /\ Mapped /\ used = 0 /\ fileSize # 0
    BY DEF Active, Running, IInv, Shape
  <1>3. used' \in Nat /\ used <= used' /\ base' \in Nat
    BY <1>1, ConstantFacts DEF IInv, TypeOK
  <1>4. /\ IsABag(freeList') /\ DOMAIN freeList' \subseteq Block
        /\ zeros' \in Nat /\ stale' \in BOOLEAN
        /\ (Trusted => Below)' /\ SingleOwner' /\ Dumps'
    BY <1>1, <1>3, LoadStep
  <1>5. TypeOK'
    BY <1>3, <1>4 DEF IInv, TypeOK
  <1>6. Shape'
    BY <1>1 DEF Shape, Running, IInv
  <1>7. QED
    BY <1>4, <1>5, <1>6 DEF IInv

\* Popping a block: what is left is apart, and apart from the popped block.
LEMMA PopFacts ==
    ASSUME TypeOK, NEW b \in DOMAIN freeList, freeList' = freeList (-) SetToBag({b})
    PROVE  /\ IsABag(freeList') /\ DOMAIN freeList' \subseteq DOMAIN freeList
           /\ Apart(freeList) => /\ Apart(freeList)'
                                 /\ \A c \in DOMAIN freeList' : ~Overlap(b, c)
  <1>1. /\ IsABag(freeList') /\ DOMAIN freeList' \subseteq DOMAIN freeList
        /\ freeList[b] = 1 => DOMAIN freeList' = DOMAIN freeList \ {b}
        /\ \A c \in DOMAIN freeList \ {b} : c \in DOMAIN freeList' /\ freeList'[c] = freeList[c]
    BY BagPop DEF TypeOK
  <1>2. ASSUME Apart(freeList)
        PROVE  Apart(freeList)' /\ \A c \in DOMAIN freeList' : ~Overlap(b, c)
    <2>1. DOMAIN freeList' = DOMAIN freeList \ {b}
      BY <1>1, <1>2 DEF Apart
    <2>2. QED
      BY <2>1, <1>1, <1>2 DEF Apart
  <1>3. QED
    BY <1>1, <1>2

\* DoFree of a block that overlaps no free block keeps the list apart.
LEMMA DoFreeFacts ==
    ASSUME TypeOK, NEW b \in Block, DoFree(b)
    PROVE  /\ IsABag(freeList') /\ DOMAIN freeList' \subseteq Block
           /\ DOMAIN freeList' \subseteq DOMAIN freeList \cup {b}
           /\ Apart(freeList) /\ (\A c \in DOMAIN freeList : ~Overlap(b, c)) => Apart(freeList)'
  <1>1. CASE ~useFreeList
    BY <1>1 DEF DoFree, TypeOK, Apart
  <1>2. CASE useFreeList
    <2>1. freeList' = freeList (+) SetToBag({b})
      BY <1>2, BlockFits DEF DoFree
    <2>2. /\ IsABag(freeList') /\ DOMAIN freeList' = DOMAIN freeList \cup {b}
          /\ \A c \in DOMAIN freeList \ {b} : freeList'[c] = freeList[c]
          /\ b \notin DOMAIN freeList => freeList'[b] = 1
      BY <2>1, BagPush DEF TypeOK
    <2>3. ASSUME Apart(freeList), \A c \in DOMAIN freeList : ~Overlap(b, c)
          PROVE  Apart(freeList)'
      <3>1. b \notin DOMAIN freeList
        BY <2>3, OverlapFacts
      <3>2. \A c \in DOMAIN freeList : ~Overlap(c, b)
        BY <2>3, OverlapFacts DEF TypeOK
      <3>3. QED
        BY <2>2, <2>3, <3>1, <3>2 DEF Apart
    <2>4. QED
      BY <2>2, <2>3 DEF TypeOK
  <1>3. QED
    BY <1>1, <1>2

\* Handing block b to client h: it must lie below the (new) used mark and, unless the
\* pool is stale, overlap nothing that has an owner.
LEMMA GiveStep ==
    ASSUME IInv, Running, NEW h \in Handles, held[h] = None,
           NEW b \in Block, Give(h, b),
           Trusted => b.addr + b.size <= Origin + used',
           used' \in Nat, used <= used',
           fileSize' \in Nat, fileSize' = 0 => used' = 0, ~Mapped => fileSize' = used',
           IsABag(freeList'), DOMAIN freeList' \subseteq DOMAIN freeList,
           ~stale => /\ Apart(freeList)'
                     /\ \A c \in DOMAIN freeList' : ~Overlap(b, c)
                     /\ \A i \in DOMAIN pending : ~Overlap(b, pending[i].block)
                     /\ \A g \in Handles : held[g] # None => ~Overlap(b, Move(held[g], DataBegin)),
           UNCHANGED <<phase, delayUp, readOnly, useFreeList, base, zeros, pending, fl, dump,
                       full, stale, inits>>
    PROVE  IInv'
  <1> DEFINE o == Move(b, -DataBegin)
  <1>1. DataBegin \in Int /\ DataBegin = Origin + Header /\ Origin \in Nat /\ Header \in Nat
    BY DataBeginIs, OriginType, ConstantFacts DEF IInv
  <1>2. DataBegin' = DataBegin /\ Origin' = Origin
    BY DEF DataBegin, Origin
  <1>3. /\ o \in Block /\ held' = [held EXCEPT ![h] = o] /\ Move(o, DataBegin) = b
        /\ o.addr = b.addr - DataBegin /\ o.size = b.size
    <2>1. -DataBegin \in Int /\ b.addr \in Int
      BY <1>1, BlockFields
    <2>2. o \in Block /\ o.addr = b.addr + (-DataBegin) /\ o.size = b.size
      BY <2>1, MoveFacts
    <2>3. Move(o, DataBegin) = b
      BY <1>1, MoveFacts
    <2>4. held' = [held EXCEPT ![h] = o]
      BY DEF Give
    <2>5. QED
      BY <2>1, <2>2, <2>3, <2>4, <1>1
  <1>4. TypeOK'
    BY <1>3 DEF IInv, TypeOK
  <1>5. Shape'
    BY DEF IInv, Shape, Running
  <1>6. ASSUME Trusted'
        PROVE  Below'
    <2>0. Below /\ b.addr + b.size <= Origin + used' /\ (Active' <=> Active)
      BY <1>6 DEF IInv, Trusted, Active, Running
    <2>1. \A g \in Handles : held'[g] # None => held'[g].addr + held'[g].size <= used' - Header
      <3> SUFFICES ASSUME NEW g \in Handles, held'[g] # None
                   PROVE  held'[g].addr + held'[g].size <= used' - Header
        OBVIOUS
      <3>1. CASE g = h
        <4>1. held'[g] = o
          BY <1>3, <3>1 DEF IInv, TypeOK
        <4>2. QED
          BY <4>1, <2>0, <1>1, <1>3, BlockFields
      <3>2. CASE g # h
        <4>1. held'[g] = held[g] /\ held[g] \in Block
          BY <1>3, <3>2, <1>4 DEF IInv, TypeOK
        <4>2. held[g].addr + held[g].size <= used - Header /\ used \in Nat
          BY <4>1, <2>0 DEF IInv, Below, TypeOK
        <4>3. QED
          BY <4>1, <4>2, <1>1, BlockFields
      <3>3. QED
        BY <3>1, <3>2
    <2>2. \A c \in Block, m \in Int : c.addr + c.size <= used - m => c.addr + c.size <= used' - m
      BY BlockFields DEF IInv, TypeOK
    <2>3. \A c \in Block : c.addr + c.size <= Origin + used => c.addr + c.size <= Origin + used'
      BY BlockFields, <1>1 DEF IInv, TypeOK
    <2>4. \A i \in DOMAIN pending : pending[i].block \in Block
      BY PendingType DEF IInv
    <2>5. /\ TypeOK
          /\ \A i \in DOMAIN fl.list : fl.list[i] # None => fl.list[i] \in Block
      BY FileType DEF IInv
    <2>6. QED
      BY <2>0, <2>1, <2>2, <2>3, <2>4, <2>5, <1>1, <1>2 DEF TypeOK, Below
  <1>7. ASSUME ~stale
        PROVE  SingleOwner'
    <2>1. HeldApart'
      <3> SUFFICES ASSUME NEW f \in Handles, NEW g \in Handles, f # g,
                          held'[f] # None, held'[g] # None
                   PROVE  ~Overlap(held'[f], held'[g])
        BY DEF HeldApart
      <3>1. ASSUME NEW k \in Handles, k # h, held[k] # None
            PROVE  ~Overlap(o, held[k]) /\ ~Overlap(held[k], o)
        <4>1. held[k] \in Block
          BY <3>1 DEF IInv, TypeOK
        <4>2. ~Overlap(b, Move(held[k], DataBegin))
          BY <1>7, <3>1
        <4>3. ~Overlap(o, held[k])
          <5>1. Overlap(Move(o, DataBegin), Move(held[k], DataBegin)) <=> Overlap(o, held[k])
            BY <4>1, <1>1, <1>3, MoveFacts
          <5>2. QED
            BY <5>1, <4>2, <1>3
        <4>4. QED
          BY <4>1, <4>3, <1>3, OverlapFacts
      <3>2. /\ f = h => held'[f] = o
            /\ f # h => held'[f] = held[f]
            /\ g = h => held'[g] = o
            /\ g # h => held'[g] = held[g]
        BY <1>3 DEF IInv, TypeOK
      <3>3. QED
        BY <3>1, <3>2, <1>7 DEF IInv, SingleOwner, HeldApart
    <2>2. Apart(freeList)'
      BY <1>7
    <2>3. PendingApart' /\ FreeNotPending'
      BY <1>7 DEF IInv, SingleOwner, PendingApart, FreeNotPending
    <2>4. HeldNotFree'
      <3> SUFFICES ASSUME NEW g \in Handles, held'[g] # None
                   PROVE  /\ \A c \in DOMAIN freeList' : ~Overlap(Move(held'[g], DataBegin), c)
                          /\ \A i \in DOMAIN pending :
                               ~Overlap(Move(held'[g], DataBegin), pending[i].block)
        BY <1>2 DEF HeldNotFree
      <3>1. CASE g = h
        BY <3>1, <1>3, <1>7 DEF IInv, TypeOK
      <3>2. CASE g # h
        BY <3>2, <1>3, <1>7 DEF IInv, TypeOK, SingleOwner, HeldNotFree
      <3>3. QED
        BY <3>1, <3>2
    <2>5. QED
      BY <2>1, <2>2, <2>3, <2>4 DEF SingleOwner
  <1>8. SingleOwner'
    BY <1>7 DEF SingleOwner
  <1>9. Dumps'
    BY DEF IInv, Dumps
  <1>10. QED
    BY <1>4, <1>5, <1>6, <1>8, <1>9 DEF IInv

LEMMA AllocStep ==
    ASSUME IInv, NEW h \in Handles, NEW size \in Sizes, Alloc(h, size)
    PROVE  IInv'
  <1> USE DEF Alloc
  <1>1. Running /\ TypeOK
    BY DEF Running, IInv
  <1>2. /\ used \in Nat /\ fileSize \in Nat /\ (~Mapped => fileSize = used)
        /\ (fileSize = 0 => used = 0)
        /\ IsABag(freeList) /\ DOMAIN freeList \subseteq Block
        /\ Origin \in Nat /\ base \in Nat /\ size \in Nat /\ size > 0
    BY OriginType, SizesPositive DEF IInv, TypeOK, Shape
  <1>3. CASE useFreeList /\ Fit(size) # {}
    <2>1. PICK b \in DOMAIN freeList : freeList' = freeList (-) SetToBag({b}) /\ Give(h, b)
      BY <1>3 DEF AllocFromFreeList
    <2>2. b \in Block /\ (Trusted => b.addr + b.size <= Origin + used)
      BY <1>1, <1>2 DEF IInv, Below, Active
    <2>3. UNCHANGED <<fileSize, used>>
      BY <1>3 DEF AllocFromFreeList
    <2>4. /\ IsABag(freeList') /\ DOMAIN freeList' \subseteq DOMAIN freeList
          /\ Apart(freeList) => Apart(freeList)' /\ \A c \in DOMAIN freeList' : ~Overlap(b, c)
      BY <1>1, <2>1, PopFacts
    <2>5. ASSUME ~stale
          PROVE  /\ Apart(freeList)' /\ \A c \in DOMAIN freeList' : ~Overlap(b, c)
                 /\ \A i \in DOMAIN pending : ~Overlap(b, pending[i].block)
                 /\ \A g \in Handles : held[g] # None => ~Overlap(b, Move(held[g], DataBegin))
      <3>1. Apart(freeList) /\ FreeNotPending /\ HeldNotFree
        BY <1>1, <2>5 DEF IInv, SingleOwner
      <3>2. \A i \in DOMAIN pending : ~Overlap(b, pending[i].block)
        BY <3>1, <2>2, <1>1, PendingType, OverlapFacts DEF FreeNotPending
      <3>3. ASSUME NEW g \in Handles, held[g] # None
            PROVE  ~Overlap(b, Move(held[g], DataBegin))
        <4>1. held[g] \in Block /\ DataBegin \in Int
          BY <3>3, OriginType DEF IInv, TypeOK
        <4>2. Move(held[g], DataBegin) \in Block
          BY <4>1, MoveFacts
        <4>3. ~Overlap(Move(held[g], DataBegin), b)
          BY <3>1, <3>3 DEF HeldNotFree
        <4>4. QED
          BY <4>2, <4>3, <2>2, OverlapFacts
      <3>4. QED
        BY <3>1, <3>2, <3>3, <2>4
    <2>6. /\ (Trusted => b.addr + b.size <= Origin + used') /\ used' \in Nat /\ used <= used'
          /\ fileSize' \in Nat /\ (fileSize' = 0 => used' = 0) /\ (~Mapped => fileSize' = used')
      BY <1>2, <2>2, <2>3
    <2>7. UNCHANGED <<phase, delayUp, readOnly, useFreeList, base, zeros, pending, fl, dump,
                      full, stale, inits>>
      OBVIOUS
    <2>8. held[h] = None
      OBVIOUS
    <2>9. QED
      BY <1>1, <2>1, <2>2, <2>4, <2>5, <2>6, <2>7, <2>8, GiveStep
  <1>4. ASSUME NEW b \in Block, Give(h, b), b = [addr |-> Origin + used, size |-> size],
               used' = used + size, fileSize' \in Nat, fileSize' = 0 => used' = 0,
               ~Mapped => fileSize' = used', UNCHANGED <<freeList, spaceSize>>
        PROVE  IInv'
    <2>1. b.addr = Origin + used /\ b.size = size
      BY <1>4
    <2>2. b.addr + b.size <= Origin + used' /\ used' \in Nat /\ used <= used'
      BY <2>1, <1>2, <1>4
    <2>a. ~stale => Below
      BY DEF IInv, Trusted
    <2>3. ASSUME NEW c \in Block, c.addr + c.size <= Origin + used
          PROVE  ~Overlap(b, c)
      BY <2>1, <2>3, <1>2, OverlapFacts
    <2>4. ~stale => \A c \in DOMAIN freeList : ~Overlap(b, c)
      BY <2>a, <2>3, <1>1, <1>2 DEF Below, Active
    <2>5. ~stale => \A i \in DOMAIN pending : ~Overlap(b, pending[i].block)
      BY <2>a, <2>3, <1>1, PendingType DEF Below, Active
    <2>6. ASSUME ~stale, NEW g \in Handles, held[g] # None
          PROVE  ~Overlap(b, Move(held[g], DataBegin))
      <3>1. held[g] \in Block /\ held[g].addr + held[g].size <= used - Header
        BY <2>6, <2>a DEF IInv, TypeOK, Below
      <3>2. DataBegin \in Int /\ DataBegin = Origin + Header /\ Header \in Nat
        BY DataBeginIs, OriginType, ConstantFacts, <1>1
      <3>3. /\ Move(held[g], DataBegin) \in Block
            /\ Move(held[g], DataBegin).addr = held[g].addr + DataBegin
            /\ Move(held[g], DataBegin).size = held[g].size
        BY <3>1, <3>2, MoveFacts
      <3>4. Move(held[g], DataBegin).addr + Move(held[g], DataBegin).size <= Origin + used
        BY <3>1, <3>2, <3>3, <1>2, BlockFields
      <3>5. QED
        BY <3>3, <3>4, <2>3
    <2>7. ~stale => Apart(freeList)'
      BY <1>1, <1>4 DEF IInv, SingleOwner, Apart
    <2>8. QED
      BY <1>1, <1>2, <1>4, <2>2, <2>4, <2>5, <2>6, <2>7, GiveStep
  <1>5. CASE FileAllocFromStore(h, size) /\ ~(useFreeList /\ Fit(size) # {})
    <2> DEFINE b == [addr |-> fileSize, size |-> size]
    <2>1. b \in Block /\ b = [addr |-> Origin + used, size |-> size]
      BY <1>2, <1>5 DEF Block, FileAllocFromStore, Origin
    <2>2. /\ Give(h, b) /\ used' = used + size /\ fileSize' = used' /\ fileSize' \in Nat
          /\ UNCHANGED <<freeList, spaceSize>>
      BY <1>2, <1>5 DEF FileAllocFromStore
    <2>3. QED
      BY <1>4, <2>1, <2>2
  <1>6. CASE MMapAllocFromStore(h, size) /\ ~(useFreeList /\ Fit(size) # {})
    <2>1. Mapped /\ fileSize' \in Nat /\ fileSize' >= fileSize /\ UNCHANGED <<freeList, spaceSize>>
      <3>1. PICK n \in 0 .. (used + size) : fileSize' = fileSize + n * MinExpand
        BY <1>6 DEF MMapAllocFromStore
      <3>2. n \in Nat /\ n * MinExpand \in Nat
        BY <1>2, ConstantFacts
      <3>3. QED
        BY <3>1, <3>2, <1>2, <1>6 DEF MMapAllocFromStore
    <2>2. CASE used + size < fileSize'
      <3> DEFINE b == [addr |-> base + used, size |-> size]
      <3>1. b \in Block /\ b = [addr |-> Origin + used, size |-> size]
        BY <1>2, <2>1 DEF Block, Origin
      <3>2. Give(h, b) /\ used' = used + size /\ fileSize' # 0
        BY <1>2, <1>6, <2>2 DEF MMapAllocFromStore
      <3>3. QED
        BY <1>4, <2>1, <3>1, <3>2
    <2>3. CASE ~(used + size < fileSize')
      <3>1. UNCHANGED <<used, held, age, freeList>>
        BY <1>6, <2>3 DEF MMapAllocFromStore
      <3>2. TypeOK'
        BY <3>1, <2>1 DEF IInv, TypeOK
      <3>3. Shape'
        BY <3>1, <2>1, <1>2 DEF IInv, Shape, Running
      <3>4. (Trusted => Below)'
        BY <3>1 DEF IInv, Below, Active, Running, Origin, Trusted
      <3>5. SingleOwner' /\ Dumps'
        BY <3>1 DEF IInv, SingleOwner, HeldApart, Apart, PendingApart, FreeNotPending,
                    HeldNotFree, Running, DataBegin, Dumps
      <3>6. QED
        BY <3>2, <3>3, <3>4, <3>5 DEF IInv
    <2>4. QED
      BY <2>2, <2>3
  <1>7. QED
    BY <1>3, <1>5, <1>6

\* Facts about appending to and taking from the queue of delayed frees.
LEMMA AppendElement ==
    ASSUME NEW S, NEW q \in Seq(S), NEW e \in S, NEW i \in DOMAIN Append(q, e)
    PROVE  /\ Append(q, e) \in Seq(S)
           /\ i \in DOMAIN q => Append(q, e)[i] = q[i]
           /\ i \notin DOMAIN q => Append(q, e)[i] = e /\ i = Len(q) + 1
  BY AppendProperties

LEMMA TailElement ==
    ASSUME NEW S, NEW q \in Seq(S), q # <<>>, NEW i \in DOMAIN Tail(q)
    PROVE  /\ Tail(q) \in Seq(S)
           /\ i + 1 \in DOMAIN q /\ Tail(q)[i] = q[i + 1] /\ i \in Nat /\ i > 0
  BY HeadTailProperties

\* The block a client gives back: where it lies and what it does not overlap.
LEMMA FreedBlock ==
    ASSUME IInv, Running, NEW h \in Handles, held[h] # None
    PROVE  LET b == Move(held[h], DataBegin)
           IN  /\ b \in Block
               /\ Trusted => b.addr + b.size <= Origin + used
               /\ ~stale => /\ \A c \in DOMAIN freeList : ~Overlap(b, c)
                            /\ \A i \in DOMAIN pending : ~Overlap(b, pending[i].block)
                            /\ \A g \in Handles : g # h /\ held[g] # None
                                 => ~Overlap(b, Move(held[g], DataBegin))
  <1> DEFINE b == Move(held[h], DataBegin)
  <1>1. held[h] \in Block /\ (Trusted => held[h].addr + held[h].size <= used - Header)
    BY DEF IInv, TypeOK, Below
  <1>2. /\ DataBegin \in Int /\ DataBegin = Origin + Header
        /\ Header \in Nat /\ Origin \in Nat /\ used \in Nat
    BY DataBeginIs, OriginType, ConstantFacts DEF IInv, TypeOK
  <1>3. b \in Block /\ b.addr = held[h].addr + DataBegin /\ b.size = held[h].size
    BY <1>1, <1>2, MoveFacts
  <1>4. Trusted => b.addr + b.size <= Origin + used
    BY <1>1, <1>2, <1>3, BlockFields
  <1>5. ASSUME ~stale
        PROVE  /\ \A c \in DOMAIN freeList : ~Overlap(b, c)
               /\ \A i \in DOMAIN pending : ~Overlap(b, pending[i].block)
    BY <1>5 DEF IInv, SingleOwner, HeldNotFree
  <1>6. ASSUME ~stale, NEW g \in Handles, g # h, held[g] # None
        PROVE  ~Overlap(b, Move(held[g], DataBegin))
    <2>1. held[g] \in Block /\ ~Overlap(held[h], held[g])
      BY <1>6 DEF IInv, TypeOK, SingleOwner, HeldApart
    <2>2. QED
      BY <2>1, <1>1, <1>2, MoveFacts
  <1>7. QED
    BY <1>3, <1>4, <1>5, <1>6

LEMMA FreeStep == ASSUME IInv, NEW h \in Handles, Free(h) PROVE IInv'
  <1> USE DEF Free
  <1> DEFINE b == Move(held[h], DataBegin)
             Task == [block : Block, wait : 0 .. ReuseTimegap]
             t == [block |-> b, wait |-> ReuseTimegap]
  <1>1. Running /\ Running' /\ Active /\ Active' /\ TypeOK /\ (Trusted' <=> Trusted)
    BY DEF Running, IInv, Active, Trusted
  <1>2. /\ b \in Block /\ (Trusted => b.addr + b.size <= Origin + used)
        /\ ~stale => /\ \A c \in DOMAIN freeList : ~Overlap(b, c)
                     /\ \A i \in DOMAIN pending : ~Overlap(b, pending[i].block)
    BY <1>1, FreedBlock
  <1>3. t \in Task
    BY <1>2, ConstantFacts
  <1>4. /\ DataBegin' = DataBegin /\ Origin' = Origin
        /\ held' \in [Handles -> Block \cup {None}]
        /\ \A g \in Handles : held'[g] # None => g # h /\ held'[g] = held[g]
    BY DEF DataBegin, Origin, IInv, TypeOK
  <1>5. HeldApart => HeldApart'
    BY <1>4 DEF HeldApart
  <1>6. Shape'
    BY <1>1 DEF IInv, Shape
  <1>7. Dumps'
    BY DEF IInv, Dumps
  <1>8. CASE DoFree(b) /\ UNCHANGED pending
    <2>1. /\ IsABag(freeList') /\ DOMAIN freeList' \subseteq Block
          /\ DOMAIN freeList' \subseteq DOMAIN freeList \cup {b}
          /\ Apart(freeList) /\ (\A c \in DOMAIN freeList : ~Overlap(b, c)) => Apart(freeList)'
      BY <1>1, <1>2, <1>8, DoFreeFacts
    <2>2. TypeOK'
      BY <2>1, <1>4, <1>8 DEF IInv, TypeOK
    <2>3. (Trusted => Below)'
      BY <2>1, <1>1, <1>2, <1>4, <1>8 DEF IInv, Below
    <2>4. ASSUME ~stale
          PROVE  SingleOwner'
      <3>1. Apart(freeList)' /\ PendingApart'
        BY <2>1, <1>1, <1>2, <1>8, <2>4 DEF IInv, SingleOwner, PendingApart
      <3>2. FreeNotPending'
        <4>1. \A i \in DOMAIN pending : ~Overlap(pending[i].block, b)
          BY <1>1, <1>2, <2>4, PendingType, OverlapFacts
        <4>2. QED
          BY <4>1, <2>1, <1>1, <1>8, <2>4 DEF IInv, SingleOwner, FreeNotPending
      <3>3. HeldNotFree'
        <4>1. ASSUME NEW g \in Handles, g # h, held[g] # None
              PROVE  ~Overlap(Move(held[g], DataBegin), b)
          <5>1. ~Overlap(b, Move(held[g], DataBegin)) /\ Move(held[g], DataBegin) \in Block
            BY <1>1, <2>4, <4>1, FreedBlock
          <5>2. QED
            BY <5>1, <1>2, OverlapFacts
        <4>2. QED
          BY <4>1, <2>1, <1>1, <1>4, <1>8, <2>4 DEF IInv, SingleOwner, HeldNotFree
      <3>4. QED
        BY <3>1, <3>2, <3>3, <1>5, <2>4 DEF IInv, SingleOwner
    <2>5. SingleOwner'
      BY <2>4 DEF SingleOwner
    <2>6. QED
      BY <2>2, <2>3, <2>5, <1>6, <1>7 DEF IInv
  <1>9. CASE pending' = Append(pending, t) /\ UNCHANGED freeList
    <2>1. pending \in Seq(Task) /\ pending' \in Seq(Task)
      BY <1>3, <1>9 DEF IInv, TypeOK
    <2>2. \A i \in DOMAIN pending' : \/ i \in DOMAIN pending /\ pending'[i] = pending[i]
                                     \/ i = Len(pending) + 1 /\ pending'[i] = t
      BY <2>1, <1>3, <1>9, AppendElement
    <2>3. t.block = b
      OBVIOUS
    <2>4. TypeOK'
      BY <2>1, <1>4, <1>9 DEF IInv, TypeOK
    <2>5. (Trusted => Below)'
      BY <2>2, <2>3, <1>1, <1>2, <1>4, <1>9 DEF IInv, Below
    <2>6. ASSUME ~stale
          PROVE  SingleOwner'
      <3>1. Apart(freeList)'
        BY <1>1, <1>9, <2>6 DEF IInv, SingleOwner, Apart
      <3>2. \A i \in DOMAIN pending : ~Overlap(pending[i].block, b)
        BY <1>1, <1>2, <2>6, PendingType, OverlapFacts
      <3>3. PendingApart'
        BY <3>2, <2>2, <2>3, <1>1, <1>2, <2>6 DEF IInv, SingleOwner, PendingApart
      <3>4. FreeNotPending'
        BY <2>2, <2>3, <1>1, <1>2, <1>9, <2>6 DEF IInv, SingleOwner, FreeNotPending
      <3>5. HeldNotFree'
        <4>1. ASSUME NEW g \in Handles, g # h, held[g] # None
              PROVE  ~Overlap(Move(held[g], DataBegin), b)
          <5>1. ~Overlap(b, Move(held[g], DataBegin)) /\ Move(held[g], DataBegin) \in Block
            BY <1>1, <2>6, <4>1, FreedBlock
          <5>2. QED
            BY <5>1, <1>2, OverlapFacts
        <4>2. QED
          BY <4>1, <2>2, <2>3, <1>1, <1>4, <1>9, <2>6 DEF IInv, SingleOwner, HeldNotFree
      <3>6. QED
        BY <3>1, <3>3, <3>4, <3>5, <1>5, <2>6 DEF IInv, SingleOwner
    <2>7. SingleOwner'
      BY <2>6 DEF SingleOwner
    <2>8. QED
      BY <2>4, <2>5, <2>7, <1>6, <1>7 DEF IInv
  <1>10. CASE UNCHANGED <<pending, freeList>>
    <2>1. TypeOK'
      BY <1>4, <1>10 DEF IInv, TypeOK
    <2>2. (Trusted => Below)'
      BY <1>1, <1>4, <1>10 DEF IInv, Below
    <2>3. SingleOwner'
      BY <1>1, <1>4, <1>5, <1>10 DEF IInv, SingleOwner, HeldNotFree, Apart, PendingApart,
                                     FreeNotPending
    <2>4. QED
      BY <2>1, <2>2, <2>3, <1>6, <1>7 DEF IInv
  <1>11. QED
    BY <1>8, <1>9, <1>10

LEMMA DelayedFreeStep == ASSUME IInv, DelayedFree PROVE IInv'
  <1> USE DEF DelayedFree
  <1> DEFINE b == Head(pending).block
             Task == [block : Block, wait : 0 .. ReuseTimegap]
  <1>1. /\ Running' /\ Active /\ Active' /\ TypeOK /\ (Trusted' <=> Trusted)
        /\ DataBegin' = DataBegin /\ Origin' = Origin
    BY DEF Running, Active, Trusted, IInv, DataBegin, Origin
  <1>2. /\ pending \in Seq(Task) /\ pending # <<>> /\ pending' = Tail(pending)
        /\ 1 \in DOMAIN pending /\ Head(pending) = pending[1]
    BY <1>1 DEF TypeOK
  <1>3. b = pending[1].block /\ b \in Block
    BY <1>1, <1>2, PendingType
  <1>4. Trusted => b.addr + b.size <= Origin + used
    BY <1>1, <1>2, <1>3 DEF IInv, Below
  <1>5. pending' \in Seq(Task)
    BY <1>2, HeadTailProperties
  <1>6. \A i \in DOMAIN pending' :
           i + 1 \in DOMAIN pending /\ pending'[i] = pending[i + 1] /\ i \in Nat /\ i > 0
    BY <1>2, TailElement
  <1>7. /\ IsABag(freeList') /\ DOMAIN freeList' \subseteq Block
        /\ DOMAIN freeList' \subseteq DOMAIN freeList \cup {b}
        /\ Apart(freeList) /\ (\A c \in DOMAIN freeList : ~Overlap(b, c)) => Apart(freeList)'
    BY <1>1, <1>3, DoFreeFacts
  <1>8. TypeOK'
    BY <1>5, <1>7 DEF IInv, TypeOK
  <1>9. Shape'
    BY <1>1 DEF IInv, Shape
  <1>10. (Trusted => Below)'
    BY <1>1, <1>4, <1>6, <1>7 DEF IInv, Below
  <1>11. ASSUME ~stale
         PROVE  SingleOwner'
    <2>1. Apart(freeList) /\ PendingApart /\ FreeNotPending /\ HeldNotFree /\ HeldApart
      BY <1>11 DEF IInv, SingleOwner
    <2>2. \A c \in DOMAIN freeList : ~Overlap(b, c)
      BY <2>1, <1>2, <1>3 DEF FreeNotPending
    <2>3. \A i \in DOMAIN pending' : ~Overlap(pending'[i].block, b)
      BY <2>1, <1>2, <1>3, <1>6 DEF PendingApart
    <2>4. PendingApart'
      <3> SUFFICES ASSUME NEW i \in DOMAIN pending', NEW j \in DOMAIN pending', i # j
                   PROVE  ~Overlap(pending'[i].block, pending'[j].block)
        BY DEF PendingApart
      <3>1. i + 1 \in DOMAIN pending /\ j + 1 \in DOMAIN pending /\ i + 1 # j + 1
        BY <1>6
      <3>2. QED
        BY <3>1, <2>1, <1>6 DEF PendingApart
    <2>5. FreeNotPending'
      BY <2>1, <2>3, <1>6, <1>7 DEF FreeNotPending
    <2>6. HeldNotFree'
      BY <2>1, <1>1, <1>2, <1>3, <1>6, <1>7 DEF HeldNotFree
    <2>7. HeldApart'
      BY <2>1 DEF HeldApart
    <2>8. QED
      BY <2>1, <2>2, <2>4, <2>5, <2>6, <2>7, <1>7 DEF SingleOwner
  <1>12. SingleOwner' /\ Dumps'
    BY <1>11 DEF IInv, SingleOwner, Dumps
  <1>13. QED
    BY <1>8, <1>9, <1>10, <1>12 DEF IInv

LEMMA TickStep == ASSUME IInv, Tick PROVE IInv'
  <1> USE DEF Tick
  <1> DEFINE Task == [block : Block, wait : 0 .. ReuseTimegap]
  <1>1. pending \in Seq(Task)
    BY DEF IInv, TypeOK
  <1>2. /\ DOMAIN pending' = DOMAIN pending /\ Len(pending) \in Nat
        /\ DOMAIN pending = 1 .. Len(pending)
    BY <1>1
  <1>3. ASSUME NEW i \in DOMAIN pending
        PROVE  pending'[i] \in Task /\ pending'[i].block = pending[i].block
    <2>1. pending[i] \in Task
      BY <1>1, SequenceElement
    <2>2. pending'[i] = [pending[i] EXCEPT !.wait = IF @ > 0 THEN @ - 1 ELSE 0]
      OBVIOUS
    <2>3. QED
      BY <2>1, <2>2, ConstantFacts
  <1>4. pending' \in Seq(Task)
    BY <1>2, <1>3, IsASeq
  <1>5. TypeOK'
    BY <1>4 DEF IInv, TypeOK
  <1>6. Shape'
    BY <1>2 DEF IInv, Shape, Running
  <1>7. (Trusted => Below)'
    BY <1>2, <1>3 DEF IInv, Below, Active, Running, Origin, Trusted
  <1>8. SingleOwner'
    BY <1>2, <1>3 DEF IInv, SingleOwner, Running, HeldApart, Apart, PendingApart, FreeNotPending,
                      HeldNotFree, DataBegin
  <1>9. Dumps'
    BY DEF IInv, Dumps
  <1>10. QED
    BY <1>5, <1>6, <1>7, <1>8, <1>9 DEF IInv

\* Steps that touch neither blocks nor the used mark.
LEMMA QuietStep ==
    ASSUME IInv, TypeOK', Dumps', Running' => Running, Active' => Active, phase' # "sizing",
           pending' = <<>> \/ Running',
           UNCHANGED <<base, fileSize, used, freeList, pending, fl, held, stale>>
    PROVE  IInv'
  <1>1. Shape'
    BY DEF IInv, Shape
  <1>2. (Trusted => Below)'
    BY DEF IInv, Below, Origin, Trusted
  <1>3. SingleOwner'
    BY DEF IInv, SingleOwner, HeldApart, Apart, PendingApart, FreeNotPending, HeldNotFree, DataBegin
  <1>4. QED
    BY <1>1, <1>2, <1>3 DEF IInv

LEMMA SetFreeListStep == ASSUME IInv, SetFreeList PROVE IInv'
  <1>1. TypeOK' /\ Dumps'
    BY DEF SetFreeList, IInv, TypeOK, Dumps
  <1>2. QED
    BY <1>1, QuietStep DEF SetFreeList, Running, Active

LEMMA ReleaseStep == ASSUME IInv, Release PROVE IInv'
  <1>1. TypeOK' /\ Dumps'
    BY DEF Release, IInv, TypeOK, Dumps
  <1>2. QED
    BY <1>1, QuietStep DEF Release, Running, Active

LEMMA DumpFreeListStep == ASSUME IInv, DumpFreeList PROVE IInv'
  <1>1. TypeOK' /\ Dumps'
    BY DEF DumpFreeList, IInv, TypeOK, Dumps
  <1>2. Running /\ Active /\ ~Running' /\ phase' # "sizing"
    BY DEF DumpFreeList, Running, Active
  <1>3. QED
    BY <1>1, <1>2, QuietStep DEF DumpFreeList

\* PutEntry changes one place of the .fl file, the one behind what is written.
LEMMA PutFacts ==
    ASSUME TypeOK, Dumps, NEW e \in Block \cup {None}, PutEntry(e)
    PROVE  LET n == dump.written + 1
           IN  /\ fl' \in [count : Nat, list : Seq(Block \cup {None})]
               /\ fl'.count = fl.count
               /\ Len(fl'.list) >= Len(fl.list) /\ n <= Len(fl'.list)
               /\ n \in DOMAIN fl'.list /\ fl'.list[n] = e
               /\ \A i \in DOMAIN fl'.list : i # n => i \in DOMAIN fl.list /\ fl'.list[i] = fl.list[i]
               /\ \A i \in DOMAIN fl.list : i \in DOMAIN fl'.list
  <1> DEFINE n == dump.written + 1
             q == fl.list
             S == Block \cup {None}
  <1>1. /\ q \in Seq(S) /\ Len(q) \in Nat /\ DOMAIN q = 1 .. Len(q) /\ n \in Nat /\ n > 0
        /\ n <= Len(q) + 1 /\ fl.count \in Nat
        /\ fl = [count |-> fl.count, list |-> q]
    BY FileType DEF Dumps
  <1>2. CASE n <= Len(q)
    <2> DEFINE z == [q EXCEPT ![n] = e]
    <2>1. /\ z \in Seq(S) /\ Len(z) = Len(q) /\ DOMAIN z = DOMAIN q
          /\ z[n] = e /\ \A i \in DOMAIN q : i # n => z[i] = q[i]
      BY <1>1, <1>2, ExceptSeq
    <2>2. fl' = [count |-> fl.count, list |-> z]
      BY <1>1, <1>2 DEF PutEntry
    <2>3. fl'.count = fl.count /\ fl'.list = z
      BY <2>2
    <2> HIDE DEF z
    <2>4. QED
      BY <2>1, <2>2, <2>3, <1>1, <1>2
  <1>3. CASE ~(n <= Len(q))
    <2> DEFINE z == Append(q, e)
    <2>0. n = Len(q) + 1
      BY <1>1, <1>3
    <2>1. /\ z \in Seq(S) /\ Len(z) = Len(q) + 1 /\ DOMAIN z = 1 .. Len(q) + 1
          /\ z[Len(q) + 1] = e /\ \A i \in DOMAIN q : z[i] = q[i]
      BY <1>1, AppendProperties
    <2>2. fl' = [count |-> fl.count, list |-> z]
      BY <1>1, <1>3 DEF PutEntry
    <2>3. fl'.count = fl.count /\ fl'.list = z
      BY <2>2
    <2> HIDE DEF z
    <2>4. QED
      BY <2>0, <2>1, <2>2, <2>3, <1>1
  <1>4. QED
    BY <1>2, <1>3

\* A step of the dump or of the disk: no list is in use after it.
LEMMA OffStep ==
    ASSUME IInv, TypeOK', Dumps', ~Running', ~Active', phase' # "sizing", pending' = <<>>,
           UNCHANGED <<base, fileSize, used, held, stale>>,
           \A i \in DOMAIN fl'.list : fl'.list[i] # None =>
              i \in DOMAIN fl.list /\ fl'.list[i] = fl.list[i]
    PROVE  IInv'
  <1>1. Shape'
    BY DEF IInv, Shape
  <1>2. (Trusted => Below)'
    BY DEF IInv, Below, Trusted
  <1>3. SingleOwner'
    BY DEF IInv, SingleOwner, HeldApart
  <1>4. QED
    BY <1>1, <1>2, <1>3 DEF IInv

LEMMA DumpEntryStep == ASSUME IInv, DumpEntry PROVE IInv'
  <1> USE DEF DumpEntry
  <1> DEFINE n == dump.written + 1
  <1>1. /\ TypeOK /\ Dumps /\ ~Running' /\ ~Running /\ Active /\ Active' /\ pending = <<>>
        /\ (Trusted' <=> Trusted) /\ Origin' = Origin /\ dump.size \in Nat /\ dump.written \in Nat
    BY FileType DEF IInv, Running, Active, Shape, Trusted, Origin
  <1>2. /\ DataBegin \in Int /\ -DataBegin \in Int
        /\ DataBegin = Origin + Header /\ Origin \in Nat /\ Header \in Nat /\ used \in Nat
    BY <1>1, DataBeginIs, OriginType, ConstantFacts DEF TypeOK
  <1>3. ASSUME NEW e \in Block \cup {None}, PutEntry(e), zeros' \in Nat,
               IsABag(freeList'), DOMAIN freeList' \subseteq DOMAIN freeList,
               Trusted /\ e # None => e.addr + e.size <= used - Header,
               "full" \notin Env => e \in Block /\ zeros' = 0
        PROVE  IInv'
    <2>1. /\ fl' \in [count : Nat, list : Seq(Block \cup {None})]
          /\ fl'.count = fl.count
          /\ Len(fl'.list) >= Len(fl.list) /\ n <= Len(fl'.list)
          /\ fl'.list[n] = e
          /\ \A i \in DOMAIN fl'.list : i # n => i \in DOMAIN fl.list /\ fl'.list[i] = fl.list[i]
      BY <1>1, <1>3, PutFacts
    <2>2. dump' \in [size : Nat, written : Nat] /\ dump'.size = dump.size + 1 /\ dump'.written = n
      BY <1>1
    <2>3. TypeOK'
      BY <2>1, <2>2, <1>3 DEF IInv, TypeOK
    <2>4. Shape'
      BY <1>1 DEF IInv, Shape
    <2>5. (Trusted => Below)'
      BY <2>1, <1>1, <1>3 DEF IInv, Below
    <2>6. SingleOwner'
      BY <1>1 DEF IInv, SingleOwner, HeldApart
    <2>7. Dumps'
      <3>1. dump'.written <= Len(fl'.list)
        BY <2>1, <2>2
      <3>2. ASSUME "full" \notin Env
            PROVE  /\ full' = FALSE /\ zeros' = 0 /\ dump'.size = dump'.written
                   /\ \A i \in DOMAIN fl'.list : fl'.list[i] \in Block
        BY <2>1, <2>2, <1>1, <1>3, <3>2 DEF Dumps
      <3>3. "full" \notin Env => fl'.count <= Len(fl'.list)
        <4>1. fl.count \in Nat /\ Len(fl.list) \in Nat /\ Len(fl'.list) \in Nat
          BY <1>1, <2>1, FileType
        <4>2. QED
          BY <4>1, <2>1, <1>1 DEF Dumps
      <3>4. QED
        BY <3>1, <3>2, <3>3 DEF Dumps
    <2>8. QED
      BY <2>3, <2>4, <2>5, <2>6, <2>7 DEF IInv
  <1>4. CASE zeros > 0 /\ PutEntry(None) /\ zeros' = zeros - 1 /\ freeList' = freeList
    <2>1. zeros \in Nat /\ zeros' \in Nat /\ IsABag(freeList') /\ ("full" \notin Env => FALSE)
      BY <1>1, <1>4 DEF TypeOK, Dumps
    <2>2. QED
      BY <2>1, <1>4, <1>3
  <1>5. CASE /\ zeros = 0 /\ zeros' = zeros
             /\ \E b \in DOMAIN freeList : /\ DumpedNext(b)
                                           /\ PutEntry(Move(b, -DataBegin))
                                           /\ freeList' = freeList (-) SetToBag({b})
    <2>1. PICK b \in DOMAIN freeList : /\ PutEntry(Move(b, -DataBegin))
                                       /\ freeList' = freeList (-) SetToBag({b})
      BY <1>5
    <2>2. b \in Block /\ IsABag(freeList') /\ DOMAIN freeList' \subseteq DOMAIN freeList
      BY <2>1, <1>1, PopFacts DEF TypeOK
    <2>3. /\ Move(b, -DataBegin) \in Block
          /\ Move(b, -DataBegin).addr = b.addr + (-DataBegin) /\ Move(b, -DataBegin).size = b.size
      BY <2>2, <1>2, MoveFacts
    <2>4. Trusted => b.addr + b.size <= Origin + used
      BY <1>1 DEF IInv, Below
    <2>5. Trusted => Move(b, -DataBegin).addr + Move(b, -DataBegin).size <= used - Header
      BY <2>2, <2>3, <2>4, <1>2, BlockFields
    <2>6. zeros' \in Nat
      BY <1>5
    <2>7. QED
      BY <2>1, <2>2, <2>3, <2>5, <2>6, <1>5, <1>3
  <1>6. QED
    BY <1>4, <1>5

LEMMA DumpFailsStep == ASSUME IInv, DumpFails PROVE IInv'
  <1>1. TypeOK' /\ Dumps'
    BY FileType DEF DumpFails, IInv, TypeOK, Dumps
  <1>2. pending = <<>> /\ ~Running /\ ~Running' /\ phase' # "sizing" /\ Active
    BY DEF DumpFails, Running, Active, IInv, Shape
  <1>3. QED
    BY <1>1, <1>2, QuietStep DEF DumpFails

LEMMA DumpCountStep == ASSUME IInv, DumpCount PROVE IInv'
  <1>1. /\ TypeOK /\ pending = <<>> /\ ~Running' /\ ~Active' /\ phase' # "sizing"
        /\ fl \in [count : Nat, list : Seq(Block \cup {None})] /\ dump.size \in Nat
        /\ fl = [count |-> fl.count, list |-> fl.list]
    BY FileType DEF DumpCount, Running, Active, IInv, Shape, TypeOK
  <1>2. /\ fl' \in [count : Nat, list : Seq(Block \cup {None})] /\ fl'.list = fl.list
        /\ fl'.count = fl.count \/ fl'.count = dump.size
    BY <1>1 DEF DumpCount
  <1>3. TypeOK'
    BY <1>1, <1>2 DEF DumpCount, TypeOK
  <1>4. Dumps'
    BY <1>1, <1>2, FileType DEF DumpCount, IInv, Dumps
  <1>5. QED
    BY <1>1, <1>2, <1>3, <1>4, OffStep DEF DumpCount

LEMMA DumpTruncateStep == ASSUME IInv, DumpTruncate PROVE IInv'
  <1> USE DEF DumpTruncate
  <1> DEFINE S == Block \cup {None}
             q == [i \in 1 .. fl.count |-> IF i <= Len(fl.list) THEN fl.list[i] ELSE None]
  <1>1. /\ TypeOK /\ pending = <<>> /\ ~Running' /\ ~Active' /\ phase' # "sizing"
        /\ fl.count \in Nat /\ Len(fl.list) \in Nat /\ DOMAIN fl.list = 1 .. Len(fl.list)
        /\ fl = [count |-> fl.count, list |-> fl.list]
    BY FileType DEF Running, Active, IInv, Shape
  <1>2. CASE fl' = fl
    <2>1. TypeOK' /\ Dumps'
      BY <1>2, <1>1 DEF IInv, TypeOK, Dumps
    <2>2. QED
      BY <2>1, <1>1, <1>2, OffStep
  <1>3. CASE fl' = [fl EXCEPT !.list = q]
    <2>1. fl' = [count |-> fl.count, list |-> q]
      BY <1>1, <1>3
    <2>2. \A i \in 1 .. fl.count : q[i] \in S
      BY <1>1, FileType
    <2>3. q \in Seq(S)
      BY <2>2, <1>1, IsASeq
    <2>4. /\ fl' \in [count : Nat, list : Seq(S)] /\ fl'.list = q /\ fl'.count = fl.count
          /\ DOMAIN fl'.list = 1 .. fl.count /\ Len(fl'.list) = fl.count
      BY <2>1, <2>3, <1>1
    <2>5. \A i \in DOMAIN fl'.list : fl'.list[i] # None =>
             i \in DOMAIN fl.list /\ fl'.list[i] = fl.list[i]
      BY <2>4, <1>1
    <2>6. TypeOK'
      BY <2>4, <1>1 DEF TypeOK
    <2>7. Dumps'
      <3>1. dump.written <= Len(fl'.list)
        BY <2>4, <1>1, FileType DEF IInv, Dumps
      <3>2. ASSUME "full" \notin Env
            PROVE  \A i \in DOMAIN fl'.list : fl'.list[i] \in Block
        BY <2>4, <3>2, <1>1 DEF IInv, Dumps
      <3>3. QED
        BY <3>1, <3>2, <2>4, <1>1 DEF IInv, Dumps
    <2>8. QED
      BY <2>5, <2>6, <2>7, <1>1, OffStep
  <1>4. QED
    BY <1>2, <1>3

LEMMA DiskStep == ASSUME IInv, Disk PROVE IInv'
  <1>1. TypeOK' /\ Dumps'
    BY DEF Disk, IInv, TypeOK, Dumps
  <1>2. pending = <<>> /\ ~Running /\ ~Running' /\ phase' # "sizing"
    BY DEF Disk, Running, IInv, Shape
  <1>3. QED
    BY <1>1, <1>2, QuietStep DEF Disk, Active, Running

LEMMA FreshStep == ASSUME IInv, Fresh PROVE IInv'
  <1> USE DEF Fresh
  <1>1. TypeOK'
    <2>1. IsABag(freeList') /\ DOMAIN freeList' \subseteq Block
      BY EmptyBagFacts, Zenon
    <2>2. pending' \in Seq([block : Block, wait : 0 .. ReuseTimegap])
      OBVIOUS
    <2>3. QED
      BY <2>1, <2>2 DEF IInv, TypeOK
  <1>2. Shape'
    BY DEF IInv, Shape, Running
  <1>3. (Trusted => Below)'
    BY DEF IInv, Below, Active, Running, Trusted
  <1>4. SingleOwner' /\ Dumps'
    BY FileType DEF IInv, SingleOwner, HeldApart, Running, Dumps
  <1>5. QED
    BY <1>1, <1>2, <1>3, <1>4 DEF IInv

LEMMA StutterStep == ASSUME IInv, UNCHANGED vars PROVE IInv'
  BY DEF vars, IInv, TypeOK, Shape, Below, SingleOwner, HeldApart, Apart, PendingApart,
         FreeNotPending, HeldNotFree, Running, Active, Trusted, Dumps, DataBegin, Origin

-----------------------------------------------------------------------------
(* The theorems *)

LEMMA NextIInv == IInv /\ [Next]_vars => IInv'
  <1> SUFFICES ASSUME IInv, [Next]_vars PROVE IInv'
    OBVIOUS
  <1>1. ASSUME NEW ro \in BOOLEAN, InitPool(ro) PROVE IInv'
    BY <1>1, InitPoolStep
  <1>2. CASE InitHeader
    BY <1>2, InitHeaderStep
  <1>3. ASSUME NEW h \in Handles, NEW size \in Sizes, Alloc(h, size) PROVE IInv'
    BY <1>3, AllocStep
  <1>4. ASSUME NEW h \in Handles, Free(h) PROVE IInv'
    BY <1>4, FreeStep
  <1>5. CASE DelayedFree
    BY <1>5, DelayedFreeStep
  <1>6. CASE Tick
    BY <1>6, TickStep
  <1>7. CASE SetFreeList
    BY <1>7, SetFreeListStep
  <1>8. CASE Release
    BY <1>8, ReleaseStep
  <1>9. CASE DumpFreeList \/ DumpEntry \/ DumpFails \/ DumpCount \/ DumpTruncate \/ Disk
    BY <1>9, DumpFreeListStep, DumpEntryStep, DumpFailsStep, DumpCountStep, DumpTruncateStep,
       DiskStep
  <1>10. CASE Construct \/ Destroy \/ Crash
    BY <1>10, FreshStep DEF Construct, Destroy, Crash
  <1>11. CASE UNCHANGED vars
    BY <1>11, StutterStep
  <1>12. QED
    BY <1>1, <1>2, <1>3, <1>4, <1>5, <1>6, <1>7, <1>8, <1>9, <1>10, <1>11 DEF Next

\* The inductive invariant holds in every reachable state, whatever the constants.
THEOREM Invariance == Spec => []IInv
  BY InitIInv, NextIInv, PTL DEF Spec

\* The pool's variables keep their types.
THEOREM TypeCorrect == Spec => []TypeOK
  <1>1. IInv => TypeOK
    BY DEF IInv
  <1>2. QED
    BY <1>1, Invariance, PTL

\* Memory safety of the allocator for any clients, sizes, mapping addresses and
\* interleaving, whatever dies or fails on the way: as long as no Init has loaded a list that
\* was wrong in itself, no byte has two owners.
THEOREM AllocatorSafety == Spec => []SingleOwner
  <1>1. IInv => SingleOwner
    BY DEF IInv
  <1>2. QED
    BY <1>1, Invariance, PTL

-----------------------------------------------------------------------------
(* A stale list needs a third Init *)

\* The entries of the .fl file that can be relied on: those written so far, or those it
\* counts.
Sure == IF phase = "dumping" THEN dump.written ELSE fl.count

\* Until the second Init the .fl file counts no entry before the dump is complete, and what
\* the dump has written overlaps nothing else: no other entry, no block a client holds, none
\* that is still to be written.
FirstFile ==
    /\ phase \notin {"closed", "truncating"} \/ inits = 0 => fl.count = 0
    /\ \A i \in 1 .. Sure :
          /\ \A j \in 1 .. Sure : i # j => ~Overlap(fl.list[i], fl.list[j])
          /\ \A h \in Handles : held[h] # None => ~Overlap(held[h], fl.list[i])
    /\ phase = "dumping" =>
          /\ Apart(freeList)
          /\ \A b \in DOMAIN freeList :
                /\ \A i \in 1 .. Sure : ~Overlap(fl.list[i], Move(b, -DataBegin))
                /\ \A h \in Handles : held[h] # None => ~Overlap(held[h], Move(b, -DataBegin))

Sessions ==
    /\ fileSize = 0 => inits = 0
    /\ phase = "sizing" => inits = 1
    /\ inits = 0 => phase = "closed"
    /\ inits <= 2 /\ "full" \notin Env => ~stale
    /\ inits <= 1 /\ "full" \notin Env => FirstFile

SInv == IInv /\ Sessions

\* What the steps below use of the invariant.
LEMMA SureFacts ==
    ASSUME SInv, "full" \notin Env
    PROVE  /\ fl.count \in Nat /\ dump.written \in Nat /\ dump.size = dump.written /\ Sure \in Nat
           /\ Len(fl.list) \in Nat /\ DOMAIN fl.list = 1 .. Len(fl.list)
           /\ fl.count <= Len(fl.list) /\ Sure <= Len(fl.list)
           /\ \A i \in 1 .. Len(fl.list) : fl.list[i] \in Block
           /\ ~full /\ zeros = 0 /\ (phase # "dumping" => dump.written = 0)
  BY FileType DEF SInv, IInv, Dumps, Sure

\* An Init that reads a file of the first session finds nothing wrong with it.
LEMMA LoadsWell ==
    ASSUME SInv, "full" \notin Env, FirstFile, phase \in {"closed", "sizing"},
           DataBegin' \in Int, used' \in Nat, used <= used'
    PROVE  ~Wrong(DataBegin')
  <1> DEFINE d == DataBegin'
  <1>1. /\ Sure = fl.count /\ fl.count \in Nat /\ Len(fl.list) \in Nat /\ fl.count <= Len(fl.list)
        /\ DOMAIN fl.list = 1 .. Len(fl.list)
        /\ \A i \in 1 .. Len(fl.list) : fl.list[i] \in Block
    BY SureFacts DEF Sure
  <1>2. \A i \in Listed(d) : /\ i \in 1 .. Sure /\ i \in DOMAIN fl.list
                            /\ Entry(i, d) = fl.list[i] /\ fl.list[i] \in Block
    BY <1>1, EntryFacts DEF SInv, IInv
  <1>3. \A i, j \in Listed(d) : i # j => ~Overlap(Entry(i, d), Entry(j, d))
    BY <1>2 DEF FirstFile
  <1>4. \A i \in Listed(d), h \in Handles : held[h] # None => ~Overlap(held[h], Entry(i, d))
    BY <1>2 DEF FirstFile
  <1>5. ASSUME NEW i \in Listed(d)
        PROVE  ~(Entry(i, d).addr + Entry(i, d).size + (IF Mapped THEN Reserve ELSE 0) > used')
    <2>1. fl.list[i] \in Block /\ fl.list[i] # None
      BY <1>2, NoneAssumption
    <2>2. fl.list[i].addr + fl.list[i].size <= used - Header
      BY <1>2, <2>1 DEF SInv, IInv, Trusted, Below
    <2>3. fl.list[i].addr \in Int /\ fl.list[i].size \in Int /\ Header \in Nat /\ used \in Nat
      BY <2>1, BlockFields, ConstantFacts DEF SInv, IInv, TypeOK
    <2>4. QED
      BY <2>2, <2>3, <1>2 DEF Header
  <1>6. QED
    BY <1>3, <1>4, <1>5 DEF Wrong

LEMMA DumpFreeListFirst ==
    ASSUME SInv, DumpFreeList, inits <= 1, "full" \notin Env
    PROVE  FirstFile'
  <1> USE DEF DumpFreeList
  <1>1. /\ FirstFile /\ fl.count = 0 /\ ~stale /\ Running
        /\ dump.written = 0 /\ fl.count \in Nat
    BY SureFacts DEF SInv, Sessions, Running, FirstFile, IInv, TypeOK
  <1>2. Sure' = 0
    BY <1>1 DEF Sure
  <1>3. Apart(freeList) /\ HeldNotFree
    BY <1>1 DEF SInv, IInv, SingleOwner
  <1>4. ASSUME NEW b \in DOMAIN freeList, NEW h \in Handles, held[h] # None
        PROVE  ~Overlap(held[h], Move(b, -DataBegin))
    <2>1. b \in Block /\ held[h] \in Block /\ DataBegin \in Int /\ -DataBegin \in Int
      BY <1>4, OriginType DEF SInv, IInv, TypeOK
    <2>2. ~Overlap(Move(held[h], DataBegin), b)
      BY <1>3, <1>4 DEF HeldNotFree
    <2>3. QED
      BY <2>1, <2>2, MoveFacts
  <1>5. DataBegin' = DataBegin /\ Apart(freeList)'
    BY <1>3 DEF DataBegin, Apart
  <1>6. QED
    BY <1>1, <1>2, <1>4, <1>5 DEF FirstFile

LEMMA DumpEntryFirst ==
    ASSUME SInv, DumpEntry, inits <= 1, "full" \notin Env
    PROVE  FirstFile'
  <1> USE DEF DumpEntry
  <1> DEFINE n == dump.written + 1
  <1>1. /\ FirstFile /\ phase = "dumping" /\ fl.count = 0 /\ zeros = 0 /\ TypeOK /\ Dumps
        /\ dump.written \in Nat /\ Sure = dump.written /\ Sure <= Len(fl.list)
        /\ Len(fl.list) \in Nat /\ DOMAIN fl.list = 1 .. Len(fl.list)
        /\ \A i \in 1 .. Len(fl.list) : fl.list[i] \in Block
        /\ DataBegin \in Int /\ -DataBegin \in Int /\ DataBegin' = DataBegin /\ Sure' = n
    BY SureFacts, OriginType DEF SInv, Sessions, FirstFile, IInv, Sure, DataBegin
  <1>2. PICK b \in DOMAIN freeList : /\ PutEntry(Move(b, -DataBegin))
                                     /\ freeList' = freeList (-) SetToBag({b})
    <2>1. ~(zeros > 0)
      BY <1>1
    <2>2. QED
      BY <2>1, Zenon
  <1> DEFINE e == Move(b, -DataBegin)
  <1>3. b \in Block /\ e \in Block /\ Apart(freeList)
    BY <1>1, <1>2, MoveFacts DEF TypeOK, FirstFile
  <1>4. /\ DOMAIN freeList' \subseteq DOMAIN freeList /\ Apart(freeList)'
        /\ \A c \in DOMAIN freeList' : ~Overlap(b, c)
    BY <1>1, <1>2, <1>3, PopFacts
  <1>5. /\ fl'.count = 0 /\ fl'.list[n] = e
        /\ \A i \in DOMAIN fl'.list : i # n => i \in DOMAIN fl.list /\ fl'.list[i] = fl.list[i]
        /\ \A i \in DOMAIN fl.list : i \in DOMAIN fl'.list
    BY <1>1, <1>2, <1>3, PutFacts
  <1>6. \A i \in 1 .. n :
           \/ i = n /\ fl'.list[i] = e
           \/ i \in 1 .. Sure /\ fl'.list[i] = fl.list[i] /\ fl.list[i] \in Block
    <2> SUFFICES ASSUME NEW i \in 1 .. n, i # n
                 PROVE  i \in 1 .. Sure /\ fl'.list[i] = fl.list[i] /\ fl.list[i] \in Block
      BY <1>5
    <2>1. i \in 1 .. Sure /\ i \in 1 .. Len(fl.list)
      BY <1>1
    <2>2. QED
      BY <2>1, <1>1, <1>5
  <1>7. \A i \in 1 .. Sure : ~Overlap(fl.list[i], e) /\ ~Overlap(e, fl.list[i])
    <2>1. \A i \in 1 .. Sure : ~Overlap(fl.list[i], e) /\ fl.list[i] \in Block
      BY <1>1, <1>2 DEF FirstFile
    <2>2. QED
      BY <2>1, <1>3, OverlapFacts
  <1>8. ASSUME NEW c \in DOMAIN freeList'
        PROVE  ~Overlap(e, Move(c, -DataBegin))
    <2>1. c \in Block /\ ~Overlap(b, c)
      BY <1>1, <1>4, <1>8 DEF TypeOK
    <2>2. QED
      BY <2>1, <1>1, <1>3, MoveFacts
  <1>9. \A h \in Handles : held[h] # None => ~Overlap(held[h], e)
    BY <1>1, <1>2 DEF FirstFile
  <1> HIDE DEF e, n
  <1>10. \A i \in 1 .. n :
            /\ \A j \in 1 .. n : i # j => ~Overlap(fl'.list[i], fl'.list[j])
            /\ \A h \in Handles : held[h] # None => ~Overlap(held[h], fl'.list[i])
            /\ \A c \in DOMAIN freeList' : ~Overlap(fl'.list[i], Move(c, -DataBegin))
    <2> SUFFICES ASSUME NEW i \in 1 .. n
                 PROVE  /\ \A j \in 1 .. n : i # j => ~Overlap(fl'.list[i], fl'.list[j])
                        /\ \A h \in Handles : held[h] # None => ~Overlap(held[h], fl'.list[i])
                        /\ \A c \in DOMAIN freeList' : ~Overlap(fl'.list[i], Move(c, -DataBegin))
      OBVIOUS
    <2>1. CASE i = n /\ fl'.list[i] = e
      BY <2>1, <1>6, <1>7, <1>8, <1>9
    <2>2. CASE i \in 1 .. Sure /\ fl'.list[i] = fl.list[i]
      <3>1. \A j \in 1 .. Sure : i # j => ~Overlap(fl.list[i], fl.list[j])
        BY <2>2, <1>1 DEF FirstFile
      <3>2. \A j \in 1 .. n : i # j => ~Overlap(fl'.list[i], fl'.list[j])
        BY <2>2, <3>1, <1>6, <1>7
      <3>3. \A h \in Handles : held[h] # None => ~Overlap(held[h], fl'.list[i])
        BY <2>2, <1>1 DEF FirstFile
      <3>4. \A c \in DOMAIN freeList' : ~Overlap(fl'.list[i], Move(c, -DataBegin))
        BY <2>2, <1>1, <1>4 DEF FirstFile
      <3>5. QED
        BY <3>2, <3>3, <3>4
    <2>3. QED
      BY <2>1, <2>2, <1>6
  <1>11. \A c \in DOMAIN freeList', h \in Handles :
            held[h] # None => ~Overlap(held[h], Move(c, -DataBegin))
    BY <1>1, <1>4 DEF FirstFile
  <1>12. QED
    BY <1>1, <1>4, <1>5, <1>10, <1>11 DEF FirstFile

LEMMA DumpCountFirst ==
    ASSUME SInv, DumpCount, inits <= 1, "full" \notin Env
    PROVE  FirstFile'
  <1> USE DEF DumpCount
  <1>1. /\ FirstFile /\ ~full /\ dump.size = dump.written /\ Sure = dump.written /\ inits # 0
        /\ fl = [count |-> fl.count, list |-> fl.list]
    BY SureFacts, FileType DEF SInv, IInv, Sessions, Sure
  <1>2. fl'.list = fl.list /\ fl'.count = dump.size /\ phase' = "truncating" /\ Sure' = Sure
    BY <1>1 DEF Sure
  <1>3. QED
    BY <1>1, <1>2 DEF FirstFile

LEMMA DumpTruncateFirst ==
    ASSUME SInv, DumpTruncate, inits <= 1, "full" \notin Env
    PROVE  FirstFile'
  <1> USE DEF DumpTruncate
  <1>1. /\ FirstFile /\ Sure = fl.count /\ fl.count \in Nat /\ fl.count <= Len(fl.list) /\ inits # 0
        /\ fl = [count |-> fl.count, list |-> fl.list] /\ Len(fl.list) \in Nat
    BY SureFacts, FileType DEF SInv, IInv, Sessions, Sure
  <1>2. fl'.count = fl.count /\ \A i \in 1 .. fl.count : fl'.list[i] = fl.list[i]
    BY <1>1
  <1>3. Sure' = Sure
    BY <1>1, <1>2 DEF Sure
  <1>4. QED
    BY <1>1, <1>2, <1>3 DEF FirstFile

LEMMA NextSessions == SInv /\ [Next]_vars => Sessions'
  <1> SUFFICES ASSUME SInv, [Next]_vars PROVE Sessions'
    OBVIOUS
  <1> USE DEF SInv
  <1>0. inits \in Nat /\ fileSize \in Nat /\ used \in Nat /\ fl.count \in Nat
    BY ConstantFacts, FileType DEF IInv, TypeOK
  <1>a. ASSUME phase \notin {"closed", "dumping", "truncating"},
               phase' \notin {"sizing", "closed", "dumping", "truncating"},
               fileSize # 0 => fileSize' # 0, UNCHANGED <<fl, inits, stale>>
        PROVE  Sessions'
    <2>1. ASSUME inits' <= 1, "full" \notin Env PROVE fl.count = 0 /\ Sure' = 0
      BY <1>a, <2>1, <1>0 DEF Sessions, FirstFile, Sure
    <2>2. inits <= 1 /\ "full" \notin Env => FirstFile'
      BY <2>1, <1>a DEF FirstFile
    <2>3. QED
      BY <2>2, <1>a, <1>0 DEF Sessions
  <1>1. ASSUME NEW ro \in BOOLEAN, InitPool(ro) PROVE Sessions'
    <2>0. TypeOK /\ phase = "closed" /\ inits' = inits + 1 /\ UNCHANGED <<fl, held>>
      BY <1>1 DEF InitPool, IInv
    <2>1. /\ base' \in Nat /\ used' \in Nat /\ used <= used'
          /\ \/ LoadFreeList /\ phase' = "open"
             \/ UNCHANGED stale /\ phase' = "sizing" /\ fileSize = 0
      <3>1. CASE FileInit(ro)
        BY <1>0, <2>0, <3>1, ConstantFacts DEF FileInit, IInv, Shape, TypeOK
      <3>2. CASE MMapInit(ro)
        BY <1>0, <3>2, ConstantFacts DEF MMapInit
      <3>3. QED
        BY <1>1, <3>1, <3>2 DEF InitPool
    <2>2. fileSize' # 0
      BY <1>0, <1>1, ConstantFacts DEF InitPool, FileInit, MMapInit
    <2>3. ASSUME inits <= 1, "full" \notin Env
          PROVE  ~stale' /\ (inits = 0 => FirstFile')
      <3>1. ~stale /\ FirstFile
        BY <1>0, <2>3 DEF Sessions
      <3>2. DataBegin' \in Int
        BY <2>1, ConstantFacts DEF DataBegin
      <3>3. ~Wrong(DataBegin')
        BY <2>0, <2>1, <2>3, <3>1, <3>2, LoadsWell
      <3>4. inits = 0 => fl.count = 0 /\ Sure' = 0
        BY <2>0, <2>1, <3>1 DEF FirstFile, Sure
      <3>5. inits = 0 => FirstFile'
        BY <3>4, <2>0, <2>1 DEF FirstFile
      <3>6. stale' = stale \/ stale' = (stale \/ Wrong(DataBegin'))
        BY <2>1 DEF LoadFreeList
      <3>7. ~stale'
        BY <3>1, <3>3, <3>6, Zenon
      <3>8. QED
        BY <3>5, <3>7
    <2>4. QED
      BY <2>0, <2>1, <2>2, <2>3, <1>0 DEF Sessions
  <1>2. CASE InitHeader
    <2>1. /\ phase = "sizing" /\ phase' = "open" /\ UNCHANGED <<fl, held, inits, fileSize>>
          /\ used' \in Nat /\ used <= used' /\ inits = 1 /\ LoadFreeList
      BY <1>2, ConstantFacts DEF InitHeader, IInv, Shape, Sessions
    <2>2. DataBegin' \in Int
      BY <1>2, ConstantFacts DEF InitHeader, DataBegin, IInv, TypeOK
    <2>3. ASSUME "full" \notin Env
          PROVE  ~stale' /\ FirstFile'
      <3>1. ~stale /\ FirstFile
        BY <2>1, <2>3 DEF Sessions
      <3>2. ~Wrong(DataBegin')
        BY <2>1, <2>2, <2>3, <3>1, LoadsWell
      <3>3. fl.count = 0 /\ Sure' = 0
        BY <2>1, <3>1 DEF FirstFile, Sure
      <3>4. stale' = (stale \/ Wrong(DataBegin'))
        BY <2>1 DEF LoadFreeList
      <3>5. FirstFile'
        BY <2>1, <3>1, <3>3 DEF FirstFile
      <3>6. QED
        BY <3>1, <3>2, <3>4, <3>5
    <2>4. QED
      BY <2>1, <2>3 DEF Sessions
  <1>3. ASSUME NEW h \in Handles, NEW size \in Sizes, Alloc(h, size) PROVE Sessions'
    <2>1. fileSize' \in Nat /\ (fileSize # 0 => fileSize' # 0)
      <3>1. CASE AllocFromFreeList(h, size)
        BY <3>1, <1>0 DEF AllocFromFreeList
      <3>2. CASE FileAllocFromStore(h, size)
        BY <3>2, <1>0, SizesPositive DEF FileAllocFromStore
      <3>3. CASE MMapAllocFromStore(h, size)
        <4>1. PICK n \in 0 .. (used + size) : fileSize' = fileSize + n * MinExpand
          BY <3>3 DEF MMapAllocFromStore
        <4>2. n * MinExpand \in Nat
          BY <4>1, <1>0, SizesPositive, ConstantFacts
        <4>3. QED
          BY <4>1, <4>2, <1>0
      <3>4. QED
        BY <1>3, <3>1, <3>2, <3>3 DEF Alloc
    <2>2. phase = "open" /\ UNCHANGED <<phase, fl, stale, inits>>
      BY <1>3 DEF Alloc
    <2>3. QED
      BY <2>1, <2>2, <1>a
  <1>4. ASSUME NEW h \in Handles, Free(h) PROVE Sessions'
    <2>1. phase = "open" /\ UNCHANGED <<phase, fileSize, fl, stale, inits>>
      BY <1>4 DEF Free
    <2>2. QED
      BY <2>1, <1>a
  <1>5. CASE DelayedFree \/ SetFreeList \/ Release
    <2>1. Running /\ Running' /\ UNCHANGED <<fileSize, fl, stale, inits>>
      BY <1>5 DEF DelayedFree, SetFreeList, Release, Running
    <2>2. QED
      BY <2>1, <1>a DEF Running
  <1>6. CASE Tick \/ UNCHANGED vars
    <2>1. UNCHANGED <<phase, fileSize, base, fl, dump, held, freeList, stale, inits>>
      BY <1>6 DEF Tick, vars
    <2>2. Sure' = Sure /\ (Apart(freeList) => Apart(freeList)') /\ DataBegin' = DataBegin
      BY <2>1 DEF Sure, Apart, DataBegin
    <2>3. FirstFile => FirstFile'
      BY <2>1, <2>2 DEF FirstFile
    <2>4. QED
      BY <2>1, <2>3 DEF Sessions
  <1>7. CASE DumpFreeList \/ DumpEntry \/ DumpCount \/ DumpTruncate
    <2>1. inits <= 1 /\ "full" \notin Env => FirstFile'
      BY <1>7, DumpFreeListFirst, DumpEntryFirst, DumpCountFirst, DumpTruncateFirst
    <2>2. /\ phase \notin {"closed", "sizing"} /\ phase' # "sizing"
          /\ UNCHANGED <<fileSize, inits, stale>>
      BY <1>7 DEF DumpFreeList, DumpEntry, DumpCount, DumpTruncate
    <2>3. QED
      BY <2>1, <2>2 DEF Sessions
  <1>8. CASE DumpFails \/ Disk
    <2>1. /\ "full" \in Env /\ UNCHANGED <<phase, fileSize, inits, stale>>
      BY <1>8 DEF DumpFails, Disk, IInv, Dumps
    <2>2. QED
      BY <2>1 DEF Sessions
  <1>9. CASE Construct \/ Destroy \/ Crash
    <2>1. Fresh /\ (Sure' = Sure \/ (phase = "dumping" /\ Sure' = fl.count)) /\ phase' = "closed"
      BY <1>9 DEF Construct, Destroy, Crash, Fresh, Sure
    <2>2. ASSUME inits <= 1, "full" \notin Env
          PROVE  FirstFile'
      <3>1. FirstFile /\ (phase = "dumping" => fl.count = 0)
        BY <2>2 DEF Sessions, FirstFile
      <3>2. UNCHANGED <<fl, held, inits>> /\ (inits = 0 => fl.count = 0)
        BY <2>1, <3>1 DEF Fresh, FirstFile
      <3>3. QED
        BY <2>1, <3>1, <3>2, <1>0 DEF FirstFile
    <2>3. QED
      BY <2>1, <2>2 DEF Sessions, Fresh
  <1>10. QED
    BY <1>1, <1>2, <1>3, <1>4, <1>5, <1>6, <1>7, <1>8, <1>9 DEF Next

LEMMA InitSessions == Init => SInv
  <1> SUFFICES ASSUME Init PROVE Sessions
    BY InitIInv DEF SInv
  <1>1. fl.count = 0 /\ Sure = 0 /\ phase = "closed" /\ ~stale /\ inits = 0
    BY DEF Init, Sure
  <1>2. QED
    BY <1>1 DEF Sessions, FirstFile

\* A pool whose .fl file can always be written and that is opened at most twice never owns
\* a byte twice, wherever the process died: a list can only be wrong when a third Init
\* reads a .fl file that an earlier dump left behind.
THEOREM StaleOnlyOnThirdInit == Spec => []StaleNeedsReload
  <1>1. SInv /\ [Next]_vars => SInv'
    BY NextIInv, NextSessions DEF SInv
  <1>2. SInv => StaleNeedsReload
    BY DEF SInv, Sessions, StaleNeedsReload
  <1>3. QED
    BY InitSessions, <1>1, <1>2, PTL DEF Spec

-----------------------------------------------------------------------------
(* Every block a client holds lies inside the file, behind the reserved area *)

\* No client, list or file knows of a block.
Nothing ==
    /\ \A h \in Handles : held[h] = None
    /\ \A i \in DOMAIN fl.list : fl.list[i] = None
    /\ Active => DOMAIN pending = {} /\ DOMAIN freeList = {}

\* The used mark may be ahead of the file only as long as there is nothing in it (the
\* header of a new file is written whatever its first expansion was).
Filled ==
    /\ used <= fileSize \/ Nothing
    /\ fileSize = 0 \/ phase = "sizing" \/ inits = 0 => Nothing
    /\ inits = 0 => fileSize = 0

\* In the first session nothing lies in the reserved area.
Floor == inits = 1 =>
    /\ \A h \in Handles : held[h] # None => held[h].addr >= Reserve - Header
    /\ Running => /\ used >= Reserve
                  /\ \A b \in DOMAIN freeList : b.addr >= Origin + Reserve
                  /\ \A i \in DOMAIN pending : pending[i].block.addr >= Origin + Reserve

FInv == SInv /\ Filled /\ Floor

\* What the steps below use of the invariants of FilePoolProofs.
LEMMA Known ==
    ASSUME SInv
    PROVE  /\ TypeOK /\ IInv /\ Shape
           /\ used \in Nat /\ fileSize \in Nat /\ inits \in Nat /\ Origin \in Nat /\ DataBegin \in Int
           /\ DataBegin = Origin + Header /\ Header \in Nat
           /\ DOMAIN freeList \subseteq Block
           /\ \A h \in Handles : held[h] # None => held[h] \in Block /\ held[h].addr \in Int
           /\ \A b \in DOMAIN freeList : b.addr \in Int
           /\ \A i \in DOMAIN pending : pending[i].block \in Block /\ pending[i].block.addr \in Int
  BY ConstantFacts, DataBeginIs, OriginType, PendingType, BlockFields DEF SInv, IInv, TypeOK

\* A .fl file without a block loads as an empty list.
LEMMA LoadNothing ==
    ASSUME TypeOK, \A i \in DOMAIN fl.list : fl.list[i] = None, LoadFreeList
    PROVE  DOMAIN freeList' = {}
  <1> DEFINE d == DataBegin'
  <1>1. /\ fl.count \in Nat /\ Len(fl.list) \in Nat /\ DOMAIN fl.list = 1 .. Len(fl.list)
    BY FileType
  <1>2. \A i \in 1 .. fl.count : Entry(i, d) = None
    BY <1>1 DEF Entry
  <1>3. Listed(d) = {}
    BY <1>2 DEF Listed
  <1>4. DOMAIN OnFile(d) = {}
    BY <1>3 DEF OnFile
  <1>5. QED
    BY <1>4 DEF LoadFreeList, MoveAll

LEMMA InitPoolFile ==
    ASSUME FInv, NEW ro \in BOOLEAN, InitPool(ro)
    PROVE  Filled' /\ Floor'
  <1> USE DEF InitPool
  <1>1. SInv /\ Filled /\ Sessions /\ TypeOK
    BY DEF FInv, SInv, IInv
  <1>2. /\ phase = "closed" /\ ~Active /\ ~Running /\ pending = <<>>
        /\ UNCHANGED <<held, fl, pending>> /\ inits' = inits + 1 /\ inits \in Nat
        /\ used \in Nat /\ fileSize \in Nat
    BY <1>1, Known DEF Active, Running, Shape
  <1>3. CASE FileInit(ro)
    <2>1. used' <= fileSize' /\ fileSize' # 0 /\ phase' = "open"
      BY <1>2, <1>3, ConstantFacts DEF FileInit
    <2>2. Filled'
      BY <1>2, <2>1 DEF Filled
    <2>3. ASSUME inits' = 1 PROVE Floor'
      <3>1. inits = 0 /\ Nothing /\ fileSize = 0
        BY <1>1, <1>2, <2>3 DEF Filled
      <3>2. DOMAIN freeList' = {} /\ DOMAIN pending' = {}
        BY <1>1, <1>2, <1>3, <3>1, LoadNothing DEF FileInit, Nothing
      <3>3. used' >= Reserve
        BY <1>3, <3>1, ConstantFacts DEF FileInit
      <3>4. QED
        BY <1>2, <3>1, <3>2, <3>3 DEF Floor, Nothing
    <2>4. QED
      BY <2>2, <2>3 DEF Floor
  <1>4. CASE MMapInit(ro) /\ fileSize = 0
    <2>1. Nothing /\ phase' = "sizing" /\ ~Running' /\ ~Active'
      BY <1>1, <1>4 DEF Filled, MMapInit, Running, Active
    <2>2. Nothing'
      BY <1>2, <2>1 DEF Nothing
    <2>3. Filled'
      BY <1>2, <2>2 DEF Filled
    <2>4. Floor'
      BY <2>1, <2>2 DEF Floor, Nothing
    <2>5. QED
      BY <2>3, <2>4
  <1>5. CASE MMapInit(ro) /\ fileSize # 0
    <2>1. UNCHANGED <<used, fileSize>> /\ phase' = "open" /\ LoadFreeList /\ inits # 0
      BY <1>1, <1>5 DEF MMapInit, Filled
    <2>2. Nothing => Nothing'
      BY <1>1, <1>2, <2>1, LoadNothing DEF Nothing
    <2>3. Filled'
      BY <1>1, <1>2, <1>5, <2>1, <2>2 DEF Filled
    <2>4. Floor'
      BY <1>2, <2>1 DEF Floor
    <2>5. QED
      BY <2>3, <2>4
  <1>6. QED
    BY <1>3, <1>4, <1>5

LEMMA InitHeaderFile ==
    ASSUME FInv, InitHeader
    PROVE  Filled' /\ Floor'
  <1> USE DEF InitHeader
  <1>1. Nothing /\ pending = <<>> /\ ~Running /\ fileSize # 0 /\ inits = 1 /\ TypeOK
    BY Known DEF FInv, Filled, Shape, Running, SInv, Sessions
  <1>2. DOMAIN freeList' = {} /\ DOMAIN pending' = {} /\ UNCHANGED <<held, fl>>
    BY <1>1, LoadNothing DEF Nothing
  <1>3. Nothing'
    BY <1>1, <1>2 DEF Nothing
  <1>4. used' >= Reserve
    BY ConstantFacts
  <1>5. QED
    BY <1>1, <1>2, <1>3, <1>4 DEF Filled, Floor, Nothing

LEMMA AllocFile ==
    ASSUME FInv, NEW h \in Handles, NEW size \in Sizes, Alloc(h, size)
    PROVE  Filled' /\ Floor'
  <1>1. /\ SInv /\ TypeOK /\ Filled /\ Floor /\ Sessions
        /\ phase = "open" /\ Running /\ Running' /\ Active /\ Active' /\ held[h] = None /\ inits # 0
        /\ UNCHANGED <<phase, base, pending, fl, inits>>
        /\ Origin' = Origin /\ fileSize # 0
    BY Known DEF FInv, SInv, Sessions, Alloc, Running, Active, Origin, Filled, Nothing, IInv, Shape
  <1>2. /\ used \in Nat /\ fileSize \in Nat /\ Origin \in Nat /\ Header \in Nat /\ DataBegin \in Int
        /\ DataBegin = Origin + Header /\ size \in Nat /\ size > 0
        /\ Reserve \in Nat
    BY <1>1, Known, SizesPositive, ConstantFacts
  \* What a step that gives out block b has to show.
  <1>3. ASSUME NEW b \in Block, Give(h, b), used' <= fileSize', fileSize' # 0,
               inits = 1 => b.addr >= Origin + Reserve /\ used' >= Reserve,
               DOMAIN freeList' \subseteq DOMAIN freeList
        PROVE  Filled' /\ Floor'
    <2>1. Filled'
      BY <1>1, <1>3 DEF Filled
    <2>2. Move(b, -DataBegin).addr = b.addr - DataBegin /\ b.addr \in Int
      BY <1>2, BlockFields DEF Move
    <2>3. ASSUME inits = 1, NEW g \in Handles, held'[g] # None
          PROVE  held'[g].addr >= Reserve - Header
      <3>1. CASE g = h
        <4>1. held'[g] = Move(b, -DataBegin)
          BY <1>1, <1>3, <3>1 DEF Give, TypeOK
        <4>2. QED
          BY <4>1, <1>2, <1>3, <2>2, <2>3
      <3>2. CASE g # h
        <4>1. held'[g] = held[g]
          BY <1>1, <1>3, <3>2 DEF Give, TypeOK
        <4>2. QED
          BY <4>1, <1>1, <2>3 DEF Floor
      <3>3. QED
        BY <3>1, <3>2
    <2>4. QED
      BY <1>1, <1>3, <2>1, <2>3 DEF Floor
  <1>4. CASE useFreeList /\ Fit(size) # {}
    <2>1. PICK b \in DOMAIN freeList : freeList' = freeList (-) SetToBag({b}) /\ Give(h, b)
      BY <1>4 DEF Alloc, AllocFromFreeList
    <2>2. b \in Block /\ UNCHANGED <<used, fileSize>>
      BY <1>1, <1>4, Known DEF Alloc, AllocFromFreeList
    <2>3. DOMAIN freeList' \subseteq DOMAIN freeList
      BY <1>1, <2>1, PopFacts
    <2>4. used <= fileSize
      BY <1>1, <2>1 DEF Filled, Nothing
    <2>5. inits = 1 => b.addr >= Origin + Reserve /\ used >= Reserve
      BY <1>1, <2>1 DEF Floor
    <2>6. QED
      BY <1>1, <1>3, <2>1, <2>2, <2>3, <2>4, <2>5
  <1>5. CASE FileAllocFromStore(h, size) /\ ~(useFreeList /\ Fit(size) # {})
    <2> DEFINE b == [addr |-> fileSize, size |-> size]
    <2>1. ~Mapped /\ fileSize = used /\ Origin = 0
      BY <1>1, <1>5, Known DEF FileAllocFromStore, Shape, Origin
    <2>2. /\ Give(h, b) /\ fileSize' = fileSize + size /\ used' = fileSize' /\ freeList' = freeList
          /\ b \in Block /\ b.addr = fileSize
      BY <1>2, <1>5 DEF FileAllocFromStore, Block
    <2>3. inits = 1 => used >= Reserve
      BY <1>1 DEF Floor
    <2> HIDE DEF b
    <2>4. QED
      BY <1>2, <1>3, <2>1, <2>2, <2>3
  <1>6. CASE MMapAllocFromStore(h, size) /\ ~(useFreeList /\ Fit(size) # {})
    <2>1. Mapped /\ fileSize' \in Nat /\ fileSize' >= fileSize /\ freeList' = freeList /\ Origin = base
      <3>1. PICK n \in 0 .. (used + size) : fileSize' = fileSize + n * MinExpand
        BY <1>6 DEF MMapAllocFromStore
      <3>2. n \in Nat /\ n * MinExpand \in Nat
        BY <1>2, ConstantFacts
      <3>3. QED
        BY <3>1, <3>2, <1>2, <1>6 DEF MMapAllocFromStore, Origin
    <2>2. CASE used + size < fileSize'
      <3> DEFINE b == [addr |-> base + used, size |-> size]
      <3>1. b \in Block /\ b.addr = Origin + used
        BY <1>2, <2>1 DEF Block
      <3>2. Give(h, b) /\ used' = used + size
        BY <1>6, <2>2 DEF MMapAllocFromStore
      <3>3. inits = 1 => used >= Reserve
        BY <1>1 DEF Floor
      <3> HIDE DEF b
      <3>4. QED
        BY <1>2, <1>3, <2>1, <2>2, <3>1, <3>2, <3>3
    <2>3. CASE ~(used + size < fileSize')
      <3>1. UNCHANGED <<used, held>>
        BY <1>6, <2>3 DEF MMapAllocFromStore
      <3>2. Nothing => Nothing'
        BY <1>1, <2>1, <3>1 DEF Nothing
      <3>3. Filled'
        BY <1>1, <1>2, <2>1, <3>1, <3>2 DEF Filled
      <3>4. QED
        BY <1>1, <2>1, <3>1, <3>3 DEF Floor
    <2>4. QED
      BY <2>2, <2>3
  <1>7. QED
    BY <1>4, <1>5, <1>6 DEF Alloc

\* Adding a block to the free list, or dropping it.
LEMMA DoFreeDomain ==
    ASSUME TypeOK, NEW b \in Block, DoFree(b)
    PROVE  DOMAIN freeList' \subseteq DOMAIN freeList \cup {b}
  BY DoFreeFacts

LEMMA FreeFile ==
    ASSUME FInv, NEW h \in Handles, Free(h)
    PROVE  Filled' /\ Floor'
  <1> DEFINE b == Move(held[h], DataBegin)
             t == [block |-> b, wait |-> ReuseTimegap]
  <1>1. /\ SInv /\ TypeOK /\ Filled /\ Floor
        /\ Running /\ Running' /\ held[h] # None
        /\ UNCHANGED <<phase, base, fileSize, used, fl, inits>> /\ Origin' = Origin
    BY Known DEF FInv, Free, Running, Origin
  <1>2. /\ used \in Nat /\ fileSize \in Nat /\ Origin \in Nat /\ Header \in Nat /\ DataBegin \in Int
        /\ DataBegin = Origin + Header /\ held[h] \in Block /\ Reserve \in Nat
    BY <1>1, Known, ConstantFacts
  <1>3. b \in Block /\ b.addr = held[h].addr + DataBegin
    BY <1>2, MoveFacts
  <1>4. Filled'
    BY <1>1 DEF Filled, Nothing
  <1>5. inits = 1 => b.addr >= Origin + Reserve
    BY <1>1, <1>2, <1>3, BlockFields DEF Floor
  <1>6. \A g \in Handles : held'[g] # None => held'[g] = held[g]
    BY <1>1 DEF Free, TypeOK
  <1>7. DOMAIN freeList' \subseteq DOMAIN freeList \cup {b}
    BY <1>1, <1>3, DoFreeDomain DEF Free
  <1>8. \A i \in DOMAIN pending' : (i \in DOMAIN pending /\ pending'[i] = pending[i]) \/ pending'[i] = t
    <2>1. CASE pending' = Append(pending, t)
      <3>1. pending \in Seq([block : Block, wait : 0 .. ReuseTimegap])
        BY <1>1 DEF TypeOK
      <3>2. t \in [block : Block, wait : 0 .. ReuseTimegap]
        BY <1>3, ConstantFacts
      <3> HIDE DEF t, b
      <3>3. QED
        BY <2>1, <3>1, <3>2, AppendElement
    <2>2. QED
      BY <2>1 DEF Free
  <1>9. t.block = b
    OBVIOUS
  <1> HIDE DEF t, b
  <1>10. Floor'
    BY <1>1, <1>5, <1>6, <1>7, <1>8, <1>9 DEF Floor
  <1>11. QED
    BY <1>4, <1>10

LEMMA DelayedFreeFile ==
    ASSUME FInv, DelayedFree
    PROVE  Filled' /\ Floor'
  <1> USE DEF DelayedFree
  <1>1. /\ SInv /\ TypeOK /\ Filled /\ Floor /\ Running /\ Running' /\ Active /\ Origin' = Origin
        /\ UNCHANGED <<phase, base, fileSize, used, fl, held, inits>>
        /\ pending # <<>> /\ pending' = Tail(pending)
    BY Known DEF FInv, Running, Active, Origin
  <1>2. pending \in Seq([block : Block, wait : 0 .. ReuseTimegap])
    BY <1>1 DEF TypeOK
  <1>3. 1 \in DOMAIN pending /\ Head(pending) = pending[1]
    BY <1>1, <1>2
  <1>4. pending[1].block \in Block
    BY <1>1, <1>3, Known
  <1>5. DOMAIN freeList' \subseteq DOMAIN freeList \cup {pending[1].block}
    BY <1>1, <1>3, <1>4, DoFreeDomain
  <1>6. \A i \in DOMAIN pending' : i + 1 \in DOMAIN pending /\ pending'[i] = pending[i + 1]
    BY <1>1, <1>2, TailElement
  <1>7. Filled'
    BY <1>1, <1>3 DEF Filled, Nothing
  <1>8. Floor'
    BY <1>1, <1>3, <1>5, <1>6 DEF Floor
  <1>9. QED
    BY <1>7, <1>8

LEMMA TickFile ==
    ASSUME FInv, Tick
    PROVE  Filled' /\ Floor'
  <1>1. /\ DOMAIN pending' = DOMAIN pending
        /\ \A i \in DOMAIN pending : pending'[i].block = pending[i].block
        /\ Origin' = Origin /\ (Running' <=> Running)
        /\ UNCHANGED <<phase, base, fileSize, used, freeList, fl, held, inits>>
    <2>1. \A i \in DOMAIN pending : pending[i] \in [block : Block, wait : 0 .. ReuseTimegap]
      BY Known, PendingType DEF FInv
    <2>2. QED
      BY <2>1 DEF Tick, Origin, Running
  <1>2. QED
    BY <1>1 DEF FInv, Filled, Nothing, Floor, Active

\* The steps that leave the blocks where they are.
LEMMA QuietFile ==
    ASSUME FInv, UNCHANGED <<base, fileSize, used, freeList, pending, fl, held, inits>>,
           Running' => Running, Active' => Active, phase' = "sizing" => phase = "sizing"
    PROVE  Filled' /\ Floor'
  BY DEF FInv, Filled, Nothing, Floor, Origin

\* The steps of the dump.
LEMMA DumpFile ==
    ASSUME FInv, DumpEntry \/ DumpCount \/ DumpTruncate
    PROVE  Filled' /\ Floor'
  <1>1. /\ ~Running' /\ phase' # "sizing" /\ UNCHANGED <<fileSize, used, held, inits>>
        /\ TypeOK /\ Dumps /\ SInv
    BY DEF DumpEntry, DumpCount, DumpTruncate, Running, FInv, SInv, IInv
  <1>2. ASSUME Nothing
        PROVE  Nothing'
    <2>1. CASE DumpEntry
      <3>1. DOMAIN freeList = {} /\ PutEntry(None) /\ freeList' = freeList /\ pending' = pending
            /\ Active
        BY <1>2, <2>1 DEF DumpEntry, Nothing, Active
      <3>2. \A i \in DOMAIN fl'.list : fl'.list[i] = None
        BY <1>1, <1>2, <3>1, PutFacts DEF Nothing
      <3>3. QED
        BY <1>1, <1>2, <3>1, <3>2 DEF Nothing
    <2>2. CASE DumpCount
      <3>1. ~Active' /\ fl'.list = fl.list
        BY <2>2, <1>1, FileType DEF DumpCount, Active, Running
      <3>2. QED
        BY <1>1, <1>2, <3>1 DEF Nothing
    <2>3. CASE DumpTruncate
      <3>1. /\ ~Active' /\ Len(fl.list) \in Nat /\ DOMAIN fl.list = 1 .. Len(fl.list)
            /\ fl = [count |-> fl.count, list |-> fl.list]
        BY <2>3, <1>1, FileType DEF DumpTruncate, Active, Running
      <3>2. \A i \in DOMAIN fl'.list : fl'.list[i] = None
        <4>1. CASE fl' = fl
          BY <4>1, <1>2 DEF Nothing
        <4>2. CASE fl' = [fl EXCEPT !.list = [i \in 1 .. fl.count |->
                                                IF i <= Len(@) THEN @[i] ELSE None]]
          <5>1. fl'.list = [i \in 1 .. fl.count |-> IF i <= Len(fl.list) THEN fl.list[i] ELSE None]
            BY <4>2, <3>1
          <5>2. \A i \in 1 .. fl.count : i <= Len(fl.list) => i \in DOMAIN fl.list
            BY <3>1, <1>1, FileType
          <5>3. QED
            BY <5>1, <5>2, <1>2 DEF Nothing
        <4>3. QED
          BY <2>3, <4>1, <4>2 DEF DumpTruncate
      <3>3. QED
        BY <1>1, <1>2, <3>1, <3>2 DEF Nothing
    <2>4. QED
      BY <2>1, <2>2, <2>3
  <1>3. QED
    BY <1>1, <1>2 DEF FInv, Filled, Floor

LEMMA FreshFile ==
    ASSUME FInv, Fresh
    PROVE  Filled' /\ Floor'
  BY DEF FInv, Filled, Nothing, Floor, Fresh, Active, Running

LEMMA NextFInv == FInv /\ [Next]_vars => FInv'
  <1> SUFFICES ASSUME FInv, [Next]_vars PROVE Filled' /\ Floor'
    BY NextIInv, NextSessions DEF FInv, SInv
  <1>1. ASSUME NEW ro \in BOOLEAN, InitPool(ro) PROVE Filled' /\ Floor'
    BY <1>1, InitPoolFile
  <1>2. CASE InitHeader
    BY <1>2, InitHeaderFile
  <1>3. ASSUME NEW h \in Handles, NEW size \in Sizes, Alloc(h, size) PROVE Filled' /\ Floor'
    BY <1>3, AllocFile
  <1>4. ASSUME NEW h \in Handles, Free(h) PROVE Filled' /\ Floor'
    BY <1>4, FreeFile
  <1>5. CASE DelayedFree
    BY <1>5, DelayedFreeFile
  <1>6. CASE Tick
    BY <1>6, TickFile
  <1>7. CASE SetFreeList \/ Release \/ DumpFreeList \/ DumpFails \/ Disk \/ UNCHANGED vars
    BY <1>7, QuietFile DEF SetFreeList, Release, DumpFreeList, DumpFails, Disk, vars, Running, Active
  <1>8. CASE DumpEntry \/ DumpCount \/ DumpTruncate
    BY <1>8, DumpFile
  <1>9. CASE Construct \/ Destroy \/ Crash
    BY <1>9, FreshFile DEF Construct, Destroy, Crash
  <1>10. QED
    BY <1>1, <1>2, <1>3, <1>4, <1>5, <1>6, <1>7, <1>8, <1>9 DEF Next

LEMMA InitFInv == Init => FInv
  <1> SUFFICES ASSUME Init PROVE FInv
    OBVIOUS
  <1>1. DOMAIN fl.list = {} /\ inits = 0 /\ fileSize = 0 /\ used = 0 /\ phase = "closed"
        /\ \A h \in Handles : held[h] = None
    BY DEF Init
  <1>2. SInv
    BY InitSessions
  <1>3. QED
    BY <1>1, <1>2 DEF FInv, Filled, Nothing, Floor, Active, Running

\* Every block a client holds lies inside the file, for any sizes, expansion step, mapping
\* address and interleaving, over reloads and crashes, wrong lists included that no failing
\* write has had a part in; and behind the reserved area unless the file was opened again
\* (AllocFromStore, Init).
THEOREM HeldInFile == Spec => []BlocksInFile
  <1>1. FInv => BlocksInFile
    <2> SUFFICES ASSUME FInv, Running, Trusted, NEW h \in Handles, held[h] # None
                 PROVE  /\ held[h].addr + Header + held[h].size <= fileSize
                        /\ held[h].addr + Header < Reserve => inits > 1
      BY DEF BlocksInFile, Move, Header, Trusted
    <2>1. held[h].addr + held[h].size <= used - Header /\ used <= fileSize /\ inits # 0
      BY DEF FInv, SInv, IInv, Below, Filled, Nothing, Sessions, Running
    <2>2. inits = 1 => held[h].addr >= Reserve - Header
      BY DEF FInv, Floor
    <2>3. /\ held[h].addr \in Int /\ held[h].size \in Int /\ used \in Nat /\ fileSize \in Nat
          /\ inits \in Nat /\ Header \in Nat /\ Reserve \in Nat
      BY Known, BlockFields, ConstantFacts DEF FInv
    <2>4. QED
      BY <2>1, <2>2, <2>3
  <1>2. QED
    BY InitFInv, NextFInv, <1>1, PTL DEF Spec

-----------------------------------------------------------------------------
(* A block goes to a new owner only when its time gap is over *)

\* The offset of a block, by which ages are kept.
Offset(b) == Move(b, -DataBegin)

\* A block at this offset has not been freed in this process, or long enough ago.
Old(c) == c \in DOMAIN age => age[c] = ReuseTimegap

\* What has an age has been below the used mark.
Ages == \A c \in DOMAIN age :
    /\ c \in Block
    /\ age[c] \in 0 .. ReuseTimegap
    /\ c.addr + c.size <= used - Header

\* A waiting block still has to wait for what is left of its gap, a free one is old,
\* and so is what the first dump has written.
Rested ==
    /\ inits <= 2 /\ Active =>
          /\ \A b \in DOMAIN freeList : Old(Offset(b))
          /\ \A i \in DOMAIN pending :
                LET c == Offset(pending[i].block)
                IN  c \in DOMAIN age => age[c] + pending[i].wait >= ReuseTimegap
    /\ inits <= 1 => \A i \in 1 .. Sure : Old(fl.list[i])

RInv == SInv /\ ("full" \notin Env => Ages /\ Rested)

\* What the steps below use of the invariants of FilePoolProofs.
LEMMA Facts ==
    ASSUME SInv, "full" \notin Env
    PROVE  /\ TypeOK /\ IInv /\ Shape /\ Below /\ Sessions
           /\ used \in Nat /\ fileSize \in Nat /\ inits \in Nat /\ Origin \in Nat /\ DataBegin \in Int
           /\ DataBegin = Origin + Header /\ Header \in Nat /\ ReuseTimegap \in Nat
           /\ DOMAIN freeList \subseteq Block
           /\ \A h \in Handles : held[h] # None => held[h] \in Block
           /\ \A i \in DOMAIN pending : /\ pending[i] \in [block : Block, wait : 0 .. ReuseTimegap]
                                        /\ pending[i].block \in Block /\ pending[i].wait \in Nat
           /\ pending \in Seq([block : Block, wait : 0 .. ReuseTimegap])
  <1>1. TypeOK /\ IInv /\ Shape /\ Below /\ Sessions
    BY DEF SInv, IInv, Trusted
  <1>2. \A i \in DOMAIN pending : pending[i] \in [block : Block, wait : 0 .. ReuseTimegap]
    BY <1>1, PendingType
  <1>3. QED
    BY <1>1, <1>2, ConstantFacts, DataBeginIs, OriginType DEF TypeOK

\* Loading a list of old blocks.
LEMMA LoadRested ==
    ASSUME SInv, Rested, "full" \notin Env, inits <= 1, phase \in {"closed", "sizing"},
           LoadFreeList, UNCHANGED age, DataBegin' \in Int
    PROVE  \A b \in DOMAIN freeList' : Old(Offset(b))'
  <1> SUFFICES ASSUME NEW b \in DOMAIN freeList' PROVE Old(Offset(b))'
    OBVIOUS
  <1> DEFINE d == DataBegin'
  <1>1. freeList' = MoveAll(OnFile(d), d)
    BY DEF LoadFreeList
  <1>2. d \in Int /\ TypeOK
    BY Facts
  <1>3. DOMAIN MoveAll(OnFile(d), d) = {Move(c, d) : c \in DOMAIN OnFile(d)}
    BY DEF MoveAll
  <1>4. PICK c \in DOMAIN OnFile(d) : b = Move(c, d)
    BY <1>1, <1>3
  <1>5. PICK i \in Listed(d) : c = Entry(i, d)
    BY <1>2, <1>4, OnFileFacts
  <1>6. i \in 1 .. Sure /\ c = fl.list[i] /\ c \in Block
    <2>1. Sure = fl.count /\ fl.count <= Len(fl.list) /\ fl.count \in Nat /\ Len(fl.list) \in Nat
      BY SureFacts DEF Sure
    <2>2. QED
      BY <2>1, <1>2, <1>5, EntryFacts
  <1>7. Move(Move(c, d), -d) = c
    BY <1>2, <1>6, MoveFacts
  <1>8. Old(c)
    BY <1>6 DEF Rested
  <1>9. Offset(b)' = c
    BY <1>4, <1>7 DEF Offset
  <1>10. QED
    BY <1>8, <1>9 DEF Old

LEMMA InitPoolRested ==
    ASSUME RInv, "full" \notin Env, NEW ro \in BOOLEAN, InitPool(ro)
    PROVE  Ages' /\ Rested'
  <1>1. /\ SInv /\ Ages /\ Rested /\ phase = "closed" /\ pending' = <<>> /\ inits' = inits + 1
        /\ UNCHANGED <<age, fl>> /\ inits \in Nat /\ used \in Nat /\ fileSize \in Nat
        /\ Sure' = Sure /\ (Active' => Running')
    <2>1. phase = "closed" /\ (FileInit(ro) \/ MMapInit(ro))
      BY DEF InitPool
    <2>2. phase' \in {"open", "sizing"}
      BY <2>1 DEF FileInit, MMapInit
    <2>3. QED
      BY <2>1, <2>2, Facts DEF RInv, InitPool, Shape, Running, Active, Sure
  <1>2. used' \in Nat /\ used' >= used
    BY <1>1, Facts, ConstantFacts DEF InitPool, FileInit, MMapInit, Shape
  <1>3. Header' = Header
    BY DEF Header
  <1>4. Ages'
    BY <1>1, <1>2, <1>3, Facts, BlockFields DEF Ages
  <1>5. DataBegin' \in Int
    <2>1. base' \in Nat
      BY <1>1, Facts, ConstantFacts DEF InitPool, FileInit, MMapInit, TypeOK
    <2>2. QED
      BY <2>1, ConstantFacts DEF DataBegin
  <1>6. ASSUME inits' <= 2, Active' PROVE \A b \in DOMAIN freeList' : Old(Offset(b))'
    <2>1. LoadFreeList
      BY <1>1, <1>6 DEF InitPool, FileInit, MMapInit, Running
    <2>2. QED
      BY <1>1, <1>5, <1>6, <2>1, LoadRested
  <1>7. inits' <= 1 => \A i \in 1 .. Sure' : Old(fl.list[i])'
    BY <1>1 DEF Rested, Old
  <1>8. DOMAIN pending' = {}
    BY <1>1
  <1>9. QED
    BY <1>1, <1>4, <1>6, <1>7, <1>8 DEF Rested

LEMMA InitHeaderRested ==
    ASSUME RInv, "full" \notin Env, InitHeader
    PROVE  Ages' /\ Rested'
  <1>1. /\ SInv /\ Ages /\ Rested /\ phase = "sizing" /\ pending' = <<>> /\ used = 0 /\ inits = 1
        /\ UNCHANGED <<age, fl, inits, base>> /\ LoadFreeList /\ used' = Reserve /\ Sure' = Sure
    BY Facts DEF RInv, InitHeader, Shape, Running, Sessions, Sure
  <1>2. Header' = Header /\ Header \in Nat /\ Reserve \in Nat /\ DataBegin' = DataBegin
        /\ DataBegin \in Int
    BY <1>1, Facts, ConstantFacts DEF Header, DataBegin
  <1>3. Ages'
    BY <1>1, <1>2, BlockFields DEF Ages
  <1>4. \A b \in DOMAIN freeList' : Old(Offset(b))'
    BY <1>1, <1>2, LoadRested
  <1>5. DOMAIN pending' = {}
    BY <1>1
  <1>6. QED
    BY <1>1, <1>3, <1>4, <1>5 DEF Rested, Old

\* What a step that gives out a block does to the ages.
LEMMA GiveRested ==
    ASSUME RInv, "full" \notin Env, NEW h \in Handles, NEW b \in Block, Give(h, b), Running,
           UNCHANGED <<phase, base, pending, fl, dump, inits>>, used' \in Nat, used' >= used,
           DOMAIN freeList' \subseteq DOMAIN freeList
    PROVE  Ages' /\ Rested'
  <1>1. /\ SInv /\ Ages /\ Rested /\ DataBegin' = DataBegin /\ Header' = Header
        /\ Sure' = Sure /\ Active /\ Active'
    BY DEF RInv, DataBegin, Header, Sure, Active, Running
  <1>2. DOMAIN age' \subseteq DOMAIN age /\ \A c \in DOMAIN age' : age'[c] = age[c]
    BY DEF Give
  <1>3. Ages'
    <2>1. ASSUME NEW c \in DOMAIN age'
          PROVE  c \in Block /\ age'[c] \in 0 .. ReuseTimegap /\ c.addr + c.size <= used' - Header
      BY <1>1, <1>2, Facts, BlockFields DEF Ages
    <2>2. QED
      BY <1>1, <2>1 DEF Ages
  <1>4. \A c : Old(c) => Old(c)'
    BY <1>2 DEF Old
  <1>5. \A c : Offset(c)' = Offset(c)
    BY <1>1 DEF Offset
  <1>6. QED
    BY <1>1, <1>2, <1>3, <1>4, <1>5 DEF Rested, Running

LEMMA AllocRested ==
    ASSUME RInv, "full" \notin Env, NEW h \in Handles, NEW size \in Sizes, Alloc(h, size)
    PROVE  /\ Ages' /\ Rested'
           /\ held'[h] # None /\ held'[h] \in DOMAIN age /\ inits <= 2
                 => age[held'[h]] = ReuseTimegap
  <1>1. /\ SInv /\ Ages /\ Rested /\ TypeOK /\ phase = "open" /\ Running /\ held[h] = None
        /\ UNCHANGED <<phase, base, pending, fl, dump, inits>> /\ Active
        /\ used \in Nat /\ fileSize \in Nat /\ size \in Nat /\ size > 0
        /\ DataBegin = Origin + Header /\ Header \in Nat /\ Origin \in Nat /\ DataBegin \in Int
    BY Facts, SizesPositive DEF RInv, Alloc, Running, Active
  <1>2. \A b : Give(h, b) => held'[h] = Offset(b)
    BY <1>1 DEF Give, Offset, TypeOK
  <1>3. CASE useFreeList /\ Fit(size) # {}
    <2>1. PICK b \in DOMAIN freeList : freeList' = freeList (-) SetToBag({b}) /\ Give(h, b)
      BY <1>3 DEF Alloc, AllocFromFreeList
    <2>2. b \in Block /\ used' = used
      BY <1>1, <1>3, Facts DEF Alloc, AllocFromFreeList
    <2>3. DOMAIN freeList' \subseteq DOMAIN freeList
      BY <1>1, <2>1, PopFacts
    <2>a. used' \in Nat /\ used' >= used /\ Give(h, b) /\ b \in Block
      BY <1>1, <2>1, <2>2
    <2>b. Running /\ UNCHANGED <<phase, base, pending, fl, dump, inits>>
      BY <1>1
    <2>4. Ages' /\ Rested'
      BY <2>a, <2>b, <2>3, GiveRested
    <2>5. inits <= 2 => Old(Offset(b))
      BY <1>1 DEF Rested
    <2>6. QED
      BY <1>2, <2>1, <2>4, <2>5 DEF Old
  \* A block from the store begins where nothing has been.
  <1>4. ASSUME NEW b \in Block, Give(h, b), b.addr = Origin + used, used' \in Nat, used' >= used,
               freeList' = freeList
        PROVE  Ages' /\ Rested' /\ held'[h] \notin DOMAIN age
    <2>1. Ages' /\ Rested'
      BY <1>1, <1>4, GiveRested
    <2>2. Offset(b).addr = used - Header /\ Offset(b).size > 0 /\ Offset(b).size \in Int
      BY <1>1, <1>4, BlockFields DEF Offset, Move
    <2>3. Offset(b) \notin DOMAIN age
      BY <1>1, <2>2 DEF Ages
    <2>4. QED
      BY <1>2, <1>4, <2>1, <2>3
  <1>5. CASE FileAllocFromStore(h, size) /\ ~(useFreeList /\ Fit(size) # {})
    <2> DEFINE b == [addr |-> fileSize, size |-> size]
    <2>1. ~Mapped /\ fileSize = used /\ Origin = 0
      BY <1>1, <1>5, Facts DEF FileAllocFromStore, Shape, Origin
    <2>2. Give(h, b) /\ used' = fileSize + size /\ freeList' = freeList
          /\ b \in Block /\ b.addr = fileSize
      BY <1>1, <1>5 DEF FileAllocFromStore, Block
    <2> HIDE DEF b
    <2>3. b.addr = Origin + used /\ used' \in Nat /\ used' >= used
      BY <1>1, <2>1, <2>2
    <2>4. QED
      BY <1>4, <2>2, <2>3
  <1>6. CASE MMapAllocFromStore(h, size) /\ ~(useFreeList /\ Fit(size) # {})
    <2>1. Mapped /\ freeList' = freeList /\ Origin = base
      BY <1>6 DEF MMapAllocFromStore, Origin
    <2>2. CASE used + size < fileSize'
      <3> DEFINE b == [addr |-> base + used, size |-> size]
      <3>1. b \in Block /\ b.addr = Origin + used
        BY <1>1, <2>1 DEF Block
      <3>2. Give(h, b) /\ used' = used + size
        BY <1>6, <2>2 DEF MMapAllocFromStore
      <3> HIDE DEF b
      <3>3. used' \in Nat /\ used' >= used
        BY <1>1, <3>2
      <3>4. QED
        BY <1>4, <2>1, <3>1, <3>2, <3>3
    <2>3. CASE ~(used + size < fileSize')
      <3>1. UNCHANGED <<used, held, age>>
        BY <1>6, <2>3 DEF MMapAllocFromStore
      <3>a. Sure' = Sure /\ (Active' <=> Active) /\ DataBegin' = DataBegin /\ Header' = Header
        BY <1>1 DEF DataBegin, Header, Running, Active, Sure
      <3>2. Ages' /\ Rested'
        BY <1>1, <2>1, <3>1, <3>a DEF Ages, Rested, Old, Offset
      <3>3. QED
        BY <1>1, <3>1, <3>2
    <2>4. QED
      BY <2>2, <2>3
  <1>7. QED
    BY <1>3, <1>4, <1>5, <1>6 DEF Alloc

\* Only the offset of a block leads to it.
LEMMA OffsetOf ==
    ASSUME DataBegin \in Int, NEW b \in Block, NEW c \in Block, Offset(c) = b
    PROVE  c = Move(b, DataBegin)
  BY MoveFacts DEF Offset

LEMMA FreeRested ==
    ASSUME RInv, "full" \notin Env, NEW h \in Handles, Free(h)
    PROVE  Ages' /\ Rested'
  <1> DEFINE b == Move(held[h], DataBegin)
             t == [block |-> b, wait |-> ReuseTimegap]
  <1>1. /\ SInv /\ IInv /\ TypeOK /\ Ages /\ Rested /\ Running /\ held[h] # None /\ held[h] \in Block
        /\ phase = "open" /\ UNCHANGED <<phase, base, used, fl, dump, inits>> /\ Active
        /\ DataBegin \in Int /\ DataBegin' = DataBegin /\ Header' = Header
        /\ ReuseTimegap \in Nat /\ used \in Nat /\ Header \in Nat /\ Below /\ Sessions
    BY Facts DEF RInv, Free, Running, Active, DataBegin, Header
  <1>2. /\ DOMAIN age' = DOMAIN age \cup {held[h]}
        /\ age'[held[h]] = 0
        /\ \A c \in DOMAIN age : c # held[h] => age'[c] = age[c]
    BY DEF Free
  <1>3. Ages'
    <2>1. held[h].addr + held[h].size <= used - Header
      BY <1>1 DEF Below
    <2>2. QED
      BY <1>1, <1>2, <2>1 DEF Ages
  <1>4. b \in Block /\ Overlap(b, b) /\ Offset(b) = held[h]
    BY <1>1, MoveFacts, OverlapFacts DEF Offset
  <1>5. ASSUME inits <= 2, NEW c \in Block, ~Overlap(b, c)
        PROVE  Offset(c) # held[h]
    BY <1>1, <1>4, <1>5, OffsetOf
  <1>6. ASSUME inits <= 2
        PROVE  /\ \A c \in DOMAIN freeList : ~Overlap(b, c)
               /\ \A i \in DOMAIN pending : ~Overlap(b, pending[i].block)
    <2>1. ~stale
      BY <1>1, <1>6 DEF Sessions
    <2>2. QED
      BY <1>1, <2>1, FreedBlock
  <1>7. \A c : Offset(c)' = Offset(c)
    BY <1>1 DEF Offset
  <1>8. inits <= 1 => Sure' = 0
    BY <1>1 DEF Sessions, FirstFile, Sure
  <1> HIDE DEF b
  <1>9. CASE ReuseTimegap = 0
    <2>1. \A c \in DOMAIN age' : age'[c] = ReuseTimegap /\ age'[c] \in Nat
      BY <1>3, <1>9 DEF Ages
    <2>2. pending' = pending
      BY <1>9 DEF Free
    <2>3. \A i \in DOMAIN pending' : pending'[i].wait \in Nat
      BY <1>1, <2>2, Facts
    <2>4. QED
      BY <1>3, <1>8, <1>9, <2>1, <2>3 DEF Rested, Old
  <1>10. CASE ReuseTimegap # 0
    <2>1. freeList' = freeList /\ (pending' = pending \/ pending' = Append(pending, t))
      BY <1>10 DEF Free, b
    <2>2. \A i \in DOMAIN pending' : (i \in DOMAIN pending /\ pending'[i] = pending[i]) \/ pending'[i] = t
      <3>1. pending \in Seq([block : Block, wait : 0 .. ReuseTimegap])
        BY <1>1 DEF TypeOK
      <3>2. t \in [block : Block, wait : 0 .. ReuseTimegap]
        BY <1>1, <1>4
      <3> HIDE DEF t
      <3>3. QED
        BY <2>1, <3>1, <3>2, AppendElement
    <2>3. ASSUME inits <= 2, NEW c \in DOMAIN freeList PROVE Old(Offset(c))'
      <3>1. Offset(c) # held[h] /\ Old(Offset(c))
        BY <1>1, <1>5, <1>6, <2>3, Facts DEF Rested
      <3>2. QED
        BY <1>2, <1>7, <3>1 DEF Old
    <2>4. ASSUME inits <= 2, NEW i \in DOMAIN pending', Offset(pending'[i].block) \in DOMAIN age'
          PROVE  age'[Offset(pending'[i].block)] + pending'[i].wait >= ReuseTimegap
      <3>1. CASE pending'[i] = t
        BY <1>1, <1>2, <1>4, <3>1
      <3>2. CASE i \in DOMAIN pending /\ pending'[i] = pending[i]
        <4>1. pending[i].block \in Block
          BY <1>1, <3>2, Facts
        <4>2. Offset(pending[i].block) # held[h]
          BY <1>5, <1>6, <2>4, <3>2, <4>1
        <4>3. QED
          BY <1>1, <1>2, <2>4, <3>2, <4>2 DEF Rested
      <3>3. QED
        BY <2>2, <3>1, <3>2
    <2>5. QED
      BY <1>1, <1>3, <1>7, <1>8, <2>1, <2>3, <2>4 DEF Rested
  <1>11. QED
    BY <1>9, <1>10

LEMMA DelayedFreeRested ==
    ASSUME RInv, "full" \notin Env, DelayedFree
    PROVE  Ages' /\ Rested'
  <1> USE DEF DelayedFree
  <1>1. /\ SInv /\ TypeOK /\ Ages /\ Rested /\ Running /\ (Running' <=> Running)
        /\ UNCHANGED <<base, used, fl, age, inits>> /\ Sure' = Sure /\ Active
        /\ DataBegin' = DataBegin /\ Header' = Header /\ ReuseTimegap \in Nat
        /\ pending # <<>> /\ pending' = Tail(pending)
        /\ pending \in Seq([block : Block, wait : 0 .. ReuseTimegap])
    BY Facts DEF RInv, Running, Active, Sure, DataBegin, Header
  <1>2. 1 \in DOMAIN pending /\ Head(pending) = pending[1] /\ pending[1].wait = 0
    BY <1>1
  <1>3. pending[1].block \in Block
    BY <1>1, <1>2, Facts
  <1>4. DOMAIN freeList' \subseteq DOMAIN freeList \cup {pending[1].block}
    BY <1>1, <1>2, <1>3, DoFreeFacts
  <1>5. \A i \in DOMAIN pending' : i + 1 \in DOMAIN pending /\ pending'[i] = pending[i + 1]
    BY <1>1, TailElement
  <1>6. Ages'
    BY <1>1 DEF Ages
  <1>7. inits <= 2 => Old(Offset(pending[1].block))
    BY <1>1, <1>2 DEF Rested, Old, Ages
  <1>8. \A c : Offset(c)' = Offset(c) /\ (Old(c)' <=> Old(c))
    BY <1>1 DEF Offset, Old
  <1>9. QED
    BY <1>1, <1>4, <1>5, <1>6, <1>7, <1>8 DEF Rested

LEMMA TickRested ==
    ASSUME RInv, "full" \notin Env, Tick
    PROVE  Ages' /\ Rested'
  <1>1. /\ SInv /\ Ages /\ Rested /\ UNCHANGED <<phase, base, used, freeList, fl, inits>>
        /\ DataBegin' = DataBegin /\ Header' = Header /\ ReuseTimegap \in Nat /\ (Active' <=> Active)
        /\ Sure' = Sure
    BY Facts DEF RInv, Tick, DataBegin, Header, Running, Active, Sure
  <1>2. /\ DOMAIN age' = DOMAIN age
        /\ \A c \in DOMAIN age : age'[c] = IF age[c] < ReuseTimegap THEN age[c] + 1 ELSE age[c]
    BY DEF Tick
  <1>3. /\ DOMAIN pending' = DOMAIN pending
        /\ \A i \in DOMAIN pending :
              /\ pending'[i].block = pending[i].block
              /\ pending'[i].wait = IF pending[i].wait > 0 THEN pending[i].wait - 1 ELSE 0
    BY <1>1, Facts DEF Tick
  <1>4. Ages'
    BY <1>1, <1>2 DEF Ages
  <1>5. \A c : Old(c) => Old(c)'
    BY <1>1, <1>2 DEF Old
  <1>6. \A c : Offset(c)' = Offset(c)
    BY <1>1 DEF Offset
  <1>7. ASSUME inits <= 2, Active, NEW i \in DOMAIN pending', NEW c, c = Offset(pending'[i].block),
               c \in DOMAIN age'
        PROVE  age'[c] + pending'[i].wait >= ReuseTimegap
    <2>1. age[c] + pending[i].wait >= ReuseTimegap
      BY <1>1, <1>2, <1>3, <1>7 DEF Rested
    <2>2. age[c] \in Nat /\ pending[i].wait \in Nat /\ age[c] <= ReuseTimegap
      BY <1>1, <1>2, <1>3, <1>7, Facts DEF Ages
    <2>3. QED
      BY <1>1, <1>2, <1>3, <1>7, <2>1, <2>2
  <1>8. QED
    BY <1>1, <1>4, <1>5, <1>6, <1>7 DEF Rested

\* The steps that leave the blocks where they are.
LEMMA QuietRested ==
    ASSUME RInv, "full" \notin Env, UNCHANGED <<base, used, freeList, pending, fl, age, inits>>,
           Active' => Active, Sure' = 0 \/ Sure' = Sure
    PROVE  Ages' /\ Rested'
  BY DEF RInv, Ages, Rested, Old, Offset, DataBegin, Header

LEMMA DumpEntryRested ==
    ASSUME RInv, "full" \notin Env, DumpEntry
    PROVE  Ages' /\ Rested'
  <1> USE DEF DumpEntry
  <1> DEFINE n == dump.written + 1
  <1>1. /\ SInv /\ TypeOK /\ Dumps /\ Ages /\ Rested /\ Active /\ Active'
        /\ UNCHANGED <<base, used, pending, age, inits>> /\ zeros = 0 /\ inits \in Nat
        /\ dump.written \in Nat /\ Sure = dump.written /\ Sure <= Len(fl.list) /\ Sure' = n
        /\ Len(fl.list) \in Nat /\ DOMAIN fl.list = 1 .. Len(fl.list)
        /\ DataBegin \in Int /\ -DataBegin \in Int /\ DataBegin' = DataBegin
    BY SureFacts, Facts DEF RInv, SInv, IInv, Active, Sure, DataBegin
  <1>2. PICK b \in DOMAIN freeList : /\ PutEntry(Move(b, -DataBegin))
                                     /\ freeList' = freeList (-) SetToBag({b})
    <2>1. ~(zeros > 0)
      BY <1>1
    <2>2. QED
      BY <2>1, Zenon
  <1>3. b \in Block /\ Move(b, -DataBegin) \in Block
    BY <1>1, <1>2, MoveFacts DEF TypeOK
  <1>4. DOMAIN freeList' \subseteq DOMAIN freeList
    BY <1>1, <1>2, PopFacts
  <1>5. /\ fl'.list[n] = Offset(b)
        /\ \A i \in DOMAIN fl'.list : i # n => i \in DOMAIN fl.list /\ fl'.list[i] = fl.list[i]
        /\ \A i \in DOMAIN fl.list : i \in DOMAIN fl'.list
    BY <1>1, <1>2, <1>3, PutFacts DEF Offset
  <1>6. ASSUME inits <= 1, NEW i \in 1 .. n
        PROVE  Old(fl'.list[i])
    <2>1. CASE i = n
      BY <2>1, <1>1, <1>5, <1>6 DEF Rested
    <2>2. CASE i # n
      <3>1. i \in 1 .. Sure /\ i \in 1 .. Len(fl.list)
        BY <2>2, <1>1
      <3>2. Old(fl.list[i]) /\ i \in DOMAIN fl.list
        BY <3>1, <1>1, <1>6 DEF Rested
      <3>3. QED
        BY <2>2, <3>2, <1>5
    <2>3. QED
      BY <2>1, <2>2
  <1>7. Ages'
    BY <1>1 DEF Ages, Header
  <1>8. \A c : Offset(c)' = Offset(c) /\ (Old(c)' <=> Old(c))
    BY <1>1 DEF Offset, Old
  <1>9. QED
    BY <1>1, <1>4, <1>6, <1>7, <1>8 DEF Rested

LEMMA DumpEndRested ==
    ASSUME RInv, "full" \notin Env, DumpCount \/ DumpTruncate
    PROVE  Ages' /\ Rested'
  <1>1. /\ SInv /\ Ages /\ Rested /\ ~full /\ dump.size = dump.written /\ fl.count \in Nat
        /\ fl.count <= Len(fl.list) /\ Len(fl.list) \in Nat /\ Sure \in Nat
        /\ fl = [count |-> fl.count, list |-> fl.list]
    BY SureFacts, FileType DEF RInv, SInv, IInv
  <1>2. UNCHANGED <<used, age, inits>> /\ ~Active'
    BY DEF DumpCount, DumpTruncate, Active, Running
  <1>3. Sure' = Sure /\ \A i \in 1 .. Sure : fl'.list[i] = fl.list[i]
    <2>1. CASE DumpCount
      BY <1>1, <2>1 DEF DumpCount, Sure
    <2>2. CASE DumpTruncate
      <3>1. fl'.count = fl.count /\ \A i \in 1 .. fl.count : fl'.list[i] = fl.list[i]
        BY <1>1, <2>2 DEF DumpTruncate
      <3>2. QED
        BY <2>2, <3>1 DEF DumpTruncate, Sure
    <2>3. QED
      BY <2>1, <2>2
  <1>4. Ages'
    BY <1>1, <1>2 DEF Ages, Header
  <1>5. QED
    BY <1>1, <1>2, <1>3, <1>4 DEF Rested, Old

LEMMA FreshRested ==
    ASSUME RInv, "full" \notin Env, Fresh
    PROVE  Ages' /\ Rested'
  BY DEF Ages, Rested, Old, Fresh, Running, Active

LEMMA NextRInv == RInv /\ [Next]_vars => RInv'
  <1> SUFFICES ASSUME RInv, [Next]_vars, "full" \notin Env PROVE Ages' /\ Rested'
    BY NextIInv, NextSessions DEF RInv, SInv
  <1>1. ASSUME NEW ro \in BOOLEAN, InitPool(ro) PROVE Ages' /\ Rested'
    BY <1>1, InitPoolRested
  <1>2. CASE InitHeader
    BY <1>2, InitHeaderRested
  <1>3. ASSUME NEW h \in Handles, NEW size \in Sizes, Alloc(h, size) PROVE Ages' /\ Rested'
    BY <1>3, AllocRested
  <1>4. ASSUME NEW h \in Handles, Free(h) PROVE Ages' /\ Rested'
    BY <1>4, FreeRested
  <1>5. CASE DelayedFree
    BY <1>5, DelayedFreeRested
  <1>6. CASE Tick
    BY <1>6, TickRested
  <1>7. CASE SetFreeList \/ Release \/ DumpFreeList \/ DumpFails \/ Disk \/ UNCHANGED vars
    <2>1. (dump.written = 0 \/ phase = "dumping") /\ ~full
      BY SureFacts DEF RInv
    <2>2. UNCHANGED <<base, used, freeList, pending, fl, age, inits>>
      BY <1>7 DEF SetFreeList, Release, DumpFreeList, DumpFails, Disk, vars
    <2>3. (Active' => Active) /\ (Sure' = 0 \/ Sure' = Sure)
      <3>1. CASE SetFreeList \/ Release \/ DumpFreeList
        BY <3>1, <2>1 DEF SetFreeList, Release, DumpFreeList, Running, Active, Sure
      <3>2. CASE UNCHANGED vars
        BY <3>2 DEF vars, Running, Active, Sure
      <3>3. QED
        BY <1>7, <2>1, <3>1, <3>2 DEF DumpFails, Disk
    <2>4. QED
      BY <2>2, <2>3, QuietRested
  <1>8. CASE DumpEntry \/ DumpCount \/ DumpTruncate
    BY <1>8, DumpEntryRested, DumpEndRested
  <1>9. CASE Construct \/ Destroy \/ Crash
    BY <1>9, FreshRested DEF Construct, Destroy, Crash
  <1>10. QED
    BY <1>1, <1>2, <1>3, <1>4, <1>5, <1>6, <1>7, <1>8, <1>9 DEF Next

LEMMA InitRInv == Init => RInv
  <1> SUFFICES ASSUME Init PROVE RInv
    OBVIOUS
  <1>1. Sure = 0 /\ DOMAIN age = {} /\ inits = 0 /\ phase = "closed"
    BY DEF Init, Sure
  <1>2. SInv
    BY InitSessions
  <1>3. QED
    BY <1>1, <1>2 DEF RInv, Ages, Rested, Active, Running

\* A block is handed out again only when reuse_timegap_ has passed since its last Free,
\* for any gap, any clients, sizes and addresses of the mapping, through the first two Inits
\* of a file whose .fl can always be written, and wherever in between the pool is released,
\* destroyed or lost (DoAlloc, Free, the delayed task, DumpFreeList, LoadFreeList).
THEOREM GapKept == Spec => NoEarlyReuse
  <1> DEFINE Kept == \A h \in Handles :
                 inits <= 2 /\ "full" \notin Env /\ held[h] = None /\ held'[h] # None /\ held'[h] \in DOMAIN age
                    => age[held'[h]] = ReuseTimegap
  <1>1. ASSUME RInv, [Next]_vars PROVE [Kept]_vars
    <2>1. ASSUME NEW g \in Handles, NEW size \in Sizes, Alloc(g, size),
                 NEW h \in Handles, inits <= 2, "full" \notin Env, held[h] = None, held'[h] # None,
                 held'[h] \in DOMAIN age
          PROVE  age[held'[h]] = ReuseTimegap
      <3>1. CASE g = h
        BY <1>1, <2>1, <3>1, AllocRested
      <3>2. CASE g # h
        <4>1. held' = held \/ held' = [held EXCEPT ![g] = held'[g]]
          <5>1. ASSUME NEW b, Give(g, b) PROVE held' = [held EXCEPT ![g] = held'[g]]
            BY <1>1, <5>1, Facts DEF RInv, Give, TypeOK
          <5>2. QED
            BY <2>1, <5>1 DEF Alloc, AllocFromFreeList, FileAllocFromStore, MMapAllocFromStore
        <4>2. QED
          BY <1>1, <2>1, <3>2, <4>1, Facts DEF RInv, TypeOK
      <3>3. QED
        BY <3>1, <3>2
    <2>2. ASSUME NEW g \in Handles, Free(g), NEW h \in Handles, held[h] = None
          PROVE  held'[h] = None
      BY <1>1, <2>2 DEF RInv, SInv, IInv, Free, TypeOK
    <2>3. ASSUME UNCHANGED held PROVE Kept
      BY <2>3
    <2>4. CASE Next
      BY <2>1, <2>2, <2>3, <2>4
         DEF Next, InitPool, InitHeader, DelayedFree, Tick, SetFreeList, Release, DumpFreeList,
             DumpEntry, DumpFails, DumpCount, DumpTruncate, Disk, Construct, Destroy, Crash, Fresh
    <2>5. QED
      BY <1>1, <2>4
  <1>2. QED
    BY InitRInv, NextRInv, <1>1, PTL DEF Spec, NoEarlyReuse

-----------------------------------------------------------------------------
(* What the steps do to the byte counts *)

Volume(B) == [b \in DOMAIN B |-> B[b] * b.size]

LEMMA VolumeType ==
    ASSUME NEW B, IsABag(B), DOMAIN B \subseteq Block
    PROVE  /\ Bytes(B) = SumFunctionOnSet(Volume(B), DOMAIN B)
           /\ DOMAIN Volume(B) = DOMAIN B
           /\ \A b \in DOMAIN B : B[b] \in Nat /\ Volume(B)[b] = B[b] * b.size /\ Volume(B)[b] \in Int
  <1>1. DOMAIN Volume(B) = DOMAIN B /\ \A b \in DOMAIN B : Volume(B)[b] = B[b] * b.size
    BY DEF Volume
  <1>2. \A b \in DOMAIN B : B[b] \in Nat
    BY DEF IsABag
  <1>3. \A b \in DOMAIN B : b.size \in Nat
    BY SizesPositive DEF Block
  <1>4. Bytes(B) = SumFunctionOnSet(Volume(B), DOMAIN B)
    BY <1>1 DEF Bytes, SumFunction, Volume
  <1>5. QED
    BY <1>1, <1>2, <1>3, <1>4

LEMMA BytesType ==
    ASSUME NEW B, IsABag(B), DOMAIN B \subseteq Block, IsFiniteSet(DOMAIN B)
    PROVE  Bytes(B) \in Int
  BY VolumeType, SumRemove

LEMMA BytesNone ==
    ASSUME NEW B, DOMAIN B = {}
    PROVE  Bytes(B) = 0
  BY SumEmpty DEF Bytes, SumFunction

LEMMA BagCount ==
    ASSUME NEW B, IsABag(B), DOMAIN B \subseteq Block, NEW b \in Block
    PROVE  (B (+) SetToBag({b}))[b] = IF b \in DOMAIN B THEN B[b] + 1 ELSE 1
  BY DEF IsABag, (+), SetToBag

LEMMA BytesPush ==
    ASSUME NEW B, IsABag(B), DOMAIN B \subseteq Block, IsFiniteSet(DOMAIN B), NEW b \in Block
    PROVE  /\ Bytes(B (+) SetToBag({b})) = Bytes(B) + b.size
           /\ IsFiniteSet(DOMAIN (B (+) SetToBag({b})))
  <1> DEFINE C == B (+) SetToBag({b})
             D == DOMAIN B \ {b}
  <1>1. /\ IsABag(C) /\ DOMAIN C = DOMAIN B \cup {b} /\ DOMAIN C \subseteq Block
        /\ \A c \in DOMAIN B \ {b} : C[c] = B[c]
        /\ C[b] = IF b \in DOMAIN B THEN B[b] + 1 ELSE 1
    <2>1. DOMAIN B \cup {b} \subseteq Block
      OBVIOUS
    <2>2. C[b] = IF b \in DOMAIN B THEN B[b] + 1 ELSE 1
      BY BagCount
    <2>. HIDE DEF C
    <2>3. QED
      BY <2>1, <2>2, BagPush DEF C
  <1>2. IsFiniteSet(DOMAIN C) /\ IsFiniteSet(D) /\ b \in DOMAIN C /\ DOMAIN C \ {b} = D
    <2>1. IsFiniteSet(DOMAIN B \cup {b})
      BY FS_AddElement
    <2>2. IsFiniteSet(DOMAIN B \ {b})
      BY FS_Subset, DOMAIN B \ {b} \in SUBSET DOMAIN B
    <2> HIDE DEF C
    <2>3. QED
      BY <1>1, <2>1, <2>2
  <1>3. b.size \in Int
    BY BlockFields
  <1> HIDE DEF C
  <1>4. /\ Bytes(C) = SumFunctionOnSet(Volume(C), DOMAIN C)
        /\ \A c \in DOMAIN C : C[c] \in Nat /\ Volume(C)[c] = C[c] * c.size /\ Volume(C)[c] \in Int
    BY <1>1, VolumeType
  <1>5. /\ Bytes(B) = SumFunctionOnSet(Volume(B), DOMAIN B)
        /\ \A c \in DOMAIN B : B[c] \in Nat /\ Volume(B)[c] = B[c] * c.size /\ Volume(B)[c] \in Int
    BY VolumeType
  <1>6. SumFunctionOnSet(Volume(C), D) = SumFunctionOnSet(Volume(B), D)
    <2>1. \A c \in D : Volume(B)[c] \in Int /\ Volume(C)[c] = Volume(B)[c]
      BY <1>1, <1>4, <1>5
    <2> HIDE DEF D
    <2>2. QED
      BY <1>2, <2>1, SumEqual
  <1>7. SumFunctionOnSet(Volume(B), D) \in Int
    BY <1>2, <1>5, SumRemove
  <1>8. Bytes(C) = Volume(C)[b] + SumFunctionOnSet(Volume(C), D)
    BY <1>2, <1>4, SumRemove
  <1>9. CASE b \in DOMAIN B
    <2>1. Bytes(B) = Volume(B)[b] + SumFunctionOnSet(Volume(B), D)
      BY <1>9, <1>5, SumRemove
    <2>2. Volume(C)[b] = (B[b] + 1) * b.size /\ Volume(B)[b] = B[b] * b.size /\ B[b] \in Nat
      BY <1>1, <1>4, <1>5, <1>9
    <2>3. Volume(C)[b] = Volume(B)[b] + b.size
      BY <2>2, <1>3
    <2> HIDE DEF D
    <2>4. QED
      BY <2>1, <2>3, <1>2, <1>3, <1>5, <1>6, <1>7, <1>8, <1>9 DEF C
  <1>10. CASE b \notin DOMAIN B
    <2>1. D = DOMAIN B
      BY <1>10
    <2>a. C[b] = 1 /\ Volume(C)[b] = C[b] * b.size
      BY <1>1, <1>2, <1>4, <1>10
    <2>b. Volume(C)[b] = b.size
      BY <2>a, <1>3
    <2>2. QED
      BY <2>1, <2>b, <1>2, <1>3, <1>5, <1>6, <1>7, <1>8 DEF C
  <1>11. QED
    BY <1>9, <1>10

LEMMA BagPopPush ==
    ASSUME NEW B, IsABag(B), DOMAIN B \subseteq Block, NEW b \in DOMAIN B
    PROVE  B = (B (-) SetToBag({b})) (+) SetToBag({b})
  <1> DEFINE C == B (-) SetToBag({b})
             E == C (+) SetToBag({b})
  <1>1. \A c \in DOMAIN B : B[c] \in Nat /\ B[c] > 0
    BY DEF IsABag
  <1>2. \A c : c \in DOMAIN C <=> c \in DOMAIN B /\ (c = b => B[b] > 1)
    BY <1>1 DEF (-), SetToBag
  <1>3. \A c \in DOMAIN C : C[c] = IF c = b THEN B[c] - 1 ELSE B[c]
    BY <1>1, <1>2 DEF (-), SetToBag
  <1>4. IsABag(C) /\ DOMAIN C \subseteq Block
    BY BagPop
  <1> HIDE DEF C
  <1>5. DOMAIN E = DOMAIN C \cup {b} /\ E = [c \in DOMAIN E |-> E[c]]
    BY DEF (+), SetToBag
  <1>6. /\ \A c \in DOMAIN C \ {b} : E[c] = C[c]
        /\ E[b] = IF b \in DOMAIN C THEN C[b] + 1 ELSE 1
    BY <1>4, BagPush, BagCount
  <1>7. \A c \in DOMAIN B : E[c] = B[c]
    <2>1. ASSUME NEW c \in DOMAIN B, c # b
          PROVE  E[c] = B[c]
      BY <1>2, <1>3, <1>6, <2>1
    <2>2. E[b] = B[b]
      <3>1. CASE B[b] > 1
        BY <1>1, <1>2, <1>3, <1>6, <3>1
      <3>2. CASE B[b] = 1
        BY <1>2, <1>6, <3>2
      <3>3. QED
        BY <1>1, <3>1, <3>2
    <2> HIDE DEF E
    <2>3. QED
      BY <2>1, <2>2
  <1>8. DOMAIN E = DOMAIN B
    BY <1>2, <1>5
  <1>9. B = [c \in DOMAIN B |-> B[c]]
    BY DEF IsABag
  <1>10. QED
    BY <1>5, <1>7, <1>8, <1>9 DEF C

LEMMA BytesPop ==
    ASSUME NEW B, IsABag(B), DOMAIN B \subseteq Block, IsFiniteSet(DOMAIN B), NEW b \in DOMAIN B
    PROVE  /\ Bytes(B (-) SetToBag({b})) = Bytes(B) - b.size
           /\ IsFiniteSet(DOMAIN (B (-) SetToBag({b})))
  <1> DEFINE C == B (-) SetToBag({b})
  <1>1. IsABag(C) /\ DOMAIN C \subseteq DOMAIN B /\ DOMAIN C \subseteq Block
    BY BagPop
  <1>2. IsFiniteSet(DOMAIN C)
    BY <1>1, FS_Subset
  <1>3. B = C (+) SetToBag({b})
    BY BagPopPush
  <1> HIDE DEF C
  <1>4. Bytes(B) = Bytes(C) + b.size
    BY <1>1, <1>2, <1>3, BytesPush
  <1>5. Bytes(C) \in Int /\ b.size \in Int
    BY <1>1, <1>2, BytesType, BlockFields
  <1>6. QED
    BY <1>2, <1>4, <1>5 DEF C

LEMMA BytesMove ==
    ASSUME NEW B, IsABag(B), DOMAIN B \subseteq Block, IsFiniteSet(DOMAIN B), NEW d \in Int
    PROVE  /\ Bytes(MoveAll(B, d)) = Bytes(B)
           /\ IsFiniteSet(DOMAIN MoveAll(B, d))
  <1> DEFINE C == MoveAll(B, d)
             m == [b \in DOMAIN B |-> Move(b, d)]
  <1>1. /\ IsABag(C) /\ DOMAIN C \subseteq Block
        /\ DOMAIN C = {Move(b, d) : b \in DOMAIN B}
    BY MoveAllFacts
  <1>2. ASSUME NEW b \in DOMAIN B
        PROVE  C[Move(b, d)] = B[b] /\ Move(b, d).size = b.size /\ Move(b, d) \in DOMAIN C
    <2>1. Move(Move(b, d), -d) = b /\ Move(b, d).size = b.size
      BY MoveFacts
    <2>2. QED
      BY <2>1, <1>1 DEF MoveAll
  <1>3. \A x, y \in DOMAIN B : Move(x, d) = Move(y, d) => x = y
    <2>1. \A x \in DOMAIN B : Move(Move(x, d), -d) = x
      BY MoveFacts
    <2>2. QED
      BY <2>1
  <1>4. IsFiniteSet(DOMAIN C)
    <2>1. m \in Surjection(DOMAIN B, DOMAIN C)
      BY <1>1 DEF Surjection
    <2>2. QED
      BY <2>1, FS_Surjection
  <1> HIDE DEF C
  <1>5. /\ Bytes(C) = SumFunctionOnSet(Volume(C), DOMAIN C)
        /\ \A c \in DOMAIN C : Volume(C)[c] = C[c] * c.size
    BY <1>1, VolumeType
  <1>6. /\ Bytes(B) = SumFunctionOnSet(Volume(B), DOMAIN B)
        /\ \A c \in DOMAIN B : Volume(B)[c] = B[c] * c.size /\ Volume(B)[c] \in Int
    BY VolumeType
  <1>7. /\ \A x \in DOMAIN B : Volume(B)[x] \in Int /\ Volume(C)[m[x]] = Volume(B)[x]
        /\ \A x, y \in DOMAIN B : m[x] = m[y] => x = y
        /\ {m[x] : x \in DOMAIN B} = DOMAIN C
    BY <1>1, <1>2, <1>3, <1>5, <1>6
  <1> HIDE DEF m
  <1>8. SumFunctionOnSet(Volume(C), {m[x] : x \in DOMAIN B}) = SumFunctionOnSet(Volume(B), DOMAIN B)
    BY <1>7, SumImage
  <1>9. QED
    BY <1>4, <1>5, <1>6, <1>7, <1>8 DEF C

-----------------------------------------------------------------------------
(* The free list's size *)

Finite ==
    /\ IsFiniteSet(DOMAIN freeList)
    /\ IsFiniteSet(Holding)

\* A pool that is not in use counts no bytes, except after a read-only session.
Sized == "full" \notin Env =>
    /\ Running => spaceSize = Bytes(freeList)
    /\ phase \in {"closed", "sizing", "truncating"} => spaceSize = 0

\* What the steps below use of the invariants above.
LEMMA Lists ==
    ASSUME IInv
    PROVE  /\ IsABag(freeList) /\ DOMAIN freeList \subseteq Block
           /\ DataBegin \in Int /\ -DataBegin \in Int
           /\ held \in [Handles -> Block \cup {None}]
           /\ \A h \in Handles : held[h] # None => held[h] \in Block /\ Move(held[h], DataBegin) \in Block
  <1>1. DataBegin \in Int /\ -DataBegin \in Int
    BY OriginType DEF IInv
  <1>2. QED
    BY <1>1, MoveFacts DEF IInv, TypeOK

\* What a load does to the counts.
LEMMA LoadBytes ==
    ASSUME IInv, LoadFreeList, base' \in Nat
    PROVE  /\ IsFiniteSet(DOMAIN freeList')
           /\ spaceSize' = spaceSize + Bytes(freeList') /\ Bytes(freeList') \in Int
  <1> DEFINE B == OnFile(DataBegin')
  <1>1. DataBegin' \in Int /\ TypeOK
    BY ConstantFacts DEF DataBegin, IInv
  <1>2. freeList' = MoveAll(B, DataBegin') /\ spaceSize' = spaceSize + Bytes(B)
    BY DEF LoadFreeList
  <1>3. IsABag(B) /\ DOMAIN B \subseteq Block /\ IsFiniteSet(DOMAIN B)
    BY <1>1, OnFileFacts
  <1> HIDE DEF B
  <1>4. Bytes(freeList') = Bytes(B) /\ IsFiniteSet(DOMAIN freeList') /\ Bytes(B) \in Int
    BY <1>1, <1>2, <1>3, BytesMove, BytesType
  <1>5. QED
    BY <1>2, <1>4

LEMMA DoFreeBytes ==
    ASSUME IInv, Finite, NEW b \in Block, DoFree(b)
    PROVE  /\ useFreeList => Bytes(freeList') = Bytes(freeList) + b.size
           /\ IsFiniteSet(DOMAIN freeList')
           /\ spaceSize = Bytes(freeList) => spaceSize' = Bytes(freeList')
  <1>1. CASE useFreeList
    BY <1>1, BlockFits, Lists, BytesPush DEF DoFree, Finite
  <1>2. CASE ~useFreeList
    BY <1>2 DEF DoFree, Finite
  <1>3. QED
    BY <1>1, <1>2

\* What every step does to the finite sets.
LEMMA NextFinite == IInv /\ Finite /\ [Next]_vars => Finite'
  <1> SUFFICES ASSUME IInv, Finite, [Next]_vars PROVE Finite'
    OBVIOUS
  <1>1. CASE UNCHANGED held /\ IsFiniteSet(DOMAIN freeList')
    BY <1>1 DEF Finite, Holding
  <1>2. ASSUME NEW ro \in BOOLEAN, InitPool(ro) PROVE Finite'
    <2>1. UNCHANGED held
      BY <1>2 DEF InitPool
    <2>2. CASE LoadFreeList /\ base' \in Nat
      BY <1>1, <2>1, <2>2, LoadBytes
    <2>3. CASE UNCHANGED freeList
      BY <1>1, <2>1, <2>3 DEF Finite
    <2>4. QED
      BY <1>2, <2>2, <2>3, ConstantFacts DEF InitPool, FileInit, MMapInit, IInv, TypeOK
  <1>3. CASE InitHeader
    BY <1>1, <1>3, LoadBytes DEF InitHeader, IInv, TypeOK
  <1>4. ASSUME NEW h \in Handles, NEW size \in Sizes, Alloc(h, size) PROVE Finite'
    <2>1. IsFiniteSet(Holding')
      <3>1. Holding' \subseteq Holding \cup {h}
        <4>1. \A g \in Handles : g # h => held'[g] = held[g]
          BY <1>4, Lists DEF Alloc, AllocFromFreeList, FileAllocFromStore, MMapAllocFromStore, Give
        <4>2. QED
          BY <4>1 DEF Holding
      <3>2. IsFiniteSet(Holding \cup {h})
        BY FS_AddElement DEF Finite
      <3>3. QED
        BY <3>1, <3>2, FS_Subset
    <2>2. IsFiniteSet(DOMAIN freeList')
      <3>1. CASE UNCHANGED freeList
        BY <3>1 DEF Finite
      <3>2. CASE \E b \in DOMAIN freeList : freeList' = freeList (-) SetToBag({b})
        BY <3>2, Lists, BytesPop DEF Finite
      <3>3. QED
        BY <1>4, <3>1, <3>2 DEF Alloc, AllocFromFreeList, FileAllocFromStore, MMapAllocFromStore
    <2>3. QED
      BY <1>4, <2>1, <2>2 DEF Alloc, Finite
  <1>5. ASSUME NEW h \in Handles, Free(h) PROVE Finite'
    <2>1. Holding' \subseteq Holding
      BY <1>5, Lists DEF Free, Holding
    <2>2. IsFiniteSet(Holding')
      BY <2>1, FS_Subset DEF Finite
    <2>3. CASE UNCHANGED freeList
      BY <2>1, <2>2, <2>3 DEF Finite
    <2>4. CASE DoFree(Move(held[h], DataBegin))
      <3>1. Move(held[h], DataBegin) \in Block
        BY <1>5, Lists DEF Free
      <3>2. QED
        BY <2>1, <2>2, <2>4, <3>1, DoFreeBytes DEF Finite
    <2>5. QED
      BY <1>5, <2>3, <2>4 DEF Free
  <1>6. CASE DelayedFree
    <2>1. Head(pending).block \in Block
      <3>1. 1 \in DOMAIN pending /\ Head(pending) = pending[1]
        BY <1>6 DEF DelayedFree, IInv, TypeOK
      <3>2. QED
        BY <3>1, PendingType DEF IInv
    <2>2. QED
      BY <1>1, <1>6, <2>1, DoFreeBytes DEF DelayedFree
  <1>7. CASE \/ Tick \/ SetFreeList \/ Release \/ DumpFreeList \/ DumpFails \/ DumpCount
             \/ DumpTruncate \/ Disk \/ UNCHANGED vars
    <2>1. UNCHANGED <<held, freeList>>
      BY <1>7 DEF Tick, SetFreeList, Release, DumpFreeList, DumpFails, DumpCount, DumpTruncate,
                  Disk, vars
    <2>2. QED
      BY <1>1, <2>1 DEF Finite
  <1>8. CASE DumpEntry
    <2>1. UNCHANGED held
      BY <1>8 DEF DumpEntry
    <2>2. UNCHANGED freeList \/ \E b \in DOMAIN freeList : freeList' = freeList (-) SetToBag({b})
      BY <1>8 DEF DumpEntry
    <2>3. IsFiniteSet(DOMAIN freeList')
      BY <2>2, Lists, BytesPop DEF Finite
    <2>4. QED
      BY <1>1, <2>1, <2>3
  <1>9. CASE Construct \/ Destroy \/ Crash
    BY <1>1, <1>9, EmptyBagFacts, FS_EmptySet DEF Construct, Destroy, Crash, Fresh
  <1>10. QED
    BY <1>2, <1>3, <1>4, <1>5, <1>6, <1>7, <1>8, <1>9 DEF Next

LEMMA InitFinite == Init => Finite
  <1> SUFFICES ASSUME Init PROVE Finite
    OBVIOUS
  <1>1. Holding = {}
    BY DEF Init, Holding
  <1>2. QED
    BY <1>1, EmptyBagFacts, FS_EmptySet DEF Init, Finite

\* The count and the list change together.
LEMMA NextSized == IInv /\ Finite /\ Sized /\ ~readOnly /\ [Next]_vars => Sized'
  <1> DEFINE Off == {"closed", "sizing", "truncating"}
  <1> SUFFICES ASSUME IInv, Finite, Sized, ~readOnly, [Next]_vars, "full" \notin Env PROVE Sized'
    BY DEF Sized
  <1>1. /\ Running => spaceSize = Bytes(freeList) /\ spaceSize \in Int
        /\ phase \in Off => spaceSize = 0
        /\ ~full
    BY Lists, BytesType DEF Sized, Finite, IInv, Dumps
  <1>2. CASE UNCHANGED <<freeList, spaceSize>> /\ (phase' \in Off => phase \in Off)
             /\ (Running' => Running)
    BY <1>2 DEF Sized
  <1>3. ASSUME LoadFreeList, base' \in Nat, phase' = "open", phase \in {"closed", "sizing"}
        PROVE  Sized'
    <2>1. spaceSize = 0 /\ spaceSize' = spaceSize + Bytes(freeList') /\ Bytes(freeList') \in Int
      BY <1>1, <1>3, LoadBytes
    <2>2. QED
      BY <1>3, <2>1 DEF Sized
  <1>4. ASSUME NEW ro \in BOOLEAN, InitPool(ro) PROVE Sized'
    <2>1. CASE LoadFreeList /\ phase' = "open"
      BY <2>1, <1>3, <1>4, ConstantFacts DEF InitPool, FileInit, MMapInit, IInv, TypeOK
    <2>2. CASE UNCHANGED <<freeList, spaceSize>> /\ phase' = "sizing"
      BY <2>2, <1>2, <1>4 DEF InitPool, Running
    <2>3. QED
      BY <2>1, <2>2, <1>4 DEF InitPool, FileInit, MMapInit
  <1>5. CASE InitHeader
    BY <1>3, <1>5 DEF InitHeader, IInv, TypeOK
  <1>6. ASSUME NEW h \in Handles, NEW size \in Sizes, Alloc(h, size) PROVE Sized'
    <2>1. CASE AllocFromFreeList(h, size)
      <3>1. PICK b \in DOMAIN freeList : IsTop(b, size) /\ freeList' = freeList (-) SetToBag({b})
        BY <2>1 DEF AllocFromFreeList
      <3>2. b.size = size /\ spaceSize' = spaceSize - size /\ phase' = "open"
        BY <1>6, <2>1, <3>1 DEF AllocFromFreeList, Alloc, IsTop, Fit
      <3>3. Bytes(freeList') = Bytes(freeList) - b.size
        BY <3>1, Lists, BytesPop DEF Finite
      <3>4. QED
        BY <1>1, <1>6, <3>2, <3>3 DEF Sized, Alloc, Running
    <2>2. CASE FileAllocFromStore(h, size) \/ MMapAllocFromStore(h, size)
      BY <1>2, <1>6, <2>2 DEF FileAllocFromStore, MMapAllocFromStore, Alloc, Running
    <2>3. QED
      BY <1>6, <2>1, <2>2 DEF Alloc
  <1>7. ASSUME NEW h \in Handles, Free(h) PROVE Sized'
    <2>1. Move(held[h], DataBegin) \in Block
      BY <1>7, Lists DEF Free
    <2>2. Running /\ phase' = "open" /\ phase = "open"
      BY <1>7 DEF Free, Running
    <2>3. CASE DoFree(Move(held[h], DataBegin))
      BY <1>1, <2>1, <2>2, <2>3, DoFreeBytes DEF Sized
    <2>4. CASE UNCHANGED <<freeList, spaceSize>>
      BY <1>2, <2>2, <2>4
    <2>5. QED
      BY <1>7, <2>3, <2>4 DEF Free
  <1>8. CASE DelayedFree
    <2>1. Head(pending).block \in Block
      <3>1. 1 \in DOMAIN pending /\ Head(pending) = pending[1]
        BY <1>8 DEF DelayedFree, IInv, TypeOK
      <3>2. QED
        BY <3>1, PendingType DEF IInv
    <2>2. QED
      BY <1>1, <1>8, <2>1, DoFreeBytes DEF DelayedFree, Running, Sized
  <1>9. CASE Tick \/ SetFreeList \/ Release \/ Disk \/ DumpFails \/ UNCHANGED vars
    <2>1. UNCHANGED <<freeList, spaceSize>> /\ (phase' = phase \/ (phase = "open" /\ phase' = "releasing"))
      BY <1>9 DEF Tick, SetFreeList, Release, Disk, DumpFails, vars
    <2>2. QED
      BY <1>2, <2>1 DEF Running
  <1>10. CASE DumpFreeList \/ DumpEntry \/ DumpCount \/ DumpTruncate
    <2>1. ~Running' /\ (phase' \in Off => spaceSize' = 0)
      BY <1>1, <1>10 DEF DumpFreeList, DumpEntry, DumpCount, DumpTruncate, Running
    <2>2. QED
      BY <2>1 DEF Sized
  <1>11. CASE Construct \/ Destroy \/ Crash
    BY <1>11 DEF Construct, Destroy, Crash, Fresh, Sized, Running
  <1>12. QED
    BY <1>4, <1>5, <1>6, <1>7, <1>8, <1>9, <1>10, <1>11 DEF Next

LEMMA InitSized == Init => Sized
  BY DEF Init, Sized, Running

\* GetFreeListSize is the number of bytes in the free list of a pool in use, for any blocks,
\* through delayed frees, dumps, reloads and crashes, unless a session is read-only or a
\* dump has been given up because its writes failed.
THEOREM FreeListCounted == Spec /\ []~readOnly => []FreeListSize
  <1>1. IInv /\ Finite /\ Sized /\ ~readOnly /\ [Next]_vars => (IInv /\ Finite /\ Sized)'
    BY NextIInv, NextFinite, NextSized
  <1>2. Init => IInv /\ Finite /\ Sized
    BY InitIInv, InitFinite, InitSized
  <1>3. Sized => FreeListSize
    BY DEF Sized, FreeListSize
  <1>4. QED
    BY <1>1, <1>2, <1>3, PTL DEF Spec

-----------------------------------------------------------------------------
(* Conservation *)

\* The delay thread accepts tasks in the first session, whose bytes are all accounted for.
Accounted ==
    /\ inits = 0 => delayUp
    /\ inits = 1 /\ phase \in {"sizing", "open"} => delayUp
    /\ Conserved

CInv == FInv /\ Finite /\ Accounted

\* The counts of the clients' and the waiting blocks.
LEMMA CountTypes ==
    ASSUME IInv, Finite
    PROVE  /\ HeldBytes \in Int /\ PendingBytes \in Int /\ Bytes(freeList) \in Int
           /\ IsFiniteSet(DOMAIN pending)
           /\ \A i \in DOMAIN pending : pending[i].block.size \in Int
           /\ \A h \in Holding : held[h] \in Block /\ held[h].size \in Int
  <1>1. \A i \in DOMAIN pending : pending[i].block.size \in Int
    BY PendingType, BlockFields DEF IInv
  <1>2. IsFiniteSet(DOMAIN pending)
    <2>1. \E n \in Nat : DOMAIN pending = 1 .. n
      BY DEF IInv, TypeOK
    <2>2. QED
      BY <2>1, FS_Interval
  <1>3. \A h \in Holding : held[h] \in Block /\ held[h].size \in Int
    BY Lists, BlockFields DEF Holding
  <1>4. HeldBytes \in Int
    <2> DEFINE f == [h \in Holding |-> held[h].size]
    <2>1. IsFiniteSet(DOMAIN f) /\ \A h \in DOMAIN f : f[h] \in Int
      BY <1>3 DEF Finite
    <2> HIDE DEF f
    <2>2. SumFunction(f) \in Int
      BY <2>1, SumIsInt
    <2>3. QED
      BY <2>2 DEF HeldBytes, f
  <1>5. PendingBytes \in Int
    <2> DEFINE f == [i \in DOMAIN pending |-> pending[i].block.size]
    <2>1. IsFiniteSet(DOMAIN f) /\ \A i \in DOMAIN f : f[i] \in Int
      BY <1>1, <1>2
    <2> HIDE DEF f
    <2>2. SumFunction(f) \in Int
      BY <2>1, SumIsInt
    <2>3. QED
      BY <2>2 DEF PendingBytes, f
  <1>6. QED
    BY <1>1, <1>2, <1>3, <1>4, <1>5, Lists, BytesType DEF Finite

\* Giving a block to a client that holds none.
LEMMA GiveBytes ==
    ASSUME IInv, Finite, NEW h \in Handles, held[h] = None, NEW b \in Block, Give(h, b)
    PROVE  HeldBytes' = HeldBytes + b.size
  <1> DEFINE o == Move(b, -DataBegin)
             f == [g \in Holding |-> held[g].size]
             k == [g \in Holding' |-> held'[g].size]
  <1>1. o \in Block /\ o.size = b.size /\ o # None
    BY Lists, MoveFacts, NoneAssumption DEF NoneAssumption
  <1>2. held' = [held EXCEPT ![h] = o]
    BY DEF Give
  <1> HIDE DEF o
  <1>3. /\ h \notin Holding /\ Holding' = Holding \cup {h} /\ held'[h] = o
        /\ \A g \in Holding : held'[g] = held[g]
    BY <1>1, <1>2, Lists DEF Holding
  <1>4. /\ IsFiniteSet(DOMAIN f) /\ h \notin DOMAIN f /\ DOMAIN k = DOMAIN f \cup {h}
        /\ \A g \in DOMAIN f : f[g] \in Int /\ k[g] = f[g]
        /\ k[h] = b.size /\ k[h] \in Int
    BY <1>1, <1>3, CountTypes, BlockFields DEF Finite
  <1> HIDE DEF f, k
  <1>5. SumFunction(k) = SumFunction(f) + k[h]
    BY <1>4, SumExtend
  <1>6. QED
    BY <1>4, <1>5 DEF HeldBytes, f, k

\* Taking it back.
LEMMA TakeBytes ==
    ASSUME IInv, Finite, NEW h \in Handles, held[h] # None, held' = [held EXCEPT ![h] = None]
    PROVE  HeldBytes' = HeldBytes - held[h].size
  <1> DEFINE f == [g \in Holding |-> held[g].size]
             k == [g \in Holding' |-> held'[g].size]
  <1>1. /\ h \in Holding /\ Holding' = Holding \ {h}
        /\ \A g \in Holding' : held'[g] = held[g]
    BY Lists DEF Holding
  <1>2. IsFiniteSet(Holding')
    BY <1>1, FS_Subset DEF Finite
  <1>3. /\ IsFiniteSet(DOMAIN k) /\ h \notin DOMAIN k /\ DOMAIN f = DOMAIN k \cup {h}
        /\ \A g \in DOMAIN k : k[g] \in Int /\ f[g] = k[g]
        /\ f[h] = held[h].size /\ f[h] \in Int
    BY <1>1, <1>2, CountTypes
  <1> HIDE DEF f, k
  <1>4. SumFunction(f) = SumFunction(k) + f[h]
    BY <1>3, SumExtend
  <1>5. SumFunction(k) \in Int
    BY <1>3, SumIsInt
  <1>6. QED
    BY <1>3, <1>4, <1>5 DEF HeldBytes, f, k

\* The queue of delayed frees, at its end and at its head.
LEMMA QueueBytes ==
    ASSUME IInv, Finite, NEW t \in [block : Block, wait : 0 .. ReuseTimegap],
           pending' = Append(pending, t)
    PROVE  PendingBytes' = PendingBytes + t.block.size
  <1> DEFINE f == [i \in DOMAIN pending |-> pending[i].block.size]
             k == [i \in DOMAIN pending' |-> pending'[i].block.size]
             e == Len(pending) + 1
  <1>1. pending \in Seq([block : Block, wait : 0 .. ReuseTimegap])
    BY DEF IInv, TypeOK
  <1>2. /\ e \notin DOMAIN pending /\ DOMAIN pending' = DOMAIN pending \cup {e}
        /\ pending'[e] = t
        /\ \A i \in DOMAIN pending : pending'[i] = pending[i]
    BY <1>1
  <1>3. t.block.size \in Int
    BY BlockFields
  <1>4. /\ IsFiniteSet(DOMAIN f) /\ e \notin DOMAIN f /\ DOMAIN k = DOMAIN f \cup {e}
        /\ \A i \in DOMAIN f : f[i] \in Int /\ k[i] = f[i]
        /\ k[e] = t.block.size /\ k[e] \in Int
    BY <1>2, <1>3, CountTypes
  <1> HIDE DEF f, k, e
  <1>5. SumFunction(k) = SumFunction(f) + k[e]
    BY <1>4, SumExtend
  <1>6. QED
    BY <1>4, <1>5 DEF PendingBytes, f, k

LEMMA DequeueBytes ==
    ASSUME IInv, Finite, pending # <<>>, pending' = Tail(pending)
    PROVE  PendingBytes' = PendingBytes - pending[1].block.size
  <1> DEFINE f == [i \in DOMAIN pending |-> pending[i].block.size]
             k == [i \in DOMAIN pending' |-> pending'[i].block.size]
             m == [i \in DOMAIN pending' |-> i + 1]
  <1>1. pending \in Seq([block : Block, wait : 0 .. ReuseTimegap])
    BY DEF IInv, TypeOK
  <1>2. /\ 1 \in DOMAIN pending /\ {i + 1 : i \in DOMAIN pending'} = DOMAIN pending \ {1}
        /\ \A i \in DOMAIN pending' : i \in Nat /\ pending'[i] = pending[i + 1]
        /\ \E n \in Nat : DOMAIN pending' = 1 .. n
    <2>1. PICK n \in Nat : DOMAIN pending = 1 .. n /\ n = Len(pending) /\ n > 0
      BY <1>1
    <2>2. DOMAIN pending' = 1 .. (n - 1)
      BY <1>1, <2>1
    <2>3. \A j \in DOMAIN pending \ {1} : j - 1 \in DOMAIN pending' /\ j = (j - 1) + 1
      BY <2>1, <2>2
    <2>4. \A i \in DOMAIN pending' : i \in Nat /\ i + 1 \in DOMAIN pending \ {1} /\ pending'[i] = pending[i + 1]
      BY <1>1, <2>1, <2>2
    <2>5. {i + 1 : i \in DOMAIN pending'} = DOMAIN pending \ {1}
      <3>1. {i + 1 : i \in DOMAIN pending'} \subseteq DOMAIN pending \ {1}
        BY <2>4, Zenon
      <3>2. DOMAIN pending \ {1} \subseteq {i + 1 : i \in DOMAIN pending'}
        BY <2>3, Zenon
      <3>3. QED
        BY <3>1, <3>2
    <2>6. n - 1 \in Nat /\ 1 \in DOMAIN pending
      BY <2>1
    <2>7. QED
      BY <2>2, <2>4, <2>5, <2>6
  <1>3. /\ IsFiniteSet(DOMAIN f) /\ 1 \in DOMAIN f /\ \A i \in DOMAIN f : f[i] \in Int
        /\ f[1] = pending[1].block.size
    BY <1>2, CountTypes
  <1>4. IsFiniteSet(DOMAIN k)
    BY <1>2, FS_Interval
  <1>5. /\ \A i \in DOMAIN k : k[i] \in Int /\ f[m[i]] = k[i]
        /\ \A i, j \in DOMAIN k : m[i] = m[j] => i = j
        /\ {m[i] : i \in DOMAIN k} = DOMAIN f \ {1}
    <2>1. \A i \in DOMAIN k : i + 1 \in DOMAIN pending /\ i \in Nat
      BY <1>2
    <2>2. \A i \in DOMAIN k : k[i] = f[i + 1] /\ k[i] \in Int
      BY <1>2, <1>3, <2>1
    <2>3. {m[i] : i \in DOMAIN k} = {i + 1 : i \in DOMAIN pending'}
      OBVIOUS
    <2>4. \A i \in DOMAIN k : m[i] = i + 1
      OBVIOUS
    <2>5. DOMAIN f = DOMAIN pending
      OBVIOUS
    <2> HIDE DEF f, k, m
    <2>6. \A i, j \in DOMAIN k : m[i] = m[j] => i = j
      BY <2>1, <2>4
    <2>7. {m[i] : i \in DOMAIN k} = DOMAIN f \ {1}
      BY <1>2, <2>3, <2>5, Zenon
    <2>8. QED
      BY <2>2, <2>4, <2>6, <2>7
  <1> HIDE DEF f, k, m
  <1>6. SumFunctionOnSet(f, {m[i] : i \in DOMAIN k}) = SumFunctionOnSet(k, DOMAIN k)
    BY <1>4, <1>5, SumImage
  <1>7. /\ SumFunctionOnSet(f, DOMAIN f) = f[1] + SumFunctionOnSet(f, DOMAIN f \ {1})
        /\ SumFunctionOnSet(k, DOMAIN k) \in Int /\ f[1] \in Int
    BY <1>3, <1>4, <1>5, SumRemove
  <1>8. SumFunction(f) = f[1] + SumFunction(k) /\ SumFunction(k) \in Int
    BY <1>5, <1>6, <1>7 DEF SumFunction
  <1>9. PendingBytes = SumFunction(f) /\ PendingBytes' = SumFunction(k)
    BY DEF PendingBytes, f, k
  <1>10. QED
    BY <1>3, <1>7, <1>8, <1>9

\* Nothing is handed out, waiting or free.
LEMMA NothingCounted ==
    ASSUME IInv, Nothing, pending = <<>>, UNCHANGED <<held, pending>>, LoadFreeList
    PROVE  HeldBytes' = 0 /\ PendingBytes' = 0 /\ Bytes(freeList') = 0
  <1>1. DOMAIN freeList' = {}
    BY LoadNothing DEF Nothing, IInv
  <1>2. Holding' = {} /\ DOMAIN pending' = {}
    BY DEF Nothing, Holding
  <1>3. HeldBytes' = 0
    BY <1>2, SumEmpty DEF HeldBytes, SumFunction
  <1>4. PendingBytes' = 0
    BY <1>2, SumEmpty DEF PendingBytes, SumFunction
  <1>5. QED
    BY <1>1, <1>3, <1>4, BytesNone

LEMMA InitPoolBytes ==
    ASSUME CInv, NEW ro \in BOOLEAN, InitPool(ro)
    PROVE  Accounted'
  <1>1. /\ IInv /\ Filled /\ phase = "closed" /\ inits' = inits + 1 /\ inits \in Nat
        /\ UNCHANGED <<delayUp, held, pending>> /\ pending = <<>>
    BY Known DEF CInv, FInv, SInv, InitPool, Shape, Running
  <1>2. inits' = 1 => inits = 0 /\ delayUp' /\ Nothing /\ fileSize = 0
    BY <1>1 DEF CInv, Accounted, Filled
  <1>3. ASSUME inits' = 1, phase' = "open"
        PROVE  Reserve + HeldBytes' + PendingBytes' + Bytes(freeList') = used'
    <2>1. FileInit(ro)
      BY <1>1, <1>2, <1>3 DEF InitPool, MMapInit
    <2>2. LoadFreeList /\ used' = Reserve
      BY <1>2, <1>3, <2>1 DEF FileInit
    <2>3. HeldBytes' = 0 /\ PendingBytes' = 0 /\ Bytes(freeList') = 0
      BY <1>1, <1>2, <1>3, <2>2, NothingCounted
    <2>4. QED
      BY <2>2, <2>3, ConstantFacts
  <1>4. Conserved'
    BY <1>3 DEF Conserved
  <1>5. QED
    BY <1>1, <1>2, <1>4 DEF Accounted

LEMMA InitHeaderBytes ==
    ASSUME CInv, InitHeader
    PROVE  Accounted'
  <1>1. /\ IInv /\ Nothing /\ pending = <<>> /\ inits = 1 /\ UNCHANGED <<inits, delayUp, held, pending>>
        /\ LoadFreeList /\ used' = Reserve /\ delayUp
    BY Known DEF CInv, FInv, SInv, Sessions, Accounted, Filled, InitHeader, Shape, Running
  <1>2. HeldBytes' = 0 /\ PendingBytes' = 0 /\ Bytes(freeList') = 0
    BY <1>1, NothingCounted
  <1>3. Conserved'
    BY <1>1, <1>2, ConstantFacts DEF Conserved
  <1>4. QED
    BY <1>1, <1>3 DEF Accounted

LEMMA AllocBytes ==
    ASSUME CInv, NEW h \in Handles, NEW size \in Sizes, Alloc(h, size)
    PROVE  Accounted'
  <1>1. /\ IInv /\ Finite /\ held[h] = None /\ phase = "open"
        /\ UNCHANGED <<phase, inits, delayUp, pending>>
        /\ HeldBytes \in Int /\ PendingBytes \in Int /\ Bytes(freeList) \in Int
        /\ used \in Nat /\ fileSize \in Nat /\ base \in Nat /\ size \in Nat
    BY Known, CountTypes, SizesPositive DEF CInv, FInv, SInv, Alloc, IInv, TypeOK
  <1>2. PendingBytes' = PendingBytes
    BY <1>1 DEF PendingBytes
  <1>3. CASE AllocFromFreeList(h, size)
    <2>1. PICK b \in DOMAIN freeList : /\ IsTop(b, size) /\ Give(h, b)
                                       /\ freeList' = freeList (-) SetToBag({b})
      BY <1>3 DEF AllocFromFreeList
    <2>2. b \in Block /\ b.size \in Int /\ used' = used
      BY <1>1, <1>3, <2>1, Lists, BlockFields DEF AllocFromFreeList
    <2>3. Bytes(freeList') = Bytes(freeList) - b.size
      BY <1>1, <2>1, Lists, BytesPop DEF Finite
    <2>4. HeldBytes' = HeldBytes + b.size
      BY <1>1, <2>1, <2>2, GiveBytes
    <2>5. QED
      BY <1>1, <1>2, <2>2, <2>3, <2>4, ConstantFacts DEF CInv, Accounted, Conserved
  <1>4. ASSUME NEW b \in Block, b.size = size, Give(h, b), used' = used + size, UNCHANGED freeList
        PROVE  Accounted'
    <2>1. HeldBytes' = HeldBytes + size
      BY <1>1, <1>4, GiveBytes
    <2>2. QED
      BY <1>1, <1>2, <1>4, <2>1, ConstantFacts DEF CInv, Accounted, Conserved
  <1>5. CASE FileAllocFromStore(h, size)
    <2> DEFINE b == [addr |-> fileSize, size |-> size]
    <2>1. b \in Block /\ b.size = size /\ fileSize = used
      BY <1>1, <1>5 DEF Block, FileAllocFromStore, IInv, Shape
    <2>2. Give(h, b) /\ used' = used + size /\ UNCHANGED freeList
      BY <1>5, <2>1 DEF FileAllocFromStore
    <2> HIDE DEF b
    <2>3. QED
      BY <1>4, <2>1, <2>2
  <1>6. CASE MMapAllocFromStore(h, size) /\ used + size < fileSize'
    <2> DEFINE b == [addr |-> base + used, size |-> size]
    <2>1. b \in Block /\ b.size = size
      BY <1>1 DEF Block
    <2>2. Give(h, b) /\ used' = used + size /\ UNCHANGED freeList
      BY <1>6 DEF MMapAllocFromStore
    <2> HIDE DEF b
    <2>3. QED
      BY <1>4, <2>1, <2>2
  <1>7. CASE MMapAllocFromStore(h, size) /\ ~(used + size < fileSize')
    <2>1. UNCHANGED <<used, held, freeList>>
      BY <1>7 DEF MMapAllocFromStore
    <2>2. HeldBytes' = HeldBytes
      BY <2>1 DEF HeldBytes, Holding
    <2>3. QED
      BY <1>1, <1>2, <2>1, <2>2 DEF CInv, Accounted, Conserved
  <1>8. QED
    BY <1>3, <1>5, <1>6, <1>7 DEF Alloc

LEMMA FreeBytes ==
    ASSUME CInv, useFreeList, NEW h \in Handles, Free(h)
    PROVE  Accounted'
  <1> DEFINE b == Move(held[h], DataBegin)
             t == [block |-> b, wait |-> ReuseTimegap]
  <1>1. /\ IInv /\ Finite /\ held[h] # None /\ phase = "open"
        /\ UNCHANGED <<phase, inits, delayUp, used>>
        /\ HeldBytes \in Int /\ PendingBytes \in Int /\ Bytes(freeList) \in Int
    BY CountTypes DEF CInv, FInv, SInv, Free
  <1>2. b \in Block /\ b.size = held[h].size /\ b.size \in Int
    BY <1>1, Lists, MoveFacts, BlockFields
  <1>3. HeldBytes' = HeldBytes - b.size
    BY <1>1, <1>2, TakeBytes DEF Free
  <1>4. CASE DoFree(b) /\ UNCHANGED pending
    <2>1. Bytes(freeList') = Bytes(freeList) + b.size
      BY <1>1, <1>2, <1>4, DoFreeBytes
    <2>2. PendingBytes' = PendingBytes
      BY <1>4 DEF PendingBytes
    <2> HIDE DEF b
    <2>3. QED
      BY <1>1, <1>2, <1>3, <2>1, <2>2, ConstantFacts DEF CInv, Accounted, Conserved
  <1>5. CASE pending' = Append(pending, t) /\ UNCHANGED freeList
    <2>1. t \in [block : Block, wait : 0 .. ReuseTimegap] /\ t.block = b
      BY <1>2, ConstantFacts
    <2>2. PendingBytes' = PendingBytes + b.size
      <3> HIDE DEF t, b
      <3>1. QED
        BY <1>1, <1>5, <2>1, QueueBytes
    <2> HIDE DEF b, t
    <2>3. Bytes(freeList)' = Bytes(freeList)
      BY <1>5
    <2>4. Conserved'
      BY <1>1, <1>2, <1>3, <2>2, <2>3, ConstantFacts DEF CInv, Accounted, Conserved
    <2>5. QED
      BY <1>1, <2>4 DEF CInv, Accounted
  <1>6. CASE inits # 1
    BY <1>1, <1>6 DEF CInv, Accounted, Conserved
  <1>7. CASE inits = 1 /\ ReuseTimegap # 0
    <2>1. delayUp
      BY <1>1, <1>7 DEF CInv, Accounted
    <2>2. QED
      BY <1>5, <1>7, <2>1 DEF Free
  <1>8. QED
    BY <1>4, <1>6, <1>7 DEF Free

LEMMA DelayedFreeBytes ==
    ASSUME CInv, useFreeList, DelayedFree
    PROVE  Accounted'
  <1>1. /\ IInv /\ Finite /\ UNCHANGED <<phase, inits, delayUp, used, held>>
        /\ pending # <<>> /\ pending' = Tail(pending)
        /\ HeldBytes \in Int /\ PendingBytes \in Int /\ Bytes(freeList) \in Int
    BY CountTypes DEF CInv, FInv, SInv, DelayedFree
  <1> DEFINE b == pending[1].block
  <1>2. 1 \in DOMAIN pending /\ Head(pending) = pending[1]
    BY <1>1 DEF IInv, TypeOK
  <1>3. b \in Block /\ b.size \in Int /\ DoFree(b)
    BY <1>1, <1>2, PendingType, BlockFields DEF IInv, DelayedFree
  <1>4. Bytes(freeList') = Bytes(freeList) + b.size
    BY <1>1, <1>3, DoFreeBytes
  <1>5. PendingBytes' = PendingBytes - b.size
    BY <1>1, DequeueBytes
  <1>6. HeldBytes' = HeldBytes
    BY <1>1 DEF HeldBytes, Holding
  <1> HIDE DEF b
  <1>7. QED
    BY <1>1, <1>3, <1>4, <1>5, <1>6, ConstantFacts DEF CInv, Accounted, Conserved

LEMMA TickBytes ==
    ASSUME CInv, Tick
    PROVE  Accounted'
  <1> DEFINE f == [i \in DOMAIN pending |-> pending[i].block.size]
             k == [i \in DOMAIN pending' |-> pending'[i].block.size]
  <1>1. IInv /\ UNCHANGED <<phase, inits, delayUp, used, held, freeList>>
    BY DEF CInv, FInv, SInv, Tick
  <1>2. f = k
    <2>1. \A i \in DOMAIN pending : pending[i] \in [block : Block, wait : 0 .. ReuseTimegap]
      BY <1>1, PendingType DEF IInv
    <2>2. DOMAIN pending' = DOMAIN pending /\ \A i \in DOMAIN pending : pending'[i].block = pending[i].block
      BY <2>1 DEF Tick
    <2>3. QED
      BY <2>2
  <1>3. PendingBytes' = PendingBytes
    BY <1>2 DEF PendingBytes
  <1>4. HeldBytes' = HeldBytes
    BY <1>1 DEF HeldBytes, Holding
  <1>5. QED
    BY <1>1, <1>3, <1>4 DEF CInv, Accounted, Conserved

LEMMA QuietBytes ==
    ASSUME CInv, UNCHANGED <<phase, inits, delayUp, used, held, pending, freeList>>
    PROVE  Accounted'
  BY DEF CInv, Accounted, Conserved, HeldBytes, PendingBytes, Holding

LEMMA NextCInv == CInv /\ useFreeList /\ [Next]_vars => CInv'
  <1> SUFFICES ASSUME CInv, useFreeList, [Next]_vars PROVE Accounted'
    BY NextFInv, NextFinite DEF CInv, FInv, SInv
  <1>1. ASSUME NEW ro \in BOOLEAN, InitPool(ro) PROVE Accounted'
    BY <1>1, InitPoolBytes
  <1>2. CASE InitHeader
    BY <1>2, InitHeaderBytes
  <1>3. ASSUME NEW h \in Handles, NEW size \in Sizes, Alloc(h, size) PROVE Accounted'
    BY <1>3, AllocBytes
  <1>4. ASSUME NEW h \in Handles, Free(h) PROVE Accounted'
    BY <1>4, FreeBytes
  <1>5. CASE DelayedFree
    BY <1>5, DelayedFreeBytes
  <1>6. CASE Tick
    BY <1>6, TickBytes
  <1>7. CASE SetFreeList \/ UNCHANGED vars
    BY <1>7, QuietBytes DEF SetFreeList, vars
  <1>8. CASE Release
    BY <1>8 DEF Release, CInv, FInv, SInv, Sessions, Accounted, Conserved
  <1>9. CASE DumpFreeList \/ DumpEntry \/ DumpFails \/ DumpCount \/ DumpTruncate \/ Disk
    <2>1. phase \notin {"sizing", "open", "closed"} /\ phase' \notin {"sizing", "open"} /\ inits' = inits
      BY <1>9 DEF DumpFreeList, DumpEntry, DumpFails, DumpCount, DumpTruncate, Disk
    <2>2. inits # 0
      BY <2>1 DEF CInv, FInv, SInv, Sessions
    <2>3. QED
      BY <2>1, <2>2 DEF Accounted, Conserved
  <1>10. CASE Construct \/ Destroy \/ Crash
    BY <1>10 DEF Construct, Destroy, Crash, Fresh, Accounted, Conserved
  <1>11. QED
    BY <1>1, <1>2, <1>3, <1>4, <1>5, <1>6, <1>7, <1>8, <1>9, <1>10 DEF Next

\* No byte of a new file is ever lost: whatever the clients and the delay thread do, until
\* the file is opened again every byte below the used mark is reserved, handed out, waiting
\* or free.  DisableFreeList drops blocks by design.
THEOREM NothingLost == Spec /\ []useFreeList => []Conserved
  <1>1. Init => CInv
    BY InitFInv, InitFinite DEF CInv, Accounted, Conserved, Init
  <1>2. CInv => Conserved
    BY DEF CInv, Accounted
  <1>3. QED
    BY NextCInv, <1>1, <1>2, PTL DEF Spec

=============================================================================
