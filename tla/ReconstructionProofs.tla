------------------------- MODULE ReconstructionProofs -------------------------
(***************************************************************************)
(* Proofs about Gf2p16, for every width and polynomial for which 3 is a    *)
(* generator, and about Reconstruction, for any numbers of shards, any     *)
(* exponents and any shards missing.                                       *)
(***************************************************************************)
EXTENDS Reconstruction, FiniteSetTheorems, SequenceTheorems, WellFoundedInduction, TLAPS

(* Numbers. *)

Below == {pair \in Nat \X Nat : pair[1] < pair[2]}

LEMMA LeastNatural ==
  ASSUME NEW S \in SUBSET Nat, S # {}
  PROVE  \E x \in S : \A y \in S : x <= y
<1>1. IsWellFoundedOn(Below, Nat)
  BY NatLessThanWellFounded DEF OpToRel, Below
<1>2. PICK x \in S : \A y \in S : <<y, x>> \notin Below
  BY <1>1, WFMin, Zenon
<1>3. ASSUME NEW y \in S PROVE x <= y
  <2>1. ~(y < x)
    BY <1>2, x \in Nat, y \in Nat DEF Below
  <2>2. QED BY <2>1, x \in Nat, y \in Nat, SMT
<1>4. QED BY <1>3

\* Induction: a set of numbers with 0 and the successor of each has them all.
LEMMA Induction ==
  ASSUME NEW S \in SUBSET Nat, 0 \in S, \A x \in S : x + 1 \in S
  PROVE  S = Nat
<1>1. SUFFICES ASSUME Nat \ S # {} PROVE FALSE
  OBVIOUS
<1>2. PICK x \in Nat \ S : \A y \in Nat \ S : x <= y
  BY <1>1, LeastNatural
<1>3. x - 1 \in Nat /\ x - 1 \notin Nat \ S
  BY <1>2
<1>4. QED BY <1>2, <1>3

\* A function over 0 .. last can be defined by a value at 0 and a step.
IsRecursive(f, S, c, last, step) ==
  /\ f \in [0 .. last -> S]
  /\ f[0] = c
  /\ \A k \in 1 .. last : f[k] = step[<<k, f[k - 1]>>]

LEMMA Recursion ==
  ASSUME NEW S, NEW c \in S, NEW last \in Nat, NEW step \in [(1 .. last) \X S -> S]
  PROVE  \E f : IsRecursive(f, S, c, last, step)
<1> DEFINE D == {l \in Nat : l <= last => \E f : IsRecursive(f, S, c, l, step)}
<1>1. 0 \in D
  <2>1. IsRecursive([k \in 0 .. 0 |-> c], S, c, 0, step)
    BY DEF IsRecursive
  <2>2. QED BY <2>1
<1>2. ASSUME NEW l \in D PROVE l + 1 \in D
  <2>1. SUFFICES ASSUME l + 1 <= last PROVE \E f : IsRecursive(f, S, c, l + 1, step)
    OBVIOUS
  <2>2. PICK f : IsRecursive(f, S, c, l, step)
    BY <2>1
  <2> DEFINE new == step[<<l + 1, f[l]>>]
             g   == [k \in 0 .. l + 1 |-> IF k = l + 1 THEN new ELSE f[k]]
  <2>3. new \in S
    BY <2>1, <2>2 DEF IsRecursive
  <2>4. g \in [0 .. l + 1 -> S] /\ g[0] = c
    BY <2>2, <2>3 DEF IsRecursive
  <2>5. ASSUME NEW k \in 1 .. l + 1 PROVE g[k] = step[<<k, g[k - 1]>>]
    <3>1. CASE k = l + 1
      <4>1. g[k] = new /\ g[k - 1] = f[l]
        BY <3>1
      <4>2. QED BY <3>1, <4>1
    <3>2. CASE k # l + 1
      <4>1. k \in 1 .. l /\ g[k] = f[k] /\ g[k - 1] = f[k - 1]
        BY <3>2
      <4>2. QED BY <2>2, <4>1 DEF IsRecursive
    <3>3. QED BY <3>1, <3>2
  <2> HIDE DEF g
  <2>6. IsRecursive(g, S, c, l + 1, step)
    BY <2>4, <2>5 DEF IsRecursive
  <2>7. QED BY <2>6
<1>3. D = Nat
  <2> HIDE DEF D
  <2>1. D \in SUBSET Nat
    BY DEF D
  <2>2. QED BY <1>1, <1>2, <2>1, Induction
<1>4. last \in D
  BY <1>3
<1>5. QED BY <1>4

LEMMA Division ==
  ASSUME NEW w \in Nat \ {0}, NEW q \in Int
  PROVE  \E d \in Int, r \in 0 .. w - 1 : q % w = r /\ q = (w * d) + r
<1>1. q % w \in 0 .. w - 1 /\ q \div w \in Int /\ q = (w * (q \div w)) + (q % w)
  OBVIOUS
<1>2. PICK d \in Int : d = q \div w
  BY <1>1
<1>3. PICK r \in 0 .. w - 1 : r = q % w
  BY <1>1
<1>4. q % w = r /\ q = (w * d) + r
  BY <1>1, <1>2, <1>3
<1>5. QED BY <1>4

LEMMA DivisionUnique ==
  ASSUME NEW w \in Nat \ {0}, NEW d \in Int, NEW r \in 0 .. w - 1
  PROVE  ((w * d) + r) % w = r
  OBVIOUS

LEMMA SumModulo ==
  ASSUME NEW w \in Nat \ {0}, NEW q \in Nat, NEW s \in Nat
  PROVE  ((q % w) + s) % w = (q + s) % w
<1>1. PICK d \in Int, r \in 0 .. w - 1 : q % w = r /\ q = (w * d) + r
  BY q \in Int, Division
<1>2. PICK e \in Int, u \in 0 .. w - 1 : (r + s) % w = u /\ r + s = (w * e) + u
  BY r + s \in Int, Division
<1>3. q + s = (w * (d + e)) + u
  BY <1>1, <1>2
<1>4. d + e \in Int
  OBVIOUS
<1>5. ((w * (d + e)) + u) % w = u
  BY <1>4, DivisionUnique
<1>6. QED BY <1>1, <1>2, <1>3, <1>5

LEMMA ProductModulo ==
  ASSUME NEW w \in Nat \ {0}, NEW q \in Nat, NEW s \in Nat
  PROVE  ((q % w) * s) % w = (q * s) % w
<1>1. PICK d \in Int, r \in 0 .. w - 1 : q % w = r /\ q = (w * d) + r
  BY q \in Int, Division
<1>2. PICK e \in Int, u \in 0 .. w - 1 : (r * s) % w = u /\ r * s = (w * e) + u
  <2>1. r * s \in Int
    OBVIOUS
  <2>2. QED BY <2>1, Division
<1>3. q * s = (w * ((d * s) + e)) + u
  <2>1. q * s = (w * d) * s + r * s
    BY <1>1
  <2>2. (w * d) * s = w * (d * s)
    OBVIOUS
  <2>3. w * ((d * s) + e) = w * (d * s) + w * e
    OBVIOUS
  <2>4. QED BY <1>2, <2>1, <2>2, <2>3
<1>4. (d * s) + e \in Int
  OBVIOUS
<1>5. ((w * ((d * s) + e)) + u) % w = u
  BY <1>4, DivisionUnique
<1>6. QED BY <1>1, <1>2, <1>3, <1>5

LEMMA NextModulo ==
  ASSUME NEW w \in Nat \ {0}, NEW q \in Nat
  PROVE  /\ (q + 1) % w = (IF q % w = w - 1 THEN 0 ELSE (q % w) + 1)
         /\ (q + w) % w = q % w
<1>1. PICK d \in Int, r \in 0 .. w - 1 : q % w = r /\ q = (w * d) + r
  BY q \in Int, Division
<1>2. ((w * (d + 1)) + r) % w = r /\ ((w * (d + 1)) + 0) % w = 0
  BY DivisionUnique
<1>3. q + w = (w * (d + 1)) + r
  BY <1>1
<1>4. CASE r = w - 1
  <2>1. q + 1 = (w * (d + 1)) + 0
    BY <1>1, <1>4
  <2>2. QED BY <1>1, <1>2, <1>3, <1>4, <2>1
<1>5. CASE r # w - 1
  <2>1. q + 1 = (w * d) + (r + 1) /\ r + 1 \in 0 .. w - 1
    BY <1>1, <1>5
  <2>2. ((w * d) + (r + 1)) % w = r + 1
    BY <2>1, DivisionUnique
  <2>3. QED BY <1>1, <1>2, <1>3, <1>5, <2>1, <2>2
<1>6. QED BY <1>4, <1>5

LEMMA SmallModulo ==
  ASSUME NEW w \in Nat \ {0}, NEW q \in 0 .. w - 1
  PROVE  q % w = q /\ w % w = 0
<1>1. (w * 0) + q = q /\ (w * 1) + 0 = w
  OBVIOUS
<1>2. QED BY <1>1, DivisionUnique

-------------------------------------------------------------------------------
(* Sums. *)

LEMMA PlusFacts ==
  ASSUME NEW x, NEW y, NEW z
  PROVE  /\ Plus(x, y) = Plus(y, x) /\ Plus(Plus(x, y), z) = Plus(x, Plus(y, z))
         /\ Plus(x, x) = Zero /\ Plus(x, Zero) = x /\ Plus(Zero, x) = x
         /\ Plus(Plus(x, y), y) = x
  BY DEF Plus, Zero

\* Exchange of the middle ones of four.
LEMMA PlusSwap ==
  ASSUME NEW x, NEW y, NEW u, NEW v
  PROVE  Plus(Plus(x, y), Plus(u, v)) = Plus(Plus(x, u), Plus(y, v))
  BY DEF Plus

LEMMA PlusType ==
  ASSUME NEW x \in Element, NEW y \in Element
  PROVE  Plus(x, y) \in Element /\ (Plus(x, y) = Zero <=> x = y)
  BY DEF Plus, Zero, Element

LEMMA ElementFacts ==
  /\ Zero \in Element /\ One \in Element /\ One # Zero
  /\ Width \in Nat /\ Width >= 4 /\ Width <= 32
<1>1. Width \in 1 .. 32 /\ Width % 4 = 0
  BY WidthAssumption
<1>2. Width \in Nat /\ Width >= 4 /\ Width <= 32
  BY <1>1
<1>3. QED BY <1>2 DEF Zero, One, Element

Odd(S) == Cardinality(S) % 2 = 1

LEMMA OddFacts ==
  ASSUME NEW S, IsFiniteSet(S), NEW U, IsFiniteSet(U)
  PROVE  /\ IsFiniteSet(Plus(S, U))
         /\ Odd(Plus(S, U)) <=> ~(Odd(S) <=> Odd(U))
<1>1. /\ IsFiniteSet(S \ U) /\ IsFiniteSet(U \ S)
      /\ Cardinality(S \ U) = Cardinality(S) - Cardinality(S \cap U)
      /\ Cardinality(U \ S) = Cardinality(U) - Cardinality(U \cap S)
  BY FS_Difference
<1>2. S \cap U = U \cap S /\ IsFiniteSet(S \cap U)
  BY FS_Intersection
<1>3. Cardinality((S \ U) \cap (U \ S)) = 0
  <2>1. (S \ U) \cap (U \ S) = {}
    OBVIOUS
  <2>2. QED BY <2>1, FS_EmptySet
<1>4. /\ IsFiniteSet(Plus(S, U))
      /\ Cardinality(Plus(S, U)) = Cardinality(S \ U) + Cardinality(U \ S)
  <2>1. /\ IsFiniteSet((S \ U) \cup (U \ S))
        /\ Cardinality((S \ U) \cup (U \ S)) =
             Cardinality(S \ U) + Cardinality(U \ S) - Cardinality((S \ U) \cap (U \ S))
    BY <1>1, FS_Union
  <2>2. Cardinality(S \ U) \in Nat /\ Cardinality(U \ S) \in Nat
    BY <1>1, FS_CardinalityType
  <2>3. QED BY <1>3, <2>1, <2>2 DEF Plus
<1>5. /\ Cardinality(S) \in Nat /\ Cardinality(U) \in Nat /\ Cardinality(S \cap U) \in Nat
      /\ Cardinality(S \ U) \in Nat /\ Cardinality(U \ S) \in Nat
  BY <1>1, <1>2, FS_CardinalityType
<1>6. PICK s, u, b \in Nat : /\ s = Cardinality(S) /\ u = Cardinality(U)
                           /\ b = Cardinality(S \cap U)
  BY <1>5
<1>7. Cardinality(Plus(S, U)) % 2 = (Cardinality(S) + Cardinality(U)) % 2
  <2>1. Cardinality(Plus(S, U)) = (s - b) + (u - b)
    BY <1>1, <1>2, <1>4, <1>6
  <2>2. ((s - b) + (u - b)) % 2 = (s + u) % 2
    OBVIOUS
  <2>3. QED BY <1>6, <2>1, <2>2
<1>8. \A a, d \in Nat : (a + d) % 2 = 1 <=> ~(a % 2 = 1 <=> d % 2 = 1)
  OBVIOUS
<1>9. QED BY <1>4, <1>5, <1>7, <1>8 DEF Odd

LEMMA OddSmall == ~Odd({}) /\ \A x : Odd({x})
<1>1. Cardinality({}) = 0 /\ \A x : Cardinality({x}) = 1
  BY FS_EmptySet, FS_Singleton
<1>2. 0 % 2 = 0 /\ 1 % 2 = 1
  OBVIOUS
<1>3. QED BY <1>1, <1>2 DEF Odd

\* Bit k of a sum is the parity of the number of bits k.
LEMMA SumFacts ==
  ASSUME NEW f
  PROVE  SumOf(f) \in Element /\ \A k \in 0 .. Width - 1 : k \in SumOf(f) <=> Odd({x \in DOMAIN f : k \in f[x]})
  BY DEF SumOf, Element, Odd

LEMMA SumZero ==
  ASSUME NEW f, \A x \in DOMAIN f : f[x] = Zero
  PROVE  SumOf(f) = Zero
<1>1. \A k : {x \in DOMAIN f : k \in f[x]} = {}
  BY DEF Zero
<1>2. ~Odd({})
  BY OddSmall
<1>3. QED BY <1>1, <1>2, SumFacts DEF Element, Zero

\* The only term that is not zero.
LEMMA SumPick ==
  ASSUME NEW D, NEW f \in [D -> Element], NEW a \in D, \A x \in D \ {a} : f[x] = Zero
  PROVE  SumOf(f) = f[a]
<1>1. ASSUME NEW k \in 0 .. Width - 1 PROVE k \in SumOf(f) <=> k \in f[a]
  <2>1. {x \in DOMAIN f : k \in f[x]} = IF k \in f[a] THEN {a} ELSE {}
    BY DEF Zero
  <2>2. Odd({a}) /\ ~Odd({})
    BY OddSmall
  <2>3. QED BY <2>1, <2>2, SumFacts
<1>2. SumOf(f) \in Element /\ f[a] \in Element
  BY SumFacts
<1>3. QED BY <1>1, <1>2 DEF Element

LEMMA SumPlus ==
  ASSUME NEW D, IsFiniteSet(D), NEW f \in [D -> Element], NEW g \in [D -> Element]
  PROVE  SumOf([x \in D |-> Plus(f[x], g[x])]) = Plus(SumOf(f), SumOf(g))
<1> DEFINE h == [x \in D |-> Plus(f[x], g[x])]
<1>1. ASSUME NEW k \in 0 .. Width - 1 PROVE k \in SumOf(h) <=> k \in Plus(SumOf(f), SumOf(g))
  <2> DEFINE A == {x \in D : k \in f[x]}
             B == {x \in D : k \in g[x]}
             C == {x \in D : k \in h[x]}
  <2>1. IsFiniteSet(A) /\ IsFiniteSet(B)
    BY FS_Subset
  <2>2. C = Plus(A, B)
    BY DEF Plus
  <2>3. Odd(C) <=> ~(Odd(A) <=> Odd(B))
    <3> HIDE DEF A, B, C
    <3>1. Odd(Plus(A, B)) <=> ~(Odd(A) <=> Odd(B))
      BY <2>1, OddFacts
    <3>2. QED BY <2>2, <3>1
  <2>4. DOMAIN f = D /\ DOMAIN g = D /\ DOMAIN h = D
    OBVIOUS
  <2> HIDE DEF h
  <2>5. (k \in SumOf(f) <=> Odd(A)) /\ (k \in SumOf(g) <=> Odd(B)) /\ (k \in SumOf(h) <=> Odd(C))
    BY <2>4, SumFacts
  <2>6. QED BY <2>3, <2>5 DEF Plus
<1>2. SumOf(h) \in Element /\ Plus(SumOf(f), SumOf(g)) \in Element
  BY SumFacts, PlusType
<1>3. QED BY <1>1, <1>2 DEF Element

\* Terms that are zero may be left out.
LEMMA SumRestrict ==
  ASSUME NEW D, NEW f \in [D -> Element], NEW C \in SUBSET D, \A x \in D \ C : f[x] = Zero
  PROVE  SumOf(f) = SumOf([x \in C |-> f[x]])
<1> DEFINE g == [x \in C |-> f[x]]
<1>1. ASSUME NEW k PROVE {x \in DOMAIN f : k \in f[x]} = {x \in DOMAIN g : k \in g[x]}
  BY DEF Zero
<1> HIDE DEF g
<1>2. \A k \in 0 .. Width - 1 : k \in SumOf(f) <=> k \in SumOf(g)
  <2>1. ASSUME NEW k \in 0 .. Width - 1 PROVE k \in SumOf(f) <=> k \in SumOf(g)
    <3>1. k \in SumOf(f) <=> Odd({x \in DOMAIN f : k \in f[x]})
      BY SumFacts
    <3>2. k \in SumOf(g) <=> Odd({x \in DOMAIN g : k \in g[x]})
      BY SumFacts
    <3>3. QED BY <1>1, <3>1, <3>2
  <2>2. QED BY <2>1
<1>3. SumOf(f) \in Element /\ SumOf(g) \in Element
  BY SumFacts
<1>4. SumOf(f) = SumOf(g)
  BY <1>2, <1>3 DEF Element
<1>5. QED BY <1>4 DEF g

\* The only two terms that are not zero.
LEMMA SumTwo ==
  ASSUME NEW D, IsFiniteSet(D), NEW f \in [D -> Element], NEW a \in D, NEW b \in D, a # b,
         \A x \in D \ {a, b} : f[x] = Zero
  PROVE  SumOf(f) = Plus(f[a], f[b])
<1> DEFINE g == [x \in D |-> IF x = a THEN f[a] ELSE Zero]
           h == [x \in D |-> IF x = b THEN f[b] ELSE Zero]
<1>1. g \in [D -> Element] /\ h \in [D -> Element]
  BY ElementFacts
<1>2. SumOf(g) = f[a] /\ SumOf(h) = f[b]
  <2>1. g[a] = f[a] /\ \A x \in D \ {a} : g[x] = Zero
    OBVIOUS
  <2>2. h[b] = f[b] /\ \A x \in D \ {b} : h[x] = Zero
    OBVIOUS
  <2> HIDE DEF g, h
  <2>3. SumOf(g) = g[a]
    BY <1>1, <2>1, SumPick
  <2>4. SumOf(h) = h[b]
    BY <1>1, <2>2, SumPick
  <2>5. QED BY <2>1, <2>2, <2>3, <2>4
<1>3. f = [x \in D |-> Plus(g[x], h[x])]
  <2>1. ASSUME NEW x \in D PROVE f[x] = Plus(g[x], h[x])
    <3>1. Plus(f[x], Zero) = f[x] /\ Plus(Zero, f[x]) = f[x] /\ Plus(Zero, Zero) = Zero
      BY PlusFacts
    <3>2. QED BY <3>1
  <2> HIDE DEF g, h
  <2>2. QED BY <2>1
<1> HIDE DEF g, h
<1>4. SumOf(f) = Plus(SumOf(g), SumOf(h))
  BY <1>1, <1>3, SumPlus
<1>5. QED BY <1>2, <1>4

\* The last term apart.
LEMMA SumLast ==
  ASSUME NEW s \in Nat, NEW f \in [0 .. s -> Element]
  PROVE  SumOf(f) = Plus(SumOf([x \in 0 .. s - 1 |-> f[x]]), f[s])
<1> DEFINE g == [x \in 0 .. s |-> IF x = s THEN Zero ELSE f[x]]
           h == [x \in 0 .. s |-> IF x = s THEN f[s] ELSE Zero]
<1>1. g \in [0 .. s -> Element] /\ h \in [0 .. s -> Element] /\ IsFiniteSet(0 .. s)
  BY ElementFacts, FS_Interval
<1>2. SumOf(h) = f[s]
  <2>1. h[s] = f[s] /\ s \in 0 .. s /\ \A x \in (0 .. s) \ {s} : h[x] = Zero
    OBVIOUS
  <2> HIDE DEF h
  <2>2. SumOf(h) = h[s]
    BY <1>1, <2>1, SumPick
  <2>3. QED BY <2>1, <2>2
<1>3. SumOf(g) = SumOf([x \in 0 .. s - 1 |-> f[x]])
  <2>1. 0 .. s - 1 \in SUBSET (0 .. s) /\ \A x \in (0 .. s) \ (0 .. s - 1) : g[x] = Zero
    OBVIOUS
  <2>2. [x \in 0 .. s - 1 |-> g[x]] = [x \in 0 .. s - 1 |-> f[x]]
    OBVIOUS
  <2> HIDE DEF g
  <2>3. QED BY <1>1, <2>1, <2>2, SumRestrict
<1>4. f = [x \in 0 .. s |-> Plus(g[x], h[x])]
  <2>1. ASSUME NEW x \in 0 .. s PROVE f[x] = Plus(g[x], h[x])
    <3>1. Plus(f[x], Zero) = f[x] /\ Plus(Zero, f[x]) = f[x]
      BY PlusFacts
    <3>2. QED BY <3>1
  <2> HIDE DEF g, h
  <2>2. QED BY <2>1
<1> HIDE DEF g, h
<1>5. SumOf(f) = Plus(SumOf(g), SumOf(h))
  BY <1>1, <1>4, SumPlus
<1>6. QED BY <1>2, <1>3, <1>5

Additive(g) ==
  g \in [Element -> Element] /\ \A x, y \in Element : g[Plus(x, y)] = Plus(g[x], g[y])

LEMMA AdditiveZero ==
  ASSUME NEW g, Additive(g)
  PROVE  g[Zero] = Zero
<1>1. Zero \in Element /\ Plus(Zero, Zero) = Zero
  BY ElementFacts, PlusFacts
<1>2. g[Zero] = Plus(g[Zero], g[Zero])
  BY <1>1 DEF Additive
<1>3. QED BY <1>2, PlusFacts

\* The image of a sum is the sum of the images.
LEMMA SumImage ==
  ASSUME NEW s \in Nat, NEW f \in [0 .. s - 1 -> Element], NEW g, Additive(g)
  PROVE  g[SumOf(f)] = SumOf([x \in 0 .. s - 1 |-> g[f[x]]])
<1> DEFINE left(l)  == [x \in 0 .. l - 1 |-> f[x]]
           right(l) == [x \in 0 .. l - 1 |-> g[f[x]]]
           Right(l) == l <= s => g[SumOf(left(l))] = SumOf(right(l))
           R == {l \in Nat : Right(l)}
<1>1. Right(0)
  <2>1. \A x \in 0 .. 0 - 1 : FALSE
    OBVIOUS
  <2>2. SumOf(left(0)) = Zero /\ SumOf(right(0)) = Zero
    BY <2>1, SumZero
  <2>3. QED BY <2>2, AdditiveZero
<1>2. ASSUME NEW l \in Nat, Right(l) PROVE Right(l + 1)
  <2>1. SUFFICES ASSUME l + 1 <= s PROVE g[SumOf(left(l + 1))] = SumOf(right(l + 1))
    OBVIOUS
  <2>2. left(l + 1) \in [0 .. l -> Element] /\ right(l + 1) \in [0 .. l -> Element]
    BY <2>1 DEF Additive
  <2>3. /\ left(l) = [x \in 0 .. l - 1 |-> left(l + 1)[x]] /\ left(l + 1)[l] = f[l]
        /\ right(l) = [x \in 0 .. l - 1 |-> right(l + 1)[x]] /\ right(l + 1)[l] = g[f[l]]
    OBVIOUS
  <2>4. f[l] \in Element /\ l <= s
    BY <2>1
  <2> HIDE DEF left, right
  <2>5. SumOf(left(l + 1)) = Plus(SumOf(left(l)), f[l])
    BY <2>2, <2>3, SumLast
  <2>6. SumOf(right(l + 1)) = Plus(SumOf(right(l)), g[f[l]])
    BY <2>2, <2>3, SumLast
  <2>7. SumOf(left(l)) \in Element
    BY SumFacts
  <2>8. g[Plus(SumOf(left(l)), f[l])] = Plus(g[SumOf(left(l))], g[f[l]])
    BY <2>4, <2>7 DEF Additive
  <2>9. QED BY <1>2, <2>4, <2>5, <2>6, <2>8
<1>3. R = Nat
  <2> HIDE DEF Right
  <2>1. 0 \in R /\ \A l \in R : l + 1 \in R
    BY <1>1, <1>2
  <2> HIDE DEF R
  <2>2. R \in SUBSET Nat
    BY DEF R
  <2>3. QED BY <2>1, <2>2, Induction
<1>4. Right(s)
  BY <1>3
<1>5. left(s) = f
  OBVIOUS
<1>6. QED BY <1>4, <1>5

-------------------------------------------------------------------------------
(* Remainders of polynomials. *)

Poly == SUBSET (0 .. 63)
Shifted(p, s) == {k + s : k \in p}

LEMMA DegreeFacts ==
  ASSUME NEW p \in Poly, p # {}
  PROVE  Degree(p) \in p /\ Degree(p) \in 0 .. 63 /\ \A k \in p : k <= Degree(p)
<1> DEFINE D == {63 - k : k \in p}
<1>1. D \in SUBSET Nat /\ D # {}
  <2>1. \A k \in p : k \in 0 .. 63
    BY DEF Poly
  <2>2. \A k \in p : 63 - k \in Nat
    BY <2>1
  <2>3. QED BY <2>2
<1>2. PICK x \in D : \A y \in D : x <= y
  <2> HIDE DEF D
  <2>1. QED BY <1>1, LeastNatural
<1>3. PICK k \in p : x = 63 - k
  BY <1>2
<1>4. \A l \in p : l <= k
  <2>1. ASSUME NEW l \in p PROVE l <= k
    <3>1. 63 - k <= 63 - l
      BY <1>2, <1>3
    <3>2. k \in 0 .. 63 /\ l \in 0 .. 63
      BY DEF Poly
    <3>3. QED BY <3>1, <3>2
  <2>2. QED BY <2>1
<1>5. Degree(p) \in p /\ \A l \in p : l <= Degree(p)
  BY <1>4 DEF Degree
<1>6. QED BY <1>5 DEF Poly

LEMMA ModulusFacts ==
  /\ Modulus \in Poly /\ Modulus \subseteq 0 .. Width /\ Width \in Modulus
  /\ Modulus # {} /\ Degree(Modulus) = Width
<1>1. /\ Modulus \subseteq 0 .. Width /\ Width \in Modulus
      /\ Width \in 0 .. 32
  BY WidthAssumption, ElementFacts
<1>2. Modulus \in Poly /\ Modulus # {}
  BY <1>1 DEF Poly
<1>3. Degree(Modulus) \in Modulus /\ Width <= Degree(Modulus)
  BY <1>1, <1>2, DegreeFacts
<1>4. Degree(Modulus) = Width
  <2>1. Degree(Modulus) \in 0 .. Width
    BY <1>1, <1>3
  <2>2. QED BY <1>1, <1>3, <2>1
<1>5. QED BY <1>1, <1>2, <1>4

LEMMA ElementPoly == Element \subseteq Poly
  BY ElementFacts DEF Element, Poly

\* What a step of the division keeps is true of the remainder, which has fewer
\* than Width bits.
LEMMA RemFacts ==
  ASSUME NEW S \in SUBSET Poly, NEW p \in S,
         \A r \in S, s \in Nat :
           Width + s \in r /\ (\A k \in r : k <= Width + s) => Plus(r, Shifted(Modulus, s)) \in S
  PROVE  PolyRem(p, Modulus) \in S /\ PolyRem(p, Modulus) \in Element
<1> DEFINE above(r) == IF r = {} \/ Degree(r) < Degree(Modulus) THEN 0
                       ELSE Degree(r) - Degree(Modulus) + 1
           step(r)  == IF above(r) = 0 THEN r
                       ELSE Plus(r, {k + above(r) - 1 : k \in Modulus})
           Fits(f)  == f = [l \in 0 .. above(p) |-> IF l = 0 THEN p ELSE step(f[l - 1])]
<1>1. ASSUME NEW r \in Poly
      PROVE  /\ above(r) \in Nat
             /\ above(r) = 0 => r \in Element
             /\ above(r) # 0 => /\ Width + (above(r) - 1) \in r
                                /\ \A k \in r : k <= Width + (above(r) - 1)
             /\ \A b \in Nat : (\A k \in r : k < Width + b) => above(r) <= b
  <2>1. Degree(Modulus) = Width /\ Width \in Nat
    BY ModulusFacts, ElementFacts
  <2>2. CASE r = {}
    <3>1. above(r) = 0
      BY <2>2
    <3>2. r \in Element
      BY <2>2 DEF Element
    <3>3. QED BY <3>1, <3>2
  <2>3. CASE r # {}
    <3>1. Degree(r) \in r /\ Degree(r) \in 0 .. 63 /\ \A k \in r : k <= Degree(r)
      BY <2>3, DegreeFacts
    <3>2. CASE Degree(r) < Width
      <4>1. above(r) = 0
        BY <2>1, <3>2
      <4>2. \A k \in r : k \in 0 .. 63
        BY DEF Poly
      <4>3. \A k \in r : k \in 0 .. Width - 1
        BY <2>1, <3>1, <3>2, <4>2
      <4>4. QED BY <4>1, <4>3 DEF Element
    <3>3. CASE ~(Degree(r) < Width)
      <4>1. above(r) = Degree(r) - Width + 1
        BY <2>1, <2>3, <3>3
      <4>2. \A k \in r : k \in 0 .. 63
        BY DEF Poly
      <4> HIDE DEF above
      <4>3. above(r) \in Nat /\ above(r) # 0 /\ Width + (above(r) - 1) = Degree(r)
        BY <2>1, <3>1, <3>3, <4>1
      <4>4. ASSUME NEW b \in Nat, \A k \in r : k < Width + b PROVE above(r) <= b
        <5>1. Degree(r) < Width + b
          BY <3>1, <4>4
        <5>2. QED BY <2>1, <3>1, <4>1, <5>1
      <4>5. QED BY <3>1, <4>3, <4>4
    <3>4. QED BY <3>2, <3>3
  <2>4. QED BY <2>2, <2>3
<1>2. \A r \in S : step(r) = IF above(r) = 0 THEN r ELSE Plus(r, Shifted(Modulus, above(r) - 1))
  <2>1. ASSUME NEW r \in S
        PROVE  {k + above(r) - 1 : k \in Modulus} = Shifted(Modulus, above(r) - 1)
    <3>1. above(r) \in Nat
      BY <1>1
    <3>2. \A k \in Modulus : k \in Nat
      BY ModulusFacts, ElementFacts
    <3> HIDE DEF above
    <3>3. \A k \in Modulus : k + above(r) - 1 = k + (above(r) - 1)
      BY <3>1, <3>2
    <3>4. QED BY <3>3 DEF Shifted
  <2>2. QED BY <2>1
<1> HIDE DEF above, step
<1>3. ASSUME NEW r \in S
      PROVE  /\ step(r) \in S
             /\ above(step(r)) <= above(r)
             /\ above(r) # 0 => above(step(r)) <= above(r) - 1
  <2>1. r \in Poly /\ above(r) \in Nat
    BY <1>1
  <2>2. CASE above(r) = 0
    BY <1>2, <2>1, <2>2
  <2>3. CASE above(r) # 0
    <3>1. PICK s \in Nat : s = above(r) - 1
      BY <2>1, <2>3
    <3>2. step(r) = Plus(r, Shifted(Modulus, s)) /\ Width + s \in r /\ \A k \in r : k <= Width + s
      BY <1>1, <1>2, <2>1, <2>3, <3>1
    <3>3. step(r) \in S
      BY <3>2
    <3>4. \A k \in step(r) : k < Width + s
      <4>1. \A k \in Modulus : k \in Nat /\ k <= Width
        BY ModulusFacts, ElementFacts
      <4>2. Width \in Modulus /\ Width \in Nat
        BY ModulusFacts, ElementFacts
      <4>3. \A k \in Shifted(Modulus, s) : k \in Nat /\ k <= Width + s
        BY <4>1, <4>2 DEF Shifted
      <4>4. Width + s \in Shifted(Modulus, s)
        BY <4>2 DEF Shifted
      <4>5. \A k \in r : k \in Nat
        BY <2>1 DEF Poly
      <4>6. \A k \in step(r) : k \in Nat /\ k <= Width + s /\ k # Width + s
        BY <3>2, <4>3, <4>4, <4>5 DEF Plus
      <4>7. QED BY <4>2, <4>6
    <3>5. above(step(r)) <= s
      BY <1>1, <3>3, <3>4
    <3>6. above(step(r)) \in Nat
      BY <1>1, <3>3
    <3>7. QED BY <2>1, <3>1, <3>3, <3>5, <3>6
  <2>4. QED BY <2>2, <2>3
<1>4. above(p) \in Nat
  BY <1>1
<1>5. \E f : Fits(f)
  <2> DEFINE next == [pair \in (1 .. above(p)) \X S |-> step(pair[2])]
  <2>1. next \in [(1 .. above(p)) \X S -> S]
    BY <1>3
  <2>2. \A l \in 1 .. above(p), r \in S : next[<<l, r>>] = step(r)
    OBVIOUS
  <2> HIDE DEF next
  <2>3. PICK f : IsRecursive(f, S, p, above(p), next)
    BY <1>4, <2>1, Recursion
  <2>4. ASSUME NEW l \in 0 .. above(p)
        PROVE  f[l] = IF l = 0 THEN p ELSE step(f[l - 1])
    <3>1. CASE l = 0
      BY <2>3, <3>1 DEF IsRecursive
    <3>2. CASE l # 0
      <4>1. l \in 1 .. above(p) /\ l - 1 \in 0 .. above(p)
        BY <1>4, <3>2
      <4>2. f[l] = next[<<l, f[l - 1]>>] /\ f[l - 1] \in S
        BY <2>3, <4>1 DEF IsRecursive
      <4>3. QED BY <2>2, <3>2, <4>1, <4>2
    <3>3. QED BY <3>1, <3>2
  <2>5. Fits(f)
    BY <2>3, <2>4 DEF IsRecursive
  <2>6. QED BY <2>5
<1>6. PolyRem(p, Modulus) = (CHOOSE f : Fits(f))[above(p)]
  BY DEF PolyRem, above, step
<1>7. PICK f : Fits(f) /\ PolyRem(p, Modulus) = f[above(p)]
  <2> HIDE DEF Fits
  <2>1. QED BY <1>5, <1>6
<1>8. ASSUME NEW l \in 0 .. above(p)
      PROVE  f[l] = IF l = 0 THEN p ELSE step(f[l - 1])
  <2> DEFINE whole == [k \in 0 .. above(p) |-> IF k = 0 THEN p ELSE step(f[k - 1])]
  <2>1. whole[l] = IF l = 0 THEN p ELSE step(f[l - 1])
    OBVIOUS
  <2>2. f = whole
    BY <1>7
  <2> HIDE DEF whole
  <2>3. QED BY <2>1, <2>2
<1> DEFINE Good(l) == l <= above(p) => f[l] \in S /\ above(f[l]) <= above(p) - l
           D == {l \in Nat : Good(l)}
<1>9. Good(0)
  <2>1. f[0] = p
    BY <1>4, <1>8
  <2>2. QED BY <1>4, <2>1
<1>10. ASSUME NEW l \in Nat, Good(l) PROVE Good(l + 1)
  <2>1. SUFFICES ASSUME l + 1 <= above(p)
                 PROVE  f[l + 1] \in S /\ above(f[l + 1]) <= above(p) - (l + 1)
    OBVIOUS
  <2>2. f[l] \in S /\ above(f[l]) <= above(p) - l
    BY <1>4, <1>10, <2>1
  <2>3. f[l + 1] = step(f[l])
    BY <1>4, <1>8, <2>1
  <2>4. above(f[l]) \in Nat /\ above(f[l + 1]) \in Nat /\ f[l + 1] \in S
    BY <1>1, <1>3, <2>2, <2>3
  <2>5. above(f[l + 1]) <= above(f[l]) /\ (above(f[l]) # 0 => above(f[l + 1]) <= above(f[l]) - 1)
    BY <1>3, <2>2, <2>3
  <2>6. QED BY <1>4, <2>1, <2>2, <2>4, <2>5
<1>11. D = Nat
  <2> HIDE DEF Good
  <2>1. 0 \in D /\ \A l \in D : l + 1 \in D
    BY <1>9, <1>10
  <2>2. D \in SUBSET Nat
    OBVIOUS
  <2> HIDE DEF D
  <2>3. QED BY <2>1, <2>2, Induction
<1>12. Good(above(p))
  BY <1>4, <1>11
<1>13. f[above(p)] \in S /\ above(f[above(p)]) = 0
  <2>1. f[above(p)] \in S /\ above(f[above(p)]) <= 0
    BY <1>4, <1>12
  <2>2. above(f[above(p)]) \in Nat
    BY <1>1, <2>1
  <2>3. QED BY <2>1, <2>2
<1>14. QED BY <1>1, <1>7, <1>13

-------------------------------------------------------------------------------
(* Products by 3, the generator. *)

Raised(x) == Plus(x, Shifted(x, 1))
Times3(x) == IF Width \in Raised(x) THEN Plus(Raised(x), Modulus) ELSE Raised(x)

LEMMA RaisedFacts ==
  ASSUME NEW x \in Element, NEW y \in Element
  PROVE  /\ Raised(x) \subseteq 0 .. Width
         /\ Raised(Plus(x, y)) = Plus(Raised(x), Raised(y))
<1>1. \A k \in x : k \in 0 .. Width - 1
  BY DEF Element
<1>2. \A k \in y : k \in 0 .. Width - 1
  BY DEF Element
<1>3. Raised(x) \subseteq 0 .. Width
  BY <1>1, ElementFacts DEF Raised, Plus, Shifted
<1>4. Shifted(Plus(x, y), 1) = Plus(Shifted(x, 1), Shifted(y, 1))
  <2>1. \A k, l \in Int : k + 1 = l + 1 => k = l
    OBVIOUS
  <2>2. (\A k \in x : k \in Int) /\ (\A k \in y : k \in Int)
    BY <1>1, <1>2
  <2>3. QED BY <2>1, <2>2 DEF Plus, Shifted
<1>5. Plus(Plus(x, y), Plus(Shifted(x, 1), Shifted(y, 1))) =
        Plus(Plus(x, Shifted(x, 1)), Plus(y, Shifted(y, 1)))
  BY PlusSwap
<1>6. QED BY <1>3, <1>4, <1>5 DEF Raised

LEMMA Times3Facts ==
  ASSUME NEW x \in Element, NEW y \in Element
  PROVE  /\ Times3(x) \in Element
         /\ Times3(Plus(x, y)) = Plus(Times3(x), Times3(y))
<1>1. /\ Raised(x) \subseteq 0 .. Width /\ Raised(y) \subseteq 0 .. Width
      /\ Raised(Plus(x, y)) = Plus(Raised(x), Raised(y))
  BY RaisedFacts
<1>2. Modulus \subseteq 0 .. Width /\ Width \in Modulus
  BY ModulusFacts
<1>3. Times3(x) \in Element
  <2>1. Times3(x) \subseteq 0 .. Width /\ Width \notin Times3(x)
    BY <1>1, <1>2 DEF Times3, Plus
  <2>2. \A k \in 0 .. Width : k # Width => k \in 0 .. Width - 1
    BY ElementFacts
  <2>3. QED BY <2>1, <2>2 DEF Element
<1>4. \A u, v, q : /\ Plus(Plus(u, q), Plus(v, q)) = Plus(u, v)
                   /\ Plus(Plus(u, q), v) = Plus(Plus(u, v), q)
                   /\ Plus(u, Plus(v, q)) = Plus(Plus(u, v), q)
  BY DEF Plus
<1>5. Width \in Plus(Raised(x), Raised(y)) <=> ~(Width \in Raised(x) <=> Width \in Raised(y))
  BY DEF Plus
<1>6. QED BY <1>1, <1>3, <1>4, <1>5 DEF Times3

LEMMA Times3Right ==
  ASSUME NEW x \in Element
  PROVE  PolyRem(PolyTimes(x, {0, 1}), Modulus) = Times3(x)
<1>1. \A k \in x : k \in 0 .. Width - 1
  BY DEF Element
<1>2. Raised(x) \subseteq 0 .. Width /\ Width \in 4 .. 32
  BY RaisedFacts, ElementFacts
<1>3. PolyTimes(x, {0, 1}) = Raised(x)
  <2>1. ASSUME NEW k \in 0 .. 63
        PROVE  k \in PolyTimes(x, {0, 1}) <=> k \in Raised(x)
    <3> DEFINE A == IF k \in x THEN {k} ELSE {}
               B == IF k - 1 \in x THEN {k - 1} ELSE {}
               C == {l \in x : k - l \in {0, 1}}
    <3>1. C = Plus(A, B)
      <4>1. \A l \in x : k - l \in {0, 1} <=> (l = k \/ l = k - 1)
        BY <1>1
      <4>2. k # k - 1
        OBVIOUS
      <4>3. QED BY <4>1, <4>2 DEF Plus
    <3>2. /\ IsFiniteSet(A) /\ IsFiniteSet(B)
          /\ Odd(A) <=> k \in x
          /\ Odd(B) <=> k - 1 \in x
      BY OddSmall, FS_EmptySet, FS_Singleton
    <3> HIDE DEF A, B
    <3>3. Odd(C) <=> ~(k \in x <=> k - 1 \in x)
      BY <3>1, <3>2, OddFacts
    <3>4. k \in Shifted(x, 1) <=> k - 1 \in x
      <4>1. \A l \in x : k = l + 1 <=> k - 1 = l
        BY <1>1
      <4>2. QED BY <4>1 DEF Shifted
    <3>5. k \in PolyTimes(x, {0, 1}) <=> Odd(C)
      BY DEF PolyTimes, Odd
    <3>6. QED BY <3>3, <3>4, <3>5 DEF Raised, Plus
  <2>2. PolyTimes(x, {0, 1}) \subseteq 0 .. 63 /\ Raised(x) \subseteq 0 .. 63
    BY <1>2 DEF PolyTimes
  <2>3. QED BY <2>1, <2>2
<1> DEFINE S == {Raised(x)} \cup (IF Width \in Raised(x) THEN {Plus(Raised(x), Modulus)} ELSE {})
<1>4. S \in SUBSET Poly /\ Raised(x) \in S
  <2>1. Raised(x) \in Poly
    BY <1>2 DEF Poly
  <2>2. \A u, v \in Poly : Plus(u, v) \in Poly
    BY DEF Poly, Plus
  <2>3. Modulus \in Poly
    BY ModulusFacts
  <2>4. QED BY <2>1, <2>2, <2>3
<1>5. ASSUME NEW r \in S, NEW s \in Nat, Width + s \in r, \A k \in r : k <= Width + s
      PROVE  Plus(r, Shifted(Modulus, s)) \in S
  <2>1. Modulus \subseteq 0 .. Width /\ Width \in Modulus
    BY ModulusFacts
  <2>2. r \subseteq 0 .. Width
    BY <1>2, <2>1 DEF Plus
  <2>3. s = 0
    BY <1>2, <1>5, <2>2
  <2>4. Width \in r
    BY <1>2, <1>5, <2>3
  <2>5. r = Raised(x) /\ Plus(r, Modulus) \in S
    BY <2>1, <2>4 DEF Plus
  <2>6. Shifted(Modulus, 0) = Modulus
    <3>1. \A k \in Modulus : k + 0 = k
      BY <1>2, <2>1
    <3>2. QED BY <3>1 DEF Shifted
  <2>7. QED BY <2>3, <2>5, <2>6
<1> HIDE DEF S
<1>6. PolyRem(Raised(x), Modulus) \in S /\ PolyRem(Raised(x), Modulus) \in Element
  BY <1>4, <1>5, RemFacts
<1>7. PolyRem(Raised(x), Modulus) = Times3(x)
  <2>1. CASE Width \in Raised(x)
    <3>1. Raised(x) \notin Element
      BY <1>2, <2>1 DEF Element
    <3>2. QED BY <1>6, <2>1, <3>1 DEF S, Times3
  <2>2. CASE Width \notin Raised(x)
    BY <1>6, <2>2 DEF S, Times3
  <2>3. QED BY <2>1, <2>2
<1>8. QED BY <1>3, <1>7

-------------------------------------------------------------------------------
(* The powers of the generator. *)

LEMMA OrderFacts ==
  /\ IsFiniteSet(Element) /\ Cardinality(Element) = Order
  /\ Order \in Nat /\ Order >= 3
<1>1. IsFiniteSet(0 .. Width - 1) /\ Cardinality(0 .. Width - 1) = Width
  BY ElementFacts, FS_Interval
<1>2. IsFiniteSet(Element) /\ Cardinality(Element) = Order
  BY <1>1, FS_SUBSET DEF Element, Order
<1>3. Cardinality(Element) \in Nat
  BY <1>2, FS_CardinalityType
<1>4. Cardinality(Element) >= 3
  <2> DEFINE C == {{}, {0}}
  <2>1. IsFiniteSet({{}}) /\ Cardinality({{}}) = 1
    BY FS_Singleton
  <2>2. IsFiniteSet(C) /\ Cardinality(C) = 2
    <3>1. C = {{}} \cup {{0}}
      OBVIOUS
    <3>2. {0} \notin {{}}
      OBVIOUS
    <3>3. IsFiniteSet({{}} \cup {{0}}) /\ Cardinality({{}} \cup {{0}}) = Cardinality({{}}) + 1
      BY <2>1, <3>2, FS_AddElement, Zenon
    <3> HIDE DEF C
    <3>4. IsFiniteSet(C) /\ Cardinality(C) = Cardinality({{}}) + 1
      BY <3>1, <3>3, Zenon
    <3>5. QED BY <2>1, <3>4
  <2>3. IsFiniteSet(C \cup {{1}}) /\ Cardinality(C \cup {{1}}) = 3
    <3>1. {1} \notin C
      <4>1. 1 \in {1} /\ 1 \notin {} /\ 1 \notin {0}
        OBVIOUS
      <4>2. {1} # {} /\ {1} # {0}
        BY <4>1, Zenon
      <4>3. QED BY <4>2
    <3> HIDE DEF C
    <3>2. /\ IsFiniteSet(C \cup {{1}})
          /\ Cardinality(C \cup {{1}}) = IF {1} \in C THEN Cardinality(C) ELSE Cardinality(C) + 1
      BY <2>2, FS_AddElement, Zenon
    <3>3. QED BY <2>2, <3>1, <3>2
  <2>4. C \cup {{1}} \in SUBSET Element
    BY ElementFacts DEF Element
  <2> HIDE DEF C
  <2>5. Cardinality(C \cup {{1}}) <= Cardinality(Element)
    BY <1>2, <2>4, FS_Subset
  <2>6. QED BY <1>3, <2>3, <2>5
<1>5. QED BY <1>2, <1>3, <1>4

Exponent == 0 .. Order - 2
NonZero  == Element \ {Zero}

LEMMA ExpFacts ==
  /\ ExpTable \in [Exponent -> NonZero]
  /\ ExpTable[0] = One
  /\ \A q \in Exponent : q + 1 \in Exponent => ExpTable[q + 1] = Times3(ExpTable[q])
  /\ \A q, s \in Exponent : ExpTable[q] = ExpTable[s] => q = s
<1> DEFINE Fits(f) == f = [q \in 0 .. Order - 2 |->
                             IF q = 0 THEN One
                             ELSE PolyRem(PolyTimes(f[q - 1], {0, 1}), Modulus)]
<1>1. Order - 2 \in Nat /\ Order \in Nat
  BY OrderFacts
<1>2. \E f : Fits(f)
  <2> DEFINE next == [pair \in (1 .. Order - 2) \X Element |-> Times3(pair[2])]
  <2>1. next \in [(1 .. Order - 2) \X Element -> Element]
    BY Times3Facts
  <2>2. \A q \in 1 .. Order - 2, x \in Element : next[<<q, x>>] = Times3(x)
    OBVIOUS
  <2>3. One \in Element
    BY ElementFacts
  <2> HIDE DEF next
  <2>4. PICK f : IsRecursive(f, Element, One, Order - 2, next)
    BY <1>1, <2>1, <2>3, Recursion
  <2>5. ASSUME NEW q \in 0 .. Order - 2
        PROVE  f[q] = IF q = 0 THEN One ELSE PolyRem(PolyTimes(f[q - 1], {0, 1}), Modulus)
    <3>1. CASE q = 0
      BY <2>4, <3>1 DEF IsRecursive
    <3>2. CASE q # 0
      <4>1. q \in 1 .. Order - 2 /\ q - 1 \in 0 .. Order - 2
        BY <1>1, <3>2
      <4>2. f[q] = next[<<q, f[q - 1]>>] /\ f[q - 1] \in Element
        BY <2>4, <4>1 DEF IsRecursive
      <4>3. PolyRem(PolyTimes(f[q - 1], {0, 1}), Modulus) = Times3(f[q - 1])
        BY <4>2, Times3Right
      <4>4. QED BY <2>2, <3>2, <4>1, <4>2, <4>3
    <3>3. QED BY <3>1, <3>2
  <2>6. Fits(f)
    BY <2>4, <2>5 DEF IsRecursive
  <2>7. QED BY <2>6
<1>3. ExpTable = [q \in 0 .. Order - 2 |-> (CHOOSE f : Fits(f))[q]]
  BY DEF ExpTable
<1>4. PICK f : Fits(f) /\ ExpTable = [q \in 0 .. Order - 2 |-> f[q]]
  <2> HIDE DEF Fits
  <2>1. QED BY <1>2, <1>3
<1>5. ASSUME NEW q \in 0 .. Order - 2
      PROVE  f[q] = IF q = 0 THEN One ELSE PolyRem(PolyTimes(f[q - 1], {0, 1}), Modulus)
  <2> DEFINE whole == [s \in 0 .. Order - 2 |->
                         IF s = 0 THEN One
                         ELSE PolyRem(PolyTimes(f[s - 1], {0, 1}), Modulus)]
  <2>1. whole[q] = IF q = 0 THEN One ELSE PolyRem(PolyTimes(f[q - 1], {0, 1}), Modulus)
    OBVIOUS
  <2>2. f = whole
    BY <1>4
  <2> HIDE DEF whole
  <2>3. QED BY <2>1, <2>2
<1> HIDE DEF Fits
<1>6. f[0] = One
  BY <1>1, <1>5
<1> DEFINE Typed(q) == q <= Order - 2 => f[q] \in Element
           D == {q \in Nat : Typed(q)}
<1>7. ASSUME NEW q \in Nat, Typed(q) PROVE Typed(q + 1)
  <2>1. SUFFICES ASSUME q + 1 <= Order - 2 PROVE f[q + 1] \in Element
    OBVIOUS
  <2>2. f[q + 1] = PolyRem(PolyTimes(f[q], {0, 1}), Modulus) /\ f[q] \in Element
    BY <1>1, <1>5, <1>7, <2>1
  <2>3. QED BY <2>2, Times3Right, Times3Facts
<1>8. D = Nat
  <2>1. Typed(0)
    BY <1>6, ElementFacts
  <2> HIDE DEF Typed
  <2>2. 0 \in D /\ \A q \in D : q + 1 \in D
    BY <1>7, <2>1
  <2>3. D \in SUBSET Nat
    OBVIOUS
  <2> HIDE DEF D
  <2>4. QED BY <2>2, <2>3, Induction
<1>9. \A q \in 0 .. Order - 2 : f[q] \in Element
  <2>1. \A q \in Nat : Typed(q)
    BY <1>8
  <2>2. QED BY <1>1, <2>1
<1>10. \A q \in 0 .. Order - 2 : ExpTable[q] = f[q]
  BY <1>4
<1>11. ExpTable \in [Exponent -> NonZero]
  BY <1>4, <1>9, <1>10, GeneratorAssumption DEF Exponent, NonZero
<1>12. ASSUME NEW q \in Exponent, q + 1 \in Exponent PROVE ExpTable[q + 1] = Times3(ExpTable[q])
  <2>1. q + 1 # 0 /\ q + 1 - 1 = q
    BY <1>1 DEF Exponent
  <2>2. f[q + 1] = PolyRem(PolyTimes(f[q], {0, 1}), Modulus)
    BY <1>5, <1>12, <2>1 DEF Exponent
  <2>3. QED BY <1>9, <1>10, <1>12, <2>2, Times3Right DEF Exponent
<1>13. QED BY <1>1, <1>6, <1>10, <1>11, <1>12, GeneratorAssumption DEF Exponent

\* Every element but zero is a power of 3.
LEMMA LogFacts ==
  ASSUME NEW x \in NonZero
  PROVE  LogTable[x] \in Exponent /\ ExpTable[LogTable[x]] = x
<1>1. ExpTable \in Injection(Exponent, NonZero)
  BY ExpFacts DEF Injection, IsInjective
<1>2. IsFiniteSet(NonZero) /\ Cardinality(NonZero) = Order - 1
  BY OrderFacts, ElementFacts, FS_RemoveElement DEF NonZero
<1>3. IsFiniteSet(Exponent) /\ Cardinality(Exponent) = Order - 1
  BY OrderFacts, FS_Interval DEF Exponent
<1>4. ExpTable \in Surjection(Exponent, NonZero)
  BY <1>1, <1>2, <1>3, FS_Injection
<1>5. \E q \in 0 .. Order - 2 : ExpTable[q] = x
  BY <1>4 DEF Surjection, Exponent
<1>6. LogTable[x] = CHOOSE q \in 0 .. Order - 2 : ExpTable[q] = x
  BY DEF LogTable, NonZero
<1>7. QED BY <1>5, <1>6 DEF Exponent

LEMMA LogOne == LogTable[One] = 0
<1>1. One \in NonZero
  BY ElementFacts DEF NonZero
<1>2. LogTable[One] \in Exponent /\ ExpTable[LogTable[One]] = One
  BY <1>1, LogFacts
<1>3. 0 \in Exponent
  BY OrderFacts DEF Exponent
<1>4. QED BY <1>2, <1>3, ExpFacts

\* The powers come back to one.
LEMMA LastPower == Times3(ExpTable[Order - 2]) = One
<1> DEFINE d == ExpTable[Order - 2]
<1>1. /\ 0 \in Exponent /\ Order - 2 \in Exponent /\ Order - 2 # 0
      /\ \A q \in Exponent : q # Order - 2 => q + 1 \in Exponent
      /\ \A q \in Exponent : q # 0 => q - 1 \in Exponent /\ q - 1 # Order - 2 /\ q - 1 + 1 = q
  BY OrderFacts DEF Exponent
<1>2. d \in NonZero /\ d \in Element /\ d # Zero
  BY <1>1, ExpFacts DEF NonZero
<1>3. ASSUME NEW x \in Element, NEW y \in Element, x # y
      PROVE  Plus(x, y) \in NonZero
  BY <1>3, PlusType DEF NonZero
<1> HIDE DEF d
<1>4. Times3(d) \in Element
  BY <1>2, Times3Facts
<1>5. Times3(d) # Zero
  <2>1. SUFFICES ASSUME Times3(d) = Zero PROVE FALSE
    OBVIOUS
  <2>2. One # d /\ One \in Element /\ ExpTable[0] = One
    BY <1>1, ExpFacts, ElementFacts DEF d
  <2>3. Plus(One, d) \in NonZero
    BY <1>2, <1>3, <2>2
  <2>4. PICK q \in Exponent : ExpTable[q] = Plus(One, d)
    BY <2>3, LogFacts
  <2>5. q # Order - 2
    <3>1. Plus(Plus(One, d), d) = One /\ Plus(d, d) = Zero
      BY PlusFacts
    <3>2. QED BY <2>4, <3>1, ElementFacts DEF d
  <2>6. ExpTable[q + 1] = Times3(Plus(One, d)) /\ q + 1 \in Exponent
    BY <1>1, <2>4, <2>5, ExpFacts
  <2>7. Times3(Plus(One, d)) = Times3(One)
    <3>1. Times3(Plus(One, d)) = Plus(Times3(One), Times3(d))
      BY <1>2, <2>2, Times3Facts
    <3>2. QED BY <2>1, <3>1, PlusFacts
  <2>8. ExpTable[0 + 1] = Times3(One) /\ 0 + 1 \in Exponent
    BY <1>1, <2>2, ExpFacts
  <2>9. q + 1 = 0 + 1
    BY <2>6, <2>7, <2>8, ExpFacts
  <2>10. q = 0
    BY <2>9 DEF Exponent
  <2>11. Plus(One, d) = One
    BY <2>2, <2>4, <2>10
  <2>12. Plus(Plus(One, d), One) = d /\ Plus(One, One) = Zero
    BY DEF Plus, Zero
  <2>13. QED BY <1>2, <2>11, <2>12
<1>6. PICK q \in Exponent : ExpTable[q] = Times3(d)
  BY <1>4, <1>5, LogFacts DEF NonZero
<1>7. q = 0
  <2>1. SUFFICES ASSUME q # 0 PROVE FALSE
    OBVIOUS
  <2> DEFINE b == ExpTable[q - 1]
  <2>2. q - 1 \in Exponent /\ q - 1 # Order - 2 /\ q - 1 + 1 \in Exponent /\ q - 1 + 1 = q
    BY <1>1, <2>1
  <2>3. b \in Element /\ b # Zero /\ Times3(b) = Times3(d) /\ b # d
    <3>1. b \in Element /\ b # Zero
      BY <2>2, ExpFacts DEF NonZero
    <3>2. Times3(b) = Times3(d)
      BY <1>6, <2>2, ExpFacts
    <3>3. b # d
      BY <1>1, <2>2, ExpFacts DEF d
    <3>4. QED BY <3>1, <3>2, <3>3
  <2> HIDE DEF b
  <2>4. Plus(d, b) \in NonZero
    BY <1>2, <1>3, <2>3
  <2>5. Times3(Plus(d, b)) = Zero
    <3>1. Times3(Plus(d, b)) = Plus(Times3(d), Times3(b))
      BY <1>2, <2>3, Times3Facts
    <3>2. QED BY <2>3, <3>1, PlusFacts
  <2>6. PICK s \in Exponent : ExpTable[s] = Plus(d, b)
    BY <2>4, LogFacts
  <2>7. s = Order - 2
    <3>1. SUFFICES ASSUME s # Order - 2 PROVE FALSE
      OBVIOUS
    <3>2. s + 1 \in Exponent /\ ExpTable[s + 1] = Zero
      BY <1>1, <2>5, <2>6, <3>1, ExpFacts
    <3>3. QED BY <3>2, ExpFacts DEF NonZero
  <2>8. Plus(d, b) = d
    BY <2>6, <2>7 DEF d
  <2>9. Plus(Plus(d, b), d) = b /\ Plus(d, d) = Zero
    BY DEF Plus, Zero
  <2>10. QED BY <2>3, <2>8, <2>9
<1>8. QED BY <1>6, <1>7, ExpFacts DEF d

E(q) == ExpTable[q % (Order - 1)]

LEMMA Cycle == Order - 1 \in Nat \ {0} /\ Order - 2 = Order - 1 - 1 /\ Exponent = 0 .. (Order - 1) - 1
  BY OrderFacts DEF Exponent

LEMMA PowerFacts ==
  ASSUME NEW q \in Nat
  PROVE  /\ E(q) \in NonZero /\ E(q) \in Element
         /\ E(q + 1) = Times3(E(q))
         /\ E(q + (Order - 1)) = E(q)
         /\ q \in Exponent => E(q) = ExpTable[q]
         /\ E(0) = One /\ E(Order - 1) = One
         /\ LogTable[E(q)] = q % (Order - 1)
<1> DEFINE w == Order - 1
<1>1. w \in Nat \ {0} /\ Order - 2 = w - 1 /\ Exponent = 0 .. w - 1
  BY Cycle
<1>2. q % w \in Exponent
  <2> HIDE DEF w
  <2>1. QED BY <1>1
<1>3. E(q) \in NonZero /\ E(q) \in Element
  BY <1>2, ExpFacts DEF E, NonZero
<1>4. (q + 1) % w = (IF q % w = w - 1 THEN 0 ELSE (q % w) + 1) /\ (q + w) % w = q % w
  <2> HIDE DEF w
  <2>1. QED BY <1>1, NextModulo
<1>5. E(q + (Order - 1)) = E(q)
  BY <1>4 DEF E
<1>6. E(q + 1) = Times3(E(q))
  <2>1. CASE q % w = w - 1
    <3>1. E(q + 1) = ExpTable[0] /\ E(q) = ExpTable[Order - 2]
      BY <1>1, <1>4, <2>1 DEF E
    <3>2. QED BY <3>1, LastPower, ExpFacts
  <2>2. CASE q % w # w - 1
    <3>1. E(q + 1) = ExpTable[(q % w) + 1] /\ E(q) = ExpTable[q % w]
      BY <1>4, <2>2 DEF E
    <3>2. (q % w) + 1 \in Exponent
      <4> HIDE DEF w
      <4>1. QED BY <1>1, <1>2, <2>2
    <3>3. QED BY <1>2, <3>1, <3>2, ExpFacts
  <2>3. QED BY <2>1, <2>2
<1>7. \A s \in Exponent : E(s) = ExpTable[s]
  <2>1. ASSUME NEW s \in Exponent PROVE s % w = s
    <3> HIDE DEF w
    <3>1. QED BY <1>1, SmallModulo
  <2>2. QED BY <2>1 DEF E
<1>8. 0 \in Exponent /\ E(0) = One
  <2>1. 0 \in Exponent
    BY OrderFacts DEF Exponent
  <2>2. QED BY <1>7, <2>1, ExpFacts
<1>9. E(Order - 1) = One
  <2>1. w % w = 0
    <3> HIDE DEF w
    <3>1. QED BY <1>1, <1>8, SmallModulo
  <2>2. QED BY <2>1, ExpFacts DEF E
<1>10. LogTable[E(q)] = q % w
  <2>1. LogTable[E(q)] \in Exponent /\ ExpTable[LogTable[E(q)]] = ExpTable[q % w]
    BY <1>3, LogFacts DEF E
  <2>2. QED BY <1>2, <2>1, ExpFacts
<1>11. QED BY <1>3, <1>5, <1>6, <1>7, <1>8, <1>9, <1>10

-------------------------------------------------------------------------------
(* The field. *)

LEMMA NonZeroPower ==
  ASSUME NEW x \in NonZero
  PROVE  LogTable[x] \in Nat /\ E(LogTable[x]) = x
<1>1. LogTable[x] \in Exponent /\ ExpTable[LogTable[x]] = x
  BY LogFacts
<1>2. LogTable[x] \in Nat
  BY <1>1, OrderFacts DEF Exponent
<1>3. QED BY <1>1, <1>2, PowerFacts

LEMMA TimesPowers ==
  ASSUME NEW q \in Nat, NEW s \in Nat
  PROVE  Times(E(q), E(s)) = E(q + s)
<1> DEFINE w == Order - 1
<1>1. w \in Nat \ {0}
  BY Cycle
<1>2. /\ LogTable[E(q)] = q % w /\ LogTable[E(s)] = s % w
      /\ E(q) # Zero /\ E(s) # Zero
  BY PowerFacts DEF NonZero
<1>3. ((q % w) + (s % w)) % w = (q + s) % w
  <2> HIDE DEF w
  <2>1. s % w \in Nat
    BY <1>1
  <2>2. ((q % w) + (s % w)) % w = (q + (s % w)) % w
    BY <1>1, <2>1, SumModulo
  <2>3. ((s % w) + q) % w = (s + q) % w
    BY <1>1, SumModulo
  <2>4. q + (s % w) = (s % w) + q /\ q + s = s + q
    BY <2>1
  <2>5. QED BY <2>2, <2>3, <2>4
<1>4. QED BY <1>2, <1>3 DEF Times, E

LEMMA TimesZero ==
  ASSUME NEW x
  PROVE  Times(x, Zero) = Zero /\ Times(Zero, x) = Zero
  BY DEF Times

LEMMA ZeroOrPower ==
  ASSUME NEW x \in Element
  PROVE  x = Zero \/ \E q \in Nat : x = E(q)
  BY NonZeroPower DEF NonZero

LEMMA TimesFacts ==
  ASSUME NEW x \in Element, NEW y \in Element, NEW z \in Element
  PROVE  /\ Times(x, y) \in Element
         /\ Times(x, y) = Times(y, x)
         /\ Times(Times(x, y), z) = Times(x, Times(y, z))
         /\ Times(x, One) = x /\ Times(One, x) = x
         /\ Times(x, y) = Zero <=> x = Zero \/ y = Zero
<1>0. Times(x, One) = x /\ Times(One, x) = x
  <2>1. CASE x = Zero
    BY <2>1, TimesZero
  <2>2. CASE x # Zero
    <3>1. PICK q \in Nat : x = E(q)
      BY <2>2, ZeroOrPower
    <3>2. One = E(0) /\ q + 0 = q /\ 0 + q = q /\ 0 \in Nat
      BY PowerFacts
    <3>3. QED BY <3>1, <3>2, TimesPowers
  <2>3. QED BY <2>1, <2>2
<1>1. CASE x = Zero
  BY <1>0, <1>1, TimesZero, ElementFacts
<1>2. CASE y = Zero
  BY <1>0, <1>2, TimesZero, ElementFacts
<1>3. CASE x # Zero /\ y # Zero
  <2>1. PICK q \in Nat : x = E(q)
    BY <1>3, ZeroOrPower
  <2>2. PICK s \in Nat : y = E(s)
    BY <1>3, ZeroOrPower
  <2>3. Times(x, y) = E(q + s) /\ Times(y, x) = E(s + q) /\ q + s = s + q /\ q + s \in Nat
    BY <2>1, <2>2, TimesPowers
  <2>4. E(q + s) \in NonZero /\ E(q + s) \in Element
    BY <2>3, PowerFacts
  <2>5. Times(Times(x, y), z) = Times(x, Times(y, z))
    <3>1. CASE z = Zero
      BY <3>1, TimesZero
    <3>2. CASE z # Zero
      <4>1. PICK u \in Nat : z = E(u)
        BY <3>2, ZeroOrPower
      <4>2. Times(E(q + s), E(u)) = E((q + s) + u) /\ Times(E(s), E(u)) = E(s + u)
        BY <2>3, TimesPowers
      <4>3. Times(E(q), E(s + u)) = E(q + (s + u)) /\ q + (s + u) = (q + s) + u
        BY TimesPowers
      <4>4. QED BY <2>1, <2>2, <2>3, <4>1, <4>2, <4>3
    <3>3. QED BY <3>1, <3>2
  <2>6. QED BY <1>0, <1>3, <2>3, <2>4, <2>5 DEF NonZero
<1>4. QED BY <1>1, <1>2, <1>3

LEMMA PowerTimes ==
  ASSUME NEW q \in Nat, NEW u \in Element
  PROVE  Times(E(q + 1), u) = Times3(Times(E(q), u)) /\ Times(E(q), u) \in Element
<1>1. E(q) \in Element
  BY PowerFacts
<1>2. Times(E(q), u) \in Element
  BY <1>1, TimesFacts
<1>3. CASE u = Zero
  <2>1. Times3(Zero) = Zero
    <3>1. Zero \in Element /\ Plus(Zero, Zero) = Zero
      BY ElementFacts, PlusFacts
    <3>2. Times3(Plus(Zero, Zero)) = Plus(Times3(Zero), Times3(Zero))
      BY <3>1, Times3Facts
    <3>3. QED BY <3>1, <3>2, PlusFacts
  <2>2. QED BY <1>2, <1>3, <2>1, TimesZero
<1>4. CASE u # Zero
  <2>1. PICK s \in Nat : u = E(s)
    BY <1>4, ZeroOrPower
  <2>2. Times(E(q + 1), E(s)) = E((q + 1) + s) /\ Times(E(q), E(s)) = E(q + s)
    BY TimesPowers
  <2>3. (q + 1) + s = (q + s) + 1 /\ q + s \in Nat
    OBVIOUS
  <2>4. E((q + s) + 1) = Times3(E(q + s))
    BY <2>3, PowerFacts
  <2>5. QED BY <1>2, <2>1, <2>2, <2>3, <2>4
<1>5. QED BY <1>3, <1>4

\* Products by 3 are raised by it, and so products by all its powers are
\* distributive.
LEMMA Distributive ==
  ASSUME NEW x \in Element, NEW y \in Element, NEW z \in Element
  PROVE  /\ Times(x, Plus(y, z)) = Plus(Times(x, y), Times(x, z))
         /\ Times(Plus(y, z), x) = Plus(Times(y, x), Times(z, x))
<1> DEFINE Good(q) == \A u, v \in Element :
                         Times(E(q), Plus(u, v)) = Plus(Times(E(q), u), Times(E(q), v))
           D == {q \in Nat : Good(q)}
<1>1. \A u, v \in Element : Plus(u, v) \in Element
  BY PlusType
<1>2. Good(0)
  BY <1>1, PowerFacts, TimesFacts, 0 \in Nat
<1>3. \A q \in Nat, u \in Element : /\ Times(E(q + 1), u) = Times3(Times(E(q), u))
                                   /\ Times(E(q), u) \in Element
  BY PowerTimes
<1>4. ASSUME NEW q \in Nat, Good(q) PROVE Good(q + 1)
  <2>1. ASSUME NEW u \in Element, NEW v \in Element
        PROVE  Times(E(q + 1), Plus(u, v)) = Plus(Times(E(q + 1), u), Times(E(q + 1), v))
    <3>1. Times(E(q + 1), Plus(u, v)) = Times3(Plus(Times(E(q), u), Times(E(q), v)))
      BY <1>1, <1>3, <1>4
    <3>2. QED BY <1>3, <3>1, Times3Facts
  <2>2. QED BY <2>1
<1>5. D = Nat
  <2> HIDE DEF Good
  <2>1. 0 \in D /\ \A q \in D : q + 1 \in D
    BY <1>2, <1>4
  <2>2. D \in SUBSET Nat
    OBVIOUS
  <2> HIDE DEF D
  <2>3. QED BY <2>1, <2>2, Induction
<1>6. Times(x, Plus(y, z)) = Plus(Times(x, y), Times(x, z))
  <2>1. CASE x = Zero
    BY <2>1, TimesZero, PlusFacts
  <2>2. CASE x # Zero
    BY <1>5, <2>2, ZeroOrPower
  <2>3. QED BY <2>1, <2>2
<1>7. /\ Times(Plus(y, z), x) = Times(x, Plus(y, z))
      /\ Times(y, x) = Times(x, y) /\ Times(z, x) = Times(x, z)
  BY <1>1, TimesFacts
<1>8. QED BY <1>6, <1>7

LEMMA InverseFacts ==
  ASSUME NEW x \in NonZero
  PROVE  /\ InverseOf(x) \in NonZero
         /\ Times(x, InverseOf(x)) = One /\ Times(InverseOf(x), x) = One
<1> DEFINE s == LogTable[x]
           u == Order - 1 - s
<1>1. s \in Exponent /\ E(s) = x /\ s \in Nat
  BY LogFacts, NonZeroPower
<1>2. u \in Nat /\ s + u = Order - 1 /\ u + s = Order - 1
  BY <1>1, OrderFacts DEF Exponent
<1>3. InverseOf(x) = E(u)
  BY DEF InverseOf, E
<1> HIDE DEF s, u
<1>4. QED BY <1>1, <1>2, <1>3, TimesPowers, PowerFacts

-------------------------------------------------------------------------------
(* Slices. *)

LEMMA TimesAdditive ==
  ASSUME NEW c \in Element
  PROVE  Additive([x \in Element |-> Times(c, x)])
<1> DEFINE g == [x \in Element |-> Times(c, x)]
<1>1. \A x \in Element : g[x] = Times(c, x) /\ Times(c, x) \in Element
  BY TimesFacts
<1>2. g \in [Element -> Element]
  BY <1>1
<1>3. \A x, y \in Element : Plus(x, y) \in Element
  BY PlusType
<1> HIDE DEF g
<1>4. ASSUME NEW x \in Element, NEW y \in Element PROVE g[Plus(x, y)] = Plus(g[x], g[y])
  <2>1. g[Plus(x, y)] = Times(c, Plus(x, y)) /\ g[x] = Times(c, x) /\ g[y] = Times(c, y)
    BY <1>1, <1>3
  <2>2. QED BY <2>1, Distributive
<1>5. Additive(g)
  BY <1>2, <1>4 DEF Additive
<1>6. QED BY <1>5 DEF g

\* A word is the sum of its parts, and so is its product.
LEMMA ByTableRight ==
  ASSUME NEW bits \in Nat \ {0}, Width \div bits \in Nat, (Width \div bits) * bits = Width,
         NEW c \in Element, NEW x \in Element
  PROVE  ByTable(PartTable(bits), c, x, bits) = Times(c, x)
<1> DEFINE size == Width \div bits
           f == [q \in 0 .. size - 1 |-> {k + q * bits : k \in Part(x, q, bits)}]
           g == [y \in Element |-> Times(c, y)]
<1>1. size \in Nat /\ Width = size * bits /\ Width = bits * size
  BY ElementFacts
<1>2. \A k \in x : k \in 0 .. Width - 1
  BY DEF Element
<1>3. ASSUME NEW q \in 0 .. size - 1, NEW k
      PROVE  k \in f[q] <=> k \in x /\ q * bits <= k /\ k < q * bits + bits
  <2>1. PICK b \in Nat : b = q * bits
    OBVIOUS
  <2>2. \A l \in 0 .. bits - 1 : l \in Part(x, q, bits) <=> l + b \in x
    BY <2>1 DEF Part
  <2>3. \A l \in Part(x, q, bits) : l \in 0 .. bits - 1
    BY DEF Part
  <2>4. CASE k \in x
    <3>1. k \in Nat
      BY <1>2, <2>4
    <3>2. k - b \in 0 .. bits - 1 <=> b <= k /\ k < b + bits
      BY <3>1
    <3>3. \A l \in 0 .. bits - 1 : k = l + b <=> l = k - b
      BY <3>1
    <3>4. k \in f[q] <=> \E l \in Part(x, q, bits) : k = l + b
      BY <2>1
    <3>5. k - b + b = k
      BY <3>1
    <3>6. QED BY <2>1, <2>2, <2>3, <2>4, <3>2, <3>3, <3>4, <3>5
  <2>5. CASE k \notin x
    BY <2>1, <2>2, <2>3, <2>5
  <2>6. QED BY <2>4, <2>5
<1>4. f \in [0 .. size - 1 -> Element]
  <2>1. ASSUME NEW q \in 0 .. size - 1 PROVE f[q] \in Element
    BY <1>2, <1>3 DEF Element
  <2>2. QED BY <2>1
<1>5. SumOf(f) = x
  <2>1. ASSUME NEW k \in 0 .. Width - 1 PROVE k \in SumOf(f) <=> k \in x
    <3>1. PICK d \in Int, r \in 0 .. bits - 1 : k = (bits * d) + r
      BY Division, k \in Int
    <3>2. d \in 0 .. size - 1
      <4>1. \A u \in Int : u <= 0 - 1 => (bits * u) + r < 0
        OBVIOUS
      <4>2. \A u \in Int : u >= size => (bits * u) + r >= Width
        <5>1. ASSUME NEW u \in Int, u >= size PROVE (bits * u) + r >= Width
          <6> HIDE DEF size
          <6>1. PICK e \in Nat : u = size + e
            <7>1. u - size \in Nat /\ u = size + (u - size)
              BY <1>1, <5>1
            <7>2. QED BY <7>1
          <6>2. bits * u = bits * size + bits * e /\ bits * e \in Nat
            BY <1>1, <6>1
          <6>3. QED BY <1>1, <6>2
        <5>2. QED BY <5>1
      <4>3. k >= 0 /\ k < Width
        BY ElementFacts
      <4> HIDE DEF size
      <4>4. ~(d <= 0 - 1) /\ ~(d >= size)
        BY <3>1, <4>1, <4>2, <4>3, ElementFacts
      <4>5. QED BY <1>1, <4>4
    <3>3. ASSUME NEW q \in 0 .. size - 1
          PROVE  q * bits <= k /\ k < q * bits + bits <=> q = d
      <4>1. ASSUME NEW u \in Int, NEW v \in Int, u < v PROVE (bits * u) + bits <= bits * v
        <5>1. PICK e \in Nat : v = u + 1 + e
          BY <4>1
        <5>2. bits * v = (bits * u) + bits + bits * e /\ bits * e \in Nat
          BY <5>1
        <5>3. QED BY <5>2
      <4>2. q * bits = bits * q /\ bits * q \in Nat /\ bits * d \in Int
        OBVIOUS
      <4>3. q \in Int
        OBVIOUS
      <4>4. q < d => (bits * q) + bits <= bits * d
        BY <4>1, <4>3
      <4>5. d < q => (bits * d) + bits <= bits * q
        BY <4>1, <4>3
      <4> HIDE DEF size
      <4>6. QED BY <3>1, <4>2, <4>3, <4>4, <4>5
    <3>4. {q \in DOMAIN f : k \in f[q]} = IF k \in x THEN {d} ELSE {}
      <4>1. DOMAIN f = 0 .. size - 1
        OBVIOUS
      <4> HIDE DEF f, size
      <4>2. QED BY <1>3, <3>2, <3>3, <4>1
    <3> HIDE DEF f
    <3>5. k \in SumOf(f) <=> Odd({q \in DOMAIN f : k \in f[q]})
      BY SumFacts
    <3>6. QED BY <3>4, <3>5, OddSmall
  <2>2. SumOf(f) \in Element
    BY SumFacts
  <2> HIDE DEF f
  <2>3. QED BY <2>1, <2>2 DEF Element
<1>6. g[SumOf(f)] = SumOf([q \in 0 .. size - 1 |-> g[f[q]]])
  <2>1. Additive(g)
    BY TimesAdditive
  <2> HIDE DEF g, f, size
  <2>2. QED BY <1>1, <1>4, <2>1, SumImage
<1>7. /\ DOMAIN PartTable(bits)[c] = 0 .. size - 1
      /\ \A q \in 0 .. size - 1 : PartTable(bits)[c][q][Part(x, q, bits)] = g[f[q]]
  <2>1. \A q \in 0 .. size - 1 : Part(x, q, bits) \in SUBSET (0 .. bits - 1)
    BY DEF Part
  <2>2. \A q \in 0 .. size - 1 : g[f[q]] = Times(c, f[q])
    BY <1>4
  <2>3. QED BY <2>1, <2>2 DEF PartTable
<1>8. ByTable(PartTable(bits), c, x, bits) = SumOf([q \in 0 .. size - 1 |-> g[f[q]]])
  <2>1. [q \in DOMAIN PartTable(bits)[c] |-> PartTable(bits)[c][q][Part(x, q, bits)]] =
          [q \in 0 .. size - 1 |-> g[f[q]]]
    <3> HIDE DEF g, f, size
    <3>1. QED BY <1>7
  <2>2. QED BY <2>1 DEF ByTable
<1>9. g[x] = Times(c, x)
  OBVIOUS
<1> HIDE DEF g, f, size
<1>10. QED BY <1>5, <1>6, <1>8, <1>9

LEMMA TablesOfParts ==
  /\ Width \div 2 \in Nat \ {0} /\ Width \div (Width \div 2) \in Nat
  /\ (Width \div (Width \div 2)) * (Width \div 2) = Width
  /\ Width \div 4 \in Nat \ {0} /\ Width \div (Width \div 4) \in Nat
  /\ (Width \div (Width \div 4)) * (Width \div 4) = Width
<1>1. Width \in {4, 8, 12, 16, 20, 24, 28, 32}
  BY WidthAssumption
<1>2. QED BY <1>1

Scaled(c, row)          == [k \in DOMAIN row |-> Times(c, row[k])]
AddedScaled(c, row, out) == [k \in DOMAIN row |-> Plus(out[k], Times(c, row[k]))]

\* Slices are multiplied word by word, with either kind of table.
LEMMA MulSliceRight ==
  ASSUME NEW c \in Element, NEW row, \A k \in DOMAIN row : row[k] \in Element, NEW out
  PROVE  MulSlice(c, row) = Scaled(c, row) /\ MulAndAddSlice(c, row, out) = AddedScaled(c, row, out)
<1>1. ASSUME NEW k \in DOMAIN row
      PROVE  /\ ByTable(MulTable64, c, row[k], Width \div 4) = Times(c, row[k])
             /\ ByTable(MulTable, c, row[k], Width \div 2) = Times(c, row[k])
  BY TablesOfParts, ByTableRight DEF MulTable, MulTable64
<1>2. MulSlice(c, row) = Scaled(c, row)
  BY <1>1 DEF MulSlice, Scaled
<1>3. QED BY <1>2 DEF MulAndAddSlice, Scaled, AddedScaled

-------------------------------------------------------------------------------
(* Powers, and the value of a polynomial at 2, of which bit 1 is set. *)

LEMMA PowFacts ==
  ASSUME NEW x \in Element, NEW q \in Nat
  PROVE  /\ Pow(x, q) \in Element /\ Pow(x, 0) = One
         /\ Pow(x, q + 1) = Times(Pow(x, q), x)
         /\ x # Zero => Pow(x, q) # Zero
<1>1. CASE x = Zero
  BY <1>1, TimesZero, ElementFacts DEF Pow
<1>2. CASE x # Zero
  <2>1. PICK l \in Nat : l = LogTable[x] /\ E(l) = x
    BY <1>2, NonZeroPower DEF NonZero
  <2>2. \A s \in Nat : Pow(x, s) = E(l * s)
    BY <1>2, <2>1 DEF Pow, E
  <2>3. l * q \in Nat /\ l * (q + 1) = l * q + l /\ l * 0 = 0
    OBVIOUS
  <2>4. Pow(x, q + 1) = E(l * q + l) /\ Pow(x, q) = E(l * q) /\ Pow(x, 0) = E(0)
    BY <2>2, <2>3, q + 1 \in Nat, 0 \in Nat
  <2>5. Times(E(l * q), E(l)) = E(l * q + l)
    BY <2>3, TimesPowers
  <2>6. E(l * q) \in NonZero /\ E(0) = One
    BY <2>3, PowerFacts
  <2>7. QED BY <2>1, <2>4, <2>5, <2>6 DEF NonZero
<1>3. QED BY <1>1, <1>2

X2(k) == Pow({1}, k)

\* Twice an element is itself moved by a bit, and reduced.
LEMMA TimesTwo ==
  ASSUME NEW y \in Element
  PROVE  /\ {1} \in Element
         /\ Times({1}, y) = IF Width - 1 \in y THEN Plus(Shifted(y, 1), Modulus)
                            ELSE Shifted(y, 1)
<1>1. {1} \in Element
  BY ElementFacts DEF Element
<1>2. E(0) = One /\ E(0 + 1) = Times3(One) /\ Times(E(0), y) = y
  <2>1. E(0) = One /\ E(0 + 1) = Times3(E(0))
    BY PowerFacts, 0 \in Nat
  <2>2. QED BY <2>1, TimesFacts, ElementFacts
<1>3. Times3(One) = {0, 1}
  <2>1. Shifted({0}, 1) = {1}
    BY DEF Shifted
  <2>2. Raised(One) = {0, 1}
    BY <2>1 DEF Raised, One, Plus
  <2>3. QED BY <2>2, ElementFacts DEF Times3
<1>4. {1} = Plus(E(0 + 1), One)
  BY <1>2, <1>3 DEF Plus, One
<1>5. Times({1}, y) = Plus(Times3(y), y)
  <2>1. E(0 + 1) \in Element /\ One \in Element
    BY PowerFacts, 0 + 1 \in Nat, ElementFacts
  <2>2. Times({1}, y) = Plus(Times(E(0 + 1), y), Times(One, y))
    <3>1. Times(Plus(E(0 + 1), One), y) = Plus(Times(E(0 + 1), y), Times(One, y))
      BY <2>1, Distributive
    <3>2. QED BY <1>4, <3>1
  <2>3. Times(E(0 + 1), y) = Times3(Times(E(0), y))
    BY PowerTimes, 0 \in Nat
  <2>4. Times(One, y) = y
    BY TimesFacts
  <2>5. QED BY <1>2, <2>2, <2>3, <2>4
<1>6. Width \in Raised(y) <=> Width - 1 \in y
  <2>1. \A k \in y : k \in 0 .. Width - 1
    BY DEF Element
  <2>2. Width \notin y
    BY <2>1, ElementFacts
  <2>3. Width \in Shifted(y, 1) <=> Width - 1 \in y
    <3>1. \A k \in y : Width = k + 1 <=> Width - 1 = k
      BY <2>1, ElementFacts
    <3>2. QED BY <3>1 DEF Shifted
  <2>4. QED BY <2>2, <2>3 DEF Raised, Plus
<1>7. \A u, v, q : Plus(Plus(u, v), u) = v /\ Plus(Plus(Plus(u, v), q), u) = Plus(v, q)
  BY DEF Plus
<1>8. QED BY <1>1, <1>5, <1>6, <1>7 DEF Times3, Raised

LEMMA TwoPowers ==
  ASSUME NEW q \in Nat
  PROVE  /\ X2(q) \in Element /\ X2(0) = One
         /\ X2(q + 1) = Times({1}, X2(q))
         /\ q < Width => X2(q) = {q}
         /\ X2(Width) = Plus({Width}, Modulus)
<1> DEFINE Good(s) == s < Width => X2(s) = {s}
           D == {s \in Nat : Good(s)}
<1>1. \A s \in Nat : X2(s) \in Element /\ X2(0) = One /\ X2(s + 1) = Times({1}, X2(s))
  <2>1. {1} \in Element
    BY ElementFacts DEF Element
  <2>2. ASSUME NEW s \in Nat
        PROVE  X2(s) \in Element /\ X2(0) = One /\ X2(s + 1) = Times(X2(s), {1})
    BY <2>1, PowFacts DEF X2
  <2>3. QED BY <2>1, <2>2, TimesFacts
<1>2. ASSUME NEW s \in Nat PROVE Shifted({s}, 1) = {s + 1}
  BY DEF Shifted
<1>3. ASSUME NEW s \in Nat, Good(s) PROVE Good(s + 1)
  <2>1. SUFFICES ASSUME s + 1 < Width PROVE X2(s + 1) = {s + 1}
    OBVIOUS
  <2>2. X2(s) = {s} /\ {s} \in Element
    BY <1>1, <1>3, <2>1, ElementFacts
  <2>3. Width - 1 \notin {s}
    BY <2>1, ElementFacts
  <2>4. QED BY <1>1, <1>2, <2>2, <2>3, TimesTwo
<1>4. D = Nat
  <2>1. Good(0)
    BY <1>1 DEF One
  <2> HIDE DEF Good
  <2>2. 0 \in D /\ \A s \in D : s + 1 \in D
    BY <1>3, <2>1
  <2>3. D \in SUBSET Nat
    OBVIOUS
  <2> HIDE DEF D
  <2>4. QED BY <2>2, <2>3, Induction
<1>5. X2(Width) = Plus({Width}, Modulus)
  <2>1. Width - 1 \in Nat /\ Width - 1 < Width /\ Width - 1 + 1 = Width
    BY ElementFacts
  <2>2. Good(Width - 1)
    BY <1>4, <2>1
  <2>3. X2(Width - 1) = {Width - 1} /\ X2(Width - 1) \in Element
    BY <1>1, <2>1, <2>2
  <2>4. X2(Width) = Times({1}, {Width - 1}) /\ {Width - 1} \in Element
    BY <1>1, <2>1, <2>3
  <2>5. QED BY <1>2, <2>1, <2>4, TimesTwo
<1>6. Good(q)
  BY <1>4
<1>7. QED BY <1>1, <1>5, <1>6

Value(p) == SumOf([k \in 0 .. 63 |-> IF k \in p THEN X2(k) ELSE Zero])

LEMMA ValueFacts ==
  ASSUME NEW p, NEW q
  PROVE  /\ Value(p) \in Element
         /\ Value(Plus(p, q)) = Plus(Value(p), Value(q))
         /\ Value({}) = Zero
         /\ \A k \in 0 .. 63 : Value({k}) = X2(k)
<1> DEFINE term(r) == [k \in 0 .. 63 |-> IF k \in r THEN X2(k) ELSE Zero]
<1>1. \A r : term(r) \in [0 .. 63 -> Element]
  BY TwoPowers, ElementFacts
<1>2. term(Plus(p, q)) = [k \in 0 .. 63 |-> Plus(term(p)[k], term(q)[k])]
  <2>1. ASSUME NEW k \in 0 .. 63 PROVE term(Plus(p, q))[k] = Plus(term(p)[k], term(q)[k])
    <3>1. k \in Plus(p, q) <=> ~(k \in p <=> k \in q)
      BY DEF Plus
    <3>2. QED BY <3>1, PlusFacts
  <2>2. QED BY <2>1
<1>3. IsFiniteSet(0 .. 63)
  <2>1. 0 \in Int /\ 63 \in Int
    OBVIOUS
  <2>2. QED BY <2>1, FS_Interval, Zenon
<1>4. \A k \in 0 .. 63 : term({})[k] = Zero
  OBVIOUS
<1>5. \A k \in 0 .. 63 : term({k})[k] = X2(k) /\ \A l \in (0 .. 63) \ {k} : term({k})[l] = Zero
  OBVIOUS
<1>6. \A r : DOMAIN term(r) = 0 .. 63 /\ Value(r) = SumOf(term(r))
  BY DEF Value
<1> HIDE DEF term
<1>7. Value(p) \in Element
  BY <1>6, SumFacts
<1>8. SumOf(term(Plus(p, q))) = Plus(SumOf(term(p)), SumOf(term(q)))
  BY <1>1, <1>2, <1>3, SumPlus
<1>9. SumOf(term({})) = Zero
  BY <1>4, <1>6, SumZero
<1>10. ASSUME NEW k \in 0 .. 63 PROVE SumOf(term({k})) = X2(k)
  <2>1. term({k}) \in [0 .. 63 -> Element]
    BY <1>1
  <2>2. SumOf(term({k})) = term({k})[k]
    BY <1>5, <2>1, SumPick
  <2>3. QED BY <1>5, <2>2
<1>11. QED BY <1>6, <1>7, <1>8, <1>9, <1>10

\* What is true of single powers and of sums is true of all polynomials.
LEMMA PolyInduction ==
  ASSUME NEW b \in Nat, NEW S, {} \in S, \A k \in 0 .. b - 1 : {k} \in S,
         \A p, q \in S : p \subseteq 0 .. b - 1 /\ q \subseteq 0 .. b - 1 => Plus(p, q) \in S,
         NEW p \in SUBSET (0 .. b - 1)
  PROVE  p \in S
<1> DEFINE Good(l) == l <= b => \A q \in SUBSET (0 .. l - 1) : q \in S
           D == {l \in Nat : Good(l)}
<1>1. Good(0)
  <2>1. \A q \in SUBSET (0 .. 0 - 1) : q = {}
    OBVIOUS
  <2>2. QED BY <2>1
<1>2. ASSUME NEW l \in Nat, Good(l) PROVE Good(l + 1)
  <2>1. SUFFICES ASSUME l + 1 <= b, NEW q \in SUBSET (0 .. l + 1 - 1) PROVE q \in S
    OBVIOUS
  <2>2. \A k \in q : k \in 0 .. l
    BY <2>1
  <2>3. q \ {l} \in SUBSET (0 .. l - 1)
    BY <2>2
  <2>4. q \ {l} \in S
    BY <1>2, <2>1, <2>3
  <2>5. CASE l \in q
    <3>1. q = Plus(q \ {l}, {l})
      BY <2>5 DEF Plus
    <3>2. {l} \in S /\ {l} \subseteq 0 .. b - 1 /\ q \ {l} \subseteq 0 .. b - 1
      BY <2>1, <2>2
    <3>3. Plus(q \ {l}, {l}) \in S
      BY <2>4, <3>2
    <3>4. QED BY <3>1, <3>3
  <2>6. CASE l \notin q
    <3>1. q \ {l} = q
      BY <2>6
    <3>2. QED BY <2>4, <3>1
  <2>7. QED BY <2>5, <2>6
<1>3. D = Nat
  <2> HIDE DEF Good
  <2>1. 0 \in D /\ \A l \in D : l + 1 \in D
    BY <1>1, <1>2
  <2>2. D \in SUBSET Nat
    OBVIOUS
  <2> HIDE DEF D
  <2>3. QED BY <2>1, <2>2, Induction
<1>4. Good(b)
  BY <1>3
<1>5. QED BY <1>4

\* The value of an element is itself.
LEMMA ElementValue ==
  ASSUME NEW x \in Element
  PROVE  Value(x) = x
<1> DEFINE S == {y \in Element : Value(y) = y}
<1>1. {} \in S
  BY ValueFacts, ElementFacts DEF Zero
<1>2. \A k \in 0 .. Width - 1 : {k} \in S
  <2>1. ASSUME NEW k \in 0 .. Width - 1 PROVE {k} \in S
    <3>1. k \in 0 .. 63 /\ k \in Nat /\ k < Width
      BY ElementFacts
    <3>2. {k} \in Element
      BY DEF Element
    <3>3. QED BY <3>1, <3>2, ValueFacts, TwoPowers
  <2>2. QED BY <2>1
<1>3. \A y, z \in S : Plus(y, z) \in S
  BY PlusType, ValueFacts
<1>4. Width \in Nat /\ x \in SUBSET (0 .. Width - 1)
  BY ElementFacts DEF Element
<1> HIDE DEF S
<1>5. x \in S
  BY <1>1, <1>2, <1>3, <1>4, PolyInduction
<1>6. QED BY <1>5 DEF S

LEMMA PowersAdd ==
  ASSUME NEW q \in Nat, NEW s \in Nat
  PROVE  Times(X2(s), X2(q)) = X2(q + s)
<1> DEFINE Good(l) == Times(X2(s), X2(l)) = X2(l + s)
           D == {l \in Nat : Good(l)}
<1>1. Good(0)
  BY TwoPowers, TimesFacts, 0 + s = s
<1>2. ASSUME NEW l \in Nat, Good(l) PROVE Good(l + 1)
  <2>1. l + s \in Nat /\ (l + 1) + s = (l + s) + 1 /\ {1} \in Element
    BY ElementFacts DEF Element
  <2>2. /\ X2(l + 1) = Times({1}, X2(l)) /\ X2((l + s) + 1) = Times({1}, X2(l + s))
        /\ X2(l) \in Element /\ X2(s) \in Element
    BY <2>1, TwoPowers
  <2>3. Times(X2(s), Times({1}, X2(l))) = Times({1}, Times(X2(s), X2(l)))
    <3>1. Times(X2(s), Times({1}, X2(l))) = Times(Times(X2(s), {1}), X2(l))
      BY <2>1, <2>2, TimesFacts
    <3>2. Times(X2(s), {1}) = Times({1}, X2(s))
      BY <2>1, <2>2, TimesFacts
    <3>3. Times(Times({1}, X2(s)), X2(l)) = Times({1}, Times(X2(s), X2(l)))
      BY <2>1, <2>2, TimesFacts
    <3>4. QED BY <3>1, <3>2, <3>3
  <2>4. QED BY <1>2, <2>1, <2>2, <2>3
<1>3. D = Nat
  <2> HIDE DEF Good
  <2>1. 0 \in D /\ \A l \in D : l + 1 \in D
    BY <1>1, <1>2
  <2>2. D \in SUBSET Nat
    OBVIOUS
  <2> HIDE DEF D
  <2>3. QED BY <2>1, <2>2, Induction
<1>4. Good(q)
  BY <1>3
<1>5. QED BY <1>4

\* To move the bits of a polynomial multiplies its value.
LEMMA ShiftedValue ==
  ASSUME NEW b \in Nat, NEW s \in Nat, b + s <= 64, NEW p \in SUBSET (0 .. b - 1)
  PROVE  Value(Shifted(p, s)) = Times(X2(s), Value(p))
<1> DEFINE S == {q \in SUBSET (0 .. b - 1) : Value(Shifted(q, s)) = Times(X2(s), Value(q))}
<1>1. {} \in S
  <2>1. Shifted({}, s) = {}
    BY DEF Shifted
  <2>2. QED BY <2>1, ValueFacts, TimesZero
<1>2. \A k \in 0 .. b - 1 : {k} \in S
  <2>1. ASSUME NEW k \in 0 .. b - 1 PROVE {k} \in S
    <3>1. k \in 0 .. 63 /\ k + s \in 0 .. 63 /\ k \in Nat
      OBVIOUS
    <3>2. Shifted({k}, s) = {k + s}
      BY DEF Shifted
    <3>3. Value({k + s}) = X2(k + s) /\ Value({k}) = X2(k)
      BY <3>1, ValueFacts
    <3>4. QED BY <3>1, <3>2, <3>3, PowersAdd
  <2>2. QED BY <2>1
<1>3. ASSUME NEW u \in S, NEW v \in S PROVE Plus(u, v) \in S
  <2>1. Shifted(Plus(u, v), s) = Plus(Shifted(u, s), Shifted(v, s))
    <3>1. (\A k \in u : k \in Int) /\ (\A k \in v : k \in Int)
      OBVIOUS
    <3>2. \A k, l \in Int : k + s = l + s => k = l
      OBVIOUS
    <3>3. QED BY <3>1, <3>2 DEF Plus, Shifted
  <2>2. X2(s) \in Element /\ Value(u) \in Element /\ Value(v) \in Element
    BY TwoPowers, ValueFacts
  <2>3. Times(X2(s), Plus(Value(u), Value(v))) = Plus(Times(X2(s), Value(u)), Times(X2(s), Value(v)))
    BY <2>2, Distributive
  <2>4. Plus(u, v) \in SUBSET (0 .. b - 1)
    BY DEF Plus
  <2>5. QED BY <2>1, <2>3, <2>4, ValueFacts
<1> HIDE DEF S
<1>4. p \in S
  BY <1>1, <1>2, <1>3, PolyInduction
<1>5. QED BY <1>4 DEF S

LEMMA ModulusValue == Value(Modulus) = Zero
<1>1. Modulus \subseteq 0 .. Width /\ Width \in Modulus /\ Width \in 0 .. 63
  BY ModulusFacts, ElementFacts
<1> DEFINE L == Plus({Width}, Modulus)
<1>2. L \in Element
  <2>1. L \subseteq 0 .. Width /\ Width \notin L
    BY <1>1 DEF Plus
  <2>2. \A k \in 0 .. Width : k # Width => k \in 0 .. Width - 1
    BY ElementFacts
  <2> HIDE DEF L
  <2>3. QED BY <2>1, <2>2 DEF Element
<1>3. Modulus = Plus(L, {Width})
  BY DEF Plus
<1>4. Value(L) = L
  BY <1>2, ElementValue
<1>5. Value({Width}) = L
  BY <1>1, ValueFacts, TwoPowers
<1> HIDE DEF L
<1>6. Value(Modulus) = Plus(L, L)
  BY <1>3, <1>4, <1>5, ValueFacts
<1>7. QED BY <1>6, PlusFacts

LEMMA RemValue ==
  ASSUME NEW p \in Poly
  PROVE  PolyRem(p, Modulus) = Value(p)
<1> DEFINE S == {r \in Poly : Value(r) = Value(p)}
<1>1. ASSUME NEW r \in S, NEW s \in Nat, Width + s \in r
      PROVE  Plus(r, Shifted(Modulus, s)) \in S
  <2>1. Width + s <= 63 /\ Width + 1 \in Nat /\ Width + 1 + s <= 64
    <3>1. Width + s \in 0 .. 63
      BY <1>1 DEF Poly
    <3>2. QED BY <3>1, ElementFacts
  <2>2. PICK b \in Nat : b = Width + 1
    BY <2>1
  <2>3. Value(Shifted(Modulus, s)) = Zero
    <3>1. Value(Shifted(Modulus, s)) = Times(X2(s), Value(Modulus))
      <4>1. Modulus \in SUBSET (0 .. b - 1)
        BY <2>2, ModulusFacts, ElementFacts
      <4>2. b + s <= 64
        BY <2>1, <2>2
      <4>3. QED BY <4>1, <4>2, ShiftedValue
    <3>2. QED BY <3>1, ModulusValue, TimesZero
  <2>4. Shifted(Modulus, s) \subseteq 0 .. 63
    <3>1. \A k \in Modulus : k \in 0 .. Width
      BY ModulusFacts
    <3>2. \A k \in Modulus : k + s \in 0 .. 63
      BY <2>1, <3>1, ElementFacts
    <3>3. QED BY <3>2 DEF Shifted
  <2>5. Plus(r, Shifted(Modulus, s)) \in Poly
    BY <2>4 DEF Poly, Plus
  <2>6. QED BY <2>3, <2>5, ValueFacts, PlusFacts
<1>2. S \in SUBSET Poly /\ p \in S
  OBVIOUS
<1>3. \A r \in S : Value(r) = Value(p)
  OBVIOUS
<1> HIDE DEF S
<1>4. PolyRem(p, Modulus) \in S /\ PolyRem(p, Modulus) \in Element
  BY <1>1, <1>2, RemFacts
<1>5. QED BY <1>3, <1>4, ElementValue

LEMMA ProductValue ==
  ASSUME NEW x \in Element, NEW y \in Element
  PROVE  PolyTimes(x, y) \in Poly /\ Value(PolyTimes(x, y)) = Times(x, y)
<1> DEFINE terms(p, k) == {l \in p : k - l \in y}
           S == {p \in Element : Value(PolyTimes(p, y)) = Times(p, y)}
<1>1. \A p, k : k \in PolyTimes(p, y) <=> k \in 0 .. 63 /\ Odd(terms(p, k))
  BY DEF PolyTimes, Odd
<1>2. \A p \in Element : \A k : IsFiniteSet(terms(p, k))
  <2>1. IsFiniteSet(0 .. Width - 1)
    BY ElementFacts, FS_Interval
  <2>2. QED BY <2>1, FS_Subset DEF Element
<1>3. {} \in S
  <2>1. \A k : terms({}, k) = {}
    OBVIOUS
  <2> HIDE DEF terms
  <2>2. PolyTimes({}, y) = {}
    BY <1>1, <2>1, OddSmall
  <2>3. Times({}, y) = Zero
    BY TimesZero DEF Zero
  <2>4. QED BY <2>2, <2>3, ValueFacts, ElementFacts DEF Zero
<1>4. ASSUME NEW l \in 0 .. Width - 1 PROVE {l} \in S
  <2>1. l \in 0 .. 31 /\ Width \in 0 .. 32 /\ l \in Nat /\ l < Width
    BY ElementFacts
  <2>2. \A k \in y : k \in 0 .. Width - 1
    BY DEF Element
  <2>3. \A k : terms({l}, k) = IF k - l \in y THEN {l} ELSE {}
    OBVIOUS
  <2> HIDE DEF terms
  <2>4. ASSUME NEW k \in 0 .. 63 PROVE k \in PolyTimes({l}, y) <=> k - l \in y
    <3>1. Odd(terms({l}, k)) <=> k - l \in y
      BY <2>3, OddSmall
    <3>2. QED BY <1>1, <3>1
  <2>5. ASSUME NEW k \in 0 .. 63 PROVE k \in Shifted(y, l) <=> k - l \in y
    <3>1. \A b \in y : k = b + l <=> k - l = b
      BY <2>1, <2>2
    <3>2. QED BY <3>1 DEF Shifted
  <2>6. PolyTimes({l}, y) = Shifted(y, l)
    <3>1. PolyTimes({l}, y) \subseteq 0 .. 63
      BY DEF PolyTimes
    <3>2. Shifted(y, l) \subseteq 0 .. 63
      <4>1. \A b \in y : b + l \in 0 .. 63
        BY <2>1, <2>2
      <4>2. QED BY <4>1 DEF Shifted
    <3>3. QED BY <2>4, <2>5, <3>1, <3>2
  <2>7. Value(Shifted(y, l)) = Times(X2(l), Value(y))
    <3>1. y \in SUBSET (0 .. Width - 1) /\ Width \in Nat /\ Width + l <= 64
      BY <2>1 DEF Element
    <3>2. QED BY <2>1, <3>1, ShiftedValue
  <2>8. X2(l) = {l} /\ X2(l) \in Element
    BY <2>1, TwoPowers
  <2>9. QED BY <2>6, <2>7, <2>8, ElementValue
<1>5. ASSUME NEW u \in S, NEW v \in S PROVE Plus(u, v) \in S
  <2>1. \A k : terms(Plus(u, v), k) = Plus(terms(u, k), terms(v, k))
    BY DEF Plus
  <2>2. u \in Element /\ v \in Element
    OBVIOUS
  <2> HIDE DEF terms
  <2>3. \A k : Odd(terms(Plus(u, v), k)) <=> ~(Odd(terms(u, k)) <=> Odd(terms(v, k)))
    BY <1>2, <2>1, <2>2, OddFacts
  <2>4. PolyTimes(Plus(u, v), y) = Plus(PolyTimes(u, y), PolyTimes(v, y))
    <3>1. \A k : k \in PolyTimes(Plus(u, v), y) <=> k \in Plus(PolyTimes(u, y), PolyTimes(v, y))
      BY <1>1, <2>3 DEF Plus
    <3>2. QED BY <3>1
  <2>5. Times(Plus(u, v), y) = Plus(Times(u, y), Times(v, y))
    BY <2>2, Distributive
  <2>6. QED BY <2>2, <2>4, <2>5, ValueFacts, PlusType
<1>6. x \in S
  <2> HIDE DEF S
  <2>1. x \in SUBSET (0 .. Width - 1) /\ Width \in Nat
    BY ElementFacts DEF Element
  <2>2. QED BY <1>3, <1>4, <1>5, <2>1, PolyInduction
<1>7. PolyTimes(x, y) \in Poly
  BY DEF PolyTimes, Poly
<1>8. QED BY <1>6, <1>7

LEMMA DividedFacts ==
  ASSUME NEW x \in Element, NEW y \in NonZero
  PROVE  Times(DividedBy(x, y), y) = x
<1>1. CASE x = Zero
  BY <1>1, TimesZero DEF DividedBy
<1>2. CASE x # Zero
  <2>1. PICK q \in Exponent : q = LogTable[x] /\ E(q) = x
    BY <1>2, LogFacts, NonZeroPower DEF NonZero
  <2>2. PICK s \in Exponent : s = LogTable[y] /\ E(s) = y
    BY LogFacts, NonZeroPower
  <2>3. /\ q \in Nat /\ s \in Nat /\ q - s + Order - 1 \in Nat
        /\ (q - s + Order - 1) + s = q + (Order - 1)
    BY OrderFacts DEF Exponent
  <2>4. DividedBy(x, y) = E(q - s + Order - 1)
    BY <1>2, <2>1, <2>2 DEF DividedBy, E
  <2>5. Times(E(q - s + Order - 1), E(s)) = E(q + (Order - 1))
    BY <2>3, TimesPowers
  <2>6. E(q + (Order - 1)) = E(q)
    BY <2>3, PowerFacts
  <2>7. QED BY <2>1, <2>2, <2>4, <2>5, <2>6
<1>3. QED BY <1>1, <1>2

\* Products by logarithms, and by tables of either kind, are products of
\* polynomials modulo the polynomial, and division and powers agree with them:
\* whenever 3 is a generator, that is whenever init of t.go does not panic.
THEOREM FieldIsRight == FieldRight
<1>1. ASSUME NEW x \in Element, NEW y \in Element
      PROVE  /\ Times(x, y) = PolyRem(PolyTimes(x, y), Modulus)
             /\ ByTable(MulTable, x, y, Width \div 2) = Times(x, y)
             /\ ByTable(MulTable64, x, y, Width \div 4) = Times(x, y)
  BY ProductValue, RemValue, TablesOfParts, ByTableRight DEF MulTable, MulTable64
<1>2. ASSUME NEW x \in Element, NEW y \in Element, y # Zero
      PROVE  Times(y, InverseOf(y)) = One /\ Times(DividedBy(x, y), y) = x
  BY <1>2, InverseFacts, DividedFacts DEF NonZero
<1>3. ASSUME NEW x \in Element, NEW q \in 0 .. Order
      PROVE  Pow(x, q + 1) = Times(Pow(x, q), x)
  BY PowFacts, OrderFacts
<1>4. QED BY <1>1, <1>2, <1>3 DEF FieldRight

\* The same of the tables that init of t.go makes, as the property that a run checks.
THEOREM TablesAreRight == Spec => []TablesRight
<1>1. TablesRight
  BY FieldIsRight DEF TablesRight
<1>2. QED BY <1>1, PTL

-------------------------------------------------------------------------------
(* The elements for numbers. *)

LEMMA PowerOfTwo ==
  ASSUME NEW q \in Nat
  PROVE  /\ 2^q \in Nat \ {0} /\ 2^(q + 1) = 2 * 2^q
         /\ Cardinality(SUBSET (0 .. q - 1)) = 2^q /\ IsFiniteSet(SUBSET (0 .. q - 1))
<1> DEFINE A == SUBSET (0 .. q - 1)
           B == {x \cup {q} : x \in A}
           f == [x \in A |-> x \cup {q}]
<1>1. ASSUME NEW k \in Nat
      PROVE  IsFiniteSet(SUBSET (0 .. k - 1)) /\ Cardinality(SUBSET (0 .. k - 1)) = 2^k
  <2>1. 0 \in Int /\ k - 1 \in Int /\ (IF 0 > k - 1 THEN 0 ELSE k - 1 - 0 + 1) = k
    OBVIOUS
  <2>2. IsFiniteSet(0 .. k - 1) /\ Cardinality(0 .. k - 1) = k
    BY <2>1, FS_Interval
  <2>3. QED BY <2>2, FS_SUBSET
<1>2. IsFiniteSet(A) /\ Cardinality(A) = 2^q /\ 2^q \in Nat
  BY <1>1, FS_CardinalityType
<1>3. \A x \in A : q \notin x
  OBVIOUS
<1>4. IsFiniteSet(B) /\ Cardinality(B) = 2^q
  <2>1. f \in [A -> B] /\ \A y \in B : \E x \in A : f[x] = y
    OBVIOUS
  <2>2. ASSUME NEW x \in A, NEW y \in A, f[x] = f[y] PROVE x = y
    <3>1. x \cup {q} = y \cup {q}
      BY <2>2
    <3>2. QED BY <1>3, <3>1
  <2>3. f \in Bijection(A, B)
    BY <2>1, <2>2 DEF Bijection, Injection, IsInjective, Surjection
  <2>4. ExistsBijection(A, B)
    BY <2>3 DEF ExistsBijection
  <2> HIDE DEF A, B, f
  <2>5. QED BY <1>2, <2>4, FS_Bijection
<1>5. A \cap B = {}
  BY <1>3
<1>6. A \cup B = SUBSET (0 .. (q + 1) - 1)
  <2>1. A \subseteq SUBSET (0 .. (q + 1) - 1)
    OBVIOUS
  <2>2. \A k \in 0 .. (q + 1) - 1 : k = q \/ k \in 0 .. q - 1
    OBVIOUS
  <2>3. B \subseteq SUBSET (0 .. (q + 1) - 1)
    <3>1. \A x \in A : x \cup {q} \in SUBSET (0 .. (q + 1) - 1)
      OBVIOUS
    <3>2. QED BY <3>1
  <2>4. ASSUME NEW y \in SUBSET (0 .. (q + 1) - 1) PROVE y \in A \cup B
    <3>1. y \ {q} \in A
      BY <2>2
    <3>2. CASE q \in y
      <4>1. y = (y \ {q}) \cup {q}
        BY <3>2
      <4>2. QED BY <3>1, <4>1
    <3>3. CASE q \notin y
      <4>1. y = y \ {q}
        BY <3>3
      <4>2. QED BY <3>1, <4>1
    <3>4. QED BY <3>2, <3>3
  <2>5. QED BY <2>1, <2>3, <2>4
<1> HIDE DEF A, B, f
<1>7. Cardinality(SUBSET (0 .. (q + 1) - 1)) = 2^(q + 1)
  BY <1>1, q + 1 \in Nat
<1>8. Cardinality(A \cup B) = Cardinality(A) + Cardinality(B) - Cardinality(A \cap B)
  BY <1>2, <1>4, FS_Union
<1>9. 2^(q + 1) = 2 * 2^q
  <2>1. Cardinality(A \cap B) = 0
    BY <1>5, FS_EmptySet, Zenon
  <2>2. Cardinality(A \cup B) = 2^(q + 1)
    BY <1>6, <1>7, Zenon
  <2>3. 2^(q + 1) = 2^q + 2^q - 0
    BY <1>2, <1>4, <1>8, <2>1, <2>2, Zenon
  <2>4. PICK g \in Nat : g = 2^q
    BY <1>2
  <2>5. QED BY <2>3, <2>4
<1>10. 2^q # 0
  <2>1. {} \in A
    BY DEF A
  <2>2. QED BY <1>2, <2>1, FS_EmptySet
<1>11. QED BY <1>2, <1>9, <1>10 DEF A

LEMMA Quotient ==
  ASSUME NEW w \in Nat \ {0}, NEW d \in Int, NEW r \in 0 .. w - 1
  PROVE  ((w * d) + r) \div w = d
  OBVIOUS

LEMMA HalfQuotient ==
  ASSUME NEW a \in Nat, NEW w \in Nat \ {0}
  PROVE  (a \div 2) \div w = a \div (2 * w)
<1>1. 2 * w \in Nat \ {0} /\ a \in Int
  OBVIOUS
<1>2. PICK d \in Int, r \in 0 .. (2 * w) - 1 : a = ((2 * w) * d) + r
  BY <1>1, Division
<1>3. a \div (2 * w) = d
  BY <1>1, <1>2, Quotient
<1>4. PICK x \in Int : x = w * d
  OBVIOUS
<1>5. (2 * w) * d = 2 * x
  BY <1>4
<1>6. a = 2 * x + r
  BY <1>2, <1>5
<1>7. a \div 2 = x + (r \div 2) /\ r \div 2 \in 0 .. w - 1
  BY <1>6
<1>8. ((w * d) + (r \div 2)) \div w = d
  BY <1>7, Quotient
<1>9. QED BY <1>3, <1>4, <1>7, <1>8

\* A number is known by its bits.
LEMMA BitsTell ==
  ASSUME NEW s \in Nat, NEW a \in 0 .. 2^s - 1, NEW b \in 0 .. 2^s - 1,
         \A k \in 0 .. s - 1 : (a \div 2^k) % 2 = 1 <=> (b \div 2^k) % 2 = 1
  PROVE  a = b
<1> DEFINE Same(l, u, v) == \A k \in 0 .. l - 1 : (u \div 2^k) % 2 = 1 <=> (v \div 2^k) % 2 = 1
           Good(l) == \A u, v \in Nat : u < 2^l /\ v < 2^l /\ Same(l, u, v) => u = v
           D == {l \in Nat : Good(l)}
<1>1. Good(0)
  <2>1. 2^0 = 1
    OBVIOUS
  <2>2. QED BY <2>1
<1>2. ASSUME NEW l \in Nat, Good(l) PROVE Good(l + 1)
  <2>1. SUFFICES ASSUME NEW u \in Nat, NEW v \in Nat, u < 2^(l + 1), v < 2^(l + 1), Same(l + 1, u, v)
                 PROVE  u = v
    OBVIOUS
  <2>2. PICK g \in Nat \ {0} : g = 2^l /\ 2^(l + 1) = 2 * g
    BY PowerOfTwo
  <2>3. u \div 2 \in Nat /\ v \div 2 \in Nat /\ u \div 2 < 2^l /\ v \div 2 < 2^l
    BY <2>1, <2>2
  <2>4. Same(l, u \div 2, v \div 2)
    <3>1. ASSUME NEW k \in 0 .. l - 1
          PROVE  ((u \div 2) \div 2^k) % 2 = 1 <=> ((v \div 2) \div 2^k) % 2 = 1
      <4>1. k \in Nat /\ k + 1 \in 0 .. (l + 1) - 1
        OBVIOUS
      <4>2. 2^k \in Nat \ {0} /\ 2^(k + 1) = 2 * 2^k
        BY <4>1, PowerOfTwo
      <4>3. (u \div 2) \div 2^k = u \div 2^(k + 1) /\ (v \div 2) \div 2^k = v \div 2^(k + 1)
        BY <4>2, HalfQuotient
      <4>4. (u \div 2^(k + 1)) % 2 = 1 <=> (v \div 2^(k + 1)) % 2 = 1
        BY <2>1, <4>1
      <4>5. QED BY <4>3, <4>4
    <3>2. QED BY <3>1
  <2>5. u \div 2 = v \div 2
    BY <1>2, <2>3, <2>4
  <2>6. u % 2 = 1 <=> v % 2 = 1
    <3>1. 2^0 = 1 /\ u \div 1 = u /\ v \div 1 = v /\ 0 \in 0 .. (l + 1) - 1
      OBVIOUS
    <3>2. (u \div 2^0) % 2 = 1 <=> (v \div 2^0) % 2 = 1
      BY <2>1, <3>1
    <3>3. QED BY <3>1, <3>2
  <2>7. QED BY <2>5, <2>6
<1>3. D = Nat
  <2> HIDE DEF Good
  <2>1. 0 \in D /\ \A l \in D : l + 1 \in D
    BY <1>1, <1>2
  <2>2. D \in SUBSET Nat
    OBVIOUS
  <2> HIDE DEF D
  <2>3. QED BY <2>1, <2>2, Induction
<1>4. Good(s)
  BY <1>3
<1>5. 2^s \in Nat
  BY PowerOfTwo
<1>6. a \in Nat /\ b \in Nat /\ a < 2^s /\ b < 2^s
  BY <1>5
<1>7. Same(s, a, b)
  OBVIOUS
<1> HIDE DEF Same
<1>8. QED BY <1>4, <1>6, <1>7

\* Different numbers are different elements.
LEMMA ElementOfNumber ==
  ASSUME NEW a \in 0 .. Order - 1, NEW b \in 0 .. Order - 1
  PROVE  T(a) \in Element /\ (T(a) = T(b) => a = b)
<1>1. T(a) \in Element
  BY DEF T, Element
<1>2. ASSUME T(a) = T(b) PROVE a = b
  <2>1. \A k \in 0 .. Width - 1 : (a \div 2^k) % 2 = 1 <=> (b \div 2^k) % 2 = 1
    BY <1>2 DEF T
  <2>2. a \in 0 .. 2^Width - 1 /\ b \in 0 .. 2^Width - 1 /\ Width \in Nat
    BY ElementFacts DEF Order
  <2>3. QED BY <2>1, <2>2, BitsTell
<1>3. QED BY <1>1, <1>2

-------------------------------------------------------------------------------
(* The numbers of a set in order. *)

Rank(x, S) == Cardinality({y \in S : y < x})

LEMMA RankFacts ==
  ASSUME NEW S \in SUBSET Nat, IsFiniteSet(S)
  PROVE  /\ \A x \in S : Rank(x, S) \in 0 .. Cardinality(S) - 1 /\ Nth(Rank(x, S), S) = x
         /\ \A k \in 0 .. Cardinality(S) - 1 : Nth(k, S) \in S /\ Rank(Nth(k, S), S) = k
<1> DEFINE under(x) == {y \in S : y < x}
           size == Cardinality(S)
           f == [x \in S |-> Rank(x, S)]
<1>1. size \in Nat
  BY FS_CardinalityType
<1>2. \A x : IsFiniteSet(under(x)) /\ Cardinality(under(x)) \in Nat
  BY FS_Subset, FS_CardinalityType
<1>3. ASSUME NEW x \in S PROVE Rank(x, S) \in 0 .. size - 1
  <2>1. under(x) \in SUBSET (S \ {x})
    OBVIOUS
  <2>2. IsFiniteSet(S \ {x}) /\ Cardinality(S \ {x}) = size - 1
    BY FS_RemoveElement
  <2>3. Cardinality(under(x)) <= size - 1
    <3> HIDE DEF under, size
    <3>1. QED BY <2>1, <2>2, FS_Subset
  <2>4. Rank(x, S) = Cardinality(under(x))
    BY DEF Rank
  <2> HIDE DEF under, size
  <2>5. QED BY <1>1, <1>2, <2>3, <2>4
<1>4. ASSUME NEW x \in S, NEW y \in S, x < y PROVE Rank(x, S) # Rank(y, S)
  <2>1. under(x) \in SUBSET under(y) /\ x \in under(y) /\ x \notin under(x)
    <3>1. \A z \in S : z < x => z < y
      BY <1>4
    <3>2. ~(x < x)
      OBVIOUS
    <3>3. QED BY <1>4, <3>1, <3>2
  <2>2. Rank(x, S) = Cardinality(under(x)) /\ Rank(y, S) = Cardinality(under(y))
    BY DEF Rank
  <2>3. under(x) # under(y)
    BY <2>1
  <2> HIDE DEF under
  <2>4. Cardinality(under(y)) # Cardinality(under(x))
    BY <1>2, <2>1, <2>3, FS_Subset
  <2>5. QED BY <2>2, <2>4
<1>5. \A x, y \in S : Rank(x, S) = Rank(y, S) => x = y
  <2>1. \A x, y \in S : x < y \/ y < x \/ x = y
    OBVIOUS
  <2>2. QED BY <1>4, <2>1
<1>6. f \in Injection(S, 0 .. size - 1)
  <2>1. f \in [S -> 0 .. size - 1]
    BY <1>3
  <2>2. \A x, y \in S : f[x] = f[y] => x = y
    BY <1>5
  <2>3. QED BY <2>1, <2>2 DEF Injection, IsInjective
<1>7. IsFiniteSet(0 .. size - 1) /\ Cardinality(0 .. size - 1) = size
  <2>1. 0 \in Int /\ size - 1 \in Int /\ (IF 0 > size - 1 THEN 0 ELSE size - 1 - 0 + 1) = size
    <3> HIDE DEF size
    <3>1. QED BY <1>1
  <2>2. QED BY <2>1, FS_Interval
<1>8. f \in Surjection(S, 0 .. size - 1)
  <2> HIDE DEF f
  <2>1. QED BY <1>6, <1>7, FS_Injection
<1>9. ASSUME NEW k \in 0 .. size - 1 PROVE \E x \in S : Rank(x, S) = k
  <2>1. \E x \in S : f[x] = k
    <3> HIDE DEF f
    <3>1. QED BY <1>8 DEF Surjection
  <2>2. QED BY <2>1
<1>10. \A k : Nth(k, S) = CHOOSE x \in S : Rank(x, S) = k
  BY DEF Nth, Rank
<1>11. ASSUME NEW x \in S PROVE Nth(Rank(x, S), S) = x
  <2>1. PICK k : k = Rank(x, S)
    OBVIOUS
  <2>2. (CHOOSE y \in S : Rank(y, S) = k) = x
    BY <1>5, <2>1
  <2>3. QED BY <1>10, <2>1, <2>2
<1>12. ASSUME NEW k \in 0 .. size - 1 PROVE Nth(k, S) \in S /\ Rank(Nth(k, S), S) = k
  BY <1>9, <1>10
<1>13. QED BY <1>3, <1>11, <1>12

\* The first ones of a set, by rank.
LEMMA FirstOnes ==
  ASSUME NEW S \in SUBSET Nat, IsFiniteSet(S), NEW b \in Nat,
         NEW C, C = {x \in S : Rank(x, S) < b}
  PROVE  /\ C \in SUBSET S /\ IsFiniteSet(C)
         /\ Cardinality(C) < b => Cardinality(S) < b
<1>1. C \in SUBSET S /\ IsFiniteSet(C)
  BY FS_Subset
<1>2. Cardinality(S) \in Nat /\ Cardinality(C) \in Nat
  BY <1>1, FS_CardinalityType
<1>3. ASSUME Cardinality(S) >= b PROVE Cardinality(C) >= b
  <2> DEFINE f == [k \in 0 .. b - 1 |-> Nth(k, S)]
  <2>1. \A k \in 0 .. b - 1 : k \in 0 .. Cardinality(S) - 1
    BY <1>2, <1>3
  <2>2. \A k \in 0 .. b - 1 : Nth(k, S) \in S /\ Rank(Nth(k, S), S) = k
    BY <2>1, RankFacts
  <2>3. f \in [0 .. b - 1 -> C]
    BY <2>2
  <2>4. f \in Injection(0 .. b - 1, C)
    <3>1. \A k, l \in 0 .. b - 1 : f[k] = f[l] => k = l
      <4>1. ASSUME NEW k \in 0 .. b - 1, NEW l \in 0 .. b - 1, f[k] = f[l] PROVE k = l
        <5>1. Nth(k, S) = Nth(l, S)
          BY <4>1
        <5>2. QED BY <2>2, <5>1
      <4>2. QED BY <4>1
    <3> HIDE DEF f
    <3>2. QED BY <2>3, <3>1 DEF Injection, IsInjective
  <2> HIDE DEF f
  <2>5. Cardinality(0 .. b - 1) <= Cardinality(C)
    BY <1>1, <2>4, FS_Injection
  <2>6. Cardinality(0 .. b - 1) = b
    <3>1. 0 \in Int /\ b - 1 \in Int /\ (IF 0 > b - 1 THEN 0 ELSE b - 1 - 0 + 1) = b
      OBVIOUS
    <3>2. QED BY <3>1, FS_Interval
  <2>7. QED BY <2>5, <2>6
<1>4. QED BY <1>1, <1>2, <1>3

-------------------------------------------------------------------------------
(* The list of parity shards. *)

ParityInv ==
  /\ packets \subseteq Exponents /\ todo \subseteq packets
  /\ parity \in Seq(Nat \cup {Nil})
  /\ \A k \in 1 .. Len(parity) : parity[k] \in {k - 1, Nil}
  /\ parity # <<>> => parity[Len(parity)] # Nil
  /\ result # "panic" => PresentParity = packets \ todo
  /\ pc # "load" /\ result # "panic" => todo = {}
  /\ result = "panic" => Order - 1 \in packets /\ pc = "done"

LEMMA ListFacts ==
  ASSUME NEW b \in Nat, NEW f \in [1 .. b -> Nat \cup {Nil}]
  PROVE  f \in Seq(Nat \cup {Nil}) /\ Len(f) = b
<1>1. f \in Seq(Nat \cup {Nil})
  BY SeqDef
<1>2. DOMAIN f = 1 .. Len(f) /\ Len(f) \in Nat
  BY <1>1, LenProperties
<1>3. 1 .. b = 1 .. Len(f)
  BY <1>2
<1>4. b = Len(f)
  <2>1. \A k \in Nat : k \in 1 .. b <=> k \in 1 .. Len(f)
    BY <1>3
  <2>2. QED BY <1>2, <2>1
<1>5. QED BY <1>1, <1>4

LEMMA ParityInit == Init => ParityInv
<1>1. SUFFICES ASSUME Init PROVE ParityInv
  OBVIOUS
<1>2. parity = <<>> /\ todo = packets /\ packets \subseteq Exponents /\ result = "none" /\ pc = "load"
  BY <1>1 DEF Init
<1>3. Len(parity) = 0 /\ parity \in Seq(Nat \cup {Nil})
  BY <1>2
<1>4. PresentParity = {}
  BY <1>3 DEF PresentParity
<1>5. \A k \in 1 .. Len(parity) : parity[k] \in {k - 1, Nil}
  BY <1>3
<1>6. QED BY <1>2, <1>3, <1>4, <1>5 DEF ParityInv

LEMMA ParityPlaced ==
  ASSUME ParityInv, PlacePacket
  PROVE  ParityInv'
<1>1. PICK e \in todo :
        LET length == (e + 1) % Order
            grown  == IF e < Len(parity) THEN parity
                      ELSE [k \in 1 .. length |-> IF k <= Len(parity) THEN parity[k] ELSE Nil]
            panics == e >= Len(parity) /\ length <= e
        IN  /\ todo' = todo \ {e}
            /\ parity' = IF panics THEN parity ELSE [grown EXCEPT ![e + 1] = e]
            /\ pc' = IF panics THEN "done" ELSE pc
            /\ result' = IF panics THEN "panic" ELSE result
  BY DEF PlacePacket
<1> DEFINE length == (e + 1) % Order
           grown  == IF e < Len(parity) THEN parity
                     ELSE [k \in 1 .. length |-> IF k <= Len(parity) THEN parity[k] ELSE Nil]
           panics == e >= Len(parity) /\ length <= e
<1>2. /\ todo' = todo \ {e} /\ packets' = packets /\ pc = "load"
      /\ parity' = IF panics THEN parity ELSE [grown EXCEPT ![e + 1] = e]
      /\ pc' = IF panics THEN "done" ELSE pc
      /\ result' = IF panics THEN "panic" ELSE result
  BY <1>1 DEF PlacePacket
<1>3. e \in Nat /\ e <= Order - 1 /\ Order \in Nat \ {0} /\ e \in packets
  <2>1. e \in Exponents /\ e \in packets
    BY DEF ParityInv
  <2>2. e \in 0 .. Order - 1
    BY <2>1, CountAssumption
  <2>3. QED BY <2>1, <2>2, OrderFacts
<1>4. length = IF e = Order - 1 THEN 0 ELSE e + 1
  <2>1. PICK w \in Nat \ {0} : w = Order
    BY <1>3
  <2>2. e \in 0 .. w - 1
    BY <1>3, <2>1
  <2>3. e % w = e
    BY <2>1, <2>2, SmallModulo
  <2>4. (e + 1) % w = (IF e % w = w - 1 THEN 0 ELSE (e % w) + 1)
    BY <1>3, <2>1, NextModulo
  <2>5. QED BY <2>1, <2>3, <2>4
<1>5. /\ Len(parity) \in Nat /\ DOMAIN parity = 1 .. Len(parity)
      /\ parity \in [1 .. Len(parity) -> Nat \cup {Nil}]
  BY LenProperties DEF ParityInv
<1>6. packets' \subseteq Exponents /\ todo' \subseteq packets'
  BY <1>2 DEF ParityInv
<1> HIDE DEF length
<1>7. CASE panics
  <2>1. e = Order - 1
    BY <1>3, <1>4, <1>7
  <2>2. parity' = parity /\ pc' = "done" /\ result' = "panic"
    BY <1>2, <1>7
  <2>3. QED BY <1>2, <1>3, <1>6, <2>1, <2>2 DEF ParityInv
<1>8. CASE ~panics
  <2> DEFINE size == IF e < Len(parity) THEN Len(parity) ELSE e + 1
             list == [k \in 1 .. size |-> IF k = e + 1 THEN e
                                          ELSE IF k <= Len(parity) THEN parity[k] ELSE Nil]
  <2>1. size \in Nat /\ e + 1 \in 1 .. size /\ Len(parity) <= size
    BY <1>3, <1>5
  <2>2. e < Len(parity) \/ length = e + 1
    BY <1>3, <1>4, <1>5, <1>8
  <2>3. grown = [k \in 1 .. size |-> IF k <= Len(parity) THEN parity[k] ELSE Nil]
    <3>1. CASE e < Len(parity)
      BY <1>5, <3>1
    <3>2. CASE ~(e < Len(parity))
      BY <2>2, <3>2
    <3>3. QED BY <3>1, <3>2
  <2>4. parity' = list
    <3>1. parity' = [grown EXCEPT ![e + 1] = e]
      BY <1>2, <1>8
    <3> HIDE DEF grown
    <3>2. QED BY <2>1, <2>3, <3>1
  <2>5. \A k \in 1 .. size : list[k] \in {k - 1, Nil}
    <3>1. ASSUME NEW k \in 1 .. size PROVE list[k] \in {k - 1, Nil}
      <4>1. CASE k = e + 1
        BY <1>3, <4>1
      <4>2. CASE k # e + 1 /\ k <= Len(parity)
        <5>1. k \in 1 .. Len(parity)
          BY <1>5, <2>1, <4>2
        <5>2. QED BY <4>2, <5>1 DEF ParityInv
      <4>3. CASE k # e + 1 /\ ~(k <= Len(parity))
        BY <4>3
      <4>4. QED BY <4>1, <4>2, <4>3
    <3>2. QED BY <3>1
  <2>6. list \in [1 .. size -> Nat \cup {Nil}]
    <3> HIDE DEF list, size
    <3>1. \A k \in 1 .. size : list[k] \in Nat \cup {Nil}
      BY <2>1, <2>5
    <3>2. QED BY <3>1 DEF list
  <2>7. list \in Seq(Nat \cup {Nil}) /\ Len(list) = size
    <3> HIDE DEF list, size
    <3>1. QED BY <2>1, <2>6, ListFacts
  <2>8. list[size] # Nil
    <3>1. CASE e < Len(parity)
      <4>1. size = Len(parity) /\ parity # <<>>
        BY <1>3, <1>5, <3>1
      <4>2. parity[size] # Nil
        BY <4>1 DEF ParityInv
      <4>3. QED BY <1>3, <2>1, <4>1, <4>2, NilAssumption
    <3>2. CASE ~(e < Len(parity))
      BY <1>3, <2>1, <3>2, NilAssumption
    <3>3. QED BY <3>1, <3>2
  <2>9. ASSUME result # "panic" PROVE {r \in 0 .. size - 1 : list[r + 1] # Nil} = packets \ (todo \ {e})
    <3>1. PresentParity = packets \ todo
      BY <2>9 DEF ParityInv
    <3>2. ASSUME NEW r \in Nat
          PROVE  r < size /\ list[r + 1] # Nil <=> r = e \/ r \in PresentParity
      <4>1. r < size <=> r + 1 \in 1 .. size
        BY <2>1
      <4>2. CASE r = e
        BY <1>3, <2>1, <4>1, <4>2, NilAssumption
      <4>3. CASE r # e
        <5>1. r < size => list[r + 1] = IF r + 1 <= Len(parity) THEN parity[r + 1] ELSE Nil
          BY <1>3, <4>1, <4>3
        <5>2. r \in PresentParity <=> r + 1 <= Len(parity) /\ parity[r + 1] # Nil
          BY <1>5 DEF PresentParity
        <5> HIDE DEF list, size
        <5>3. r + 1 <= Len(parity) => r < size
          BY <1>5, <2>1
        <5>4. QED BY <4>3, <5>1, <5>2, <5>3
      <4>4. QED BY <4>2, <4>3
    <3> HIDE DEF list
    <3>3. \A r \in packets : r \in Nat
      <4>1. \A r \in Exponents : r \in Nat
        BY CountAssumption, OrderFacts
      <4>2. QED BY <4>1 DEF ParityInv
    <3> HIDE DEF size
    <3>4. \A r \in Nat : r \in 0 .. size - 1 <=> r < size
      BY <2>1
    <3>5. \A r \in 0 .. size - 1 : r \in Nat
      BY <2>1
    <3>6. QED BY <1>3, <3>1, <3>2, <3>3, <3>4, <3>5
  <2> HIDE DEF list, size, panics, grown
  <2>10. result' # "panic" => PresentParity' = packets' \ todo'
    <3>1. result' = result
      BY <1>2, <1>8
    <3>2. PresentParity' = {r \in 0 .. Len(list) - 1 : list[r + 1] # Nil}
      BY <2>4 DEF PresentParity
    <3>3. QED BY <1>2, <2>7, <2>9, <3>1, <3>2
  <2>11. pc' = "load" /\ result' # "panic"
    BY <1>2, <1>8 DEF ParityInv
  <2>12. QED BY <1>6, <2>4, <2>5, <2>7, <2>8, <2>10, <2>11 DEF ParityInv
<1>9. QED BY <1>7, <1>8

\* The other actions leave the list alone.
LEMMA ParityKept ==
  ASSUME ParityInv, Next, ~PlacePacket
  PROVE  /\ packets' = packets /\ todo' = todo /\ parity' = parity
         /\ result # "panic" /\ result' # "panic" /\ todo = {}
<1>1. CASE NewCoder
  <2>1. packets' = packets /\ todo' = todo /\ parity' = parity /\ todo = {} /\ pc = "load"
    BY <1>1 DEF NewCoder
  <2>2. result' # "panic"
    BY <1>1 DEF NewCoder, CoderError
  <2>3. QED BY <2>1, <2>2 DEF ParityInv
<1>2. CASE ReconstructData
  <2>1. packets' = packets /\ todo' = todo /\ parity' = parity /\ pc = "reconstruct"
    BY <1>2 DEF ReconstructData
  <2>2. result # "panic" /\ todo = {}
    BY <2>1 DEF ParityInv
  <2>3. result' # "panic"
    BY <1>2, <2>2 DEF ReconstructData, Refuse
  <2>4. QED BY <2>1, <2>2, <2>3
<1>3. CASE Pivot \/ ClearBelow \/ NextPivot \/ ClearAbove \/ NextColumn
  <2>1. /\ packets' = packets /\ todo' = todo /\ parity' = parity /\ result' = result
        /\ pc \in {"pivot", "below", "above"}
    BY <1>3 DEF Pivot, ClearBelow, NextPivot, ClearAbove, NextColumn, ClearRow
  <2>2. QED BY <2>1 DEF ParityInv
<1>4. CASE Singular
  <2>1. /\ packets' = packets /\ todo' = todo /\ parity' = parity /\ result' = "singular"
        /\ pc = "pivot"
    BY <1>4 DEF Singular, Refuse
  <2>2. QED BY <2>1 DEF ParityInv
<1>5. CASE Store
  <2>1. /\ packets' = packets /\ todo' = todo /\ parity' = parity /\ result' = "reconstructed"
        /\ pc = "above"
    BY <1>5 DEF Store
  <2>2. QED BY <2>1 DEF ParityInv
<1>6. QED BY <1>1, <1>2, <1>3, <1>4, <1>5 DEF Next

LEMMA ParityNext ==
  ASSUME ParityInv, [Next]_vars
  PROVE  ParityInv'
<1>1. CASE PlacePacket
  BY <1>1, ParityPlaced
<1>2. CASE Next /\ ~PlacePacket
  <2>1. /\ packets' = packets /\ todo' = todo /\ parity' = parity
        /\ result # "panic" /\ result' # "panic" /\ todo = {}
    BY <1>2, ParityKept
  <2>2. PresentParity' = PresentParity
    BY <2>1 DEF PresentParity
  <2>3. QED BY <2>1, <2>2 DEF ParityInv
<1>3. CASE UNCHANGED vars
  <2>1. /\ packets' = packets /\ todo' = todo /\ parity' = parity /\ result' = result /\ pc' = pc
    BY <1>3 DEF vars
  <2>2. PresentParity' = PresentParity
    BY <2>1 DEF PresentParity
  <2>3. QED BY <2>1, <2>2 DEF ParityInv
<1>4. QED BY <1>1, <1>2, <1>3

LEMMA ParityHolds == Spec => []ParityInv
<1>1. ParityInv /\ [Next]_vars => ParityInv'
  BY ParityNext
<1>2. QED BY <1>1, ParityInit, PTL DEF Spec

\* In whatever order a Go map gives the packets to LoadParityData, the list has
\* each parity shard in the place of its exponent and is as long as the greatest
\* one needs, and no packet is lost; only the exponent 65535, whose length is
\* zero in 16 bits, ends the process.
THEOREM ParityIsInPlace == Spec => []ParityInPlace
<1>1. ASSUME ParityInv PROVE ParityInPlace
  <2>1. \A r \in PresentParity : parity[r + 1] = r
    <3>1. ASSUME NEW r \in PresentParity PROVE parity[r + 1] = r
      <4>1. r \in 0 .. Len(parity) - 1 /\ parity[r + 1] # Nil /\ Len(parity) \in Nat
        BY <1>1, LenProperties DEF PresentParity, ParityInv
      <4>2. r + 1 \in 1 .. Len(parity) /\ r + 1 - 1 = r
        BY <4>1
      <4>3. QED BY <1>1, <4>1, <4>2 DEF ParityInv
    <3>2. QED BY <3>1
  <2>2. QED BY <1>1, <2>1 DEF ParityInv, ParityInPlace
<1>2. QED BY <1>1, ParityHolds, PTL

-------------------------------------------------------------------------------
(* The coder. *)

LEMMA IntervalSize ==
  ASSUME NEW b \in Nat
  PROVE  IsFiniteSet(0 .. b - 1) /\ Cardinality(0 .. b - 1) = b
<1>1. 0 \in Int /\ b - 1 \in Int /\ (IF 0 > b - 1 THEN 0 ELSE b - 1 - 0 + 1) = b
  OBVIOUS
<1>2. QED BY <1>1, FS_Interval

LEMMA GeneratorFacts ==
  /\ Cardinality(DOMAIN Generators) \in Nat
  /\ DOMAIN Generators = 0 .. Cardinality(DOMAIN Generators) - 1
  /\ \A k \in DOMAIN Generators : Generators[k] \in Element
<1> DEFINE powers == {q \in 1 .. Order - 1 : \A f \in {3, 5, 17, 257} : q % f # 0}
<1>1. powers \in SUBSET Nat /\ IsFiniteSet(powers)
  <2>1. powers \in SUBSET (1 .. Order - 1) /\ 1 \in Int /\ Order - 1 \in Int
    BY OrderFacts
  <2>2. IsFiniteSet(1 .. Order - 1)
    BY <2>1, FS_Interval
  <2>3. IsFiniteSet(powers)
    BY <2>1, <2>2, FS_Subset
  <2>4. QED BY <2>1, <2>3
<1>2. Generators = [k \in 0 .. Cardinality(powers) - 1 |-> Pow(T(2), Nth(k, powers))]
  BY DEF Generators
<1> HIDE DEF powers
<1>3. Cardinality(powers) \in Nat
  BY <1>1, FS_CardinalityType
<1>4. Cardinality(DOMAIN Generators) = Cardinality(powers)
  <2>1. DOMAIN Generators = 0 .. Cardinality(powers) - 1
    BY <1>2
  <2>2. QED BY <1>3, <2>1, IntervalSize
<1>5. T(2) \in Element
  BY DEF T, Element
<1>6. \A k \in 0 .. Cardinality(powers) - 1 : Nth(k, powers) \in Nat
  BY <1>1, RankFacts
<1>7. \A k \in 0 .. Cardinality(powers) - 1 : Generators[k] \in Element
  BY <1>2, <1>5, <1>6, PowFacts
<1>8. QED BY <1>2, <1>3, <1>4, <1>7

Active == pc # "load" /\ result \notin {"panic", "noParity", "tooManyShards"}

\* A coder was made, and each shard is missing or right.
CoderInv ==
  /\ pc # "done" => result = "none"
  /\ ~Active => data = <<>>
  /\ Active => /\ kind \in {"par2", "cauchy"} /\ count \in DataCounts
               /\ CoderError(kind, count) = "none"
               /\ DOMAIN data = 0 .. count - 1
               /\ \A k \in 0 .. count - 1 :
                    data[k] = DataShard(k) \/ (data[k] = Nil /\ result # "reconstructed")

Columns == 0 .. count - 1
Vector  == [Columns -> Element]

LEMMA ShardFacts ==
  ASSUME Active, CoderInv, NEW k
  PROVE  DataShard(k) \in Vector /\ DataShard(k) # Nil /\ count \in Nat \ {0}
<1>1. DataShard(k) \in Vector
  BY ElementFacts DEF DataShard, Vector, Columns
<1>2. count \in DataCounts
  BY DEF CoderInv
<1>3. DataShard(k) # Nil /\ count \in Nat \ {0}
  BY <1>1, <1>2, NilAssumption, CountAssumption DEF Vector, Columns
<1>4. QED BY <1>1, <1>3

\* The elements of the matrix; those of a Cauchy matrix are inverses.
LEMMA MatrixFacts ==
  ASSUME ParityInv, CoderInv, Active,
         NEW r \in 0 .. Len(parity) - 1, NEW c \in Columns
  PROVE  /\ ParityMatrixAt(r, c) \in Element
         /\ kind = "cauchy" =>
              /\ T(count + r) \in Element /\ T(c) \in Element /\ T(count + r) # T(c)
              /\ ParityMatrixAt(r, c) # Zero
              /\ Times(ParityMatrixAt(r, c), Plus(T(count + r), T(c))) = One
<1>1. /\ kind \in {"par2", "cauchy"} /\ CoderError(kind, count) = "none" /\ count \in Nat \ {0}
      /\ Len(parity) \in Nat
  BY CountAssumption, LenProperties DEF CoderInv, ParityInv
<1>2. CASE kind = "par2"
  <2>1. count <= Cardinality(DOMAIN Generators)
    BY <1>1, <1>2, GeneratorFacts DEF CoderError
  <2>2. c \in 0 .. Cardinality(DOMAIN Generators) - 1
    BY <1>1, <2>1, GeneratorFacts DEF Columns
  <2>3. Generators[c] \in Element
    BY <2>2, GeneratorFacts
  <2>4. QED BY <1>1, <1>2, <2>3, PowFacts DEF ParityMatrixAt
<1>3. CASE kind = "cauchy"
  <2>1. count + Len(parity) <= Order - 1
    BY <1>1, <1>3, OrderFacts DEF CoderError
  <2>2. count + r \in 0 .. Order - 1 /\ c \in 0 .. Order - 1 /\ count + r # c
    BY <1>1, <2>1, OrderFacts DEF Columns
  <2>3. T(count + r) \in Element /\ T(c) \in Element /\ T(count + r) # T(c)
    BY <2>2, ElementOfNumber
  <2>4. Plus(T(count + r), T(c)) \in NonZero
    BY <2>3, PlusType DEF NonZero
  <2>5. ParityMatrixAt(r, c) = InverseOf(Plus(T(count + r), T(c)))
    BY <1>3 DEF ParityMatrixAt
  <2>6. QED BY <1>3, <2>3, <2>4, <2>5, InverseFacts DEF NonZero
<1>4. QED BY <1>1, <1>2, <1>3

\* Missing and available shards, and the rows that are used.
LEMMA SetFacts ==
  ASSUME ParityInv, CoderInv, Active
  PROVE  /\ Missing \in SUBSET Columns /\ Available = Columns \ Missing /\ Columns \in SUBSET Nat
         /\ IsFiniteSet(Missing) /\ IsFiniteSet(Available)
         /\ Cardinality(Missing) \in Nat /\ Cardinality(Available) \in Nat
         /\ Cardinality(Available) + Cardinality(Missing) = count
         /\ PresentParity \in SUBSET (0 .. Len(parity) - 1) /\ IsFiniteSet(PresentParity)
         /\ UsedParity \in SUBSET PresentParity /\ IsFiniteSet(UsedParity)
         /\ Cardinality(PresentParity) \in Nat /\ Cardinality(UsedParity) \in Nat
         /\ Len(parity) \in Nat /\ PresentParity \in SUBSET Nat
<1>1. DOMAIN data = Columns /\ count \in Nat \ {0}
  BY CountAssumption DEF CoderInv, Columns
<1>2. IsFiniteSet(Columns) /\ Cardinality(Columns) = count /\ Columns \in SUBSET Nat
  BY <1>1, IntervalSize DEF Columns
<1>3. Missing \in SUBSET Columns /\ Available = Columns \ Missing
  BY <1>1 DEF Missing, Available
<1>4. IsFiniteSet(Missing) /\ Cardinality(Missing) \in Nat
  BY <1>2, <1>3, FS_Subset, FS_CardinalityType
<1>5. IsFiniteSet(Available) /\ Cardinality(Available) \in Nat
  <2>1. IsFiniteSet(Available)
    BY <1>2, <1>3, FS_Subset
  <2>2. QED BY <2>1, FS_CardinalityType
<1>6. Cardinality(Available) + Cardinality(Missing) = count
  <2>1. Cardinality(Columns \ Missing) = Cardinality(Columns) - Cardinality(Columns \cap Missing)
    BY <1>2, FS_Difference
  <2>2. Columns \cap Missing = Missing
    BY <1>3
  <2>3. Cardinality(Available) = count - Cardinality(Missing)
    BY <1>2, <1>3, <2>1, <2>2
  <2>4. QED BY <1>1, <1>4, <1>5, <2>3
<1>7. Len(parity) \in Nat
  BY LenProperties DEF ParityInv
<1>8. PresentParity \in SUBSET (0 .. Len(parity) - 1) /\ IsFiniteSet(PresentParity)
  <2>1. PresentParity \in SUBSET (0 .. Len(parity) - 1)
    BY DEF PresentParity
  <2>2. IsFiniteSet(0 .. Len(parity) - 1)
    BY <1>7, IntervalSize
  <2>3. QED BY <2>1, <2>2, FS_Subset
<1>9. UsedParity \in SUBSET PresentParity
  BY DEF UsedParity
<1>10. IsFiniteSet(UsedParity)
  BY <1>8, <1>9, FS_Subset
<1>11. Cardinality(PresentParity) \in Nat /\ Cardinality(UsedParity) \in Nat
  BY <1>8, <1>10, FS_CardinalityType
<1>12. PresentParity \in SUBSET Nat
  BY <1>8
<1>13. QED BY <1>2, <1>3, <1>4, <1>5, <1>6, <1>7, <1>8, <1>9, <1>10, <1>11, <1>12

-------------------------------------------------------------------------------
(* Rows, and what is done to them. *)

Dot(row, v) == SumOf([k \in DOMAIN row |-> Times(row[k], v[k])])
Added(x, y) == [k \in DOMAIN x |-> Plus(x[k], y[k])]

\* A product of a row is linear in the row.
LEMMA DotFacts ==
  ASSUME NEW s \in Nat, NEW x \in [0 .. s - 1 -> Element], NEW y \in [0 .. s - 1 -> Element],
         NEW v \in [0 .. s - 1 -> Element], NEW c \in Element
  PROVE  /\ Dot(x, v) \in Element
         /\ Dot(Scaled(c, x), v) = Times(c, Dot(x, v))
         /\ Dot(Added(x, y), v) = Plus(Dot(x, v), Dot(y, v))
<1> DEFINE D == 0 .. s - 1
           scaled == [k \in D |-> Times(c, x[k])]
           added == [k \in D |-> Plus(x[k], y[k])]
           tx == [k \in D |-> Times(x[k], v[k])]
           ty == [k \in D |-> Times(y[k], v[k])]
           g == [u \in Element |-> Times(c, u)]
<1>1. Dot(x, v) = SumOf(tx) /\ Dot(y, v) = SumOf(ty)
  BY DEF Dot
<1>2. tx \in [D -> Element] /\ ty \in [D -> Element] /\ SumOf(tx) \in Element
  BY TimesFacts, SumFacts
<1>3. Dot(scaled, v) = Times(c, Dot(x, v))
  <2>1. DOMAIN scaled = D /\ \A k \in D : Times(scaled[k], v[k]) = g[tx[k]]
    <3>1. ASSUME NEW k \in D PROVE Times(scaled[k], v[k]) = g[tx[k]]
      <4>1. x[k] \in Element /\ v[k] \in Element
        OBVIOUS
      <4>2. Times(Times(c, x[k]), v[k]) = Times(c, Times(x[k], v[k])) /\ Times(x[k], v[k]) \in Element
        BY <4>1, TimesFacts
      <4>3. QED BY <4>2
    <3>2. QED BY <3>1
  <2>2. g[SumOf(tx)] = Times(c, SumOf(tx)) /\ Additive(g)
    BY <1>2, TimesAdditive
  <2> HIDE DEF scaled, tx, g
  <2>3. Dot(scaled, v) = SumOf([k \in D |-> g[tx[k]]])
    <3>1. [k \in DOMAIN scaled |-> Times(scaled[k], v[k])] = [k \in D |-> g[tx[k]]]
      BY <2>1
    <3>2. QED BY <3>1 DEF Dot
  <2>4. g[SumOf(tx)] = SumOf([k \in D |-> g[tx[k]]])
    BY <1>2, <2>2, SumImage
  <2>5. QED BY <1>1, <2>2, <2>3, <2>4
<1>4. Dot(added, v) = Plus(Dot(x, v), Dot(y, v))
  <2>1. DOMAIN added = D /\ \A k \in D : Times(added[k], v[k]) = Plus(tx[k], ty[k])
    <3>1. ASSUME NEW k \in D PROVE Times(added[k], v[k]) = Plus(tx[k], ty[k])
      <4>1. x[k] \in Element /\ y[k] \in Element /\ v[k] \in Element
        OBVIOUS
      <4>2. Times(Plus(x[k], y[k]), v[k]) = Plus(Times(x[k], v[k]), Times(y[k], v[k]))
        BY <4>1, Distributive
      <4>3. QED BY <4>2
    <3>2. QED BY <3>1
  <2>2. IsFiniteSet(D)
    BY IntervalSize
  <2> HIDE DEF added, tx, ty, D
  <2>3. Dot(added, v) = SumOf([k \in D |-> Plus(tx[k], ty[k])])
    <3>1. [k \in DOMAIN added |-> Times(added[k], v[k])] = [k \in D |-> Plus(tx[k], ty[k])]
      BY <2>1
    <3>2. QED BY <3>1 DEF Dot
  <2>4. QED BY <1>1, <1>2, <2>2, <2>3, SumPlus
<1>5. Scaled(c, x) = scaled /\ Added(x, y) = added
  BY DEF Scaled, Added
<1>6. QED BY <1>1, <1>2, <1>3, <1>4, <1>5

\* The operations on the rows of a matrix.
SwappedScaled(x, a, b, c) ==
  [s \in DOMAIN x |-> IF s = a THEN Scaled(c, x[b]) ELSE IF s = b THEN x[a] ELSE x[s]]
AddedTo(x, a, b, c) ==
  [s \in DOMAIN x |-> IF s = a THEN AddedScaled(c, x[b], x[a]) ELSE x[s]]

IsMatrix(x, R, C) == x \in [R -> [C -> Element]]

LEMMA RowOperations ==
  ASSUME NEW R, NEW C, NEW x, IsMatrix(x, R, C), NEW a \in R, NEW b \in R, NEW c \in Element
  PROVE  /\ ScaleRow(SwapRows(x, a, b), a, c) = SwappedScaled(x, a, b, c)
         /\ IsMatrix(SwappedScaled(x, a, b, c), R, C)
         /\ AddScaledRow(x, a, b, c) = AddedTo(x, a, b, c)
         /\ IsMatrix(AddedTo(x, a, b, c), R, C)
<1>0. x \in [R -> [C -> Element]]
  BY DEF IsMatrix
<1>1. /\ x[a] \in [C -> Element] /\ x[b] \in [C -> Element]
      /\ DOMAIN x[b] = C /\ \A k \in C : x[b][k] \in Element /\ x[a][k] \in Element
  BY <1>0
<1>2. MulSlice(c, x[b]) = Scaled(c, x[b]) /\ MulAndAddSlice(c, x[b], x[a]) = AddedScaled(c, x[b], x[a])
  BY <1>1, MulSliceRight
<1>3. Scaled(c, x[b]) \in [C -> Element] /\ AddedScaled(c, x[b], x[a]) \in [C -> Element]
  <2>1. \A k \in C : Times(c, x[b][k]) \in Element
    BY <1>1, TimesFacts
  <2>2. \A k \in C : Plus(x[a][k], Times(c, x[b][k])) \in Element
    BY <1>1, <2>1, PlusType
  <2>3. QED BY <1>1, <2>1, <2>2 DEF Scaled, AddedScaled
<1>4. SwapRows(x, a, b) = [s \in R |-> IF s = a THEN x[b] ELSE IF s = b THEN x[a] ELSE x[s]]
  BY <1>0 DEF SwapRows
<1>5. ScaleRow(SwapRows(x, a, b), a, c) = SwappedScaled(x, a, b, c)
  BY <1>0, <1>2, <1>4 DEF ScaleRow, SwappedScaled
<1>6. AddScaledRow(x, a, b, c) = AddedTo(x, a, b, c)
  BY <1>0, <1>2 DEF AddScaledRow, AddedTo
<1>7. IsMatrix(SwappedScaled(x, a, b, c), R, C) /\ IsMatrix(AddedTo(x, a, b, c), R, C)
  BY <1>0, <1>1, <1>3 DEF SwappedScaled, AddedTo, IsMatrix
<1>8. QED BY <1>5, <1>6, <1>7

-------------------------------------------------------------------------------
(* The matrices. *)

Solving == pc \in {"pivot", "below", "above"}
Rows    == 0 .. Cardinality(Missing) - 1
Square  == [Rows -> [Rows -> Element]]

\* A row of the left matrix times the missing shards is the row of the right
\* matrix times the input.
Solves(left, right) ==
  \A w \in Columns : Dot(right, [k \in Columns |-> input[k][w]]) =
                       IF w \in Missing THEN left[Rank(w, Missing)] ELSE Zero

MatrixTypes ==
  Solving =>
    /\ result = "none" /\ Active
    /\ Missing # {} /\ Cardinality(UsedParity) >= Cardinality(Missing)
    /\ input \in [Columns -> Vector] /\ m \in Square /\ n \in [Rows -> Vector]
    /\ i \in Nat /\ j \in Nat
    /\ pc = "pivot" => i \in Rows
    /\ pc = "below" => i \in Rows /\ i < j /\ j <= Cardinality(Missing)
    /\ pc = "above" => i <= Cardinality(Missing) /\ j <= i

SolutionInv == Solving => \A r \in Rows : Solves(m[r], n[r])

LEMMA RowTypes ==
  ASSUME ParityInv, CoderInv, Active
  PROVE  /\ Cardinality(Missing) \in Nat /\ count \in Nat \ {0} /\ Rows \in SUBSET Nat
         /\ \A r \in Rows : r \in Nat /\ r < Cardinality(Missing)
         /\ \A r \in Nat : r < Cardinality(Missing) => r \in Rows
         /\ \A w \in Missing : w \in Columns /\ Rank(w, Missing) \in Rows
                               /\ Nth(Rank(w, Missing), Missing) = w
         /\ \A r \in Rows : Nth(r, Missing) \in Missing /\ Rank(Nth(r, Missing), Missing) = r
<1>1. /\ Missing \in SUBSET Columns /\ Columns \in SUBSET Nat /\ IsFiniteSet(Missing)
      /\ Cardinality(Missing) \in Nat
  BY SetFacts
<1>2. Missing \in SUBSET Nat
  BY <1>1
<1>3. /\ \A w \in Missing : Rank(w, Missing) \in Rows /\ Nth(Rank(w, Missing), Missing) = w
      /\ \A r \in Rows : Nth(r, Missing) \in Missing /\ Rank(Nth(r, Missing), Missing) = r
  BY <1>1, <1>2, RankFacts DEF Rows
<1>4. count \in Nat \ {0}
  BY CountAssumption DEF CoderInv
<1>5. /\ Rows \in SUBSET Nat /\ \A r \in Rows : r \in Nat /\ r < Cardinality(Missing)
      /\ \A r \in Nat : r < Cardinality(Missing) => r \in Rows
  BY <1>1 DEF Rows
<1>6. QED BY <1>1, <1>3, <1>4, <1>5

\* What an operation on rows does to both matrices keeps the equations.
LEMMA SolvesLinear ==
  ASSUME ParityInv, CoderInv, Active, input \in [Columns -> Vector],
         NEW x \in [Rows -> Element], NEW y \in Vector, Solves(x, y),
         NEW u \in [Rows -> Element], NEW v \in Vector, Solves(u, v), NEW c \in Element
  PROVE  /\ Solves(Scaled(c, x), Scaled(c, y))
         /\ Solves(AddedScaled(c, u, x), AddedScaled(c, v, y))
<1>1. /\ count \in Nat /\ \A w \in Missing : w \in Columns /\ Rank(w, Missing) \in Rows
  BY RowTypes
<1> DEFINE col(w) == [k \in Columns |-> input[k][w]]
           sv == [k \in Columns |-> Times(c, v[k])]
<1>2. \A w \in Columns : col(w) \in [0 .. count - 1 -> Element]
  BY DEF Vector, Columns
<1>3. sv \in [0 .. count - 1 -> Element] /\ y \in [0 .. count - 1 -> Element] /\ v \in [0 .. count - 1 -> Element]
  BY TimesFacts DEF Vector, Columns
<1>4. AddedScaled(c, v, y) = Added(y, sv)
  BY DEF Added, AddedScaled, Vector
<1>5. \A w \in Columns : /\ Dot(y, col(w)) = IF w \in Missing THEN x[Rank(w, Missing)] ELSE Zero
                         /\ Dot(v, col(w)) = IF w \in Missing THEN u[Rank(w, Missing)] ELSE Zero
  BY DEF Solves
<1>6. sv = Scaled(c, v)
  BY DEF Scaled, Vector
<1>7. ASSUME NEW w \in Columns
      PROVE  /\ Dot(Scaled(c, y), col(w)) = Times(c, Dot(y, col(w)))
             /\ Dot(sv, col(w)) = Times(c, Dot(v, col(w)))
             /\ Dot(Added(y, sv), col(w)) = Plus(Dot(y, col(w)), Dot(sv, col(w)))
  <2>1. PICK a \in [0 .. count - 1 -> Element] : a = col(w)
    BY <1>2
  <2> DEFINE S == [0 .. count - 1 -> Element]
  <2> HIDE DEF col, sv, S
  <2>0. \A p, q \in S : /\ Dot(Scaled(c, p), a) = Times(c, Dot(p, a))
                        /\ Dot(Added(p, q), a) = Plus(Dot(p, a), Dot(q, a))
    <3>1. ASSUME NEW p \in [0 .. count - 1 -> Element], NEW q \in [0 .. count - 1 -> Element]
          PROVE  /\ Dot(Scaled(c, p), a) = Times(c, Dot(p, a))
                 /\ Dot(Added(p, q), a) = Plus(Dot(p, a), Dot(q, a))
      BY <1>1, DotFacts
    <3>2. QED BY <3>1 DEF S
  <2>00. y \in S /\ v \in S /\ sv \in S
    BY <1>3 DEF S
  <2>2. Dot(Scaled(c, y), a) = Times(c, Dot(y, a))
    BY <2>0, <2>00
  <2>3. Dot(Scaled(c, v), a) = Times(c, Dot(v, a))
    BY <2>0, <2>00
  <2>4. Dot(Added(y, sv), a) = Plus(Dot(y, a), Dot(sv, a))
    BY <2>0, <2>00
  <2>5. QED BY <1>6, <2>1, <2>2, <2>3, <2>4
<1> HIDE DEF sv, col
<1>8. Solves(Scaled(c, x), Scaled(c, y))
  <2>1. \A w \in Missing : Scaled(c, x)[Rank(w, Missing)] = Times(c, x[Rank(w, Missing)])
    BY <1>1 DEF Scaled
  <2>2. ASSUME NEW w \in Columns
        PROVE  Dot(Scaled(c, y), col(w)) =
                 IF w \in Missing THEN Scaled(c, x)[Rank(w, Missing)] ELSE Zero
    BY <1>5, <1>7, <2>1, TimesZero
  <2>3. QED BY <2>2 DEF Solves, col
<1>9. Solves(AddedScaled(c, u, x), AddedScaled(c, v, y))
  <2>1. \A w \in Missing : AddedScaled(c, u, x)[Rank(w, Missing)] =
                             Plus(x[Rank(w, Missing)], Times(c, u[Rank(w, Missing)]))
    BY <1>1 DEF AddedScaled
  <2>2. Plus(Zero, Times(c, Zero)) = Zero
    BY TimesZero, PlusFacts
  <2>3. ASSUME NEW w \in Columns
        PROVE  Dot(Added(y, sv), col(w)) =
                 IF w \in Missing THEN AddedScaled(c, u, x)[Rank(w, Missing)] ELSE Zero
    BY <1>5, <1>7, <2>1, <2>2
  <2>4. QED BY <1>4, <2>3 DEF Solves, col
<1>10. QED BY <1>8, <1>9

-------------------------------------------------------------------------------
(* What the actions do to the matrices. *)

LEMMA PivotShape ==
  ASSUME ParityInv, CoderInv, MatrixTypes, Pivot
  PROVE  /\ i \in Rows /\ i' = i /\ j' = i + 1 /\ pc = "pivot" /\ pc' = "below"
         /\ UNCHANGED <<packets, todo, parity, kind, count, data, input, result>>
         /\ \E a \in Rows, c \in NonZero :
              /\ a >= i /\ m[a][i] \in NonZero /\ c = InverseOf(m[a][i])
              /\ m[i][i] # Zero => a = i
              /\ m' = SwappedScaled(m, i, a, c) /\ m' \in Square
              /\ n' = SwappedScaled(n, i, a, c) /\ n' \in [Rows -> Vector]
<1>1. pc = "pivot" /\ PivotRows # {} /\ Solving
  BY DEF Pivot, Solving
<1>2. i \in Rows /\ Active /\ m \in Square /\ n \in [Rows -> Vector]
  BY <1>1 DEF MatrixTypes
<1>3. Cardinality(Missing) \in Nat /\ Rows \in SUBSET Nat
  BY <1>2, RowTypes
<1>4. PivotRows \in SUBSET Rows
  BY <1>2 DEF PivotRows, Square
<1>5. PivotRows \in SUBSET Nat /\ IsFiniteSet(PivotRows)
  <2>1. IsFiniteSet(Rows)
    BY <1>3, IntervalSize DEF Rows
  <2>2. QED BY <1>3, <1>4, <2>1, FS_Subset
<1>6. 0 \in 0 .. Cardinality(PivotRows) - 1
  <2>1. Cardinality(PivotRows) \in Nat
    BY <1>5, FS_CardinalityType
  <2>2. Cardinality(PivotRows) # 0
    BY <1>1, <1>5, FS_EmptySet
  <2>3. QED BY <2>1, <2>2
<1>7. PICK a \in PivotRows : a = Nth(0, PivotRows) /\ Rank(a, PivotRows) = 0
  BY <1>5, <1>6, RankFacts
<1>8. a \in Rows /\ a >= i /\ m[a][i] # Zero /\ m[a][i] \in Element
  <2>1. a \in Rows
    BY <1>4
  <2>2. m[a] \in [Rows -> Element]
    BY <1>2, <2>1 DEF Square
  <2>3. QED BY <1>2, <1>7, <2>1, <2>2 DEF PivotRows
<1>9. PICK c \in NonZero : c = InverseOf(m[a][i])
  BY <1>8, InverseFacts DEF NonZero
<1>10. /\ m' = ScaleRow(SwapRows(m, i, a), i, c)
       /\ n' = ScaleRow(SwapRows(n, i, a), i, c)
  BY <1>7, <1>9 DEF Pivot
<1>11. c \in Element /\ IsMatrix(m, Rows, Rows) /\ IsMatrix(n, Rows, Columns)
  BY <1>2 DEF NonZero, IsMatrix, Square, Vector
<1>12. m' = SwappedScaled(m, i, a, c) /\ IsMatrix(m', Rows, Rows)
  BY <1>2, <1>8, <1>10, <1>11, RowOperations
<1>13. n' = SwappedScaled(n, i, a, c) /\ IsMatrix(n', Rows, Columns)
  BY <1>2, <1>8, <1>10, <1>11, RowOperations
<1>14. /\ i' = i /\ j' = i + 1 /\ pc' = "below"
       /\ UNCHANGED <<packets, todo, parity, kind, count, data, input, result>>
  BY DEF Pivot
<1>15. m[a][i] \in NonZero
  BY <1>8 DEF NonZero
<1>16. m' \in Square /\ n' \in [Rows -> Vector]
  BY <1>12, <1>13 DEF IsMatrix, Square, Vector
\* The first of the rows, so none is above it.
<1>17. ASSUME m[i][i] # Zero, a # i PROVE FALSE
  <2>1. i \in PivotRows /\ i < a
    <3>1. i \in Nat /\ a \in Nat /\ i >= i /\ i \in DOMAIN m
      BY <1>2, <1>3, <1>8 DEF Square
    <3>2. QED BY <1>8, <1>17, <3>1 DEF PivotRows
  <2> DEFINE under == {y \in PivotRows : y < a}
  <2>2. i \in under /\ Cardinality(under) = 0
    BY <1>7, <2>1 DEF Rank
  <2>3. IsFiniteSet(under)
    BY <1>5, FS_Subset
  <2> HIDE DEF under
  <2>4. QED BY <2>2, <2>3, FS_EmptySet
<1>18. QED BY <1>1, <1>2, <1>8, <1>9, <1>12, <1>13, <1>14, <1>15, <1>16, <1>17

\* A row with zero in the column is as if zero times the other were added.
LEMMA ClearShape ==
  ASSUME ParityInv, CoderInv, MatrixTypes, ClearBelow \/ ClearAbove
  PROVE  /\ i \in Rows /\ j \in Rows /\ i # j /\ i' = i /\ j' = j + 1 /\ pc' = pc
         /\ pc = "below" => i < j
         /\ pc = "above" => j < i
         /\ pc \in {"below", "above"}
         /\ UNCHANGED <<packets, todo, parity, kind, count, data, input, result>>
         /\ \E c \in Element :
              /\ c = m[j][i]
              /\ m' = AddedTo(m, j, i, c) /\ m' \in Square
              /\ n' = AddedTo(n, j, i, c) /\ n' \in [Rows -> Vector]
<1>1. ClearRow /\ pc \in {"below", "above"} /\ Solving
  BY DEF ClearBelow, ClearAbove, Solving
<1>2. Active /\ m \in Square /\ n \in [Rows -> Vector] /\ i \in Nat /\ j \in Nat
  BY <1>1 DEF MatrixTypes
<1>3. Cardinality(Missing) \in Nat /\ \A r \in Nat : r < Cardinality(Missing) => r \in Rows
  BY <1>2, RowTypes
<1>4. /\ i \in Rows /\ j \in Rows /\ i # j
      /\ pc = "below" => i < j
      /\ pc = "above" => j < i
  <2>1. CASE ClearBelow
    BY <1>1, <1>2, <2>1 DEF ClearBelow, MatrixTypes, Square
  <2>2. CASE ClearAbove
    <3>1. i \in Rows /\ j < i /\ pc = "above"
      BY <1>2, <2>2 DEF ClearAbove, Square
    <3>2. i < Cardinality(Missing)
      BY <1>2, <3>1, RowTypes
    <3>3. j \in Rows
      BY <1>2, <1>3, <3>1, <3>2
    <3>4. QED BY <1>2, <3>1, <3>3
  <2>3. QED BY <2>1, <2>2
<1>5. PICK c \in Element : c = m[j][i]
  <2>1. m[j] \in [Rows -> Element]
    BY <1>2, <1>4 DEF Square
  <2>2. QED BY <1>4, <2>1
<1>6. m \in [Rows -> [Rows -> Element]] /\ n \in [Rows -> [Columns -> Element]]
  BY <1>2 DEF Square, Vector
<1>7. /\ m' = IF c = Zero THEN m ELSE AddScaledRow(m, j, i, c)
      /\ n' = IF c = Zero THEN n ELSE AddScaledRow(n, j, i, c)
  BY <1>1, <1>5 DEF ClearRow
<1>8. AddScaledRow(m, j, i, c) = AddedTo(m, j, i, c) /\ AddedTo(m, j, i, c) \in Square
  <2>1. IsMatrix(m, Rows, Rows)
    BY <1>6 DEF IsMatrix
  <2>2. AddScaledRow(m, j, i, c) = AddedTo(m, j, i, c) /\ IsMatrix(AddedTo(m, j, i, c), Rows, Rows)
    BY <1>4, <2>1, RowOperations
  <2>3. QED BY <2>2 DEF IsMatrix, Square
<1>9. AddScaledRow(n, j, i, c) = AddedTo(n, j, i, c) /\ AddedTo(n, j, i, c) \in [Rows -> Vector]
  <2>1. IsMatrix(n, Rows, Columns)
    BY <1>6 DEF IsMatrix
  <2>2. AddScaledRow(n, j, i, c) = AddedTo(n, j, i, c) /\ IsMatrix(AddedTo(n, j, i, c), Rows, Columns)
    BY <1>4, <2>1, RowOperations
  <2>3. QED BY <2>2 DEF IsMatrix, Vector
<1>10. ASSUME NEW C, NEW x \in [Rows -> [C -> Element]], c = Zero
       PROVE  AddedTo(x, j, i, c) = x
  <2>1. AddedScaled(c, x[i], x[j]) = x[j]
    <3>1. \A k \in C : Plus(x[j][k], Times(c, x[i][k])) = x[j][k]
      BY <1>10, TimesZero, PlusFacts
    <3>2. x[i] \in [C -> Element] /\ x[j] \in [C -> Element]
      BY <1>4
    <3>3. QED BY <3>1, <3>2 DEF AddedScaled
  <2>2. QED BY <1>4, <2>1 DEF AddedTo
<1>11. m' = AddedTo(m, j, i, c) /\ n' = AddedTo(n, j, i, c)
  <2>1. CASE c = Zero
    <3>1. AddedTo(m, j, i, c) = m
      BY <1>6, <1>10, <2>1
    <3>2. AddedTo(n, j, i, c) = n
      BY <1>6, <1>10, <2>1
    <3>3. QED BY <1>7, <2>1, <3>1, <3>2
  <2>2. CASE c # Zero
    BY <1>7, <1>8, <1>9, <2>2
  <2>3. QED BY <2>1, <2>2
<1>12. /\ i' = i /\ j' = j + 1 /\ pc' = pc
       /\ UNCHANGED <<packets, todo, parity, kind, count, data, input, result>>
  BY <1>1 DEF ClearRow
<1>13. QED BY <1>1, <1>4, <1>5, <1>8, <1>9, <1>11, <1>12
-------------------------------------------------------------------------------
(* The coder keeps its data until it stores the result. *)

LEMMA Frame ==
  ASSUME UNCHANGED <<parity, kind, count, data>>
  PROVE  /\ Missing' = Missing /\ Available' = Available /\ UsedParity' = UsedParity
         /\ PresentParity' = PresentParity
         /\ Columns' = Columns /\ Vector' = Vector /\ Rows' = Rows /\ Square' = Square
         /\ CoderError(kind, count)' = CoderError(kind, count)
<1>1. Missing' = Missing /\ PresentParity' = PresentParity
  BY DEF Missing, PresentParity
<1>2. UsedParity' = UsedParity /\ Available' = Available
  BY <1>1 DEF UsedParity, Available
<1>3. Columns' = Columns /\ Vector' = Vector /\ Rows' = Rows /\ Square' = Square
  BY <1>1 DEF Columns, Vector, Rows, Square
<1>4. CoderError(kind, count)' = CoderError(kind, count)
  BY DEF CoderError
<1>5. QED BY <1>1, <1>2, <1>3, <1>4

\* The actions between the making of the matrices and the storing of the result.
LEMMA SolvingSteps ==
  ASSUME CoderInv, Pivot \/ Singular \/ ClearBelow \/ NextPivot \/ ClearAbove \/ NextColumn
  PROVE  /\ UNCHANGED <<packets, todo, parity, kind, count, data, input>>
         /\ result = "none" /\ result' \in {"none", "singular"}
         /\ Solving /\ pc' \in {"pivot", "below", "above", "done"}
         /\ pc' = "done" <=> result' = "singular"
<1>1. CASE Pivot \/ ClearBelow \/ NextPivot \/ ClearAbove \/ NextColumn
  BY <1>1 DEF CoderInv, Solving, Pivot, ClearBelow, NextPivot, ClearAbove, NextColumn, ClearRow
<1>2. CASE Singular
  BY <1>2 DEF CoderInv, Solving, Singular, Refuse, matrixVars
<1>3. QED BY <1>1, <1>2

\* What there is to store is right.
StoreRight ==
  Store => \A k \in Missing : Combined(n[Rank(k, Missing)], input) = DataShard(k)

LEMMA CoderInit == Init => CoderInv
  BY DEF Init, CoderInv, Active

LEMMA CoderNext ==
  ASSUME ParityInv, CoderInv, [Next]_vars, StoreRight
  PROVE  CoderInv'
<1>1. CASE PlacePacket
  <2>1. /\ pc = "load" /\ data' = data /\ result = "none"
        /\ (pc' = "load" /\ result' = "none") \/ (pc' = "done" /\ result' = "panic")
    BY <1>1 DEF PlacePacket, CoderInv
  <2>2. data = <<>> /\ ~Active'
    BY <2>1 DEF CoderInv, Active
  <2>3. QED BY <2>1, <2>2 DEF CoderInv
<1>2. CASE NewCoder
  <2>1. /\ pc = "load" /\ parity' = parity /\ kind' \in {"par2", "cauchy"} /\ count' \in DataCounts
        /\ result' = CoderError(kind', count') /\ data = <<>>
    BY <1>2 DEF NewCoder, CoderInv, Active
  <2>2. CoderError(kind, count)' = result'
    BY <2>1 DEF CoderError
  <2>3. CASE result' = "none"
    <3>1. PICK missing \in SUBSET (0 .. count' - 1) :
            data' = [k \in 0 .. count' - 1 |->
                       IF k \in missing THEN Nil
                       ELSE [w \in 0 .. count' - 1 |-> IF w = k THEN One ELSE Zero]]
      BY <1>2, <2>3 DEF NewCoder
    <3>2. pc' = "reconstruct" /\ Active'
      BY <1>2, <2>3 DEF NewCoder, Active
    <3>3. \A k \in 0 .. count' - 1 : data'[k] = DataShard(k)' \/ data'[k] = Nil
      BY <3>1 DEF DataShard
    <3>4. DOMAIN data' = 0 .. count' - 1
      BY <3>1
    <3>5. QED BY <2>1, <2>2, <2>3, <3>2, <3>3, <3>4 DEF CoderInv
  <2>4. CASE result' # "none"
    <3>1. result' \in {"noParity", "tooManyShards"}
      BY <2>1, <2>4 DEF CoderError
    <3>2. pc' = "done" /\ data' = <<>> /\ ~Active'
      BY <1>2, <2>1, <2>4, <3>1 DEF NewCoder, Active
    <3>3. QED BY <3>2 DEF CoderInv
  <2>5. QED BY <2>3, <2>4
<1>3. ASSUME UNCHANGED <<parity, kind, count, data>>, Active' <=> Active,
             result' = "reconstructed" => result = "reconstructed", pc' # "done" => result' = "none"
      PROVE  CoderInv'
  <2>1. CoderError(kind, count)' = CoderError(kind, count)
    BY <1>3, Frame
  <2>2. \A k : DataShard(k)' = DataShard(k)
    BY <1>3 DEF DataShard
  <2>3. QED BY <1>3, <2>1, <2>2 DEF CoderInv
<1>4. CASE ReconstructData
  <2>1. pc = "reconstruct" /\ result = "none" /\ UNCHANGED <<parity, kind, count, data>>
    BY <1>4 DEF ReconstructData, CoderInv
  <2>2. /\ result' \in {"none", "nothingToDo", "notEnough"} /\ pc' \in {"done", "pivot"}
        /\ pc' # "done" => result' = "none"
    BY <1>4, <2>1 DEF ReconstructData, Refuse
  <2>3. Active /\ Active'
    BY <2>1, <2>2 DEF Active
  <2>4. QED BY <1>3, <2>1, <2>2, <2>3
<1>5. CASE Pivot \/ Singular \/ ClearBelow \/ NextPivot \/ ClearAbove \/ NextColumn
  <2>1. /\ UNCHANGED <<parity, kind, count, data>> /\ result = "none" /\ pc # "load"
        /\ result' \in {"none", "singular"} /\ pc' # "load"
        /\ pc' # "done" => result' = "none"
    BY <1>5, SolvingSteps DEF Solving
  <2>2. Active /\ Active'
    BY <2>1 DEF Active
  <2>3. QED BY <1>3, <2>1, <2>2
<1>6. CASE Store
  <2>1. /\ pc = "above" /\ result = "none" /\ pc' = "done" /\ result' = "reconstructed"
        /\ UNCHANGED <<parity, kind, count>>
        /\ data' = [k \in DOMAIN data |->
             IF k \in Missing THEN Combined(n[Rank(k, Missing)], input) ELSE data[k]]
    BY <1>6 DEF Store, CoderInv, Rank
  <2>2. Active /\ Active'
    BY <2>1 DEF Active
  <2>3. ASSUME NEW k \in 0 .. count - 1 PROVE data'[k] = DataShard(k)
    <3>1. k \in DOMAIN data
      BY <2>2 DEF CoderInv
    <3>2. CASE k \in Missing
      BY <1>6, <2>1, <3>1, <3>2 DEF StoreRight
    <3>3. CASE k \notin Missing
      <4>1. data[k] = DataShard(k)
        BY <2>2, <3>1, <3>3 DEF Missing, CoderInv
      <4>2. QED BY <2>1, <3>1, <3>3, <4>1
    <3>4. QED BY <3>2, <3>3
  <2>4. \A k : DataShard(k)' = DataShard(k)
    BY <2>1 DEF DataShard
  <2>5. CoderError(kind, count)' = CoderError(kind, count)
    BY <2>1 DEF CoderError
  <2>6. DOMAIN data' = DOMAIN data
    BY <2>1
  <2>7. QED BY <2>1, <2>2, <2>3, <2>4, <2>5, <2>6 DEF CoderInv
<1>7. CASE UNCHANGED vars
  <2>1. UNCHANGED <<parity, kind, count, data, pc, result>>
    BY <1>7 DEF vars
  <2>2. Active' <=> Active
    BY <2>1 DEF Active
  <2>3. QED BY <1>3, <2>1, <2>2 DEF CoderInv
<1>8. QED BY <1>1, <1>2, <1>4, <1>5, <1>6, <1>7 DEF Next

-------------------------------------------------------------------------------
(* The matrices that ReconstructData makes. *)

\* The first matrix, by rows of the used parity shards and missing columns.
Original ==
  [r \in Rows |-> [c \in Rows |-> ParityMatrixAt(Nth(r, UsedParity), Nth(c, Missing))]]
OriginalRight ==
  [r \in Rows |-> [c \in Columns |->
     IF c < Cardinality(Available)
     THEN ParityMatrixAt(Nth(r, UsedParity), Nth(c, Available))
     ELSE IF r = c - Cardinality(Available) THEN One ELSE Zero]]

Enough == Active /\ Missing # {} /\ Cardinality(UsedParity) >= Cardinality(Missing)

LEMMA UsedFacts ==
  ASSUME ParityInv, CoderInv, Enough
  PROVE  \A r \in Rows : /\ Nth(r, UsedParity) \in UsedParity
                         /\ Nth(r, UsedParity) \in 0 .. Len(parity) - 1
                         /\ Rank(Nth(r, UsedParity), UsedParity) = r
<1>1. /\ UsedParity \in SUBSET Nat /\ UsedParity \in SUBSET (0 .. Len(parity) - 1)
      /\ IsFiniteSet(UsedParity) /\ Cardinality(UsedParity) \in Nat
      /\ Cardinality(Missing) \in Nat
  BY SetFacts DEF Enough
<1>2. \A r \in Rows : r \in 0 .. Cardinality(UsedParity) - 1
  BY <1>1 DEF Rows, Enough
<1>3. \A r \in 0 .. Cardinality(UsedParity) - 1 :
        Nth(r, UsedParity) \in UsedParity /\ Rank(Nth(r, UsedParity), UsedParity) = r
  BY <1>1, RankFacts
<1>4. QED BY <1>1, <1>2, <1>3

LEMMA OriginalTypes ==
  ASSUME ParityInv, CoderInv, Enough
  PROVE  Original \in Square /\ OriginalRight \in [Rows -> Vector]
<1>1. /\ Cardinality(Available) \in Nat /\ Available \in SUBSET Columns /\ Available \in SUBSET Nat
      /\ IsFiniteSet(Available) /\ Missing \in SUBSET Columns /\ count \in Nat
  BY SetFacts, RowTypes DEF Enough
<1>2. \A r \in Rows, w \in Columns : ParityMatrixAt(Nth(r, UsedParity), w) \in Element
  BY UsedFacts, MatrixFacts DEF Enough
<1>3. \A c \in Rows : Nth(c, Missing) \in Columns
  BY <1>1, RowTypes DEF Enough
<1>4. ASSUME NEW c \in Columns, c < Cardinality(Available) PROVE Nth(c, Available) \in Columns
  <2>1. c \in 0 .. Cardinality(Available) - 1
    BY <1>1, <1>4 DEF Columns
  <2>2. QED BY <1>1, <2>1, RankFacts
<1>5. Original \in Square
  BY <1>2, <1>3 DEF Original, Square
<1>6. OriginalRight \in [Rows -> Vector]
  BY <1>2, <1>4, ElementFacts DEF OriginalRight, Vector
<1>7. QED BY <1>5, <1>6

\* A parity shard is the row of the matrix, for the data shards are unit vectors.
LEMMA ParityShardRow ==
  ASSUME ParityInv, CoderInv, Active, NEW r \in 0 .. Len(parity) - 1
  PROVE  ParityShard(r) \in Vector /\ \A w \in Columns : ParityShard(r)[w] = ParityMatrixAt(r, w)
<1> DEFINE row == [c \in Columns |-> ParityMatrixAt(r, c)]
           shards == [c \in Columns |-> DataShard(c)]
           terms(w) == [k \in Columns |-> Times(row[k], shards[k][w])]
<1>1. \A c \in Columns : ParityMatrixAt(r, c) \in Element
  BY MatrixFacts
<1>2. ParityShard(r) = [w \in Columns |-> SumOf(terms(w))]
  BY DEF ParityShard, Combined, Columns
<1>3. ASSUME NEW w \in Columns PROVE SumOf(terms(w)) = ParityMatrixAt(r, w)
  <2>1. \A k \in Columns : shards[k][w] = IF w = k THEN One ELSE Zero
    BY DEF DataShard, Columns
  <2>2. ASSUME NEW k \in Columns PROVE terms(w)[k] = IF w = k THEN ParityMatrixAt(r, w) ELSE Zero
    <3>1. Times(ParityMatrixAt(r, k), One) = ParityMatrixAt(r, k) /\ Times(ParityMatrixAt(r, k), Zero) = Zero
      BY <1>1, TimesFacts, TimesZero
    <3>2. QED BY <2>1, <3>1
  <2>3. terms(w) = [k \in Columns |-> terms(w)[k]]
    OBVIOUS
  <2> HIDE DEF terms
  <2>4. terms(w) \in [Columns -> Element] /\ \A k \in Columns \ {w} : terms(w)[k] = Zero
    BY <1>1, <2>2, <2>3, ElementFacts
  <2>5. SumOf(terms(w)) = terms(w)[w]
    BY <2>4, SumPick
  <2>6. QED BY <2>2, <2>5
<1> HIDE DEF terms
<1>4. QED BY <1>1, <1>2, <1>3 DEF Vector

LEMMA InputFacts ==
  ASSUME ParityInv, CoderInv, Enough
  PROVE  /\ MakeInput \in [Columns -> Vector]
         /\ \A k \in Columns, w \in Columns :
              MakeInput[k][w] =
                IF k < Cardinality(Available)
                THEN (IF w = Nth(k, Available) THEN One ELSE Zero)
                ELSE ParityMatrixAt(Nth(k - Cardinality(Available), UsedParity), w)
<1>1. /\ Cardinality(Available) \in Nat /\ Available = Columns \ Missing /\ Available \in SUBSET Nat
      /\ IsFiniteSet(Available) /\ Cardinality(Available) + Cardinality(Missing) = count
      /\ Cardinality(Missing) \in Nat /\ DOMAIN data = Columns
  BY SetFacts DEF Enough, CoderInv, Columns
<1>2. ASSUME NEW k \in Columns, k < Cardinality(Available)
      PROVE  /\ MakeInput[k] = DataShard(Nth(k, Available)) /\ MakeInput[k] \in Vector
             /\ Nth(k, Available) \in Columns
  <2>1. k \in 0 .. Cardinality(Available) - 1
    BY <1>1, <1>2 DEF Columns
  <2>2. Nth(k, Available) \in Available
    BY <1>1, <2>1, RankFacts
  <2>3. Nth(k, Available) \in Columns /\ data[Nth(k, Available)] # Nil
    BY <1>1, <2>2 DEF Missing
  <2>4. data[Nth(k, Available)] = DataShard(Nth(k, Available))
    BY <2>3 DEF CoderInv, Enough, Columns
  <2>5. MakeInput[k] = data[Nth(k, Available)]
    BY <1>2 DEF MakeInput, Columns
  <2>6. DataShard(Nth(k, Available)) \in Vector
    BY ShardFacts DEF Enough
  <2>7. QED BY <2>3, <2>4, <2>5, <2>6
<1>3. ASSUME NEW k \in Columns, ~(k < Cardinality(Available))
      PROVE  /\ MakeInput[k] = ParityShard(Nth(k - Cardinality(Available), UsedParity))
             /\ Nth(k - Cardinality(Available), UsedParity) \in 0 .. Len(parity) - 1
             /\ MakeInput[k] \in Vector
  <2>1. k - Cardinality(Available) \in Rows
    BY <1>1, <1>3 DEF Columns, Rows
  <2>2. Nth(k - Cardinality(Available), UsedParity) \in 0 .. Len(parity) - 1
    BY <2>1, UsedFacts
  <2>3. MakeInput[k] = ParityShard(Nth(k - Cardinality(Available), UsedParity))
    BY <1>3 DEF MakeInput, Columns
  <2>4. ParityShard(Nth(k - Cardinality(Available), UsedParity)) \in Vector
    BY <2>2, ParityShardRow DEF Enough
  <2>5. QED BY <2>2, <2>3, <2>4
<1>4. DOMAIN MakeInput = Columns /\ MakeInput = [k \in Columns |-> MakeInput[k]]
  BY DEF MakeInput, Columns
<1>5. MakeInput \in [Columns -> Vector]
  <2>1. \A k \in Columns : MakeInput[k] \in Vector
    BY <1>2, <1>3
  <2>2. QED BY <1>4, <2>1
<1>6. ASSUME NEW k \in Columns, NEW w \in Columns
      PROVE  MakeInput[k][w] =
                IF k < Cardinality(Available)
                THEN (IF w = Nth(k, Available) THEN One ELSE Zero)
                ELSE ParityMatrixAt(Nth(k - Cardinality(Available), UsedParity), w)
  <2>1. CASE k < Cardinality(Available)
    BY <1>2, <2>1 DEF DataShard, Columns
  <2>2. CASE ~(k < Cardinality(Available))
    BY <1>3, <2>2, ParityShardRow DEF Enough
  <2>3. QED BY <2>1, <2>2
<1>7. QED BY <1>5, <1>6

\* The equations hold of the first matrices.
LEMMA OriginalSolves ==
  ASSUME ParityInv, CoderInv, Enough, NEW r \in Rows, NEW w \in Columns
  PROVE  Dot(OriginalRight[r], [k \in Columns |-> MakeInput[k][w]]) =
           IF w \in Missing THEN Original[r][Rank(w, Missing)] ELSE Zero
<1> DEFINE A == Cardinality(Available)
           at(q) == ParityMatrixAt(Nth(q, UsedParity), w)
           terms == [k \in Columns |-> Times(OriginalRight[r][k], MakeInput[k][w])]
<1>1. /\ A \in Nat /\ Available = Columns \ Missing /\ Available \in SUBSET Nat
      /\ IsFiniteSet(Available) /\ A + Cardinality(Missing) = count
      /\ Cardinality(Missing) \in Nat
  BY SetFacts DEF Enough
<1>2. /\ r \in Nat /\ r < Cardinality(Missing) /\ count \in Nat
      /\ \A q \in Nat : q < Cardinality(Missing) => q \in Rows
  BY RowTypes DEF Enough
<1>3. A + r \in Columns /\ ~(A + r < A) /\ r = (A + r) - A
  BY <1>1, <1>2 DEF Columns
<1>4. \A q \in Rows : at(q) \in Element
  BY UsedFacts, MatrixFacts DEF Enough
<1>5. Dot(OriginalRight[r], [k \in Columns |-> MakeInput[k][w]]) = SumOf(terms)
  <2>1. DOMAIN OriginalRight[r] = Columns
    BY DEF OriginalRight
  <2>2. QED BY <2>1 DEF Dot
<1>6. ASSUME NEW k \in Columns
      PROVE  terms[k] = IF k < A THEN (IF w = Nth(k, Available) THEN at(r) ELSE Zero)
                        ELSE (IF k = A + r THEN at(r) ELSE Zero)
  <2>1. OriginalRight[r][k] = IF k < A THEN ParityMatrixAt(Nth(r, UsedParity), Nth(k, Available))
                              ELSE IF r = k - A THEN One ELSE Zero
    BY DEF OriginalRight
  <2>2. MakeInput[k][w] = IF k < A THEN (IF w = Nth(k, Available) THEN One ELSE Zero)
                          ELSE at(k - A)
    BY InputFacts
  <2>3. CASE k < A
    <3>1. Times(at(r), One) = at(r)
      BY <1>4, TimesFacts
    <3>2. CASE w = Nth(k, Available)
      BY <2>1, <2>2, <2>3, <3>1, <3>2
    <3>3. CASE w # Nth(k, Available)
      BY <2>1, <2>2, <2>3, <3>3, TimesZero
    <3>4. QED BY <3>2, <3>3
  <2>4. CASE ~(k < A)
    <3>1. k - A \in Rows /\ (r = k - A <=> k = A + r)
      BY <1>1, <1>2, <2>4 DEF Columns
    <3>2. Times(One, at(k - A)) = at(k - A) /\ Times(Zero, at(k - A)) = Zero
      BY <1>4, <3>1, TimesFacts, TimesZero
    <3>3. QED BY <2>1, <2>2, <2>4, <3>1, <3>2
  <2>5. QED BY <2>3, <2>4
<1>7. terms = [k \in Columns |-> terms[k]]
  OBVIOUS
<1> HIDE DEF terms, at, A
<1>8. terms \in [Columns -> Element] /\ terms[A + r] = at(r)
  BY <1>3, <1>4, <1>6, <1>7, ElementFacts
<1>9. CASE w \in Missing
  <2>1. ASSUME NEW k \in Columns \ {A + r} PROVE terms[k] = Zero
    <3>1. CASE k < A
      <4>1. k \in 0 .. Cardinality(Available) - 1
        BY <1>1, <3>1 DEF Columns, A
      <4>2. Nth(k, Available) \in Available
        BY <1>1, <4>1, RankFacts
      <4>3. w # Nth(k, Available)
        BY <1>1, <1>9, <4>2
      <4>4. QED BY <1>6, <3>1, <4>3
    <3>2. CASE ~(k < A)
      BY <1>6, <3>2
    <3>3. QED BY <3>1, <3>2
  <2>2. SumOf(terms) = at(r)
    BY <1>3, <1>8, <2>1, SumPick
  <2>3. Rank(w, Missing) \in Rows /\ Nth(Rank(w, Missing), Missing) = w
    BY <1>9, RowTypes DEF Enough
  <2>4. Original[r][Rank(w, Missing)] = at(r)
    BY <2>3 DEF Original, at
  <2>5. QED BY <1>5, <1>9, <2>2, <2>4
<1>10. CASE w \notin Missing
  <2>1. w \in Available
    BY <1>1, <1>10
  <2>2. PICK k0 : k0 = Rank(w, Available)
    OBVIOUS
  <2>3. k0 \in 0 .. A - 1 /\ Nth(k0, Available) = w
    BY <1>1, <2>1, <2>2, RankFacts DEF A
  <2>4. k0 \in Columns /\ k0 < A /\ k0 # A + r
    BY <1>1, <1>2, <1>3, <2>3 DEF Columns
  <2>5. terms[k0] = at(r)
    BY <1>6, <2>3, <2>4
  <2>6. ASSUME NEW k \in Columns \ {k0, A + r} PROVE terms[k] = Zero
    <3>1. CASE k < A
      <4>1. k \in 0 .. Cardinality(Available) - 1
        BY <1>1, <3>1 DEF Columns, A
      <4>2. Rank(Nth(k, Available), Available) = k
        BY <1>1, <4>1, RankFacts
      <4>3. w # Nth(k, Available)
        BY <2>2, <4>2
      <4>4. QED BY <1>6, <3>1, <4>3
    <3>2. CASE ~(k < A)
      BY <1>6, <3>2
    <3>3. QED BY <3>1, <3>2
  <2>7. IsFiniteSet(Columns)
    BY <1>2, IntervalSize DEF Columns
  <2>8. SumOf(terms) = Plus(terms[k0], terms[A + r])
    BY <1>3, <1>8, <2>4, <2>6, <2>7, SumTwo
  <2>9. QED BY <1>5, <1>8, <1>10, <2>5, <2>8, PlusFacts
<1>11. QED BY <1>9, <1>10

\* The third outcome of ReconstructData.
LEMMA MatricesMade ==
  ASSUME ParityInv, CoderInv, ReconstructData, pc' # "done"
  PROVE  /\ Enough /\ pc = "reconstruct" /\ pc' = "pivot" /\ result = "none" /\ result' = "none"
         /\ UNCHANGED <<packets, todo, parity, kind, count, data>>
         /\ input' = MakeInput /\ m' = Original /\ n' = OriginalRight /\ i' = 0 /\ j' = 0
<1>1. /\ pc = "reconstruct" /\ pc' = "pivot" /\ result = "none" /\ result' = "none"
      /\ UNCHANGED <<packets, todo, parity, kind, count, data>>
      /\ Missing # {} /\ Cardinality(UsedParity) >= Cardinality(Missing)
      /\ input' = MakeInput /\ MakeMatrices /\ i' = 0 /\ j' = 0
  BY DEF ReconstructData, Refuse, CoderInv
<1>2. m' = Original /\ n' = OriginalRight
  BY <1>1 DEF MakeMatrices, Original, OriginalRight, Rows, Columns
<1>3. Active
  BY <1>1 DEF Active
<1>4. QED BY <1>1, <1>2, <1>3 DEF Enough

-------------------------------------------------------------------------------
(* The steps of the reduction of rows. *)

\* Steps that end or do not begin the reduction.
LEMMA NotSolving ==
  ASSUME CoderInv, PlacePacket \/ NewCoder \/ Store \/ Singular
                   \/ (ReconstructData /\ pc' = "done")
  PROVE  ~Solving'
<1>1. CASE PlacePacket
  BY <1>1 DEF PlacePacket, Solving
<1>2. CASE NewCoder
  BY <1>2 DEF NewCoder, Solving
<1>3. CASE Store \/ Singular \/ (ReconstructData /\ pc' = "done")
  BY <1>3 DEF Store, Singular, Refuse, Solving
<1>4. QED BY <1>1, <1>2, <1>3

\* The next column: the matrices stay as they are.
LEMMA ColumnSteps ==
  ASSUME ParityInv, CoderInv, MatrixTypes, NextPivot \/ NextColumn
  PROVE  /\ UNCHANGED <<packets, todo, parity, kind, count, data, input, m, n, result>>
         /\ i \in Rows /\ j' = 0 /\ pc' \in {"pivot", "above"}
         /\ \/ /\ pc = "below" /\ pc' = "pivot" /\ i' = i + 1 /\ i + 1 \in Rows
               /\ j = Cardinality(Missing)
            \/ /\ pc = "below" /\ pc' = "above" /\ i' = 0 /\ i + 1 = Cardinality(Missing)
               /\ j = Cardinality(Missing)
            \/ pc = "above" /\ pc' = "above" /\ i' = i + 1 /\ j = i
<1>1. Solving /\ Active /\ m \in Square /\ i \in Nat /\ j \in Nat
  BY DEF NextPivot, NextColumn, Solving, MatrixTypes
<1>2. /\ Cardinality(Missing) \in Nat /\ DOMAIN m = Rows
      /\ \A r \in Rows : r \in Nat /\ r < Cardinality(Missing)
      /\ \A r \in Nat : r < Cardinality(Missing) => r \in Rows
  BY <1>1, RowTypes DEF Square
<1>3. CASE NextPivot
  <2>1. /\ pc = "below" /\ j \notin Rows /\ j' = 0
        /\ UNCHANGED <<packets, todo, parity, kind, count, data, input, m, n, result>>
        /\ (i + 1 \in Rows /\ i' = i + 1 /\ pc' = "pivot")
             \/ (i + 1 \notin Rows /\ i' = 0 /\ pc' = "above")
    BY <1>2, <1>3 DEF NextPivot
  <2>2. i \in Rows /\ j <= Cardinality(Missing)
    BY <1>1, <2>1 DEF MatrixTypes
  <2>3. j = Cardinality(Missing)
    BY <1>1, <1>2, <2>1, <2>2
  <2>4. i + 1 \notin Rows => i + 1 = Cardinality(Missing)
    BY <1>1, <1>2, <2>2
  <2>5. QED BY <2>1, <2>2, <2>3, <2>4
<1>4. CASE NextColumn
  BY <1>2, <1>4 DEF NextColumn
<1>5. QED BY <1>3, <1>4

LEMMA MatrixNext ==
  ASSUME ParityInv, CoderInv, MatrixTypes, [Next]_vars
  PROVE  MatrixTypes'
<1>1. CASE PlacePacket \/ NewCoder \/ Store \/ Singular \/ (ReconstructData /\ pc' = "done")
  BY <1>1, NotSolving DEF MatrixTypes
<1>2. ASSUME UNCHANGED <<parity, kind, count, data>>, Active, result' = "none", pc' # "load",
             Missing # {}, Cardinality(UsedParity) >= Cardinality(Missing),
             input' \in [Columns -> Vector], m' \in Square, n' \in [Rows -> Vector],
             i' \in Nat, j' \in Nat,
             pc' = "pivot" => i' \in Rows,
             pc' = "below" => i' \in Rows /\ i' < j' /\ j' <= Cardinality(Missing),
             pc' = "above" => i' <= Cardinality(Missing) /\ j' <= i'
      PROVE  MatrixTypes'
  <2>1. /\ Missing' = Missing /\ UsedParity' = UsedParity
        /\ Columns' = Columns /\ Vector' = Vector /\ Rows' = Rows /\ Square' = Square
    BY <1>2, Frame
  <2>2. Active'
    BY <1>2 DEF Active
  <2>3. QED BY <1>2, <2>1, <2>2 DEF MatrixTypes
<1>3. CASE ReconstructData /\ pc' # "done"
  <2>1. /\ Enough /\ pc' = "pivot" /\ result' = "none"
        /\ UNCHANGED <<packets, todo, parity, kind, count, data>>
        /\ input' = MakeInput /\ m' = Original /\ n' = OriginalRight /\ i' = 0 /\ j' = 0
    BY <1>3, MatricesMade
  <2>2. input' \in [Columns -> Vector] /\ m' \in Square /\ n' \in [Rows -> Vector]
    BY <2>1, OriginalTypes, InputFacts
  <2>3. 0 \in Rows
    <3>1. IsFiniteSet(Missing) /\ Cardinality(Missing) \in Nat /\ Missing # {}
      BY <2>1, SetFacts DEF Enough
    <3>2. Cardinality(Missing) # 0
      BY <3>1, FS_EmptySet
    <3>3. QED BY <3>1, <3>2 DEF Rows
  <2>4. QED BY <1>2, <2>1, <2>2, <2>3 DEF Enough
<1>4. CASE Pivot \/ ClearBelow \/ NextPivot \/ ClearAbove \/ NextColumn
  <2>1. /\ UNCHANGED <<packets, todo, parity, kind, count, data, input>> /\ Solving
    BY <1>4, SolvingSteps
  <2>2. /\ Active /\ Missing # {} /\ Cardinality(UsedParity) >= Cardinality(Missing)
        /\ input \in [Columns -> Vector] /\ m \in Square /\ n \in [Rows -> Vector]
        /\ i \in Nat /\ j \in Nat /\ result = "none"
        /\ pc = "below" => i \in Rows /\ i < j /\ j <= Cardinality(Missing)
        /\ pc = "above" => i <= Cardinality(Missing) /\ j <= i
    BY <2>1 DEF MatrixTypes
  <2>3. /\ Cardinality(Missing) \in Nat
        /\ \A r \in Rows : r \in Nat /\ r < Cardinality(Missing)
    BY <2>2, RowTypes
  <2>4. CASE Pivot
    <3>1. /\ i \in Rows /\ i' = i /\ j' = i + 1 /\ pc' = "below" /\ result' = "none"
          /\ m' \in Square /\ n' \in [Rows -> Vector]
      BY <2>2, <2>4, PivotShape
    <3>2. i' < j' /\ j' <= Cardinality(Missing) /\ j' \in Nat /\ i' \in Nat
      BY <2>2, <2>3, <3>1
    <3>3. QED BY <1>2, <2>1, <2>2, <3>1, <3>2
  <2>5. CASE ClearBelow \/ ClearAbove
    <3>1. /\ i \in Rows /\ j \in Rows /\ i' = i /\ j' = j + 1 /\ pc' = pc /\ result' = "none"
          /\ pc = "below" => i < j
          /\ pc = "above" => j < i
          /\ pc \in {"below", "above"}
          /\ m' \in Square /\ n' \in [Rows -> Vector]
      BY <2>2, <2>5, ClearShape
    <3>2. /\ j' \in Nat /\ i' \in Nat
          /\ pc' = "below" => i' \in Rows /\ i' < j' /\ j' <= Cardinality(Missing)
          /\ pc' = "above" => i' <= Cardinality(Missing) /\ j' <= i'
      BY <2>2, <2>3, <3>1
    <3>3. QED BY <1>2, <2>1, <2>2, <3>1, <3>2
  <2>6. CASE NextPivot \/ NextColumn
    <3>1. /\ UNCHANGED <<m, n, result>> /\ i \in Rows /\ j' = 0 /\ pc' \in {"pivot", "above"}
          /\ (pc' = "pivot" /\ i' = i + 1 /\ i + 1 \in Rows)
               \/ (pc' = "above" /\ i' = 0) \/ (pc' = "above" /\ i' = i + 1)
      BY <2>6, ColumnSteps
    <3>2. /\ j' \in Nat /\ i' \in Nat
          /\ pc' = "pivot" => i' \in Rows
          /\ pc' = "above" => i' <= Cardinality(Missing) /\ j' <= i'
      BY <2>2, <2>3, <3>1
    <3>3. QED BY <1>2, <2>1, <2>2, <3>1, <3>2
  <2>7. QED BY <1>4, <2>4, <2>5, <2>6
<1>5. CASE UNCHANGED vars
  <2>1. UNCHANGED <<parity, kind, count, data, pc, result, input, m, n, i, j>>
    BY <1>5 DEF vars, matrixVars
  <2>2. Solving' => Solving
    BY <2>1 DEF Solving
  <2>3. CASE Solving
    BY <1>2, <2>1, <2>3 DEF MatrixTypes, Solving
  <2>4. QED BY <2>2, <2>3 DEF MatrixTypes
<1>6. QED BY <1>1, <1>3, <1>4, <1>5 DEF Next

LEMMA SolutionNext ==
  ASSUME ParityInv, CoderInv, MatrixTypes, SolutionInv, [Next]_vars
  PROVE  SolutionInv'
<1>1. CASE PlacePacket \/ NewCoder \/ Store \/ Singular \/ (ReconstructData /\ pc' = "done")
  BY <1>1, NotSolving DEF SolutionInv
<1>2. CASE ReconstructData /\ pc' # "done"
  <2>1. /\ Enough /\ UNCHANGED <<packets, todo, parity, kind, count, data>>
        /\ input' = MakeInput /\ m' = Original /\ n' = OriginalRight
    BY <1>2, MatricesMade
  <2>2. Missing' = Missing /\ Columns' = Columns /\ Rows' = Rows
    BY <2>1, Frame
  <2>3. ASSUME NEW r \in Rows PROVE Solves(m[r], n[r])'
    <3>1. \A w \in Columns : Dot(OriginalRight[r], [k \in Columns |-> MakeInput[k][w]]) =
                               IF w \in Missing THEN Original[r][Rank(w, Missing)] ELSE Zero
      BY <2>1, OriginalSolves
    <3>2. QED BY <2>1, <2>2, <3>1 DEF Solves
  <2>4. QED BY <2>2, <2>3 DEF SolutionInv
<1>3. ASSUME Solving, UNCHANGED <<parity, kind, count, data, input>>,
             \A r \in Rows : Solves(m'[r], n'[r])
      PROVE  SolutionInv'
  <2>1. Missing' = Missing /\ Columns' = Columns /\ Rows' = Rows
    BY <1>3, Frame
  <2>2. ASSUME NEW r \in Rows PROVE Solves(m[r], n[r])'
    <3>1. Solves(m'[r], n'[r])
      BY <1>3
    <3>2. QED BY <1>3, <2>1, <3>1 DEF Solves
  <2>3. QED BY <2>1, <2>2 DEF SolutionInv
<1>4. CASE Pivot \/ ClearBelow \/ NextPivot \/ ClearAbove \/ NextColumn
  <2>1. UNCHANGED <<packets, todo, parity, kind, count, data, input>> /\ Solving
    BY <1>4, SolvingSteps
  <2>2. /\ Active /\ input \in [Columns -> Vector]
        /\ m \in [Rows -> [Rows -> Element]] /\ n \in [Rows -> Vector]
        /\ \A r \in Rows : Solves(m[r], n[r])
    BY <2>1 DEF MatrixTypes, SolutionInv, Square
  <2>3. \A r \in Rows : m[r] \in [Rows -> Element] /\ n[r] \in Vector
    BY <2>2
  <2>4. CASE Pivot
    <3>1. PICK a \in Rows, c \in NonZero : m' = SwappedScaled(m, i, a, c) /\ n' = SwappedScaled(n, i, a, c)
      BY <2>4, PivotShape
    <3>2. i \in Rows /\ c \in Element
      BY <2>4, PivotShape DEF NonZero
    <3>3. Solves(Scaled(c, m[a]), Scaled(c, n[a]))
      BY <2>2, <2>3, <3>2, SolvesLinear
    <3>4. ASSUME NEW r \in Rows PROVE Solves(m'[r], n'[r])
      <4>1. /\ m'[r] = IF r = i THEN Scaled(c, m[a]) ELSE IF r = a THEN m[i] ELSE m[r]
            /\ n'[r] = IF r = i THEN Scaled(c, n[a]) ELSE IF r = a THEN n[i] ELSE n[r]
        BY <2>2, <3>1 DEF SwappedScaled
      <4>2. QED BY <2>2, <3>2, <3>3, <4>1
    <3>5. QED BY <1>3, <2>1, <3>4
  <2>5. CASE ClearBelow \/ ClearAbove
    <3>1. PICK c \in Element : m' = AddedTo(m, j, i, c) /\ n' = AddedTo(n, j, i, c)
      BY <2>5, ClearShape
    <3>2. i \in Rows /\ j \in Rows
      BY <2>5, ClearShape
    <3>3. Solves(AddedScaled(c, m[i], m[j]), AddedScaled(c, n[i], n[j]))
      BY <2>2, <2>3, <3>2, SolvesLinear
    <3>4. ASSUME NEW r \in Rows PROVE Solves(m'[r], n'[r])
      <4>1. /\ m'[r] = IF r = j THEN AddedScaled(c, m[i], m[j]) ELSE m[r]
            /\ n'[r] = IF r = j THEN AddedScaled(c, n[i], n[j]) ELSE n[r]
        BY <2>2, <3>1 DEF AddedTo
      <4>2. QED BY <2>2, <3>3, <4>1
    <3>5. QED BY <1>3, <2>1, <3>4
  <2>6. CASE NextPivot \/ NextColumn
    <3>1. m' = m /\ n' = n
      BY <2>6, ColumnSteps
    <3>2. QED BY <1>3, <2>1, <2>2, <3>1
  <2>7. QED BY <1>4, <2>4, <2>5, <2>6
<1>5. CASE UNCHANGED vars
  <2>1. UNCHANGED <<parity, kind, count, data, pc, input, m, n>>
    BY <1>5 DEF vars, matrixVars
  <2>2. Solving' => Solving
    BY <2>1 DEF Solving
  <2>3. CASE Solving
    BY <1>3, <2>1, <2>3 DEF SolutionInv
  <2>4. QED BY <2>2, <2>3 DEF SolutionInv
<1>6. QED BY <1>1, <1>2, <1>4, <1>5 DEF Next

-------------------------------------------------------------------------------
(* The reduced form. *)

\* The columns that are done are those of the identity below and, in the second
\* half, above.
EchelonInv ==
  Solving =>
    /\ \A c \in Rows : pc = "above" \/ c < i =>
         m[c][c] = One /\ \A r \in Rows : r > c => m[r][c] = Zero
    /\ pc = "below" => m[i][i] = One /\ \A r \in Rows : i < r /\ r < j => m[r][i] = Zero
    /\ pc = "above" =>
         \A r, c \in Rows : r < c /\ (c < i \/ (c = i /\ r < j)) => m[r][c] = Zero

LEMMA EchelonPivot ==
  ASSUME ParityInv, CoderInv, MatrixTypes, EchelonInv, Pivot
  PROVE  EchelonInv'
<1>1. /\ i \in Rows /\ i' = i /\ j' = i + 1 /\ pc = "pivot" /\ pc' = "below"
      /\ UNCHANGED <<packets, todo, parity, kind, count, data, input, result>>
  BY PivotShape
<1>2. PICK a \in Rows, c \in NonZero :
        /\ a >= i /\ m[a][i] \in NonZero /\ c = InverseOf(m[a][i])
        /\ m' = SwappedScaled(m, i, a, c) /\ m' \in Square
  BY PivotShape
<1>3. Solving /\ Active /\ m \in [Rows -> [Rows -> Element]] /\ Rows' = Rows
  BY <1>1, Frame DEF Solving, MatrixTypes, Square
<1>4. \A r \in Rows : r \in Nat
  BY <1>3, RowTypes
<1>5. c \in Element /\ Times(c, m[a][i]) = One
  BY <1>2, InverseFacts DEF NonZero
<1>6. ASSUME NEW r \in Rows, NEW k \in Rows
      PROVE  m'[r][k] = IF r = i THEN Times(c, m[a][k]) ELSE IF r = a THEN m[i][k] ELSE m[r][k]
  <2>1. m'[r] = IF r = i THEN Scaled(c, m[a]) ELSE IF r = a THEN m[i] ELSE m[r]
    BY <1>2, <1>3 DEF SwappedScaled
  <2>2. Scaled(c, m[a])[k] = Times(c, m[a][k])
    <3>1. m[a] \in [Rows -> Element]
      BY <1>3
    <3>2. QED BY <3>1 DEF Scaled
  <2>3. QED BY <2>1, <2>2
<1>7. ASSUME NEW k \in Rows, k < i
      PROVE  m'[k][k] = One /\ \A r \in Rows : r > k => m'[r][k] = Zero
  <2>1. m[k][k] = One /\ \A r \in Rows : r > k => m[r][k] = Zero
    BY <1>3, <1>7 DEF EchelonInv
  <2>2. k # i /\ k # a /\ a > k /\ i > k
    BY <1>1, <1>2, <1>4, <1>7
  <2>3. m'[k][k] = One
    BY <1>6, <2>1, <2>2
  <2>4. Times(c, m[a][k]) = Zero /\ m[i][k] = Zero
    BY <1>1, <2>1, <2>2, TimesZero
  <2>5. QED BY <1>6, <2>1, <2>3, <2>4
<1>8. m'[i][i] = One
  BY <1>1, <1>5, <1>6
<1>9. \A r \in Rows : ~(i < r /\ r < i + 1)
  BY <1>1, <1>4
<1>10. QED BY <1>1, <1>3, <1>7, <1>8, <1>9 DEF EchelonInv

LEMMA EchelonClear ==
  ASSUME ParityInv, CoderInv, MatrixTypes, EchelonInv, ClearBelow \/ ClearAbove
  PROVE  EchelonInv'
<1>1. /\ i \in Rows /\ j \in Rows /\ i # j /\ i' = i /\ j' = j + 1 /\ pc' = pc
      /\ pc = "below" => i < j
      /\ pc = "above" => j < i
      /\ pc \in {"below", "above"}
      /\ UNCHANGED <<packets, todo, parity, kind, count, data, input, result>>
  BY ClearShape
<1>2. PICK c \in Element : c = m[j][i] /\ m' = AddedTo(m, j, i, c) /\ m' \in Square
  BY ClearShape
<1>3. Solving /\ Active /\ m \in [Rows -> [Rows -> Element]] /\ Rows' = Rows
  BY <1>1, Frame DEF Solving, MatrixTypes, Square
<1>4. \A r \in Rows : r \in Nat
  BY <1>3, RowTypes
<1>5. ASSUME NEW r \in Rows, NEW k \in Rows
      PROVE  m'[r][k] = IF r = j THEN Plus(m[j][k], Times(c, m[i][k])) ELSE m[r][k]
  <2>1. m'[r] = IF r = j THEN AddedScaled(c, m[i], m[j]) ELSE m[r]
    BY <1>2, <1>3 DEF AddedTo
  <2>2. AddedScaled(c, m[i], m[j])[k] = Plus(m[j][k], Times(c, m[i][k]))
    <3>1. m[i] \in [Rows -> Element]
      BY <1>1, <1>3
    <3>2. QED BY <3>1 DEF AddedScaled
  <2>3. QED BY <2>1, <2>2
\* Where row i has zero, row j stays.
<1>6. ASSUME NEW k \in Rows, m[i][k] = Zero PROVE m'[j][k] = m[j][k]
  BY <1>1, <1>5, <1>6, TimesZero, PlusFacts
<1>7. m[i][i] = One
  BY <1>1, <1>3 DEF EchelonInv
<1>8. m'[j][i] = Zero
  <2>1. m'[j][i] = Plus(m[j][i], Times(c, One))
    BY <1>1, <1>5, <1>7
  <2>2. Times(c, One) = c
    BY TimesFacts
  <2>3. QED BY <1>2, <2>1, <2>2, PlusFacts
<1>9. ASSUME NEW k \in Rows, pc = "above" \/ k < i
      PROVE  m'[k][k] = One /\ \A r \in Rows : r > k => m'[r][k] = Zero
  <2>1. m[k][k] = One /\ \A r \in Rows : r > k => m[r][k] = Zero
    BY <1>3, <1>9 DEF EchelonInv
  <2>2. CASE i > k
    <3>1. m[i][k] = Zero
      BY <1>1, <2>1, <2>2
    <3>2. m'[j][k] = m[j][k]
      BY <1>6, <3>1
    <3>3. QED BY <1>5, <2>1, <3>2
  <2>3. CASE ~(i > k)
    <3>1. j < i /\ i <= k
      BY <1>1, <1>4, <1>9, <2>3
    <3>2. j # k /\ ~(j > k)
      BY <1>1, <1>4, <3>1
    <3>3. QED BY <1>5, <2>1, <3>2
  <2>4. QED BY <2>2, <2>3
<1>10. CASE pc = "below"
  <2>1. \A r \in Rows : i < r /\ r < j => m[r][i] = Zero
    BY <1>3, <1>10 DEF EchelonInv
  <2>2. ASSUME NEW r \in Rows, i < r, r < j + 1 PROVE m'[r][i] = Zero
    <3>1. r = j \/ r < j
      BY <1>1, <1>4, <2>2
    <3>2. QED BY <1>1, <1>5, <1>8, <2>1, <2>2, <3>1
  <2>3. m'[i][i] = One
    BY <1>1, <1>5, <1>7
  <2>4. QED BY <1>1, <1>3, <1>9, <1>10, <2>2, <2>3 DEF EchelonInv
<1>11. CASE pc = "above"
  <2>1. \A r, k \in Rows : r < k /\ (k < i \/ (k = i /\ r < j)) => m[r][k] = Zero
    BY <1>3, <1>11 DEF EchelonInv
  <2>2. ASSUME NEW r \in Rows, NEW k \in Rows, r < k, k < i \/ (k = i /\ r < j + 1)
        PROVE  m'[r][k] = Zero
    <3>1. CASE k < i
      <4>1. m[r][k] = Zero /\ m[i][k] = Zero
        BY <1>1, <1>3, <1>4, <1>11, <2>1, <2>2, <3>1 DEF EchelonInv
      <4>2. m'[j][k] = m[j][k]
        BY <1>6, <4>1
      <4>3. QED BY <1>5, <4>1, <4>2
    <3>2. CASE ~(k < i)
      <4>1. k = i /\ (r = j \/ r < j)
        BY <1>1, <1>4, <2>2, <3>2
      <4>2. CASE r = j
        BY <1>8, <4>1, <4>2
      <4>3. CASE r # j
        BY <1>5, <2>1, <2>2, <4>1, <4>3
      <4>4. QED BY <4>2, <4>3
    <3>3. QED BY <3>1, <3>2
  <2>3. QED BY <1>1, <1>3, <1>9, <1>11, <2>2 DEF EchelonInv
<1>12. QED BY <1>1, <1>10, <1>11

LEMMA EchelonNext ==
  ASSUME ParityInv, CoderInv, MatrixTypes, EchelonInv, [Next]_vars
  PROVE  EchelonInv'
<1>1. CASE PlacePacket \/ NewCoder \/ Store \/ Singular \/ (ReconstructData /\ pc' = "done")
  BY <1>1, NotSolving DEF EchelonInv
<1>2. CASE ReconstructData /\ pc' # "done"
  <2>1. Enough /\ pc' = "pivot" /\ i' = 0 /\ UNCHANGED <<packets, todo, parity, kind, count, data>>
    BY <1>2, MatricesMade
  <2>2. \A c \in Rows' : ~(c < 0)
    BY <2>1, Frame, RowTypes DEF Enough
  <2>3. QED BY <2>1, <2>2 DEF EchelonInv
<1>3. CASE NextPivot \/ NextColumn
  <2>1. /\ UNCHANGED <<packets, todo, parity, kind, count, data, input, m, n, result>>
        /\ i \in Rows /\ j' = 0 /\ Solving
        /\ \/ /\ pc = "below" /\ pc' = "pivot" /\ i' = i + 1 /\ i + 1 \in Rows
              /\ j = Cardinality(Missing)
           \/ /\ pc = "below" /\ pc' = "above" /\ i' = 0 /\ i + 1 = Cardinality(Missing)
              /\ j = Cardinality(Missing)
           \/ pc = "above" /\ pc' = "above" /\ i' = i + 1 /\ j = i
    BY <1>3, ColumnSteps DEF Solving
  <2>2. Rows' = Rows /\ \A r \in Rows : r \in Nat /\ r < Cardinality(Missing)
    BY <2>1, Frame, RowTypes DEF MatrixTypes
  <2>3. CASE pc = "below"
    <3>1. ASSUME NEW c \in Rows, c <= i
          PROVE  m[c][c] = One /\ \A r \in Rows : r > c => m[r][c] = Zero
      <4>1. CASE c < i
        BY <2>1, <4>1 DEF EchelonInv
      <4>2. CASE ~(c < i)
        <5>1. c = i
          BY <2>1, <2>2, <3>1, <4>2
        <5>2. \A r \in Rows : r > i => i < r /\ r < j
          BY <2>1, <2>2, <2>3
        <5>3. QED BY <2>1, <2>3, <5>1, <5>2 DEF EchelonInv
      <4>3. QED BY <4>1, <4>2
    <3>2. CASE pc' = "pivot"
      <4>1. \A c \in Rows : c < i + 1 => c <= i
        BY <2>1, <2>2
      <4>2. i' = i + 1 /\ pc' = "pivot" /\ m' = m
        BY <2>1, <2>3, <3>2
      <4>3. QED BY <2>2, <3>1, <4>1, <4>2 DEF EchelonInv
    <3>3. CASE pc' = "above"
      <4>1. \A c \in Rows : c <= i /\ ~(c < 0)
        BY <2>1, <2>2, <2>3, <3>3
      <4>2. i' = 0 /\ j' = 0 /\ pc' = "above" /\ m' = m
        BY <2>1, <2>3, <3>3
      <4>3. QED BY <2>2, <3>1, <4>1, <4>2 DEF EchelonInv
    <3>4. QED BY <2>1, <2>3, <3>2, <3>3
  <2>4. CASE pc = "above"
    <3>1. i' = i + 1 /\ j = i /\ j' = 0 /\ pc' = "above" /\ m' = m
      BY <2>1, <2>4
    <3>2. ASSUME NEW r \in Rows, NEW c \in Rows, r < c, c < i + 1 \/ (c = i + 1 /\ r < 0)
          PROVE  m[r][c] = Zero
      <4>1. c < i \/ (c = i /\ r < j)
        BY <2>1, <2>2, <3>1, <3>2
      <4>2. QED BY <2>1, <2>4, <3>2, <4>1 DEF EchelonInv
    <3>3. \A c \in Rows : m[c][c] = One /\ \A r \in Rows : r > c => m[r][c] = Zero
      BY <2>1, <2>4 DEF EchelonInv
    <3>4. QED BY <2>2, <3>1, <3>2, <3>3 DEF EchelonInv
  <2>5. QED BY <2>1, <2>3, <2>4
<1>4. CASE UNCHANGED vars
  <2>1. UNCHANGED <<parity, kind, count, data, pc, m, i, j>>
    BY <1>4 DEF vars, matrixVars
  <2>2. Solving' = Solving /\ Rows' = Rows
    BY <2>1, Frame DEF Solving
  <2>3. QED BY <2>1, <2>2 DEF EchelonInv
<1>5. QED BY <1>1, <1>2, <1>3, <1>4, EchelonPivot, EchelonClear DEF Next

ReducedInv == ParityInv /\ CoderInv /\ MatrixTypes /\ SolutionInv /\ EchelonInv

\* At the end the left matrix is the identity, and the equations give the shards.
LEMMA StoreIsRight == ReducedInv => StoreRight
<1>1. SUFFICES ASSUME ReducedInv, Store, NEW q \in Missing
               PROVE  Combined(n[Rank(q, Missing)], input) = DataShard(q)
  BY DEF StoreRight
<1>2. /\ Solving /\ pc = "above" /\ i \notin DOMAIN m /\ ParityInv /\ CoderInv /\ MatrixTypes
      /\ SolutionInv /\ EchelonInv
  BY <1>1 DEF Store, Solving, ReducedInv
<1>3. /\ Active /\ m \in [Rows -> [Rows -> Element]] /\ n \in [Rows -> Vector]
      /\ input \in [Columns -> Vector] /\ i \in Nat /\ i <= Cardinality(Missing)
  BY <1>2 DEF MatrixTypes, Square
<1>4. /\ \A r \in Rows : r \in Nat /\ r < Cardinality(Missing)
      /\ \A r \in Nat : r < Cardinality(Missing) => r \in Rows
      /\ \A w \in Missing : w \in Columns /\ Rank(w, Missing) \in Rows
                            /\ Nth(Rank(w, Missing), Missing) = w
      /\ Cardinality(Missing) \in Nat
  BY <1>2, <1>3, RowTypes
<1>5. i = Cardinality(Missing)
  <2>1. i \notin Rows
    BY <1>2, <1>3
  <2>2. ~(i < Cardinality(Missing)) /\ Cardinality(Missing) \in Nat
    BY <1>3, <1>4, <2>1
  <2>3. QED BY <1>3, <2>2
<1>6. ASSUME NEW r \in Rows, NEW c \in Rows PROVE m[r][c] = IF r = c THEN One ELSE Zero
  <2>1. c < i
    BY <1>4, <1>5
  <2>2. r < c \/ r > c \/ r = c
    BY <1>4
  <2>3. QED BY <1>2, <2>1, <2>2 DEF EchelonInv
<1>7. PICK r \in Rows : r = Rank(q, Missing)
  BY <1>4
<1>8. DOMAIN n[r] = Columns
  BY <1>3, <1>7 DEF Vector
<1>9. ASSUME NEW w \in Columns
      PROVE  Dot(n[r], [k \in Columns |-> input[k][w]]) = IF w = q THEN One ELSE Zero
  <2>1. Dot(n[r], [k \in Columns |-> input[k][w]]) =
          IF w \in Missing THEN m[r][Rank(w, Missing)] ELSE Zero
    BY <1>2 DEF SolutionInv, Solves
  <2>2. CASE w \in Missing
    <3>1. Rank(w, Missing) = r <=> w = q
      BY <1>1, <1>4, <1>7, <2>2
    <3>2. QED BY <1>4, <1>6, <2>1, <2>2, <3>1
  <2>3. CASE w \notin Missing
    BY <1>1, <2>1, <2>3
  <2>4. QED BY <2>2, <2>3
<1>10. ASSUME NEW w \in Columns
       PROVE  SumOf([k \in DOMAIN n[r] |-> Times(n[r][k], input[k][w])]) = IF w = q THEN One ELSE Zero
  <2>1. SumOf([k \in DOMAIN n[r] |-> Times(n[r][k], input[k][w])]) =
          Dot(n[r], [k \in Columns |-> input[k][w]])
    BY <1>8 DEF Dot
  <2>2. QED BY <1>9, <2>1
<1>11. Combined(n[r], input) = DataShard(q)
  BY <1>10 DEF Combined, DataShard, Columns
<1>12. QED BY <1>7, <1>11

LEMMA ReducedHolds == Spec => []ReducedInv
<1>1. Init => ReducedInv
  <2>1. Init => ~Solving
    BY DEF Init, Solving
  <2>2. QED BY <2>1, ParityInit, CoderInit DEF ReducedInv, MatrixTypes, SolutionInv, EchelonInv
<1>2. ReducedInv /\ [Next]_vars => ReducedInv'
  BY ParityNext, CoderNext, StoreIsRight, MatrixNext, SolutionNext, EchelonNext DEF ReducedInv
<1>3. QED BY <1>1, <1>2, PTL DEF Spec

\* At each step of rowReduceForInverse the left matrix times the missing shards is
\* the right one times the input: what is done to a row of one is done to the
\* other, for as long as the rows are swapped, scaled and added alike.
THEOREM SolutionIsKept == Spec => []SolutionKept
<1>1. ASSUME ReducedInv PROVE SolutionKept
  <2>1. SUFFICES ASSUME pc \in {"pivot", "below", "above"}, NEW r \in DOMAIN m
                 PROVE  Combined(n[r], input) =
                          [w \in 0 .. count - 1 |->
                             IF w \in Missing THEN m[r][Rank(w, Missing)] ELSE Zero]
    BY DEF SolutionKept, Rank
  <2>2. Solving /\ m \in Square /\ n \in [Rows -> Vector] /\ SolutionInv
    BY <1>1, <2>1 DEF ReducedInv, MatrixTypes, Solving
  <2>3. r \in Rows /\ DOMAIN n[r] = Columns
    BY <2>1, <2>2 DEF Square, Vector
  <2>4. ASSUME NEW w \in Columns
        PROVE  SumOf([k \in DOMAIN n[r] |-> Times(n[r][k], input[k][w])]) =
                 IF w \in Missing THEN m[r][Rank(w, Missing)] ELSE Zero
    <3>1. SumOf([k \in DOMAIN n[r] |-> Times(n[r][k], input[k][w])]) =
            Dot(n[r], [k \in Columns |-> input[k][w]])
      BY <2>3 DEF Dot
    <3>2. QED BY <2>2, <2>3, <3>1 DEF SolutionInv, Solves
  <2>5. QED BY <2>4 DEF Combined, Columns
<1>2. QED BY <1>1, ReducedHolds, PTL

\* A reconstruction that succeeds gives the original shards, whichever and however
\* many are missing, whichever parity shards are used and in whatever order the
\* rows become pivots; and one that fails leaves the data as it was.
THEOREM ReconstructsRight == Spec => []ReconstructedRight
<1>1. ASSUME ReducedInv PROVE ReconstructedRight
  <2>1. CASE Active
    BY <1>1, <2>1 DEF ReducedInv, CoderInv, ReconstructedRight
  <2>2. CASE ~Active
    BY <1>1, <2>2 DEF ReducedInv, CoderInv, ReconstructedRight
  <2>3. QED BY <2>1, <2>2
<1>2. QED BY <1>1, ReducedHolds, PTL

-------------------------------------------------------------------------------
(* What is refused. *)

\* The coder finds too few parity shards only when there are too few.
LEMMA NotEnough ==
  ASSUME ParityInv, CoderInv, Active, Cardinality(UsedParity) < Cardinality(Missing)
  PROVE  Cardinality(PresentParity) < Cardinality(Missing)
<1>1. PresentParity \in SUBSET Nat /\ IsFiniteSet(PresentParity) /\ Cardinality(Missing) \in Nat
  BY SetFacts
<1>2. UsedParity = {r \in PresentParity : Rank(r, PresentParity) < Cardinality(Missing)}
  BY DEF UsedParity, Rank
<1>3. QED BY <1>1, <1>2, FirstOnes

LEMMA OriginalKept ==
  ASSUME UNCHANGED <<parity, kind, count, data>>
  PROVE  Original' = Original
<1>1. Missing' = Missing /\ UsedParity' = UsedParity /\ Rows' = Rows
  BY Frame
<1>2. \A r, c \in Rows : ParityMatrixAt(Nth(r, UsedParity), Nth(c, Missing))' =
                           ParityMatrixAt(Nth(r, UsedParity), Nth(c, Missing))
  BY <1>1 DEF ParityMatrixAt
<1>3. QED BY <1>1, <1>2 DEF Original

\* What the reduced matrix takes to zero, the first one did.
IsKernel(x, v) == \A r \in Rows : Dot(x[r], v) = Zero

KernelInv ==
  Solving => \A v \in [Rows -> Element] : IsKernel(m, v) => IsKernel(Original, v)

LEMMA KernelNext ==
  ASSUME ParityInv, CoderInv, MatrixTypes, KernelInv, [Next]_vars
  PROVE  KernelInv'
<1>1. CASE PlacePacket \/ NewCoder \/ Store \/ Singular \/ (ReconstructData /\ pc' = "done")
  BY <1>1, NotSolving DEF KernelInv
<1>2. CASE ReconstructData /\ pc' # "done"
  <2>1. UNCHANGED <<parity, kind, count, data>> /\ m' = Original
    BY <1>2, MatricesMade
  <2>2. Original' = Original
    BY <2>1, OriginalKept
  <2>3. QED BY <2>1, <2>2 DEF KernelInv, IsKernel
<1>3. ASSUME Solving, UNCHANGED <<parity, kind, count, data>>,
             \A v \in [Rows -> Element] : IsKernel(m', v) => IsKernel(m, v)
      PROVE  KernelInv'
  <2>1. Original' = Original /\ Rows' = Rows
    BY <1>3, OriginalKept, Frame
  <2>2. ASSUME NEW v \in [Rows -> Element], IsKernel(m', v) PROVE IsKernel(Original, v)
    BY <1>3, <2>2 DEF KernelInv
  <2>3. QED BY <2>1, <2>2 DEF KernelInv, IsKernel
<1>4. CASE Pivot \/ ClearBelow \/ NextPivot \/ ClearAbove \/ NextColumn
  <2>1. UNCHANGED <<packets, todo, parity, kind, count, data, input>> /\ Solving
    BY <1>4, SolvingSteps
  <2>2. Active /\ m \in [Rows -> [Rows -> Element]] /\ Cardinality(Missing) \in Nat
    BY <2>1, RowTypes DEF MatrixTypes, Square
  <2>3. ASSUME NEW v \in [Rows -> Element], NEW x \in [Rows -> Element], NEW y \in [Rows -> Element],
               NEW c \in Element
        PROVE  /\ Dot(x, v) \in Element
               /\ Dot(Scaled(c, x), v) = Times(c, Dot(x, v))
               /\ Dot(AddedScaled(c, x, y), v) = Plus(Dot(y, v), Times(c, Dot(x, v)))
    <3>1. PICK b \in Nat : Rows = 0 .. b - 1
      BY <2>2 DEF Rows
    <3>2. PICK u \in [Rows -> Element] : u = Scaled(c, x)
      BY TimesFacts DEF Scaled
    <3>3. AddedScaled(c, x, y) = Added(y, u)
      BY <3>2 DEF Added, AddedScaled, Scaled
    <3>4. Dot(x, v) \in Element /\ Dot(Scaled(c, x), v) = Times(c, Dot(x, v))
      BY <3>1, DotFacts
    <3>5. Dot(Added(y, u), v) = Plus(Dot(y, v), Dot(u, v))
      BY <3>1, DotFacts
    <3>6. QED BY <3>2, <3>3, <3>4, <3>5
  <2>4. CASE Pivot
    <3>1. i \in Rows
      BY <2>4, PivotShape
    <3>2. PICK a \in Rows, c \in NonZero : m' = SwappedScaled(m, i, a, c)
      BY <2>4, PivotShape
    <3>3. ASSUME NEW v \in [Rows -> Element], IsKernel(m', v), NEW r \in Rows PROVE Dot(m[r], v) = Zero
      <4>1. \A s \in Rows : m'[s] = IF s = i THEN Scaled(c, m[a]) ELSE IF s = a THEN m[i] ELSE m[s]
        BY <2>2, <3>2 DEF SwappedScaled
      <4>2. \A s \in Rows : m[s] \in [Rows -> Element] /\ Dot(m'[s], v) = Zero
        BY <2>2, <3>3 DEF IsKernel
      <4>3. c \in Element /\ c # Zero
        BY DEF NonZero
      <4>4. Dot(m[a], v) = Zero
        <5>0. m'[i] = Scaled(c, m[a]) /\ Dot(m'[i], v) = Zero /\ m[a] \in [Rows -> Element]
          BY <3>1, <4>1, <4>2
        <5>1. Times(c, Dot(m[a], v)) = Zero /\ Dot(m[a], v) \in Element
          BY <2>3, <4>3, <5>0
        <5>2. QED BY <4>3, <5>1, TimesFacts
      <4>5. CASE r = i /\ i # a
        BY <3>1, <4>1, <4>2, <4>5
      <4>6. CASE r # i /\ r # a
        BY <4>1, <4>2, <4>6
      <4>7. QED BY <4>4, <4>5, <4>6
    <3>4. QED BY <1>3, <2>1, <3>3 DEF IsKernel
  <2>5. CASE ClearBelow \/ ClearAbove
    <3>1. i \in Rows /\ j \in Rows /\ i # j
      BY <2>5, ClearShape
    <3>2. PICK c \in Element : m' = AddedTo(m, j, i, c)
      BY <2>5, ClearShape
    <3>3. ASSUME NEW v \in [Rows -> Element], IsKernel(m', v), NEW r \in Rows PROVE Dot(m[r], v) = Zero
      <4>1. \A s \in Rows : m'[s] = IF s = j THEN AddedScaled(c, m[i], m[j]) ELSE m[s]
        BY <2>2, <3>2 DEF AddedTo
      <4>2. \A s \in Rows : m[s] \in [Rows -> Element] /\ Dot(m'[s], v) = Zero
        BY <2>2, <3>3 DEF IsKernel
      <4>3. Dot(m[i], v) = Zero
        BY <3>1, <4>1, <4>2
      <4>4. Plus(Dot(m[j], v), Times(c, Dot(m[i], v))) = Zero
        BY <2>3, <3>1, <4>1, <4>2
      <4>5. Dot(m[j], v) = Zero
        BY <4>3, <4>4, TimesZero, PlusFacts
      <4>6. CASE r # j
        BY <4>1, <4>2, <4>6
      <4>7. QED BY <4>5, <4>6
    <3>4. QED BY <1>3, <2>1, <3>3 DEF IsKernel
  <2>6. CASE NextPivot \/ NextColumn
    <3>1. m' = m
      BY <2>6, ColumnSteps
    <3>2. QED BY <1>3, <2>1, <3>1
  <2>7. QED BY <1>4, <2>4, <2>5, <2>6
<1>5. CASE UNCHANGED vars
  <2>1. UNCHANGED <<parity, kind, count, data, pc, m>>
    BY <1>5 DEF vars, matrixVars
  <2>2. Solving' => Solving
    BY <2>1 DEF Solving
  <2>3. CASE Solving
    BY <1>3, <2>1, <2>3
  <2>4. QED BY <2>2, <2>3 DEF KernelInv
<1>6. QED BY <1>1, <1>2, <1>4, <1>5 DEF Next

Changed(v, q, d) == [v EXCEPT ![q] = d]

LEMMA DotChanged ==
  ASSUME NEW R, IsFiniteSet(R), NEW x \in [R -> Element], NEW v \in [R -> Element],
         NEW q \in R, v[q] = Zero, NEW d \in Element
  PROVE  Dot(x, Changed(v, q, d)) = Plus(Dot(x, v), Times(x[q], d))
<1> DEFINE f == [k \in R |-> Times(x[k], v[k])]
           g == [k \in R |-> IF k = q THEN Times(x[q], d) ELSE Zero]
           u == Changed(v, q, d)
           h == [k \in R |-> Times(x[k], u[k])]
<1>1. f \in [R -> Element] /\ g \in [R -> Element]
  <2>1. \A k \in R : Times(x[k], v[k]) \in Element /\ Times(x[q], d) \in Element
    BY TimesFacts
  <2>2. QED BY <2>1, ElementFacts
<1>2. ASSUME NEW k \in R PROVE h[k] = Plus(f[k], g[k])
  <2>1. CASE k = q
    <3>1. f[k] = Zero /\ g[k] = Times(x[q], d) /\ h[k] = Times(x[q], d)
      BY <2>1, TimesZero DEF Changed
    <3>2. QED BY <3>1, PlusFacts
  <2>2. CASE k # q
    <3>1. g[k] = Zero /\ h[k] = f[k]
      BY <2>2 DEF Changed
    <3>2. QED BY <3>1, PlusFacts
  <2>3. QED BY <2>1, <2>2
<1>3. SumOf(g) = Times(x[q], d)
  <2>1. g[q] = Times(x[q], d) /\ \A k \in R \ {q} : g[k] = Zero
    OBVIOUS
  <2> HIDE DEF g
  <2>2. SumOf(g) = g[q]
    BY <1>1, <2>1, SumPick
  <2>3. QED BY <2>1, <2>2
<1>4. h = [k \in R |-> Plus(f[k], g[k])]
  BY <1>2
<1>5. Dot(x, v) = SumOf(f) /\ Dot(x, u) = SumOf(h)
  BY DEF Dot
<1> HIDE DEF f, g, h
<1>6. SumOf(h) = Plus(SumOf(f), SumOf(g))
  BY <1>1, <1>4, SumPlus
<1>7. QED BY <1>3, <1>5, <1>6

\* Without a pivot in column i, the column depends on those before it.
LEMMA BackSubstitution ==
  ASSUME ReducedInv, pc = "pivot", PivotRows = {}
  PROVE  \E v \in [Rows -> Element] :
           IsKernel(m, v) /\ v[i] = One /\ \A c \in Rows : c > i => v[c] = Zero
<1>1. /\ Solving /\ Active /\ m \in [Rows -> [Rows -> Element]] /\ i \in Rows
      /\ EchelonInv /\ ParityInv /\ CoderInv
  BY DEF ReducedInv, MatrixTypes, Solving, Square
<1>2. /\ Cardinality(Missing) \in Nat
      /\ \A r \in Rows : r \in Nat /\ r < Cardinality(Missing)
      /\ \A r \in Nat : r < Cardinality(Missing) => r \in Rows
  BY <1>1, RowTypes
<1>3. IsFiniteSet(Rows)
  BY <1>2, IntervalSize DEF Rows
<1>4. \A r \in Rows : m[r] \in [Rows -> Element]
  BY <1>1
<1> DEFINE Solution(v, l) ==
             /\ v[i] = One /\ \A c \in Rows : c > i \/ c < i - l => v[c] = Zero
             /\ \A r \in Rows : r >= i - l => Dot(m[r], v) = Zero
           Good(l) == l <= i => \E v \in [Rows -> Element] : Solution(v, l)
           D == {l \in Nat : Good(l)}
<1>5. Good(0)
  <2> DEFINE v == [c \in Rows |-> IF c = i THEN One ELSE Zero]
  <2>1. v \in [Rows -> Element] /\ v[i] = One /\ \A c \in Rows : c # i => v[c] = Zero
    BY <1>1, ElementFacts
  <2> HIDE DEF v
  <2>2. ASSUME NEW r \in Rows, r >= i - 0 PROVE Dot(m[r], v) = Zero
    <3>1. m[r][i] = Zero
      <4>1. r >= i /\ r \in DOMAIN m
        BY <1>1, <1>2, <2>2
      <4>2. QED BY <4>1 DEF PivotRows
    <3>2. ASSUME NEW k \in Rows PROVE Times(m[r][k], v[k]) = Zero
      BY <2>1, <3>1, TimesZero
    <3>3. DOMAIN m[r] = Rows
      BY <1>4
    <3>4. QED BY <3>2, <3>3, SumZero DEF Dot
  <2>3. \A c \in Rows : c > i \/ c < i - 0 => c # i
    BY <1>1, <1>2
  <2>4. QED BY <2>1, <2>2, <2>3
<1>6. ASSUME NEW l \in Nat, Good(l) PROVE Good(l + 1)
  <2>1. SUFFICES ASSUME l + 1 <= i PROVE \E v \in [Rows -> Element] : Solution(v, l + 1)
    OBVIOUS
  <2>2. i \in Nat /\ l <= i
    BY <1>1, <1>2, <2>1
  <2>3. PICK v \in [Rows -> Element] : Solution(v, l)
    BY <1>6, <2>2
  <2>4. PICK q \in Rows : q = i - (l + 1)
    <3>1. i - (l + 1) \in Nat /\ i - (l + 1) < Cardinality(Missing)
      BY <1>1, <1>2, <2>1, <2>2
    <3>2. QED BY <1>2, <3>1
  <2>5. q \in Nat /\ q < i /\ q < i - l
    BY <1>2, <2>2, <2>4
  <2>6. m[q][q] = One /\ \A r \in Rows : r > q => m[r][q] = Zero
    BY <1>1, <2>5 DEF EchelonInv
  <2>7. v[q] = Zero
    BY <2>3, <2>5
  <2>8. PICK d \in Element : d = Dot(m[q], v)
    BY SumFacts DEF Dot
  <2>9. PICK u \in [Rows -> Element] : u = Changed(v, q, d)
    BY DEF Changed
  <2>10. \A c \in Rows : u[c] = IF c = q THEN d ELSE v[c]
    BY <2>9 DEF Changed
  <2>11. u[i] = One
    BY <1>1, <2>3, <2>5, <2>10
  <2>12. ASSUME NEW c \in Rows, c > i \/ c < i - (l + 1) PROVE u[c] = Zero
    <3>1. c # q /\ (c > i \/ c < i - l)
      BY <1>2, <2>2, <2>4, <2>12
    <3>2. QED BY <2>3, <2>10, <3>1
  <2>13. ASSUME NEW r \in Rows, r >= i - (l + 1) PROVE Dot(m[r], u) = Zero
    <3>1. Dot(m[r], u) = Plus(Dot(m[r], v), Times(m[r][q], d))
      BY <1>3, <1>4, <2>7, <2>9, DotChanged
    <3>2. CASE r = q
      <4>1. Dot(m[r], u) = Plus(d, Times(One, d))
        BY <2>6, <2>8, <3>1, <3>2
      <4>2. Times(One, d) = d
        BY TimesFacts
      <4>3. QED BY <4>1, <4>2, PlusFacts
    <3>3. CASE r # q
      <4>1. r > q /\ r >= i - l
        BY <1>2, <2>2, <2>4, <2>13, <3>3
      <4>2. Dot(m[r], v) = Zero /\ m[r][q] = Zero
        BY <2>3, <2>6, <4>1
      <4>3. QED BY <3>1, <4>2, TimesZero, PlusFacts
    <3>4. QED BY <3>2, <3>3
  <2>14. QED BY <2>11, <2>12, <2>13
<1> HIDE DEF Good
<1>7. D = Nat
  <2>1. 0 \in D /\ \A l \in D : l + 1 \in D
    BY <1>5, <1>6
  <2>2. D \in SUBSET Nat
    OBVIOUS
  <2> HIDE DEF D
  <2>3. QED BY <2>1, <2>2, Induction
<1>8. Good(i) /\ i \in Nat
  BY <1>1, <1>2, <1>7
<1>9. PICK v \in [Rows -> Element] : Solution(v, i)
  BY <1>8 DEF Good
<1>10. \A r \in Rows : r >= i - i
  BY <1>2, <1>8
<1>11. QED BY <1>9, <1>10 DEF IsKernel

LEMMA UsedRank ==
  ASSUME ParityInv, CoderInv, Enough, NEW r \in UsedParity
  PROVE  Rank(r, UsedParity) \in Rows /\ Nth(Rank(r, UsedParity), UsedParity) = r
<1>1. /\ UsedParity \in SUBSET PresentParity /\ PresentParity \in SUBSET Nat
      /\ IsFiniteSet(UsedParity) /\ IsFiniteSet(PresentParity)
      /\ Cardinality(Missing) \in Nat /\ Cardinality(UsedParity) \in Nat
  BY SetFacts DEF Enough
<1>2. Rank(r, PresentParity) < Cardinality(Missing)
  BY DEF UsedParity, Rank
<1> DEFINE below(S) == {y \in S : y < r}
<1>3. below(UsedParity) \in SUBSET below(PresentParity) /\ below(PresentParity) \in SUBSET PresentParity
  BY <1>1
<1>4. Rank(r, UsedParity) = Cardinality(below(UsedParity)) /\ Rank(r, PresentParity) = Cardinality(below(PresentParity))
  BY DEF Rank
<1> HIDE DEF below
<1>5. IsFiniteSet(below(PresentParity))
  BY <1>1, <1>3, FS_Subset
<1>6. /\ Cardinality(below(UsedParity)) <= Cardinality(below(PresentParity))
      /\ IsFiniteSet(below(UsedParity))
  BY <1>3, <1>5, FS_Subset
<1>7. Cardinality(below(UsedParity)) \in Nat /\ Cardinality(below(PresentParity)) \in Nat
  BY <1>5, <1>6, FS_CardinalityType
<1>8. Rank(r, UsedParity) \in Rows
  BY <1>1, <1>2, <1>4, <1>6, <1>7 DEF Rows
<1>9. UsedParity \in SUBSET Nat
  BY <1>1
<1>10. Nth(Rank(r, UsedParity), UsedParity) = r
  BY <1>1, <1>9, RankFacts
<1>11. QED BY <1>8, <1>10

\* The used rows are dependent on the missing columns up to column i.
Dependent ==
  \E v \in [0 .. i - 1 -> Element] :
    LET kernel(c) == IF c < i THEN v[c] ELSE IF c = i THEN One ELSE Zero
    IN  \A r \in UsedParity :
          SumOf([c \in DOMAIN m |->
                   Times(ParityMatrixAt(r, Nth(c, Missing)), kernel(c))]) = Zero

LEMMA SingularRight ==
  ASSUME ReducedInv, KernelInv, pc = "pivot", PivotRows = {}
  PROVE  Dependent
<1>1. /\ Solving /\ Active /\ m \in [Rows -> [Rows -> Element]] /\ i \in Rows
      /\ ParityInv /\ CoderInv /\ Enough
  BY DEF ReducedInv, MatrixTypes, Solving, Square, Enough
<1>2. PICK v \in [Rows -> Element] :
        IsKernel(m, v) /\ v[i] = One /\ \A c \in Rows : c > i => v[c] = Zero
  BY BackSubstitution
<1>3. IsKernel(Original, v)
  BY <1>1, <1>2 DEF KernelInv
<1>4. /\ \A r \in Rows : r \in Nat /\ r < Cardinality(Missing)
      /\ \A r \in Nat : r < Cardinality(Missing) => r \in Rows
      /\ Cardinality(Missing) \in Nat
  BY <1>1, RowTypes
<1> DEFINE u == [c \in 0 .. i - 1 |-> v[c]]
           kernel(c) == IF c < i THEN u[c] ELSE IF c = i THEN One ELSE Zero
<1>5. u \in [0 .. i - 1 -> Element] /\ \A c \in Rows : kernel(c) = v[c]
  <2>1. \A c \in 0 .. i - 1 : c \in Rows
    BY <1>1, <1>4
  <2>2. ASSUME NEW c \in Rows PROVE kernel(c) = v[c]
    <3>1. c < i => c \in 0 .. i - 1
      BY <1>1, <1>4
    <3>2. c < i \/ c = i \/ c > i
      <4>1. c \in Nat /\ i \in Nat
        BY <1>1, <1>4
      <4>2. QED BY <4>1
    <3>3. ~(c < i) => kernel(c) = IF c = i THEN One ELSE Zero
      OBVIOUS
    <3>4. c < i => kernel(c) = v[c]
      BY <3>1
    <3> HIDE DEF kernel
    <3>5. QED BY <1>2, <3>2, <3>3, <3>4
  <2>3. QED BY <2>1, <2>2
<1> HIDE DEF u, kernel
<1>6. ASSUME NEW r \in UsedParity
      PROVE  SumOf([c \in DOMAIN m |->
                      Times(ParityMatrixAt(r, Nth(c, Missing)), kernel(c))]) = Zero
  <2>1. PICK k \in Rows : Nth(k, UsedParity) = r
    BY <1>1, UsedRank
  <2>2. \A c \in Rows : Original[k][c] = ParityMatrixAt(r, Nth(c, Missing))
    BY <2>1 DEF Original
  <2>3. DOMAIN Original[k] = Rows /\ DOMAIN m = Rows
    BY <1>1 DEF Original
  <2>4. Dot(Original[k], v) = SumOf([c \in Rows |-> Times(ParityMatrixAt(r, Nth(c, Missing)), kernel(c))])
    <3>1. [c \in DOMAIN Original[k] |-> Times(Original[k][c], v[c])] =
            [c \in Rows |-> Times(ParityMatrixAt(r, Nth(c, Missing)), kernel(c))]
      BY <1>5, <2>2, <2>3
    <3>2. QED BY <3>1 DEF Dot
  <2>5. QED BY <1>3, <2>3, <2>4 DEF IsKernel
<1>7. QED BY <1>5, <1>6 DEF Dependent, kernel

-------------------------------------------------------------------------------
(* A Cauchy matrix stays one of its kind, and is never singular. *)

\* A factor that is not zero may be cancelled.
LEMMA TimesCancel ==
  ASSUME NEW x \in Element, NEW y \in Element, NEW v \in Element,
         v # Zero, Times(x, v) = Times(y, v)
  PROVE  x = y
<1>1. Plus(x, y) \in Element /\ Times(Plus(x, y), v) = Plus(Times(x, v), Times(y, v))
  BY Distributive, PlusType
<1>2. Times(Plus(x, y), v) = Zero
  BY <1>1, PlusFacts
<1>3. Plus(x, y) = Zero
  BY <1>1, <1>2, TimesFacts
<1>4. QED BY <1>3, PlusType

\* Exchange of the middle ones of four factors.
LEMMA TimesFour ==
  ASSUME NEW x \in Element, NEW y \in Element, NEW u \in Element, NEW v \in Element
  PROVE  Times(Times(x, y), Times(u, v)) = Times(Times(x, u), Times(y, v))
<1>1. Times(x, y) \in Element /\ Times(u, v) \in Element /\ Times(y, u) \in Element /\ Times(y, v) \in Element
  BY TimesFacts
<1>2. Times(Times(x, y), Times(u, v)) = Times(x, Times(y, Times(u, v)))
  BY <1>1, TimesFacts
<1>3. Times(y, Times(u, v)) = Times(Times(y, u), v) /\ Times(y, u) = Times(u, y)
  BY TimesFacts
<1>4. Times(Times(u, y), v) = Times(u, Times(y, v))
  BY TimesFacts
<1>5. Times(x, Times(u, Times(y, v))) = Times(Times(x, u), Times(y, v))
  BY <1>1, TimesFacts
<1>6. QED BY <1>2, <1>3, <1>4, <1>5

\* The identity behind the elimination in a Cauchy matrix.
LEMMA CrossProduct ==
  ASSUME NEW x \in Element, NEW u \in Element, NEW y \in Element, NEW v \in Element
  PROVE  Plus(Times(Plus(x, v), Plus(u, y)), Times(Plus(x, y), Plus(u, v))) =
           Times(Plus(x, u), Plus(v, y))
<1>1. /\ Times(Plus(x, v), Plus(u, y)) =
           Plus(Plus(Times(x, u), Times(x, y)), Plus(Times(v, u), Times(v, y)))
      /\ Times(Plus(x, y), Plus(u, v)) =
           Plus(Plus(Times(x, u), Times(x, v)), Plus(Times(y, u), Times(y, v)))
      /\ Times(Plus(x, u), Plus(v, y)) =
           Plus(Plus(Times(x, v), Times(x, y)), Plus(Times(u, v), Times(u, y)))
  <2>1. ASSUME NEW a \in Element, NEW b \in Element, NEW c \in Element, NEW d \in Element
        PROVE  Times(Plus(a, b), Plus(c, d)) =
                 Plus(Plus(Times(a, c), Times(a, d)), Plus(Times(b, c), Times(b, d)))
    <3>1. Plus(c, d) \in Element
      BY PlusType
    <3>2. Times(Plus(a, b), Plus(c, d)) = Plus(Times(a, Plus(c, d)), Times(b, Plus(c, d)))
      BY <3>1, Distributive
    <3>3. /\ Times(a, Plus(c, d)) = Plus(Times(a, c), Times(a, d))
          /\ Times(b, Plus(c, d)) = Plus(Times(b, c), Times(b, d))
      BY Distributive
    <3>4. QED BY <3>2, <3>3
  <2>2. QED BY <2>1
<1>2. Times(v, u) = Times(u, v) /\ Times(v, y) = Times(y, v) /\ Times(y, u) = Times(u, y)
  BY TimesFacts
<1>3. ASSUME NEW a, NEW b, NEW c, NEW d, NEW e, NEW f
      PROVE  Plus(Plus(Plus(a, b), Plus(c, d)), Plus(Plus(a, e), Plus(f, d))) =
               Plus(Plus(e, b), Plus(c, f))
  BY DEF Plus
<1>4. QED BY <1>1, <1>2, <1>3

\* Elements p and q of the pivot's row and column, and r of neither, in rows x and u
\* and columns y and v.
OfCauchyForm(x, u, y, v, A, C, B, D, p, q, r) ==
  /\ x \in Element /\ u \in Element /\ y \in Element /\ v \in Element
  /\ A \in Element /\ C \in Element /\ B \in Element /\ D \in Element
  /\ p \in Element /\ q \in Element /\ r \in Element
  /\ Plus(u, y) # Zero
  /\ Plus(x, y) = Times(A, B)
  /\ Times(p, Plus(x, v)) = Times(A, D)
  /\ Times(q, Plus(u, y)) = Times(C, B)
  /\ Times(r, Plus(u, v)) = Times(C, D)

LEMMA CauchyStep ==
  ASSUME NEW x, NEW u, NEW y, NEW v, NEW A, NEW C, NEW B, NEW D, NEW p, NEW q, NEW r,
         OfCauchyForm(x, u, y, v, A, C, B, D, p, q, r)
  PROVE  Times(Times(Plus(r, Times(q, p)), Plus(u, v)), Plus(x, v)) =
           Times(Times(Times(Times(C, Plus(x, u)), InverseOf(Plus(u, y))), D), Plus(v, y))
<1>0. /\ x \in Element /\ u \in Element /\ y \in Element /\ v \in Element
      /\ A \in Element /\ C \in Element /\ B \in Element /\ D \in Element
      /\ p \in Element /\ q \in Element /\ r \in Element
      /\ Plus(u, y) # Zero
      /\ Plus(x, y) = Times(A, B)
      /\ Times(p, Plus(x, v)) = Times(A, D)
      /\ Times(q, Plus(u, y)) = Times(C, B)
      /\ Times(r, Plus(u, v)) = Times(C, D)
  BY DEF OfCauchyForm
<1>1. PICK a, b, e, g, h, k \in Element :
        a = Plus(x, v) /\ b = Plus(u, y) /\ e = Plus(x, y) /\ g = Plus(u, v) /\ h = Plus(x, u) /\ k = Plus(v, y)
  BY <1>0, PlusType
<1>2. PICK z \in Element : z = InverseOf(b) /\ Times(z, b) = One
  BY <1>0, <1>1, InverseFacts DEF NonZero
<1>3. PICK s \in Element : s = Plus(r, Times(q, p)) /\ Times(q, p) \in Element
  <2>1. Times(q, p) \in Element
    BY <1>0, TimesFacts
  <2>2. QED BY <1>0, <2>1, PlusType
<1>4. /\ Times(C, D) \in Element /\ Times(A, B) \in Element /\ Times(C, h) \in Element
      /\ Times(s, g) \in Element /\ Times(Times(s, g), a) \in Element
      /\ Times(a, b) \in Element /\ Times(e, g) \in Element /\ Times(g, a) \in Element
      /\ Times(b, a) \in Element
      /\ Times(h, k) \in Element /\ Times(D, k) \in Element
  BY <1>0, TimesFacts
<1>5. PICK t \in Element : t = Times(g, Times(a, b))
  BY <1>0, <1>4, TimesFacts
<1>6. Times(Times(Times(s, g), a), b) = Times(s, t)
  <2>1. Times(Times(Times(s, g), a), b) = Times(Times(s, g), Times(a, b))
    BY <1>0, <1>4, TimesFacts
  <2>2. Times(Times(s, g), Times(a, b)) = Times(s, Times(g, Times(a, b)))
    BY <1>0, <1>4, TimesFacts
  <2>3. QED BY <1>0, <1>5, <2>1, <2>2
<1>7. Times(s, t) = Plus(Times(r, t), Times(Times(q, p), t))
  BY <1>0, <1>3, Distributive
<1>8. Times(r, t) = Times(Times(C, D), Times(a, b))
  <2>1. Times(r, t) = Times(Times(r, g), Times(a, b))
    BY <1>0, <1>4, <1>5, TimesFacts
  <2>2. QED BY <1>0, <1>1, <2>1
<1>9. Times(Times(q, p), t) = Times(Times(C, D), Times(e, g))
  <2>1. t = Times(Times(b, a), g)
    <3>1. Times(g, Times(a, b)) = Times(Times(a, b), g) /\ Times(a, b) = Times(b, a)
      BY <1>0, <1>4, TimesFacts
    <3>2. QED BY <1>0, <1>5, <3>1
  <2>2. Times(Times(q, p), t) = Times(Times(Times(q, p), Times(b, a)), g)
    BY <1>0, <1>3, <1>4, <2>1, TimesFacts
  <2>3. Times(Times(q, p), Times(b, a)) = Times(Times(C, B), Times(A, D))
    BY <1>0, <1>1, TimesFour
  <2>4. Times(Times(C, B), Times(A, D)) = Times(Times(C, D), Times(A, B))
    <3>1. Times(A, D) = Times(D, A) /\ Times(B, A) = Times(A, B)
      BY <1>0, TimesFacts
    <3>2. Times(Times(C, B), Times(D, A)) = Times(Times(C, D), Times(B, A))
      BY <1>0, TimesFour
    <3>3. QED BY <1>0, <3>1, <3>2
  <2>5. Times(Times(Times(C, D), e), g) = Times(Times(C, D), Times(e, g))
    BY <1>0, <1>4, TimesFacts
  <2>6. QED BY <1>0, <1>1, <2>2, <2>3, <2>4, <2>5
<1>10. Times(s, t) = Times(Times(C, D), Times(h, k))
  <2>1. Plus(Times(a, b), Times(e, g)) = Times(h, k)
    BY <1>0, <1>1, CrossProduct
  <2>2. Times(Times(C, D), Plus(Times(a, b), Times(e, g))) =
          Plus(Times(Times(C, D), Times(a, b)), Times(Times(C, D), Times(e, g)))
    BY <1>0, <1>4, Distributive
  <2>3. QED BY <1>0, <1>7, <1>8, <1>9, <2>1, <2>2
<1>11. PICK w \in Element : w = Times(Times(C, h), z) /\ Times(w, D) \in Element
                            /\ Times(Times(w, D), k) \in Element /\ Times(w, b) = Times(C, h)
  <2>1. PICK w \in Element : w = Times(Times(C, h), z)
    BY <1>0, <1>4, TimesFacts
  <2>2. Times(w, D) \in Element /\ Times(Times(w, D), k) \in Element
    BY <1>0, TimesFacts
  <2>3. Times(w, b) = Times(Times(C, h), Times(z, b))
    BY <1>0, <1>4, <2>1, TimesFacts
  <2>4. Times(Times(C, h), One) = Times(C, h)
    BY <1>0, <1>4, TimesFacts
  <2>5. QED BY <1>0, <1>2, <2>1, <2>2, <2>3, <2>4
<1>12. Times(Times(Times(w, D), k), b) = Times(Times(C, D), Times(h, k))
  <2>1. Times(Times(w, D), k) = Times(w, Times(D, k))
    BY <1>0, TimesFacts
  <2>2. Times(Times(w, Times(D, k)), b) = Times(w, Times(Times(D, k), b))
    BY <1>0, <1>4, TimesFacts
  <2>3. Times(Times(D, k), b) = Times(b, Times(D, k))
    BY <1>0, <1>4, TimesFacts
  <2>4. Times(w, Times(b, Times(D, k))) = Times(Times(w, b), Times(D, k))
    BY <1>0, <1>4, TimesFacts
  <2>5. Times(Times(C, h), Times(D, k)) = Times(Times(C, D), Times(h, k))
    BY <1>0, TimesFour
  <2>6. QED BY <1>0, <1>11, <2>1, <2>2, <2>3, <2>4, <2>5
<1>13. Times(Times(s, g), a) = Times(Times(w, D), k)
  <2>1. Times(Times(s, g), a) \in Element /\ b # Zero
    BY <1>0, <1>1, <1>4
  <2>2. Times(Times(Times(s, g), a), b) = Times(Times(Times(w, D), k), b)
    BY <1>0, <1>6, <1>10, <1>12
  <2>3. QED BY <1>0, <1>11, <2>1, <2>2, TimesCancel
<1>14. QED BY <1>0, <1>1, <1>2, <1>3, <1>11, <1>13

\* The numbers that NewCoderCauchy takes for the rows and columns.
RowElement    == [r \in Rows |-> T(count + Nth(r, UsedParity))]
ColumnElement == [c \in Rows |-> T(Nth(c, Missing))]

LEMMA CauchyElements ==
  ASSUME ParityInv, CoderInv, Enough, kind = "cauchy"
  PROVE  /\ RowElement \in [Rows -> Element] /\ ColumnElement \in [Rows -> Element]
         /\ \A r, s \in Rows : r # s => RowElement[r] # RowElement[s]
         /\ \A c, d \in Rows : c # d => ColumnElement[c] # ColumnElement[d]
         /\ \A r, c \in Rows :
              /\ Plus(RowElement[r], ColumnElement[c]) \in NonZero
              /\ Times(Original[r][c], Plus(RowElement[r], ColumnElement[c])) = One
<1>1. /\ Cardinality(Missing) \in Nat /\ count \in Nat /\ Missing \in SUBSET Columns
      /\ \A c \in Rows : Nth(c, Missing) \in Missing /\ Rank(Nth(c, Missing), Missing) = c
      /\ \A r \in Rows : /\ Nth(r, UsedParity) \in 0 .. Len(parity) - 1
                         /\ Rank(Nth(r, UsedParity), UsedParity) = r
      /\ Len(parity) \in Nat
  BY RowTypes, UsedFacts, SetFacts DEF Enough
<1>2. count + Len(parity) <= Order - 1 /\ Order \in Nat
  <2>1. CoderError(kind, count) = "none"
    BY DEF CoderInv, Enough
  <2>2. QED BY <1>1, <2>1, OrderFacts DEF CoderError
<1>3. ASSUME NEW r \in Rows PROVE count + Nth(r, UsedParity) \in 0 .. Order - 1
  BY <1>1, <1>2
<1>4. ASSUME NEW c \in Rows PROVE Nth(c, Missing) \in Columns /\ Nth(c, Missing) \in 0 .. Order - 1
  <2>1. Nth(c, Missing) \in Columns
    BY <1>1
  <2>2. QED BY <1>1, <1>2, <2>1 DEF Columns
<1>5. RowElement \in [Rows -> Element]
  <2>1. \A r \in Rows : T(count + Nth(r, UsedParity)) \in Element
    BY <1>3, ElementOfNumber
  <2>2. QED BY <2>1 DEF RowElement
<1>6. ColumnElement \in [Rows -> Element]
  <2>1. \A c \in Rows : T(Nth(c, Missing)) \in Element
    BY <1>4, ElementOfNumber
  <2>2. QED BY <2>1 DEF ColumnElement
<1>7. ASSUME NEW r \in Rows, NEW s \in Rows, RowElement[r] = RowElement[s] PROVE r = s
  <2>1. T(count + Nth(r, UsedParity)) = T(count + Nth(s, UsedParity))
    BY <1>7 DEF RowElement
  <2>2. count + Nth(r, UsedParity) = count + Nth(s, UsedParity)
    BY <1>3, <2>1, ElementOfNumber
  <2>3. Nth(r, UsedParity) \in Int /\ Nth(s, UsedParity) \in Int
    BY <1>1
  <2>4. Nth(r, UsedParity) = Nth(s, UsedParity)
    BY <1>1, <2>2, <2>3
  <2>5. QED BY <1>1, <2>4
<1>8. ASSUME NEW c \in Rows, NEW d \in Rows, ColumnElement[c] = ColumnElement[d] PROVE c = d
  <2>1. T(Nth(c, Missing)) = T(Nth(d, Missing))
    BY <1>8 DEF ColumnElement
  <2>2. Nth(c, Missing) = Nth(d, Missing)
    BY <1>4, <2>1, ElementOfNumber
  <2>3. QED BY <1>1, <2>2
<1>9. ASSUME NEW r \in Rows, NEW c \in Rows
      PROVE  /\ Plus(RowElement[r], ColumnElement[c]) \in NonZero
             /\ Times(Original[r][c], Plus(RowElement[r], ColumnElement[c])) = One
  <2>1. /\ RowElement[r] = T(count + Nth(r, UsedParity)) /\ ColumnElement[c] = T(Nth(c, Missing))
        /\ Original[r][c] = ParityMatrixAt(Nth(r, UsedParity), Nth(c, Missing))
    BY DEF RowElement, ColumnElement, Original
  <2>2. /\ T(count + Nth(r, UsedParity)) \in Element /\ T(Nth(c, Missing)) \in Element
        /\ T(count + Nth(r, UsedParity)) # T(Nth(c, Missing))
        /\ Times(ParityMatrixAt(Nth(r, UsedParity), Nth(c, Missing)),
                 Plus(T(count + Nth(r, UsedParity)), T(Nth(c, Missing)))) = One
    BY <1>1, <1>4, MatrixFacts DEF Enough
  <2>3. Plus(T(count + Nth(r, UsedParity)), T(Nth(c, Missing))) \in NonZero
    BY <2>2, PlusType DEF NonZero
  <2>4. QED BY <2>1, <2>2, <2>3
<1>10. QED BY <1>5, <1>6, <1>7, <1>8, <1>9

\* The part of a matrix that is still to be reduced from column p on has elements
\* a(r) * b(c) / (x(r) + y(c)), for a and b that are not zero; the rows before row q
\* that are reduced by row p have b(c) * (y(c) + y(p)) / (x(p) + y(c)) for b(c).
CauchyForm(x, a, b, p, q) ==
  \A r \in Rows, c \in Rows :
    /\ r >= p /\ c >= p /\ ~(p < r /\ r < q) =>
         Times(x[r][c], Plus(RowElement[r], ColumnElement[c])) = Times(a[r], b[c])
    /\ p < r /\ r < q /\ c > p =>
         Times(Times(x[r][c], Plus(RowElement[r], ColumnElement[c])),
               Plus(RowElement[p], ColumnElement[c])) =
           Times(Times(a[r], b[c]), Plus(ColumnElement[c], ColumnElement[p]))

HasCauchyForm(x, p, q) ==
  \E a \in [Rows -> NonZero], b \in [Rows -> NonZero] : CauchyForm(x, a, b, p, q)

CauchyInv ==
  Solving /\ kind = "cauchy" =>
    /\ pc = "pivot" => HasCauchyForm(m, i, i)
    /\ pc = "below" => HasCauchyForm(m, i, j)

LEMMA CauchyFrame ==
  ASSUME UNCHANGED <<parity, kind, count, data>>, NEW x, NEW p, NEW q, HasCauchyForm(x, p, q),
         x = m', p = i'
  PROVE  /\ q = i' => HasCauchyForm(m, i, i)'
         /\ q = j' => HasCauchyForm(m, i, j)'
<1>1. Missing' = Missing /\ UsedParity' = UsedParity /\ Rows' = Rows
  BY Frame
<1>2. RowElement' = RowElement /\ ColumnElement' = ColumnElement
  BY <1>1 DEF RowElement, ColumnElement
<1>3. PICK a \in [Rows -> NonZero], b \in [Rows -> NonZero] : CauchyForm(x, a, b, p, q)
  BY DEF HasCauchyForm
<1>4. ASSUME q = i' PROVE HasCauchyForm(m, i, i)'
  <2>1. CauchyForm(m, a, b, i, i)'
    BY <1>1, <1>2, <1>3, <1>4 DEF CauchyForm
  <2>2. QED BY <1>1, <2>1 DEF HasCauchyForm
<1>5. ASSUME q = j' PROVE HasCauchyForm(m, i, j)'
  <2>1. CauchyForm(m, a, b, i, j)'
    BY <1>1, <1>2, <1>3, <1>5 DEF CauchyForm
  <2>2. QED BY <1>1, <2>1 DEF HasCauchyForm
<1>6. QED BY <1>4, <1>5

LEMMA NonZeroTimes ==
  ASSUME NEW x \in NonZero, NEW y \in NonZero
  PROVE  x \in Element /\ x # Zero /\ Times(x, y) \in NonZero
  BY TimesFacts DEF NonZero

\* There always is a pivot on the diagonal.
LEMMA CauchyDiagonal ==
  ASSUME ReducedInv, CauchyInv, pc = "pivot", kind = "cauchy"
  PROVE  i \in Rows /\ m[i][i] # Zero
<1>1. /\ Solving /\ i \in Rows /\ m \in [Rows -> [Rows -> Element]] /\ Enough
      /\ ParityInv /\ CoderInv
  BY DEF ReducedInv, MatrixTypes, Solving, Square, Enough
<1>2. i \in Nat
  BY <1>1, RowTypes DEF Enough
<1>3. PICK a \in [Rows -> NonZero], b \in [Rows -> NonZero] :
        Times(m[i][i], Plus(RowElement[i], ColumnElement[i])) = Times(a[i], b[i])
  <2>1. PICK a \in [Rows -> NonZero], b \in [Rows -> NonZero] : CauchyForm(m, a, b, i, i)
    BY <1>1 DEF CauchyInv, HasCauchyForm
  <2>2. i >= i /\ ~(i < i)
    BY <1>2
  <2>3. QED BY <1>1, <2>1, <2>2 DEF CauchyForm
<1>4. Times(a[i], b[i]) # Zero
  BY <1>1, NonZeroTimes DEF NonZero
<1>5. QED BY <1>1, <1>3, <1>4, TimesZero

LEMMA CauchyPivot ==
  ASSUME ReducedInv, CauchyInv, Pivot
  PROVE  CauchyInv'
<1>1. SUFFICES ASSUME kind' = "cauchy" PROVE CauchyInv'
  BY DEF CauchyInv
<1>2. ParityInv /\ CoderInv /\ MatrixTypes
  BY DEF ReducedInv
<1>3. /\ i \in Rows /\ i' = i /\ j' = i + 1 /\ pc = "pivot" /\ pc' = "below" /\ kind = "cauchy"
      /\ UNCHANGED <<parity, kind, count, data>>
  BY <1>1, <1>2, PivotShape
<1>4. m[i][i] # Zero
  BY <1>3, CauchyDiagonal
<1>5. PICK z \in NonZero : m' = SwappedScaled(m, i, i, z)
  BY <1>2, <1>4, PivotShape
<1>6. Solving /\ Enough /\ m \in [Rows -> [Rows -> Element]]
  BY <1>2, <1>3 DEF Solving, MatrixTypes, Square, Enough
<1>7. \A r \in Rows : r \in Nat
  BY <1>2, <1>6, RowTypes DEF Enough
<1>8. PICK a \in [Rows -> NonZero], b \in [Rows -> NonZero] :
        \A r \in Rows, c \in Rows : r >= i /\ c >= i =>
          Times(m[r][c], Plus(RowElement[r], ColumnElement[c])) = Times(a[r], b[c])
  <2>1. PICK a \in [Rows -> NonZero], b \in [Rows -> NonZero] : CauchyForm(m, a, b, i, i)
    BY <1>3, <1>6 DEF CauchyInv, HasCauchyForm
  <2>2. \A r \in Rows : ~(i < r /\ r < i)
    BY <1>3, <1>7
  <2>3. QED BY <2>1, <2>2 DEF CauchyForm
<1>9. PICK d \in [Rows -> NonZero] : \A r \in Rows : d[r] = IF r = i THEN Times(z, a[i]) ELSE a[r]
  <2> DEFINE d == [r \in Rows |-> IF r = i THEN Times(z, a[i]) ELSE a[r]]
  <2>1. d \in [Rows -> NonZero]
    BY <1>3, NonZeroTimes
  <2>2. QED BY <2>1
<1>10. ASSUME NEW r \in Rows, NEW c \in Rows, r >= i, c >= i
       PROVE  Times(m'[r][c], Plus(RowElement[r], ColumnElement[c])) = Times(d[r], b[c])
  <2>1. m'[r] = IF r = i THEN Scaled(z, m[i]) ELSE m[r]
    BY <1>5, <1>6 DEF SwappedScaled
  <2>2. Times(m[r][c], Plus(RowElement[r], ColumnElement[c])) = Times(a[r], b[c])
    BY <1>8, <1>10
  <2>3. CASE r = i
    <3>1. m'[r][c] = Times(z, m[r][c])
      <4>1. m[i] \in [Rows -> Element]
        BY <1>3, <1>6
      <4>2. QED BY <2>1, <2>3, <4>1 DEF Scaled
    <3>2. PICK p \in Element : p = Plus(RowElement[r], ColumnElement[c])
      BY <1>2, <1>3, <1>6, CauchyElements DEF NonZero
    <3>3. /\ z \in Element /\ m[r][c] \in Element /\ a[r] \in Element /\ b[c] \in Element
      BY <1>6 DEF NonZero
    <3>4. Times(Times(z, m[r][c]), p) = Times(z, Times(m[r][c], p))
      BY <3>3, TimesFacts
    <3>5. Times(Times(z, a[r]), b[c]) = Times(z, Times(a[r], b[c]))
      BY <3>3, TimesFacts
    <3>6. d[r] = Times(z, a[r])
      BY <1>9, <2>3
    <3>7. QED BY <2>2, <3>1, <3>2, <3>4, <3>5, <3>6
  <2>4. CASE r # i
    BY <1>9, <2>1, <2>2, <2>4
  <2>5. QED BY <2>3, <2>4
<1>11. \A r \in Rows : ~(i < r /\ r < i + 1)
  BY <1>3, <1>7
<1>12. CauchyForm(m', d, b, i, i + 1)
  BY <1>10, <1>11 DEF CauchyForm
<1>13. HasCauchyForm(m, i, j)'
  <2>1. HasCauchyForm(m', i, i + 1)
    BY <1>12 DEF HasCauchyForm
  <2>2. PICK x, p, q : x = m' /\ p = i /\ q = i + 1
    OBVIOUS
  <2>3. HasCauchyForm(x, p, q) /\ p = i' /\ q = j'
    BY <1>3, <2>1, <2>2
  <2>4. QED BY <1>3, <2>2, <2>3, CauchyFrame
<1>14. QED BY <1>3, <1>13 DEF CauchyInv

LEMMA CauchyClear ==
  ASSUME ReducedInv, CauchyInv, ClearBelow
  PROVE  CauchyInv'
<1>1. SUFFICES ASSUME kind' = "cauchy" PROVE CauchyInv'
  BY DEF CauchyInv
<1>2. ParityInv /\ CoderInv /\ MatrixTypes /\ EchelonInv
  BY DEF ReducedInv
<1>3. /\ i \in Rows /\ j \in Rows /\ i' = i /\ j' = j + 1 /\ pc = "below" /\ pc' = "below" /\ i < j
      /\ UNCHANGED <<parity, kind, count, data>> /\ kind = "cauchy"
  BY <1>1, <1>2, ClearShape DEF ClearBelow
<1>4. PICK e \in Element : e = m[j][i] /\ m' = AddedTo(m, j, i, e)
  BY <1>2, ClearShape
<1>5. /\ Solving /\ Enough /\ m \in [Rows -> [Rows -> Element]] /\ m[i][i] = One
  BY <1>2, <1>3 DEF Solving, MatrixTypes, Square, Enough, EchelonInv
<1>6. \A r \in Rows : r \in Nat
  BY <1>2, <1>5, RowTypes DEF Enough
<1>7. PICK a \in [Rows -> NonZero], b \in [Rows -> NonZero] : CauchyForm(m, a, b, i, j)
  BY <1>3, <1>5 DEF CauchyInv, HasCauchyForm
<1>8. /\ RowElement \in [Rows -> Element] /\ ColumnElement \in [Rows -> Element]
      /\ RowElement[i] # RowElement[j]
      /\ Plus(RowElement[j], ColumnElement[i]) \in NonZero
  <2>1. i # j
    BY <1>3, <1>6
  <2>2. QED BY <1>2, <1>3, <1>5, <2>1, CauchyElements
<1> DEFINE new == Times(Times(a[j], Plus(RowElement[i], RowElement[j])),
                        InverseOf(Plus(RowElement[j], ColumnElement[i])))
<1>9. new \in NonZero
  <2>1. Plus(RowElement[i], RowElement[j]) \in NonZero
    BY <1>3, <1>8, PlusType DEF NonZero
  <2>2. Times(a[j], Plus(RowElement[i], RowElement[j])) \in NonZero
    BY <1>3, <2>1, NonZeroTimes
  <2>3. InverseOf(Plus(RowElement[j], ColumnElement[i])) \in NonZero
    BY <1>8, InverseFacts
  <2>4. QED BY <2>2, <2>3, NonZeroTimes
<1>10. PICK d \in [Rows -> NonZero] : \A r \in Rows : d[r] = IF r = j THEN new ELSE a[r]
  <2> DEFINE d == [r \in Rows |-> IF r = j THEN new ELSE a[r]]
  <2> HIDE DEF new
  <2>1. d \in [Rows -> NonZero]
    BY <1>9
  <2>2. QED BY <2>1
<1>11. \A r \in Rows : m'[r] = IF r = j THEN AddedScaled(e, m[i], m[j]) ELSE m[r]
  BY <1>4, <1>5 DEF AddedTo
<1>12. ASSUME NEW r \in Rows, NEW c \in Rows, r >= i, c >= i, ~(i < r /\ r < j + 1)
       PROVE  Times(m'[r][c], Plus(RowElement[r], ColumnElement[c])) = Times(d[r], b[c])
  <2>1. r # j /\ ~(i < r /\ r < j)
    BY <1>3, <1>6, <1>12
  <2>2. Times(m[r][c], Plus(RowElement[r], ColumnElement[c])) = Times(a[r], b[c])
    BY <1>7, <1>12, <2>1 DEF CauchyForm
  <2>3. QED BY <1>10, <1>11, <2>1, <2>2
<1>13. ASSUME NEW r \in Rows, NEW c \in Rows, i < r, r < j + 1, c > i
       PROVE  Times(Times(m'[r][c], Plus(RowElement[r], ColumnElement[c])),
                    Plus(RowElement[i], ColumnElement[c])) =
                Times(Times(d[r], b[c]), Plus(ColumnElement[c], ColumnElement[i]))
  <2>1. CASE r # j
    <3>1. r < j
      BY <1>3, <1>6, <1>13, <2>1
    <3>2. Times(Times(m[r][c], Plus(RowElement[r], ColumnElement[c])),
                Plus(RowElement[i], ColumnElement[c])) =
            Times(Times(a[r], b[c]), Plus(ColumnElement[c], ColumnElement[i]))
      BY <1>7, <1>13, <3>1 DEF CauchyForm
    <3>3. QED BY <1>10, <1>11, <2>1, <3>2
  <2>2. CASE r = j
    <3>1. i >= i /\ c >= i /\ j >= i /\ ~(i < i /\ i < j) /\ ~(i < j /\ j < j)
      BY <1>3, <1>6, <1>13
    <3>2. PICK x, u, y, v, A, C, B, D, p, q, s \in Element :
            /\ x = RowElement[i] /\ u = RowElement[j] /\ y = ColumnElement[i] /\ v = ColumnElement[c]
            /\ A = a[i] /\ C = a[j] /\ B = b[i] /\ D = b[c]
            /\ p = m[i][c] /\ q = m[j][i] /\ s = m[j][c]
      BY <1>3, <1>5, <1>8 DEF NonZero
    <3>3. Plus(u, y) # Zero
      BY <1>8, <3>2 DEF NonZero
    <3>4. Plus(x, y) = Times(A, B)
      <4>1. Times(One, Plus(x, y)) = Times(A, B)
        BY <1>3, <1>5, <1>7, <3>1, <3>2 DEF CauchyForm
      <4>2. Times(One, Plus(x, y)) = Plus(x, y)
        BY PlusType, TimesFacts
      <4>3. QED BY <4>1, <4>2
    <3>5. Times(p, Plus(x, v)) = Times(A, D)
      BY <1>3, <1>7, <3>1, <3>2 DEF CauchyForm
    <3>6. Times(q, Plus(u, y)) = Times(C, B)
      BY <1>3, <1>7, <3>1, <3>2 DEF CauchyForm
    <3>7. Times(s, Plus(u, v)) = Times(C, D)
      BY <1>3, <1>7, <3>1, <3>2 DEF CauchyForm
    <3>8. Times(Times(Plus(s, Times(q, p)), Plus(u, v)), Plus(x, v)) =
            Times(Times(Times(Times(C, Plus(x, u)), InverseOf(Plus(u, y))), D), Plus(v, y))
      <4>1. OfCauchyForm(x, u, y, v, A, C, B, D, p, q, s)
        BY <3>3, <3>4, <3>5, <3>6, <3>7 DEF OfCauchyForm
      <4>2. QED BY <4>1, CauchyStep
    <3>9. m'[r][c] = Plus(s, Times(q, p))
      <4>1. m[i] \in [Rows -> Element]
        BY <1>3, <1>5
      <4>2. AddedScaled(e, m[i], m[j])[c] = Plus(m[j][c], Times(e, m[i][c]))
        BY <4>1 DEF AddedScaled
      <4>3. QED BY <1>4, <1>11, <2>2, <3>2, <4>2
    <3>10. d[r] = Times(Times(C, Plus(x, u)), InverseOf(Plus(u, y)))
      BY <1>10, <2>2, <3>2
    <3>11. QED BY <2>2, <3>2, <3>8, <3>9, <3>10
  <2>3. QED BY <2>1, <2>2
<1>14. CauchyForm(m', d, b, i, j + 1)
  BY <1>12, <1>13 DEF CauchyForm
<1>15. HasCauchyForm(m, i, j)'
  <2>1. HasCauchyForm(m', i, j + 1)
    BY <1>14 DEF HasCauchyForm
  <2>2. PICK x, p, q : x = m' /\ p = i /\ q = j + 1
    OBVIOUS
  <2>3. HasCauchyForm(x, p, q) /\ p = i' /\ q = j'
    BY <1>3, <2>1, <2>2
  <2>4. QED BY <1>3, <2>2, <2>3, CauchyFrame
<1>16. QED BY <1>3, <1>15 DEF CauchyInv

LEMMA CauchyNextPivot ==
  ASSUME ReducedInv, CauchyInv, NextPivot
  PROVE  CauchyInv'
<1>1. SUFFICES ASSUME kind' = "cauchy", pc' = "pivot" PROVE CauchyInv'
  BY DEF CauchyInv, NextPivot
<1>2. ParityInv /\ CoderInv /\ MatrixTypes /\ EchelonInv
  BY DEF ReducedInv
<1>3. /\ i \in Rows /\ i + 1 \in Rows /\ i' = i + 1 /\ pc = "below" /\ j = Cardinality(Missing)
      /\ UNCHANGED <<parity, kind, count, data, m>> /\ kind = "cauchy"
  BY <1>1, <1>2, ColumnSteps DEF NextPivot
<1>4. Solving /\ Enough /\ m \in [Rows -> [Rows -> Element]]
  BY <1>2, <1>3 DEF Solving, MatrixTypes, Square, Enough
<1>5. \A r \in Rows : r \in Nat /\ r < j
  BY <1>2, <1>3, <1>4, RowTypes DEF Enough
<1>6. PICK a \in [Rows -> NonZero], b \in [Rows -> NonZero] : CauchyForm(m, a, b, i, j)
  BY <1>3, <1>4 DEF CauchyInv, HasCauchyForm
<1>7. /\ RowElement \in [Rows -> Element] /\ ColumnElement \in [Rows -> Element]
      /\ \A c \in Rows : c # i => ColumnElement[c] # ColumnElement[i]
      /\ \A r, c \in Rows : Plus(RowElement[r], ColumnElement[c]) \in NonZero
  BY <1>2, <1>3, <1>4, CauchyElements
<1> DEFINE new(c) == Times(Times(b[c], Plus(ColumnElement[c], ColumnElement[i])),
                           InverseOf(Plus(RowElement[i], ColumnElement[c])))
<1>8. ASSUME NEW c \in Rows, c > i PROVE new(c) \in NonZero
  <2>1. c # i
    BY <1>3, <1>5, <1>8
  <2>2. Plus(ColumnElement[c], ColumnElement[i]) \in NonZero
    BY <1>3, <1>7, <2>1, PlusType DEF NonZero
  <2>3. Times(b[c], Plus(ColumnElement[c], ColumnElement[i])) \in NonZero
    BY <2>2, NonZeroTimes
  <2>4. InverseOf(Plus(RowElement[i], ColumnElement[c])) \in NonZero
    BY <1>3, <1>7, InverseFacts
  <2>5. QED BY <2>3, <2>4, NonZeroTimes
<1>9. PICK d \in [Rows -> NonZero] : \A c \in Rows : c > i => d[c] = new(c)
  <2> DEFINE d == [c \in Rows |-> IF c > i THEN new(c) ELSE b[c]]
  <2> HIDE DEF new
  <2>1. d \in [Rows -> NonZero]
    BY <1>8
  <2>2. QED BY <2>1
<1>10. ASSUME NEW r \in Rows, NEW c \in Rows, r >= i + 1, c >= i + 1
       PROVE  Times(m[r][c], Plus(RowElement[r], ColumnElement[c])) = Times(a[r], d[c])
  <2>1. i < r /\ r < j /\ c > i
    BY <1>3, <1>5, <1>10
  <2>2. PICK x, p, s, k, A, B, D \in Element :
          /\ x = m[r][c] /\ p = Plus(RowElement[r], ColumnElement[c])
          /\ s = Plus(RowElement[i], ColumnElement[c]) /\ k = Plus(ColumnElement[c], ColumnElement[i])
          /\ A = a[r] /\ B = b[c] /\ D = d[c]
    BY <1>3, <1>4, <1>7, PlusType DEF NonZero
  <2>3. s \in NonZero
    BY <1>3, <1>7, <2>2
  <2>4. Times(Times(x, p), s) = Times(Times(A, B), k)
    BY <1>6, <2>1, <2>2 DEF CauchyForm
  <2>5. Times(D, s) = Times(B, k)
    <3>1. D = Times(Times(B, k), InverseOf(s))
      BY <1>9, <2>1, <2>2
    <3>2. InverseOf(s) \in Element /\ Times(InverseOf(s), s) = One /\ Times(B, k) \in Element
      BY <2>3, InverseFacts, TimesFacts DEF NonZero
    <3>3. Times(Times(Times(B, k), InverseOf(s)), s) = Times(Times(B, k), Times(InverseOf(s), s))
      BY <3>2, TimesFacts
    <3>4. Times(Times(B, k), One) = Times(B, k)
      BY <3>2, TimesFacts
    <3>5. QED BY <3>1, <3>2, <3>3, <3>4
  <2>6. Times(Times(A, D), s) = Times(Times(A, B), k)
    <3>1. Times(Times(A, D), s) = Times(A, Times(D, s))
      BY TimesFacts
    <3>2. Times(Times(A, B), k) = Times(A, Times(B, k))
      BY TimesFacts
    <3>3. QED BY <2>5, <3>1, <3>2
  <2>7. Times(x, p) \in Element /\ Times(A, D) \in Element /\ s # Zero
    BY <2>3, TimesFacts DEF NonZero
  <2>8. Times(x, p) = Times(A, D)
    BY <2>4, <2>6, <2>7, TimesCancel
  <2>9. QED BY <2>2, <2>8
<1>11. \A r \in Rows : ~(i + 1 < r /\ r < i + 1)
  BY <1>3, <1>5
<1>12. CauchyForm(m, a, d, i + 1, i + 1)
  BY <1>10, <1>11 DEF CauchyForm
<1>13. HasCauchyForm(m, i, i)'
  <2>1. HasCauchyForm(m, i + 1, i + 1)
    BY <1>12 DEF HasCauchyForm
  <2>2. PICK x, p : x = m /\ p = i + 1
    OBVIOUS
  <2>3. HasCauchyForm(x, p, p) /\ p = i' /\ x = m'
    BY <1>3, <2>1, <2>2
  <2>4. QED BY <1>3, <2>3, CauchyFrame
<1>14. QED BY <1>1, <1>13 DEF CauchyInv

LEMMA CauchyNext ==
  ASSUME ReducedInv, CauchyInv, [Next]_vars
  PROVE  CauchyInv'
<1>1. ParityInv /\ CoderInv /\ MatrixTypes
  BY DEF ReducedInv
<1>2. CASE PlacePacket \/ NewCoder \/ Store \/ Singular \/ (ReconstructData /\ pc' = "done")
  BY <1>1, <1>2, NotSolving DEF CauchyInv
<1>3. CASE ReconstructData /\ pc' # "done"
  <2>1. SUFFICES ASSUME kind' = "cauchy" PROVE CauchyInv'
    BY DEF CauchyInv
  <2>2. /\ Enough /\ UNCHANGED <<parity, kind, count, data>> /\ kind = "cauchy"
        /\ m' = Original /\ i' = 0 /\ pc' = "pivot"
    BY <1>1, <1>3, <2>1, MatricesMade
  <2>3. PICK a \in [Rows -> NonZero] : \A r \in Rows : a[r] = One
    <3>1. [r \in Rows |-> One] \in [Rows -> NonZero]
      BY ElementFacts DEF NonZero
    <3>2. QED BY <3>1
  <2>4. Times(One, One) = One
    BY ElementFacts, TimesFacts
  <2>5. \A r, c \in Rows : Times(Original[r][c], Plus(RowElement[r], ColumnElement[c])) = One
    BY <1>1, <2>2, CauchyElements
  <2>6. \A r \in Rows : ~(0 < r /\ r < 0)
    BY <1>1, <2>2, RowTypes DEF Enough
  <2>7. CauchyForm(Original, a, a, 0, 0)
    BY <2>3, <2>4, <2>5, <2>6 DEF CauchyForm
  <2>8. HasCauchyForm(Original, 0, 0)
    BY <2>3, <2>7 DEF HasCauchyForm
  <2>9. PICK x, p : x = Original /\ p = 0
    OBVIOUS
  <2>10. HasCauchyForm(x, p, p) /\ p = i' /\ x = m'
    BY <2>2, <2>8, <2>9
  <2>11. HasCauchyForm(m, i, i)'
    BY <2>2, <2>10, CauchyFrame
  <2>12. QED BY <2>2, <2>11 DEF CauchyInv
<1>4. CASE ClearAbove \/ NextColumn
  <2>1. pc' = "above"
    BY <1>4 DEF ClearAbove, ClearRow, NextColumn
  <2>2. QED BY <2>1 DEF CauchyInv
<1>5. CASE UNCHANGED vars
  <2>1. UNCHANGED <<parity, kind, count, data, pc, m, i, j>>
    BY <1>5 DEF vars, matrixVars
  <2>2. SUFFICES ASSUME Solving', kind' = "cauchy" PROVE CauchyInv'
    BY DEF CauchyInv
  <2>3. Solving /\ kind = "cauchy"
    BY <2>1, <2>2 DEF Solving
  <2>4. PICK x, p, q : x = m /\ p = i /\ q = j
    OBVIOUS
  <2>5. CASE pc = "pivot"
    <3>1. HasCauchyForm(x, p, p) /\ p = i' /\ x = m'
      BY <2>1, <2>3, <2>4, <2>5 DEF CauchyInv
    <3>2. HasCauchyForm(m, i, i)'
      BY <2>1, <3>1, CauchyFrame
    <3>3. QED BY <2>1, <2>5, <3>2 DEF CauchyInv
  <2>6. CASE pc = "below"
    <3>1. HasCauchyForm(x, p, q) /\ p = i' /\ x = m' /\ q = j'
      BY <2>1, <2>3, <2>4, <2>6 DEF CauchyInv
    <3>2. HasCauchyForm(m, i, j)'
      BY <2>1, <3>1, CauchyFrame
    <3>3. QED BY <2>1, <2>6, <3>2 DEF CauchyInv
  <2>7. QED BY <2>1, <2>5, <2>6 DEF CauchyInv
<1>6. QED BY <1>2, <1>3, <1>4, <1>5, CauchyPivot, CauchyClear, CauchyNextPivot DEF Next

LEMMA DependentKept ==
  ASSUME UNCHANGED <<parity, kind, count, data, m, i>>, Dependent
  PROVE  Dependent'
<1>1. Missing' = Missing /\ UsedParity' = UsedParity
  BY Frame
<1>2. \A r, c : ParityMatrixAt(r, Nth(c, Missing))' = ParityMatrixAt(r, Nth(c, Missing))
  BY <1>1 DEF ParityMatrixAt
<1> DEFINE kernel(v, c) == IF c < i THEN v[c] ELSE IF c = i THEN One ELSE Zero
           term(v, r) == [c \in DOMAIN m |-> Times(ParityMatrixAt(r, Nth(c, Missing)), kernel(v, c))]
<1>3. PICK v \in [0 .. i - 1 -> Element] : \A r \in UsedParity : SumOf(term(v, r)) = Zero
  BY DEF Dependent
<1>4. \A r \in UsedParity' : SumOf(term(v, r))' = Zero
  <2>1. ASSUME NEW r \in UsedParity' PROVE SumOf(term(v, r))' = Zero
    <3>1. SumOf(term(v, r)) = Zero
      BY <1>1, <1>3
    <3>2. term(v, r)' = term(v, r)
      BY <1>2
    <3> HIDE DEF term
    <3>3. SumOf(term(v, r))' = SumOf(term(v, r))
      BY <3>2 DEF SumOf
    <3>4. QED BY <3>1, <3>3
  <2>2. QED BY <2>1
<1>5. v \in [0 .. i - 1 -> Element]'
  OBVIOUS
<1>6. QED BY <1>4, <1>5 DEF Dependent

RefusedParts ==
  /\ result = "singular" => kind = "par2" /\ Dependent
  /\ result = "notEnough" => Cardinality(PresentParity) < Cardinality(Missing)

LEMMA RefusedNext ==
  ASSUME ReducedInv, KernelInv, CauchyInv, RefusedParts, [Next]_vars
  PROVE  RefusedParts'
<1>1. ParityInv /\ CoderInv /\ MatrixTypes
  BY DEF ReducedInv
<1>2. CASE PlacePacket \/ NewCoder \/ Store
  <2>1. CASE PlacePacket
    <3>1. result = "none" /\ result' \in {"none", "panic"}
      BY <1>1, <2>1 DEF PlacePacket, CoderInv
    <3>2. QED BY <3>1 DEF RefusedParts
  <2>2. CASE NewCoder
    <3>1. result' \in {"noParity", "tooManyShards", "none"}
      BY <2>2 DEF NewCoder, CoderError
    <3>2. QED BY <3>1 DEF RefusedParts
  <2>3. CASE Store
    BY <2>3 DEF Store, RefusedParts
  <2>4. QED BY <1>2, <2>1, <2>2, <2>3
<1>3. CASE ReconstructData
  <2>1. pc = "reconstruct" /\ result = "none" /\ UNCHANGED <<parity, kind, count, data>> /\ Active
    BY <1>1, <1>3 DEF ReconstructData, CoderInv, Active
  <2>2. /\ result' \in {"none", "nothingToDo", "notEnough"}
        /\ result' = "notEnough" => Cardinality(UsedParity) < Cardinality(Missing)
    BY <1>3, <2>1 DEF ReconstructData, Refuse
  <2>3. result' = "notEnough" => Cardinality(PresentParity) < Cardinality(Missing)
    BY <1>1, <2>1, <2>2, NotEnough
  <2>4. QED BY <2>1, <2>2, <2>3, Frame DEF RefusedParts
<1>4. CASE Singular
  <2>1. /\ pc = "pivot" /\ PivotRows = {} /\ result' = "singular"
        /\ UNCHANGED <<parity, kind, count, data, m, i>>
    BY <1>4 DEF Singular, Refuse, matrixVars
  <2>2. Dependent'
    BY <2>1, SingularRight, DependentKept
  <2>3. /\ Solving /\ Active /\ kind \in {"par2", "cauchy"} /\ i \in Rows
        /\ m \in [Rows -> [Rows -> Element]]
    BY <1>1, <2>1 DEF Solving, MatrixTypes, CoderInv, Square
  <2>4. kind # "cauchy"
    <3>1. SUFFICES ASSUME kind = "cauchy" PROVE FALSE
      OBVIOUS
    <3>2. m[i][i] # Zero
      BY <2>1, <3>1, CauchyDiagonal
    <3>3. i \in Nat /\ i >= i
      BY <1>1, <2>3, RowTypes
    <3>4. i \in PivotRows
      BY <2>3, <3>2, <3>3 DEF PivotRows
    <3>5. QED BY <2>1, <3>4
  <2>5. QED BY <2>1, <2>2, <2>3, <2>4 DEF RefusedParts
<1>5. CASE Pivot \/ ClearBelow \/ NextPivot \/ ClearAbove \/ NextColumn
  <2>1. pc' # "done"
    BY <1>5 DEF Pivot, ClearBelow, NextPivot, ClearAbove, NextColumn, ClearRow
  <2>2. result' \in {"none", "singular"} /\ (pc' = "done" <=> result' = "singular")
    BY <1>1, <1>5, SolvingSteps
  <2>3. QED BY <2>1, <2>2 DEF RefusedParts
<1>6. CASE UNCHANGED vars
  <2>1. UNCHANGED <<parity, kind, count, data, m, i, result>>
    BY <1>6 DEF vars, matrixVars
  <2>2. result' = "singular" => kind' = "par2" /\ Dependent'
    BY <2>1, DependentKept DEF RefusedParts
  <2>3. QED BY <2>1, <2>2, Frame DEF RefusedParts
<1>7. QED BY <1>2, <1>3, <1>4, <1>5, <1>6 DEF Next

\* ReconstructData refuses for want of parity shards only when fewer of them were
\* read than data shards are missing; it reports a singular matrix only when the
\* missing columns of the rows it chose are dependent, and never for a Cauchy
\* matrix, of which each square part has an inverse.
THEOREM RefusesRightly == Spec => []RefusedRightly
<1>1. Init => KernelInv /\ CauchyInv /\ RefusedParts
  <2>1. Init => ~Solving /\ result = "none"
    BY DEF Init, Solving
  <2>2. QED BY <2>1 DEF KernelInv, CauchyInv, RefusedParts
<1>2. ReducedInv /\ KernelInv /\ CauchyInv /\ RefusedParts /\ [Next]_vars
        => (KernelInv /\ CauchyInv /\ RefusedParts)'
  <2>1. ReducedInv => ParityInv /\ CoderInv /\ MatrixTypes
    BY DEF ReducedInv
  <2>2. QED BY <2>1, KernelNext, CauchyNext, RefusedNext
<1>3. RefusedParts => RefusedRightly
  BY DEF RefusedParts, RefusedRightly, Dependent
<1>4. QED BY <1>1, <1>2, <1>3, ReducedHolds, PTL DEF Spec
===============================================================================
