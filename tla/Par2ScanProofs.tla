---------------------------- MODULE Par2ScanProofs ----------------------------
(***************************************************************************)
(* Proofs about Crc32Window, for all widths, polynomials, windows and      *)
(* bytes, and about Par2Scan, for all files and sets of known slices.  The *)
(* argument is that of the comment in crc32Window.update: the checksum is  *)
(* what a register holds that every byte moves on, and a step of it is     *)
(* linear over exclusive or.                                               *)
(***************************************************************************)
EXTENDS Par2Scan, FiniteSetTheorems, WellFoundedInduction, TLAPS

(* Numbers and recursion. *)

Below == {pair \in Nat \X Nat : pair[1] < pair[2]}

LEMMA LeastNatural ==
  ASSUME NEW T \in SUBSET Nat, T # {}
  PROVE  \E x \in T : \A y \in T : x <= y
<1>1. IsWellFoundedOn(Below, Nat)
  BY NatLessThanWellFounded DEF OpToRel, Below
<1>2. PICK x \in T : \A y \in T : <<y, x>> \notin Below
  BY <1>1, WFMin, Zenon
<1>3. ASSUME NEW y \in T PROVE x <= y
  <2>1. ~(y < x)
    BY <1>2, x \in Nat, y \in Nat DEF Below
  <2>2. QED BY <2>1, x \in Nat, y \in Nat, SMT
<1>4. QED BY <1>3

\* Induction: a set of numbers with 0 and the successor of each has them all.
LEMMA Induction ==
  ASSUME NEW S \in SUBSET Nat, 0 \in S, \A n \in S : n + 1 \in S
  PROVE  S = Nat
<1>1. SUFFICES ASSUME Nat \ S # {} PROVE FALSE
  OBVIOUS
<1>2. PICK x \in Nat \ S : \A y \in Nat \ S : x <= y
  BY <1>1, LeastNatural
<1>3. x - 1 \in Nat /\ x - 1 \notin Nat \ S
  BY <1>2
<1>4. QED BY <1>2, <1>3

\* A function over 0 .. n can be defined by a value at 0 and a step.
IsRecursive(f, S, c, n, step) ==
  /\ f \in [0 .. n -> S]
  /\ f[0] = c
  /\ \A k \in 1 .. n : f[k] = step[<<k, f[k - 1]>>]

LEMMA Recursion ==
  ASSUME NEW S, NEW c \in S, NEW n \in Nat, NEW step \in [(1 .. n) \X S -> S]
  PROVE  \E f : IsRecursive(f, S, c, n, step)
<1> DEFINE D == {m \in Nat : m <= n => \E f : IsRecursive(f, S, c, m, step)}
<1>1. 0 \in D
  <2>1. IsRecursive([k \in 0 .. 0 |-> c], S, c, 0, step)
    BY DEF IsRecursive
  <2>2. QED BY <2>1
<1>2. ASSUME NEW m \in D PROVE m + 1 \in D
  <2>1. SUFFICES ASSUME m + 1 <= n PROVE \E f : IsRecursive(f, S, c, m + 1, step)
    OBVIOUS
  <2>2. PICK f : IsRecursive(f, S, c, m, step)
    BY <2>1
  <2> DEFINE new == step[<<m + 1, f[m]>>]
             g   == [k \in 0 .. m + 1 |-> IF k = m + 1 THEN new ELSE f[k]]
  <2>3. new \in S
    BY <2>1, <2>2 DEF IsRecursive
  <2>4. g \in [0 .. m + 1 -> S] /\ g[0] = c
    BY <2>2, <2>3 DEF IsRecursive
  <2>5. ASSUME NEW k \in 1 .. m + 1 PROVE g[k] = step[<<k, g[k - 1]>>]
    <3>1. CASE k = m + 1
      <4>1. g[k] = new /\ g[k - 1] = f[m]
        BY <3>1
      <4>2. QED BY <3>1, <4>1
    <3>2. CASE k # m + 1
      <4>1. k \in 1 .. m /\ g[k] = f[k] /\ g[k - 1] = f[k - 1]
        BY <3>2
      <4>2. QED BY <2>2, <4>1 DEF IsRecursive
    <3>3. QED BY <3>1, <3>2
  <2> HIDE DEF g
  <2>6. IsRecursive(g, S, c, m + 1, step)
    BY <2>4, <2>5 DEF IsRecursive
  <2>7. QED BY <2>6
<1>3. D = Nat
  <2> HIDE DEF D
  <2>1. D \in SUBSET Nat
    BY DEF D
  <2>2. QED BY <1>1, <1>2, <2>1, Induction
<1>4. n \in D
  BY <1>3
<1>5. QED BY <1>4

-------------------------------------------------------------------------------
(* Exclusive or. *)

State == SUBSET CrcBits

LEMMA XorFacts ==
  ASSUME NEW x, NEW y, NEW z
  PROVE  /\ Xor(x, y) = Xor(y, x)
         /\ Xor(Xor(x, y), z) = Xor(x, Xor(y, z))
         /\ Xor(x, x) = {} /\ Xor(x, {}) = x
  BY DEF Xor

\* Exchange of the middle ones of four.
LEMMA XorSwap ==
  ASSUME NEW x, NEW y, NEW u, NEW v
  PROVE  Xor(Xor(x, y), Xor(u, v)) = Xor(Xor(x, u), Xor(y, v))
  BY DEF Xor

LEMMA Widths ==
  /\ ByteBits \in Nat \ {0} /\ CrcBytes \in Nat \ {0}
  /\ CrcBytes * ByteBits \in Nat /\ ByteBits <= CrcBytes * ByteBits
<1>1. ByteBits \in Nat \ {0} /\ CrcBytes \in Nat \ {0}
  BY CrcAssumption
<1>2. \A m, b \in Nat \ {0} : m * b \in Nat /\ b <= m * b
  OBVIOUS
<1>3. QED BY <1>1, <1>2

LEMMA ByteTypes ==
  /\ Byte \subseteq State
  /\ {} \in Byte /\ 0 .. ByteBits - 1 \in Byte
  /\ \A b \in 0 .. ByteBits - 1 : {b} \in Byte
  /\ \A x, y \in Byte : Xor(x, y) \in Byte
<1>1. 0 .. ByteBits - 1 \subseteq CrcBits
  BY Widths DEF CrcBits
<1>2. QED BY <1>1 DEF Byte, State, Xor

LEMMA StateTypes ==
  ASSUME NEW x \in State, NEW y \in State
  PROVE  /\ Xor(x, y) \in State /\ Not(x) \in State /\ LowByte(x) \in Byte
         /\ Not(x) = Xor(CrcBits, x) /\ Not(Not(x)) = x
<1>1. LowByte(x) \in Byte
  <2>1. ASSUME NEW k \in LowByte(x) PROVE k \in 0 .. ByteBits - 1
    <3>1. k \in CrcBits /\ k < ByteBits
      BY DEF LowByte, State
    <3>2. QED BY <3>1, Widths DEF CrcBits
  <2>2. QED BY <2>1 DEF Byte
<1>2. QED BY <1>1 DEF Xor, Not, State

LEMMA ShiftFacts ==
  ASSUME NEW x \in State, NEW y \in State, NEW n \in Nat
  PROVE  /\ Shift(x, n) \in State
         /\ Shift(Xor(x, y), n) = Xor(Shift(x, n), Shift(y, n))
         /\ \A k \in Nat : k \in Shift(x, n) <=> k + n \in x
<1>1. \A u \in State : Shift(u, n) \in SUBSET Nat /\ \A k \in Nat : k \in Shift(u, n) <=> k + n \in u
  BY DEF Shift, State, CrcBits
<1>2. Shift(x, n) \in State
  BY Widths DEF Shift, State, CrcBits
<1>3. Xor(x, y) \in State
  BY StateTypes
<1> HIDE DEF State
<1>4. \A k \in Nat : k \in Shift(Xor(x, y), n) <=> k \in Xor(Shift(x, n), Shift(y, n))
  BY <1>1, <1>3 DEF Xor
<1>5. Xor(Shift(x, n), Shift(y, n)) \in SUBSET Nat
  BY <1>1 DEF Xor
<1>6. Shift(Xor(x, y), n) \in SUBSET Nat
  BY <1>1, <1>3
<1>7. Shift(Xor(x, y), n) = Xor(Shift(x, n), Shift(y, n))
  BY <1>4, <1>5, <1>6
<1>8. QED BY <1>1, <1>2, <1>7

LEMMA LowByteXor ==
  ASSUME NEW x, NEW y
  PROVE  LowByte(Xor(x, y)) = Xor(LowByte(x), LowByte(y))
  BY DEF LowByte, Xor

\* The table of Go's hash/crc32 is additive.
LEMMA TableFacts ==
  /\ Table \in [Byte -> State]
  /\ \A x, y \in Byte : Table[Xor(x, y)] = Xor(Table[x], Table[y])
<1> DEFINE step(x) == IF 0 \in x THEN Xor(Shift(x, 1), Polynomial) ELSE Shift(x, 1)
           Fits(f) == f = [n \in 0 .. ByteBits |->
                             [byte \in Byte |-> IF n = 0 THEN byte ELSE step(f[n - 1][byte])]]
           Functions == [Byte -> State]
           next == [p \in (1 .. ByteBits) \X Functions |-> [byte \in Byte |-> step(p[2][byte])]]
           start == [byte \in Byte |-> byte]
<1>1. Polynomial \in State
  BY CrcAssumption DEF State
<1>2. ASSUME NEW x \in State PROVE step(x) \in State
  <2>1. Shift(x, 1) \in State
    BY ShiftFacts
  <2>2. QED BY <1>1, <2>1, StateTypes
<1>3. ASSUME NEW x \in State, NEW y \in State PROVE step(Xor(x, y)) = Xor(step(x), step(y))
  <2>1. Shift(Xor(x, y), 1) = Xor(Shift(x, 1), Shift(y, 1))
    BY ShiftFacts
  <2>2. 0 \in Xor(x, y) <=> ~(0 \in x <=> 0 \in y)
    BY DEF Xor
  <2>3. \A u, v, p : /\ Xor(Xor(u, p), Xor(v, p)) = Xor(u, v)
                     /\ Xor(Xor(u, p), v) = Xor(Xor(u, v), p)
                     /\ Xor(u, Xor(v, p)) = Xor(Xor(u, v), p)
    BY DEF Xor
  <2>4. QED BY <2>1, <2>2, <2>3
<1> HIDE DEF step
<1>4. \E f : Fits(f)
  <2>1. start \in Functions
    BY ByteTypes
  <2>2. next \in [(1 .. ByteBits) \X Functions -> Functions]
    <3>1. \A s \in Functions : [byte \in Byte |-> step(s[byte])] \in Functions
      BY <1>2
    <3>2. QED BY <3>1
  <2>3. ByteBits \in Nat
    BY Widths
  <2> HIDE DEF next, start, Functions
  <2>4. PICK f : IsRecursive(f, Functions, start, ByteBits, next)
    BY <2>1, <2>2, <2>3, Recursion
  <2>5. ASSUME NEW n \in 0 .. ByteBits
        PROVE  f[n] = [byte \in Byte |-> IF n = 0 THEN byte ELSE step(f[n - 1][byte])]
    <3>1. CASE n = 0
      BY <2>4, <3>1 DEF start, IsRecursive
    <3>2. CASE n # 0
      <4>1. n \in 1 .. ByteBits /\ n - 1 \in 0 .. ByteBits
        BY <2>3, <3>2
      <4>2. f[n] = next[<<n, f[n - 1]>>] /\ f[n - 1] \in Functions
        BY <2>4, <4>1 DEF IsRecursive
      <4>3. next[<<n, f[n - 1]>>] = [byte \in Byte |-> step(f[n - 1][byte])]
        BY <4>1, <4>2 DEF next, Functions
      <4>4. QED BY <3>2, <4>2, <4>3
    <3>3. QED BY <3>1, <3>2
  <2>6. Fits(f)
    BY <2>4, <2>5 DEF IsRecursive
  <2>7. QED BY <2>6
<1>5. Table = (CHOOSE f : Fits(f))[ByteBits]
  BY DEF Table, step
<1>6. PICK f : Fits(f) /\ Table = f[ByteBits]
  BY <1>4, <1>5
<1>6a. ASSUME NEW m \in 0 .. ByteBits
       PROVE  f[m] = [byte \in Byte |-> IF m = 0 THEN byte ELSE step(f[m - 1][byte])]
  <2> DEFINE whole == [n \in 0 .. ByteBits |->
                        [byte \in Byte |-> IF n = 0 THEN byte ELSE step(f[n - 1][byte])]]
  <2>1. whole[m] = [byte \in Byte |-> IF m = 0 THEN byte ELSE step(f[m - 1][byte])]
    OBVIOUS
  <2>2. f = whole
    BY <1>6
  <2> HIDE DEF whole
  <2>3. QED BY <2>1, <2>2
<1> DEFINE Additive(g) == /\ g \in Functions
                          /\ \A x, y \in Byte : g[Xor(x, y)] = Xor(g[x], g[y])
           D == {n \in Nat : n <= ByteBits => Additive(f[n])}
<1>7. 0 \in D
  <2>1. f[0] = [byte \in Byte |-> byte]
    BY <1>6, Widths
  <2>2. Additive(f[0])
    BY <2>1, ByteTypes
  <2>3. QED BY <2>2
<1>8. ASSUME NEW n \in D PROVE n + 1 \in D
  <2>1. SUFFICES ASSUME n + 1 <= ByteBits PROVE Additive(f[n + 1])
    OBVIOUS
  <2>2. Additive(f[n]) /\ n + 1 \in 0 .. ByteBits /\ n + 1 - 1 = n /\ n + 1 # 0
    BY <2>1, Widths
  <2>3. f[n + 1] = [byte \in Byte |-> step(f[n][byte])]
    <3>1. f[n + 1] = [byte \in Byte |-> IF n + 1 = 0 THEN byte ELSE step(f[n + 1 - 1][byte])]
      BY <2>2, <1>6a
    <3>2. QED BY <2>2, <3>1
  <2>4. \A byte \in Byte : f[n][byte] \in State
    BY <2>2
  <2>5. \A byte \in Byte : step(f[n][byte]) \in State
    BY <1>2, <2>4
  <2>6. f[n + 1] \in Functions
    BY <2>3, <2>5
  <2>7. ASSUME NEW x \in Byte, NEW y \in Byte
        PROVE  f[n + 1][Xor(x, y)] = Xor(f[n + 1][x], f[n + 1][y])
    <3>1. Xor(x, y) \in Byte
      BY ByteTypes
    <3>2. f[n][Xor(x, y)] = Xor(f[n][x], f[n][y])
      BY <2>2
    <3>3. step(Xor(f[n][x], f[n][y])) = Xor(step(f[n][x]), step(f[n][y]))
      BY <1>3, <2>4
    <3>4. QED BY <2>3, <3>1, <3>2, <3>3
  <2>8. QED BY <2>6, <2>7
<1>9. D = Nat
  <2> HIDE DEF D
  <2>1. D \in SUBSET Nat
    BY DEF D
  <2>2. QED BY <1>7, <1>8, <2>1, Induction
<1>10. Additive(f[ByteBits])
  BY <1>9, Widths
<1>11. QED BY <1>6, <1>10

-------------------------------------------------------------------------------
(* The register: the complement of a checksum. *)

Moved(t, byte) == Xor(Table[Xor(LowByte(t), byte)], Shift(t, ByteBits))

IsRun(f, t, a, n) ==
  /\ f \in [0 .. n -> State]
  /\ f[0] = t
  /\ \A k \in 1 .. n : f[k] = Moved(f[k - 1], a[k])

LEMMA MovedFacts ==
  ASSUME NEW t \in State, NEW u \in State, NEW x \in Byte, NEW y \in Byte
  PROVE  /\ Moved(t, x) \in State
         /\ Moved(Xor(t, u), Xor(x, y)) = Xor(Moved(t, x), Moved(u, y))
         /\ Extended(Not(t), x) = Not(Moved(t, x))
<1> DEFINE i == Xor(LowByte(t), x)
           l == Xor(LowByte(u), y)
<1>1. ByteBits \in Nat
  BY Widths
<1>2. i \in Byte /\ l \in Byte /\ Xor(i, l) \in Byte
  BY ByteTypes, StateTypes
<1>3. Xor(LowByte(Xor(t, u)), Xor(x, y)) = Xor(i, l)
  BY LowByteXor, XorSwap
<1>4. Shift(t, ByteBits) \in State /\ Shift(u, ByteBits) \in State
      /\ Shift(Xor(t, u), ByteBits) = Xor(Shift(t, ByteBits), Shift(u, ByteBits))
  BY <1>1, ShiftFacts
<1>5. Table[i] \in State /\ Table[l] \in State /\ Table[Xor(i, l)] = Xor(Table[i], Table[l])
  BY <1>2, TableFacts
<1>6. Moved(t, x) = Xor(Table[i], Shift(t, ByteBits)) /\ Moved(u, y) = Xor(Table[l], Shift(u, ByteBits))
  BY DEF Moved
<1>7. Moved(Xor(t, u), Xor(x, y)) =
        Xor(Xor(Table[i], Table[l]), Xor(Shift(t, ByteBits), Shift(u, ByteBits)))
  BY <1>3, <1>4, <1>5 DEF Moved
<1>8. Moved(t, x) \in State
  BY <1>4, <1>5, <1>6, StateTypes
<1>9. Not(Not(t)) = t
  BY StateTypes
<1>10. Extended(Not(t), x) = Not(Moved(t, x))
  BY <1>9, Zenon DEF Extended, Moved
<1> HIDE DEF i, l
<1>11. QED BY <1>6, <1>7, <1>8, <1>10, XorSwap

LEMMA RunExists ==
  ASSUME NEW t \in State, NEW n \in Nat, NEW a \in [1 .. n -> Byte]
  PROVE  \E f : IsRun(f, t, a, n)
<1> DEFINE move == [p \in (1 .. n) \X State |-> Moved(p[2], a[p[1]])]
<1>1. \A k \in 1 .. n, s \in State : Moved(s, a[k]) \in State /\ move[<<k, s>>] = Moved(s, a[k])
  BY MovedFacts
<1>2. move \in [(1 .. n) \X State -> State]
  BY <1>1
<1> HIDE DEF move
<1>3. PICK f : IsRecursive(f, State, t, n, move)
  BY <1>2, Recursion
<1>4. IsRun(f, t, a, n)
  <2>1. f \in [0 .. n -> State] /\ f[0] = t
    BY <1>3 DEF IsRecursive
  <2>2. ASSUME NEW k \in 1 .. n PROVE f[k] = Moved(f[k - 1], a[k])
    <3>1. f[k - 1] \in State
      BY <2>1
    <3>2. f[k] = move[<<k, f[k - 1]>>]
      BY <1>3 DEF IsRecursive
    <3>3. QED BY <1>1, <3>1, <3>2
  <2>3. QED BY <2>1, <2>2 DEF IsRun
<1>5. QED BY <1>4

\* What a run ends with is determined by where it starts and what it reads.
LEMMA RunUnique ==
  ASSUME NEW n \in Nat, NEW t, NEW a, NEW f, NEW g, IsRun(f, t, a, n), IsRun(g, t, a, n)
  PROVE  f[n] = g[n]
<1> DEFINE D == {m \in Nat : m <= n => f[m] = g[m]}
<1>1. 0 \in D
  BY DEF IsRun
<1>2. ASSUME NEW m \in D PROVE m + 1 \in D
  <2>1. SUFFICES ASSUME m + 1 <= n PROVE f[m + 1] = g[m + 1]
    OBVIOUS
  <2>2. m + 1 \in 1 .. n /\ m + 1 - 1 = m /\ f[m] = g[m]
    BY <2>1
  <2>3. f[m + 1] = Moved(f[m], a[m + 1]) /\ g[m + 1] = Moved(g[m], a[m + 1])
    BY <2>2 DEF IsRun
  <2>4. QED BY <2>2, <2>3
<1>3. D = Nat
  <2> HIDE DEF D
  <2>1. D \in SUBSET Nat
    BY DEF D
  <2>2. QED BY <1>1, <1>2, <2>1, Induction
<1>4. QED BY <1>3

\* Runs are additive.
LEMMA RunXor ==
  ASSUME NEW n \in Nat, NEW t, NEW u, NEW f, NEW g,
         NEW a \in [1 .. n -> Byte], NEW b \in [1 .. n -> Byte],
         IsRun(f, t, a, n), IsRun(g, u, b, n)
  PROVE  IsRun([k \in 0 .. n |-> Xor(f[k], g[k])], Xor(t, u), [k \in 1 .. n |-> Xor(a[k], b[k])], n)
<1> DEFINE h == [k \in 0 .. n |-> Xor(f[k], g[k])]
           c == [k \in 1 .. n |-> Xor(a[k], b[k])]
<1>1. \A k \in 0 .. n : f[k] \in State /\ g[k] \in State
  BY DEF IsRun
<1>2. h \in [0 .. n -> State]
  BY <1>1, StateTypes
<1>3. h[0] = Xor(t, u)
  BY DEF IsRun
<1>4. ASSUME NEW k \in 1 .. n PROVE h[k] = Moved(h[k - 1], c[k])
  <2>1. k - 1 \in 0 .. n /\ k \in 0 .. n /\ a[k] \in Byte /\ b[k] \in Byte
    OBVIOUS
  <2>2. f[k] = Moved(f[k - 1], a[k]) /\ g[k] = Moved(g[k - 1], b[k])
    BY DEF IsRun
  <2>3. Moved(Xor(f[k - 1], g[k - 1]), Xor(a[k], b[k])) = Xor(f[k], g[k])
    BY <1>1, <2>1, <2>2, MovedFacts
  <2>4. QED BY <2>1, <2>3
<1> HIDE DEF h, c
<1>5. IsRun(h, Xor(t, u), c, n)
  BY <1>2, <1>3, <1>4 DEF IsRun
<1>6. QED BY <1>5 DEF h, c

\* The checksum is what a run from all ones ends with, complemented.
LEMMA ChecksumRun ==
  ASSUME NEW n \in Nat, NEW a \in [1 .. n -> Byte], NEW f, IsRun(f, CrcBits, a, n)
  PROVE  Checksum(a) = Not(f[n])
<1> DEFINE Fits(g) == g = [m \in 0 .. Len(a) |-> IF m = 0 THEN {} ELSE Extended(g[m - 1], a[m])]
           not == [m \in 0 .. n |-> Not(f[m])]
<1>1. Len(a) = n
  OBVIOUS
<1>2. not[0] = {}
  BY DEF IsRun, Not
<1>3. ASSUME NEW m \in 1 .. n PROVE Extended(Not(f[m - 1]), a[m]) = Not(f[m])
  <2>1. f[m - 1] \in State /\ f[m] = Moved(f[m - 1], a[m]) /\ a[m] \in Byte
    BY DEF IsRun
  <2>2. QED BY <2>1, MovedFacts
<1>4. Fits(not)
  <2>1. ASSUME NEW m \in 0 .. n
        PROVE  not[m] = IF m = 0 THEN {} ELSE Extended(not[m - 1], a[m])
    <3>1. CASE m = 0
      BY <1>2, <3>1
    <3>2. CASE m # 0
      <4>1. m \in 1 .. n /\ not[m - 1] = Not(f[m - 1])
        BY <3>2
      <4>2. QED BY <1>3, <3>2, <4>1
    <3>3. QED BY <3>1, <3>2
  <2>2. QED BY <1>1, <2>1
<1>5. Checksum(a) = (CHOOSE g : Fits(g))[Len(a)]
  BY DEF Checksum
<1>6. PICK g : Fits(g) /\ Checksum(a) = g[Len(a)]
  <2> HIDE DEF Fits
  <2>1. QED BY <1>4, <1>5
<1>7. ASSUME NEW m \in 0 .. n
      PROVE  g[m] = IF m = 0 THEN {} ELSE Extended(g[m - 1], a[m])
  <2> DEFINE whole == [k \in 0 .. n |-> IF k = 0 THEN {} ELSE Extended(g[k - 1], a[k])]
  <2>1. whole[m] = IF m = 0 THEN {} ELSE Extended(g[m - 1], a[m])
    OBVIOUS
  <2>2. g = whole
    BY <1>1, <1>6
  <2> HIDE DEF whole
  <2>3. QED BY <2>1, <2>2
<1> DEFINE D == {m \in Nat : m <= n => g[m] = Not(f[m])}
<1>8. 0 \in D
  <2>1. g[0] = {} /\ not[0] = Not(f[0])
    BY <1>7
  <2>2. QED BY <1>2, <2>1
<1>9. ASSUME NEW m \in D PROVE m + 1 \in D
  <2>1. SUFFICES ASSUME m + 1 <= n PROVE g[m + 1] = Not(f[m + 1])
    OBVIOUS
  <2>2. m + 1 \in 1 .. n /\ m + 1 - 1 = m /\ g[m] = Not(f[m]) /\ m + 1 # 0
    BY <2>1
  <2>3. g[m + 1] = Extended(g[m], a[m + 1])
    BY <1>7, <2>2
  <2>4. Extended(Not(f[m]), a[m + 1]) = Not(f[m + 1])
    BY <1>3, <2>2
  <2>5. QED BY <2>2, <2>3, <2>4
<1>10. D = Nat
  <2> HIDE DEF D
  <2>1. D \in SUBSET Nat
    BY DEF D
  <2>2. QED BY <1>8, <1>9, <2>1, Induction
<1>11. g[n] = Not(f[n])
  BY <1>10
<1>12. QED BY <1>1, <1>6, <1>11, Zenon

\* The identity of the comment: crc(a ^ b ^ c) = crc(a) ^ crc(b) ^ crc(c).
LEMMA ChecksumXor ==
  ASSUME NEW n \in Nat, NEW a \in [1 .. n -> Byte], NEW b \in [1 .. n -> Byte], NEW c \in [1 .. n -> Byte]
  PROVE  Checksum([k \in 1 .. n |-> Xor(Xor(a[k], b[k]), c[k])]) =
           Xor(Xor(Checksum(a), Checksum(b)), Checksum(c))
<1> DEFINE ab  == [k \in 1 .. n |-> Xor(a[k], b[k])]
           abc == [k \in 1 .. n |-> Xor(Xor(a[k], b[k]), c[k])]
<1>1. CrcBits \in State
  BY DEF State
<1>2. PICK f : IsRun(f, CrcBits, a, n)
  BY <1>1, RunExists
<1>3. PICK g : IsRun(g, CrcBits, b, n)
  BY <1>1, RunExists
<1>4. PICK h : IsRun(h, CrcBits, c, n)
  BY <1>1, RunExists
<1> DEFINE fg  == [k \in 0 .. n |-> Xor(f[k], g[k])]
           fgh == [k \in 0 .. n |-> Xor(fg[k], h[k])]
<1>5. ab \in [1 .. n -> Byte] /\ abc \in [1 .. n -> Byte]
  BY ByteTypes
<1>6. abc = [k \in 1 .. n |-> Xor(ab[k], c[k])]
  OBVIOUS
<1>7. IsRun(fg, Xor(CrcBits, CrcBits), ab, n)
  BY <1>2, <1>3, RunXor
<1> HIDE DEF ab, abc, fg
<1>8. IsRun(fgh, Xor(Xor(CrcBits, CrcBits), CrcBits), abc, n)
  BY <1>4, <1>5, <1>6, <1>7, RunXor
<1>9. Xor(Xor(CrcBits, CrcBits), CrcBits) = CrcBits
  BY DEF Xor
<1>10. IsRun(fgh, CrcBits, abc, n)
  BY <1>8, <1>9
<1>11. Checksum(a) = Not(f[n]) /\ Checksum(b) = Not(g[n]) /\ Checksum(c) = Not(h[n])
  BY <1>2, <1>3, <1>4, ChecksumRun
<1>12. Checksum(abc) = Not(fgh[n])
  BY <1>5, <1>10, ChecksumRun
<1>13. fgh[n] = Xor(Xor(f[n], g[n]), h[n])
  BY DEF fg
<1>14. f[n] \in State /\ g[n] \in State /\ h[n] \in State
  BY <1>2, <1>3, <1>4 DEF IsRun
<1>15. \A x, y, z \in State : Not(Xor(Xor(x, y), z)) = Xor(Xor(Not(x), Not(y)), Not(z))
  BY DEF Not, Xor, State
<1>16. QED BY <1>11, <1>12, <1>13, <1>14, <1>15 DEF abc

LEMMA ChecksumType ==
  ASSUME NEW n \in Nat, NEW a \in [1 .. n -> Byte]
  PROVE  Checksum(a) \in State
<1>1. CrcBits \in State
  BY DEF State
<1>2. PICK f : IsRun(f, CrcBits, a, n)
  BY <1>1, RunExists
<1>3. Checksum(a) = Not(f[n]) /\ f[n] \in State
  BY <1>2, ChecksumRun DEF IsRun
<1>4. QED BY <1>3, StateTypes

LEMMA Multiples ==
  ASSUME NEW k \in Nat, NEW m \in Nat, k <= m
  PROVE  /\ 0 * ByteBits = 0 /\ k * ByteBits \in Nat /\ m * ByteBits \in Nat
         /\ (k + 1) * ByteBits = k * ByteBits + ByteBits
         /\ k * ByteBits <= m * ByteBits
<1>1. PICK b \in Nat : b = ByteBits
  BY Widths
<1>2. /\ 0 * b = 0 /\ k * b \in Nat /\ m * b \in Nat
      /\ (k + 1) * b = k * b + b
  OBVIOUS
<1>3. m = k + (m - k) /\ m - k \in Nat
  OBVIOUS
<1>4. \A x \in Nat : (k + x) * b = k * b + x * b /\ x * b \in Nat
  OBVIOUS
<1>5. m * b = k * b + (m - k) * b /\ (m - k) * b \in Nat
  BY <1>3, <1>4
<1>6. QED BY <1>1, <1>2, <1>5

\* An initial mask of ones moves out of the register, byte by byte, and is
\* met by the ones in the byte after the first CrcBytes.
Ones == 0 .. ByteBits - 1
Rest(k) == {m \in CrcBits : /\ m + k * ByteBits < CrcBytes * ByteBits
                            /\ CrcBytes * ByteBits <= m + (k + 1) * ByteBits}

LEMMA MovedZero ==
  ASSUME NEW t \in State, NEW byte \in Byte, LowByte(t) = byte
  PROVE  Moved(t, byte) = Shift(t, ByteBits)
<1>1. {} \in Byte /\ Xor({}, {}) = {} /\ \A x : Xor(x, x) = {} /\ Xor({}, x) = x
  BY ByteTypes DEF Xor
<1>2. Table[{}] = {}
  BY <1>1, TableFacts
<1>3. QED BY <1>1, <1>2 DEF Moved

LEMMA RestMoves ==
  ASSUME NEW k \in Nat
  PROVE  /\ Rest(k) \in State
         /\ Moved(Rest(k), IF k + 1 = CrcBytes THEN Ones ELSE {}) = Rest(k + 1)
<1> DEFINE byte == IF k + 1 = CrcBytes THEN Ones ELSE {}
<1>1. PICK b \in Nat \ {0}, w \in Nat, p \in Nat :
        b = ByteBits /\ w = CrcBytes * ByteBits /\ p = k * ByteBits
  BY Widths, Multiples
<1>2. (k + 1) * ByteBits = p + b /\ (k + 1 + 1) * ByteBits = p + b + b
  BY <1>1, Multiples
<1>3. CrcBits = 0 .. w - 1
  BY <1>1 DEF CrcBits
<1>4. /\ Rest(k) = {m \in 0 .. w - 1 : m + p < w /\ w <= m + p + b}
      /\ Rest(k + 1) = {m \in 0 .. w - 1 : m + p + b < w /\ w <= m + p + b + b}
  BY <1>1, <1>2, <1>3 DEF Rest
<1>5. Rest(k) \in State
  BY DEF Rest, State
<1>6. byte \in Byte
  BY ByteTypes DEF Ones
<1>7. LowByte(Rest(k)) = {m \in 0 .. w - 1 : m + p < w /\ w <= m + p + b /\ m < b}
  BY <1>1, <1>4 DEF LowByte
<1>8. LowByte(Rest(k)) = byte
  <2>1. CASE k + 1 = CrcBytes
    <3>1. w = p + b
      BY <1>1, <1>2, <2>1
    <3>2. QED BY <1>1, <1>7, <2>1, <3>1 DEF Ones
  <2>2. CASE k + 1 < CrcBytes
    <3>1. k + 1 + 1 <= CrcBytes /\ k + 1 + 1 \in Nat /\ CrcBytes \in Nat
      BY <2>2, Widths
    <3>2. (k + 1 + 1) * ByteBits <= CrcBytes * ByteBits
      BY <3>1, Multiples
    <3>3. p + b + b <= w
      BY <1>1, <1>2, <3>2
    <3>4. QED BY <1>1, <1>7, <2>2, <3>3
  <2>3. CASE CrcBytes < k + 1
    <3>1. CrcBytes <= k /\ CrcBytes \in Nat
      BY <2>3, Widths
    <3>2. w <= p
      BY <1>1, <3>1, Multiples
    <3>3. QED BY <1>7, <2>3, <3>2
  <2>4. QED BY <2>1, <2>2, <2>3, Widths
<1>9. Shift(Rest(k), b) = Rest(k + 1)
  <2>1. \A m \in Nat : m \in Shift(Rest(k), b) <=> m + b \in Rest(k)
    BY <1>1, <1>5, ShiftFacts
  <2>2. Shift(Rest(k), b) \in SUBSET Nat /\ Rest(k + 1) \in SUBSET Nat
    <3>1. Shift(Rest(k), b) \in State
      BY <1>1, <1>5, ShiftFacts
    <3>2. QED BY <1>3, <1>4, <3>1 DEF State
  <2>3. \A m \in Nat : m + b \in Rest(k) <=> m \in Rest(k + 1)
    BY <1>1, <1>4
  <2>4. QED BY <2>1, <2>2, <2>3
<1> HIDE DEF byte
<1>10. Moved(Rest(k), byte) = Rest(k + 1)
  BY <1>1, <1>5, <1>6, <1>8, <1>9, MovedZero
<1>11. QED BY <1>5, <1>10 DEF byte

\* The identity of the comment for a leader of ones: what is read after it is
\* read as from the start, but for the ones in the byte after CrcBytes.
LEMMA LeaderOnes ==
  ASSUME NEW n \in Nat, CrcBytes <= n, NEW c \in [1 .. n + 1 -> Byte], c[1] = Ones
  PROVE  Checksum(c) = Checksum([k \in 1 .. n |-> Xor(c[k + 1], IF k = CrcBytes THEN Ones ELSE {})])
<1> DEFINE tail == [k \in 1 .. n |-> c[k + 1]]
           ones == [k \in 1 .. n |-> IF k = CrcBytes THEN Ones ELSE {}]
           both == [k \in 1 .. n |-> Xor(tail[k], ones[k])]
           rest == [k \in 0 .. n |-> Rest(k)]
<1>1. CrcBits \in State /\ Ones \in Byte /\ {} \in Byte
  BY ByteTypes DEF State, Ones
<1>2. PICK f : IsRun(f, CrcBits, c, n + 1)
  BY <1>1, RunExists
<1> DEFINE g   == [k \in 0 .. n |-> f[k + 1]]
           sum == [k \in 0 .. n |-> Xor(g[k], rest[k])]
<1>3. tail \in [1 .. n -> Byte] /\ ones \in [1 .. n -> Byte] /\ both \in [1 .. n -> Byte]
  BY <1>1, ByteTypes
<1>4. IsRun(g, f[1], tail, n)
  <2>1. g \in [0 .. n -> State] /\ g[0] = f[1]
    BY <1>2 DEF IsRun
  <2>2. ASSUME NEW k \in 1 .. n PROVE g[k] = Moved(g[k - 1], tail[k])
    <3>1. k + 1 \in 1 .. n + 1 /\ k + 1 - 1 = k
      OBVIOUS
    <3>2. f[k + 1] = Moved(f[k], c[k + 1])
      BY <1>2, <3>1 DEF IsRun
    <3>3. g[k - 1] = f[k] /\ g[k] = f[k + 1] /\ tail[k] = c[k + 1]
      OBVIOUS
    <3>4. QED BY <3>2, <3>3
  <2>3. QED BY <2>1, <2>2 DEF IsRun
<1>5. IsRun(rest, Rest(0), ones, n)
  <2>1. rest \in [0 .. n -> State] /\ rest[0] = Rest(0)
    BY RestMoves
  <2>2. ASSUME NEW k \in 1 .. n PROVE rest[k] = Moved(rest[k - 1], ones[k])
    <3>1. k - 1 \in Nat /\ k - 1 + 1 = k
      OBVIOUS
    <3>2. Moved(Rest(k - 1), IF k = CrcBytes THEN Ones ELSE {}) = Rest(k)
      BY <3>1, RestMoves
    <3>3. rest[k - 1] = Rest(k - 1) /\ rest[k] = Rest(k) /\ ones[k] = IF k = CrcBytes THEN Ones ELSE {}
      OBVIOUS
    <3>4. QED BY <3>2, <3>3
  <2> HIDE DEF rest, ones
  <2>3. QED BY <2>1, <2>2 DEF IsRun
<1>6. f[1] = Shift(CrcBits, ByteBits)
  <2>1. f[1] = Moved(f[0], c[1]) /\ f[0] = CrcBits
    BY <1>2 DEF IsRun
  <2>2. LowByte(CrcBits) = Ones
    BY Widths DEF LowByte, CrcBits, Ones
  <2>3. QED BY <1>1, <2>1, <2>2, MovedZero
<1>7. Xor(f[1], Rest(0)) = CrcBits
  <2>1. PICK b \in Nat \ {0}, w \in Nat : b = ByteBits /\ w = CrcBytes * ByteBits
    BY Widths
  <2>2. CrcBits = 0 .. w - 1
    BY <2>1 DEF CrcBits
  <2>3. f[1] \in State /\ \A m \in Nat : m \in f[1] <=> m + b \in CrcBits
    BY <1>1, <1>6, <2>1, ShiftFacts
  <2>4. 0 * ByteBits = 0 /\ (0 + 1) * ByteBits = b
    BY <2>1, Multiples
  <2>5. Rest(0) = {m \in 0 .. w - 1 : m < w /\ w <= m + b}
    BY <2>1, <2>2, <2>4 DEF Rest
  <2>6. f[1] = {m \in 0 .. w - 1 : m + b < w}
    BY <2>1, <2>2, <2>3 DEF State
  <2>7. QED BY <2>1, <2>2, <2>5, <2>6 DEF Xor
<1>8. Rest(n) = {}
  <2>1. CrcBytes * ByteBits <= n * ByteBits /\ CrcBytes * ByteBits \in Nat /\ n * ByteBits \in Nat
    BY Widths, Multiples
  <2>2. QED BY <2>1 DEF Rest, CrcBits
<1> HIDE DEF tail, ones, rest, g
<1>9. IsRun(sum, CrcBits, both, n)
  BY <1>3, <1>4, <1>5, <1>7, RunXor
<1>10. Checksum(both) = Not(sum[n])
  BY <1>3, <1>9, ChecksumRun
<1>11. Checksum(c) = Not(f[n + 1])
  BY <1>2, ChecksumRun
<1>12. sum[n] = f[n + 1]
  <2>1. sum[n] = Xor(g[n], rest[n])
    OBVIOUS
  <2>2. g[n] = f[n + 1] /\ rest[n] = {}
    BY <1>8 DEF g, rest
  <2>3. QED BY <2>1, <2>2, XorFacts
<1>13. both = [k \in 1 .. n |-> Xor(c[k + 1], IF k = CrcBytes THEN Ones ELSE {})]
  BY DEF tail, ones
<1>14. QED BY <1>10, <1>11, <1>12, <1>13

-------------------------------------------------------------------------------
(* The window. *)

\* The checksum of a byte and zeros, one more than the window has.
Lead(w, byte) == Checksum(Zeros(w, <<byte>>))

LEMMA ZerosFacts ==
  ASSUME NEW w \in Nat, NEW byte \in Byte
  PROVE  /\ Zeros(w, <<byte>>) = [k \in 1 .. w + 1 |-> IF k = 1 THEN byte ELSE {}]
         /\ Zeros(w, <<byte>>) \in [1 .. w + 1 -> Byte]
         /\ Lead(w, byte) \in State
         /\ Crc0(w) = Lead(w, {})
<1>1. Zeros(w, <<byte>>) = [k \in 1 .. w + 1 |-> IF k = 1 THEN byte ELSE {}]
  BY DEF Zeros
<1>2. Zeros(w, <<byte>>) \in [1 .. w + 1 -> Byte]
  BY <1>1, ByteTypes
<1>3. Lead(w, byte) \in State
  BY <1>2, ChecksumType DEF Lead
<1>4. Zeros(w, <<>>) = Zeros(w, <<{}>>)
  BY DEF Zeros
<1>5. QED BY <1>1, <1>2, <1>3, <1>4 DEF Crc0, Lead

LEMMA LeadXor ==
  ASSUME NEW w \in Nat, NEW x \in Byte, NEW y \in Byte
  PROVE  Lead(w, Xor(x, y)) = Xor(Xor(Lead(w, x), Lead(w, y)), Crc0(w))
<1> DEFINE a == Zeros(w, <<x>>)
           b == Zeros(w, <<y>>)
           z == Zeros(w, <<{}>>)
           s == Zeros(w, <<Xor(x, y)>>)
<1>1. {} \in Byte /\ Xor(x, y) \in Byte
  BY ByteTypes
<1>2. /\ a = [k \in 1 .. w + 1 |-> IF k = 1 THEN x ELSE {}]
      /\ b = [k \in 1 .. w + 1 |-> IF k = 1 THEN y ELSE {}]
      /\ z = [k \in 1 .. w + 1 |-> IF k = 1 THEN {} ELSE {}]
      /\ s = [k \in 1 .. w + 1 |-> IF k = 1 THEN Xor(x, y) ELSE {}]
  BY <1>1, ZerosFacts
<1>3. a \in [1 .. w + 1 -> Byte] /\ b \in [1 .. w + 1 -> Byte] /\ z \in [1 .. w + 1 -> Byte]
  BY <1>1, ZerosFacts
<1>4. /\ Lead(w, x) = Checksum(a) /\ Lead(w, y) = Checksum(b)
      /\ Lead(w, Xor(x, y)) = Checksum(s) /\ Crc0(w) = Checksum(z)
  BY <1>1, ZerosFacts DEF Lead
<1>5. \A k \in 1 .. w + 1 : Xor(Xor(a[k], b[k]), z[k]) = s[k]
  BY <1>2 DEF Xor
<1>6. s = [k \in 1 .. w + 1 |-> s[k]]
  BY <1>2
<1> HIDE DEF a, b, z, s
<1>7. s = [k \in 1 .. w + 1 |-> Xor(Xor(a[k], b[k]), z[k])]
  BY <1>5, <1>6
<1>8. w + 1 \in Nat
  OBVIOUS
<1>9. Checksum(s) = Xor(Xor(Checksum(a), Checksum(b)), Checksum(z))
  BY <1>3, <1>7, <1>8, ChecksumXor
<1>10. QED BY <1>4, <1>9

\* What newCRC32Window says of its table: the parity of the number of bits
\* decides whether the checksum of zeros is in the sum.
LEMMA MaskedTableRight ==
  ASSUME NEW w \in Nat
  PROVE  MaskedTable(w) = [byte \in Byte |-> Xor(Lead(w, byte), WindowMask(w))]
<1> DEFINE base == BaseTable(w)
           odd(byte, k) == Cardinality({b \in byte : k \in base[b]}) % 2 = 1
           sum(byte) == {k \in CrcBits : odd(byte, k)}
           crc(byte) == IF Cardinality(byte) % 2 = 0 THEN Xor(sum(byte), Crc0(w)) ELSE sum(byte)
           Right(m) == \A byte \in SUBSET (0 .. m - 1) : crc(byte) = Lead(w, byte)
           D == {m \in Nat : m <= ByteBits => Right(m)}
<1>1. ByteBits \in Nat
  BY Widths
<1>2. \A b \in 0 .. ByteBits - 1 : base[b] = Lead(w, {b})
  BY DEF BaseTable, Lead
<1>3. MaskedTable(w) = [byte \in Byte |-> Xor(crc(byte), WindowMask(w))]
  BY DEF MaskedTable
<1> HIDE DEF base
<1>4. Crc0(w) = Lead(w, {}) /\ Lead(w, {}) \in State
  BY ByteTypes, ZerosFacts
<1>5. 0 \in D
  <2>1. ASSUME NEW byte \in SUBSET (0 .. 0 - 1) PROVE crc(byte) = Lead(w, byte)
    <3>1. byte = {}
      OBVIOUS
    <3>2. Cardinality(byte) = 0 /\ \A k : {b \in byte : k \in base[b]} = {}
      BY <3>1, FS_EmptySet
    <3>3. \A k : ~odd(byte, k)
      BY <3>2, FS_EmptySet
    <3>4. sum(byte) = {}
      BY <3>3
    <3>5. crc(byte) = Xor({}, Crc0(w))
      BY <3>2, <3>4
    <3>6. QED BY <1>4, <3>1, <3>5, XorFacts
  <2>2. QED BY <2>1
<1>6. ASSUME NEW m \in Nat, m + 1 <= ByteBits, Right(m) PROVE Right(m + 1)
  <2> HIDE DEF crc
  <2>1. SUFFICES ASSUME NEW byte \in SUBSET (0 .. m + 1 - 1)
                 PROVE  crc(byte) = Lead(w, byte)
    OBVIOUS
  <2> USE DEF crc
  <2>2. \A less \in SUBSET (0 .. m - 1) : crc(less) = Lead(w, less)
    BY <1>6
  <2>3. CASE m \notin byte
    <3>1. byte \in SUBSET (0 .. m - 1)
      BY <2>3
    <3>2. QED BY <2>2, <3>1
  <2>4. CASE m \in byte
    <3> DEFINE less == byte \ {m}
    <3>1. less \in SUBSET (0 .. m - 1) /\ m \notin less /\ byte = less \cup {m}
      BY <2>4
    <3>2. IsFiniteSet(less)
      BY <3>1, FS_Interval, FS_Subset, 0 \in Int, m - 1 \in Int
    <3>3. less \in Byte /\ {m} \in Byte /\ byte = Xor(less, {m})
      BY <1>1, <1>6, <2>1, <3>1 DEF Byte, Xor
    <3>4. Lead(w, less) \in State /\ Lead(w, {m}) \in State
      BY <3>3, ZerosFacts
    <3>5. Lead(w, byte) = Xor(Xor(Lead(w, less), Lead(w, {m})), Crc0(w))
      BY <3>3, LeadXor
    <3>6. crc(less) = Lead(w, less)
      BY <2>2, <3>1
    <3>7. base[m] = Lead(w, {m})
      BY <1>1, <1>2, <1>6
    <3> HIDE DEF less
    <3>8. Cardinality(less) \in Nat /\ Cardinality(byte) = Cardinality(less) + 1
      BY <3>1, <3>2, FS_AddElement, FS_CardinalityType
    <3>9. ASSUME NEW k \in CrcBits PROVE odd(byte, k) <=> ~(odd(less, k) <=> k \in base[m])
      <4> DEFINE inByte == {b \in byte : k \in base[b]}
                 inLess == {b \in less : k \in base[b]}
      <4>1. IsFiniteSet(inLess) /\ m \notin inLess
        BY <3>1, <3>2, FS_Subset
      <4>2. inByte = IF k \in base[m] THEN inLess \cup {m} ELSE inLess
        BY <3>1
      <4> HIDE DEF inByte, inLess
      <4>3. Cardinality(inLess) \in Nat
        BY <4>1, FS_CardinalityType
      <4>4. Cardinality(inByte) = IF k \in base[m] THEN Cardinality(inLess) + 1 ELSE Cardinality(inLess)
        BY <4>1, <4>2, FS_AddElement
      <4>5. QED BY <4>3, <4>4 DEF inByte, inLess
    <3> HIDE DEF odd
    <3>10. sum(byte) = Xor(sum(less), base[m])
      <4>1. base[m] \in SUBSET CrcBits
        BY <3>4, <3>7 DEF State
      <4>2. QED BY <3>9, <4>1 DEF Xor
    <3> HIDE DEF sum
    <3>11. Cardinality(byte) % 2 = 0 <=> Cardinality(less) % 2 # 0
      BY <3>8
    <3>12. CASE Cardinality(less) % 2 = 0
      <4>1. Xor(sum(less), Crc0(w)) = Lead(w, less) /\ crc(byte) = sum(byte)
        BY <3>6, <3>11, <3>12
      <4>2. \A s, c, l, u : Xor(s, c) = l => Xor(s, u) = Xor(Xor(l, u), c)
        BY DEF Xor
      <4>3. QED BY <3>5, <3>7, <3>10, <4>1, <4>2
    <3>13. CASE Cardinality(less) % 2 # 0
      <4>1. sum(less) = Lead(w, less) /\ crc(byte) = Xor(sum(byte), Crc0(w))
        BY <3>6, <3>11, <3>13
      <4>2. QED BY <3>5, <3>7, <3>10, <4>1
    <3>14. QED BY <3>12, <3>13
  <2>5. QED BY <2>3, <2>4
<1>7. D = Nat
  <2> HIDE DEF Right
  <2>1. ASSUME NEW m \in D PROVE m + 1 \in D
    BY <1>1, <1>6
  <2>2. D \in SUBSET Nat
    OBVIOUS
  <2> HIDE DEF D
  <2>3. QED BY <1>5, <2>1, <2>2, Induction
<1>8. ASSUME NEW byte \in Byte PROVE crc(byte) = Lead(w, byte)
  <2>1. Right(ByteBits)
    <3> HIDE DEF Right
    <3>1. QED BY <1>1, <1>7
  <2>2. byte \in SUBSET (0 .. ByteBits - 1)
    BY DEF Byte
  <2> HIDE DEF crc
  <2>3. QED BY <2>1, <2>2
<1> HIDE DEF crc
<1>9. QED BY <1>3, <1>8

\* For every polynomial and every width of a byte and of a checksum: rolled on
\* by a byte, the checksum of a window is that of the window one byte on.
\* This is crc32Window.update, whose comment gives the argument.
THEOREM UpdateRolls ==
  ASSUME NEW w \in Nat, CrcBytes <= w, NEW a \in [1 .. w + 1 -> Byte]
  PROVE  Update(MaskedTable(w), Checksum([k \in 1 .. w |-> a[k]]), a[1], a[w + 1]) =
           Checksum([k \in 1 .. w |-> a[k + 1]])
<1> DEFINE old  == [k \in 1 .. w |-> a[k]]
           new  == [k \in 1 .. w |-> a[k + 1]]
           lead == Zeros(w, <<a[1]>>)
           mask == Zeros(w, [k \in {1, CrcBytes + 1} |-> 0 .. ByteBits - 1])
           c    == [k \in 1 .. w + 1 |-> Xor(Xor(a[k], lead[k]), mask[k])]
<1>1. w + 1 \in Nat /\ 1 \in 1 .. w + 1 /\ a[1] \in Byte /\ a[w + 1] \in Byte
  OBVIOUS
<1>2. lead = [k \in 1 .. w + 1 |-> IF k = 1 THEN a[1] ELSE {}] /\ lead \in [1 .. w + 1 -> Byte]
  BY <1>1, ZerosFacts
<1>3. mask = [k \in 1 .. w + 1 |-> IF k \in {1, CrcBytes + 1} THEN Ones ELSE {}]
  BY DEF Zeros, Ones
<1>4. mask \in [1 .. w + 1 -> Byte]
  BY <1>3, ByteTypes DEF Ones
<1>5. Checksum(lead) = Lead(w, a[1]) /\ Checksum(mask) = WindowMask(w)
  BY DEF Lead, WindowMask
<1> HIDE DEF lead, mask
<1>6. Checksum(c) = Xor(Xor(Checksum(a), Checksum(lead)), Checksum(mask))
  BY <1>1, <1>2, <1>4, ChecksumXor
<1>7. c \in [1 .. w + 1 -> Byte]
  BY <1>2, <1>4, ByteTypes
<1>8. c[1] = Ones
  <2>1. c[1] = Xor(Xor(a[1], a[1]), Ones)
    BY <1>1, <1>2, <1>3
  <2>2. QED BY <2>1 DEF Xor
<1>9. ASSUME NEW k \in 1 .. w
      PROVE  Xor(c[k + 1], IF k = CrcBytes THEN Ones ELSE {}) = a[k + 1]
  <2>1. k + 1 \in 1 .. w + 1 /\ k + 1 # 1 /\ (k + 1 = CrcBytes + 1 <=> k = CrcBytes)
    BY Widths
  <2>2. lead[k + 1] = {} /\ mask[k + 1] = IF k = CrcBytes THEN Ones ELSE {}
    BY <1>2, <1>3, <2>1
  <2>3. c[k + 1] = Xor(Xor(a[k + 1], {}), mask[k + 1])
    BY <2>1, <2>2
  <2>4. \A x, y : Xor(Xor(Xor(x, {}), y), y) = x
    BY DEF Xor
  <2>5. QED BY <2>2, <2>3, <2>4
<1> HIDE DEF c
<1>10. Checksum(c) = Checksum(new)
  <2>1. Checksum(c) = Checksum([k \in 1 .. w |-> Xor(c[k + 1], IF k = CrcBytes THEN Ones ELSE {})])
    BY <1>7, <1>8, LeaderOnes
  <2>2. [k \in 1 .. w |-> Xor(c[k + 1], IF k = CrcBytes THEN Ones ELSE {})] = new
    BY <1>9
  <2>3. QED BY <2>1, <2>2
<1>11. Extended(Checksum(old), a[w + 1]) = Checksum(a)
  <2>1. CrcBits \in State
    BY DEF State
  <2>2. PICK f : IsRun(f, CrcBits, a, w + 1)
    BY <1>1, <2>1, RunExists
  <2> DEFINE g == [k \in 0 .. w |-> f[k]]
  <2>3. old \in [1 .. w -> Byte]
    OBVIOUS
  <2>4. IsRun(g, CrcBits, old, w)
    <3>1. g \in [0 .. w -> State] /\ g[0] = CrcBits
      BY <2>2 DEF IsRun
    <3>2. ASSUME NEW k \in 1 .. w PROVE g[k] = Moved(g[k - 1], old[k])
      <4>1. k \in 1 .. w + 1 /\ g[k] = f[k] /\ g[k - 1] = f[k - 1] /\ old[k] = a[k]
        OBVIOUS
      <4>2. f[k] = Moved(f[k - 1], a[k])
        BY <2>2, <4>1 DEF IsRun
      <4>3. QED BY <4>1, <4>2
    <3> HIDE DEF g, old
    <3>3. QED BY <3>1, <3>2 DEF IsRun
  <2>5. Checksum(old) = Not(f[w])
    <3>1. g[w] = f[w]
      OBVIOUS
    <3> HIDE DEF g, old
    <3>2. QED BY <2>3, <2>4, <3>1, ChecksumRun
  <2>6. Checksum(a) = Not(f[w + 1])
    BY <1>1, <2>2, ChecksumRun
  <2>7. f[w] \in State /\ f[w + 1] = Moved(f[w], a[w + 1])
    <3>1. w + 1 \in 1 .. w + 1 /\ w + 1 - 1 = w /\ w \in 0 .. w + 1
      OBVIOUS
    <3>2. QED BY <2>2, <3>1 DEF IsRun
  <2>8. QED BY <1>1, <2>1, <2>5, <2>6, <2>7, MovedFacts
<1>12. MaskedTable(w)[a[1]] = Xor(Checksum(lead), Checksum(mask))
  <2>1. MaskedTable(w) = [byte \in Byte |-> Xor(Lead(w, byte), WindowMask(w))]
    BY MaskedTableRight
  <2>2. QED BY <1>1, <1>5, <2>1
<1>13. Update(MaskedTable(w), Checksum(old), a[1], a[w + 1]) =
         Xor(Checksum(a), Xor(Checksum(lead), Checksum(mask)))
  BY <1>11, <1>12 DEF Update
<1> HIDE DEF old, new
<1>14. Xor(Checksum(a), Xor(Checksum(lead), Checksum(mask))) = Checksum(new)
  <2>1. Xor(Checksum(a), Xor(Checksum(lead), Checksum(mask))) =
          Xor(Xor(Checksum(a), Checksum(lead)), Checksum(mask))
    BY XorFacts
  <2>2. QED BY <1>6, <1>10, <2>1
<1>15. QED BY <1>13, <1>14 DEF old, new

-------------------------------------------------------------------------------
(* The search. *)

Offsets  == 0 .. Len(data) - 1
NextOf(k) == IF Slice(data, k) \in known THEN k + SliceByteCount ELSE k + 1

\* The offsets that were looked at so far: whatever they lead to is one of them
\* or the one that is next, and the hits are the hits among them.
LookedAt(looked) ==
  /\ looked \subseteq {k \in Offsets : k < j}
  /\ j > 0 => 0 \in looked
  /\ \A k \in looked : NextOf(k) \in looked \cup {j}
  /\ hits = {k \in looked : Slice(data, k) \in known}

TypeInv ==
  /\ data \in Files /\ known \in KnownSets
  /\ j \in Nat /\ justMissed \in BOOLEAN

\* Every closed set of offsets has those that were looked at and the next.
Needed ==
  \A offsets \in SUBSET Offsets : ScanClosed(offsets, data, known) =>
     /\ hits \subseteq offsets
     /\ j < Len(data) => j \in offsets

IndInv ==
  /\ TypeInv
  /\ justMissed => 0 < j /\ j <= Len(data)
  /\ RollsRight
  /\ \E looked \in SUBSET Offsets : LookedAt(looked)
  /\ Needed

LEMMA SliceFacts ==
  ASSUME NEW bytes \in Seq(Byte), NEW k \in Nat
  PROVE  /\ Slice(bytes, k) \in [1 .. SliceByteCount -> Byte]
         /\ SliceByteCount \in Nat \ {0} /\ CrcBytes <= SliceByteCount
<1>1. SliceByteCount \in Nat \ {0} /\ CrcBytes <= SliceByteCount /\ ZeroByte \in Byte
  BY SliceByteCountAssumption, FilesAssumption, ByteTypes, Widths
<1>2. \A m \in 1 .. SliceByteCount : (IF k + m <= Len(bytes) THEN bytes[k + m] ELSE ZeroByte) \in Byte
  <2>1. ASSUME NEW m \in 1 .. SliceByteCount, k + m <= Len(bytes) PROVE bytes[k + m] \in Byte
    <3>1. k + m \in 1 .. Len(bytes)
      BY <1>1, <2>1
    <3>2. QED BY <3>1
  <2>2. QED BY <1>1, <2>1
<1>3. QED BY <1>1, <1>2 DEF Slice

\* The CRC that is looked up is that of the slice at j.
LEMMA CrcNextRight ==
  ASSUME TypeInv, justMissed => 0 < j /\ j <= Len(data), RollsRight
  PROVE  CrcNext = Checksum(Slice(data, j))
<1>1. data \in Seq(Byte) /\ j \in Nat
  BY FilesAssumption DEF TypeInv
<1>2. CASE ~justMissed
  BY <1>2 DEF CrcNext
<1>3. CASE justMissed
  <2> DEFINE N == SliceByteCount
             byteAt(m) == IF m <= Len(data) THEN data[m] ELSE ZeroByte
             a == [k \in 1 .. N + 1 |-> byteAt(j - 1 + k)]
  <2>1. 0 < j /\ j <= Len(data) /\ j - 1 \in Nat /\ crcSlice = Checksum(Slice(data, j - 1))
    BY <1>1, <1>3 DEF RollsRight
  <2>2. N \in Nat \ {0} /\ CrcBytes <= N /\ ZeroByte \in Byte
    BY <1>1, SliceFacts, FilesAssumption, ByteTypes
  <2>3. ASSUME NEW m \in Nat \ {0} PROVE byteAt(m) \in Byte
    BY <1>1, <2>2
  <2>4. Slice(data, j - 1) = [k \in 1 .. N |-> byteAt(j - 1 + k)]
    BY DEF Slice
  <2>5. Slice(data, j) = [k \in 1 .. N |-> byteAt(j + k)]
    BY DEF Slice
  <2>6. data[j] = byteAt(j)
    BY <2>1
  <2> HIDE DEF byteAt
  <2>7. a \in [1 .. N + 1 -> Byte]
    <3>1. \A k \in 1 .. N + 1 : j - 1 + k \in Nat \ {0}
      BY <2>1, <2>2
    <3>2. QED BY <2>3, <3>1
  <2>8. Slice(data, j - 1) = [k \in 1 .. N |-> a[k]]
    <3>1. \A k \in 1 .. N : a[k] = byteAt(j - 1 + k)
      BY <2>2
    <3>2. QED BY <2>4, <3>1
  <2>9. Slice(data, j) = [k \in 1 .. N |-> a[k + 1]]
    <3>1. \A k \in 1 .. N : a[k + 1] = byteAt(j + k)
      <4>1. \A k \in 1 .. N : k + 1 \in 1 .. N + 1 /\ j - 1 + (k + 1) = j + k
        BY <1>1, <2>2
      <4>2. QED BY <4>1
    <3>2. QED BY <2>5, <3>1
  <2>10. data[j] = a[1]
    <3>1. 1 \in 1 .. N + 1 /\ j - 1 + 1 = j
      BY <1>1, <2>2
    <3>2. QED BY <2>6, <3>1
  <2>11. Slice(data, j)[N] = a[N + 1]
    BY <2>2, <2>9
  <2> HIDE DEF a
  <2>12. Update(MaskedTable(N), Checksum([k \in 1 .. N |-> a[k]]), a[1], a[N + 1]) =
           Checksum([k \in 1 .. N |-> a[k + 1]])
    BY <2>2, <2>7, UpdateRolls
  <2>13. CrcNext = Update(MaskedTable(N), crcSlice, data[j], Slice(data, j)[N])
    BY <1>3 DEF CrcNext, Window
  <2>14. QED BY <2>1, <2>8, <2>9, <2>10, <2>11, <2>12, <2>13
<1>4. QED BY <1>2, <1>3

\* What is found is the slice at j, if it is known.
LEMMA FoundKnown ==
  ASSUME NEW slice
  PROVE  Found(Checksum(slice), slice) = {} <=> slice \notin known
  BY DEF Found

\* Either way the search goes on at NextOf(j), having looked at j too.
LEMMA Moves ==
  ASSUME IndInv, Next
  PROVE  /\ j < Len(data) /\ data' = data /\ known' = known
         /\ j' = NextOf(j) /\ j' \in Nat /\ j < j'
         /\ hits' = IF Slice(data, j) \in known THEN hits \cup {j} ELSE hits
         /\ crcSlice' = Checksum(Slice(data, j))
         /\ justMissed' \in BOOLEAN /\ (justMissed' <=> Slice(data, j) \notin known)
<1>1. CrcNext = Checksum(Slice(data, j))
  BY CrcNextRight DEF IndInv
<1>2. Found(CrcNext, Slice(data, j)) = {} <=> Slice(data, j) \notin known
  BY <1>1, FoundKnown
<1>3. SliceByteCount \in Nat \ {0} /\ j \in Nat
  BY SliceByteCountAssumption DEF IndInv, TypeInv
<1>4. CASE Miss
  BY <1>1, <1>2, <1>3, <1>4 DEF Miss, NextOf
<1>5. CASE Hit
  <2>1. /\ j < Len(data) /\ data' = data /\ known' = known /\ crcSlice' = CrcNext
        /\ justMissed' = FALSE /\ j' = j + SliceByteCount /\ hits' = hits \cup {j}
    BY <1>5 DEF Hit
  <2>2. Slice(data, j) \in known
    BY <1>2, <1>5 DEF Hit
  <2>3. j' = NextOf(j) /\ j' \in Nat /\ j < j'
    BY <1>3, <2>1, <2>2 DEF NextOf
  <2>4. QED BY <1>1, <2>1, <2>2, <2>3
<1>6. QED BY <1>4, <1>5 DEF Next

LEMMA InitInv == Init => IndInv
<1> SUFFICES ASSUME Init PROVE IndInv
  OBVIOUS
<1>1. TypeInv /\ ~justMissed
  BY DEF Init, TypeInv
<1>2. LookedAt({})
  BY DEF Init, LookedAt
<1>3. Needed
  BY DEF Init, Needed, ScanClosed
<1>4. QED BY <1>1, <1>2, <1>3 DEF IndInv, RollsRight

LEMMA NextInv == IndInv /\ [Next]_vars => IndInv'
<1> SUFFICES ASSUME IndInv, [Next]_vars PROVE IndInv'
  OBVIOUS
<1>1. CASE UNCHANGED vars
  BY <1>1 DEF vars, IndInv, TypeInv, RollsRight, LookedAt, Needed, Offsets, NextOf
<1>2. CASE Next
  <2>1. /\ j < Len(data) /\ data' = data /\ known' = known
        /\ j' = NextOf(j) /\ j' \in Nat /\ j < j'
        /\ hits' = IF Slice(data, j) \in known THEN hits \cup {j} ELSE hits
        /\ crcSlice' = Checksum(Slice(data, j))
        /\ justMissed' \in BOOLEAN /\ (justMissed' <=> Slice(data, j) \notin known)
    BY <1>2, Moves
  <2>2. TypeInv' /\ data \in Seq(Byte) /\ j \in Nat
    BY <2>1, FilesAssumption DEF IndInv, TypeInv
  <2>3. j \in Offsets
    BY <2>1, <2>2 DEF Offsets
  <2>4. justMissed' => j' = j + 1
    BY <2>1 DEF NextOf
  <2>5. (justMissed => 0 < j /\ j <= Len(data))'
    BY <2>1, <2>2, <2>4
  <2>6. RollsRight'
    <3>1. justMissed' => j' - 1 = j
      BY <2>2, <2>4
    <3>2. QED BY <2>1, <3>1 DEF RollsRight
  <2>7. (\E looked \in SUBSET Offsets : LookedAt(looked))'
    <3>1. PICK looked \in SUBSET Offsets : LookedAt(looked)
      BY DEF IndInv
    <3>2. PICK more : more = looked \cup {j}
      OBVIOUS
    <3>3. Offsets' = Offsets /\ \A k : NextOf(k)' = NextOf(k) /\ Slice(data, k)' = Slice(data, k)
      BY <2>1 DEF Offsets, NextOf
    <3>4. more \subseteq {k \in Offsets : k < j'}
      BY <2>1, <2>2, <2>3, <3>1, <3>2 DEF LookedAt, Offsets
    <3>5. 0 \in more
      BY <2>2, <3>1, <3>2 DEF LookedAt
    <3>6. \A k \in more : NextOf(k) \in more \cup {j'}
      BY <2>1, <3>1, <3>2 DEF LookedAt
    <3>7. hits' = {k \in more : Slice(data, k) \in known}
      BY <2>1, <3>1, <3>2 DEF LookedAt
    <3>8. LookedAt(more)'
      <4>1. (more \subseteq {k \in Offsets : k < j})'
        BY <3>3, <3>4
      <4>2. (\A k \in more : NextOf(k) \in more \cup {j})'
        BY <3>3, <3>6
      <4>3. (hits = {k \in more : Slice(data, k) \in known})'
        BY <2>1, <3>3, <3>7
      <4>4. QED BY <3>5, <4>1, <4>2, <4>3 DEF LookedAt
    <3>9. more \in SUBSET Offsets
      BY <3>4
    <3>10. QED BY <3>3, <3>8, <3>9
  <2>8. Needed'
    <3>1. Offsets' = Offsets /\ \A offsets : ScanClosed(offsets, data, known)' <=> ScanClosed(offsets, data, known)
      BY <2>1 DEF Offsets
    <3>2. ASSUME NEW offsets \in SUBSET Offsets, ScanClosed(offsets, data, known)
          PROVE  hits' \subseteq offsets /\ (j' < Len(data) => j' \in offsets)
      <4>1. hits \subseteq offsets /\ j \in offsets
        BY <2>1, <3>2 DEF IndInv, Needed
      <4>2. hits' \subseteq offsets
        BY <2>1, <4>1
      <4>3. NextOf(j) < Len(data) => NextOf(j) \in offsets
        BY <3>2, <4>1 DEF ScanClosed, NextOf
      <4>4. QED BY <2>1, <4>2, <4>3
    <3>3. QED BY <2>1, <3>1, <3>2 DEF Needed
  <2>9. QED BY <2>2, <2>5, <2>6, <2>7, <2>8 DEF IndInv
<1>3. QED BY <1>1, <1>2

\* At the end what was looked at is closed: its hits are those of the definition.
LEMMA EndRight ==
  ASSUME IndInv
  PROVE  HitsAsDefined
<1> SUFFICES ASSUME j >= Len(data) PROVE hits = ScanHits(data, known)
  BY DEF HitsAsDefined
<1>1. data \in Seq(Byte) /\ j \in Nat
  BY FilesAssumption DEF IndInv, TypeInv
<1>2. PICK looked \in SUBSET Offsets : LookedAt(looked)
  BY DEF IndInv
<1>3. Offsets # {} => ScanClosed(looked, data, known)
  <2>1. Offsets # {} => 0 \in looked
    BY <1>1, <1>2 DEF LookedAt, Offsets
  <2>2. ASSUME NEW k \in looked, NextOf(k) < Len(data) PROVE NextOf(k) \in looked
    BY <1>1, <1>2, <2>2 DEF LookedAt
  <2>3. QED BY <2>1, <2>2 DEF ScanClosed, NextOf
<1>4. hits = {k \in looked : Slice(data, k) \in known}
  BY <1>2 DEF LookedAt
<1>5. ASSUME NEW k \in hits PROVE k \in ScanHits(data, known)
  <2>1. k \in Offsets /\ Slice(data, k) \in known
    BY <1>2, <1>4
  <2>2. \A offsets \in SUBSET Offsets : ScanClosed(offsets, data, known) => k \in offsets
    BY DEF IndInv, Needed
  <2>3. QED BY <2>1, <2>2 DEF ScanHits, Offsets
<1>6. ASSUME NEW k \in ScanHits(data, known) PROVE k \in hits
  <2>1. k \in Offsets /\ Slice(data, k) \in known
    BY DEF ScanHits, Offsets
  <2>2. k \in looked
    BY <1>2, <1>3, <2>1 DEF ScanHits, Offsets
  <2>3. QED BY <1>4, <2>1, <2>2
<1>7. QED BY <1>5, <1>6

LEMMA Invariance == Spec => []IndInv
<1>1. QED BY InitInv, NextInv, PTL DEF Spec

\* The CRC that is rolled from offset to offset is the one computed afresh, in
\* every file, for every window not shorter than a CRC.
THEOREM CrcIsRolledRight == Spec => []RollsRight
<1>1. IndInv => RollsRight
  BY DEF IndInv
<1>2. QED BY <1>1, Invariance, PTL

\* The loop of fillShardInfos finds the slices that the definition of the search
\* says, for all files and all sets of known slices.
THEOREM SearchFindsAll == Spec => []HitsAsDefined
<1>1. QED BY EndRight, Invariance, PTL
===============================================================================
