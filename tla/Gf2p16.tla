-------------------------------- MODULE Gf2p16 --------------------------------
(***************************************************************************)
(* Arithmetic in GF(2^Width) as in gf2p16 and gf2: products by logarithms, *)
(* and products of slices by tables of the parts of a word.  An element,   *)
(* or a polynomial over GF(2), is the set of the positions of its bits.    *)
(***************************************************************************)
EXTENDS Integers, Sequences, FiniteSets

CONSTANTS
  Width,        \* 16: bits of an element, a multiple of 4
  Modulus,      \* 0x1100b: the polynomial of degree Width to reduce products by
  ChunkWords    \* 16: words that the vector instructions take at once

Element == SUBSET (0 .. Width - 1)
Zero    == {}
One     == {0}
Order   == 2^Width

\* T(n), for a number n.
T(n) == {k \in 0 .. Width - 1 : (n \div 2^k) % 2 = 1}

Plus(t, u) == (t \ u) \cup (u \ t)

\* The sum of f[x] over all x.
SumOf(f) == {k \in 0 .. Width - 1 : Cardinality({x \in DOMAIN f : k \in f[x]}) % 2 = 1}

-------------------------------------------------------------------------------
(* Polynomials over GF(2), of 64 bits *)

PolyTimes(p, q) == {k \in 0 .. 63 : Cardinality({n \in p : k - n \in q}) % 2 = 1}

Degree(p) == CHOOSE k \in p : \A n \in p : n <= k      \* ilog2

\* The remainder that Div ends with: a step clears the first bit.
PolyRem(p, m) ==
  LET above(r) == IF r = {} \/ Degree(r) < Degree(m) THEN 0 ELSE Degree(r) - Degree(m) + 1
      step(r)  == IF above(r) = 0 THEN r ELSE Plus(r, {k + above(r) - 1 : k \in m})
      after[n \in 0 .. above(p)] == IF n = 0 THEN p ELSE step(after[n - 1])
  IN  after[above(p)]

-------------------------------------------------------------------------------
(* Elements *)

\* expTable: the powers of 3.
ExpTable ==
  LET power[p \in 0 .. Order - 2] ==
        IF p = 0 THEN One ELSE PolyRem(PolyTimes(power[p - 1], {0, 1}), Modulus)
  IN  [p \in 0 .. Order - 2 |-> power[p]]

ASSUME WidthAssumption ==
  /\ Width \in 1 .. 32 /\ Width % 4 = 0 /\ ChunkWords \in Nat \ {0}
  /\ Modulus \subseteq 0 .. Width /\ Width \in Modulus
\* Otherwise init panics.
ASSUME GeneratorAssumption ==
  /\ \A p, q \in 0 .. Order - 2 : ExpTable[p] = ExpTable[q] => p = q
  /\ \A p \in 0 .. Order - 2 : ExpTable[p] # Zero

LogTable == [x \in Element \ {Zero} |-> CHOOSE p \in 0 .. Order - 2 : ExpTable[p] = x]

\* Mutation: exponents are taken modulo the number of all elements.
TimesModOrder(t, u) ==
  IF t = Zero \/ u = Zero THEN Zero
  ELSE LET p == (LogTable[t] + LogTable[u]) % Order
       IN  ExpTable[IF p = Order - 1 THEN 0 ELSE p]

Times(t, u) ==
  IF t = Zero \/ u = Zero THEN Zero ELSE ExpTable[(LogTable[t] + LogTable[u]) % (Order - 1)]

InverseOf(t) == ExpTable[(Order - 1 - LogTable[t]) % (Order - 1)]

DividedBy(t, u) ==
  IF t = Zero THEN Zero ELSE ExpTable[(LogTable[t] - LogTable[u] + Order - 1) % (Order - 1)]

Pow(t, p) ==
  IF t = Zero THEN (IF p = 0 THEN One ELSE Zero) ELSE ExpTable[(LogTable[t] * p) % (Order - 1)]

-------------------------------------------------------------------------------
(* Slices *)

\* Part q of x, with bits bits, and the product of c and a part by a table.
Part(x, q, bits) == {k \in 0 .. bits - 1 : k + q * bits \in x}
PartTable(bits) ==
  [c \in Element |->
     [q \in 0 .. (Width \div bits) - 1 |->
        [part \in SUBSET (0 .. bits - 1) |-> Times(c, {k + q * bits : k \in part})]]]
MulTable   == PartTable(Width \div 2)     \* mulTable: s0 and s8
MulTable64 == PartTable(Width \div 4)     \* mulTable64: s0, s4, s8 and s12

ByTable(table, c, x, bits) ==
  SumOf([q \in DOMAIN table[c] |-> table[c][q][Part(x, q, bits)]])

\* mulSlice: whole chunks by the vector instructions, the rest by words.
MulSlice(c, in) ==
  LET start == Cardinality(DOMAIN in) - (Cardinality(DOMAIN in) % ChunkWords)
  IN  [k \in DOMAIN in |->
         IF Cardinality({l \in DOMAIN in : l < k}) < start
         THEN ByTable(MulTable64, c, in[k], Width \div 4)
         ELSE ByTable(MulTable, c, in[k], Width \div 2)]

MulAndAddSlice(c, in, out) ==
  LET product == MulSlice(c, in) IN [k \in DOMAIN in |-> Plus(out[k], product[k])]

-------------------------------------------------------------------------------
\* Products by logarithms and by both kinds of tables are those of polynomials
\* modulo the polynomial, and inverses, quotients and powers agree with them.
FieldRight ==
  /\ \A t, u \in Element :
       /\ Times(t, u) = PolyRem(PolyTimes(t, u), Modulus)
       /\ ByTable(MulTable, t, u, Width \div 2) = Times(t, u)
       /\ ByTable(MulTable64, t, u, Width \div 4) = Times(t, u)
       /\ u # Zero => Times(u, InverseOf(u)) = One /\ Times(DividedBy(t, u), u) = t
  /\ \A t \in Element, p \in 0 .. Order : Pow(t, p + 1) = Times(Pow(t, p), t)
===============================================================================
