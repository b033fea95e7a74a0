----------------------------- MODULE Crc32Window -----------------------------
(***************************************************************************)
(* The rolling checksum of par2/crc32.go, for bytes of ByteBits bits and a *)
(* checksum of CrcBytes bytes.  A byte, or a checksum, is the set of the   *)
(* positions of its bits, so that exclusive or is Xor.  The checksum       *)
(* itself is that of Go's hash/crc32, for some polynomial.                 *)
(***************************************************************************)
EXTENDS Integers, Sequences, FiniteSets

CONSTANTS
  ByteBits,     \* 8: bits of a byte
  CrcBytes,     \* 4: bytes of a checksum
  Polynomial    \* the bits of the polynomial, reversed

Byte    == SUBSET (0 .. ByteBits - 1)
CrcBits == 0 .. CrcBytes * ByteBits - 1

ASSUME CrcAssumption ==
  /\ ByteBits \in Nat \ {0} /\ CrcBytes \in Nat \ {0}
  /\ Polynomial \subseteq CrcBits

Xor(x, y) == (x \ y) \cup (y \ x)
Not(x)    == CrcBits \ x
Shift(x, n) == {k - n : k \in {m \in x : m >= n}}     \* x >> n
LowByte(x)  == {k \in x : k < ByteBits}

\* crc32.IEEETable, indexed by the bits of a byte.
Table ==
  LET step(x) == IF 0 \in x THEN Xor(Shift(x, 1), Polynomial) ELSE Shift(x, 1)
      after[n \in 0 .. ByteBits] ==
        [byte \in Byte |-> IF n = 0 THEN byte ELSE step(after[n - 1][byte])]
  IN  after[ByteBits]

\* The checksum of the bytes so far, with one byte more.
Extended(crc, byte) ==
  LET t == Not(crc) IN Not(Xor(Table[Xor(LowByte(t), byte)], Shift(t, ByteBits)))

\* crc32.ChecksumIEEE
Checksum(a) ==
  LET crc[n \in 0 .. Len(a)] == IF n = 0 THEN {} ELSE Extended(crc[n - 1], a[n])
  IN  crc[Len(a)]

-------------------------------------------------------------------------------
(* newCRC32Window *)

\* One byte more than the window has, all zero but for those of nonzero.
Zeros(windowSize, nonzero) ==
  [k \in 1 .. windowSize + 1 |-> IF k \in DOMAIN nonzero THEN nonzero[k] ELSE {}]

Crc0(windowSize) == Checksum(Zeros(windowSize, <<>>))

\* The leader and the byte after the first CrcBytes are all ones.
WindowMask(windowSize) ==
  Checksum(Zeros(windowSize, [k \in {1, CrcBytes + 1} |-> 0 .. ByteBits - 1]))

BaseTable(windowSize) ==
  [bit \in 0 .. ByteBits - 1 |-> Checksum(Zeros(windowSize, <<{bit}>>))]

\* Mutation: the checksum of an even number of bits is not corrected.
MaskedTableOdd(windowSize) ==
  LET baseTable == BaseTable(windowSize)
      sum(byte) == {k \in CrcBits : Cardinality({b \in byte : k \in baseTable[b]}) % 2 = 1}
  IN  [byte \in Byte |-> Xor(sum(byte), WindowMask(windowSize))]

\* crcOldLeaderMaskedTable: the sum of the checksums of single bits, and that
\* of zeros if their number is even.
MaskedTable(windowSize) ==
  LET baseTable == BaseTable(windowSize)
      sum(byte) == {k \in CrcBits : Cardinality({b \in byte : k \in baseTable[b]}) % 2 = 1}
      crc(byte) == IF Cardinality(byte) % 2 = 0 THEN Xor(sum(byte), Crc0(windowSize))
                                                      ELSE sum(byte)
  IN  [byte \in Byte |-> Xor(crc(byte), WindowMask(windowSize))]

\* crc32Window.update, with the table of the window.
Update(table, crc, oldLeader, newTrailer) ==
  Xor(Extended(crc, newTrailer), table[oldLeader])
===============================================================================
