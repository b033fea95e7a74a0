------------------------------ MODULE Par2Slices ------------------------------
(***************************************************************************)
(* How PAR2 cuts a file into slices, and how the decoder looks for known   *)
(* slices in whatever bytes a file holds now.  A checksum pair (CRC32 and  *)
(* MD5 of a slice) is abstracted to the slice itself: two slices have the  *)
(* same checksums iff they are equal.                                      *)
(***************************************************************************)
EXTENDS Integers, Sequences, FiniteSets

CONSTANTS
  SliceByteCount,     \* bytes per slice: mainPacket.sliceByteCount
  ZeroByte            \* the byte 0

ASSUME SliceByteCountAssumption == SliceByteCount \in Nat \ {0}

\* The slice that starts at byte offset j, padded with zeros at the end.
Slice(bytes, j) ==
  [k \in 1..SliceByteCount |-> IF j + k <= Len(bytes) THEN bytes[j + k] ELSE ZeroByte]

\* The scan of bytes goes from one offset to another: it starts at 0, moves on
\* by one byte after a miss and by a whole slice after a hit, up to the end.
ScanClosed(offsets, bytes, known) ==
  /\ 0 \in offsets
  /\ \A j \in offsets :
       LET next == IF Slice(bytes, j) \in known THEN j + SliceByteCount ELSE j + 1
       IN  next < Len(bytes) => next \in offsets

\* Mutation: the scan stops before a last slice that needs padding.
ScanHitsWhole(bytes, known) ==
  {j \in 0 .. Len(bytes) - SliceByteCount :
     /\ Slice(bytes, j) \in known
     /\ \A offsets \in SUBSET (0 .. Len(bytes) - 1) :
          ScanClosed(offsets, bytes, known) => j \in offsets}

\* The offsets it looks at are those in every set closed under its moves; the
\* hits are those where it finds a slice of known.
ScanHits(bytes, known) ==
  {j \in 0 .. Len(bytes) - 1 :
     /\ Slice(bytes, j) \in known
     /\ \A offsets \in SUBSET (0 .. Len(bytes) - 1) :
          ScanClosed(offsets, bytes, known) => j \in offsets}
===============================================================================
