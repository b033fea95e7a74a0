------------------------------ MODULE MCPar2Scan ------------------------------
(***************************************************************************)
(* Bytes of two bits and a CRC of two of them (x^4 + x + 1), so that each  *)
(* CRC belongs to 16 of the 256 slices of four bytes.                      *)
(***************************************************************************)
EXTENDS Par2Scan

MCPolynomial == {2, 3}
MCFiles      == UNION {[1 .. n -> Byte] : n \in 0 .. 6}

\* One slice; one and another with the same CRC; slices that overlap with
\* themselves or end in padding.
MCSlice     == <<{0}, {1}, {0, 1}, {}>>
MCCollision == CHOOSE s \in [1 .. 4 -> Byte] :
                 s # MCSlice /\ s[1] = {1} /\ Checksum(s) = Checksum(MCSlice)
MCKnownSets == {{MCSlice}, {MCSlice, MCCollision}, {<<{}, {}, {}, {}>>, <<{0, 1}, {0, 1}, {}, {}>>}}
===============================================================================
