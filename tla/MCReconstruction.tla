--------------------------- MODULE MCReconstruction ---------------------------
(***************************************************************************)
(* The field of 16 elements (x^4 + x + 1): 3 generates it, and 8 powers of *)
(* 2 do, as 32768 do in the code.                                          *)
(***************************************************************************)
EXTENDS Reconstruction

MCModulus    == {4, 1, 0}
MCDataCounts == {1, 2, 4, 15}
MCExponents  == {0, 3, 13, 14, 15}
===============================================================================
