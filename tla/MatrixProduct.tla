----------------------------- MODULE MatrixProduct -----------------------------
(***************************************************************************)
(* What Coder.applyMatrix promises its callers (rsec16/coder.go:141):      *)
(* when it returns, out holds the product of the matrix and in, and no one *)
(* writes to out any more.                                                 *)
(***************************************************************************)
EXTENDS Integers

CONSTANTS
  Rows,       \* len(out)
  Columns,    \* len(in)
  Words       \* 16-bit words in each row

VARIABLES
  product,    \* the cells that hold their row times their column of in
  returned    \* whether the call is over

Cells == (0 .. Rows - 1) \X (0 .. Words - 1)

Init == product = {} /\ returned = FALSE

Return ==
  /\ ~returned
  /\ returned' = TRUE
  /\ product' = Cells

SafetySpec == Init /\ [][Return]_<<product, returned>>
Spec == SafetySpec /\ WF_<<product, returned>>(Return)
================================================================================
