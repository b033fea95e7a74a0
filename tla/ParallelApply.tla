----------------------------- MODULE ParallelApply -----------------------------
(***************************************************************************)
(* The multiplication of a matrix and the shards by several goroutines     *)
(* (rsec16/matrix.go).  Each goroutine has a range of the bytes of every   *)
(* row (applyMatrixParallelData) or a range of the rows                    *)
(* (applyMatrixParallelOut), and the caller waits for all of them.         *)
(*                                                                         *)
(* The value of a 16-bit word of out is the formal sum of its products: a  *)
(* set of columns, to which adding the same product twice adds nothing, as *)
(* in a field of characteristic two.                                       *)
(***************************************************************************)
EXTENDS Sequences, FiniteSetsExt

CONSTANTS
  Rows,            \* len(out)
  Columns,         \* len(in)
  Bytes,           \* len(in[0])
  NumGoroutines,   \* as asked for by the caller
  ByRow,           \* applyMatrixParallelOut, or else applyMatrixParallelData
  MinLength,       \* minPerGoroutineLength: 1 by row, 16 by data
  Divisor,         \* perGoroutineLengthDivisor: 1 by row, 16 by data
  Old              \* what a word of out holds before the call

ASSUME SizeAssumption ==
  /\ Rows \in Nat \ {0} /\ Columns \in Nat \ {0} /\ Bytes \in Nat \ {0}
  /\ Bytes % 2 = 0
ASSUME ParallelAssumption ==
  /\ NumGoroutines \in Nat \ {0} /\ ByRow \in BOOLEAN
  /\ MinLength \in Nat \ {0} /\ Divisor \in Nat \ {0}
  /\ ~ByRow => Divisor % 2 = 0
ASSUME OldAssumption == Old \notin Nat

VARIABLES
  out,       \* out[<<r, w>>]: the value of word w of row r
  caller,    \* "called", "spawning" or "returned"
  spawned,   \* number of goroutines that were started
  wg,        \* the counter of the WaitGroup
  worker,    \* worker[g]: "none", "running" or "done"
  at,        \* at[g]: the row, column and word goroutine g comes to next
  reg        \* reg[g]: <<value>> of a word that goroutine g has read and not yet
             \* written back, or <<>>

vars == <<out, caller, spawned, wg, worker, at, reg>>

Words == Bytes \div 2
Cells == (0 .. Rows - 1) \X (0 .. Words - 1)
Total == IF ByRow THEN Rows ELSE Bytes

\* calculateParallelParams: the length of a range, a multiple of Divisor, ...
PerGoroutine ==
  LET share   == (Total + NumGoroutines - 1) \div NumGoroutines
      atLeast == IF share < MinLength THEN MinLength ELSE share
      rem     == atLeast % Divisor
  IN  IF rem # 0 THEN atLeast + (Divisor - rem) ELSE atLeast

\* ... and the number of ranges.  With fewer than two the caller does the work
\* itself (applyMatrixSingle), which is the work of one goroutine.
Goroutines == 0 .. ((Total + PerGoroutine - 1) \div PerGoroutine) - 1

Start(g) == g * PerGoroutine

\* Mutation: a range goes two bytes, or rows, into the next.
EndLate(g) == IF Start(g) + PerGoroutine + 2 > Total THEN Total
              ELSE Start(g) + PerGoroutine + 2

End(g)   == IF Start(g) + PerGoroutine > Total THEN Total ELSE Start(g) + PerGoroutine

\* The part of out that goroutine g is given.
FirstRow(g)  == IF ByRow THEN Start(g) ELSE 0
EndRow(g)    == IF ByRow THEN End(g) ELSE Rows
FirstWord(g) == IF ByRow THEN 0 ELSE Start(g) \div 2
EndWord(g)   == IF ByRow THEN Words ELSE End(g) \div 2

Owned(g) == {c \in Cells : /\ FirstRow(g) <= c[1] /\ c[1] < EndRow(g)
                           /\ FirstWord(g) <= c[2] /\ c[2] < EndWord(g)}

-------------------------------------------------------------------------------
Init ==
  /\ out = [c \in Cells |-> {Old}]
  /\ caller = "called"
  /\ spawned = 0
  /\ wg = 0
  /\ worker = [g \in Goroutines |-> "none"]
  /\ at = [g \in Goroutines |-> [row |-> FirstRow(g), col |-> 0, word |-> FirstWord(g)]]
  /\ reg = [g \in Goroutines |-> <<>>]

\* Mutation: the caller counts only the other goroutines.
AddOthers ==
  /\ caller = "called"
  /\ caller' = "spawning"
  /\ wg' = Cardinality(Goroutines) - 1
  /\ UNCHANGED <<out, spawned, worker, at, reg>>

Add ==
  /\ caller = "called"
  /\ caller' = "spawning"
  /\ wg' = Cardinality(Goroutines)
  /\ UNCHANGED <<out, spawned, worker, at, reg>>

Go ==
  /\ caller = "spawning"
  /\ spawned \in Goroutines
  /\ worker' = [worker EXCEPT ![spawned] = "running"]
  /\ spawned' = spawned + 1
  /\ UNCHANGED <<out, caller, wg, at, reg>>

Wait ==
  /\ caller = "spawning"
  /\ spawned \notin Goroutines
  /\ wg = 0
  /\ caller' = "returned"
  /\ UNCHANGED <<out, spawned, wg, worker, at, reg>>

-------------------------------------------------------------------------------
(* applyMatrixSlice: for every row, for every column, for every word. *)

InRange(g) == at[g].row < EndRow(g)
Cell(g)    == <<at[g].row, at[g].word>>

Advance(g) ==
  LET p == at[g] IN
  at' = [at EXCEPT ![g] =
          IF p.word + 1 < EndWord(g) THEN [p EXCEPT !.word = p.word + 1]
          ELSE IF p.col + 1 < Columns
          THEN [p EXCEPT !.col = p.col + 1, !.word = FirstWord(g)]
          ELSE [row |-> p.row + 1, col |-> 0, word |-> FirstWord(g)]]

\* Mutation: the first product is added to what was there.
MulOntoOld(g) ==
  /\ worker[g] = "running"
  /\ InRange(g)
  /\ at[g].col = 0
  /\ out' = [out EXCEPT ![Cell(g)] = SymDiff(@, {0})]
  /\ Advance(g)
  /\ UNCHANGED <<caller, spawned, wg, worker, reg>>

\* MulByteSliceLE overwrites the word with the product of the first column, ...
Mul(g) ==
  /\ worker[g] = "running"
  /\ InRange(g)
  /\ at[g].col = 0
  /\ out' = [out EXCEPT ![Cell(g)] = {0}]
  /\ Advance(g)
  /\ UNCHANGED <<caller, spawned, wg, worker, reg>>

\* ... and MulAndAddByteSliceLE reads it ...
Read(g) ==
  /\ worker[g] = "running"
  /\ InRange(g)
  /\ at[g].col > 0
  /\ reg[g] = <<>>
  /\ reg' = [reg EXCEPT ![g] = <<out[Cell(g)]>>]
  /\ UNCHANGED <<out, caller, spawned, wg, worker, at>>

\* ... and writes it back with the product of another column added.
AddProduct(g) ==
  /\ worker[g] = "running"
  /\ InRange(g)
  /\ at[g].col > 0
  /\ reg[g] # <<>>
  /\ out' = [out EXCEPT ![Cell(g)] = SymDiff(reg[g][1], {at[g].col})]
  /\ reg' = [reg EXCEPT ![g] = <<>>]
  /\ Advance(g)
  /\ UNCHANGED <<caller, spawned, wg, worker>>

Done(g) ==
  /\ worker[g] = "running"
  /\ ~InRange(g)
  /\ worker' = [worker EXCEPT ![g] = "done"]
  /\ wg' = wg - 1
  /\ UNCHANGED <<out, caller, spawned, at, reg>>

Work(g) == Mul(g) \/ Read(g) \/ AddProduct(g) \/ Done(g)

Next == Add \/ Go \/ Wait \/ \E g \in Goroutines : Work(g)

\* The caller and the goroutines never wait but for each other, and the Go
\* scheduler runs every goroutine that can run.
Fairness == WF_vars(Add \/ Go \/ Wait) /\ \A g \in Goroutines : WF_vars(Work(g))

Spec == Init /\ [][Next]_vars /\ Fairness

-------------------------------------------------------------------------------
(* Properties. *)

AllColumns == 0 .. Columns - 1

Running(g) == worker[g] = "running" /\ InRange(g)

\* Every goroutine stays in its range, and the WaitGroup counts those that are
\* not done.
TypeOK ==
  /\ out \in [Cells -> SUBSET (AllColumns \cup {Old})]
  /\ caller \in {"called", "spawning", "returned"}
  /\ spawned \in Nat
  /\ wg \in Nat
  /\ worker \in [Goroutines -> {"none", "running", "done"}]
  /\ at \in [Goroutines -> [row : Nat, col : AllColumns, word : Nat]]
  /\ \A g \in Goroutines : /\ FirstRow(g) <= at[g].row
                           /\ FirstWord(g) <= at[g].word /\ at[g].word < EndWord(g)
  /\ reg \in [Goroutines -> Seq(SUBSET (AllColumns \cup {Old}))]

\* No two goroutines are ever at the same word of out: the ranges that
\* calculateParallelParams gives them do not overlap, so that the goroutines
\* need no lock.
NoRace ==
  \A g, h \in Goroutines : Running(g) /\ Running(h) /\ g # h => Cell(g) # Cell(h)

\* How much of its part of out goroutine g has computed.
Expected(g, c) ==
  IF c[1] < at[g].row THEN AllColumns
  ELSE IF c[1] > at[g].row THEN {Old}
  ELSE IF c[2] < at[g].word THEN 0 .. at[g].col
  ELSE IF at[g].col = 0 THEN {Old}
  ELSE 0 .. at[g].col - 1

\* The inductive invariant: every goroutine has computed what is behind it in
\* its own part of out and nothing else, whatever the others did meanwhile, and
\* a word it has read is still what it was.
IndInv ==
  /\ \A g \in Goroutines, c \in Cells : c \in Owned(g) => out[c] = Expected(g, c)
  /\ \A g \in Goroutines : reg[g] # <<>> =>
       Running(g) /\ at[g].col > 0 /\ reg[g] = <<out[Cell(g)]>>
  /\ \A g \in Goroutines : worker[g] = "done" => ~InRange(g)
  /\ caller = "called" => spawned = 0
  /\ \A g \in Goroutines : worker[g] = "none" <=> spawned <= g
  /\ caller # "called" => wg = Cardinality({g \in Goroutines : worker[g] # "done"})
  /\ caller = "returned" => \A g \in Goroutines : worker[g] = "done"

\* The goroutines together compute the product, and all of it before the caller
\* goes on.
Product == INSTANCE MatrixProduct WITH
  product  <- IF caller = "returned" THEN {c \in Cells : out[c] = AllColumns} ELSE {},
  returned <- caller = "returned"

Implements == Product!Spec
===============================================================================
