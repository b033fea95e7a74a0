-------------------------- MODULE ParallelApplyProofs --------------------------
(***************************************************************************)
(* Proofs about ParallelApply, for every number of rows, columns, bytes    *)
(* and goroutines, and every minimum and divisor of the ranges.            *)
(***************************************************************************)
EXTENDS ParallelApply, FiniteSetTheorems, TLAPS

(* Arithmetic. *)

LEMMA Division ==
  ASSUME NEW a \in Nat, NEW b \in Nat \ {0}
  PROVE  /\ a \div b \in Nat
         /\ a % b \in 0 .. b - 1
         /\ a = b * (a \div b) + (a % b)
OBVIOUS

LEMMA TimesMonotone ==
  ASSUME NEW a \in Nat, NEW b \in Nat, NEW c \in Nat, a <= b
  PROVE  a * c <= b * c
<1>1. PICK d \in Nat : b = a + d
  <2>1. b - a \in Nat /\ b = a + (b - a)
    OBVIOUS
  <2>2. QED BY <2>1
<1>2. b * c = a * c + d * c
  BY <1>1
<1>3. d * c \in Nat /\ a * c \in Nat
  OBVIOUS
<1>4. QED BY <1>2, <1>3

LEMMA EvenTimes ==
  ASSUME NEW a \in Nat, NEW b \in Nat, a % 2 = 0
  PROVE  (a * b) % 2 = 0
<1>1. PICK c \in Nat : a = 2 * c
  <2>1. a = 2 * (a \div 2) /\ a \div 2 \in Nat
    OBVIOUS
  <2>2. QED BY <2>1
<1>2. a * b = 2 * (c * b)
  BY <1>1
<1>3. c * b \in Nat
  OBVIOUS
<1>4. \A d, e \in Nat : e = 2 * d => e % 2 = 0
  OBVIOUS
<1>5. a * b \in Nat
  OBVIOUS
<1>6. QED BY <1>2, <1>3, <1>4, <1>5

-------------------------------------------------------------------------------
(* calculateParallelParams. *)

\* The length of a range is at least one, and even when bytes are divided.
LEMMA PerGoroutineFacts ==
  /\ Total \in Nat \ {0}
  /\ PerGoroutine \in Nat \ {0}
  /\ ~ByRow => PerGoroutine % 2 = 0
<1> USE SizeAssumption, ParallelAssumption
<1> DEFINE share   == (Total + NumGoroutines - 1) \div NumGoroutines
           atLeast == IF share < MinLength THEN MinLength ELSE share
           rem     == atLeast % Divisor
           q       == atLeast \div Divisor
<1>1. Total \in Nat \ {0}
  BY DEF Total
<1>2. share \in Nat
  BY <1>1, Division
<1>3. atLeast \in Nat \ {0}
  BY <1>2
<1> HIDE DEF atLeast
<1>4. q \in Nat /\ rem \in 0 .. Divisor - 1 /\ atLeast = Divisor * q + rem
  BY <1>3, Division
<1>5. PerGoroutine = IF rem # 0 THEN atLeast + (Divisor - rem) ELSE atLeast
  BY DEF PerGoroutine, atLeast
<1> HIDE DEF q, rem
<1>6. PerGoroutine \in Nat \ {0}
  BY <1>3, <1>4, <1>5
<1>7. \E k \in Nat : PerGoroutine = Divisor * k
  <2>1. CASE rem = 0
    BY <2>1, <1>4, <1>5
  <2>2. CASE rem # 0
    <3>1. PerGoroutine = Divisor * q + Divisor
      BY <2>2, <1>3, <1>4, <1>5
    <3>2. Divisor * q + Divisor = Divisor * (q + 1)
      BY <1>4
    <3>3. QED BY <1>4, <3>1, <3>2
  <2>3. QED BY <2>1, <2>2
<1>8. ~ByRow => PerGoroutine % 2 = 0
  BY <1>7, EvenTimes
<1>9. QED BY <1>1, <1>6, <1>8

\* The ranges begin inside of the total, ...
LEMMA StartFacts ==
  ASSUME NEW g \in Goroutines
  PROVE  /\ g \in Nat
         /\ Start(g) \in Nat /\ Start(g) < Total
         /\ End(g) \in Nat /\ Start(g) < End(g) /\ End(g) <= Total
         /\ End(g) <= Start(g) + PerGoroutine
<1> DEFINE T == Total
           P == PerGoroutine
           n == (T + P - 1) \div P
<1>1. T \in Nat \ {0} /\ P \in Nat \ {0}
  BY PerGoroutineFacts
<1> HIDE DEF T, P
<1>2. n \in Nat /\ T + P - 1 = P * n + ((T + P - 1) % P) /\ (T + P - 1) % P \in 0 .. P - 1
  BY <1>1, T + P - 1 \in Nat, Division
<1>3. g \in 0 .. n - 1
  BY DEF Goroutines, T, P
<1> HIDE DEF n
<1>4. g + 1 \in Nat /\ g + 1 <= n
  BY <1>2, <1>3
<1>5. (g + 1) * P <= n * P
  BY <1>1, <1>2, <1>4, TimesMonotone
<1>6. g * P \in Nat /\ (g + 1) * P = g * P + P /\ n * P = P * n
  BY <1>1, <1>2, <1>3
<1>7. g * P < T
  BY <1>1, <1>2, <1>5, <1>6
<1>8. Start(g) = g * P
  BY DEF Start, P
<1>9. QED BY <1>1, <1>3, <1>6, <1>7, <1>8 DEF End, T, P

\* ... do not overlap ...
LEMMA RangesDisjoint ==
  ASSUME NEW g \in Goroutines, NEW h \in Goroutines, g < h
  PROVE  End(g) <= Start(h)
<1> DEFINE P == PerGoroutine
<1>1. g \in Nat /\ h \in Nat /\ P \in Nat
  BY StartFacts, PerGoroutineFacts
<1> HIDE DEF P
<1>2. (g + 1) * P <= h * P
  BY <1>1, TimesMonotone
<1>3. (g + 1) * P = g * P + P
  BY <1>1
<1>4. g * P \in Nat /\ h * P \in Nat
  BY <1>1
<1>5. End(g) <= g * P + P /\ Start(h) = h * P /\ End(g) \in Nat
  BY StartFacts DEF Start, P
<1>6. QED BY <1>1, <1>2, <1>3, <1>4, <1>5

\* ... and cover everything.
LEMMA RangesCover ==
  ASSUME NEW x \in 0 .. Total - 1
  PROVE  \E g \in Goroutines : Start(g) <= x /\ x < End(g)
<1> DEFINE T == Total
           P == PerGoroutine
           n == (T + P - 1) \div P
           g == x \div P
<1>1. T \in Nat \ {0} /\ P \in Nat \ {0} /\ x \in 0 .. T - 1
  BY PerGoroutineFacts
<1>2. Goroutines = 0 .. n - 1 /\ Start(g) = g * P
  BY DEF Goroutines, Start
<1>3. End(g) = IF Start(g) + P > T THEN T ELSE Start(g) + P
  BY DEF End
<1> HIDE DEF T, P
<1>4. n \in Nat /\ T + P - 1 = P * n + ((T + P - 1) % P) /\ (T + P - 1) % P \in 0 .. P - 1
  BY <1>1, T + P - 1 \in Nat, Division
<1>5. g \in Nat /\ x = P * g + (x % P) /\ x % P \in 0 .. P - 1
  BY <1>1, x \in Nat, Division
<1> HIDE DEF n, g
<1>6. n * P = P * n /\ g * P = P * g /\ n * P \in Nat /\ g * P \in Nat
  BY <1>1, <1>4, <1>5
<1>7. g < n
  <2>1. SUFFICES ASSUME n <= g PROVE FALSE
    BY <1>4, <1>5
  <2>2. n * P <= g * P
    BY <1>1, <1>4, <1>5, <2>1, TimesMonotone
  <2>3. QED BY <1>1, <1>4, <1>5, <1>6, <2>2
<1>8. g \in Goroutines
  BY <1>2, <1>4, <1>5, <1>7
<1>9. Start(g) <= x /\ x < End(g)
  BY <1>1, <1>2, <1>3, <1>5, <1>6
<1>10. QED BY <1>8, <1>9

-------------------------------------------------------------------------------
(* Every word of out has one owner. *)

LEMMA OwnerFacts ==
  ASSUME NEW g \in Goroutines
  PROVE  /\ FirstRow(g) \in Nat /\ EndRow(g) \in Nat
         /\ FirstRow(g) < EndRow(g) /\ EndRow(g) <= Rows
         /\ FirstWord(g) \in Nat /\ EndWord(g) \in Nat
         /\ FirstWord(g) < EndWord(g) /\ EndWord(g) <= Words
         /\ ~ByRow => Start(g) = 2 * FirstWord(g) /\ End(g) = 2 * EndWord(g)
<1> USE SizeAssumption, ParallelAssumption
<1>1. Words \in Nat \ {0} /\ Bytes = 2 * Words
  BY DEF Words
<1>2. CASE ByRow
  BY <1>1, <1>2, StartFacts DEF FirstRow, EndRow, FirstWord, EndWord, Total
<1>3. CASE ~ByRow
  <2>1. PerGoroutine \in Nat \ {0} /\ PerGoroutine % 2 = 0
    BY <1>3, PerGoroutineFacts
  <2>2. (PerGoroutine * g) % 2 = 0
    BY <2>1, StartFacts, EvenTimes
  <2>3. Start(g) % 2 = 0
    BY <2>1, <2>2, StartFacts DEF Start
  <2>4. End(g) % 2 = 0
    BY <1>3, <2>1, <2>3, StartFacts DEF End, Total
  <2>5. /\ Start(g) = 2 * (Start(g) \div 2) /\ Start(g) \div 2 \in Nat
        /\ End(g) = 2 * (End(g) \div 2) /\ End(g) \div 2 \in Nat
    BY <2>3, <2>4, StartFacts
  <2>6. Start(g) < End(g) /\ End(g) <= Bytes
    BY <1>3, StartFacts DEF Total
  <2>7. QED BY <1>1, <1>3, <2>5, <2>6 DEF FirstRow, EndRow, FirstWord, EndWord
<1>4. QED BY <1>2, <1>3

LEMMA OwnersDiffer ==
  ASSUME NEW g \in Goroutines, NEW h \in Goroutines, g # h,
         NEW c \in Owned(g)
  PROVE  c \notin Owned(h)
<1>1. ASSUME NEW a \in Goroutines, NEW b \in Goroutines, a < b, c \in Owned(a)
      PROVE  c \notin Owned(b)
  <2>1. End(a) <= Start(b)
    BY <1>1, RangesDisjoint
  <2>2. CASE ByRow
    <3>1. EndRow(a) <= FirstRow(b)
      BY <2>1, <2>2 DEF FirstRow, EndRow
    <3>2. QED BY <1>1, <3>1, OwnerFacts DEF Owned, Cells
  <2>3. CASE ~ByRow
    <3>1. EndWord(a) <= FirstWord(b)
      BY <2>1, <2>3, OwnerFacts
    <3>2. QED BY <1>1, <3>1, OwnerFacts DEF Owned, Cells
  <2>4. QED BY <2>2, <2>3
<1>2. g < h \/ h < g
  BY StartFacts
<1>3. QED BY <1>1, <1>2

LEMMA OwnerExists ==
  ASSUME NEW c \in Cells
  PROVE  \E g \in Goroutines : c \in Owned(g)
<1> USE SizeAssumption, ParallelAssumption
<1>1. c[1] \in 0 .. Rows - 1 /\ c[2] \in 0 .. Words - 1
  BY DEF Cells
<1>2. Words \in Nat /\ Bytes = 2 * Words
  BY DEF Words
<1>3. CASE ByRow
  <2>1. PICK g \in Goroutines : Start(g) <= c[1] /\ c[1] < End(g)
    BY <1>1, <1>3, RangesCover DEF Total
  <2>2. QED BY <1>1, <1>2, <1>3, <2>1 DEF Owned, FirstRow, EndRow, FirstWord, EndWord
<1>4. CASE ~ByRow
  <2>1. 2 * c[2] \in 0 .. Total - 1
    BY <1>1, <1>2, <1>4 DEF Total
  <2>2. PICK g \in Goroutines : Start(g) <= 2 * c[2] /\ 2 * c[2] < End(g)
    BY <2>1, RangesCover
  <2>3. FirstWord(g) <= c[2] /\ c[2] < EndWord(g)
    BY <1>1, <1>4, <2>2, OwnerFacts
  <2>4. QED BY <1>1, <1>4, <2>3 DEF Owned, FirstRow, EndRow
<1>5. QED BY <1>3, <1>4

LEMMA OwnedAt ==
  ASSUME TypeOK, NEW g \in Goroutines, InRange(g)
  PROVE  Cell(g) \in Owned(g) /\ Cell(g) \in Cells
<1>1. at[g].row \in Nat /\ at[g].word \in Nat
  BY DEF TypeOK
<1>2. /\ FirstRow(g) <= at[g].row /\ at[g].row < EndRow(g)
      /\ FirstWord(g) <= at[g].word /\ at[g].word < EndWord(g)
  BY DEF TypeOK, InRange
<1>3. Cell(g) \in Cells
  <2>1. at[g].row \in 0 .. Rows - 1 /\ at[g].word \in 0 .. Words - 1
    BY <1>1, <1>2, OwnerFacts, SizeAssumption DEF Words
  <2>2. QED BY <2>1 DEF Cell, Cells
<1>4. QED BY <1>2, <1>3 DEF Owned, Cell

\* Data-race freedom follows from the ranges alone.
LEMMA TypeNoRace == TypeOK => NoRace
<1> SUFFICES ASSUME TypeOK, NEW g \in Goroutines, NEW h \in Goroutines,
                    Running(g), Running(h), g # h
             PROVE  Cell(g) # Cell(h)
  BY DEF NoRace
<1>1. Cell(g) \in Owned(g) /\ Cell(h) \in Owned(h)
  BY OwnedAt DEF Running
<1>2. QED BY <1>1, OwnersDiffer

-------------------------------------------------------------------------------
(* One step of a goroutine along its part of out. *)

LEMMA AdvanceFacts ==
  ASSUME TypeOK, NEW g \in Goroutines, InRange(g), Advance(g)
  PROVE  /\ \A h \in Goroutines : h # g => at'[h] = at[h]
         /\ at' \in [Goroutines -> [row : Nat, col : AllColumns, word : Nat]]
         /\ FirstRow(g) <= at'[g].row
         /\ FirstWord(g) <= at'[g].word /\ at'[g].word < EndWord(g)
         /\ \A c \in Owned(g) :
              Expected(g, c)' = IF c = Cell(g) THEN 0 .. at[g].col ELSE Expected(g, c)
<1> DEFINE r == at[g].row
           k == at[g].col
           w == at[g].word
<1>1. at \in [Goroutines -> [row : Nat, col : AllColumns, word : Nat]]
  BY DEF TypeOK
<1>2. r \in Nat /\ k \in AllColumns /\ w \in Nat
  BY <1>1
<1>3. FirstRow(g) <= r /\ FirstWord(g) <= w /\ w < EndWord(g)
  BY DEF TypeOK
<1>4. FirstWord(g) \in Nat /\ EndWord(g) \in Nat /\ FirstWord(g) < EndWord(g)
      /\ FirstRow(g) \in Nat
  BY OwnerFacts
<1>5. /\ \A h \in Goroutines : h # g => at'[h] = at[h]
      /\ at'[g] = IF w + 1 < EndWord(g) THEN [at[g] EXCEPT !.word = w + 1]
                  ELSE IF k + 1 < Columns
                  THEN [at[g] EXCEPT !.col = k + 1, !.word = FirstWord(g)]
                  ELSE [row |-> r + 1, col |-> 0, word |-> FirstWord(g)]
      /\ at' = [h \in Goroutines |-> at'[h]]
  <2> DEFINE next == IF w + 1 < EndWord(g) THEN [at[g] EXCEPT !.word = w + 1]
                     ELSE IF k + 1 < Columns
                     THEN [at[g] EXCEPT !.col = k + 1, !.word = FirstWord(g)]
                     ELSE [row |-> r + 1, col |-> 0, word |-> FirstWord(g)]
  <2>1. at' = [at EXCEPT ![g] = next]
    BY Zenon DEF Advance
  <2> HIDE DEF next
  <2>2. at'[g] = next /\ at' = [h \in Goroutines |-> at'[h]]
        /\ \A h \in Goroutines : h # g => at'[h] = at[h]
    BY <1>1, <2>1
  <2>3. QED BY <2>2 DEF next
<1>6. \A c \in Owned(g) : /\ c = <<c[1], c[2]>> /\ c[1] \in Nat /\ c[2] \in Nat
                          /\ FirstWord(g) <= c[2] /\ c[2] < EndWord(g)
  BY DEF Owned, Cells
<1>7. \A c \in Owned(g) : c = Cell(g) <=> c[1] = r /\ c[2] = w
  BY <1>6 DEF Cell
<1>8. CASE w + 1 < EndWord(g)
  <2>1. at'[g] = [row |-> r, col |-> k, word |-> w + 1]
    BY <1>1, <1>5, <1>8
  <2>2. at'[g] \in [row : Nat, col : AllColumns, word : Nat]
    BY <1>2, <2>1
  <2>3. at' \in [Goroutines -> [row : Nat, col : AllColumns, word : Nat]]
    BY <1>1, <1>5, <2>2
  <2>4. ASSUME NEW c \in Owned(g)
        PROVE  Expected(g, c)' = IF c = Cell(g) THEN 0 .. k ELSE Expected(g, c)
    BY <1>2, <1>6, <1>7, <2>1 DEF Expected
  <2>5. QED BY <1>2, <1>3, <1>4, <1>5, <1>8, <2>1, <2>3, <2>4
<1>9. CASE ~(w + 1 < EndWord(g)) /\ k + 1 < Columns
  <2>1. at'[g] = [row |-> r, col |-> k + 1, word |-> FirstWord(g)]
    BY <1>1, <1>5, <1>9
  <2>2. at'[g] \in [row : Nat, col : AllColumns, word : Nat]
    BY <1>2, <1>4, <1>9, <2>1, SizeAssumption DEF AllColumns
  <2>3. at' \in [Goroutines -> [row : Nat, col : AllColumns, word : Nat]]
    BY <1>1, <1>5, <2>2
  <2>4. ASSUME NEW c \in Owned(g)
        PROVE  Expected(g, c)' = IF c = Cell(g) THEN 0 .. k ELSE Expected(g, c)
    <3>1. k \in Nat /\ (k + 1) - 1 = k /\ k + 1 # 0
      BY <1>2 DEF AllColumns
    <3>2. c[2] <= w
      BY <1>2, <1>4, <1>6, <1>9
    <3>3. Expected(g, c)' = IF c[1] < r THEN AllColumns
                            ELSE IF c[1] > r THEN {Old} ELSE 0 .. k
      BY <1>4, <1>6, <2>1, <3>1 DEF Expected, AllColumns
    <3>4. QED BY <1>2, <1>6, <1>7, <3>2, <3>3 DEF Expected
  <2>5. QED BY <1>2, <1>3, <1>4, <1>5, <2>1, <2>3, <2>4
<1>10. CASE ~(w + 1 < EndWord(g)) /\ ~(k + 1 < Columns)
  <2>1. at'[g] = [row |-> r + 1, col |-> 0, word |-> FirstWord(g)]
    BY <1>1, <1>5, <1>10
  <2>2. at'[g] \in [row : Nat, col : AllColumns, word : Nat]
    BY <1>2, <1>4, <2>1, SizeAssumption DEF AllColumns
  <2>3. at' \in [Goroutines -> [row : Nat, col : AllColumns, word : Nat]]
    BY <1>1, <1>5, <2>2
  <2>4. ASSUME NEW c \in Owned(g)
        PROVE  Expected(g, c)' = IF c = Cell(g) THEN 0 .. k ELSE Expected(g, c)
    <3>1. AllColumns = 0 .. k
      BY <1>2, <1>10, SizeAssumption DEF AllColumns
    <3>2. c[2] <= w
      BY <1>2, <1>4, <1>6, <1>10
    <3>3. Expected(g, c)' = IF c[1] < r + 1 THEN AllColumns ELSE {Old}
      BY <1>2, <1>4, <1>6, <2>1 DEF Expected, AllColumns
    <3>4. QED BY <1>2, <1>6, <1>7, <3>1, <3>2, <3>3 DEF Expected
  <2>5. QED BY <1>2, <1>3, <1>4, <1>5, <2>1, <2>3, <2>4
<1>11. QED BY <1>8, <1>9, <1>10

-------------------------------------------------------------------------------
(* The inductive invariant. *)

Unfinished == {g \in Goroutines : worker[g] # "done"}

LEMMA UnfinishedFinite == IsFiniteSet(Goroutines) /\ IsFiniteSet(Unfinished)
<1>1. (Total + PerGoroutine - 1) \div PerGoroutine \in Nat
  BY PerGoroutineFacts, Total + PerGoroutine - 1 \in Nat, Division
<1>2. IsFiniteSet(Goroutines)
  BY <1>1, FS_Interval DEF Goroutines
<1>3. QED BY <1>2, FS_Subset DEF Unfinished

LEMMA InitConsistent == Init => TypeOK /\ IndInv
<1> SUFFICES ASSUME Init PROVE TypeOK /\ IndInv
  OBVIOUS
<1>1. 0 \in AllColumns
  BY SizeAssumption DEF AllColumns
<1>2. out \in [Cells -> SUBSET (AllColumns \cup {Old})]
  BY DEF Init
<1>3. at \in [Goroutines -> [row : Nat, col : AllColumns, word : Nat]]
  BY <1>1, OwnerFacts DEF Init
<1>4. TypeOK
  BY <1>2, <1>3, OwnerFacts DEF Init, TypeOK
<1>5. ASSUME NEW g \in Goroutines, NEW c \in Cells, c \in Owned(g)
      PROVE  out[c] = Expected(g, c)
  <2>1. at[g] = [row |-> FirstRow(g), col |-> 0, word |-> FirstWord(g)] /\ out[c] = {Old}
    BY DEF Init
  <2>2. FirstRow(g) <= c[1] /\ FirstWord(g) <= c[2] /\ c[1] \in Nat /\ c[2] \in Nat
    BY <1>5 DEF Owned, Cells
  <2>3. QED BY <2>1, <2>2, OwnerFacts DEF Expected
<1>6. IndInv
  BY <1>5, StartFacts DEF Init, IndInv
<1>7. QED BY <1>4, <1>6

\* A goroutine writes the right value to its next word: nothing else changes in
\* what any goroutine is expected to have computed.
LEMMA WriteConsistent ==
  ASSUME TypeOK, IndInv, NEW g \in Goroutines, Running(g), Advance(g),
         out' = [out EXCEPT ![Cell(g)] = 0 .. at[g].col],
         reg' = [reg EXCEPT ![g] = <<>>],
         UNCHANGED <<caller, spawned, wg, worker>>
  PROVE  TypeOK' /\ IndInv'
<1> USE DEF Running
<1>1. Cell(g) \in Owned(g) /\ Cell(g) \in Cells
  BY OwnedAt
<1>2. /\ \A h \in Goroutines : h # g => at'[h] = at[h]
      /\ at' \in [Goroutines -> [row : Nat, col : AllColumns, word : Nat]]
      /\ FirstRow(g) <= at'[g].row
      /\ FirstWord(g) <= at'[g].word /\ at'[g].word < EndWord(g)
      /\ \A c \in Owned(g) :
           Expected(g, c)' = IF c = Cell(g) THEN 0 .. at[g].col ELSE Expected(g, c)
  BY AdvanceFacts
<1>3. out' \in [Cells -> SUBSET (AllColumns \cup {Old})]
  <2>1. at[g].col \in AllColumns
    BY DEF TypeOK
  <2>2. 0 .. at[g].col \subseteq AllColumns
    BY <2>1, SizeAssumption DEF AllColumns
  <2>3. QED BY <1>1, <2>2 DEF TypeOK
<1>4. reg' \in [Goroutines -> Seq(SUBSET (AllColumns \cup {Old}))]
  BY DEF TypeOK
<1>5. TypeOK'
  <2>1. \A h \in Goroutines : /\ FirstRow(h) <= at'[h].row
                             /\ FirstWord(h) <= at'[h].word /\ at'[h].word < EndWord(h)
    BY <1>2 DEF TypeOK
  <2>2. QED BY <1>2, <1>3, <1>4, <2>1 DEF TypeOK
<1>6. ASSUME NEW h \in Goroutines, NEW c \in Cells, c \in Owned(h)
      PROVE  out'[c] = Expected(h, c)'
  <2>1. out[c] = Expected(h, c)
    BY <1>6 DEF IndInv
  <2>2. CASE h = g
    BY <1>2, <1>6, <2>1, <2>2 DEF TypeOK
  <2>3. CASE h # g
    <3>1. c # Cell(g)
      BY <1>1, <1>6, <2>3, OwnersDiffer
    <3>2. Expected(h, c)' = Expected(h, c)
      BY <1>2, <2>3 DEF Expected
    <3>3. QED BY <2>1, <3>1, <3>2 DEF TypeOK
  <2>4. QED BY <2>2, <2>3
<1>7. ASSUME NEW h \in Goroutines, reg'[h] # <<>>
      PROVE  (Running(h) /\ at[h].col > 0 /\ reg[h] = <<out[Cell(h)]>>)'
  <2>1. h # g /\ reg'[h] = reg[h]
    BY <1>7 DEF TypeOK
  <2>2. Running(h) /\ at[h].col > 0 /\ reg[h] = <<out[Cell(h)]>>
    BY <1>7, <2>1 DEF IndInv
  <2>3. at'[h] = at[h]
    BY <1>2, <2>1
  <2>4. Cell(h)' = Cell(h) /\ InRange(h)' = InRange(h)
    BY <2>3 DEF Cell, InRange
  <2>5. Cell(h) # Cell(g) /\ Cell(h) \in Cells
    BY <2>1, <2>2, OwnedAt, TypeNoRace DEF NoRace
  <2>6. out'[Cell(h)] = out[Cell(h)]
    BY <2>5 DEF TypeOK
  <2>7. QED BY <2>1, <2>2, <2>3, <2>4, <2>6
<1>8. \A h \in Goroutines : worker'[h] = "done" => ~InRange(h)'
  BY <1>2 DEF IndInv, InRange
<1>9. IndInv'
  BY <1>6, <1>7, <1>8 DEF IndInv
<1>10. QED BY <1>5, <1>9

LEMMA StepConsistent == TypeOK /\ IndInv /\ [Next]_vars => (TypeOK /\ IndInv)'
<1> SUFFICES ASSUME TypeOK, IndInv, [Next]_vars
             PROVE  TypeOK' /\ IndInv'
  OBVIOUS
<1>1. CASE Add
  <2>1. \A g \in Goroutines : worker[g] = "none"
    BY <1>1, StartFacts DEF Add, IndInv
  <2>2. {g \in Goroutines : worker[g] # "done"} = Goroutines
    BY <2>1
  <2>3. Cardinality(Goroutines) \in Nat
    BY UnfinishedFinite, FS_CardinalityType
  <2>4. TypeOK'
    BY <1>1, <2>3 DEF Add, TypeOK
  <2>5. IndInv'
    BY <1>1, <2>2 DEF Add, IndInv, Expected, Running, InRange, Cell
  <2>6. QED BY <2>4, <2>5
<1>2. CASE Go
  <2>1. /\ spawned \in Goroutines /\ caller = "spawning"
        /\ worker' = [worker EXCEPT ![spawned] = "running"]
        /\ spawned' = spawned + 1
        /\ UNCHANGED <<out, caller, wg, at, reg>>
    BY <1>2 DEF Go
  <2>2. TypeOK'
    BY <2>1 DEF TypeOK
  <2>3. worker[spawned] = "none" /\ worker'[spawned] = "running"
    BY <2>1, StartFacts DEF IndInv, TypeOK
  <2>4. \A g \in Goroutines : g # spawned => worker'[g] = worker[g]
    BY <2>1 DEF TypeOK
  <2>5. Unfinished' = Unfinished
    BY <2>1, <2>3, <2>4 DEF Unfinished
  <2>6. \A g \in Goroutines : worker'[g] = "none" <=> spawned' <= g
    BY <2>1, <2>3, <2>4, StartFacts DEF IndInv
  <2>7. wg' = Cardinality(Unfinished')
    BY <2>1, <2>5 DEF IndInv, Unfinished
  <2>8. \A g \in Goroutines : reg'[g] # <<>> =>
          (Running(g) /\ at[g].col > 0 /\ reg[g] = <<out[Cell(g)]>>)'
    BY <2>1, <2>3, <2>4 DEF IndInv, Running, InRange, Cell
  <2>9. \A g \in Goroutines : worker'[g] = "done" => ~InRange(g)'
    BY <2>1, <2>3, <2>4 DEF IndInv, InRange
  <2>10. \A g \in Goroutines, c \in Cells : c \in Owned(g) => out'[c] = Expected(g, c)'
    BY <2>1 DEF IndInv, Expected
  <2>11. IndInv'
    BY <2>1, <2>6, <2>7, <2>8, <2>9, <2>10 DEF IndInv, Unfinished
  <2>12. QED BY <2>2, <2>11
<1>3. CASE Wait
  <2>1. /\ caller = "spawning" /\ caller' = "returned" /\ wg = 0
        /\ UNCHANGED <<out, spawned, wg, worker, at, reg>>
    BY <1>3 DEF Wait
  <2>2. Cardinality(Unfinished) = 0
    BY <2>1 DEF IndInv, Unfinished
  <2>3. Unfinished = {}
    BY <2>2, UnfinishedFinite, FS_EmptySet
  <2>4. \A g \in Goroutines : worker[g] = "done"
    BY <2>3 DEF Unfinished
  <2>5. TypeOK'
    BY <2>1 DEF TypeOK
  <2>6. IndInv'
    BY <2>1, <2>4 DEF IndInv, Expected, Running, InRange, Cell
  <2>7. QED BY <2>5, <2>6
<1>4. ASSUME NEW g \in Goroutines, Mul(g)
      PROVE  TypeOK' /\ IndInv'
  <2>1. Running(g) /\ Advance(g) /\ at[g].col = 0
        /\ out' = [out EXCEPT ![Cell(g)] = {0}]
        /\ UNCHANGED <<caller, spawned, wg, worker, reg>>
    BY <1>4 DEF Mul, Running
  <2>2. reg[g] = <<>>
    BY <2>1 DEF IndInv
  <2>3. reg' = [reg EXCEPT ![g] = <<>>]
    BY <2>1, <2>2 DEF TypeOK
  <2>4. 0 .. at[g].col = {0}
    BY <2>1
  <2>5. QED BY <2>1, <2>3, <2>4, WriteConsistent
<1>5. ASSUME NEW g \in Goroutines, Read(g)
      PROVE  TypeOK' /\ IndInv'
  <2>1. /\ Running(g) /\ at[g].col > 0
        /\ reg' = [reg EXCEPT ![g] = <<out[Cell(g)]>>]
        /\ UNCHANGED <<out, caller, spawned, wg, worker, at>>
    BY <1>5 DEF Read, Running
  <2>2. out[Cell(g)] \in SUBSET (AllColumns \cup {Old})
    BY <2>1, OwnedAt DEF Running, TypeOK
  <2>3. TypeOK'
    BY <2>1, <2>2 DEF TypeOK
  <2>4. \A h \in Goroutines : reg'[h] = IF h = g THEN <<out[Cell(g)]>> ELSE reg[h]
    BY <2>1 DEF TypeOK
  <2>5. \A h \in Goroutines : reg'[h] # <<>> =>
          Running(h) /\ at[h].col > 0 /\ reg'[h] = <<out[Cell(h)]>>
    BY <2>1, <2>4 DEF IndInv
  <2>6. IndInv'
    BY <2>1, <2>5 DEF IndInv, Expected, Running, InRange, Cell
  <2>7. QED BY <2>3, <2>6
<1>6. ASSUME NEW g \in Goroutines, AddProduct(g)
      PROVE  TypeOK' /\ IndInv'
  <2> DEFINE k == at[g].col
             c == Cell(g)
  <2>1. /\ Running(g) /\ Advance(g) /\ k > 0 /\ reg[g] # <<>>
        /\ out' = [out EXCEPT ![c] = SymDiff(reg[g][1], {k})]
        /\ reg' = [reg EXCEPT ![g] = <<>>]
        /\ UNCHANGED <<caller, spawned, wg, worker>>
    BY <1>6 DEF AddProduct, Running
  <2>2. reg[g] = <<out[c]>>
    BY <2>1 DEF IndInv
  <2>3. c \in Owned(g) /\ c \in Cells
    BY <2>1, OwnedAt DEF Running
  <2>4. out[c] = Expected(g, c)
    BY <2>3 DEF IndInv
  <2>5. k \in Nat /\ at[g].row \in Nat /\ at[g].word \in Nat
    BY DEF TypeOK, AllColumns
  <2>6. Expected(g, c) = 0 .. k - 1
    BY <2>1, <2>5 DEF Expected, Cell
  <2>7. SymDiff(0 .. k - 1, {k}) = 0 .. k
    BY <2>1, <2>5 DEF SymDiff
  <2>8. out' = [out EXCEPT ![c] = 0 .. k]
    <3>1. reg[g][1] = 0 .. k - 1
      BY <2>2, <2>4, <2>6
    <3>2. SymDiff(reg[g][1], {k}) = 0 .. k
      BY <2>7, <3>1
    <3> HIDE DEF c
    <3>3. QED BY <2>1, <3>2
  <2>9. QED BY <2>1, <2>8, WriteConsistent
<1>7. ASSUME NEW g \in Goroutines, Done(g)
      PROVE  TypeOK' /\ IndInv'
  <2>1. /\ worker[g] = "running" /\ ~InRange(g)
        /\ worker' = [worker EXCEPT ![g] = "done"]
        /\ wg' = wg - 1
        /\ UNCHANGED <<out, caller, spawned, at, reg>>
    BY <1>7 DEF Done
  <2>2. \A h \in Goroutines : worker'[h] = IF h = g THEN "done" ELSE worker[h]
    BY <2>1 DEF TypeOK
  <2>3. caller # "called"
    BY <2>1, StartFacts DEF IndInv
  <2>4. g \in Unfinished /\ Unfinished' = Unfinished \ {g}
    BY <2>1, <2>2 DEF Unfinished
  <2>5. wg = Cardinality(Unfinished)
    BY <2>3 DEF IndInv, Unfinished
  <2>6. wg' = Cardinality(Unfinished') /\ IsFiniteSet(Unfinished')
    BY <2>1, <2>4, <2>5, UnfinishedFinite, FS_RemoveElement
  <2>7. wg' \in Nat
    BY <2>6, FS_CardinalityType
  <2>8. TypeOK'
    BY <2>1, <2>7 DEF TypeOK
  <2>9. \A h \in Goroutines : reg'[h] # <<>> =>
          (Running(h) /\ at[h].col > 0 /\ reg[h] = <<out[Cell(h)]>>)'
    BY <2>1, <2>2 DEF IndInv, Running, InRange, Cell
  <2>10. \A h \in Goroutines : worker'[h] = "done" => ~InRange(h)'
    BY <2>1, <2>2 DEF IndInv, InRange
  <2>11. \A h \in Goroutines : worker'[h] = "none" <=> spawned' <= h
    BY <2>1, <2>2 DEF IndInv
  <2>12. \A h \in Goroutines, c \in Cells : c \in Owned(h) => out'[c] = Expected(h, c)'
    BY <2>1 DEF IndInv, Expected
  <2>13. caller' = "returned" => \A h \in Goroutines : worker'[h] = "done"
    BY <2>1, <2>2 DEF IndInv
  <2>14. caller' = "called" => spawned' = 0
    BY <2>1 DEF IndInv
  <2>15. IndInv'
    BY <2>6, <2>9, <2>10, <2>11, <2>12, <2>13, <2>14 DEF IndInv, Unfinished
  <2>16. QED BY <2>8, <2>15
<1>8. CASE UNCHANGED vars
  BY <1>8 DEF vars, TypeOK, IndInv, Expected, Running, InRange, Cell
<1>9. QED
  BY <1>1, <1>2, <1>3, <1>4, <1>5, <1>6, <1>7, <1>8 DEF Next, Work

\* Every goroutine computes its own part of out, through all interleavings.
THEOREM Computed == Spec => [](TypeOK /\ IndInv)
BY InitConsistent, StepConsistent, PTL DEF Spec

\* The goroutines never meet at a word of out, however many there are and
\* however the lengths divide.
THEOREM RaceFree == Spec => []NoRace
BY Computed, TypeNoRace, PTL

\* What the goroutines do is one step for the caller: at its end, and not before,
\* out holds the product, and it keeps it.
THEOREM ImplementsProduct == Spec => Product!SafetySpec
<1>1. ASSUME TypeOK, IndInv, \A g \in Goroutines : worker[g] = "done"
      PROVE  \A c \in Cells : out[c] = AllColumns
  <2>1. ASSUME NEW c \in Cells
        PROVE  out[c] = AllColumns
    <3>1. PICK g \in Goroutines : c \in Owned(g)
      BY OwnerExists
    <3>2. worker[g] = "done"
      BY <1>1
    <3>3. ~(at[g].row < EndRow(g))
      BY <1>1, <3>2 DEF IndInv, InRange
    <3>4. c[1] < at[g].row
      <4>1. c[1] \in Nat /\ c[1] < EndRow(g)
        BY <3>1 DEF Owned, Cells
      <4>2. at[g].row \in Nat /\ EndRow(g) \in Nat
        BY <1>1, OwnerFacts DEF TypeOK
      <4>3. QED BY <3>3, <4>1, <4>2
    <3>5. out[c] = Expected(g, c)
      BY <1>1, <3>1 DEF IndInv
    <3>6. QED BY <3>4, <3>5 DEF Expected
  <2>2. QED BY <2>1
<1>2. Init => Product!Init
  BY DEF Init, Product!Init
<1>3. (TypeOK /\ IndInv) /\ (TypeOK /\ IndInv)' /\ [Next]_vars =>
        [Product!Return]_<<IF caller = "returned" THEN {c \in Cells : out[c] = AllColumns}
                           ELSE {}, caller = "returned">>
  <2> SUFFICES ASSUME TypeOK, IndInv, TypeOK', IndInv', [Next]_vars
               PROVE  [Product!Return]_<<IF caller = "returned"
                                         THEN {c \in Cells : out[c] = AllColumns}
                                         ELSE {}, caller = "returned">>
    OBVIOUS
  <2>1. CASE Wait
    <3>1. caller # "returned" /\ caller' = "returned"
      BY <2>1 DEF Wait
    <3>2. \A c \in Cells : out'[c] = AllColumns
      <4>1. \A g \in Goroutines : worker[g] = "done"
        BY <2>1, <3>1 DEF IndInv, Wait
      <4>2. QED BY <1>1, <2>1, <4>1 DEF Wait
    <3>3. Product!Cells = Cells
      BY DEF Cells, Product!Cells
    <3>4. QED BY <3>1, <3>2, <3>3 DEF Product!Return
  <2>2. CASE caller' = caller /\ (caller = "returned" => out' = out)
    BY <2>2
  <2>3. caller = "returned" => ~\E g \in Goroutines : Work(g)
    BY DEF IndInv, Work, Mul, Read, AddProduct, Done
  <2>4. QED
    BY <2>1, <2>2, <2>3 DEF Next, Add, Go, Work, Mul, Read, AddProduct, Done, vars
<1>4. QED BY <1>2, <1>3, Computed, PTL DEF Spec, Product!SafetySpec
===============================================================================
