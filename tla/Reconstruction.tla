---------------------------- MODULE Reconstruction ----------------------------
(***************************************************************************)
(* The Reed-Solomon coder (rsec16/coder.go) over the field of Gf2p16: the  *)
(* list of parity shards that LoadParityData makes of recovery packets,    *)
(* the parity matrix of the coder, and ReconstructData with its reduction  *)
(* of rows (gf2p16/matrix.go).                                             *)
(*                                                                         *)
(* Data shard k is the k-th unit vector.  All that happens to shards is    *)
(* linear, so what is right for these is right for all data.               *)
(***************************************************************************)
EXTENDS Gf2p16

CONSTANTS
  DataCounts,     \* the numbers of data shards
  Exponents,      \* the exponents that recovery packets have
  Nil             \* a nil shard

ASSUME CountAssumption ==
  DataCounts \subseteq Nat \ {0} /\ Exponents \subseteq 0 .. Order - 1
ASSUME NilAssumption ==
  Nil \notin Nat /\ \A c \in DataCounts : Nil \notin [0 .. c - 1 -> Element]

VARIABLES
  packets,    \* the exponents of the recovery packets that were read
  todo,       \* those that are still to be placed
  parity,     \* d.parityShards: the exponents of the packets, or Nil
  kind,       \* "par2" for NewCoderPAR2Vandermonde, "cauchy" for NewCoderCauchy
  count,      \* c.dataShards
  data,       \* the data shards
  pc,         \* "load", "reconstruct", "pivot", "below", "above" or "done"
  input,      \* the input of ReconstructData
  m, n,       \* the matrices of rowReduceForInverse
  i, j,       \* its loop indices
  result      \* how it ended

matrixVars == <<input, m, n, i, j>>
vars == <<packets, todo, parity, kind, count, data, pc, matrixVars, result>>

-------------------------------------------------------------------------------
(* Shards and matrices *)

Nth(k, S) == CHOOSE x \in S : Cardinality({y \in S : y < x}) = k

\* The powers of 2 that are generators, by the prime factors of 2^16 - 1.
Generators ==
  LET powers == {p \in 1 .. Order - 1 : \A f \in {3, 5, 17, 257} : p % f # 0}
  IN  [k \in 0 .. Cardinality(powers) - 1 |-> Pow(T(2), Nth(k, powers))]

ParityMatrixAt(r, c) ==
  IF kind = "par2" THEN Pow(Generators[c], r)
                   ELSE InverseOf(Plus(T(count + r), T(c)))

DataShard(k) == [w \in 0 .. count - 1 |-> IF w = k THEN One ELSE Zero]

\* A row of a matrix times shards.
Combined(row, shards) ==
  [w \in 0 .. count - 1 |-> SumOf([k \in DOMAIN row |-> Times(row[k], shards[k][w])])]

\* GenerateParity
ParityShard(r) ==
  Combined([c \in 0 .. count - 1 |-> ParityMatrixAt(r, c)], [c \in 0 .. count - 1 |-> DataShard(c)])

Missing   == {k \in DOMAIN data : data[k] = Nil}
Available == DOMAIN data \ Missing
PresentParity == {r \in 0 .. Len(parity) - 1 : parity[r + 1] # Nil}

\* usedParityRows: the first ones, as many as there are missing shards.
UsedParity ==
  {r \in PresentParity : Cardinality({s \in PresentParity : s < r}) < Cardinality(Missing)}

\* The shards that the columns of n belong to.
MakeInput ==
  [c \in 0 .. count - 1 |->
     IF c < Cardinality(Available) THEN data[Nth(c, Available)]
     ELSE ParityShard(Nth(c - Cardinality(Available), UsedParity))]

-------------------------------------------------------------------------------
Init ==
  /\ packets \in SUBSET Exponents
  /\ todo = packets
  /\ parity = <<>>
  /\ kind = "par2"
  /\ count = 0
  /\ data = <<>>
  /\ pc = "load"
  /\ input = <<>> /\ m = <<>> /\ n = <<>> /\ i = 0 /\ j = 0
  /\ result = "none"

\* Mutation: a packet is put behind the last one.
PlacePacketLast ==
  /\ pc = "load"
  /\ \E e \in todo : todo' = todo \ {e} /\ parity' = Append(parity, e)
  /\ UNCHANGED <<packets, kind, count, data, pc, matrixVars, result>>

\* The packets come in any order, which is that of a Go map.  The new length is
\* computed in 16 bits: with the last exponent it is zero.
PlacePacket ==
  /\ pc = "load"
  /\ \E e \in todo :
       LET length == (e + 1) % Order
           grown  == IF e < Len(parity) THEN parity
                     ELSE [k \in 1 .. length |-> IF k <= Len(parity) THEN parity[k] ELSE Nil]
           panics == e >= Len(parity) /\ length <= e
       IN  /\ todo' = todo \ {e}
           /\ parity' = IF panics THEN parity ELSE [grown EXCEPT ![e + 1] = e]
           /\ pc' = IF panics THEN "done" ELSE pc
           /\ result' = IF panics THEN "panic" ELSE result
  /\ UNCHANGED <<packets, kind, count, data, matrixVars>>

CoderError(k, shards) ==
  IF parity = <<>> THEN "noParity"
  ELSE IF k = "par2" /\ shards > Cardinality(DOMAIN Generators) THEN "tooManyShards"
  ELSE IF k = "cauchy" /\ shards + Len(parity) > Order - 1 THEN "tooManyShards"
  ELSE "none"

\* A coder is made and is given data shards, some of which are missing.
NewCoder ==
  /\ pc = "load"
  /\ todo = {}
  /\ kind' \in {"par2", "cauchy"}
  /\ count' \in DataCounts
  /\ result' = CoderError(kind', count')
  /\ IF result' = "none"
     THEN /\ pc' = "reconstruct"
          /\ \E missing \in SUBSET (0 .. count' - 1) :
               data' = [k \in 0 .. count' - 1 |->
                          IF k \in missing THEN Nil
                          ELSE [w \in 0 .. count' - 1 |-> IF w = k THEN One ELSE Zero]]
     ELSE pc' = "done" /\ data' = data
  /\ UNCHANGED <<packets, todo, parity, matrixVars>>

-------------------------------------------------------------------------------
(* ReconstructData *)

Refuse(outcome) ==
  /\ pc' = "done"
  /\ result' = outcome
  /\ UNCHANGED matrixVars

\* The matrices of makeReconstructionMatrix.
MakeMatrices ==
  LET rows == 0 .. Cardinality(Missing) - 1
  IN  /\ m' = [r \in rows |-> [c \in rows |->
                 ParityMatrixAt(Nth(r, UsedParity), Nth(c, Missing))]]
      /\ n' = [r \in rows |-> [c \in 0 .. count - 1 |->
                 IF c < Cardinality(Available)
                 THEN ParityMatrixAt(Nth(r, UsedParity), Nth(c, Available))
                 ELSE IF r = c - Cardinality(Available) THEN One ELSE Zero]]

ReconstructData ==
  /\ pc = "reconstruct"
  /\ \/ Missing = {} /\ Refuse("nothingToDo")
     \/ Cardinality(UsedParity) < Cardinality(Missing) /\ Refuse("notEnough")
     \/ /\ Missing # {}
        /\ Cardinality(UsedParity) >= Cardinality(Missing)
        /\ input' = MakeInput
        /\ MakeMatrices
        /\ i' = 0 /\ j' = 0
        /\ pc' = "pivot"
        /\ UNCHANGED result
  /\ UNCHANGED <<packets, todo, parity, kind, count, data>>

SwapRows(x, r, s)        == [x EXCEPT ![r] = x[s], ![s] = x[r]]
ScaleRow(x, r, c)        == [x EXCEPT ![r] = MulSlice(c, x[r])]
AddScaledRow(x, r, s, c) == [x EXCEPT ![r] = MulAndAddSlice(c, x[s], x[r])]

\* Mutation: only row i may be the pivot.
PivotRowsDiagonal == {r \in DOMAIN m : r = i /\ m[r][i] # Zero}

PivotRows == {r \in DOMAIN m : r >= i /\ m[r][i] # Zero}

\* Mutation: the rows of the right matrix are not swapped.
PivotLeft ==
  /\ pc = "pivot"
  /\ PivotRows # {}
  /\ LET r   == Nth(0, PivotRows)
         inv == InverseOf(m[r][i])
     IN  /\ m' = ScaleRow(SwapRows(m, i, r), i, inv)
         /\ n' = ScaleRow(n, i, inv)
  /\ j' = i + 1
  /\ pc' = "below"
  /\ UNCHANGED <<packets, todo, parity, kind, count, data, input, i, result>>

\* The first row with a non-zero element becomes row i, with 1 as the pivot.
Pivot ==
  /\ pc = "pivot"
  /\ PivotRows # {}
  /\ LET r   == Nth(0, PivotRows)
         inv == InverseOf(m[r][i])
     IN  /\ m' = ScaleRow(SwapRows(m, i, r), i, inv)
         /\ n' = ScaleRow(SwapRows(n, i, r), i, inv)
  /\ j' = i + 1
  /\ pc' = "below"
  /\ UNCHANGED <<packets, todo, parity, kind, count, data, input, i, result>>

Singular ==
  /\ pc = "pivot"
  /\ PivotRows = {}
  /\ Refuse("singular")
  /\ UNCHANGED <<packets, todo, parity, kind, count, data>>

ClearRow ==
  /\ m' = IF m[j][i] = Zero THEN m ELSE AddScaledRow(m, j, i, m[j][i])
  /\ n' = IF m[j][i] = Zero THEN n ELSE AddScaledRow(n, j, i, m[j][i])
  /\ j' = j + 1
  /\ UNCHANGED <<packets, todo, parity, kind, count, data, input, i, pc, result>>

ClearBelow == pc = "below" /\ j \in DOMAIN m /\ ClearRow
ClearAbove == pc = "above" /\ i \in DOMAIN m /\ j < i /\ ClearRow

\* The next row, or column, of either loop.
NextPivot ==
  /\ pc = "below"
  /\ j \notin DOMAIN m
  /\ IF i + 1 \in DOMAIN m THEN i' = i + 1 /\ pc' = "pivot"
                           ELSE i' = 0     /\ pc' = "above"
  /\ j' = 0
  /\ UNCHANGED <<packets, todo, parity, kind, count, data, input, m, n, result>>

NextColumn ==
  /\ pc = "above"
  /\ i \in DOMAIN m
  /\ j = i
  /\ i' = i + 1
  /\ j' = 0
  /\ UNCHANGED <<packets, todo, parity, kind, count, data, input, m, n, pc, result>>

\* Mutation: the rows of the product are taken for the last data shards.
StoreLast ==
  /\ pc = "above"
  /\ i \notin DOMAIN m
  /\ data' = [k \in DOMAIN data |->
       IF k < count - Cardinality(Missing) THEN data[k]
       ELSE Combined(n[k - (count - Cardinality(Missing))], input)]
  /\ pc' = "done"
  /\ result' = "reconstructed"
  /\ UNCHANGED <<packets, todo, parity, kind, count, matrixVars>>

\* The reduced matrix is applied to the input, and gives the missing shards.
Store ==
  /\ pc = "above"
  /\ i \notin DOMAIN m
  /\ data' = [k \in DOMAIN data |->
       IF k \in Missing
       THEN Combined(n[Cardinality({l \in Missing : l < k})], input)
       ELSE data[k]]
  /\ pc' = "done"
  /\ result' = "reconstructed"
  /\ UNCHANGED <<packets, todo, parity, kind, count, matrixVars>>

Next ==
  \/ PlacePacket \/ NewCoder \/ ReconstructData
  \/ Pivot \/ Singular \/ ClearBelow \/ NextPivot \/ ClearAbove \/ NextColumn
  \/ Store

Spec == Init /\ [][Next]_vars
-------------------------------------------------------------------------------
(* Properties. *)

\* The tables of the field are right (which no state changes: TLC looks at one).
TablesRight == pc = "load" /\ packets = {} => FieldRight

\* Whatever the order of the packets, each parity shard is in the place of its
\* exponent and the list is as long as the greatest one needs; only the greatest
\* exponent of all, which the coder has no row for, ends the process.
ParityInPlace ==
  /\ \A r \in PresentParity : parity[r + 1] = r
  /\ parity # <<>> => parity[Len(parity)] # Nil
  /\ pc # "load" /\ result # "panic" => PresentParity = packets
  /\ result = "panic" => Order - 1 \in packets

\* The operations on rows keep the system of equations: at any time the left
\* matrix times the missing shards, which are unit vectors, is the right one
\* times the input.
SolutionKept ==
  pc \in {"pivot", "below", "above"} =>
    \A r \in DOMAIN m :
      Combined(n[r], input) =
        [w \in 0 .. count - 1 |->
           IF w \in Missing THEN m[r][Cardinality({k \in Missing : k < w})] ELSE Zero]

\* A reconstruction that succeeds has the original shards, and one that fails
\* leaves the data as it was.
ReconstructedRight ==
  \A k \in DOMAIN data : data[k] # DataShard(k) => data[k] = Nil /\ result # "reconstructed"

\* The coder says "singular" only when the rows it chose are dependent on the
\* missing columns, which never happens with a Cauchy matrix; and that there is
\* not enough parity only when there is not.
RefusedRightly ==
  /\ result = "singular" =>
       /\ kind = "par2"
       /\ \E v \in [0 .. i - 1 -> Element] :
            LET kernel(c) == IF c < i THEN v[c] ELSE IF c = i THEN One ELSE Zero
            IN  \A r \in UsedParity :
                  SumOf([c \in DOMAIN m |->
                           Times(ParityMatrixAt(r, Nth(c, Missing)), kernel(c))]) = Zero
  /\ result = "notEnough" => Cardinality(PresentParity) < Cardinality(Missing)
===============================================================================
