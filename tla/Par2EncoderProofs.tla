--------------------------- MODULE Par2EncoderProofs ---------------------------
(***************************************************************************)
(* Proofs about Par2Encoder, for any files, arguments and numbers of       *)
(* shards, calls, faults and changes: what calls of Create wrote, complete *)
(* or torn, never mixes, refused calls leave older files alone, and a call *)
(* that succeeds leaves the data files protected.                          *)
(***************************************************************************)
EXTENDS Par2Encoder, FiniteSetTheorems, WellFoundedInduction, TLAPS

Data == Contents \cup {Missing}

\* id is the ID of a file with content c.
Names(id, c) == c \in Contents /\ \E p \in Paths : id = FileID(p, c)

\* The main packets that Create may write.
Sets == {[recoverySet |-> ids] : ids \in UNION {[DOMAIN paths -> IDs] : paths \in Arguments}}

\* A packet tells the truth about the contents it was made from: the IDs of a set and
\* of a description are of these contents, and a shard is of one content for each ID.
PacketOK(packet) ==
  /\ packet.set \in Sets
  /\ packet.type = "main" => packet.body = packet.set
  /\ packet.type = "fileDesc" => Names(packet.body.id, packet.body.content)
  /\ packet.type = "recovery" =>
       LET of == packet.body.data.of
       IN  /\ packet.body.data = [exponent |-> packet.body.exponent, of |-> of]
           /\ of = [k \in DOMAIN packet.set.recoverySet |-> of[k]]
           /\ \A k \in DOMAIN packet.set.recoverySet : Names(packet.set.recoverySet[k], of[k])

FileOK(packets) ==
  \E n \in Nat :
    /\ DOMAIN packets = 1 .. n
    /\ \A k \in 1 .. n : packets[k] = Broken \/ PacketOK(packets[k])

PacketsOK ==
  /\ DOMAIN par = {Index} \cup Volumes
  /\ \A f \in DOMAIN par : par[f] # NoFile => FileOK(par[f])

\* What Create has read, and what it computed parity from.
Reading ==
  /\ files \in [Paths -> Data]
  /\ filePaths \in Arguments
  /\ count \in Counts
  /\ target \in {Index} \cup Volumes
  /\ i \in Nat \ {0}
  /\ pc \in {"idle", "load", "write", "writing"}
  /\ pc \in {"idle", "load"} =>
       /\ i <= Len(filePaths) + 1
       /\ recoverySet \in [1 .. i - 1 -> IDs]
  /\ pc = "idle" => i = 1
  /\ pc \in {"write", "writing"} =>
       /\ recoverySet \in [DOMAIN filePaths -> IDs]
       /\ parity = ShardsOf(recoverySet)
  /\ \A k \in DOMAIN recoverySet : recoverySet[k] \in DOMAIN infos
  /\ \A id \in DOMAIN infos : Names(id, infos[id])

\* A call that has opened a file has no empty file to describe.
Sparing ==
  /\ pc # "idle" => result = "pending"
  /\ pc = "load" => ~since.wrote
  /\ pc \in {"write", "writing"} /\ since.wrote => \A id \in DOMAIN infos : infos[id] # Empty
  /\ result \in Refusals => ~since.wrote

Inv == Reading /\ PacketsOK /\ Sparing

-------------------------------------------------------------------------------
(* Sequences and numbers. *)

LEMMA PathFacts ==
  ASSUME NEW paths \in Arguments
  PROVE  /\ Len(paths) \in Nat \ {0} /\ DOMAIN paths = 1 .. Len(paths)
         /\ \A k \in DOMAIN paths : paths[k] \in Paths
<1>1. paths \in Seq(Paths) /\ paths # <<>>
  BY FilesAssumption
<1>2. QED BY <1>1

Below == {pair \in Nat \X Nat : pair[1] < pair[2]}

LEMMA LeastNatural ==
  ASSUME NEW T \in SUBSET Nat, T # {}
  PROVE  \E x \in T : \A y \in T : x <= y
<1>1. IsWellFoundedOn(Below, Nat)
  BY NatLessThanWellFounded DEF OpToRel, Below
<1>2. PICK x \in T : \A y \in T : <<y, x>> \notin Below
  BY <1>1, WFMin, Zenon
<1>3. ASSUME NEW y \in T PROVE x <= y
  <2>1. ~(y < x)
    BY <1>2, x \in Nat, y \in Nat DEF Below
  <2>2. QED BY <2>1, x \in Nat, y \in Nat, SMT
<1>4. QED BY <1>3

\* A set of numbers up to some bound has a greatest one.
LEMMA GreatestNatural ==
  ASSUME NEW S \in SUBSET Nat, S # {}, NEW b \in Nat, \A x \in S : x <= b
  PROVE  \E x \in S : \A y \in S : y <= x
<1> DEFINE T == {b - x : x \in S}
<1>1. T \in SUBSET Nat /\ T # {}
  <2>1. \A x \in S : b - x \in Nat
    OBVIOUS
  <2>2. QED BY <2>1
<1>2. PICK d \in T : \A e \in T : d <= e
  BY <1>1, LeastNatural
<1>3. PICK x \in S : d = b - x
  BY <1>2
<1>4. \A y \in S : y <= x
  BY <1>2, <1>3
<1>5. QED BY <1>4

LEMMA VolumeFacts ==
  ASSUME NEW f \in {Index} \cup Volumes
  PROVE  f = <<f[1], f[2]>> /\ f[1] \in Nat /\ f[2] \in Nat
<1>1. CASE f = Index
  BY <1>1 DEF Index
<1>2. CASE f \in Volumes
  <2>1. PICK c \in Counts : f \in VolumeNames(c)
    BY <1>2 DEF Volumes
  <2>2. c \in Nat
    BY CountsAssumption
  <2>3. PICK m \in 0 .. c - 1 : f = VolumeName(c, m)
    BY <2>1 DEF VolumeNames, Firsts
  <2>4. QED BY <2>2, <2>3 DEF VolumeName
<1>3. QED BY <1>1, <1>2

LEMMA LastIsIn ==
  ASSUME NEW n \in Nat, NEW S \in SUBSET (1 .. n), S # {}
  PROVE  LastOf(S) \in S
<1>1. S \in SUBSET Nat /\ \A x \in S : x <= n
  OBVIOUS
<1>2. \E x \in S : \A y \in S : y <= x
  BY <1>1, GreatestNatural
<1>3. QED BY <1>2 DEF LastOf

\* The exponents of a volume are consecutive.
LEMMA NthExponent ==
  ASSUME NEW a \in Nat, NEW c \in Nat, NEW n \in 0 .. c - 1
  PROVE  LET all == a .. a + c - 1
             e == CHOOSE x \in all : Cardinality({y \in all : y < x}) = n
         IN  e \in all
<1> DEFINE all == a .. a + c - 1
<1>1. a + n \in all
  OBVIOUS
<1>2. {y \in all : y < a + n} = a .. a + n - 1
  OBVIOUS
<1>3. Cardinality(a .. a + n - 1) = n
  <2>1. a \in Int /\ a + n - 1 \in Int
    OBVIOUS
  <2>2. Cardinality(a .. a + n - 1) = IF a > a + n - 1 THEN 0 ELSE (a + n - 1) - a + 1
    BY <2>1, FS_Interval
  <2>3. QED BY <2>2
<1>4. QED BY <1>1, <1>2, <1>3

LEMMA VolumeSize ==
  ASSUME NEW a \in Nat, NEW c \in Nat
  PROVE  Cardinality(a .. a + c - 1) = c
<1>1. Cardinality(a .. a + c - 1) = IF a > a + c - 1 THEN 0 ELSE (a + c - 1) - a + 1
  BY a \in Int, a + c - 1 \in Int, FS_Interval
<1>2. QED BY <1>1

-------------------------------------------------------------------------------
(* The packets that are written. *)

LEMMA InSets ==
  ASSUME Reading, pc = "writing"
  PROVE  [recoverySet |-> recoverySet] \in Sets
BY DEF Reading, Sets

\* The packets of a file that Create writes are all right.
LEMMA PacketsWritten ==
  ASSUME Reading, pc = "writing"
  PROVE  \E n \in Nat :
           /\ DOMAIN PacketsOf(target) = 1 .. n
           /\ PacketsOf(target) = [k \in 1 .. n |-> PacketsOf(target)[k]]
           /\ \A k \in 1 .. n : PacketOK(PacketsOf(target)[k])
<1> DEFINE main == [recoverySet |-> recoverySet]
           described == [id \in DOMAIN infos |-> [id |-> id, content |-> infos[id]]]
           exponents == target[1] .. target[1] + target[2] - 1
           recovery == [e \in exponents |-> [exponent |-> e, of |-> parity]]
           len == Len(filePaths)
           fixed == 2 + 2 * len
           exponent(n) == CHOOSE e \in exponents : Cardinality({x \in exponents : x < e}) = n
           packet(type, body) == [set |-> main, type |-> type, body |-> body]
           n == fixed + target[2]
           P == PacketsOf(target)
<1>1. /\ len \in Nat /\ DOMAIN recoverySet = 1 .. len /\ Len(recoverySet) = len
      /\ \A k \in 1 .. len : recoverySet[k] \in DOMAIN infos
      /\ parity = [k \in 1 .. len |-> infos[recoverySet[k]]]
      /\ main \in Sets
  <2>1. len \in Nat /\ DOMAIN filePaths = 1 .. len
    BY PathFacts DEF Reading
  <2>2. recoverySet \in [1 .. len -> IDs]
    BY <2>1 DEF Reading
  <2>3. Len(recoverySet) = len
    BY <2>1, <2>2
  <2>4. parity = ShardsOf(recoverySet)
    BY DEF Reading
  <2>5. QED BY <2>1, <2>2, <2>3, <2>4, InSets DEF Reading, ShardsOf
<1>2. target[1] \in Nat /\ target[2] \in Nat
  BY VolumeFacts DEF Reading
<1>3. DOMAIN recovery = exponents /\ Cardinality(exponents) = target[2]
  BY <1>2, VolumeSize
<1>4. \A k \in 0 .. target[2] - 1 : exponent(k) \in exponents
  BY <1>2, NthExponent
<1>5. P = [k \in 1 .. n |->
            IF k = 1 THEN packet("creator", [client |-> "gopar"])
            ELSE IF k = 2 THEN packet("main", main)
            ELSE IF k > fixed
              THEN packet("recovery", [exponent |-> exponent(k - fixed - 1),
                                       data |-> recovery[exponent(k - fixed - 1)]])
            ELSE IF k % 2 = 1 THEN packet("fileDesc", described[recoverySet[(k - 1) \div 2]])
            ELSE packet("ifsc", described[recoverySet[(k - 1) \div 2]])]
  BY <1>1, <1>3 DEF PacketsOf, WriteFile
<1>6. n \in Nat /\ DOMAIN P = 1 .. n /\ P = [k \in 1 .. n |-> P[k]]
  <2>1. n \in Nat
    BY <1>1, <1>2
  <2> HIDE DEF n, P, fixed, packet, exponent
  <2>2. DOMAIN P = 1 .. n /\ P = [k \in 1 .. n |-> P[k]]
    BY <1>5
  <2>3. QED BY <2>1, <2>2
<1>7. ASSUME NEW k \in 1 .. n PROVE PacketOK(P[k])
  <2>1. CASE k \in {1, 2}
    <3>1. P[k] = packet("creator", [client |-> "gopar"]) \/ P[k] = packet("main", main)
      BY <1>5, <2>1
    <3>2. PacketOK(packet("creator", [client |-> "gopar"])) /\ PacketOK(packet("main", main))
      BY <1>1 DEF PacketOK
    <3>3. QED BY <3>1, <3>2
  <2>2. CASE k > fixed
    <3> DEFINE e == exponent(k - fixed - 1)
    <3>1. e \in exponents
      <4>1. k - fixed - 1 \in 0 .. target[2] - 1
        BY <1>1, <1>2, <2>2
      <4>2. QED BY <1>4, <4>1
    <3>2. P[k] = packet("recovery", [exponent |-> e, data |-> [exponent |-> e, of |-> parity]])
      BY <1>1, <1>2, <1>5, <2>2, <3>1
    <3>3. \A j \in 1 .. len : Names(recoverySet[j], parity[j])
      BY <1>1 DEF Reading
    <3>4. parity = [j \in 1 .. len |-> parity[j]]
      BY <1>1
    <3> HIDE DEF e
    <3>5. PacketOK(packet("recovery", [exponent |-> e, data |-> [exponent |-> e, of |-> parity]]))
      BY <1>1, <3>3, <3>4 DEF PacketOK
    <3>6. QED BY <3>2, <3>5
  <2>3. CASE k > 2 /\ k <= fixed
    <3> DEFINE id == recoverySet[(k - 1) \div 2]
    <3>1. (k - 1) \div 2 \in 1 .. len
      BY <1>1, <2>3
    <3>2. id \in DOMAIN infos /\ Names(id, infos[id])
      BY <1>1, <3>1 DEF Reading
    <3>3. P[k] = packet("fileDesc", described[id]) \/ P[k] = packet("ifsc", described[id])
      BY <1>1, <1>5, <2>3
    <3> HIDE DEF id
    <3>4. described[id] = [id |-> id, content |-> infos[id]]
      BY <3>2
    <3>5. PacketOK(packet("fileDesc", described[id])) /\ PacketOK(packet("ifsc", described[id]))
      BY <1>1, <3>2, <3>4 DEF PacketOK
    <3>6. QED BY <3>3, <3>5
  <2>4. QED
    BY <1>1, <1>2, <2>1, <2>2, <2>3
<1>8. QED BY <1>6, <1>7

\* So is what is left of them when the write is cut short.
LEMMA TornOK ==
  ASSUME NEW packets, NEW n \in Nat, packets = [k \in 1 .. n |-> packets[k]],
         \A k \in 1 .. n : PacketOK(packets[k]),
         NEW torn \in TornWrites(packets)
  PROVE  FileOK(torn)
<1> DEFINE S == {packets[k] : k \in 1 .. n}
<1>1. packets \in Seq(S) /\ Len(packets) = n
  OBVIOUS
<1>2. PICK k \in 0 .. n : \/ torn = SubSeq(packets, 1, k)
                         \/ torn = Append(SubSeq(packets, 1, k), Broken)
  <2>1. CASE \E k \in 0 .. Len(packets) : torn = SubSeq(packets, 1, k)
    BY <1>1, <2>1
  <2>2. CASE \E k \in 0 .. Len(packets) - 1 : torn = Append(SubSeq(packets, 1, k), Broken)
    <3>1. PICK k \in 0 .. n - 1 : torn = Append(SubSeq(packets, 1, k), Broken)
      BY <1>1, <2>2
    <3>2. k \in 0 .. n
      OBVIOUS
    <3>3. QED BY <3>1, <3>2
  <2>3. QED BY <2>1, <2>2 DEF TornWrites
<1> DEFINE T == SubSeq(packets, 1, k)
<1>3. /\ T \in Seq(S) /\ Len(T) = k /\ DOMAIN T = 1 .. k
      /\ \A j \in 1 .. k : T[j] = packets[j]
  <2>1. k \in Nat /\ k <= n
    OBVIOUS
  <2> HIDE DEF S
  <2>2. T \in Seq(S) /\ Len(T) = k
    BY <1>1, <2>1
  <2>3. \A j \in 1 .. k : T[j] = packets[j]
    BY <1>1, <2>1
  <2>4. QED BY <2>2, <2>3
<1>4. k \in Nat /\ \A j \in 1 .. k : PacketOK(T[j])
  BY <1>3
<1> HIDE DEF T, S
<1>5. CASE torn = T
  BY <1>3, <1>4, <1>5 DEF FileOK
<1>6. CASE torn = Append(T, Broken)
  <2>1. T \in Seq(S \cup {Broken}) /\ Broken \in S \cup {Broken}
    BY <1>3
  <2>2. DOMAIN torn = 1 .. k + 1 /\ torn[k + 1] = Broken /\ \A j \in 1 .. k : torn[j] = T[j]
    BY <1>3, <1>4, <1>6, <2>1
  <2>3. ASSUME NEW j \in 1 .. k + 1 PROVE torn[j] = Broken \/ PacketOK(torn[j])
    <3>1. CASE j = k + 1
      BY <2>2, <3>1
    <3>2. CASE j \in 1 .. k
      BY <1>4, <2>2, <3>2
    <3>3. QED BY <1>4, <3>1, <3>2
  <2>4. k + 1 \in Nat
    BY <1>4
  <2>5. QED BY <2>2, <2>3, <2>4 DEF FileOK
<1>7. QED BY <1>2, <1>5, <1>6 DEF T

LEMMA EmptyFileOK == FileOK(<<>>)
BY DEF FileOK

-------------------------------------------------------------------------------
(* The invariant. *)

LEMMA InitInv == Init => Inv
<1> SUFFICES ASSUME Init PROVE Inv
  OBVIOUS
<1>1. recoverySet \in [1 .. i - 1 -> IDs] /\ DOMAIN recoverySet = {}
  BY DEF Init
<1>2. DOMAIN infos = {}
  BY DEF Init, NoInfos
<1>3. Len(filePaths) \in Nat /\ filePaths \in Arguments /\ files \in [Paths -> Data]
  BY PathFacts, FilesAssumption DEF Init, Data
<1>4. Reading
  BY <1>1, <1>2, <1>3 DEF Init, Reading
<1>5. PacketsOK
  BY DEF Init, PacketsOK
<1>6. Sparing
  BY DEF Init, Sparing, Refusals
<1>7. QED BY <1>4, <1>5, <1>6 DEF Inv

\* A call that ends, with its files as they are.
LEMMA ReturnReading ==
  ASSUME Reading, NEW outcome, Return(outcome), UNCHANGED files
  PROVE  Reading'
<1>1. recoverySet' \in [1 .. i' - 1 -> IDs] /\ DOMAIN recoverySet' = {} /\ DOMAIN infos' = {}
  BY DEF Return, NoInfos
<1>2. Len(filePaths) \in Nat
  BY PathFacts DEF Reading
<1>3. QED BY <1>1, <1>2 DEF Reading, Return

LEMMA ReturnInv ==
  ASSUME Inv, NEW outcome, Return(outcome), UNCHANGED <<files, par, since>>,
         outcome \in Refusals => ~since.wrote
  PROVE  Inv'
<1>1. Reading'
  BY ReturnReading DEF Inv
<1>2. PacketsOK'
  BY DEF Inv, PacketsOK
<1>3. Sparing'
  BY DEF Return, Sparing
<1>4. QED BY <1>1, <1>2, <1>3 DEF Inv

LEMMA FileWritten ==
  ASSUME PacketsOK, NEW packets, FileOK(packets), par' = [par EXCEPT ![target] = packets]
  PROVE  PacketsOK'
<1>1. DOMAIN par' = DOMAIN par /\ \A f \in DOMAIN par : par'[f] = packets \/ par'[f] = par[f]
  OBVIOUS
<1>2. QED BY <1>1 DEF PacketsOK

LEMMA SortedFacts ==
  ASSUME NEW ids, NEW s \in SortedByID(ids)
  PROVE  DOMAIN s = DOMAIN ids /\ s \in [DOMAIN ids -> {ids[k] : k \in DOMAIN ids}]
BY DEF SortedByID

LEMMA StepInv == Inv /\ [Next]_vars => Inv'
<1> SUFFICES ASSUME Inv, [Next]_vars PROVE Inv'
  OBVIOUS
<1>0. Reading /\ PacketsOK /\ Sparing
  BY DEF Inv
<1>1. CASE Create
  <2>1. /\ filePaths' \in Arguments /\ count' \in Counts /\ pc = "idle" /\ pc' = "load"
        /\ since'.wrote = FALSE /\ result' = "pending"
        /\ UNCHANGED <<files, par, recoverySet, infos, parity, i, target>>
    BY <1>1 DEF Create, diskVars
  <2>2. Len(filePaths') \in Nat \ {0}
    BY <2>1, PathFacts
  <2>3. Reading'
    BY <1>0, <2>1, <2>2 DEF Reading
  <2>4. PacketsOK' /\ Sparing'
    BY <1>0, <2>1 DEF PacketsOK, Sparing, Refusals
  <2>5. QED BY <2>3, <2>4 DEF Inv
<1>2. CASE LoadFile
  <2> DEFINE p == filePaths[i]
             c == files[p]
             id == FileID(p, c)
  <2>1. UNCHANGED <<files, par, since>> /\ pc = "load" /\ i <= Len(filePaths)
    BY <1>2 DEF LoadFile, diskVars
  <2>2. CASE Return("fileError")
    BY <1>0, <2>1, <2>2, ReturnInv DEF Sparing
  <2>3. CASE /\ c # Missing
             /\ recoverySet' = Append(recoverySet, id)
             /\ infos' = [x \in DOMAIN infos \cup {id} |-> IF x = id THEN c ELSE infos[x]]
             /\ i' = i + 1
             /\ UNCHANGED <<filePaths, count, parity, pc, target, result>>
    <3>1. p \in Paths /\ Len(filePaths) \in Nat
      BY <1>0, <2>1, PathFacts DEF Reading
    <3>2. c \in Contents
      BY <1>0, <2>3, <3>1 DEF Reading, Data
    <3>3. id \in IDs /\ Names(id, c)
      BY <3>1, <3>2 DEF IDs, Names
    <3>4. recoverySet \in [1 .. i - 1 -> IDs] /\ i \in Nat \ {0}
      BY <1>0, <2>1 DEF Reading
    <3> HIDE DEF c, id
    <3>5. /\ recoverySet' \in [1 .. i' - 1 -> IDs]
          /\ \A k \in DOMAIN recoverySet' : recoverySet'[k] = id \/
               (k \in DOMAIN recoverySet /\ recoverySet'[k] = recoverySet[k])
      <4>1. recoverySet \in Seq(IDs) /\ Len(recoverySet) = i - 1
        BY <3>4
      <4>2. /\ recoverySet' \in Seq(IDs) /\ Len(recoverySet') = i
            /\ recoverySet'[i] = id
            /\ \A k \in 1 .. i - 1 : recoverySet'[k] = recoverySet[k]
        BY <2>3, <3>3, <3>4, <4>1
      <4>3. DOMAIN recoverySet' = 1 .. i /\ i' - 1 = i
        BY <2>3, <3>4, <4>2
      <4>4. QED BY <3>3, <3>4, <4>2, <4>3
    <3>6. \A k \in DOMAIN recoverySet' : recoverySet'[k] \in DOMAIN infos'
      BY <1>0, <2>3, <3>5 DEF Reading
    <3>7. \A x \in DOMAIN infos' : Names(x, infos'[x])
      BY <1>0, <2>3, <3>3 DEF Reading
    <3>8. i' \in Nat \ {0} /\ i' <= Len(filePaths) + 1
      BY <2>1, <2>3, <3>1, <3>4
    <3>9. Reading'
      BY <1>0, <2>1, <2>3, <3>5, <3>6, <3>7, <3>8 DEF Reading
    <3>10. PacketsOK' /\ Sparing'
      BY <1>0, <2>1, <2>3 DEF PacketsOK, Sparing
    <3>11. QED BY <3>9, <3>10 DEF Inv
  <2>4. QED BY <1>2, <2>2, <2>3 DEF LoadFile
<1>3. CASE ComputeParityData
  <2>1. UNCHANGED <<files, par, since>> /\ pc = "load" /\ i > Len(filePaths)
    BY <1>3 DEF ComputeParityData, diskVars
  <2>2. CASE Return("panic") \/ Return("tooManyShards")
    BY <1>0, <2>1, <2>2, ReturnInv DEF Sparing
  <2>3. CASE /\ recoverySet' \in SortedByID(recoverySet)
             /\ parity' = ShardsOf(recoverySet')
             /\ pc' = "write"
             /\ UNCHANGED <<filePaths, count, infos, i, target, result>>
    <3>1. i = Len(filePaths) + 1 /\ recoverySet \in [DOMAIN filePaths -> IDs]
      BY <1>0, <2>1, PathFacts DEF Reading
    <3>2. /\ DOMAIN recoverySet' = DOMAIN recoverySet
          /\ recoverySet' \in [DOMAIN recoverySet -> {recoverySet[k] : k \in DOMAIN recoverySet}]
      BY <2>3, SortedFacts
    <3>3. recoverySet' \in [DOMAIN filePaths -> IDs]
      BY <3>1, <3>2
    <3>4. \A k \in DOMAIN recoverySet' : recoverySet'[k] \in DOMAIN infos
      BY <1>0, <3>2 DEF Reading
    <3>5. parity' = ShardsOf(recoverySet)'
      BY <2>3 DEF ShardsOf
    <3>6. Reading'
      BY <1>0, <2>1, <2>3, <3>3, <3>4, <3>5 DEF Reading
    <3>7. PacketsOK' /\ Sparing'
      BY <1>0, <2>1, <2>3 DEF PacketsOK, Sparing
    <3>8. QED BY <3>6, <3>7 DEF Inv
  <2>4. QED BY <1>3, <2>2, <2>3 DEF ComputeParityData
<1>4. CASE WriteRefused
  <2>1. Return("emptyFile") /\ UNCHANGED <<files, par, since>> /\ ~since.wrote
    BY <1>0, <1>4 DEF WriteRefused, diskVars, Sparing
  <2>2. QED BY <2>1, ReturnInv
<1>5. CASE OpenFile
  <2>1. /\ UNCHANGED <<files, encoderVars, i, target, result>> /\ pc = "write" /\ pc' = "writing"
        /\ par' = [par EXCEPT ![target] = <<>>]
        /\ \A id \in DOMAIN infos : infos[id] # Empty
    BY <1>5 DEF OpenFile
  <2>2. Reading'
    BY <1>0, <2>1 DEF Reading, encoderVars, ShardsOf
  <2>3. PacketsOK'
    BY <1>0, <2>1, EmptyFileOK, FileWritten
  <2>4. Sparing'
    BY <1>0, <2>1 DEF Sparing, encoderVars, Refusals
  <2>5. QED BY <2>2, <2>3, <2>4 DEF Inv
<1>6. CASE FinishWrite
  <2>1. UNCHANGED <<files, since>> /\ pc = "writing"
        /\ par' = [par EXCEPT ![target] = PacketsOf(target)]
    BY <1>6 DEF FinishWrite
  <2>2. PacketsOK'
    <3>1. FileOK(PacketsOf(target))
      BY <1>0, <2>1, PacketsWritten DEF FileOK
    <3>2. QED BY <1>0, <2>1, <3>1, FileWritten
  <2>3. CASE Return("created")
    <3>1. Reading'
      BY <1>0, <2>1, <2>3, ReturnReading
    <3>2. Sparing'
      BY <2>3 DEF Return, Sparing, Refusals
    <3>3. QED BY <2>2, <3>1, <3>2 DEF Inv
  <2>4. CASE target' \in NextVolumes(target) /\ pc' = "write" /\ UNCHANGED <<encoderVars, i, result>>
    <3>1. target' \in Volumes
      BY <1>0, <2>4 DEF NextVolumes, Volumes, Reading
    <3>2. Reading'
      BY <1>0, <2>1, <2>4, <3>1 DEF Reading, encoderVars, ShardsOf
    <3>3. Sparing'
      BY <1>0, <2>1, <2>4 DEF Sparing, encoderVars, Refusals
    <3>4. QED BY <2>2, <3>2, <3>3 DEF Inv
  <2>5. QED BY <1>6, <2>3, <2>4 DEF FinishWrite
<1>7. CASE OpenFails \/ Crash
  <2>1. PICK outcome \in {"writeError", "killed"} : Return(outcome)
    BY <1>7 DEF OpenFails, Crash
  <2>2. UNCHANGED <<files, par, since>>
    BY <1>7 DEF OpenFails, Crash, diskVars
  <2>3. QED BY <2>1, <2>2, ReturnInv DEF Refusals
<1>8. CASE WriteFails
  <2>1. PICK packets \in TornWrites(PacketsOf(target)) : par' = [par EXCEPT ![target] = packets]
    BY <1>8 DEF WriteFails
  <2>2. pc = "writing" /\ Return("writeError") /\ UNCHANGED <<files, since>>
    BY <1>8 DEF WriteFails
  <2>3. FileOK(packets)
    BY <1>0, <2>1, <2>2, PacketsWritten, TornOK
  <2>4. PacketsOK'
    BY <1>0, <2>1, <2>3, FileWritten
  <2>5. Reading'
    BY <1>0, <2>2, ReturnReading
  <2>6. Sparing'
    BY <2>2 DEF Return, Sparing, Refusals
  <2>7. QED BY <2>4, <2>5, <2>6 DEF Inv
<1>9. CASE ChangeFile
  <2>1. PICK p \in Paths, c \in Contents \cup {Missing} : files' = [files EXCEPT ![p] = c]
    BY <1>9 DEF ChangeFile
  <2>2. UNCHANGED <<par, encoderVars, pc, i, target, result>> /\ since'.wrote = since.wrote
    BY <1>9 DEF ChangeFile
  <2>3. files' \in [Paths -> Data]
    BY <1>0, <2>1 DEF Reading, Data
  <2>4. Reading'
    BY <1>0, <2>2, <2>3 DEF Reading, encoderVars, ShardsOf
  <2>5. PacketsOK' /\ Sparing'
    BY <1>0, <2>2 DEF PacketsOK, Sparing, encoderVars
  <2>6. QED BY <2>4, <2>5 DEF Inv
<1>10. CASE UNCHANGED vars
  <2>1. Reading'
    BY <1>0, <1>10 DEF vars, diskVars, encoderVars, Reading, ShardsOf
  <2>2. PacketsOK' /\ Sparing'
    BY <1>0, <1>10 DEF vars, diskVars, encoderVars, PacketsOK, Sparing
  <2>3. QED BY <2>1, <2>2 DEF Inv
<1>11. QED
  BY <1>1, <1>2, <1>3, <1>4, <1>5, <1>6, <1>7, <1>8, <1>9, <1>10 DEF Next, Step

LEMMA Invariance == Spec => []Inv
BY InitInv, StepInv, PTL DEF Spec

-------------------------------------------------------------------------------
(* What the decoder finds. *)

\* The packets of the set that the decoder takes are those that carry it.
LEMMA TakenFacts ==
  ASSUME NEW packets, NEW expected, NEW type, FileOK(packets),
         NEW k \in OfType(expected, packets, type)
  PROVE  /\ PacketOK(packets[k]) /\ packets[k] # Broken
         /\ k \in DOMAIN packets /\ packets[k].type = type
         /\ packets[k].set = IF expected = AnySet THEN packets[1].set ELSE expected
<1>1. /\ k \in DOMAIN packets /\ packets[k].type = type
      /\ packets[k].set = IF expected = AnySet THEN packets[1].set ELSE expected
      /\ \A j \in 1 .. k : packets[j] # Broken
  BY DEF OfType, Mine
<1>2. PICK n \in Nat : /\ DOMAIN packets = 1 .. n
                      /\ \A j \in 1 .. n : packets[j] = Broken \/ PacketOK(packets[j])
  BY DEF FileOK
<1>3. QED BY <1>1, <1>2

LEMMA LastFacts ==
  ASSUME NEW packets, FileOK(packets), NEW S \in SUBSET DOMAIN packets, S # {}
  PROVE  LastOf(S) \in S
BY LastIsIn DEF FileOK

\* The IDs that the index lists are those of its set ID, and its descriptions are
\* of contents with these IDs.
LEMMA IndexFacts ==
  ASSUME PacketsOK, DecoderOpens
  PROVE  /\ SetID \in Sets /\ SetIDs = SetID.recoverySet
         /\ \A k \in DOMAIN SetIDs : Names(SetIDs[k], Described(k)) /\ Described(k) \in Recorded
<1> DEFINE P == par[Index]
<1>1. P # NoFile /\ FileOK(P) /\ Index \in DOMAIN par
  BY DEF PacketsOK, DecoderOpens
<1>2. OfType(AnySet, P, "main") # {} /\ OfType(AnySet, P, "main") \subseteq DOMAIN P
  BY DEF DecoderOpens, HasMain, OfType, Mine
<1>3. LastOf(OfType(AnySet, P, "main")) \in OfType(AnySet, P, "main")
  BY <1>1, <1>2, LastFacts
<1> HIDE DEF P
<1>4. PacketOK(P[LastOf(OfType(AnySet, P, "main"))])
  BY <1>1, <1>3, TakenFacts
<1>5. P[LastOf(OfType(AnySet, P, "main"))].set = P[1].set
      /\ P[LastOf(OfType(AnySet, P, "main"))].type = "main"
  BY <1>1, <1>3, TakenFacts
<1>6. MainOf(AnySet, P) = P[1].set /\ P[1].set \in Sets
  BY <1>4, <1>5 DEF MainOf, PacketOK
<1>7. SetID \in Sets /\ SetIDs = SetID.recoverySet
  BY <1>6 DEF SetID, SetIDs, P
<1>8. ASSUME NEW k \in DOMAIN SetIDs
      PROVE  Names(SetIDs[k], Described(k)) /\ Described(k) \in Recorded
  <2> DEFINE id == SetIDs[k]
             A == About(AnySet, P, "fileDesc", id)
             d == LastOf(A)
  <2>1. id \in IDsOf(AnySet, P, "fileDesc")
    BY <1>8 DEF DecoderOpens, SetIDs, P
  <2>2. A # {} /\ A \subseteq DOMAIN P
    BY <2>1 DEF IDsOf, About, OfType, Mine
  <2>3. d \in A
    BY <1>1, <2>2, LastFacts
  <2> HIDE DEF d, A, id
  <2>4. d \in OfType(AnySet, P, "fileDesc") /\ P[d].body.id = id
    BY <2>3 DEF About, A
  <2>5. PacketOK(P[d]) /\ P[d] # Broken /\ d \in DOMAIN P /\ P[d].type = "fileDesc"
    BY <1>1, <2>4, TakenFacts
  <2>6. Described(k) = P[d].body.content
    BY DEF Described, DescriptionOf, P, d, A, id
  <2>7. Names(id, Described(k))
    BY <2>4, <2>5, <2>6 DEF PacketOK
  <2>8. Described(k) \in Recorded
    BY <1>1, <2>5, <2>6 DEF Recorded, P
  <2>9. QED BY <2>7, <2>8 DEF id
<1>9. QED BY <1>7, <1>8

LEMMA SetKnown ==
  ASSUME NEW set \in Sets
  PROVE  set # AnySet
BY SetIDAssumption DEF Sets

\* The contents that the shard of a recovery packet on disk was made of.
LEMMA ShardsRecorded ==
  ASSUME NEW v \in DOMAIN par, par[v] # NoFile, NEW r \in DOMAIN par[v],
         par[v][r] # Broken, par[v][r].type = "recovery",
         NEW k \in DOMAIN par[v][r].body.data.of
  PROVE  par[v][r].body.data.of[k] \in Recorded
<1> DEFINE bodies(f) == {par[f][p].body : p \in {q \in DOMAIN par[f] :
                           par[f][q] # Broken /\ par[f][q].type = "recovery"}}
           all == UNION {bodies(f) : f \in {g \in DOMAIN par : par[g] # NoFile}}
           shards == UNION {{b.data.of[q] : q \in DOMAIN b.data.of} : b \in all}
<1>1. par[v][r].body \in bodies(v)
  OBVIOUS
<1>2. par[v][r].body \in all
  <2> HIDE DEF bodies
  <2>1. QED BY <1>1
<1>3. par[v][r].body.data.of[k] \in shards
  <2> HIDE DEF all
  <2>1. QED BY <1>2
<1>4. shards \subseteq Recorded
  BY DEF Recorded
<1>5. QED BY <1>3, <1>4

\* Whatever calls of Create were made, cut short or killed, and however files changed:
\* every shard that the decoder takes from a volume belongs to the contents described
\* in the index, as long as file IDs tell the contents apart.
THEOREM VolumesNeverMix == Spec => []MixIsSafe
<1>1. ASSUME Inv, DecoderOpens, ~HeadsShared, NEW v \in Volumes, par[v] # NoFile,
             NEW e \in DOMAIN Recovery(SetID, par[v])
      PROVE  Right(e, Recovery(SetID, par[v])[e])
  <2> DEFINE P == par[v]
             S == OfType(SetID, P, "recovery")
             r == CHOOSE k \in S : P[k].body.exponent = e
             of == P[r].body.data.of
  <2>1. PacketsOK /\ v \in DOMAIN par /\ FileOK(P)
    BY <1>1 DEF Inv, PacketsOK
  <2>2. /\ SetID \in Sets /\ SetID # AnySet /\ SetIDs = SetID.recoverySet
        /\ \A k \in DOMAIN SetIDs : Names(SetIDs[k], Described(k)) /\ Described(k) \in Recorded
    BY <1>1, <2>1, IndexFacts, SetKnown
  <2>3. e \in {P[k].body.exponent : k \in S} /\ Recovery(SetID, P)[e] = P[r].body.data
    BY <1>1 DEF Recovery
  <2>4. r \in S /\ P[r].body.exponent = e
    BY <2>3
  <2> HIDE DEF r, S, P
  <2>5. /\ PacketOK(P[r]) /\ P[r] # Broken /\ r \in DOMAIN P
        /\ P[r].type = "recovery" /\ P[r].set = SetID
    BY <2>1, <2>2, <2>4, TakenFacts DEF S
  <2>6. /\ P[r].body.data = [exponent |-> e, of |-> of]
        /\ of = [k \in DOMAIN SetIDs |-> of[k]]
        /\ \A k \in DOMAIN SetIDs : Names(SetIDs[k], of[k])
    BY <2>2, <2>4, <2>5 DEF PacketOK
  <2>7. ASSUME NEW k \in DOMAIN SetIDs PROVE of[k] = Described(k)
    <3>1. of[k] \in Recorded
      <4>1. P[r].body.data.of = of /\ k \in DOMAIN of
        BY <2>6
      <4>2. QED BY <1>1, <2>1, <2>5, <4>1, ShardsRecorded DEF P
    <3>2. Start[of[k]] = Start[Described(k)]
      <4>1. Names(SetIDs[k], of[k]) /\ Names(SetIDs[k], Described(k))
        BY <2>2, <2>6
      <4>2. QED BY <4>1 DEF Names, FileID
    <3>3. QED BY <1>1, <2>2, <3>1, <3>2 DEF HeadsShared
  <2> HIDE DEF of
  <2>8. of = [k \in DOMAIN SetIDs |-> Described(k)]
    BY <2>6, <2>7
  <2>9. QED BY <2>3, <2>6, <2>8 DEF Right, P
<1>2. Inv => MixIsSafe
  BY <1>1 DEF MixIsSafe
<1>3. QED BY <1>2, Invariance, PTL

\* A call that is refused, at whichever point, has not opened a file.
THEOREM RefusedCallsSpare == Spec => []RefusalSpares
<1>1. Inv => RefusalSpares
  BY DEF Inv, Sparing, RefusalSpares
<1>2. QED BY <1>1, Invariance, PTL
-------------------------------------------------------------------------------
(* The volumes of a set. *)

LEMMA FirstFacts ==
  ASSUME NEW c \in Counts
  PROVE  /\ Firsts(c) \subseteq 0 .. c - 1 /\ 0 \in Firsts(c)
         /\ \A m \in Firsts(c) : 2 * m + 1 < c => 2 * m + 1 \in Firsts(c)
         /\ \A S \in SUBSET (0 .. c - 1) :
              (0 \in S /\ \A m \in S : 2 * m + 1 < c => 2 * m + 1 \in S) => Firsts(c) \subseteq S
<1>1. c \in Nat \ {0}
  BY CountsAssumption
<1>2. 0 \in Firsts(c)
  BY <1>1 DEF Firsts
<1>3. ASSUME NEW m \in Firsts(c), 2 * m + 1 < c
      PROVE  2 * m + 1 \in Firsts(c)
  <2>1. m \in 0 .. c - 1
    BY DEF Firsts
  <2>2. 2 * m + 1 \in 0 .. c - 1
    BY <1>1, <1>3, <2>1
  <2>3. ASSUME NEW S \in SUBSET (0 .. c - 1),
               0 \in S, \A k \in S : 2 * k + 1 < c => 2 * k + 1 \in S
        PROVE  2 * m + 1 \in S
    BY <1>3, <2>3 DEF Firsts
  <2>4. QED BY <2>2, <2>3 DEF Firsts
<1>4. QED BY <1>2, <1>3 DEF Firsts

LEMMA NameFacts ==
  ASSUME NEW c \in Counts, NEW v \in VolumeNames(c)
  PROVE  /\ v[1] \in Firsts(c) /\ v[1] \in 0 .. c - 1 /\ v = VolumeName(c, v[1])
         /\ v = <<v[1], v[2]>> /\ v[2] \in Nat \ {0}
         /\ v[1] + v[2] = IF 2 * v[1] + 1 <= c THEN 2 * v[1] + 1 ELSE c
<1>1. c \in Nat \ {0}
  BY CountsAssumption
<1>2. PICK m \in Firsts(c) : v = VolumeName(c, m)
  BY DEF VolumeNames
<1>3. m \in 0 .. c - 1
  BY FirstFacts
<1>4. v[1] = m
  BY <1>2 DEF VolumeName
<1>5. v[2] = IF 2 * m + 1 <= c THEN m + 1 ELSE c - m
  BY <1>2 DEF VolumeName
<1>6. v[2] \in Nat \ {0} /\ v[1] + v[2] = IF 2 * v[1] + 1 <= c THEN 2 * v[1] + 1 ELSE c
  BY <1>1, <1>3, <1>4, <1>5
<1>7. v = <<v[1], v[2]>>
  BY <1>2, <1>4, <1>5 DEF VolumeName
<1>8. QED BY <1>2, <1>3, <1>4, <1>6, <1>7

\* Who starts with the index and goes on to what follows each file gets to all volumes.
LEMMA Chain ==
  ASSUME NEW c \in Counts, NEW V, Index \in V,
         \A f \in V, v \in VolumeNames(c) : v[1] = f[1] + f[2] => v \in V
  PROVE  VolumeNames(c) \subseteq V
<1> DEFINE S == {m \in Firsts(c) : VolumeName(c, m) \in V}
<1>1. c \in Nat \ {0} /\ Firsts(c) \subseteq 0 .. c - 1
  BY CountsAssumption, FirstFacts
<1>2. \A m \in Firsts(c) : VolumeName(c, m) \in VolumeNames(c) /\ VolumeName(c, m)[1] = m
  BY DEF VolumeNames, VolumeName
<1>3. 0 \in S
  <2>1. Index[1] + Index[2] = 0
    BY DEF Index
  <2>2. QED BY <1>2, <2>1, FirstFacts
<1>4. ASSUME NEW m \in S, 2 * m + 1 < c
      PROVE  2 * m + 1 \in S
  <2> DEFINE f == VolumeName(c, m)
  <2>1. f[1] + f[2] = IF 2 * f[1] + 1 <= c THEN 2 * f[1] + 1 ELSE c
    BY <1>2, NameFacts
  <2>2. m \in 0 .. c - 1 /\ f[1] = m
    BY <1>1, <1>2
  <2>3. f[1] + f[2] = 2 * m + 1
    BY <1>1, <1>4, <2>1, <2>2
  <2>4. 2 * m + 1 \in Firsts(c)
    BY <1>4, FirstFacts
  <2> HIDE DEF f
  <2>5. QED BY <1>2, <2>3, <2>4 DEF f
<1>5. S \in SUBSET (0 .. c - 1)
  BY <1>1
<1> HIDE DEF S
<1>6. Firsts(c) \subseteq S
  BY <1>3, <1>4, <1>5, FirstFacts
<1>7. QED BY <1>6 DEF S, VolumeNames

LEMMA Covered ==
  ASSUME NEW c \in Counts, NEW e \in 0 .. c - 1
  PROVE  \E v \in VolumeNames(c) : e \in v[1] .. v[1] + v[2] - 1
<1> DEFINE T == {m \in Firsts(c) : m <= e}
<1>1. c \in Nat \ {0} /\ Firsts(c) \subseteq 0 .. c - 1 /\ 0 \in T
  BY CountsAssumption, FirstFacts
<1>2. PICK m \in T : \A k \in T : k <= m
  <2>1. T \in SUBSET Nat /\ T # {} /\ e \in Nat /\ \A x \in T : x <= e
    BY <1>1
  <2> HIDE DEF T
  <2>2. QED BY <2>1, GreatestNatural
<1>3. m \in Firsts(c) /\ m \in Nat /\ m <= e
  BY <1>1
<1> DEFINE v == VolumeName(c, m)
<1>4. v \in VolumeNames(c) /\ v[1] = m
  BY <1>3 DEF VolumeNames, VolumeName
<1> HIDE DEF v
<1>5. v[2] \in Nat /\ v[1] + v[2] = IF 2 * v[1] + 1 <= c THEN 2 * v[1] + 1 ELSE c
  BY <1>4, NameFacts
<1>6. 2 * m + 1 < c => e < 2 * m + 1
  <2>1. 2 * m + 1 < c => 2 * m + 1 \in Firsts(c)
    BY <1>3, FirstFacts
  <2>2. 2 * m + 1 \in T => 2 * m + 1 <= m
    BY <1>2
  <2>3. QED BY <1>1, <1>3, <2>1, <2>2
<1>7. e < v[1] + v[2]
  BY <1>1, <1>3, <1>4, <1>5, <1>6
<1>8. QED BY <1>3, <1>4, <1>5, <1>7

-------------------------------------------------------------------------------
(* What Create writes, and what is read from it. *)

\* File IDs and the contents that they belong to, as Create reads them.
Known(ids, contents) ==
  /\ \E paths \in Arguments : ids \in [DOMAIN paths -> IDs]
  /\ \A k \in DOMAIN ids : ids[k] \in DOMAIN contents
  /\ \A id \in DOMAIN contents : id \in IDs /\ contents[id] \in Contents

\* The packets for file f, by themselves.
Main(ids) == [recoverySet |-> ids]
OfFile(id, contents) == [id |-> id, content |-> contents[id]]
Shard(e, ids, contents) == [exponent |-> e, of |-> [k \in DOMAIN ids |-> contents[ids[k]]]]
Exponents(f) == f[1] .. f[1] + f[2] - 1
Made(f, ids, contents) ==
  WriteFile(Main(ids),
            [id \in DOMAIN contents |-> OfFile(id, contents)],
            [id \in DOMAIN contents |-> OfFile(id, contents)],
            [e \in Exponents(f) |-> Shard(e, ids, contents)])

Packet(ids, type, body) == [set |-> Main(ids), type |-> type, body |-> body]
Fixed(ids) == 2 + 2 * Len(ids)

\* The n-th of the exponents is the first one and n.
LEMMA NthExponentIs ==
  ASSUME NEW a \in Nat, NEW c \in Nat, NEW n \in 0 .. c - 1
  PROVE  LET all == a .. a + c - 1
         IN  (CHOOSE x \in all : Cardinality({y \in all : y < x}) = n) = a + n
<1> DEFINE all == a .. a + c - 1
<1>1. ASSUME NEW x \in all
      PROVE  Cardinality({y \in all : y < x}) = x - a
  <2>1. {y \in all : y < x} = a .. x - 1 /\ a \in Int /\ x - 1 \in Int /\ a <= x
    OBVIOUS
  <2>2. Cardinality(a .. x - 1) = IF a > x - 1 THEN 0 ELSE (x - 1) - a + 1
    BY <2>1, FS_Interval
  <2>3. x \in Int /\ (IF a > x - 1 THEN 0 ELSE (x - 1) - a + 1) = x - a
    BY <2>1
  <2> HIDE DEF all
  <2>4. QED BY <2>1, <2>2, <2>3
<1>2. a + n \in all /\ \A x \in all : x - a = n <=> x = a + n
  OBVIOUS
<1> HIDE DEF all
<1>3. \A x \in all : Cardinality({y \in all : y < x}) = n <=> x = a + n
  BY <1>1, <1>2
<1>4. QED BY <1>2, <1>3 DEF all

LEMMA KnownFacts ==
  ASSUME NEW ids, NEW contents, Known(ids, contents)
  PROVE  /\ Len(ids) \in Nat \ {0} /\ DOMAIN ids = 1 .. Len(ids) /\ ids \in Seq(IDs)
         /\ \A k \in DOMAIN ids : ids[k] \in DOMAIN contents
         /\ \A id \in DOMAIN contents : id \in IDs /\ contents[id] \in Contents
         /\ Main(ids) \in Sets
<1>1. PICK paths \in Arguments : ids \in [DOMAIN paths -> IDs]
  BY DEF Known
<1>2. Len(paths) \in Nat \ {0} /\ DOMAIN paths = 1 .. Len(paths)
  BY PathFacts
<1>3. ids \in Seq(IDs) /\ Len(ids) = Len(paths)
  BY <1>1, <1>2
<1>4. Main(ids) \in Sets
  BY <1>1 DEF Main, Sets
<1>5. QED BY <1>2, <1>3, <1>4 DEF Known

\* The packets of a file, by their place.
LEMMA Layout ==
  ASSUME NEW ids, NEW contents, Known(ids, contents), NEW f, f[1] \in Nat, f[2] \in Nat
  PROVE  LET P == Made(f, ids, contents)
             fixed == Fixed(ids)
         IN  /\ DOMAIN P = 1 .. fixed + f[2] /\ P = [k \in 1 .. fixed + f[2] |-> P[k]]
             /\ P[1] = Packet(ids, "creator", [client |-> "gopar"])
             /\ P[2] = Packet(ids, "main", Main(ids))
             /\ \A k \in 3 .. fixed :
                  LET id == ids[(k - 1) \div 2]
                  IN  /\ (k - 1) \div 2 \in 1 .. Len(ids)
                      /\ P[k] = Packet(ids, IF k % 2 = 1 THEN "fileDesc" ELSE "ifsc",
                                       OfFile(id, contents))
             /\ \A k \in fixed + 1 .. fixed + f[2] :
                  LET e == f[1] + (k - fixed - 1)
                  IN  /\ e \in Exponents(f)
                      /\ P[k] = Packet(ids, "recovery",
                                       [exponent |-> e, data |-> Shard(e, ids, contents)])
<1> DEFINE P == Made(f, ids, contents)
           fixed == Fixed(ids)
           described == [id \in DOMAIN contents |-> OfFile(id, contents)]
           all == Exponents(f)
           recovery == [e \in all |-> Shard(e, ids, contents)]
           exponent(n) == CHOOSE e \in all : Cardinality({x \in all : x < e}) = n
<1>1. Len(ids) \in Nat \ {0} /\ DOMAIN ids = 1 .. Len(ids) /\ fixed \in Nat /\ fixed >= 4
      /\ fixed = 2 + 2 * Len(ids)
  BY KnownFacts DEF Fixed
<1>2. Cardinality(all) = f[2] /\ DOMAIN recovery = all
  BY VolumeSize DEF Exponents
<1>3. P = [k \in 1 .. fixed + f[2] |->
            IF k = 1 THEN Packet(ids, "creator", [client |-> "gopar"])
            ELSE IF k = 2 THEN Packet(ids, "main", Main(ids))
            ELSE IF k > fixed
              THEN Packet(ids, "recovery", [exponent |-> exponent(k - fixed - 1),
                                            data |-> recovery[exponent(k - fixed - 1)]])
            ELSE IF k % 2 = 1 THEN Packet(ids, "fileDesc", described[ids[(k - 1) \div 2]])
            ELSE Packet(ids, "ifsc", described[ids[(k - 1) \div 2]])]
  BY <1>1, <1>2 DEF Made, WriteFile, Packet, Main, Fixed
<1>4. DOMAIN P = 1 .. fixed + f[2] /\ P = [k \in 1 .. fixed + f[2] |-> P[k]]
  BY <1>3
<1>5. /\ P[1] = Packet(ids, "creator", [client |-> "gopar"])
      /\ P[2] = Packet(ids, "main", Main(ids))
  <2>1. 1 \in 1 .. fixed + f[2] /\ 2 \in 1 .. fixed + f[2]
    BY <1>1
  <2>2. QED BY <1>3, <2>1
<1>6. ASSUME NEW k \in 3 .. fixed
      PROVE  /\ (k - 1) \div 2 \in 1 .. Len(ids)
             /\ P[k] = Packet(ids, IF k % 2 = 1 THEN "fileDesc" ELSE "ifsc",
                              OfFile(ids[(k - 1) \div 2], contents))
  <2>1. (k - 1) \div 2 \in 1 .. Len(ids)
    BY <1>1
  <2>2. ids[(k - 1) \div 2] \in DOMAIN contents
    BY <1>1, <2>1, KnownFacts
  <2>3. described[ids[(k - 1) \div 2]] = OfFile(ids[(k - 1) \div 2], contents)
    BY <2>2
  <2>4. k \in 1 .. fixed + f[2] /\ k # 1 /\ k # 2 /\ ~(k > fixed)
    BY <1>1
  <2>5. P[k] = IF k % 2 = 1 THEN Packet(ids, "fileDesc", described[ids[(k - 1) \div 2]])
               ELSE Packet(ids, "ifsc", described[ids[(k - 1) \div 2]])
    BY <1>3, <2>4
  <2>6. QED BY <2>1, <2>3, <2>5
<1>7. ASSUME NEW k \in fixed + 1 .. fixed + f[2]
      PROVE  LET e == f[1] + (k - fixed - 1)
             IN  /\ e \in all
                 /\ P[k] = Packet(ids, "recovery",
                                  [exponent |-> e, data |-> Shard(e, ids, contents)])
  <2>1. k - fixed - 1 \in 0 .. f[2] - 1
    BY <1>1
  <2>2. exponent(k - fixed - 1) = f[1] + (k - fixed - 1)
    BY <2>1, NthExponentIs DEF Exponents
  <2>3. f[1] + (k - fixed - 1) \in all
    BY <2>1 DEF Exponents
  <2>4. k \in 1 .. fixed + f[2] /\ k # 1 /\ k # 2 /\ k > fixed
    BY <1>1
  <2>5. P[k] = Packet(ids, "recovery", [exponent |-> exponent(k - fixed - 1),
                                        data |-> recovery[exponent(k - fixed - 1)]])
    BY <1>3, <2>4
  <2>6. QED BY <2>2, <2>3, <2>5
<1>8. QED BY <1>4, <1>5, <1>6, <1>7

LEMMA FunctionIsSeq ==
  ASSUME NEW S, NEW n \in Nat, NEW s, s = [k \in 1 .. n |-> s[k]], \A k \in 1 .. n : s[k] \in S
  PROVE  s \in Seq(S)
OBVIOUS

LEMMA MadePackets ==
  ASSUME NEW ids, NEW contents, Known(ids, contents), NEW f, f[1] \in Nat, f[2] \in Nat
  PROVE  LET P == Made(f, ids, contents)
         IN  /\ P \in Seq(Packets) /\ P # NoFile
             /\ \A k \in DOMAIN P : P[k] # Broken /\ P[k].set = Main(ids) /\ P[k].body # Malformed
<1> DEFINE P == Made(f, ids, contents)
           n == Fixed(ids) + f[2]
           types == {"creator", "main", "fileDesc", "ifsc", "recovery"}
<1>1. /\ Len(ids) \in Nat \ {0} /\ DOMAIN ids = 1 .. Len(ids) /\ ids \in Seq(IDs)
      /\ \A k \in DOMAIN ids : ids[k] \in DOMAIN contents
      /\ \A id \in DOMAIN contents : id \in IDs /\ contents[id] \in Contents
      /\ Main(ids) \in [recoverySet : Seq(IDs)]
      /\ Fixed(ids) \in Nat /\ n \in Nat /\ Fixed(ids) >= 4
  <2>1. /\ Len(ids) \in Nat \ {0} /\ DOMAIN ids = 1 .. Len(ids) /\ ids \in Seq(IDs)
        /\ \A k \in DOMAIN ids : ids[k] \in DOMAIN contents
        /\ \A id \in DOMAIN contents : id \in IDs /\ contents[id] \in Contents
    BY KnownFacts
  <2>2. Fixed(ids) \in Nat /\ Fixed(ids) >= 4
    BY <2>1 DEF Fixed
  <2>3. n \in Nat
    BY <2>2
  <2>4. Main(ids) \in [recoverySet : Seq(IDs)]
    BY <2>1 DEF Main
  <2>5. QED BY <2>1, <2>2, <2>3, <2>4
<1>2. ASSUME NEW type \in types, NEW body \in Bodies
      PROVE  Packet(ids, type, body) \in Packets
  BY <1>1 DEF Packet, Packets
<1>3. DOMAIN P = 1 .. n /\ P = [k \in 1 .. n |-> P[k]]
  BY Layout
<1>4. [client |-> "gopar"] \in Bodies /\ Main(ids) \in Bodies
  BY <1>1 DEF Bodies
<1>5. ASSUME NEW k \in DOMAIN ids
      PROVE  OfFile(ids[k], contents) \in Bodies
  BY <1>1 DEF Bodies, OfFile
<1>6. ASSUME NEW e \in Exponents(f)
      PROVE  [exponent |-> e, data |-> Shard(e, ids, contents)] \in Bodies
  <2>1. e \in Nat
    BY DEF Exponents
  <2>2. \A k \in 1 .. Len(ids) : contents[ids[k]] \in Contents
    BY <1>1
  <2>3. [k \in DOMAIN ids |-> contents[ids[k]]] \in Seq(Contents)
    BY <1>1, <2>2
  <2>4. Shard(e, ids, contents) \in [exponent : Nat, of : Seq(Contents)]
    BY <2>1, <2>3 DEF Shard
  <2>5. QED BY <2>1, <2>4 DEF Bodies
<1>7. ASSUME NEW k \in 1 .. n
      PROVE  \E type \in types, body \in Bodies : P[k] = Packet(ids, type, body)
  <2>1. CASE k = 1
    BY <1>4, <2>1, Layout
  <2>2. CASE k = 2
    BY <1>4, <2>2, Layout
  <2>3. CASE k \in 3 .. Fixed(ids)
    <3> DEFINE type == IF k % 2 = 1 THEN "fileDesc" ELSE "ifsc"
    <3>1. /\ (k - 1) \div 2 \in 1 .. Len(ids)
          /\ P[k] = Packet(ids, type, OfFile(ids[(k - 1) \div 2], contents))
      BY <2>3, Layout
    <3>2. type \in types
      OBVIOUS
    <3> HIDE DEF P, type
    <3>3. OfFile(ids[(k - 1) \div 2], contents) \in Bodies
      BY <1>1, <1>5, <3>1
    <3>4. QED BY <3>1, <3>2, <3>3
  <2>4. CASE k \in Fixed(ids) + 1 .. n
    <3> DEFINE e == f[1] + (k - Fixed(ids) - 1)
               body == [exponent |-> e, data |-> Shard(e, ids, contents)]
    <3>1. e \in Exponents(f) /\ P[k] = Packet(ids, "recovery", body)
      BY <2>4, Layout
    <3> HIDE DEF P, e
    <3>2. body \in Bodies
      BY <1>6, <3>1
    <3> HIDE DEF body
    <3>3. QED BY <3>1, <3>2
  <2> HIDE DEF n
  <2>5. k = 1 \/ k = 2 \/ k \in 3 .. Fixed(ids) \/ k \in Fixed(ids) + 1 .. n
    BY <1>1
  <2> HIDE DEF P, types
  <2>6. QED BY <2>1, <2>2, <2>3, <2>4, <2>5
<1> HIDE DEF P
<1>8. ASSUME NEW k \in DOMAIN P
      PROVE  P[k] \in Packets /\ P[k] # Broken /\ P[k].set = Main(ids) /\ P[k].body # Malformed
  <2>1. PICK type \in types, body \in Bodies : P[k] = Packet(ids, type, body)
    BY <1>3, <1>7
  <2>2. P[k].set = Main(ids) /\ P[k].body = body
    BY <2>1 DEF Packet
  <2>3. QED BY <1>2, <2>1, <2>2, PacketsAssumption
<1> HIDE DEF n
<1>9. P \in Seq(Packets)
  <2>1. n \in Nat /\ \A k \in 1 .. n : P[k] \in Packets
    BY <1>1, <1>3, <1>8
  <2>2. QED BY <1>3, <2>1, FunctionIsSeq
<1>10. QED BY <1>8, <1>9, PacketsAssumption DEF P

LEMMA Halves ==
  ASSUME NEW k \in Nat, NEW n \in Nat, 1 <= k, k <= n
  PROVE  /\ 2 * k + 1 \in 3 .. 2 + 2 * n /\ (2 * k + 1) % 2 = 1 /\ ((2 * k + 1) - 1) \div 2 = k
         /\ 2 * k + 2 \in 3 .. 2 + 2 * n /\ (2 * k + 2) % 2 = 0 /\ ((2 * k + 2) - 1) \div 2 = k
OBVIOUS

\* Read with its own set ID, or without one, a file that is written whole gives back what
\* it was made from.
LEMMA MadeRead ==
  ASSUME NEW ids, NEW contents, Known(ids, contents), NEW f, f[1] \in Nat, f[2] \in Nat,
         NEW expected \in {AnySet, Main(ids)}
  PROVE  LET P == Made(f, ids, contents)
         IN  /\ ReadOutcome(expected, P) = "ok" /\ HasMain(expected, P)
             /\ MainOf(expected, P) = Main(ids)
             /\ f[2] = 0 => OfType(expected, P, "recovery") = {}
             /\ \A k \in DOMAIN ids :
                  /\ ids[k] \in IDsOf(expected, P, "fileDesc") \cap IDsOf(expected, P, "ifsc")
                  /\ DescriptionOf(expected, P, ids[k]).content = contents[ids[k]]
             /\ Recovery(expected, P) = [e \in Exponents(f) |-> Shard(e, ids, contents)]
<1> DEFINE P == Made(f, ids, contents)
           fixed == Fixed(ids)
           n == fixed + f[2]
           taken(type) == {k \in DOMAIN P : P[k].type = type}
<1>1. /\ Len(ids) \in Nat \ {0} /\ DOMAIN ids = 1 .. Len(ids)
      /\ fixed \in Nat /\ fixed >= 4 /\ fixed = 2 + 2 * Len(ids)
  BY KnownFacts DEF Fixed
<1>2. /\ DOMAIN P = 1 .. n /\ n \in Nat
      /\ \A k \in DOMAIN P : P[k] # Broken /\ P[k].set = Main(ids) /\ P[k].body # Malformed
  BY <1>1, Layout, MadePackets
<1>3. /\ P[1].type = "creator" /\ P[2].type = "main" /\ P[2].body = Main(ids)
      /\ 1 \in DOMAIN P /\ 2 \in DOMAIN P
  <2>1. P[1] = Packet(ids, "creator", [client |-> "gopar"]) /\ P[2] = Packet(ids, "main", Main(ids))
    BY Layout
  <2>2. QED BY <1>1, <1>2, <2>1 DEF Packet
<1>4. ASSUME NEW k \in 3 .. fixed
      PROVE  /\ (k - 1) \div 2 \in 1 .. Len(ids)
             /\ P[k].type = IF k % 2 = 1 THEN "fileDesc" ELSE "ifsc"
             /\ P[k].body = OfFile(ids[(k - 1) \div 2], contents)
  <2>1. /\ (k - 1) \div 2 \in 1 .. Len(ids)
        /\ P[k] = Packet(ids, IF k % 2 = 1 THEN "fileDesc" ELSE "ifsc",
                         OfFile(ids[(k - 1) \div 2], contents))
    BY Layout
  <2>2. QED BY <2>1 DEF Packet
<1>5. ASSUME NEW k \in fixed + 1 .. n
      PROVE  LET e == f[1] + (k - fixed - 1)
             IN  /\ e \in Exponents(f) /\ P[k].type = "recovery"
                 /\ P[k].body = [exponent |-> e, data |-> Shard(e, ids, contents)]
  <2> DEFINE e == f[1] + (k - fixed - 1)
  <2>1. /\ e \in Exponents(f)
        /\ P[k] = Packet(ids, "recovery", [exponent |-> e, data |-> Shard(e, ids, contents)])
    BY Layout
  <2> HIDE DEF e
  <2>2. P[k].type = "recovery" /\ P[k].body = [exponent |-> e, data |-> Shard(e, ids, contents)]
    BY <2>1 DEF Packet
  <2>3. QED BY <2>1, <2>2 DEF e
<1>6. ASSUME NEW k \in DOMAIN P
      PROVE  k = 1 \/ k = 2 \/ k \in 3 .. fixed \/ k \in fixed + 1 .. n
  BY <1>1, <1>2
<1> HIDE DEF P
<1>7. Mine(expected, P) = DOMAIN P
  <2>1. \A k \in DOMAIN P : \A j \in 1 .. k : j \in DOMAIN P
    BY <1>2
  <2>2. QED BY <1>2, <1>3, <2>1 DEF Mine
<1>8. \A type : OfType(expected, P, type) = taken(type)
  BY <1>7 DEF OfType
<1>9. ASSUME NEW k \in taken("recovery")
      PROVE  /\ k \in fixed + 1 .. n
             /\ P[k].body.exponent \in Exponents(f)
             /\ P[k].body.data = Shard(P[k].body.exponent, ids, contents)
  <2>1. k \in fixed + 1 .. n
    BY <1>3, <1>4, <1>6
  <2> DEFINE e == f[1] + (k - fixed - 1)
  <2>2. e \in Exponents(f) /\ P[k].body = [exponent |-> e, data |-> Shard(e, ids, contents)]
    BY <1>5, <2>1
  <2> HIDE DEF e
  <2>3. QED BY <2>1, <2>2
<1>10. ~Conflict(expected, P)
  BY <1>8, <1>9 DEF Conflict
<1>11. ReadOutcome(expected, P) = "ok"
  <2>1. OfType(expected, P, "creator") # {}
    BY <1>3, <1>8
  <2>2. QED BY <1>2, <1>3, <1>7, <1>10, <2>1 DEF ReadOutcome
<1>12. HasMain(expected, P) /\ MainOf(expected, P) = Main(ids)
  <2>1. taken("main") = {2}
    BY <1>3, <1>4, <1>5, <1>6
  <2>2. LastOf({2}) = 2
    BY DEF LastOf
  <2>3. QED BY <1>3, <1>8, <2>1, <2>2 DEF HasMain, MainOf
<1>13. f[2] = 0 => OfType(expected, P, "recovery") = {}
  BY <1>1, <1>8, <1>9
<1>14. ASSUME NEW k \in DOMAIN ids
       PROVE  /\ ids[k] \in IDsOf(expected, P, "fileDesc") \cap IDsOf(expected, P, "ifsc")
              /\ DescriptionOf(expected, P, ids[k]).content = contents[ids[k]]
  <2> DEFINE A == About(expected, P, "fileDesc", ids[k])
  <2>0. \A j \in 3 .. fixed : j \in DOMAIN P
    BY <1>1, <1>2
  <2>1. k \in 1 .. Len(ids)
    BY <1>1
  <2>2. /\ 2 * k + 1 \in 3 .. fixed /\ (2 * k + 1) % 2 = 1 /\ ((2 * k + 1) - 1) \div 2 = k
        /\ 2 * k + 2 \in 3 .. fixed /\ (2 * k + 2) % 2 = 0 /\ ((2 * k + 2) - 1) \div 2 = k
    <3>1. k \in Nat /\ 1 <= k /\ k <= Len(ids) /\ Len(ids) \in Nat /\ fixed = 2 + 2 * Len(ids)
      BY <1>1, <2>1
    <3> HIDE DEF fixed
    <3>2. QED BY <3>1, Halves
  <2> HIDE DEF fixed
  <2>3. /\ P[2 * k + 1].type = "fileDesc" /\ P[2 * k + 1].body = OfFile(ids[k], contents)
        /\ P[2 * k + 2].type = "ifsc" /\ P[2 * k + 2].body = OfFile(ids[k], contents)
    <3> DEFINE a == 2 * k + 1  b == 2 * k + 2
    <3>1. /\ a \in 3 .. fixed /\ a % 2 = 1 /\ (a - 1) \div 2 = k
          /\ b \in 3 .. fixed /\ b % 2 = 0 /\ (b - 1) \div 2 = k
      BY <2>2
    <3> HIDE DEF a, b
    <3>2. P[a].type = "fileDesc" /\ P[a].body = OfFile(ids[k], contents)
      BY <1>4, <3>1
    <3>3. P[b].type = "ifsc" /\ P[b].body = OfFile(ids[k], contents)
      BY <1>4, <3>1
    <3>4. QED BY <3>2, <3>3 DEF a, b
  <2>4. 2 * k + 1 \in taken("fileDesc") /\ 2 * k + 2 \in taken("ifsc")
    BY <2>0, <2>2, <2>3
  <2>5. OfFile(ids[k], contents).id = ids[k]
    BY DEF OfFile
  <2>6. ids[k] \in IDsOf(expected, P, "fileDesc") /\ ids[k] \in IDsOf(expected, P, "ifsc")
    BY <1>8, <2>3, <2>4, <2>5 DEF IDsOf
  <2>7. 2 * k + 1 \in A
    BY <1>8, <2>3, <2>4, <2>5 DEF About
  <2>8. A \subseteq taken("fileDesc") /\ \A j \in A : P[j].body.id = ids[k]
    BY <1>8 DEF About
  <2> HIDE DEF A
  <2>9. LastOf(A) \in A
    <3>1. A \in SUBSET (1 .. n) /\ A # {}
      BY <1>2, <2>7, <2>8
    <3>2. QED BY <1>2, <3>1, LastIsIn
  <2>10. ASSUME NEW j \in taken("fileDesc"), P[j].body.id = ids[k]
         PROVE  P[j].body.content = contents[ids[k]]
    <3>1. j \in 3 .. fixed
      BY <1>3, <1>5, <1>6
    <3>2. P[j].body = OfFile(ids[(j - 1) \div 2], contents)
      BY <1>4, <3>1
    <3>3. QED BY <2>10, <3>2 DEF OfFile
  <2>11. P[LastOf(A)].body.content = contents[ids[k]]
    BY <2>8, <2>9, <2>10
  <2>12. QED BY <2>6, <2>11 DEF DescriptionOf, A
<1>15. Recovery(expected, P) = [e \in Exponents(f) |-> Shard(e, ids, contents)]
  <2> DEFINE R == taken("recovery")
  <2>1. {P[k].body.exponent : k \in R} = Exponents(f)
    <3>1. ASSUME NEW e \in Exponents(f)
          PROVE  \E k \in R : P[k].body.exponent = e
      <4> DEFINE k == fixed + 1 + (e - f[1])
      <4>1. k \in fixed + 1 .. n /\ f[1] + (k - fixed - 1) = e
        <5> HIDE DEF fixed
        <5>1. fixed \in Nat /\ f[1] \in Nat /\ f[2] \in Nat
          BY <1>1
        <5>2. e \in Int /\ f[1] <= e /\ e <= f[1] + f[2] - 1
          BY <5>1 DEF Exponents
        <5>3. QED BY <5>1, <5>2
      <4> HIDE DEF k
      <4>2. P[k].type = "recovery" /\ P[k].body = [exponent |-> e, data |-> Shard(e, ids, contents)]
        BY <1>5, <4>1
      <4>3. k \in DOMAIN P
        BY <1>1, <1>2, <4>1
      <4>4. QED BY <4>2, <4>3
    <3>2. QED BY <1>9, <3>1
  <2>2. ASSUME NEW e \in Exponents(f)
        PROVE  P[CHOOSE k \in R : P[k].body.exponent = e].body.data = Shard(e, ids, contents)
    <3> DEFINE c == CHOOSE k \in R : P[k].body.exponent = e
    <3>1. \E k \in R : P[k].body.exponent = e
      BY <2>1
    <3>2. c \in R /\ P[c].body.exponent = e
      BY <3>1
    <3> HIDE DEF c, R
    <3>3. QED BY <1>9, <3>2 DEF R, c
  <2> HIDE DEF R
  <2>3. QED BY <1>8, <2>1, <2>2 DEF Recovery, R
<1>16. QED BY <1>11, <1>12, <1>13, <1>14, <1>15 DEF P

-------------------------------------------------------------------------------
(* What a call has done while no other program changed a file. *)

\* The data files are among what ids and contents describe, as they are.
Describes(ids, contents) ==
  \A n \in DOMAIN filePaths :
    LET c == files[filePaths[n]]
    IN  /\ c # Missing
        /\ \E k \in DOMAIN ids : ids[k] = FileID(filePaths[n], c) /\ contents[ids[k]] = c

\* A path that was given once has one ID.
Single(ids) ==
  \A k, m \in DOMAIN ids : GivenOnce(ids[k][1]) /\ ids[m] = ids[k] => m = k

Written(V, ids, contents) == \A f \in V : par[f] = Made(f, ids, contents)

\* V is all that is to be written before target.
Before(V) ==
  /\ target \in {Index} \cup VolumeNames(count) /\ target \notin V
  /\ V \subseteq {Index} \cup VolumeNames(count) /\ Index \in V \cup {target}
  /\ \A f \in V : f[1] + f[2] <= target[1]
  /\ \A f \in V, v \in VolumeNames(count) : v[1] = f[1] + f[2] => v \in V \cup {target}

UpToDate ==
  /\ since \in [changed : BOOLEAN, wrote : BOOLEAN]
  /\ pc \in {"idle", "load"} => target = Index
  /\ ~since.changed =>
       /\ pc = "load" =>
            \A k \in 1 .. i - 1 :
              LET c == files[filePaths[k]]
              IN  c # Missing /\ recoverySet[k] = FileID(filePaths[k], c)
                    /\ infos[recoverySet[k]] = c
       /\ pc \in {"write", "writing"} =>
            /\ Describes(recoverySet, infos) /\ Single(recoverySet)
            /\ \E V : Before(V) /\ Written(V, recoverySet, infos)
       /\ result = "created" =>
            \E ids, contents :
              /\ Known(ids, contents) /\ Describes(ids, contents) /\ Single(ids)
              /\ Written({Index} \cup VolumeNames(count), ids, contents)

LEMMA ReturnUpToDate ==
  ASSUME UpToDate, NEW outcome, Return(outcome), outcome # "created", UNCHANGED since
  PROVE  UpToDate'
BY DEF Return, UpToDate

LEMMA KnownWhileWriting ==
  ASSUME Reading, pc \in {"write", "writing"}
  PROVE  /\ Known(recoverySet, infos)
         /\ \A f : PacketsOf(f) = Made(f, recoverySet, infos)
<1>1. ASSUME NEW id \in DOMAIN infos PROVE id \in IDs /\ infos[id] \in Contents
  BY DEF Reading, Names, IDs
<1>2. Known(recoverySet, infos)
  BY <1>1 DEF Reading, Known
<1>3. parity = [k \in DOMAIN recoverySet |-> infos[recoverySet[k]]]
  BY DEF Reading, ShardsOf
<1>4. QED
  BY <1>2, <1>3 DEF PacketsOf, Made, Main, OfFile, Exponents, Shard

\* Sorting loses no ID.
LEMMA SortedHasAll ==
  ASSUME NEW n \in Nat, NEW ids, DOMAIN ids = 1 .. n, NEW s \in SortedByID(ids), NEW j \in DOMAIN ids
  PROVE  \E k \in DOMAIN s : s[k] = ids[j]
<1> DEFINE S == {k \in DOMAIN s : s[k] = ids[j]}
           T == {k \in DOMAIN ids : ids[k] = ids[j]}
<1>1. Cardinality(S) = Cardinality(T) /\ DOMAIN s = DOMAIN ids
  BY DEF SortedByID
<1>2. IsFiniteSet(1 .. n)
  BY FS_Interval, 1 \in Int, n \in Int
<1>3. IsFiniteSet(S) /\ IsFiniteSet(T)
  BY <1>1, <1>2, FS_Subset
<1>4. j \in T
  OBVIOUS
<1> HIDE DEF T
<1>5. Cardinality(T) # 0
  BY <1>3, <1>4, FS_EmptySet
<1> HIDE DEF S
<1>6. S # {}
  BY <1>1, <1>5, FS_EmptySet
<1>7. QED BY <1>6 DEF S

\* Nor does it double one.
LEMMA SortedHasOne ==
  ASSUME NEW n \in Nat, NEW ids, DOMAIN ids = 1 .. n, NEW s \in SortedByID(ids),
         NEW k \in DOMAIN s, NEW m \in DOMAIN s, s[m] = s[k],
         \A a, b \in DOMAIN ids : ids[a] = s[k] /\ ids[b] = s[k] => a = b
  PROVE  m = k
<1> DEFINE S == {j \in DOMAIN s : s[j] = s[k]}
           T == {j \in DOMAIN ids : ids[j] = s[k]}
<1>1. DOMAIN s = DOMAIN ids /\ s \in [DOMAIN ids -> {ids[j] : j \in DOMAIN ids}]
  BY SortedFacts
<1>2. PICK a \in DOMAIN ids : ids[a] = s[k]
  BY <1>1
<1>3. Cardinality(S) = Cardinality(T)
  BY <1>2 DEF SortedByID
<1>4. T = {a}
  BY <1>2
<1>5. IsFiniteSet(S)
  BY <1>1, FS_Interval, FS_Subset, 1 \in Int, n \in Int
<1>6. S \cap {k, m} = {k, m}
  OBVIOUS
<1> HIDE DEF S, T
<1>7. Cardinality(S) = 1
  BY <1>3, <1>4, FS_Singleton
<1>8. PICK x : S = {x}
  BY <1>5, <1>7, FS_Singleton
<1>9. QED BY <1>6, <1>8

LEMMA StepUpToDate == Inv /\ UpToDate /\ [Next]_vars => UpToDate'
<1> SUFFICES ASSUME Inv, UpToDate, [Next]_vars PROVE UpToDate'
  OBVIOUS
<1>0. Reading /\ PacketsOK /\ Sparing
  BY DEF Inv
<1>1. CASE Create
  <2>1. /\ pc = "idle" /\ pc' = "load" /\ result' = "pending" /\ UNCHANGED <<i, target>>
        /\ since' = [changed |-> FALSE, wrote |-> FALSE]
    BY <1>1 DEF Create
  <2>2. 1 .. i' - 1 = {}
    BY <1>0, <2>1 DEF Reading
  <2>3. QED BY <2>1, <2>2 DEF UpToDate
<1>2. CASE LoadFile
  <2> DEFINE p == filePaths[i]
             c == files[p]
             id == FileID(p, c)
             at(k) == files[filePaths[k]]
  <2>1. UNCHANGED <<files, since>> /\ pc = "load" /\ i <= Len(filePaths) /\ result = "pending"
    BY <1>0, <1>2 DEF LoadFile, diskVars, Sparing
  <2>2. CASE Return("fileError")
    BY <2>1, <2>2, ReturnUpToDate
  <2>3. CASE /\ c # Missing
             /\ recoverySet' = Append(recoverySet, id)
             /\ infos' = [x \in DOMAIN infos \cup {id} |-> IF x = id THEN c ELSE infos[x]]
             /\ i' = i + 1
             /\ UNCHANGED <<filePaths, count, parity, pc, target, result>>
    <3> HIDE DEF c, id
    <3>1. recoverySet \in [1 .. i - 1 -> IDs] /\ i \in Nat \ {0}
      BY <1>0, <2>1 DEF Reading
    <3>2. recoverySet'[i] = id /\ \A k \in 1 .. i - 1 : recoverySet'[k] = recoverySet[k]
      <4>1. recoverySet \in Seq(IDs) /\ Len(recoverySet) = i - 1
        BY <3>1
      <4>2. QED BY <2>3, <3>1, <4>1
    <3>3. infos'[id] = c
      BY <2>3
    <3>4. ASSUME ~since.changed, NEW k \in 1 .. i' - 1
          PROVE  /\ at(k) # Missing /\ recoverySet'[k] = FileID(filePaths[k], at(k))
                 /\ infos'[recoverySet'[k]] = at(k)
      <4>1. CASE k = i
        BY <2>3, <3>2, <3>3, <4>1 DEF c, id
      <4>2. CASE k \in 1 .. i - 1
        <5>1. /\ at(k) # Missing /\ recoverySet[k] = FileID(filePaths[k], at(k))
              /\ infos[recoverySet[k]] = at(k) /\ recoverySet[k] \in DOMAIN infos
          BY <1>0, <2>1, <3>1, <3>4, <4>2 DEF UpToDate, Reading
        <5>2. recoverySet'[k] = recoverySet[k]
          BY <3>2, <4>2
        <5>3. CASE recoverySet[k] = id
          <6>1. filePaths[k] = filePaths[i]
            BY <5>1, <5>3 DEF id, FileID
          <6>2. at(k) = c
            BY <6>1 DEF c
          <6>3. QED BY <3>3, <5>1, <5>2, <5>3, <6>2
        <5>4. CASE recoverySet[k] # id
          <6>1. infos'[recoverySet[k]] = infos[recoverySet[k]]
            BY <2>3, <5>1, <5>4
          <6>2. QED BY <5>1, <5>2, <6>1
        <5>5. QED BY <5>3, <5>4
      <4>3. k = i \/ k \in 1 .. i - 1
        BY <2>3, <3>1
      <4>4. QED BY <4>1, <4>2, <4>3
    <3>5. QED BY <2>1, <2>3, <3>4 DEF UpToDate
  <2>4. QED BY <1>2, <2>2, <2>3 DEF LoadFile
<1>3. CASE ComputeParityData
  <2>1. UNCHANGED <<files, since>> /\ pc = "load" /\ i > Len(filePaths) /\ result = "pending"
    BY <1>0, <1>3 DEF ComputeParityData, diskVars, Sparing
  <2>2. CASE Return("panic") \/ Return("tooManyShards")
    BY <2>1, <2>2, ReturnUpToDate
  <2>3. CASE /\ recoverySet' \in SortedByID(recoverySet)
             /\ pc' = "write"
             /\ UNCHANGED <<filePaths, count, infos, i, target, result>>
    <3>1. /\ i = Len(filePaths) + 1 /\ Len(filePaths) \in Nat
          /\ DOMAIN filePaths = 1 .. i - 1 /\ DOMAIN recoverySet = 1 .. i - 1 /\ i - 1 \in Nat
      BY <1>0, <2>1, PathFacts DEF Reading
    <3>2. ASSUME ~since.changed
          PROVE  Describes(recoverySet, infos)'
      <4>1. ASSUME NEW n \in DOMAIN filePaths
            PROVE  LET c == files[filePaths[n]]
                   IN  /\ c # Missing
                       /\ \E k \in DOMAIN recoverySet' :
                            recoverySet'[k] = FileID(filePaths[n], c) /\ infos[recoverySet'[k]] = c
        <5> DEFINE c == files[filePaths[n]]
        <5>1. c # Missing /\ recoverySet[n] = FileID(filePaths[n], c) /\ infos[recoverySet[n]] = c
          BY <2>1, <3>1, <3>2 DEF UpToDate
        <5>2. PICK k \in DOMAIN recoverySet' : recoverySet'[k] = recoverySet[n]
          BY <2>3, <3>1, SortedHasAll
        <5>3. QED BY <5>1, <5>2
      <4>2. QED BY <2>1, <2>3, <4>1 DEF Describes
    <3>5. ASSUME ~since.changed
          PROVE  Single(recoverySet)'
      <4>1. ASSUME NEW k \in DOMAIN recoverySet', NEW m \in DOMAIN recoverySet',
                   GivenOnce(recoverySet'[k][1]), recoverySet'[m] = recoverySet'[k]
            PROVE  m = k
        <5> DEFINE id == recoverySet'[k]
        <5>1. ASSUME NEW a \in DOMAIN recoverySet, recoverySet[a] = id
              PROVE  filePaths[a] = id[1]
          <6>1. recoverySet[a] = FileID(filePaths[a], files[filePaths[a]])
            BY <2>1, <3>1, <3>5 DEF UpToDate
          <6>2. QED BY <5>1, <6>1 DEF FileID
        <5>2. \A a, b \in DOMAIN recoverySet : recoverySet[a] = id /\ recoverySet[b] = id => a = b
          BY <3>1, <4>1, <5>1 DEF GivenOnce
        <5>3. QED BY <2>3, <3>1, <4>1, <5>2, SortedHasOne
      <4>2. QED BY <2>3, <4>1 DEF Single, GivenOnce
    <3>3. Before({})' /\ Written({}, recoverySet, infos)'
      BY <2>1, <2>3 DEF UpToDate, Before, Written
    <3>4. QED BY <2>1, <2>3, <3>2, <3>3, <3>5 DEF UpToDate
  <2>4. QED BY <1>3, <2>2, <2>3 DEF ComputeParityData
<1>4. CASE WriteRefused \/ OpenFails \/ WriteFails \/ Crash
  <2>1. PICK outcome \in {"emptyFile", "writeError", "killed"} : Return(outcome)
    BY <1>4 DEF WriteRefused, OpenFails, WriteFails, Crash
  <2>2. UNCHANGED since
    BY <1>4 DEF WriteRefused, OpenFails, WriteFails, Crash
  <2>3. QED BY <2>1, <2>2, ReturnUpToDate
<1>5. CASE OpenFile
  <2>1. /\ UNCHANGED <<files, filePaths, count, recoverySet, infos, target, result>>
        /\ since' = [since EXCEPT !.wrote = TRUE]
        /\ pc = "write" /\ pc' = "writing" /\ par' = [par EXCEPT ![target] = <<>>]
        /\ result = "pending"
    BY <1>0, <1>5 DEF OpenFile, encoderVars, Sparing
  <2>2. since' \in [changed : BOOLEAN, wrote : BOOLEAN] /\ since'.changed = since.changed
    BY <2>1 DEF UpToDate
  <2>3. ASSUME ~since.changed
        PROVE  /\ Describes(recoverySet, infos)' /\ Single(recoverySet)'
               /\ \E V : Before(V)' /\ Written(V, recoverySet, infos)'
    <3>1. PICK V : Before(V) /\ Written(V, recoverySet, infos)
      BY <2>1, <2>3 DEF UpToDate
    <3>2. Before(V)'
      BY <2>1, <3>1 DEF Before
    <3>3. \A f \in V : par'[f] = par[f]
      BY <2>1, <3>1 DEF Before
    <3>4. Written(V, recoverySet, infos)'
      BY <2>1, <3>1, <3>3 DEF Written
    <3>5. Describes(recoverySet, infos)' /\ Single(recoverySet)'
      BY <2>1, <2>3 DEF UpToDate, Describes, Single, GivenOnce
    <3>6. QED BY <3>2, <3>4, <3>5
  <2>4. QED BY <2>1, <2>2, <2>3 DEF UpToDate
<1>6. CASE FinishWrite
  <2>1. /\ UNCHANGED <<files, filePaths, count, since>> /\ pc = "writing" /\ result = "pending"
        /\ par' = [par EXCEPT ![target] = PacketsOf(target)]
    BY <1>0, <1>6 DEF FinishWrite, Return, encoderVars, Sparing
  <2>2. ASSUME ~since.changed
        PROVE  /\ Describes(recoverySet, infos) /\ Known(recoverySet, infos)
               /\ Single(recoverySet)
               /\ \E V : /\ Before(V)
                         /\ \A f \in V \cup {target} : par'[f] = Made(f, recoverySet, infos)
    <3>1. PICK V : Before(V) /\ Written(V, recoverySet, infos)
      BY <2>1, <2>2 DEF UpToDate
    <3>2. target \in DOMAIN par
      BY <1>0 DEF Reading, PacketsOK
    <3>3. Known(recoverySet, infos) /\ PacketsOf(target) = Made(target, recoverySet, infos)
      BY <1>0, <2>1, KnownWhileWriting
    <3>4. par'[target] = Made(target, recoverySet, infos)
      BY <2>1, <3>2, <3>3
    <3>5. \A f \in V : par'[f] = Made(f, recoverySet, infos)
      BY <2>1, <3>1 DEF Before, Written
    <3>6. Describes(recoverySet, infos) /\ Single(recoverySet)
      BY <2>1, <2>2 DEF UpToDate
    <3>7. QED BY <3>1, <3>3, <3>4, <3>5, <3>6
  <2>3. CASE NextVolumes(target) = {} /\ Return("created")
    <3>1. pc' = "idle" /\ target' = Index
      BY <2>3 DEF Return
    <3>2. ASSUME ~since.changed
          PROVE  \E ids, contents :
                   /\ Known(ids, contents) /\ Describes(ids, contents)' /\ Single(ids)'
                   /\ Written({Index} \cup VolumeNames(count), ids, contents)'
      <4>1. PICK V : /\ Before(V)
                     /\ \A f \in V \cup {target} : par'[f] = Made(f, recoverySet, infos)
        BY <2>2, <3>2
      <4> DEFINE W == V \cup {target}
      <4>2. Index \in W /\ count \in Counts
        BY <1>0, <4>1 DEF Before, Reading
      <4>3. ASSUME NEW f \in W, NEW v \in VolumeNames(count), v[1] = f[1] + f[2]
            PROVE  v \in W
        BY <2>3, <4>1, <4>3 DEF Before, NextVolumes
      <4>4. VolumeNames(count) \subseteq W
        BY <4>2, <4>3, Chain
      <4>5. \A f \in {Index} \cup VolumeNames(count) : par'[f] = Made(f, recoverySet, infos)
        BY <4>1, <4>2, <4>4
      <4> DEFINE ids == recoverySet
                 contents == infos
      <4>6. Known(ids, contents) /\ Describes(ids, contents) /\ Single(ids)
        BY <2>2, <3>2
      <4>7. \A n \in DOMAIN filePaths' :
              LET c == files'[filePaths'[n]]
              IN  /\ c # Missing
                  /\ \E k \in DOMAIN ids : ids[k] = FileID(filePaths'[n], c) /\ contents[ids[k]] = c
        BY <2>1, <4>6 DEF Describes
      <4>8. \A f \in {Index} \cup VolumeNames(count') : par'[f] = Made(f, ids, contents)
        BY <2>1, <4>5
      <4>9. \A k, m \in DOMAIN ids :
              (\A a, b \in DOMAIN filePaths' :
                 filePaths'[a] = ids[k][1] /\ filePaths'[b] = ids[k][1] => a = b)
                /\ ids[m] = ids[k] => m = k
        BY <2>1, <4>6 DEF Single, GivenOnce
      <4> HIDE DEF ids, contents
      <4>10. QED BY <4>6, <4>7, <4>8, <4>9 DEF Describes, Written, Single, GivenOnce
    <3>3. QED BY <2>1, <3>1, <3>2 DEF UpToDate
  <2>4. CASE target' \in NextVolumes(target) /\ pc' = "write" /\ UNCHANGED <<encoderVars, i, result>>
    <3>1. UNCHANGED <<recoverySet, infos, result>>
      BY <2>4 DEF encoderVars
    <3>2. ASSUME ~since.changed
          PROVE  /\ Describes(recoverySet, infos)' /\ Single(recoverySet)'
                 /\ \E V : Before(V)' /\ Written(V, recoverySet, infos)'
      <4>1. PICK V : /\ Before(V)
                     /\ \A f \in V \cup {target} : par'[f] = Made(f, recoverySet, infos)
        BY <2>2, <3>2
      <4>0. PICK W : W = V \cup {target}
        OBVIOUS
      <4>2. target' \in VolumeNames(count) /\ target'[1] = target[1] + target[2]
        BY <2>4 DEF NextVolumes
      <4>3. count \in Counts /\ target'[1] \in Nat /\ target'[2] \in Nat \ {0}
        BY <1>0, <4>2, CountsAssumption, NameFacts DEF Reading
      <4>4. /\ target[1] \in Nat /\ target[2] \in Nat
            /\ \A f \in W : f[1] \in Nat /\ f[2] \in Nat
        <5>1. W \subseteq {Index} \cup Volumes
          BY <4>0, <4>1, <4>3 DEF Before, Volumes
        <5>2. target \in W
          BY <4>0
        <5>3. QED BY <5>1, <5>2, VolumeFacts
      <4>5. \A f \in W : f[1] + f[2] <= target'[1]
        <5>1. \A f \in V : f[1] + f[2] <= target[1]
          BY <4>1 DEF Before
        <5>2. QED BY <4>0, <4>2, <4>3, <4>4, <5>1
      <4>6. target' \notin W
        BY <4>3, <4>4, <4>5
      <4>7. ASSUME NEW f \in W, NEW v \in VolumeNames(count), v[1] = f[1] + f[2]
            PROVE  v \in W \cup {target'}
        <5>1. CASE f \in V
          BY <4>0, <4>1, <4>7, <5>1 DEF Before
        <5>2. CASE f = target
          <6>1. v = VolumeName(count, v[1]) /\ target' = VolumeName(count, target'[1])
            BY <4>2, <4>3, NameFacts
          <6>2. QED BY <4>2, <4>7, <5>2, <6>1
        <5>3. QED BY <4>0, <5>1, <5>2
      <4>8. W \subseteq {Index} \cup VolumeNames(count) /\ Index \in W
        BY <4>0, <4>1 DEF Before
      <4>9. Before(W)'
        BY <2>1, <4>2, <4>5, <4>6, <4>7, <4>8 DEF Before
      <4>10. Written(W, recoverySet, infos)'
        BY <3>1, <4>0, <4>1 DEF Written
      <4>11. Describes(recoverySet, infos)' /\ Single(recoverySet)'
        BY <2>1, <2>2, <3>1, <3>2 DEF Describes, Single, GivenOnce
      <4>12. QED BY <4>9, <4>10, <4>11
    <3>3. QED BY <2>1, <2>4, <3>1, <3>2 DEF UpToDate
  <2>5. QED BY <1>6, <2>3, <2>4 DEF FinishWrite
<1>7. CASE ChangeFile
  <2>1. UNCHANGED <<pc, target>> /\ since' = [since EXCEPT !.changed = TRUE]
    BY <1>7 DEF ChangeFile
  <2>2. since' \in [changed : BOOLEAN, wrote : BOOLEAN] /\ since'.changed
    BY <2>1 DEF UpToDate
  <2>3. QED BY <2>1, <2>2 DEF UpToDate
<1>8. CASE UNCHANGED vars
  <2>1. UNCHANGED <<files, filePaths, count, par, since, pc, result, i, target, recoverySet, infos>>
    BY <1>8 DEF vars, diskVars, encoderVars
  <2>2. QED BY <2>1 DEF UpToDate, Describes, Single, GivenOnce, Before, Written
<1>9. QED
  BY <1>1, <1>2, <1>3, <1>4, <1>5, <1>6, <1>7, <1>8 DEF Next, Step

LEMMA AlwaysUpToDate == Spec => []UpToDate
<1>1. Init => UpToDate
  BY DEF Init, UpToDate
<1>2. QED BY <1>1, StepUpToDate, Invariance, PTL DEF Spec

LEMMA SkippedHasNoShards ==
  ASSUME NEW expected, NEW packets, ReadOutcome(expected, packets) = "noPackets"
  PROVE  DOMAIN Recovery(expected, packets) = {}
<1>1. Mine(expected, packets) = {}
  BY DEF ReadOutcome
<1>2. OfType(expected, packets, "recovery") = {}
  BY <1>1 DEF OfType
<1>3. QED BY <1>2 DEF Recovery

\* When Create succeeds, all files were read as they are, and the index and every volume
\* were written of them; what the decoder opens describes the files, and nothing but a
\* leftover of an earlier call can keep it from the shards, whatever their number.
THEOREM CreateProtects == Spec => []CreatedIsProtected
<1>1. ASSUME Inv, UpToDate, result = "created", ~since.changed, ~Leftover
      PROVE  Protected
  <2>1. PICK ids, contents :
          /\ Known(ids, contents) /\ Describes(ids, contents) /\ Single(ids)
          /\ Written({Index} \cup VolumeNames(count), ids, contents)
    BY <1>1 DEF UpToDate
  <2>2. count \in Counts /\ count \in Nat \ {0} /\ VolumeNames(count) \subseteq Volumes
    BY <1>1, CountsAssumption DEF Inv, Reading, Volumes
  <2>3. ASSUME NEW f \in {Index} \cup VolumeNames(count)
        PROVE  f[1] \in Nat /\ f[2] \in Nat /\ par[f] = Made(f, ids, contents)
    BY <2>1, <2>2, VolumeFacts DEF Written
  <2>4. par[Index] = Made(Index, ids, contents) /\ Index[1] \in Nat /\ Index[2] \in Nat
        /\ Index[2] = 0
    BY <2>3 DEF Index
  <2>5. Main(ids) \in {AnySet, Main(ids)} /\ AnySet \in {AnySet, Main(ids)}
    OBVIOUS
  <2>6. SetID = Main(ids)
    <3>1. 1 \in DOMAIN Made(Index, ids, contents)
      <4>1. DOMAIN Made(Index, ids, contents) = 1 .. Fixed(ids) + Index[2]
        BY <2>1, <2>4, Layout
      <4>2. Len(ids) \in Nat
        BY <2>1, KnownFacts
      <4>3. QED BY <2>4, <4>1, <4>2 DEF Fixed
    <3>2. QED BY <2>1, <2>4, <3>1, MadePackets DEF SetID
  <2>7. /\ ReadOutcome(AnySet, par[Index]) = "ok" /\ HasMain(AnySet, par[Index])
        /\ MainOf(AnySet, par[Index]) = Main(ids)
        /\ OfType(AnySet, par[Index], "recovery") = {}
        /\ \A k \in DOMAIN ids :
             /\ ids[k] \in IDsOf(AnySet, par[Index], "fileDesc") \cap IDsOf(AnySet, par[Index], "ifsc")
             /\ DescriptionOf(AnySet, par[Index], ids[k]).content = contents[ids[k]]
    BY <2>1, <2>4, <2>5, MadeRead
  <2>8. SetIDs = ids /\ \A k \in DOMAIN ids : Described(k) = contents[ids[k]]
    BY <2>7 DEF SetIDs, Described, Main
  <2>9. DecoderOpens
    <3>1. par[Index] # NoFile
      BY <2>1, <2>4, MadePackets
    <3>2. MainOf(AnySet, par[Index]).recoverySet = ids
      BY <2>8 DEF SetIDs
    <3>3. QED BY <2>7, <3>1, <3>2 DEF DecoderOpens
  <2>10. ASSUME NEW v \in VolumeNames(count)
         PROVE  /\ par[v] # NoFile /\ Loadable(v)
                /\ Recovery(SetID, par[v]) = [e \in Exponents(v) |-> Shard(e, ids, contents)]
    <3>1. v[1] \in Nat /\ v[2] \in Nat /\ par[v] = Made(v, ids, contents)
      BY <2>3
    <3>2. par[v] # NoFile
      BY <2>1, <3>1, MadePackets
    <3>3. /\ ReadOutcome(SetID, par[v]) = "ok" /\ HasMain(SetID, par[v])
          /\ Recovery(SetID, par[v]) = [e \in Exponents(v) |-> Shard(e, ids, contents)]
      BY <2>1, <2>5, <2>6, <3>1, MadeRead
    <3>4. QED BY <3>2, <3>3 DEF Loadable
  <2>11. ASSUME NEW v \in Volumes \ VolumeNames(count)
         PROVE  par[v] = NoFile \/ ReadOutcome(SetID, par[v]) = "noPackets"
    BY <1>1, <2>11 DEF Leftover
  <2>12. ParityLoads
    BY <2>10, <2>11 DEF ParityLoads, Loadable
  <2>13. ASSUME NEW e \in 0 .. count - 1
         PROVE  Holders(e) # {} /\ Right(e, Loaded(e))
    <3>1. PICK u \in VolumeNames(count) : e \in Exponents(u)
      BY <2>2, Covered DEF Exponents
    <3>2. u \in Holders(e)
      BY <2>2, <2>10, <3>1 DEF Holders
    <3>3. ASSUME NEW v \in Holders(e)
          PROVE  v \in VolumeNames(count) /\ e \in Exponents(v)
      <4>1. v \in Volumes /\ par[v] # NoFile /\ e \in DOMAIN Recovery(SetID, par[v])
        BY DEF Holders
      <4>2. v \in VolumeNames(count)
        BY <2>11, <4>1, SkippedHasNoShards
      <4>3. QED BY <2>10, <4>1, <4>2
    <3>4. ASSUME NEW v \in Holders(e)
          PROVE  v[1] \in Nat /\ v[2] \in Nat /\ v[1] <= e /\ v = VolumeName(count, v[1])
      BY <2>2, <2>3, <3>3, NameFacts DEF Exponents
    <3> DEFINE T == {v[1] : v \in Holders(e)}
    <3>5. PICK m \in T : \A k \in T : k <= m
      <4>1. T \in SUBSET Nat /\ T # {} /\ e \in Nat /\ \A k \in T : k <= e
        BY <3>2, <3>4
      <4> HIDE DEF T
      <4>2. QED BY <4>1, GreatestNatural
    <3>6. PICK v \in Holders(e) : v[1] = m
      BY <3>5
    <3>7. ASSUME NEW w \in Holders(e)
          PROVE  w[1] < v[1] \/ (w[1] = v[1] /\ w[2] <= v[2])
      <4>1. w[1] <= v[1]
        BY <3>5, <3>6
      <4>2. CASE w[1] = v[1]
        <5>1. w = v
          BY <3>4, <4>2
        <5>2. QED BY <3>4, <5>1
      <4>3. QED BY <3>4, <4>1, <4>2
    <3>8. Winner(e) \in Holders(e)
      BY <3>7 DEF Winner
    <3>9. Loaded(e) = Shard(e, ids, contents)
      <4>1. Winner(e) \in VolumeNames(count) /\ e \in Exponents(Winner(e))
        BY <3>3, <3>8
      <4>2. QED BY <2>10, <4>1 DEF Loaded
    <3>10. Shard(e, ids, contents) =
             [exponent |-> e, of |-> [k \in DOMAIN SetIDs |-> Described(k)]]
      BY <2>8 DEF Shard
    <3>11. QED BY <3>2, <3>9, <3>10 DEF Right
  <2>14. \A n \in DOMAIN filePaths :
           \E k \in DOMAIN SetIDs :
             LET c == files[filePaths[n]]
             IN  c # Missing /\ SetIDs[k] = FileID(filePaths[n], c) /\ Described(k) = c
    BY <2>1, <2>8 DEF Describes
  <2>15. ASSUME NEW k \in DOMAIN SetIDs, GivenOnce(SetIDs[k][1])
         PROVE  Found(k)
    <3>1. k \in Nat
      BY <2>1, <2>8, KnownFacts
    <3>2. \A m \in DOMAIN SetIDs : SetIDs[m] = SetIDs[k] => m = k
      BY <2>1, <2>8, <2>15 DEF Single
    <3>3. QED BY <3>1, <3>2 DEF Found
  <2>16. QED BY <2>9, <2>12, <2>13, <2>14, <2>15 DEF Protected
<1>2. Inv /\ UpToDate => CreatedIsProtected
  BY <1>1 DEF CreatedIsProtected
<1>3. QED BY <1>2, Invariance, AlwaysUpToDate, PTL
===============================================================================
