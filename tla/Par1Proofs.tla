------------------------------ MODULE Par1Proofs ------------------------------
(***************************************************************************)
(* Proofs about Par1Decoder, for all entries of the index volume, contents *)
(* of files, limits and numbers of changes by other programs; and about    *)
(* Par1Commands: commands, and other programs that use the decoder, do     *)
(* what a client of the decoder may do, and whatever they do and however   *)
(* they end, what could be restored still can be.                          *)
(***************************************************************************)
EXTENDS Par1Commands, FiniteSetTheorems, WellFoundedInduction, TLAPS

(* Numbers and sequences. *)

Below == {pair \in Nat \X Nat : pair[1] < pair[2]}

LEMMA LeastNatural ==
  ASSUME NEW T \in SUBSET Nat, T # {}
  PROVE  \E x \in T : \A y \in T : x <= y
<1>1. IsWellFoundedOn(Below, Nat)
  BY NatLessThanWellFounded DEF OpToRel, Below
<1>2. PICK x \in T : \A y \in T : <<y, x>> \notin Below
  BY <1>1, WFMin, Zenon
<1>3. ASSUME NEW y \in T PROVE x <= y
  <2>1. ~(y < x)
    BY <1>2, x \in Nat, y \in Nat DEF Below
  <2>2. QED BY <2>1, x \in Nat, y \in Nat, SMT
<1>4. QED BY <1>3

\* A set of numbers up to some bound has a greatest one.
LEMMA GreatestNatural ==
  ASSUME NEW S \in SUBSET Nat, S # {}, NEW b \in Nat, \A x \in S : x <= b
  PROVE  \E x \in S : \A y \in S : y <= x
<1> DEFINE T == {b - x : x \in S}
<1>1. T \in SUBSET Nat /\ T # {}
  <2>1. \A x \in S : b - x \in Nat
    OBVIOUS
  <2>2. QED BY <2>1
<1>2. PICK d \in T : \A e \in T : d <= e
  BY <1>1, LeastNatural
<1>3. PICK x \in S : d = b - x
  BY <1>2
<1>4. \A y \in S : y <= x
  BY <1>2, <1>3
<1>5. QED BY <1>4

\* The beginnings of a sequence of numbers have bounds, and so it has one.
LEMMA Bounded ==
  ASSUME NEW len \in Nat, NEW f, \A n \in 1 .. len : f[n] \in Nat
  PROVE  \E b \in Nat : \A n \in 1 .. len : f[n] <= b
<1> DEFINE Bound(k)  == \E b \in Nat : \A n \in 1 .. k : f[n] <= b
           Unbounded == {k \in 0 .. len : ~Bound(k)}
<1>1. SUFFICES ASSUME Unbounded # {} PROVE FALSE
  <2>1. len \in 0 .. len
    OBVIOUS
  <2>2. QED BY <2>1
<1>2. PICK k \in Unbounded : \A l \in Unbounded : k <= l
  BY <1>1, LeastNatural, Unbounded \in SUBSET Nat
<1>3. k # 0
  <2>1. \A n \in 1 .. 0 : f[n] <= 0
    OBVIOUS
  <2>2. QED BY <2>1, 0 \in Nat
<1>4. k \in 1 .. len /\ k - 1 \in 0 .. len /\ k - 1 \notin Unbounded
  <2> HIDE DEF Bound
  <2>1. k \in 0 .. len
    OBVIOUS
  <2>2. ASSUME k - 1 \in Unbounded PROVE FALSE
    <3>1. k <= k - 1
      BY <1>2, <2>2, Zenon
    <3>2. QED BY <2>1, <3>1
  <2>3. QED BY <1>3, <2>1, <2>2
<1>5. PICK b \in Nat : \A n \in 1 .. k - 1 : f[n] <= b
  BY <1>4
<1>6. PICK c \in Nat : b <= c /\ f[k] <= c
  <2>1. f[k] \in Nat
    BY <1>3
  <2>2. CASE b <= f[k]
    BY <2>1, <2>2
  <2>3. CASE f[k] <= b
    BY <2>3
  <2>4. QED BY <2>1, <2>2, <2>3
<1>7. \A n \in 1 .. k : f[n] <= c
  <2>1. ASSUME NEW n \in 1 .. k PROVE f[n] <= c
    <3>1. f[n] \in Nat
      OBVIOUS
    <3>2. CASE n = k
      BY <1>6, <3>2
    <3>3. CASE n # k
      BY <1>5, <1>6, <3>1, <3>3
    <3>4. QED BY <3>2, <3>3
  <2>2. QED BY <2>1
<1>8. QED BY <1>7

LEMMA AppendOne ==
  ASSUME NEW S, NEW s \in Seq(S), NEW x \in S
  PROVE  /\ s \o <<x>> \in Seq(S)
         /\ Len(s \o <<x>>) = Len(s) + 1
         /\ \A n \in 1 .. Len(s) : (s \o <<x>>)[n] = s[n]
         /\ (s \o <<x>>)[Len(s) + 1] = x
OBVIOUS

-------------------------------------------------------------------------------
(* The data the decoder works on. *)

Saved(k) == {n \in 1 .. k : entries[n].saved}

LEMMA Elements ==
  ASSUME NEW S, NEW s \in Seq(S)
  PROVE  Len(s) \in Nat /\ DOMAIN s = 1 .. Len(s) /\ \A n \in DOMAIN s : s[n] \in S
OBVIOUS

LEMMA EntryFacts ==
  ASSUME TypeOK
  PROVE  /\ Len(entries) \in Nat
         /\ DOMAIN entries = 1 .. Len(entries)
         /\ \A n \in DOMAIN entries : entries[n].path \in Paths /\ entries[n].saved \in BOOLEAN
<1>1. entries \in Seq([path : Paths, saved : BOOLEAN])
  BY EntryAssumption DEF TypeOK
<1>2. /\ Len(entries) \in Nat /\ DOMAIN entries = 1 .. Len(entries)
      /\ \A n \in DOMAIN entries : entries[n] \in [path : Paths, saved : BOOLEAN]
  BY <1>1, Elements, Zenon
<1>3. QED BY <1>2

LEMMA SavedCounts ==
  ASSUME NEW k \in Nat
  PROVE  /\ IsFiniteSet(Saved(k))
         /\ Cardinality(Saved(k)) \in Nat
         /\ Cardinality(Saved(k)) <= k
         /\ Cardinality(Saved(k + 1)) =
              IF entries[k + 1].saved THEN Cardinality(Saved(k)) + 1 ELSE Cardinality(Saved(k))
<1>1. IsFiniteSet(1 .. k) /\ Cardinality(1 .. k) = k
  BY FS_Interval
<1>2. /\ IsFiniteSet(Saved(k))
      /\ Cardinality(Saved(k)) <= k
  BY <1>1, FS_Subset DEF Saved
<1>3. Cardinality(Saved(k)) \in Nat
  BY <1>2, FS_CardinalityType
<1>4. CASE entries[k + 1].saved
  <2>1. Saved(k + 1) = Saved(k) \cup {k + 1} /\ k + 1 \notin Saved(k)
    BY <1>4 DEF Saved
  <2>2. QED BY <1>2, <1>3, <1>4, <2>1, FS_AddElement
<1>5. CASE ~entries[k + 1].saved
  <2>1. Saved(k + 1) = Saved(k)
    BY <1>5 DEF Saved
  <2>2. QED BY <1>2, <1>3, <1>5, <2>1
<1>6. QED BY <1>4, <1>5

\* The shards are as long as the longest saved file.
LEMMA LengthType ==
  ASSUME TypeOK
  PROVE  /\ ParityByteCount \in Nat
         /\ \A n \in SavedOnes : Len(Original[entries[n].path]) <= ParityByteCount
<1> DEFINE f       == [n \in 1 .. Len(entries) |-> Len(Original[entries[n].path])]
           lengths == {0} \cup {Len(Original[entries[n].path]) : n \in SavedOnes}
<1>1. \A n \in DOMAIN entries : Len(Original[entries[n].path]) \in Nat
  BY EntryFacts, OriginalAssumption
<1>2. PICK b \in Nat : \A n \in 1 .. Len(entries) : f[n] <= b
  BY <1>1, EntryFacts, Bounded
<1>3. lengths \in SUBSET Nat /\ \A x \in lengths : x <= b
  BY <1>1, <1>2, EntryFacts DEF SavedOnes
<1>4. \E l \in lengths : \A m \in lengths : m <= l
  BY <1>3, GreatestNatural, lengths # {}
<1>5. \A n \in SavedOnes : Len(Original[entries[n].path]) \in lengths
  OBVIOUS
<1> HIDE DEF lengths
<1>6. /\ (CHOOSE l \in lengths : \A m \in lengths : m <= l) \in lengths
      /\ \A m \in lengths : m <= (CHOOSE l \in lengths : \A k \in lengths : k <= l)
  BY <1>4
<1>7. QED BY <1>3, <1>5, <1>6 DEF ParityByteCount, lengths

LEMMA VolumeCountType ==
  ASSUME TypeOK
  PROVE  VolumeCount \in Nat
BY EntryFacts, LimitAssumption DEF VolumeCount

LEMMA ParityLengthType ==
  ASSUME TypeOK
  PROVE  ParityLength \in Nat
<1>1. CASE found = {}
  BY <1>1 DEF ParityLength
<1>2. CASE found # {}
  <2>1. found \in SUBSET Nat /\ \A v \in found : v <= VolumeCount
    BY VolumeCountType DEF TypeOK
  <2>2. \E v \in found : \A w \in found : w <= v
    BY <1>2, <2>1, VolumeCountType, GreatestNatural
  <2>3. (CHOOSE v \in found : \A w \in found : w <= v) \in found
    BY <2>2
  <2>4. QED BY <1>2, <2>1, <2>3 DEF ParityLength
<1>3. QED BY <1>1, <1>2

LEMMA FoundVolumes ==
  ASSUME NEW n \in Nat, NEW S
  PROVE  [v \in 1 .. n |-> v \in S] \in Seq(BOOLEAN)
<1>1. [v \in 1 .. n |-> v \in S] \in [1 .. n -> BOOLEAN]
  OBVIOUS
<1>2. ASSUME NEW f \in [1 .. n -> BOOLEAN] PROVE f \in Seq(BOOLEAN)
  OBVIOUS
<1>3. QED BY <1>1, <1>2, Zenon

LEMMA RepairErrorType ==
  RepairError \in {"noShardCount", "tooManyShards", "panic", "noShardData", "tooFewShards",
                   "singular", "none"}
BY DEF RepairError

-------------------------------------------------------------------------------
(* Type correctness.  What is about to be written are the original bytes, and *)
(* LoadFileData has an element for each saved entry it has passed.            *)

WriteInProgress == pc = "writing" => i \in UnusableData /\ HashesMatch(i)

Counted ==
  /\ pc = "files" => i <= Len(entries) + 1 /\ Len(loading) = Cardinality(Saved(i - 1))
  /\ pc \in {"none", "idle"} => i = 1 /\ loading = <<>>

TypeInv == TypeOK /\ WriteInProgress /\ Counted

\* Every shard has an entry of its own number, though it may be another's.
LEMMA ShardIndex ==
  ASSUME TypeOK, NEW n \in DOMAIN fileData
  PROVE  /\ n \in DOMAIN entries
         /\ n \in Nat \ {0}
         /\ fileData[n] \in Seq(Byte) \cup {Nil}
<1>1. Len(fileData) \in Nat /\ DOMAIN fileData = 1 .. Len(fileData)
  BY Elements DEF TypeOK
<1>2. fileData[n] \in Seq(Byte) \cup {Nil}
  BY Elements, Zenon DEF TypeOK
<1>3. fileData # <<>>
  BY <1>1
<1>4. Len(fileData) = Cardinality(Saved(Len(entries)))
  BY <1>3, EntryFacts DEF TypeOK, Saved, SavedOnes
<1>5. Len(fileData) <= Len(entries)
  BY <1>4, EntryFacts, SavedCounts
<1>6. QED BY <1>1, <1>2, <1>5, EntryFacts

LEMMA OriginalFacts ==
  ASSUME NEW p \in Paths
  PROVE  /\ Original[p] \in Seq(Byte) /\ Len(Original[p]) \in Nat
         /\ Original[p] \in FileContent
         /\ Original[p] # Nil
BY OriginalAssumption DEF FileContent

\* The file that Repair writes.
LEMMA WrittenFile ==
  ASSUME TypeOK, NEW n \in UnusableData, HashesMatch(n)
  PROVE  /\ n \in DOMAIN fileData /\ n \in DOMAIN entries /\ fileData[n] = Nil
         /\ EntryOf(n) = entries[n]
         /\ EntryOf(n).path \in Paths
         /\ Assembled(n) = Original[EntryOf(n).path]
<1>1. n \in DOMAIN fileData /\ fileData[n] = Nil
  BY DEF UnusableData
<1>2. QED BY <1>1, ShardIndex, EntryFacts DEF EntryOf, HashesMatch

LEMMA TearTyped ==
  ASSUME TypeOK, WriteInProgress, pc = "writing", Tear
  PROVE  disk' \in [Paths -> FileContent]
<1> DEFINE o == Original[EntryOf(i).path]
<1>1. Assembled(i) = o /\ EntryOf(i).path \in Paths
  BY WrittenFile DEF WriteInProgress
<1>2. PICK k \in 0 .. Len(o) - 1 : disk' = [disk EXCEPT ![EntryOf(i).path] = SubSeq(o, 1, k)]
  BY <1>1 DEF Tear
<1>3. SubSeq(o, 1, k) \in FileContent
  BY <1>1, <1>2, OriginalFacts DEF FileContent
<1>4. QED BY <1>2, <1>3 DEF TypeOK

LEMMA InitTyped == Init => TypeInv
<1> SUFFICES ASSUME Init PROVE TypeInv
  OBVIOUS
<1>1. disk \in [Paths -> FileContent]
  BY OriginalAssumption DEF Init, FileContent
<1>2. touched \in [now : SUBSET Paths, load : SUBSET Paths]
  BY DEF Init
<1>3. QED BY <1>1, <1>2, LimitAssumption
          DEF Init, TypeInv, TypeOK, WriteInProgress, Counted

\* Steps that leave the files and the decoder's data alone.
LEMMA ReturnTyped ==
  ASSUME TypeOK, NEW outcome, Return(outcome)
  PROVE  /\ pc' = "idle" /\ i' \in Nat \ {0} /\ loading' \in Seq(Seq(Byte) \cup {Nil})
         /\ found' = {} /\ result' = outcome
         /\ WriteInProgress' /\ Counted'
BY DEF Return, WriteInProgress, Counted

LEMMA DieTyped ==
  ASSUME TypeOK, NEW outcome, Die(outcome)
  PROVE  /\ pc' = "none" /\ i' \in Nat \ {0} /\ loading' \in Seq(Seq(Byte) \cup {Nil})
         /\ fileData' = <<>> /\ fileData' \in Seq(Seq(Byte) \cup {Nil})
         /\ parityData' \in Seq(BOOLEAN) /\ shardByteCount' \in Nat
         /\ found' = {} /\ repaired' = {} /\ result' = outcome
         /\ touched' \in [now : SUBSET Paths, load : SUBSET Paths]
         /\ WriteInProgress' /\ Counted'
BY DEF Die, WriteInProgress, Counted

\* What only depends on entries and on the data of the decoder.
LEMMA SteadyEntries ==
  ASSUME UNCHANGED entries
  PROVE  VolumeCount' = VolumeCount /\ \A k : Saved(k)' = Saved(k)
BY DEF VolumeCount, Saved

LEMMA SteadySaved ==
  ASSUME UNCHANGED entries
  PROVE  SavedOnes' = SavedOnes /\ \A n : SavedEntry(n)' = SavedEntry(n)
BY DEF SavedOnes, SavedEntry

LEMMA SteadyHashes ==
  ASSUME UNCHANGED <<entries, shardByteCount, i>>
  PROVE  /\ HashesMatch(i)' <=> HashesMatch(i)
         /\ Assembled(i)' = Assembled(i)
<1>1. SavedEntry(i)' = SavedEntry(i)
  BY DEF SavedEntry, SavedOnes
<1>2. Shard(i)' = Shard(i)
  BY <1>1 DEF Shard
<1>3. EntryOf(i)' = EntryOf(i)
  BY DEF EntryOf
<1>4. Assembled(i)' = Assembled(i)
  BY <1>2, <1>3 DEF Assembled
<1>5. QED BY <1>3, <1>4 DEF HashesMatch

LEMMA SteadyWrite ==
  ASSUME UNCHANGED <<entries, decoderVars, pc, i>>, WriteInProgress
  PROVE  WriteInProgress'
BY SteadyHashes DEF decoderVars, WriteInProgress, UnusableData

LEMMA StepTyped == TypeInv /\ [Next]_vars => TypeInv'
<1> SUFFICES ASSUME TypeInv, [Next]_vars PROVE TypeInv'
  OBVIOUS
<1>0. TypeOK /\ WriteInProgress /\ Counted
  BY DEF TypeInv
<1> USE DEF TypeOK, SavedOnes
<1>1. CASE NewDecoder
  <2>1. UNCHANGED <<entries, fileVars, decoderVars, localVars, i, repaired, touched>>
        /\ pc = "none" /\ pc' \in {"none", "idle"} /\ result' \in {"none", "indexError"}
    BY <1>1 DEF NewDecoder, fileVars
  <2>2. QED
    BY <1>0, <2>1, SteadyEntries DEF fileVars, decoderVars, localVars, TypeInv, WriteInProgress,
       Counted
<1>2. CASE LoadFileData
  <2>1. Saved(0) = {} /\ Cardinality(Saved(0)) = 0
    BY FS_EmptySet DEF Saved
  <2>2. /\ UNCHANGED <<entries, i, loading, fileVars, decoderVars, found>>
        /\ pc = "idle" /\ pc' = "files" /\ result' = "pending" /\ repaired' = {}
        /\ touched' = [touched EXCEPT !.load = {}]
    BY <1>2 DEF LoadFileData, fileVars, localVars
  <2>3. i = 1 /\ loading = <<>> /\ Len(entries) \in Nat
    BY <1>0, <2>2, EntryFacts DEF Counted
  <2>4. Counted'
    BY <2>1, <2>2, <2>3, SteadyEntries DEF Counted
  <2>5. QED
    BY <1>0, <2>2, <2>4, SteadyEntries DEF fileVars, decoderVars, TypeInv, WriteInProgress
<1>3. CASE LoadDataFile
  <2>1. /\ UNCHANGED <<entries, fileVars, decoderVars, repaired, touched>>
        /\ pc = "files" /\ i \in DOMAIN entries
    BY <1>3 DEF LoadDataFile, fileVars
  <2>2. CASE Return("fileError")
    BY <1>0, <2>1, <2>2, ReturnTyped, SteadyEntries DEF fileVars, decoderVars, TypeInv
  <2>3. CASE /\ loading' = loading \o FileDataOf(entries[i])
             /\ i' = i + 1
             /\ UNCHANGED <<pc, found, result>>
    <3> DEFINE x == IF Usable(disk[entries[i].path], entries[i].path)
                    THEN disk[entries[i].path] ELSE Nil
    <3>1. entries[i].path \in Paths /\ i \in 1 .. Len(entries) /\ Len(entries) \in Nat
      BY <1>0, <2>1, EntryFacts
    <3>2. x \in Seq(Byte) \cup {Nil}
      BY <3>1, OriginalFacts DEF Usable
    <3>3. i - 1 \in Nat /\ (i - 1) + 1 = i
      BY <3>1
    <3>4. Cardinality(Saved(i)) =
            IF entries[i].saved THEN Cardinality(Saved(i - 1)) + 1 ELSE Cardinality(Saved(i - 1))
      BY <3>3, SavedCounts
    <3> HIDE DEF x
    <3>5. loading' \in Seq(Seq(Byte) \cup {Nil}) /\ Len(loading') = Cardinality(Saved(i))
      <4>1. CASE entries[i].saved
        <5>1. loading' = loading \o <<x>>
          BY <2>3, <4>1 DEF FileDataOf, x
        <5>2. loading' \in Seq(Seq(Byte) \cup {Nil}) /\ Len(loading') = Len(loading) + 1
          BY <1>0, <3>2, <5>1, AppendOne
        <5>3. QED BY <1>0, <2>1, <3>4, <4>1, <5>2 DEF Counted
      <4>2. CASE ~entries[i].saved
        <5>1. loading' = loading \o <<>>
          BY <2>3, <4>2 DEF FileDataOf
        <5>2. loading' = loading
          BY <1>0, <5>1
        <5>3. QED BY <1>0, <2>1, <3>4, <4>2, <5>2 DEF Counted
      <4>3. QED BY <4>1, <4>2
    <3>6. i' <= Len(entries) + 1 /\ i' \in Nat \ {0} /\ i' - 1 = i
      BY <2>3, <3>1
    <3>7. Counted'
      BY <2>1, <2>3, <3>5, <3>6, SteadyEntries DEF Counted
    <3>8. QED
      BY <1>0, <2>1, <2>3, <3>5, <3>6, <3>7, SteadyEntries
      DEF fileVars, decoderVars, TypeInv, WriteInProgress
  <2>4. QED BY <1>3, <2>2, <2>3 DEF LoadDataFile
<1>4. CASE StoreFileData
  <2>1. /\ UNCHANGED <<entries, fileVars, parityData, shardByteCount, repaired>>
        /\ pc = "files" /\ i \notin DOMAIN entries
    BY <1>4 DEF StoreFileData, fileVars
  <2>2. CASE Return("noFileData") /\ UNCHANGED <<fileData, touched>>
    BY <1>0, <2>1, <2>2, ReturnTyped, SteadyEntries DEF fileVars, TypeInv
  <2>3. CASE /\ Return("filesLoaded")
             /\ fileData' = loading
             /\ touched' = [touched EXCEPT !.now = touched.load]
    <3>1. i = Len(entries) + 1 /\ i - 1 = Len(entries)
      BY <1>0, <2>1, EntryFacts DEF Counted
    <3>2. Len(fileData') = Cardinality({n \in DOMAIN entries : entries[n].saved})
      BY <1>0, <2>1, <2>3, <3>1, EntryFacts DEF Counted, Saved
    <3>3. Len(fileData') = Cardinality({n \in DOMAIN entries : entries[n].saved}')
      BY <2>1, <3>2
    <3>4. QED BY <1>0, <2>1, <2>3, <3>3, ReturnTyped, SteadyEntries DEF fileVars, TypeInv
  <2>4. QED BY <1>4, <2>2, <2>3 DEF StoreFileData
<1>5. CASE LoadParityData
  BY <1>0, <1>5, SteadyEntries DEF LoadParityData, fileVars, decoderVars, localVars, TypeInv,
     WriteInProgress, Counted
<1>6. CASE LoadVolume
  <2>1. /\ UNCHANGED <<entries, fileVars, decoderVars, repaired, touched>>
        /\ pc = "volumes" /\ i <= VolumeCount
    BY <1>6 DEF LoadVolume, fileVars
  <2>2. CASE Return("parityError")
    BY <1>0, <2>1, <2>2, ReturnTyped, SteadyEntries DEF fileVars, decoderVars, TypeInv
  <2>3. CASE /\ found' = IF volumes[i] = "whole" THEN found \cup {i} ELSE found
             /\ i' = i + 1
             /\ UNCHANGED <<pc, loading, result>>
    <3>1. i \in 1 .. VolumeCount
      BY <1>0, <2>1, VolumeCountType
    <3>2. found' \subseteq 1 .. VolumeCount
      BY <1>0, <2>3, <3>1
    <3>3. QED
      BY <1>0, <2>1, <2>3, <3>2, SteadyEntries
      DEF fileVars, decoderVars, TypeInv, WriteInProgress, Counted
  <2>4. QED BY <1>6, <2>2, <2>3 DEF LoadVolume
<1>7. CASE StoreParityData
  <2>1. UNCHANGED <<entries, fileVars>> /\ pc = "volumes"
    BY <1>7 DEF StoreParityData, fileVars
  <2>2. CASE Die("panic")
    BY <1>0, <2>1, <2>2, DieTyped, SteadyEntries DEF fileVars, TypeInv
  <2>3. CASE /\ parityData' = [v \in 1 .. ParityLength |-> v \in found]
             /\ shardByteCount' = IF found = {} THEN 0 ELSE ParityByteCount
             /\ Return("parityLoaded")
             /\ UNCHANGED <<fileData, repaired, touched>>
    <3>1. parityData' \in Seq(BOOLEAN)
      BY <1>0, <2>3, ParityLengthType, FoundVolumes
    <3>2. shardByteCount' \in Nat
      BY <1>0, <2>3, LengthType
    <3>3. QED BY <1>0, <2>1, <2>3, <3>1, <3>2, ReturnTyped, SteadyEntries DEF fileVars, TypeInv
  <2>4. QED BY <1>7, <2>2, <2>3 DEF StoreParityData
<1>8. CASE RepairFails
  <2>1. /\ UNCHANGED <<entries, fileVars, decoderVars, touched>>
        /\ repaired' = {} /\ Return(RepairError) /\ RepairError \notin {"none", "panic"}
    BY <1>8 DEF RepairFails, fileVars
  <2>2. QED
    BY <1>0, <2>1, ReturnTyped, SteadyEntries, RepairErrorType DEF fileVars, decoderVars, TypeInv
<1>9. CASE RepairPanics
  BY <1>0, <1>9, DieTyped, SteadyEntries DEF RepairPanics, fileVars, TypeInv
<1>10. CASE Repair
  BY <1>0, <1>10, SteadyEntries DEF Repair, fileVars, decoderVars, localVars, TypeInv,
     WriteInProgress, Counted
<1>11. CASE SkipFile
  BY <1>0, <1>11, SteadyEntries DEF SkipFile, fileVars, decoderVars, localVars, TypeInv,
     WriteInProgress, Counted
<1>12. CASE SlicePanics
  BY <1>0, <1>12, DieTyped, SteadyEntries DEF SlicePanics, fileVars, TypeInv
<1>13. CASE HashMismatch
  BY <1>0, <1>13, ReturnTyped, SteadyEntries DEF HashMismatch, fileVars, decoderVars, TypeInv
<1>14. CASE OpenFails
  BY <1>0, <1>14, ReturnTyped, SteadyEntries DEF OpenFails, fileVars, decoderVars, TypeInv
<1>15. CASE OpenFile
  <2>1. /\ UNCHANGED <<volumes, index, entries, damage, decoderVars, localVars, i, repaired,
                       result, touched>>
        /\ disk' = [disk EXCEPT ![EntryOf(i).path] = <<>>]
        /\ pc' = "writing" /\ i \in UnusableData /\ HashesMatch(i)
    BY <1>15 DEF OpenFile
  <2>2. disk' \in [Paths -> FileContent]
    <3>1. <<>> \in FileContent
      BY DEF FileContent
    <3>2. QED BY <1>0, <2>1, <3>1
  <2>3. WriteInProgress'
    BY <2>1, SteadyHashes DEF decoderVars, WriteInProgress, UnusableData
  <2>4. QED
    BY <1>0, <2>1, <2>2, <2>3, SteadyEntries DEF decoderVars, localVars, TypeInv, Counted
<1>16. CASE FinishWrite
  <2>1. /\ UNCHANGED <<volumes, index, entries, damage, parityData, shardByteCount, localVars,
                       result>>
        /\ disk' = [disk EXCEPT ![EntryOf(i).path] = Assembled(i)]
        /\ repaired' = repaired \cup {EntryOf(i).path}
        /\ touched' = [touched EXCEPT !.now = touched.now \ {EntryOf(i).path}]
        /\ fileData' = [fileData EXCEPT ![i] = Assembled(i)]
        /\ pc = "writing" /\ pc' = "repair" /\ i' = i + 1
    BY <1>16 DEF FinishWrite
  <2>2. /\ i \in DOMAIN fileData /\ EntryOf(i).path \in Paths
        /\ Assembled(i) \in Seq(Byte) /\ Assembled(i) \in FileContent
    BY <1>0, <2>1, WrittenFile, OriginalFacts DEF WriteInProgress
  <2>3. fileData' \in Seq(Seq(Byte) \cup {Nil}) /\ Len(fileData') = Len(fileData) /\ fileData # <<>>
    BY <1>0, <2>1, <2>2
  <2>4. Len(fileData') = Cardinality({n \in DOMAIN entries : entries[n].saved}')
    BY <1>0, <2>1, <2>3
  <2>5. /\ disk' \in [Paths -> FileContent] /\ repaired' \subseteq Paths
        /\ touched' \in [now : SUBSET Paths, load : SUBSET Paths]
    BY <1>0, <2>1, <2>2
  <2>6. i' \in Nat \ {0}
    BY <1>0, <2>1
  <2>7. TypeOK'
    BY <1>0, <2>1, <2>3, <2>4, <2>5, <2>6, SteadyEntries DEF localVars
  <2>8. QED
    BY <2>1, <2>7 DEF TypeInv, WriteInProgress, Counted
<1>17. CASE WriteFails
  <2>1. /\ UNCHANGED <<volumes, index, entries, damage, decoderVars, repaired, touched>>
        /\ pc = "writing" /\ Return("writeError") /\ Tear
    BY <1>17 DEF WriteFails
  <2>2. disk' \in [Paths -> FileContent]
    BY <1>0, <2>1, TearTyped
  <2>3. QED BY <1>0, <2>1, <2>2, ReturnTyped, SteadyEntries DEF decoderVars, TypeInv
<1>18. CASE EndRepair
  BY <1>0, <1>18, ReturnTyped, SteadyEntries DEF EndRepair, fileVars, decoderVars, TypeInv
<1>19. CASE VerifyAllData
  <2>1. UNCHANGED <<entries, fileVars>> /\ repaired' = {}
    BY <1>19 DEF VerifyAllData, fileVars
  <2>2. CASE Die("panic")
    BY <1>0, <2>1, <2>2, DieTyped, SteadyEntries DEF fileVars, TypeInv
  <2>3. ASSUME NEW outcome \in {"noShardCount", "tooManyShards", "verifyError", "allDataOk"},
               Return(outcome), UNCHANGED <<decoderVars, touched>>
        PROVE  TypeInv'
    BY <1>0, <2>1, <2>3, ReturnTyped, SteadyEntries DEF fileVars, decoderVars, TypeInv
  <2>4. QED BY <1>19, <2>2, <2>3 DEF VerifyAllData
<1>20. CASE Crash
  <2>1. UNCHANGED <<volumes, index, entries, damage>> /\ Die("none")
    BY <1>20 DEF Crash
  <2>2. disk' \in [Paths -> FileContent]
    BY <1>0, <1>20, TearTyped DEF Crash
  <2>3. QED BY <1>0, <2>1, <2>2, DieTyped, SteadyEntries DEF TypeInv
<1>21. CASE DamageFile
  <2>1. PICK p \in Paths, c \in Contents :
          /\ disk' = [disk EXCEPT ![p] = c]
          /\ touched' = [now |-> touched.now \cup {p}, load |-> touched.load \cup {p}]
    BY <1>21 DEF DamageFile
  <2>2. /\ UNCHANGED <<volumes, index, entries, decoderVars, localVars, pc, i, repaired, result>>
        /\ damage' \in 0 .. MaxDamage
    BY <1>0, <1>21, LimitAssumption DEF DamageFile
  <2>3. disk' \in [Paths -> FileContent]
    BY <1>0, <2>1, OriginalAssumption DEF FileContent
  <2>4. touched' \in [now : SUBSET Paths, load : SUBSET Paths]
    BY <1>0, <2>1
  <2>5. QED
    BY <1>0, <2>2, <2>3, <2>4, SteadyEntries, SteadyWrite
    DEF decoderVars, localVars, TypeInv, Counted
<1>22. CASE DamageVolume
  <2>1. PICK v \in Created, state \in {"absent", "bad"} : volumes' = [volumes EXCEPT ![v] = state]
    BY <1>22 DEF DamageVolume
  <2>2. /\ UNCHANGED <<disk, index, entries, decoderVars, localVars, pc, i, repaired, result,
                       touched>>
        /\ damage' \in 0 .. MaxDamage
    BY <1>0, <1>22, LimitAssumption DEF DamageVolume
  <2>3. volumes' \in [1 .. VolumeLimit -> {"whole", "absent", "bad"}]
    BY <1>0, <2>1
  <2>4. QED
    BY <1>0, <2>2, <2>3, SteadyEntries, SteadyWrite
    DEF decoderVars, localVars, TypeInv, Counted
<1>23. CASE DamageIndex
  <2>1. /\ UNCHANGED <<disk, volumes, entries, decoderVars, localVars, pc, i, repaired, result,
                       touched>>
        /\ damage' \in 0 .. MaxDamage /\ index' = "bad"
    BY <1>0, <1>23, LimitAssumption DEF DamageIndex
  <2>2. QED
    BY <1>0, <2>1, SteadyEntries, SteadyWrite DEF decoderVars, localVars, TypeInv, Counted
<1>24. CASE UNCHANGED vars
  BY <1>0, <1>24, SteadyEntries, SteadyWrite
  DEF vars, fileVars, decoderVars, localVars, TypeInv, Counted
<1>25. CASE CloseFails
  <2>1. /\ UNCHANGED <<volumes, index, entries, damage, decoderVars, repaired>>
        /\ disk' = [disk EXCEPT ![EntryOf(i).path] = Assembled(i)]
        /\ touched' = [touched EXCEPT !.now = touched.now \cup {EntryOf(i).path}]
        /\ pc = "writing" /\ Return("writeError")
    BY <1>25 DEF CloseFails
  <2>2. EntryOf(i).path \in Paths /\ Assembled(i) \in FileContent
    BY <1>0, <2>1, WrittenFile, OriginalFacts DEF WriteInProgress
  <2>3. /\ disk' \in [Paths -> FileContent]
        /\ touched' \in [now : SUBSET Paths, load : SUBSET Paths]
    BY <1>0, <2>1, <2>2
  <2>4. QED BY <1>0, <2>1, <2>3, ReturnTyped, SteadyEntries DEF decoderVars, TypeInv
<1>26. QED
  BY <1>1, <1>2, <1>3, <1>4, <1>5, <1>6, <1>7, <1>8, <1>9, <1>10, <1>11, <1>12, <1>13,
     <1>14, <1>15, <1>16, <1>17, <1>18, <1>19, <1>20, <1>21, <1>22, <1>23, <1>24, <1>25
  DEF Next, Call, LoadStep, RepairStep, Fault, Damage

LEMMA Typed == Spec => []TypeInv
BY InitTyped, StepTyped, PTL DEF Spec

\* Every call, fault and change by another program keeps every variable to its
\* type, and the data of the files to one element for each saved entry.
THEOREM TypeCorrect == Spec => []TypeOK
<1>1. TypeInv => TypeOK
  BY DEF TypeInv
<1>2. QED BY <1>1, Typed, PTL
-------------------------------------------------------------------------------
(* The files are only written with their original bytes. *)

LEMMA TearOriginal ==
  ASSUME TypeInv, pc = "writing", Tear, NEW p \in Paths, disk'[p] # disk[p]
  PROVE  \E k \in 0 .. Len(Original[p]) : disk'[p] = SubSeq(Original[p], 1, k)
<1>1. TypeOK /\ i \in UnusableData /\ HashesMatch(i)
  BY DEF TypeInv, WriteInProgress
<1>2. Assembled(i) = Original[EntryOf(i).path] /\ EntryOf(i).path \in Paths
  BY <1>1, WrittenFile
<1>3. PICK k \in 0 .. Len(Assembled(i)) - 1 :
        disk' = [disk EXCEPT ![EntryOf(i).path] = SubSeq(Assembled(i), 1, k)]
  BY DEF Tear
<1>4. p = EntryOf(i).path /\ disk'[p] = SubSeq(Original[p], 1, k)
  BY <1>1, <1>2, <1>3 DEF TypeOK
<1>5. k \in 0 .. Len(Original[p])
  BY <1>2, <1>3, <1>4, OriginalFacts
<1>6. QED BY <1>4, <1>5

\* The decoder turns a file into its original bytes or the first of them, and
\* into nothing else, whatever entries the index volume has.
THEOREM OnlyOriginalsWritten == Spec => WritesOnlyOriginals
<1>1. ASSUME TypeInv, [Next]_vars, NEW p \in Paths, damage' = damage, disk'[p] # disk[p]
      PROVE  \E k \in 0 .. Len(Original[p]) : disk'[p] = SubSeq(Original[p], 1, k)
  <2> DEFINE Goal == \E k \in 0 .. Len(Original[p]) : disk'[p] = SubSeq(Original[p], 1, k)
  <2>0. TypeOK /\ Len(Original[p]) \in Nat /\ Original[p] \in Seq(Byte)
    BY <1>1, OriginalFacts DEF TypeInv
  <2>1. ASSUME NEW k \in 0 .. Len(Original[p]), disk'[p] = SubSeq(Original[p], 1, k)
        PROVE  Goal
    BY <2>1
  <2> HIDE DEF Goal
  <2>2. CASE OpenFile
    <3>1. disk' = [disk EXCEPT ![EntryOf(i).path] = <<>>]
      BY <2>2 DEF OpenFile
    <3>2. disk'[p] = <<>>
      BY <1>1, <2>0, <3>1 DEF TypeOK
    <3>3. SubSeq(Original[p], 1, 0) = <<>>
      BY <2>0
    <3>4. QED BY <2>0, <2>1, <3>2, <3>3
  <2>3. CASE FinishWrite \/ CloseFails
    <3>1. disk' = [disk EXCEPT ![EntryOf(i).path] = Assembled(i)] /\ pc = "writing"
      BY <2>3 DEF FinishWrite, CloseFails
    <3>2. Assembled(i) = Original[EntryOf(i).path]
      BY <1>1, <2>0, <3>1, WrittenFile DEF TypeInv, WriteInProgress
    <3>3. disk'[p] = Original[p]
      BY <1>1, <2>0, <3>1, <3>2 DEF TypeOK
    <3>4. SubSeq(Original[p], 1, Len(Original[p])) = Original[p]
      BY <2>0
    <3>5. QED BY <2>0, <2>1, <3>3, <3>4
  <2>4. CASE WriteFails
    BY <1>1, <2>4, TearOriginal DEF WriteFails, Goal
  <2>5. CASE Crash
    BY <1>1, <2>5, TearOriginal DEF Crash, Goal
  <2>6. CASE Damage
    BY <1>1, <2>0, <2>6
    DEF Damage, DamageFile, DamageVolume, DamageIndex, TypeOK
  <2>7. CASE Call
    BY <1>1, <2>7
    DEF Call, NewDecoder, LoadFileData, LoadParityData, Repair, RepairFails, RepairPanics,
        VerifyAllData, fileVars
  <2>8. CASE LoadStep
    BY <1>1, <2>8
    DEF LoadStep, LoadDataFile, StoreFileData, LoadVolume, StoreParityData, fileVars
  <2>9. CASE SkipFile \/ SlicePanics \/ HashMismatch \/ OpenFails \/ EndRepair
    BY <1>1, <2>9
    DEF SkipFile, SlicePanics, HashMismatch, OpenFails, EndRepair, fileVars
  <2>10. CASE UNCHANGED vars
    BY <1>1, <2>10 DEF vars, fileVars
  <2>11. QED
    BY <1>1, <2>2, <2>3, <2>4, <2>5, <2>6, <2>7, <2>8, <2>9, <2>10
    DEF Next, RepairStep, Fault, Goal
<1>2. TypeInv /\ [Next]_vars =>
        [\A p \in Paths :
           damage' = damage /\ disk'[p] # disk[p] =>
             \E k \in 0 .. Len(Original[p]) : disk'[p] = SubSeq(Original[p], 1, k)]_vars
  BY <1>1
<1>3. QED BY <1>2, Typed, PTL DEF Spec, WritesOnlyOriginals
-------------------------------------------------------------------------------
(* What the decoder knows of the files.                                     *)

Regular == Aligned /\ DistinctPaths

\* Data that was kept is the original; what was kept and what was not tells what is
\* on the disk, unless others changed it or the file is being written.
KnownFile(n) ==
  LET p == entries[n].path
  IN  /\ fileData[n] # Nil => fileData[n] = Original[p]
      /\ \/ pc = "writing" /\ n = i
         \/ p \in touched.now
         \/ fileData[n] # Nil <=> disk[p] = Original[p]

\* The same of the data that LoadFileData has read so far.
ReadFile(n) ==
  LET p == entries[n].path
  IN  /\ loading[n] # Nil => loading[n] = Original[p]
      /\ \/ p \in touched.load
         \/ loading[n] # Nil <=> disk[p] = Original[p]

Known     == \A n \in DOMAIN fileData : KnownFile(n)
Read      == pc = "files" => \A n \in DOMAIN loading : ReadFile(n)
Repairing == pc \in {"repair", "writing"} =>
               fileData # <<>> /\ \A n \in DOMAIN fileData : n < i => fileData[n] # Nil
Finished  == result = "repaired" =>
               pc = "idle" /\ fileData # <<>> /\ \A n \in DOMAIN fileData : fileData[n] # Nil

IndInv == Known /\ Read /\ Repairing /\ Finished

LEMMA RegularStep ==
  ASSUME UNCHANGED entries
  PROVE  Regular' <=> Regular
BY DEF Regular, Aligned, DistinctPaths

\* A saved entry comes after saved ones only.
LEMMA AlignedCount ==
  ASSUME TypeOK, Aligned, NEW n \in DOMAIN entries, entries[n].saved
  PROVE  n \in Nat /\ Cardinality(Saved(n)) = n
<1>1. n \in Nat /\ \A m \in 1 .. n : m \in DOMAIN entries /\ entries[m].saved
  BY EntryFacts DEF Aligned
<1>2. Saved(n) = 1 .. n
  BY <1>1 DEF Saved
<1>3. QED BY <1>1, <1>2, FS_Interval

LEMMA SavedInData ==
  ASSUME TypeOK, Aligned, fileData # <<>>, NEW n \in DOMAIN entries, entries[n].saved
  PROVE  n \in DOMAIN fileData
<1>1. n \in 1 .. Len(entries) /\ Len(entries) \in Nat
  BY EntryFacts
<1>2. Saved(n) \subseteq Saved(Len(entries))
  BY <1>1 DEF Saved
<1>3. Cardinality(Saved(n)) <= Cardinality(Saved(Len(entries)))
  BY <1>1, <1>2, SavedCounts, FS_Subset
<1>4. Len(fileData) = Cardinality(Saved(Len(entries)))
  BY EntryFacts DEF TypeOK, Saved, SavedOnes
<1>5. Len(fileData) \in Nat /\ DOMAIN fileData = 1 .. Len(fileData)
  BY Elements DEF TypeOK
<1>6. QED BY <1>1, <1>3, <1>4, <1>5, AlignedCount

LEMMA OwnFile ==
  ASSUME TypeOK, Regular, NEW n \in DOMAIN fileData, NEW m \in DOMAIN fileData, n # m
  PROVE  entries[n].path # entries[m].path
BY ShardIndex DEF Regular, DistinctPaths

LEMMA InitKnown == Init => IndInv
BY DEF Init, IndInv, Known, Read, Repairing, Finished

\* Steps that neither touch a file nor what is known of it.
LEMMA SteadyKnown ==
  ASSUME UNCHANGED <<entries, disk, fileData, touched>>, pc # "writing", Known
  PROVE  Known'
BY DEF Known, KnownFile

LEMMA DieKnown ==
  ASSUME NEW outcome, outcome # "repaired", Die(outcome)
  PROVE  IndInv'
BY DEF Die, IndInv, Known, Read, Repairing, Finished

LEMMA ReturnKnown ==
  ASSUME NEW outcome, outcome # "repaired", Return(outcome), pc # "writing",
         UNCHANGED <<entries, disk, fileData, touched>>, Known
  PROVE  IndInv'
BY SteadyKnown DEF Return, IndInv, Read, Repairing, Finished

LEMMA StepKnown == TypeInv /\ Regular /\ IndInv /\ [Next]_vars => IndInv'
<1> SUFFICES ASSUME TypeInv, Regular, IndInv, [Next]_vars PROVE IndInv'
  OBVIOUS
<1>0. /\ TypeOK /\ WriteInProgress /\ Counted
      /\ Known /\ Read /\ Repairing /\ Finished
  BY DEF TypeInv, IndInv
<1>1. CASE NewDecoder
  <2>1. /\ UNCHANGED <<entries, disk, fileData, touched>> /\ pc = "none"
        /\ pc' \in {"none", "idle"} /\ result' # "repaired"
    BY <1>1 DEF NewDecoder, fileVars, decoderVars
  <2>2. QED BY <1>0, <2>1, SteadyKnown DEF IndInv, Read, Repairing, Finished
<1>2. CASE LoadFileData
  <2>1. /\ UNCHANGED <<entries, disk, fileData, loading>> /\ pc = "idle"
        /\ pc' = "files" /\ result' # "repaired" /\ touched'.now = touched.now
    BY <1>0, <1>2 DEF LoadFileData, fileVars, decoderVars, localVars, TypeOK
  <2>2. DOMAIN loading = {}
    BY <1>0, <2>1 DEF Counted
  <2>3. Known'
    BY <1>0, <2>1 DEF Known, KnownFile
  <2>4. QED BY <2>1, <2>2, <2>3 DEF IndInv, Read, Repairing, Finished
<1>3. CASE LoadDataFile
  <2>1. /\ UNCHANGED <<entries, disk, fileData, touched>> /\ pc = "files" /\ i \in DOMAIN entries
    BY <1>3 DEF LoadDataFile, fileVars, decoderVars
  <2>2. CASE Return("fileError")
    BY <1>0, <2>1, <2>2, ReturnKnown
  <2>3. CASE /\ loading' = loading \o FileDataOf(entries[i])
             /\ i' = i + 1
             /\ UNCHANGED <<pc, found, result>>
    <3>1. Known' /\ Repairing' /\ Finished'
      BY <1>0, <2>1, <2>3, SteadyKnown DEF Repairing, Finished
    <3>2. Read'
      <4>1. CASE ~entries[i].saved
        <5>1. loading' = loading
          BY <1>0, <2>3, <4>1 DEF FileDataOf, TypeOK
        <5>2. QED BY <1>0, <2>1, <5>1 DEF Read, ReadFile
      <4>2. CASE entries[i].saved
        <5> DEFINE p == entries[i].path
                   x == IF Usable(disk[p], p) THEN disk[p] ELSE Nil
        <5>1. p \in Paths /\ i \in Nat \ {0} /\ i - 1 \in Nat /\ (i - 1) + 1 = i
          BY <1>0, <2>1, EntryFacts
        <5>2. Cardinality(Saved(i)) = i
          BY <1>0, <2>1, <4>2, AlignedCount DEF Regular
        <5>3. Cardinality(Saved(i)) = Cardinality(Saved(i - 1)) + 1 /\ Cardinality(Saved(i - 1)) \in Nat
          BY <4>2, <5>1, SavedCounts
        <5>4. Len(loading) + 1 = i
          BY <1>0, <2>1, <5>2, <5>3 DEF Counted
        <5>5. x \in Seq(Byte) \cup {Nil} /\ (x # Nil <=> disk[p] = Original[p])
              /\ (x # Nil => x = Original[p])
          BY <5>1, OriginalFacts DEF Usable
        <5>6. loading' = loading \o <<x>>
          BY <2>3, <4>2 DEF FileDataOf
        <5> HIDE DEF x
        <5>7. /\ loading' \in Seq(Seq(Byte) \cup {Nil}) /\ Len(loading') = i
              /\ \A n \in 1 .. Len(loading) : loading'[n] = loading[n]
              /\ loading'[i] = x
          <6>1. loading \in Seq(Seq(Byte) \cup {Nil}) /\ x \in Seq(Byte) \cup {Nil}
            BY <1>0, <5>5 DEF TypeOK
          <6> DEFINE S == Seq(Byte) \cup {Nil}
          <6> HIDE DEF S
          <6>2. /\ loading \o <<x>> \in Seq(S) /\ Len(loading \o <<x>>) = Len(loading) + 1
                /\ \A n \in 1 .. Len(loading) : (loading \o <<x>>)[n] = loading[n]
                /\ (loading \o <<x>>)[Len(loading) + 1] = x
            BY <6>1, AppendOne DEF S
          <6>3. QED BY <5>4, <5>6, <6>2 DEF S
        <5>8. ASSUME NEW n \in DOMAIN loading' PROVE ReadFile(n)'
          <6>1. n \in 1 .. i
            BY <5>7
          <6>2. CASE n = i
            BY <2>1, <5>5, <5>7, <6>2 DEF ReadFile
          <6>3. CASE n # i
            <7>1. n \in DOMAIN loading /\ loading'[n] = loading[n]
              <8>1. loading \in Seq(Seq(Byte) \cup {Nil})
                BY <1>0 DEF TypeOK
              <8>2. DOMAIN loading = 1 .. Len(loading) /\ Len(loading) \in Nat
                BY <8>1
              <8>3. n \in 1 .. Len(loading)
                BY <5>1, <5>4, <6>1, <6>3, <8>2
              <8>4. QED BY <5>7, <8>2, <8>3
            <7>2. QED BY <1>0, <2>1, <7>1 DEF Read, ReadFile
          <6>4. QED BY <6>2, <6>3
        <5>9. QED BY <5>8 DEF Read
      <4>3. QED BY <4>1, <4>2
    <3>3. QED BY <3>1, <3>2 DEF IndInv
  <2>4. QED BY <1>3, <2>2, <2>3 DEF LoadDataFile
<1>4. CASE StoreFileData
  <2>1. UNCHANGED <<entries, disk>> /\ pc = "files"
    BY <1>4 DEF StoreFileData, fileVars
  <2>2. CASE Return("noFileData") /\ UNCHANGED <<fileData, touched>>
    BY <1>0, <2>1, <2>2, ReturnKnown
  <2>3. CASE /\ Return("filesLoaded")
             /\ fileData' = loading
             /\ touched' = [touched EXCEPT !.now = touched.load]
    <3>1. touched'.now = touched.load /\ pc' = "idle" /\ result' # "repaired"
      BY <1>0, <2>3 DEF Return, TypeOK
    <3>2. Known'
      BY <1>0, <2>1, <2>3, <3>1 DEF Known, Read, KnownFile, ReadFile
    <3>3. QED BY <3>1, <3>2 DEF IndInv, Read, Repairing, Finished
  <2>4. QED BY <1>4, <2>2, <2>3 DEF StoreFileData
<1>5. CASE LoadParityData
  <2>1. /\ UNCHANGED <<entries, disk, fileData, touched>> /\ pc = "idle"
        /\ pc' = "volumes" /\ result' # "repaired"
    BY <1>5 DEF LoadParityData, fileVars, decoderVars
  <2>2. QED BY <1>0, <2>1, SteadyKnown DEF IndInv, Read, Repairing, Finished
<1>6. CASE LoadVolume
  <2>1. UNCHANGED <<entries, disk, fileData, touched>> /\ pc = "volumes"
    BY <1>6 DEF LoadVolume, fileVars, decoderVars
  <2>2. CASE Return("parityError")
    BY <1>0, <2>1, <2>2, ReturnKnown
  <2>3. CASE UNCHANGED <<pc, loading, result>>
    BY <1>0, <2>1, <2>3, SteadyKnown DEF IndInv, Read, Repairing, Finished
  <2>4. QED BY <1>6, <2>2, <2>3 DEF LoadVolume
<1>7. CASE StoreParityData
  <2>1. UNCHANGED <<entries, disk>> /\ pc = "volumes"
    BY <1>7 DEF StoreParityData, fileVars
  <2>2. CASE Die("panic")
    BY <2>2, DieKnown
  <2>3. CASE Return("parityLoaded") /\ UNCHANGED <<fileData, repaired, touched>>
    BY <1>0, <2>1, <2>3, ReturnKnown
  <2>4. QED BY <1>7, <2>2, <2>3 DEF StoreParityData
<1>8. CASE RepairFails
  <2>1. /\ UNCHANGED <<entries, disk, fileData, touched>> /\ pc = "idle" /\ Return(RepairError)
    BY <1>8 DEF RepairFails, fileVars, decoderVars
  <2>2. QED BY <1>0, <2>1, ReturnKnown, RepairErrorType
<1>9. CASE RepairPanics
  BY <1>9, DieKnown DEF RepairPanics
<1>10. CASE Repair
  <2>1. /\ UNCHANGED <<entries, disk, fileData, touched, i>> /\ pc = "idle"
        /\ pc' = "repair" /\ result' # "repaired" /\ fileData # <<>>
    BY <1>10 DEF Repair, fileVars, decoderVars, RepairError
  <2>2. Repairing'
    <3>1. i = 1 /\ DOMAIN fileData = 1 .. Len(fileData)
      BY <1>0, <2>1, Elements DEF Counted, TypeOK
    <3>2. QED BY <2>1, <3>1 DEF Repairing
  <2>3. QED BY <1>0, <2>1, <2>2, SteadyKnown DEF IndInv, Read, Finished
<1>11. CASE SkipFile
  <2>1. /\ UNCHANGED <<entries, disk, fileData, touched, pc, result>> /\ pc = "repair"
        /\ i' = i + 1 /\ fileData[i] # Nil
    BY <1>11 DEF SkipFile, fileVars, decoderVars, UsableData
  <2>2. Repairing'
    <3>1. ASSUME NEW n \in DOMAIN fileData, n < i + 1 PROVE fileData[n] # Nil
      <4>1. n \in Nat /\ i \in Nat
        BY <1>0, ShardIndex DEF TypeOK
      <4>2. n < i \/ n = i
        BY <3>1, <4>1
      <4>3. QED BY <1>0, <2>1, <4>2 DEF Repairing
    <3>2. QED BY <1>0, <2>1, <3>1 DEF Repairing
  <2>3. QED BY <1>0, <2>1, <2>2, SteadyKnown DEF IndInv, Read, Finished
<1>12. CASE SlicePanics
  BY <1>12, DieKnown DEF SlicePanics
<1>13. CASE HashMismatch
  BY <1>0, <1>13, ReturnKnown DEF HashMismatch, fileVars, decoderVars
<1>14. CASE OpenFails
  BY <1>0, <1>14, ReturnKnown DEF OpenFails, fileVars, decoderVars
<1>15. CASE OpenFile
  <2>1. /\ UNCHANGED <<entries, fileData, touched, i, result>>
        /\ disk' = [disk EXCEPT ![entries[i].path] = <<>>]
        /\ pc = "repair" /\ pc' = "writing" /\ i \in DOMAIN fileData
    BY <1>15 DEF OpenFile, decoderVars, EntryOf, UnusableData
  <2>2. ASSUME NEW n \in DOMAIN fileData PROVE KnownFile(n)'
    <3>1. CASE n = i
      BY <1>0, <2>1, <3>1 DEF Known, KnownFile
    <3>2. CASE n # i
      <4>1. disk'[entries[n].path] = disk[entries[n].path]
        BY <1>0, <2>1, <3>2, OwnFile, ShardIndex, EntryFacts DEF TypeOK
      <4>2. QED BY <1>0, <2>1, <4>1 DEF Known, KnownFile
    <3>3. QED BY <3>1, <3>2
  <2>3. QED BY <1>0, <2>1, <2>2 DEF IndInv, Known, Read, Repairing, Finished
<1>16. CASE FinishWrite
  <2>1. /\ UNCHANGED <<entries, result>>
        /\ disk' = [disk EXCEPT ![EntryOf(i).path] = Assembled(i)]
        /\ touched' = [touched EXCEPT !.now = touched.now \ {EntryOf(i).path}]
        /\ fileData' = [fileData EXCEPT ![i] = Assembled(i)]
        /\ pc = "writing" /\ pc' = "repair" /\ i' = i + 1
    BY <1>16 DEF FinishWrite
  <2>2. /\ i \in DOMAIN fileData /\ EntryOf(i) = entries[i] /\ entries[i].path \in Paths
        /\ Assembled(i) = Original[entries[i].path] /\ Assembled(i) # Nil
    BY <1>0, <2>1, WrittenFile, OriginalFacts DEF WriteInProgress
  <2>3. /\ DOMAIN fileData' = DOMAIN fileData /\ fileData' # <<>>
        /\ fileData'[i] = Original[entries[i].path] /\ fileData'[i] # Nil
        /\ \A n \in DOMAIN fileData : n # i => fileData'[n] = fileData[n]
    BY <1>0, <2>1, <2>2 DEF TypeOK
  <2>4. touched'.now = touched.now \ {entries[i].path}
    BY <1>0, <2>1, <2>2 DEF TypeOK
  <2>5. disk'[entries[i].path] = Original[entries[i].path]
    BY <1>0, <2>1, <2>2 DEF TypeOK
  <2>6. ASSUME NEW n \in DOMAIN fileData PROVE KnownFile(n)'
    <3>1. CASE n = i
      BY <2>1, <2>3, <2>5, <3>1 DEF KnownFile
    <3>2. CASE n # i
      <4>1. entries[n].path \in Paths /\ entries[n].path # entries[i].path
        BY <1>0, <2>2, <3>2, OwnFile, ShardIndex, EntryFacts
      <4>2. disk'[entries[n].path] = disk[entries[n].path]
        BY <1>0, <2>1, <2>2, <4>1 DEF TypeOK
      <4>3. QED BY <1>0, <2>1, <2>3, <2>4, <3>2, <4>1, <4>2 DEF Known, KnownFile
    <3>3. QED BY <3>1, <3>2
  <2>7. Repairing'
    <3>1. ASSUME NEW n \in DOMAIN fileData, n < i + 1 PROVE fileData'[n] # Nil
      <4>1. n \in Nat /\ i \in Nat
        BY <1>0, ShardIndex DEF TypeOK
      <4>2. n < i \/ n = i
        BY <3>1, <4>1
      <4>3. QED BY <1>0, <2>1, <2>3, <4>1, <4>2 DEF Repairing
    <3>2. QED BY <2>1, <2>3, <3>1 DEF Repairing
  <2>8. QED BY <1>0, <2>1, <2>3, <2>6, <2>7 DEF IndInv, Known, Read, Finished
<1>17. CASE WriteFails
  <2>1. /\ UNCHANGED <<entries, fileData, touched>> /\ pc = "writing"
        /\ Return("writeError") /\ Tear
    BY <1>17 DEF WriteFails, decoderVars
  <2>2. /\ i \in DOMAIN fileData /\ fileData[i] = Nil /\ EntryOf(i) = entries[i]
        /\ entries[i].path \in Paths /\ Assembled(i) = Original[entries[i].path]
    BY <1>0, <2>1, WrittenFile DEF WriteInProgress
  <2>3. PICK k \in 0 .. Len(Original[entries[i].path]) - 1 :
          disk' = [disk EXCEPT ![entries[i].path] = SubSeq(Original[entries[i].path], 1, k)]
    BY <2>1, <2>2 DEF Tear
  <2>4. ASSUME NEW n \in DOMAIN fileData PROVE KnownFile(n)'
    <3>1. CASE n = i
      <4>1. disk'[entries[i].path] # Original[entries[i].path]
        <5>1. Original[entries[i].path] \in Seq(Byte)
          BY <2>2, OriginalFacts
        <5>2. Len(SubSeq(Original[entries[i].path], 1, k)) = k
          BY <2>3, <5>1
        <5>3. disk'[entries[i].path] = SubSeq(Original[entries[i].path], 1, k)
          BY <1>0, <2>2, <2>3 DEF TypeOK
        <5>4. Len(Original[entries[i].path]) \in Nat /\ k # Len(Original[entries[i].path])
          BY <2>3, <5>1
        <5>5. QED BY <5>2, <5>3, <5>4
      <4>2. QED BY <2>1, <2>2, <3>1, <4>1 DEF KnownFile
    <3>2. CASE n # i
      <4>1. disk'[entries[n].path] = disk[entries[n].path]
        BY <1>0, <2>2, <2>3, <3>2, OwnFile, ShardIndex, EntryFacts DEF TypeOK
      <4>2. QED BY <1>0, <2>1, <3>2, <4>1 DEF Known, KnownFile
    <3>3. QED BY <3>1, <3>2
  <2>5. QED BY <2>1, <2>4 DEF Return, IndInv, Known, Read, Repairing, Finished
<1>18. CASE EndRepair
  <2>1. /\ UNCHANGED <<entries, disk, fileData, touched>> /\ pc = "repair"
        /\ i \notin DOMAIN fileData /\ Return("repaired")
    BY <1>18 DEF EndRepair, fileVars, decoderVars
  <2>2. DOMAIN fileData = 1 .. Len(fileData) /\ Len(fileData) \in Nat /\ i \in Nat \ {0}
    BY <1>0, Elements DEF TypeOK
  <2>3. Finished'
    BY <1>0, <2>1, <2>2 DEF Repairing, Finished, Return
  <2>4. QED BY <1>0, <2>1, <2>3, SteadyKnown DEF IndInv, Return, Read, Repairing
<1>19. CASE VerifyAllData
  <2>1. UNCHANGED <<entries, disk>> /\ pc = "idle"
    BY <1>19 DEF VerifyAllData, fileVars
  <2>2. CASE Die("panic")
    BY <2>2, DieKnown
  <2>3. ASSUME NEW outcome \in {"noShardCount", "tooManyShards", "verifyError", "allDataOk"},
               Return(outcome), UNCHANGED <<decoderVars, touched>>
        PROVE  IndInv'
    BY <1>0, <2>1, <2>3, ReturnKnown DEF decoderVars
  <2>4. QED BY <1>19, <2>2, <2>3 DEF VerifyAllData
<1>20. CASE Crash
  BY <1>20, DieKnown DEF Crash
<1>21. CASE DamageFile
  <2>1. PICK p \in Paths, c \in Contents :
          /\ disk' = [disk EXCEPT ![p] = c]
          /\ touched' = [now |-> touched.now \cup {p}, load |-> touched.load \cup {p}]
    BY <1>21 DEF DamageFile
  <2>2. UNCHANGED <<entries, fileData, loading, pc, i, result>>
    BY <1>21 DEF DamageFile, decoderVars, localVars
  <2>3. \A q : q = p \/ disk'[q] = disk[q]
    BY <1>0, <2>1 DEF TypeOK
  <2>4. Known'
    BY <1>0, <2>1, <2>2, <2>3 DEF Known, KnownFile
  <2>5. Read'
    BY <1>0, <2>1, <2>2, <2>3 DEF Read, ReadFile
  <2>6. QED BY <1>0, <2>2, <2>4, <2>5 DEF IndInv, Repairing, Finished
<1>22. CASE DamageVolume \/ DamageIndex \/ UNCHANGED vars
  <2>1. UNCHANGED <<entries, disk, touched, fileData, loading, pc, i, result>>
    BY <1>22 DEF DamageVolume, DamageIndex, vars, fileVars, decoderVars, localVars
  <2>2. QED
    BY <1>0, <2>1 DEF IndInv, Known, KnownFile, Read, ReadFile, Repairing, Finished
<1>23. CASE CloseFails
  <2>1. /\ UNCHANGED <<entries, fileData>> /\ pc = "writing" /\ Return("writeError")
        /\ disk' = [disk EXCEPT ![EntryOf(i).path] = Assembled(i)]
        /\ touched' = [touched EXCEPT !.now = touched.now \cup {EntryOf(i).path}]
    BY <1>23 DEF CloseFails, decoderVars
  <2>2. i \in DOMAIN fileData /\ EntryOf(i) = entries[i] /\ entries[i].path \in Paths
    BY <1>0, <2>1, WrittenFile DEF WriteInProgress
  <2>3. touched'.now = touched.now \cup {entries[i].path}
    BY <1>0, <2>1, <2>2 DEF TypeOK
  <2>4. ASSUME NEW n \in DOMAIN fileData PROVE KnownFile(n)'
    <3>1. CASE n = i
      BY <1>0, <2>1, <2>2, <2>3, <3>1 DEF Known, KnownFile
    <3>2. CASE n # i
      <4>1. disk'[entries[n].path] = disk[entries[n].path]
        BY <1>0, <2>1, <2>2, <3>2, OwnFile, ShardIndex, EntryFacts DEF TypeOK
      <4>2. QED BY <1>0, <2>1, <2>3, <3>2, <4>1 DEF Known, KnownFile
    <3>3. QED BY <3>1, <3>2
  <2>5. QED BY <2>1, <2>4 DEF Return, IndInv, Known, Read, Repairing, Finished
<1>24. QED
  BY <1>1, <1>2, <1>3, <1>4, <1>5, <1>6, <1>7, <1>8, <1>9, <1>10, <1>11, <1>12, <1>13,
     <1>14, <1>15, <1>16, <1>17, <1>18, <1>19, <1>20, <1>21, <1>22, <1>23
  DEF Next, Call, LoadStep, RepairStep, Fault, Damage

\* Whether the entries are in order does not change while the model runs.
LEMMA EntriesStay == [Next]_vars => (Regular' <=> Regular)
<1>1. [Next]_vars => UNCHANGED entries
  BY DEF Next, Call, LoadStep, RepairStep, Fault, Damage, NewDecoder, LoadFileData,
     LoadDataFile, StoreFileData, LoadParityData, LoadVolume, StoreParityData, RepairFails,
     RepairPanics, Repair, SkipFile, SlicePanics, HashMismatch, EndRepair, OpenFile, FinishWrite,
     OpenFails, WriteFails, CloseFails, VerifyAllData, Crash, DamageFile, DamageVolume, DamageIndex,
     fileVars, vars
<1>2. QED BY <1>1, RegularStep

Inv == TypeInv /\ (Regular => IndInv)

LEMMA Invariance == Spec => []Inv
<1>1. Init => Inv
  BY InitTyped, InitKnown DEF Inv
<1>2. Inv /\ [Next]_vars => Inv'
  BY StepTyped, StepKnown, EntriesStay DEF Inv
<1>3. QED BY <1>1, <1>2, PTL DEF Spec

\* What the decoder holds for a file is the file's original data, and is on the disk
\* unless others changed the file since: after any calls, faults and half-done repairs.
THEOREM UsableDataOnDisk == Spec => []UsableIsOnDisk
<1>1. ASSUME Inv, Aligned, DistinctPaths, NEW n \in UsableData
      PROVE  /\ fileData[n] = Original[entries[n].path]
             /\ \/ disk[entries[n].path] = Original[entries[n].path]
                \/ entries[n].path \in touched.now
  <2>1. TypeInv /\ Known /\ n \in DOMAIN fileData /\ fileData[n] # Nil
    BY <1>1 DEF Inv, IndInv, Regular, UsableData
  <2>2. ~(pc = "writing" /\ n = i)
    BY <2>1 DEF TypeInv, WriteInProgress, UnusableData
  <2>3. QED BY <2>1, <2>2 DEF Known, KnownFile
<1>2. Inv => UsableIsOnDisk
  BY <1>1 DEF UsableIsOnDisk
<1>3. QED BY <1>2, Invariance, PTL

\* A Repair that returns no error has restored every saved file, for any entries in
\* order and any number of them, unless others changed the file.
THEOREM RepairRestores == Spec => []SuccessRestores
<1>1. ASSUME Inv, Aligned, DistinctPaths, result = "repaired", NEW n \in DOMAIN entries,
             entries[n].saved
      PROVE  \/ disk[entries[n].path] = Original[entries[n].path]
             \/ entries[n].path \in touched.now
  <2>1. TypeOK /\ Known /\ Finished
    BY <1>1 DEF Inv, TypeInv, IndInv, Regular
  <2>2. fileData # <<>> /\ pc = "idle"
    BY <1>1, <2>1 DEF Finished
  <2>3. n \in DOMAIN fileData
    BY <1>1, <2>1, <2>2, SavedInData
  <2>4. fileData[n] # Nil
    BY <1>1, <2>1, <2>3 DEF Finished
  <2>5. QED BY <2>1, <2>2, <2>3, <2>4 DEF Known, KnownFile
<1>2. Inv => SuccessRestores
  BY <1>1 DEF SuccessRestores
<1>3. QED BY <1>2, Invariance, PTL

\* Repair opens no file that holds its original bytes, unless others changed it after
\* it was read.
THEOREM IntactFilesNotOpened == Spec => IntactNotOpened
<1>1. ASSUME Inv, [Next]_vars, pc = "repair", pc' = "writing", Aligned, DistinctPaths,
             NEW p \in Paths, disk'[p] # disk[p]
      PROVE  disk[p] # Original[p] \/ p \in touched.now
  <2>1. TypeOK /\ Known
    BY <1>1 DEF Inv, TypeInv, IndInv, Regular
  <2>2. OpenFile
    BY <1>1
    DEF Next, Call, LoadStep, RepairStep, Fault, Damage, NewDecoder, LoadFileData,
        LoadDataFile, StoreFileData, LoadParityData, LoadVolume, StoreParityData, RepairFails,
        RepairPanics, Repair, SkipFile, SlicePanics, HashMismatch, EndRepair, FinishWrite,
        OpenFails, WriteFails, CloseFails, VerifyAllData, Crash, Die, Return, DamageFile, DamageVolume,
        DamageIndex, fileVars, vars
  <2>3. /\ disk' = [disk EXCEPT ![entries[i].path] = <<>>]
        /\ i \in DOMAIN fileData /\ fileData[i] = Nil
    BY <2>2 DEF OpenFile, UnusableData, EntryOf
  <2>4. p = entries[i].path
    BY <1>1, <2>1, <2>3 DEF TypeOK
  <2>5. QED BY <1>1, <2>1, <2>3, <2>4 DEF Known, KnownFile
<1>2. Inv /\ [Next]_vars =>
        [pc = "repair" /\ pc' = "writing" /\ Aligned /\ DistinctPaths =>
           \A p \in Paths : disk'[p] # disk[p] => disk[p] # Original[p] \/ p \in touched.now]_vars
  BY <1>1
<1>3. QED BY <1>2, Invariance, PTL DEF Spec, IntactNotOpened

-------------------------------------------------------------------------------
(* The commands. *)

\* What the client of a decoder does, and no other program.
OwnStep == Call \/ LoadStep \/ RepairStep \/ Fault

LEMMA CommandSteps ==
  ASSUME CommandNext
  PROVE  \/ \E c \in {"verify", "verifyAll", "repair", "library"} : Begin(c)
         \/ OwnStep /\ UNCHANGED hope
         \/ Damage /\ hope' = FALSE
<1>1. CASE Step
  BY <1>1 DEF Step, LoadFiles, LoadParity, LastCall, OwnStep, Call
<1>2. CASE Exit \/ Leave
  <2>1. pc = "idle" /\ Die("none") /\ UNCHANGED <<fileVars, hope>>
    BY <1>2 DEF Exit, Leave, Ended
  <2>2. Crash
    BY <2>1 DEF Crash, fileVars
  <2>3. QED BY <2>1, <2>2 DEF OwnStep, Fault
<1>3. CASE FaultyStep
  BY <1>3 DEF FaultyStep, OwnStep
<1>4. CASE DamagingStep
  BY <1>4 DEF DamagingStep
<1>5. QED BY <1>1, <1>2, <1>3, <1>4 DEF CommandNext

LEMMA StepIsClientStep == CommandNext => Next
<1>1. ASSUME NEW c \in {"verify", "verifyAll", "repair", "library"}, Begin(c) PROVE Next
  BY <1>1 DEF Begin, Next, Call
<1>2. QED BY <1>1, CommandSteps DEF OwnStep, Next

\* The commands, and other programs between them, use the decoder as its client may,
\* so that what is proved of the decoder holds of them.
THEOREM CommandsUseDecoder == CommandSpec => Spec
<1>1. CommandInit => Init
  BY DEF CommandInit
<1>2. [CommandNext]_commandVars => [Next]_vars
  BY StepIsClientStep DEF commandVars
<1>3. QED BY <1>1, <1>2, PTL DEF CommandSpec, Spec
-------------------------------------------------------------------------------
(* What can be repaired stays so.  A write only ever adds to a file.  While      *)
(* there is hope, the files that Repair opens and those that are damaged are     *)
(* among the ones that the decoder holds no data for, and of these there are at  *)
(* most as many as whole volumes: so there is enough to begin again.             *)

\* No file and no volume was damaged since what the decoder holds, or is about to hold,
\* was read; a file whose Close failed is one that the decoder holds nothing for.
Fresh ==
  hope => /\ pc = "files" => touched.load = {}
          /\ found \subseteq WholeOnes /\ UsableParity \subseteq WholeOnes
          /\ Regular => \A n \in UsableData : entries[n].path \notin touched.now

NoDecoder == pc = "none" => fileData = <<>> /\ parityData = <<>> /\ found = {}
Opened    == pc = "writing" => disk[EntryOf(i).path] = <<>>
Enough    == pc \in {"repair", "writing"} => RepairPossible

CommandInv == Inv /\ Fresh /\ NoDecoder /\ Opened /\ Enough

LEMMA DamagedFinite ==
  ASSUME TypeOK
  PROVE  /\ IsFiniteSet(Damaged) /\ Cardinality(Damaged) \in Nat
         /\ IsFiniteSet(WholeOnes) /\ Cardinality(WholeOnes) \in Nat
<1>1. Damaged \subseteq 1 .. Len(entries) /\ Len(entries) \in Nat
  BY EntryFacts DEF Damaged, SavedOnes
<1>2. WholeOnes \subseteq 1 .. VolumeCount /\ VolumeCount \in Nat
  BY VolumeCountType DEF WholeOnes
<1>3. ASSUME NEW S, NEW b \in Nat, S \subseteq 1 .. b
      PROVE  IsFiniteSet(S) /\ Cardinality(S) \in Nat
  <2>1. IsFiniteSet(1 .. b)
    BY FS_Interval
  <2>2. IsFiniteSet(S)
    BY <1>3, <2>1, FS_Subset
  <2>3. QED BY <2>2, FS_CardinalityType
<1>4. QED BY <1>1, <1>2, <1>3

\* A step that damages no file that was whole keeps the set recoverable.
LEMMA KeepsRecoverable ==
  ASSUME TypeOK, Recoverable, UNCHANGED <<volumes, index, entries>>,
         \A p \in Paths : /\ disk'[p] # Original[p] => disk[p] # Original[p]
                          /\ disk'[p] = Unreadable => disk[p] = Unreadable
  PROVE  Recoverable'
<1>1. \A n \in SavedOnes : entries[n].path \in Paths
  BY EntryFacts DEF SavedOnes
<1>2. SavedOnes' = SavedOnes
  BY DEF SavedOnes
<1>3. Damaged' \subseteq Damaged
  BY <1>1, <1>2 DEF Damaged
<1>4. WholeOnes' = WholeOnes /\ VolumeCount' = VolumeCount
  BY SteadyEntries DEF WholeOnes
<1>5. Cardinality(Damaged') \in Nat /\ Cardinality(Damaged') <= Cardinality(Damaged)
  BY <1>3, DamagedFinite, FS_Subset, FS_CardinalityType
<1>6. Cardinality(Damaged') <= Cardinality(WholeOnes)
  BY <1>5, DamagedFinite DEF Recoverable
<1>7. QED BY <1>1, <1>2, <1>4, <1>6 DEF Recoverable

LEMMA EmptyReadable == <<>> # Unreadable
<1>1. Unreadable \notin Seq(Byte)
  BY OriginalAssumption
<1>2. <<>> \in Seq(Byte)
  OBVIOUS
<1>3. QED BY <1>1, <1>2, Zenon

\* A write that is cut short leaves a file that was not whole before, either.
LEMMA TearHarmless ==
  ASSUME TypeInv, Opened, pc = "writing", Tear, NEW p \in Paths
  PROVE  /\ disk'[p] # Original[p] => disk[p] # Original[p]
         /\ disk'[p] = Unreadable => disk[p] = Unreadable
<1> DEFINE q == EntryOf(i).path
<1>1. TypeOK /\ Assembled(i) = Original[q] /\ q \in Paths
  BY WrittenFile DEF TypeInv, WriteInProgress
<1>2. PICK k \in 0 .. Len(Original[q]) - 1 : disk' = [disk EXCEPT ![q] = SubSeq(Original[q], 1, k)]
  BY <1>1 DEF Tear
<1>3. Original[q] \in Seq(Byte) /\ SubSeq(Original[q], 1, k) \in Seq(Byte)
  BY <1>1, <1>2, OriginalFacts
<1>4. Original[q] # <<>> /\ disk[q] = <<>>
  BY <1>2, <1>3 DEF Opened
<1>5. SubSeq(Original[q], 1, k) # Unreadable
  BY <1>3, OriginalAssumption
<1>6. CASE p = q
  BY <1>1, <1>2, <1>4, <1>5, <1>6 DEF TypeOK
<1>7. CASE p # q
  BY <1>1, <1>2, <1>7 DEF TypeOK
<1>8. QED BY <1>6, <1>7

\* No step of the decoder damages a file, unless it opens one that it does not know to be
\* intact.
LEMMA StepHarmless ==
  ASSUME Inv, Opened, OwnStep, NEW p \in Paths,
         OpenFile => Regular /\ (fileData # <<>> => touched.now = {})
  PROVE  /\ disk'[p] # Original[p] => disk[p] # Original[p]
         /\ disk'[p] = Unreadable => disk[p] = Unreadable
<1>0. TypeInv /\ TypeOK /\ (Regular => Known)
  BY DEF Inv, TypeInv, IndInv
<1>1. CASE FinishWrite \/ CloseFails
  <2>1. disk' = [disk EXCEPT ![EntryOf(i).path] = Assembled(i)] /\ pc = "writing"
    BY <1>1 DEF FinishWrite, CloseFails
  <2>2. EntryOf(i).path \in Paths /\ Assembled(i) = Original[EntryOf(i).path]
    BY <1>0, <2>1, WrittenFile DEF TypeInv, WriteInProgress
  <2>3. Original[EntryOf(i).path] # Unreadable
    BY <2>2, OriginalAssumption, OriginalFacts
  <2>4. QED BY <1>0, <2>1, <2>2, <2>3 DEF TypeOK
<1>2. CASE WriteFails
  BY <1>0, <1>2, TearHarmless DEF WriteFails
<1>3. CASE Crash
  BY <1>0, <1>3, TearHarmless DEF Crash
<1>4. CASE UNCHANGED disk
  BY <1>4
<1>5. CASE OpenFile
  <2>1. /\ disk' = [disk EXCEPT ![entries[i].path] = <<>>]
        /\ i \in DOMAIN fileData /\ fileData[i] = Nil /\ pc = "repair"
    BY <1>5 DEF OpenFile, EntryOf, UnusableData
  <2>2. touched.now = {} /\ entries[i].path \in Paths
    BY <1>0, <1>5, <2>1, ShardIndex, EntryFacts DEF TypeOK
  <2>3. disk[entries[i].path] # Original[entries[i].path]
    BY <1>0, <1>5, <2>1, <2>2 DEF Known, KnownFile
  <2>4. <<>> # Unreadable
    BY EmptyReadable
  <2>5. QED BY <1>0, <2>1, <2>2, <2>3, <2>4 DEF TypeOK
<1>6. QED
  BY <1>1, <1>2, <1>3, <1>4, <1>5
  DEF OwnStep, Call, LoadStep, RepairStep, Fault, NewDecoder, LoadFileData, LoadDataFile,
      StoreFileData, LoadParityData, LoadVolume, StoreParityData, RepairFails, RepairPanics,
      Repair, SkipFile, SlicePanics, HashMismatch, EndRepair, OpenFails, VerifyAllData, fileVars

LEMMA UnusableFinite ==
  ASSUME TypeOK
  PROVE  IsFiniteSet(UnusableData) /\ Cardinality(UnusableData) \in Nat
<1>1. DOMAIN fileData = 1 .. Len(fileData) /\ Len(fileData) \in Nat
  BY Elements DEF TypeOK
<1>2. IsFiniteSet(1 .. Len(fileData))
  BY <1>1, FS_Interval
<1>3. IsFiniteSet(UnusableData)
  BY <1>1, <1>2, FS_Subset DEF UnusableData
<1>4. QED BY <1>3, FS_CardinalityType

LEMMA ParityFinite ==
  ASSUME TypeOK
  PROVE  IsFiniteSet(UsableParity) /\ Cardinality(UsableParity) \in Nat
<1>1. DOMAIN parityData = 1 .. Len(parityData) /\ Len(parityData) \in Nat
  BY Elements DEF TypeOK
<1>2. IsFiniteSet(1 .. Len(parityData))
  BY <1>1, FS_Interval
<1>3. IsFiniteSet(UsableParity)
  BY <1>1, <1>2, FS_Subset DEF UsableParity
<1>4. QED BY <1>3, FS_CardinalityType

\* A file that Repair truncates can be restored with the volumes that it has read.
LEMMA OpeningKeepsRecoverable ==
  ASSUME CommandInv, Regular, hope, Recoverable, OpenFile
  PROVE  Recoverable'
<1>0. TypeOK /\ Known /\ Fresh /\ RepairPossible
  BY DEF CommandInv, Inv, TypeInv, IndInv, Enough, OpenFile
<1>1. /\ disk' = [disk EXCEPT ![entries[i].path] = <<>>] /\ pc = "repair"
      /\ i \in DOMAIN fileData /\ fileData[i] = Nil /\ UNCHANGED <<volumes, index, entries>>
  BY DEF OpenFile, EntryOf, UnusableData
<1>2. /\ SavedOnes' = SavedOnes /\ WholeOnes' = WholeOnes /\ VolumeCount' = VolumeCount
      /\ fileData # <<>> /\ entries[i].path \in Paths
      /\ \A n \in SavedOnes : n \in DOMAIN entries /\ entries[n].path \in Paths
  BY <1>0, <1>1, SteadyEntries, ShardIndex, EntryFacts DEF SavedOnes, WholeOnes
<1>3. Damaged' \subseteq UnusableData
  <2>1. ASSUME NEW n \in SavedOnes, n \notin UnusableData
        PROVE  disk'[entries[n].path] = Original[entries[n].path]
    <3>1. n \in DOMAIN fileData /\ fileData[n] # Nil
      BY <1>0, <1>2, <2>1, SavedInData DEF SavedOnes, UnusableData, Regular
    <3>2. entries[n].path \notin touched.now
      BY <1>0, <3>1 DEF Fresh, UsableData
    <3>3. disk[entries[n].path] = Original[entries[n].path]
      BY <1>0, <1>1, <3>1, <3>2 DEF Known, KnownFile
    <3>4. entries[n].path # entries[i].path
      BY <1>0, <1>1, <3>1, OwnFile
    <3>5. QED BY <1>0, <1>1, <1>2, <3>3, <3>4 DEF TypeOK
  <2>2. QED BY <1>1, <1>2, <2>1 DEF Damaged
<1>4. Cardinality(Damaged') \in Nat /\ Cardinality(Damaged') <= Cardinality(UnusableData)
  BY <1>0, <1>3, UnusableFinite, FS_Subset, FS_CardinalityType
<1>5. Cardinality(UsableParity) <= Cardinality(WholeOnes)
  BY <1>0, DamagedFinite, FS_Subset DEF Fresh
<1>6. Cardinality(Damaged') <= Cardinality(WholeOnes)
  BY <1>0, <1>4, <1>5, UnusableFinite, ParityFinite, DamagedFinite DEF RepairPossible
<1>7. <<>> # Unreadable
  BY EmptyReadable
<1>8. \A n \in SavedOnes : disk'[entries[n].path] # Unreadable
  BY <1>0, <1>1, <1>2, <1>7 DEF Recoverable, TypeOK
<1>9. QED BY <1>1, <1>2, <1>6, <1>8 DEF Recoverable

\* Only damage changes what the volumes hold.
LEMMA OwnStepSteady ==
  ASSUME OwnStep
  PROVE  UNCHANGED <<volumes, index, entries>> /\ WholeOnes' = WholeOnes
<1>1. UNCHANGED <<volumes, index, entries>>
  BY DEF OwnStep, Call, LoadStep, RepairStep, Fault, NewDecoder, LoadFileData, LoadDataFile,
         StoreFileData, LoadParityData, LoadVolume, StoreParityData, RepairFails, RepairPanics,
         Repair, SkipFile, SlicePanics, HashMismatch, EndRepair, OpenFile, FinishWrite,
         OpenFails, WriteFails, CloseFails, VerifyAllData, Crash, fileVars
<1>2. QED BY <1>1, SteadyEntries DEF WholeOnes

\* The decoder takes the volumes that are whole, and holds data for a file only when it
\* knows what the file holds.
LEMMA StepFresh ==
  ASSUME Inv, Fresh, NoDecoder, hope, OwnStep, UNCHANGED hope
  PROVE  Fresh'
<1>0. /\ TypeOK /\ WholeOnes' = WholeOnes /\ UNCHANGED <<volumes, index, entries>>
      /\ pc = "files" => touched.load = {}
      /\ found \subseteq WholeOnes /\ UsableParity \subseteq WholeOnes
      /\ touched \in [now : SUBSET Paths, load : SUBSET Paths]
  BY OwnStepSteady DEF Inv, TypeInv, TypeOK, Fresh
<1>1. ASSUME NEW outcome, Die(outcome) PROVE Fresh'
  BY <1>1 DEF Die, Fresh, UsableParity, UsableData
<1>2. pc' = "files" => touched'.load = {}
  BY <1>0
  DEF OwnStep, Call, LoadStep, RepairStep, Fault, NewDecoder, LoadFileData, LoadDataFile,
      StoreFileData, LoadParityData, LoadVolume, StoreParityData, RepairFails, RepairPanics,
      Repair, SkipFile, SlicePanics, HashMismatch, EndRepair, OpenFile, FinishWrite,
      OpenFails, WriteFails, CloseFails, VerifyAllData, Crash, Die, Return
<1>3. found' \subseteq WholeOnes /\ UsableParity' \subseteq WholeOnes
  <2>1. CASE LoadVolume
    <3>1. /\ parityData' = parityData
          /\ \/ found' = {} \/ found' = found
             \/ found' = found \cup {i} /\ i <= VolumeCount /\ volumes[i] = "whole"
      BY <2>1 DEF LoadVolume, Return, decoderVars
    <3>2. i \in 1 .. VolumeCount \/ ~(i <= VolumeCount)
      BY <1>0, VolumeCountType DEF TypeOK
    <3>3. QED BY <1>0, <3>1, <3>2 DEF WholeOnes, UsableParity
  <2>2. CASE StoreParityData
    <3>1. CASE Die("panic")
      BY <3>1 DEF Die, UsableParity
    <3>2. CASE parityData' = [v \in 1 .. ParityLength |-> v \in found] /\ found' = {}
      <4>1. UsableParity' \subseteq found
        BY <3>2 DEF UsableParity
      <4>2. QED BY <1>0, <3>2, <4>1
    <3>3. QED BY <2>2, <3>1, <3>2 DEF StoreParityData, Return
  <2>3. CASE UNCHANGED parityData /\ found' \in {found, {}}
    BY <1>0, <2>3 DEF UsableParity
  <2>4. CASE parityData' = <<>> /\ found' = {}
    BY <2>4 DEF UsableParity
  <2>5. QED
    BY <2>1, <2>2, <2>3, <2>4
    DEF OwnStep, Call, LoadStep, RepairStep, Fault, NewDecoder, LoadFileData, LoadDataFile,
        StoreFileData, LoadParityData, RepairFails, RepairPanics, Repair, SkipFile, SlicePanics,
        HashMismatch, EndRepair, OpenFile, FinishWrite, OpenFails, WriteFails, CloseFails,
        VerifyAllData, Crash, Die, Return, decoderVars, localVars
<1>4. ASSUME Regular, NEW n \in UsableData'
      PROVE  entries[n].path \notin touched'.now
  <2>1. CASE FinishWrite
    <3>1. /\ touched' = [touched EXCEPT !.now = touched.now \ {EntryOf(i).path}]
          /\ fileData' = [fileData EXCEPT ![i] = Assembled(i)]
      BY <2>1 DEF FinishWrite
    <3>2. n = i \/ n \in UsableData
      BY <1>4, <3>1 DEF UsableData
    <3>3. QED BY <1>0, <1>4, <3>1, <3>2 DEF Fresh, EntryOf
  <2>2. CASE CloseFails
    <3>1. /\ touched' = [touched EXCEPT !.now = touched.now \cup {EntryOf(i).path}]
          /\ UNCHANGED fileData /\ pc = "writing"
      BY <2>2 DEF CloseFails, decoderVars
    <3>2. i \in UnusableData /\ n \in UsableData
      BY <1>4, <3>1 DEF Inv, TypeInv, WriteInProgress, UsableData
    <3>3. entries[n].path # entries[i].path
      BY <1>0, <1>4, <3>2, OwnFile DEF UsableData, UnusableData
    <3>4. QED BY <1>0, <1>4, <3>1, <3>2, <3>3 DEF Fresh, EntryOf
  <2>3. CASE StoreFileData
    <3>1. CASE touched' = [touched EXCEPT !.now = touched.load] /\ pc = "files"
      BY <1>0, <3>1
    <3>2. CASE UNCHANGED <<fileData, touched>>
      BY <1>0, <1>4, <3>2 DEF Fresh, UsableData
    <3>3. QED BY <2>3, <3>1, <3>2 DEF StoreFileData
  <2>4. CASE UNCHANGED fileData /\ touched'.now = touched.now
    BY <1>0, <1>4, <2>4 DEF Fresh, UsableData
  <2>5. CASE fileData' = <<>>
    BY <1>4, <2>5 DEF UsableData
  <2>6. QED
    BY <1>0, <2>1, <2>2, <2>3, <2>4, <2>5
    DEF OwnStep, Call, LoadStep, RepairStep, Fault, NewDecoder, LoadFileData, LoadDataFile,
        LoadParityData, LoadVolume, StoreParityData, RepairFails, RepairPanics, Repair, SkipFile,
        SlicePanics, HashMismatch, EndRepair, OpenFile, OpenFails, WriteFails,
        VerifyAllData, Crash, Die, Return, decoderVars
<1>5. Regular' <=> Regular
  BY <1>0, RegularStep
<1>6. QED BY <1>0, <1>2, <1>3, <1>4, <1>5 DEF Fresh

\* A Repair that runs began with enough volumes, and every file that is written needs one less.
LEMMA StepEnough ==
  ASSUME TypeInv, Enough, Next
  PROVE  Enough'
<1>0. TypeOK
  BY DEF TypeInv
<1>1. CASE Repair
  BY <1>1 DEF Repair, Enough, RepairPossible, UsableParity, UnusableData, RepairError, decoderVars
<1>2. CASE FinishWrite
  <2>1. /\ fileData' = [fileData EXCEPT ![i] = Assembled(i)] /\ pc = "writing"
        /\ UNCHANGED parityData
    BY <1>2 DEF FinishWrite
  <2>2. i \in DOMAIN fileData /\ EntryOf(i).path \in Paths /\ Assembled(i) = Original[EntryOf(i).path]
    BY <1>0, <2>1, WrittenFile DEF TypeInv, WriteInProgress
  <2>3. Assembled(i) # Nil
    BY <2>2, OriginalFacts
  <2>4. UnusableData' \subseteq UnusableData
    BY <2>1, <2>3 DEF UnusableData
  <2>5. Cardinality(UnusableData') \in Nat /\ Cardinality(UnusableData') <= Cardinality(UnusableData)
    BY <1>0, <2>4, UnusableFinite, FS_Subset, FS_CardinalityType
  <2>6. UsableParity' = UsableParity /\ RepairPossible
    BY <2>1 DEF UsableParity, Enough
  <2>7. QED BY <1>0, <2>5, <2>6, UnusableFinite, ParityFinite DEF Enough, RepairPossible
<1>3. CASE pc \in {"repair", "writing"} /\ UNCHANGED <<fileData, parityData>>
  BY <1>3 DEF Enough, RepairPossible, UsableParity, UnusableData
<1>4. CASE pc' \notin {"repair", "writing"}
  BY <1>4 DEF Enough
<1>5. QED
  BY <1>1, <1>2, <1>3, <1>4
  DEF Next, Call, LoadStep, RepairStep, Fault, Damage, NewDecoder, LoadFileData, LoadDataFile,
      StoreFileData, LoadParityData, LoadVolume, StoreParityData, RepairFails, RepairPanics,
      SkipFile, SlicePanics, HashMismatch, EndRepair, OpenFile, OpenFails, WriteFails,
      CloseFails, VerifyAllData, Crash, Die, Return, DamageFile, DamageVolume, DamageIndex,
      decoderVars

LEMMA StepInvariants == CommandInv /\ CommandNext => CommandInv'
<1> SUFFICES ASSUME CommandInv, CommandNext PROVE CommandInv'
  OBVIOUS
<1>0. Next /\ TypeOK /\ Inv /\ Fresh /\ NoDecoder /\ Opened /\ TypeInv /\ Enough
  BY StepIsClientStep DEF CommandInv, Inv, TypeInv
<1>1. Inv'
  BY <1>0, StepTyped, StepKnown, EntriesStay DEF Inv
<1>2. NoDecoder'
  <2>1. CASE pc' = "none" /\ pc = "none" /\ UNCHANGED <<fileData, parityData, found>>
    BY <1>0, <2>1 DEF NoDecoder
  <2>2. CASE \E outcome : Die(outcome)
    BY <2>2 DEF Die, NoDecoder
  <2>3. CASE pc' # "none"
    BY <2>3 DEF NoDecoder
  <2>4. QED
    BY <1>0, <2>1, <2>2, <2>3
    DEF Next, Call, LoadStep, RepairStep, Fault, Damage, NewDecoder, LoadFileData, LoadDataFile,
        StoreFileData, LoadParityData, LoadVolume, StoreParityData, RepairFails, RepairPanics,
        Repair, SkipFile, SlicePanics, HashMismatch, EndRepair, OpenFile, FinishWrite, OpenFails,
        WriteFails, CloseFails, VerifyAllData, Crash, Return, DamageFile, DamageVolume,
        DamageIndex, decoderVars, localVars
<1>3. Opened'
  <2>1. CASE OpenFile
    <3>1. /\ UNCHANGED <<entries, i>> /\ disk' = [disk EXCEPT ![EntryOf(i).path] = <<>>]
          /\ i \in DOMAIN fileData
      BY <2>1 DEF OpenFile, UnusableData
    <3>2. EntryOf(i).path \in Paths
      BY <1>0, <3>1, ShardIndex, EntryFacts DEF EntryOf
    <3>3. QED BY <1>0, <3>1, <3>2 DEF Opened, EntryOf, TypeOK
  <2>2. CASE DamageFile
    <3>1. PICK p \in Paths, c \in Contents :
            ~(pc = "writing" /\ p = EntryOf(i).path) /\ disk' = [disk EXCEPT ![p] = c]
      BY <2>2 DEF DamageFile
    <3>2. UNCHANGED <<entries, i, pc>>
      BY <2>2 DEF DamageFile
    <3>3. QED BY <1>0, <3>1, <3>2 DEF Opened, EntryOf, TypeOK
  <2>3. CASE DamageVolume \/ DamageIndex
    BY <1>0, <2>3 DEF Opened, EntryOf, DamageVolume, DamageIndex
  <2>4. CASE pc' # "writing"
    BY <2>4 DEF Opened
  <2>5. QED
    BY <1>0, <2>1, <2>2, <2>3, <2>4
    DEF Next, Call, LoadStep, RepairStep, Fault, Damage, NewDecoder, LoadFileData,
        LoadDataFile, StoreFileData, LoadParityData, LoadVolume, StoreParityData, RepairFails,
        RepairPanics, Repair, SkipFile, SlicePanics, HashMismatch, EndRepair, FinishWrite,
        OpenFails, WriteFails, CloseFails, VerifyAllData, Crash, Die, Return
<1>4. Fresh'
  <2>1. ASSUME NEW c \in {"verify", "verifyAll", "repair", "library"}, Begin(c) PROVE Fresh'
    <3>1. UNCHANGED <<fileData, parityData, found>> /\ pc = "none" /\ pc' \in {"none", "idle"}
      BY <2>1 DEF Begin, NewDecoder, decoderVars, localVars
    <3>2. QED BY <1>0, <3>1 DEF NoDecoder, Fresh, UsableData, UsableParity
  <2>2. CASE ~hope'
    BY <2>2 DEF Fresh
  <2>3. CASE OwnStep /\ UNCHANGED hope
    BY <1>0, <2>2, <2>3, StepFresh
  <2>4. QED BY <2>1, <2>2, <2>3, CommandSteps
<1>5. Enough'
  BY <1>0, StepEnough
<1>6. QED BY <1>1, <1>2, <1>3, <1>4, <1>5 DEF CommandInv

LEMMA CommandInvariance == CommandSpec => []CommandInv
<1>1. CommandInit => CommandInv
  <2>1. CommandInit => Inv
    BY InitTyped, InitKnown DEF CommandInit, Inv
  <2>2. CommandInit => Fresh /\ NoDecoder /\ Opened /\ Enough
    BY DEF CommandInit, Init, Fresh, NoDecoder, Opened, Enough
  <2>3. QED BY <2>1, <2>2 DEF CommandInv
<1>2. CommandInv /\ UNCHANGED commandVars => CommandInv'
  <2>1. CommandInv /\ UNCHANGED commandVars => Inv'
    BY StepTyped, StepKnown, EntriesStay DEF CommandInv, Inv, commandVars
  <2>2. CommandInv /\ UNCHANGED commandVars => Fresh' /\ NoDecoder' /\ Opened' /\ Enough'
    BY SteadyEntries, RegularStep
    DEF CommandInv, commandVars, vars, fileVars, decoderVars, localVars, Fresh, NoDecoder,
        Opened, Enough, EntryOf, WholeOnes, UsableParity, UsableData, UnusableData, RepairPossible
  <2>3. QED BY <2>1, <2>2 DEF CommandInv
<1>3. QED BY <1>1, <1>2, StepInvariants, PTL DEF CommandSpec

\* For any set whose saved entries come first and have different paths, and however many
\* files, volumes, commands, other users of the decoder, crashes and failed writes there
\* are: a set that can be restored when a Decoder is created can be until files are damaged.
THEOREM NothingIsLost == CommandSpec => []StaysRecoverable
<1> DEFINE Kept == hope /\ Regular => Recoverable
<1>1. CommandInit => Kept
  BY DEF CommandInit
<1>2. ASSUME CommandInv, Kept, CommandNext, hope', Regular' PROVE Recoverable'
  <2>0. Regular /\ TypeOK
    BY <1>2, StepIsClientStep, EntriesStay DEF CommandInv, Inv, TypeInv
  <2>1. ASSUME NEW c \in {"verify", "verifyAll", "repair", "library"}, Begin(c) PROVE Recoverable'
    <3>1. UNCHANGED <<disk, volumes, index, entries>> /\ Recoverable
      BY <1>2, <2>1 DEF Begin, NewDecoder, fileVars
    <3>2. QED BY <2>0, <3>1, KeepsRecoverable
  <2>2. CASE OwnStep /\ UNCHANGED hope
    <3>1. Recoverable /\ UNCHANGED <<volumes, index, entries>>
      BY <1>2, <2>0, <2>2, OwnStepSteady
    <3>2. CASE OpenFile
      BY <1>2, <2>0, <2>2, <3>1, <3>2, OpeningKeepsRecoverable
    <3>3. CASE ~OpenFile
      <4>1. \A p \in Paths : /\ disk'[p] # Original[p] => disk[p] # Original[p]
                             /\ disk'[p] = Unreadable => disk[p] = Unreadable
        BY <1>2, <2>2, <3>3, StepHarmless DEF CommandInv
      <4>2. QED BY <2>0, <3>1, <4>1, KeepsRecoverable
    <3>4. QED BY <3>2, <3>3
  <2>3. QED BY <1>2, <2>1, <2>2, CommandSteps
<1>3. ASSUME CommandInv, Kept, UNCHANGED commandVars PROVE Kept'
  <2>1. UNCHANGED <<disk, volumes, index, entries, hope>> /\ TypeOK
    BY <1>3 DEF commandVars, vars, fileVars, CommandInv, Inv, TypeInv
  <2>2. QED BY <1>3, <2>1, RegularStep, KeepsRecoverable
<1>4. CommandInv /\ Kept /\ [CommandNext]_commandVars => Kept'
  BY <1>2, <1>3
<1>5. Kept => StaysRecoverable
  BY DEF StaysRecoverable, Regular
<1> HIDE DEF Kept
<1>6. QED BY <1>1, <1>4, <1>5, CommandInvariance, PTL DEF CommandSpec
-------------------------------------------------------------------------------
(* What verify promises, repair keeps.  What a decoder has loaded since verify *)
(* began is what the disk holds, so that verify and any later repair count the *)
(* same files and volumes.                                                     *)

Modes ==
  /\ cmd \in {"none", "verify", "verifyAll", "repair", "library"}
  /\ cmd = "none" <=> pc = "none"
  /\ pc \in {"none", "idle"} => found = {}
  /\ pc = "none" => parityData = <<>>
  /\ pc = "none" => result \in {"none", "panic", "indexError"}
  /\ pc \in {"repair", "writing"} => cmd \in {"repair", "library"}
  /\ \A v \in 1 .. VolumeLimit : volumes[v] = "whole" => v \in Created

\* The volumes up to last can all be read, ...
Legible(last) == \A v \in 1 .. VolumeCount : v < last => volumes[v] # "bad"

\* ... and so can the saved files.
Readable(last) == \A n \in SavedOnes : n < last => disk[entries[n].path] # Unreadable

\* The decoder holds the parity of all volumes that are whole.
AllParity ==
  /\ UsableParity = WholeOnes
  /\ Legible(VolumeCount + 1)
  /\ WholeOnes # {} => Len(parityData) \in WholeOnes /\ shardByteCount = ParityByteCount

\* What the decoder has read so far is what the disk holds.
ReadsDisk ==
  /\ index = "ok"
  /\ pc = "files" => touched.load = {} /\ Readable(i)
  /\ fileData # <<>> => touched.now = {} /\ Readable(Len(entries) + 1)
  /\ pc = "volumes" => Legible(i) /\ found = {v \in WholeOnes : v < i}
  /\ parityData # <<>> => AllParity
  /\ pc \in {"repair", "writing"} => parityData # <<>>
  /\ cmd # "library" /\ (pc = "volumes" \/ result \in {"filesLoaded", "parityLoaded", "allDataOk"}) =>
       fileData # <<>>
  /\ cmd # "library" /\ result \in {"parityLoaded", "allDataOk"} => parityData # <<>>
  /\ result \in {"filesLoaded", "parityLoaded", "allDataOk", "repaired", "singular"} => pc = "idle"
  /\ result = "allDataOk" => UnusableData = {}
  /\ result = "pending" => pc \notin {"none", "idle"}

\* How a command stands that nothing stops.
OnCourse ==
  \/ result \in {"none", "pending", "filesLoaded", "parityLoaded"}
  \/ cmd = "repair" /\ (result = "repaired" \/ (result = "singular" /\ SingularDamage))
  \/ cmd = "verifyAll" /\ result = "allDataOk"

Mending == Recoverable /\ (cmd \notin {"none", "library"} => OnCourse)

\* A verify that runs, or one whose promise still stands.
Watched == verdict = "repairPossible" \/ (verdict = "pending" /\ cmd \in Verifies)

Reads == Watched => ReadsDisk

Keeps ==
  verdict = "repairPossible" =>
    /\ cmd \notin Verifies
    /\ Mending
    /\ exit.cmd = "repair" => /\ (exit.code = "success" /\ AllOriginal) \/ SingularDamage
                              /\ pc = "none"

Settled == Modes /\ (Regular => Reads /\ Keeps)

LEMMA InitSettled == CommandInit => Settled
<1> SUFFICES ASSUME CommandInit PROVE Settled
  OBVIOUS
<1>1. Modes
  BY DEF CommandInit, Init, Modes
<1>2. Reads /\ Keeps
  BY DEF CommandInit, Init, Reads, Keeps, Watched
<1>3. QED BY <1>1, <1>2 DEF Settled

\* A command begins, takes a step or ends; after any other step no promise stands.
LEMMA PromiseSteps ==
  ASSUME CommandNext, verdict' # "none"
  PROVE  \/ \E c \in {"verify", "verifyAll", "repair", "library"} : Begin(c)
         \/ Step \/ Exit \/ Leave
BY DEF CommandNext, FaultyStep, DamagingStep

LEMMA StepKinds ==
  ASSUME Modes, Step
  PROVE  /\ \/ LoadFileData /\ (cmd # "library" => LoadFiles)
            \/ LoadParityData /\ (cmd # "library" => LoadParity)
            \/ (Repair \/ RepairFails \/ RepairPanics) /\ (cmd # "library" => LastCall /\ cmd = "repair")
            \/ VerifyAllData /\ cmd # "repair"
            \/ LoadDataFile \/ StoreFileData \/ LoadVolume \/ StoreParityData
            \/ SkipFile \/ SlicePanics \/ HashMismatch \/ OpenFile \/ FinishWrite \/ EndRepair
         /\ cmd # "none" /\ pc # "none" /\ UNCHANGED <<verdict, index, volumes, entries>>
         /\ pc' # "none" => UNCHANGED <<cmd, exit>>
         /\ pc' = "none" => cmd' = "none" /\ exit' = [cmd |-> cmd, code |-> "panic"]
<1>1. cmd # "none" /\ pc # "none" /\ UNCHANGED verdict /\ (pc' # "none" => UNCHANGED <<cmd, exit>>)
      /\ (pc' = "none" => cmd' = "none" /\ exit' = [cmd |-> cmd, code |-> "panic"])
  BY DEF Step, Modes
<1>2. \/ LoadFileData /\ (cmd # "library" => LoadFiles)
      \/ LoadParityData /\ (cmd # "library" => LoadParity)
      \/ (Repair \/ RepairFails \/ RepairPanics) /\ (cmd # "library" => LastCall /\ cmd = "repair")
      \/ VerifyAllData /\ cmd # "repair"
      \/ LoadDataFile \/ StoreFileData \/ LoadVolume \/ StoreParityData
      \/ SkipFile \/ SlicePanics \/ HashMismatch \/ OpenFile \/ FinishWrite \/ EndRepair
  <2>1. CASE LoadStep \/ RepairStep
    BY <2>1 DEF LoadStep, RepairStep
  <2>2. CASE cmd = "library" /\ Call
    BY <1>1, <2>2 DEF Call, NewDecoder
  <2>3. CASE cmd # "library" /\ (LoadFiles \/ LoadParity)
    BY <2>3 DEF LoadFiles, LoadParity
  <2>4. CASE cmd # "library" /\ LastCall
    BY <2>4 DEF LastCall
  <2>5. QED BY <2>1, <2>2, <2>3, <2>4 DEF Step
<1>3. UNCHANGED <<index, volumes, entries>>
  BY <1>2
  DEF LoadFileData, LoadParityData, Repair, RepairFails, RepairPanics, VerifyAllData,
      LoadDataFile, StoreFileData, LoadVolume, StoreParityData, SkipFile, SlicePanics,
      HashMismatch, OpenFile, FinishWrite, EndRepair, fileVars
<1>4. QED BY <1>1, <1>2, <1>3

LEMMA SteadyCreated ==
  ASSUME UNCHANGED entries
  PROVE  Created' = Created /\ ParityByteCount' = ParityByteCount
BY DEF Created, ParityByteCount, SavedOnes

LEMMA StepModes == TypeOK /\ Modes /\ CommandNext => Modes'
<1> SUFFICES ASSUME TypeOK, Modes, CommandNext PROVE Modes'
  OBVIOUS
<1> DEFINE Calm == UNCHANGED <<volumes, entries>>
           Wholes == \A v \in 1 .. VolumeLimit : volumes[v] = "whole" => v \in Created
<1>0. Wholes /\ (Calm => Wholes')
  BY SteadyCreated DEF Modes
<1> HIDE DEF Wholes
<1>1. CASE \E c \in {"verify", "verifyAll", "repair", "library"} : Begin(c)
  <2>1. PICK c \in {"verify", "verifyAll", "repair", "library"} : Begin(c)
    BY <1>1
  <2>2. /\ Calm /\ UNCHANGED <<found, parityData>> /\ pc = "none" /\ pc' \in {"none", "idle"}
        /\ result' \in {"none", "indexError"}
        /\ cmd' = IF pc' = "none" THEN "none" ELSE c
    BY <2>1 DEF Begin, NewDecoder, fileVars, localVars, decoderVars
  <2>3. QED BY <1>0, <2>2 DEF Modes, Wholes
<1>2. CASE Exit \/ Leave
  <2>1. Calm /\ cmd' = "none" /\ Die("none")
    BY <1>2 DEF Exit, Leave, fileVars
  <2>2. QED BY <1>0, <2>1 DEF Die, Modes, Wholes
<1>3. CASE DamagingStep
  <2>1. UNCHANGED <<cmd, pc, found, parityData, result, entries>>
    BY <1>3
    DEF DamagingStep, Damage, DamageFile, DamageVolume, DamageIndex, localVars, decoderVars
  <2>2. \A v \in 1 .. VolumeLimit : volumes'[v] = "whole" => volumes[v] = "whole"
    BY <1>3 DEF DamagingStep, Damage, DamageFile, DamageVolume, DamageIndex, TypeOK
  <2>3. QED BY <1>0, <2>1, <2>2, SteadyCreated DEF Modes, Wholes
<1>4. CASE FaultyStep
  <2>1. Calm /\ found' = {} /\ \/ pc' = "idle"
                               \/ pc' = "none" /\ parityData' = <<>> /\ result' = "none"
    BY <1>4 DEF FaultyStep, Fault, OpenFails, WriteFails, CloseFails, Crash, Return, Die, fileVars
  <2>2. cmd # "none" /\ IF pc' = "none" THEN cmd' = "none" ELSE UNCHANGED cmd
    BY <1>4 DEF FaultyStep
  <2>3. QED BY <1>0, <2>1, <2>2 DEF Modes, Wholes
<1>5. CASE Step
  <2>1. /\ pc' \in {"idle", "none"} => found' = {}
        /\ pc' = "none" => parityData' = <<>> /\ result' = "panic"
    BY <1>5, StepKinds
    DEF LoadFileData, LoadParityData, Repair, RepairFails, RepairPanics, VerifyAllData,
        LoadDataFile, StoreFileData, LoadVolume, StoreParityData, SkipFile, SlicePanics,
        HashMismatch, OpenFile, FinishWrite, EndRepair, Return, Die
  <2>2. cmd # "none" /\ pc # "none" /\ Calm /\ (pc' # "none" => UNCHANGED cmd)
        /\ (pc' = "none" => cmd' = "none")
    BY <1>5, StepKinds
  <2>3. pc' \in {"repair", "writing"} => cmd \in {"repair", "library"}
    <3>1. CASE LoadFiles \/ LoadParity \/ LoadStep
      BY <3>1
      DEF LoadFiles, LoadParity, LoadStep, LoadFileData, LoadParityData, LoadDataFile,
          StoreFileData, LoadVolume, StoreParityData, Return, Die
    <3>2. CASE LastCall
      BY <3>2 DEF LastCall, VerifyAllData, Return, Die
    <3>3. CASE RepairStep
      BY <3>3
      DEF RepairStep, SkipFile, SlicePanics, HashMismatch, OpenFile, FinishWrite, EndRepair, Modes
    <3>4. QED BY <1>5, <3>1, <3>2, <3>3 DEF Step
  <2>4. QED BY <1>0, <2>1, <2>2, <2>3 DEF Modes, Wholes
<1>6. QED BY <1>1, <1>2, <1>3, <1>4, <1>5 DEF CommandNext
\* A decoder holds data for the saved entries; and if nothing was damaged since it was
\* read, the files without data are those that are damaged.
LEMMA DataOfDisk ==
  ASSUME Inv, Regular, fileData # <<>>
  PROVE  /\ DOMAIN fileData = SavedOnes
         /\ touched.now = {} /\ pc # "writing" => UnusableData = Damaged
<1>0. TypeOK /\ Known
  BY DEF Inv, TypeInv, IndInv
<1>1. Len(fileData) \in Nat /\ DOMAIN fileData = 1 .. Len(fileData) /\ Len(fileData) = Cardinality(SavedOnes)
  BY <1>0, Elements DEF TypeOK
<1>2. SavedOnes \subseteq DOMAIN fileData
  BY <1>0, SavedInData DEF SavedOnes, Regular
<1>3. IsFiniteSet(DOMAIN fileData) /\ Cardinality(DOMAIN fileData) = Len(fileData)
  <2>1. IsFiniteSet(1 .. Len(fileData)) /\ Cardinality(1 .. Len(fileData)) = Len(fileData)
    BY <1>1, FS_Interval
  <2>2. QED BY <1>1, <2>1
<1>4. DOMAIN fileData = SavedOnes
  BY <1>1, <1>2, <1>3, FS_Subset
<1>5. ASSUME touched.now = {}, pc # "writing", NEW n \in SavedOnes
      PROVE  fileData[n] = Nil <=> disk[entries[n].path] # Original[entries[n].path]
  BY <1>0, <1>4, <1>5 DEF Known, KnownFile
<1>6. QED BY <1>4, <1>5 DEF UnusableData, Damaged

\* What was loaded is all that can be read.
LEMMA ParityOfDisk ==
  ASSUME TypeOK, VolumeCount > 0, found = WholeOnes, Legible(VolumeCount + 1),
         UNCHANGED <<volumes, entries>>,
         parityData' = [v \in 1 .. ParityLength |-> v \in found],
         shardByteCount' = IF found = {} THEN 0 ELSE ParityByteCount
  PROVE  AllParity' /\ parityData' # <<>>
<1>1. /\ ParityLength \in Nat \ {0} /\ found \subseteq 1 .. ParityLength
      /\ found # {} => ParityLength \in found
  <2>1. CASE found = {}
    BY <2>1 DEF ParityLength
  <2>2. CASE found # {}
    <3>1. found \in SUBSET Nat /\ \A v \in found : v >= 1 /\ v <= VolumeCount
      BY VolumeCountType DEF TypeOK
    <3>2. \E v \in found : \A w \in found : w <= v
      BY <2>2, <3>1, VolumeCountType, GreatestNatural
    <3>3. ParityLength \in found /\ \A w \in found : w <= ParityLength
      BY <2>2, <3>2 DEF ParityLength
    <3>4. QED BY <3>1, <3>3
  <2>3. QED BY <2>1, <2>2
<1>2. parityData' \in Seq(BOOLEAN)
  BY <1>1, FoundVolumes
<1>3. DOMAIN parityData' = 1 .. ParityLength
  OBVIOUS
<1>4. Len(parityData') = ParityLength
  BY <1>1, <1>2, <1>3
<1>5. UsableParity' = found
  BY <1>1, <1>3 DEF UsableParity
<1>6. WholeOnes' = WholeOnes /\ VolumeCount' = VolumeCount /\ ParityByteCount' = ParityByteCount
  BY SteadyEntries, SteadyCreated DEF WholeOnes
<1>7. Legible(VolumeCount + 1)'
  BY <1>6 DEF Legible
<1>8. parityData' # <<>>
  BY <1>1, <1>3
<1>9. QED BY <1>1, <1>4, <1>5, <1>6, <1>7, <1>8 DEF AllParity

\* What does not depend on the files and the calls of the decoder.
LEMMA SteadyParity ==
  ASSUME UNCHANGED <<volumes, entries, parityData, shardByteCount>>
  PROVE  AllParity' <=> AllParity
<1>1. WholeOnes' = WholeOnes /\ VolumeCount' = VolumeCount /\ ParityByteCount' = ParityByteCount
  BY SteadyEntries, SteadyCreated DEF WholeOnes
<1>2. Legible(VolumeCount + 1)' <=> Legible(VolumeCount + 1)
  BY <1>1 DEF Legible
<1>3. UsableParity' = UsableParity
  BY DEF UsableParity
<1>4. QED BY <1>1, <1>2, <1>3 DEF AllParity

\* A call that is over has read what it read, and what the decoder holds stays.
LEMMA ReturnReads ==
  ASSUME ReadsDisk, UNCHANGED <<disk, volumes, index, entries, fileData, parityData,
                                     shardByteCount, cmd>>,
         NEW outcome, Return(outcome), touched'.now = touched.now, outcome # "pending",
         cmd # "library" /\ outcome \in {"filesLoaded", "parityLoaded", "allDataOk"} =>
           fileData # <<>>,
         cmd # "library" /\ outcome \in {"parityLoaded", "allDataOk"} => parityData # <<>>,
         outcome = "allDataOk" => UnusableData = {}
  PROVE  ReadsDisk'
<1>1. pc' = "idle" /\ result' = outcome
  BY DEF Return
<1>2. Readable(Len(entries) + 1)' <=> Readable(Len(entries) + 1)
  BY SteadySaved DEF Readable
<1>3. UnusableData' = UnusableData
  BY DEF UnusableData
<1>4. QED BY <1>1, <1>2, <1>3, SteadyParity DEF ReadsDisk
LEMMA SteadyReadable ==
  ASSUME UNCHANGED <<disk, entries>>
  PROVE  Readable(Len(entries) + 1)' <=> Readable(Len(entries) + 1)
BY SteadySaved DEF Readable

\* A process that is gone has read nothing.
LEMMA DieReads ==
  ASSUME ReadsDisk, UNCHANGED index, NEW outcome, Die(outcome),
         outcome \in {"none", "panic"}
  PROVE  ReadsDisk'
BY DEF Die, ReadsDisk

\* What was read stays true of the disk until others change it.
LEMMA StepReadsDisk ==
  ASSUME CommandInv, Regular, Modes, ReadsDisk, Step
  PROVE  ReadsDisk'
<1>a. Inv /\ NoDecoder /\ Opened /\ TypeOK /\ Counted
  BY DEF CommandInv, Inv, TypeInv
<1>b. /\ index = "ok" /\ index' = "ok" /\ UNCHANGED <<volumes, entries>>
      /\ pc' # "none" => UNCHANGED cmd
  BY StepKinds DEF ReadsDisk
<1>1. SavedOnes' = SavedOnes /\ VolumeCount' = VolumeCount /\ WholeOnes' = WholeOnes
  BY <1>b, SteadySaved, SteadyEntries DEF WholeOnes
<1>2. touched \in [now : SUBSET Paths, load : SUBSET Paths] /\ i \in Nat \ {0}
  BY <1>a DEF TypeOK
<1>3. CASE LoadFileData
  <2>1. /\ UNCHANGED <<disk, fileData, parityData, shardByteCount>> /\ pc = "idle"
        /\ pc' = "files" /\ result' = "pending" /\ i' = i
        /\ touched' = [touched EXCEPT !.load = {}]
    BY <1>3 DEF LoadFileData, fileVars, decoderVars
  <2>2. i' = 1 /\ touched'.load = {} /\ touched'.now = touched.now
    BY <1>a, <1>2, <2>1 DEF Counted
  <2>3. Readable(i)'
    <3>1. \A n \in SavedOnes : ~(n < 1)
      BY <1>a, EntryFacts DEF SavedOnes
    <3>2. QED BY <1>1, <2>2, <3>1 DEF Readable
  <2>4. QED BY <1>b, <2>1, <2>2, <2>3, SteadyParity, SteadyReadable DEF ReadsDisk
<1>4. CASE LoadDataFile
  <2>1. /\ UNCHANGED <<disk, fileData, parityData, shardByteCount, touched>> /\ pc = "files"
        /\ i \in DOMAIN entries
    BY <1>4 DEF LoadDataFile, fileVars, decoderVars
  <2>2. CASE Return("fileError")
    BY <1>b, <2>1, <2>2, ReturnReads DEF Return
  <2>3. CASE /\ ~(entries[i].saved /\ disk[entries[i].path] = Unreadable)
             /\ i' = i + 1 /\ UNCHANGED <<pc, result>>
    <3>1. Readable(i)'
      <4>1. \A n \in SavedOnes : n < i + 1 => n < i \/ n = i
        BY <1>a, <1>2, EntryFacts DEF SavedOnes
      <4>2. \A n \in SavedOnes : n < i + 1 => disk[entries[n].path] # Unreadable
        BY <1>b, <2>1, <2>3, <4>1 DEF ReadsDisk, Readable, SavedOnes
      <4>3. QED BY <1>b, <1>1, <2>1, <2>3, <4>2 DEF Readable
    <3>2. QED BY <1>b, <2>1, <2>3, <3>1, SteadyParity, SteadyReadable DEF ReadsDisk
  <2>4. QED BY <1>4, <2>2, <2>3 DEF LoadDataFile
<1>5. CASE StoreFileData
  <2>1. /\ UNCHANGED <<disk, parityData, shardByteCount>> /\ pc = "files"
        /\ i \notin DOMAIN entries
    BY <1>5 DEF StoreFileData, fileVars
  <2>2. CASE Return("noFileData") /\ UNCHANGED <<fileData, touched>>
    BY <1>b, <2>1, <2>2, ReturnReads DEF Return
  <2>3. CASE /\ loading # <<>> /\ Return("filesLoaded") /\ fileData' = loading
             /\ touched' = [touched EXCEPT !.now = touched.load]
    <3>1. Readable(Len(entries) + 1)
      <4>1. \A n \in SavedOnes : n < i
        BY <1>a, <1>2, <2>1, EntryFacts DEF SavedOnes
      <4>2. QED BY <1>b, <2>1, <4>1 DEF ReadsDisk, Readable
    <3>2. touched'.now = {} /\ pc' = "idle" /\ result' = "filesLoaded"
      BY <1>b, <1>2, <2>1, <2>3 DEF ReadsDisk, Return
    <3>3. QED BY <1>b, <2>1, <2>3, <3>1, <3>2, SteadyParity, SteadyReadable DEF ReadsDisk
  <2>4. QED BY <1>5, <2>2, <2>3 DEF StoreFileData
<1>6. CASE LoadParityData
  <2>1. /\ UNCHANGED <<disk, fileData, parityData, shardByteCount, touched>> /\ pc = "idle"
        /\ pc' = "volumes" /\ result' = "pending" /\ i' = i /\ found' = found
    BY <1>6 DEF LoadParityData, fileVars, decoderVars, localVars
  <2>2. i' = 1 /\ found' = {}
    BY <1>a, <2>1 DEF Counted, Modes
  <2>3. cmd # "library" => fileData # <<>>
    <3>1. cmd # "library" => result = "filesLoaded"
      BY <1>6, <2>1, StepKinds
      DEF LoadParity, LoadFileData, Repair, RepairFails, RepairPanics, VerifyAllData, Return,
          Die, LoadDataFile, StoreFileData, LoadVolume, StoreParityData, SkipFile,
          SlicePanics, HashMismatch, OpenFile, FinishWrite, EndRepair
    <3>2. QED BY <1>b, <3>1 DEF ReadsDisk
  <2>4. Legible(i)' /\ found' = {v \in WholeOnes' : v < i'}
    <3>1. \A v \in 1 .. VolumeCount : ~(v < 1)
      BY <1>a, VolumeCountType
    <3>2. QED BY <1>1, <2>2, <3>1 DEF Legible, WholeOnes
  <2>5. QED BY <1>b, <2>1, <2>3, <2>4, SteadyParity, SteadyReadable DEF ReadsDisk
<1>7. CASE LoadVolume
  <2>1. /\ UNCHANGED <<disk, fileData, parityData, shardByteCount, touched>> /\ pc = "volumes"
        /\ i <= VolumeCount
    BY <1>7 DEF LoadVolume, fileVars, decoderVars
  <2>2. CASE Return("parityError")
    BY <1>b, <2>1, <2>2, ReturnReads DEF Return
  <2>3. CASE /\ volumes[i] # "bad" /\ i' = i + 1 /\ UNCHANGED <<pc, result>>
             /\ found' = IF volumes[i] = "whole" THEN found \cup {i} ELSE found
    <3>1. \A v \in 1 .. VolumeCount : v < i + 1 <=> v < i \/ v = i
      BY <1>a, <1>2, VolumeCountType
    <3>2. i \in 1 .. VolumeCount
      BY <1>a, <1>2, <2>1, VolumeCountType
    <3>3. Legible(i) /\ found = {v \in WholeOnes : v < i}
      BY <1>b, <2>1 DEF ReadsDisk
    <3>4. Legible(i)'
      BY <1>b, <1>1, <2>3, <3>1, <3>3 DEF Legible
    <3>5. found' = {v \in WholeOnes : v < i + 1}
      BY <2>3, <3>1, <3>2, <3>3 DEF WholeOnes
    <3>6. QED
      BY <1>b, <1>1, <2>1, <2>3, <3>4, <3>5, SteadyParity, SteadyReadable DEF ReadsDisk
  <2>4. QED BY <1>7, <2>2, <2>3 DEF LoadVolume
<1>8. CASE StoreParityData
  <2>1. UNCHANGED disk /\ pc = "volumes" /\ i > VolumeCount
    BY <1>8 DEF StoreParityData, fileVars
  <2>2. CASE Die("panic")
    BY <1>b, <2>2, DieReads
  <2>3. CASE /\ VolumeCount > 0 /\ UNCHANGED <<fileData, touched>> /\ Return("parityLoaded")
             /\ parityData' = [v \in 1 .. ParityLength |-> v \in found]
             /\ shardByteCount' = IF found = {} THEN 0 ELSE ParityByteCount
    <3>1. \A v \in 1 .. VolumeCount : v < i /\ v < VolumeCount + 1
      BY <1>a, <1>2, <2>1, VolumeCountType
    <3>2. found = WholeOnes /\ Legible(VolumeCount + 1)
      BY <1>b, <2>1, <3>1 DEF ReadsDisk, Legible, WholeOnes
    <3>3. AllParity' /\ parityData' # <<>>
      BY <1>a, <1>b, <2>3, <3>2, ParityOfDisk
    <3>4. pc' = "idle" /\ result' = "parityLoaded"
      BY <2>3 DEF Return
    <3>5. QED BY <1>b, <2>1, <2>3, <3>3, <3>4, SteadyReadable DEF ReadsDisk
  <2>4. QED BY <1>8, <2>2, <2>3 DEF StoreParityData
<1>9. CASE Repair
  <2>1. /\ UNCHANGED <<disk, fileData, parityData, shardByteCount, touched>>
        /\ pc' = "repair" /\ result' = "pending" /\ parityData # <<>>
    BY <1>9 DEF Repair, RepairError, fileVars, decoderVars
  <2>2. QED BY <1>b, <2>1, SteadyParity, SteadyReadable DEF ReadsDisk
<1>10. CASE RepairFails
  <2>1. UNCHANGED <<disk, fileData, parityData, shardByteCount, touched>> /\ pc = "idle"
        /\ Return(RepairError)
    BY <1>10 DEF RepairFails, fileVars, decoderVars
  <2>2. pc' # "none"
    BY <2>1 DEF Return
  <2>3. QED BY <1>b, <2>1, <2>2, ReturnReads, RepairErrorType
<1>11. CASE RepairPanics \/ SlicePanics
  BY <1>b, <1>11, DieReads DEF RepairPanics, SlicePanics
<1>12. CASE VerifyAllData
  <2>1. CASE Die("panic")
    BY <1>b, <2>1, DieReads
  <2>2. ASSUME NEW outcome \in {"noShardCount", "tooManyShards", "verifyError", "allDataOk"},
               Return(outcome), UNCHANGED <<decoderVars, touched>>,
               outcome = "allDataOk" => /\ UnusableData = {} /\ RepairError # "noShardCount"
        PROVE  ReadsDisk'
    <3>1. /\ UNCHANGED <<disk, fileData, parityData, shardByteCount, touched>> /\ pc' # "none"
          /\ outcome = "allDataOk" => fileData # <<>> /\ parityData # <<>>
      BY <1>12, <2>2 DEF VerifyAllData, fileVars, decoderVars, Return, RepairError
    <3>2. QED BY <1>b, <2>2, <3>1, ReturnReads
  <2>3. QED BY <1>12, <2>1, <2>2 DEF VerifyAllData
<1>13. CASE SkipFile
  <2>1. UNCHANGED <<disk, fileData, parityData, shardByteCount, touched, pc, result>>
        /\ pc = "repair"
    BY <1>13 DEF SkipFile, fileVars, decoderVars
  <2>2. QED BY <1>b, <2>1, SteadyParity, SteadyReadable DEF ReadsDisk
<1>14. CASE HashMismatch \/ EndRepair
  <2>1. UNCHANGED <<disk, fileData, parityData, shardByteCount, touched>> /\ pc = "repair"
        /\ (Return("hashMismatch") \/ Return("repaired"))
    BY <1>14 DEF HashMismatch, EndRepair, fileVars, decoderVars
  <2>2. pc' # "none"
    BY <2>1 DEF Return
  <2>3. QED BY <1>b, <2>1, <2>2, ReturnReads
<1>15. CASE OpenFile \/ FinishWrite
  <2>1. /\ UNCHANGED <<parityData, shardByteCount, result>> /\ pc \in {"repair", "writing"}
        /\ pc' \in {"repair", "writing"} /\ fileData # <<>>
        /\ touched.now = {} => touched'.now = {}
    <3>1. CASE OpenFile
      BY <3>1 DEF OpenFile, decoderVars, UnusableData
    <3>2. CASE FinishWrite
      <4>1. pc = "writing" /\ WriteInProgress
        BY <1>a, <3>2 DEF FinishWrite, Inv, TypeInv
      <4>2. fileData # <<>>
        BY <4>1 DEF WriteInProgress, UnusableData
      <4>3. QED BY <1>2, <3>2, <4>2 DEF FinishWrite
    <3>3. QED BY <1>15, <3>1, <3>2
  <2>2. touched.now = {} /\ touched'.now = {} /\ Readable(Len(entries) + 1)
    BY <1>b, <2>1 DEF ReadsDisk
  <2>3. \A p \in Paths : disk'[p] = Unreadable => disk[p] = Unreadable
    BY <1>a, <1>b, <1>15, <2>2, StepHarmless DEF OwnStep, RepairStep
  <2>4. Readable(Len(entries) + 1)'
    <3>1. \A n \in SavedOnes : entries[n].path \in Paths
      BY <1>a, EntryFacts DEF SavedOnes
    <3>2. QED BY <1>b, <1>1, <2>2, <2>3, <3>1 DEF Readable
  <2>5. QED BY <1>b, <2>1, <2>2, <2>4, SteadyParity DEF ReadsDisk
<1>16. QED
  BY <1>3, <1>4, <1>5, <1>6, <1>7, <1>8, <1>9, <1>10, <1>11, <1>12, <1>13, <1>14, <1>15,
     StepKinds

LEMMA BeginReadsDisk ==
  ASSUME CommandInv, Modes, index = "ok",
         NEW c \in {"verify", "verifyAll", "repair", "library"}, Begin(c)
  PROVE  ReadsDisk'
BY DEF CommandInv, Begin, NewDecoder, fileVars, decoderVars, NoDecoder, Modes, ReadsDisk

LEMMA LeavingReadsDisk == ReadsDisk /\ (Exit \/ Leave) => ReadsDisk'
<1> SUFFICES ASSUME ReadsDisk, Exit \/ Leave PROVE ReadsDisk'
  OBVIOUS
<1>1. Die("none") /\ UNCHANGED index
  BY DEF Exit, Leave, fileVars
<1>2. QED BY <1>1, DieReads

LEMMA StepReads ==
  ASSUME CommandInv, Regular, Modes, Reads, CommandNext
  PROVE  Reads'
<1> SUFFICES ASSUME Watched' PROVE ReadsDisk'
  BY DEF Reads
<1>1. ASSUME NEW c \in {"verify", "verifyAll", "repair", "library"}, Begin(c) PROVE ReadsDisk'
  <2>1. CASE index = "ok"
    BY <1>1, <2>1, BeginReadsDisk
  <2>2. CASE index # "ok"
    <3>1. cmd' = "none" /\ verdict' = IF c \in Verifies THEN "pending" ELSE verdict
      BY <1>1, <2>2 DEF Begin, NewDecoder
    <3>2. Watched
      BY <3>1 DEF Watched, Verifies
    <3>3. QED BY <2>2, <3>2 DEF Reads, ReadsDisk
  <2>3. QED BY <2>1, <2>2
<1>2. CASE Exit \/ Leave
  <2>1. verdict' = "repairPossible"
    BY <1>2 DEF Watched, Verifies, Exit, Leave
  <2>2. Watched
    <3>1. CASE Exit
      BY <2>1, <3>1 DEF Exit, Ended, RepairCode, Watched, Verifies
    <3>2. CASE Leave
      BY <2>1, <3>2 DEF Leave, Watched
    <3>3. QED BY <1>2, <3>1, <3>2
  <2>3. QED BY <1>2, <2>2, LeavingReadsDisk DEF Reads
<1>3. CASE Step
  <2>1. Watched
    BY <1>3, StepKinds DEF Watched, Verifies
  <2>2. QED BY <1>3, <2>1, StepReadsDisk DEF Reads
<1>4. verdict' # "none"
  BY DEF Watched
<1>5. QED BY <1>1, <1>2, <1>3, <1>4, PromiseSteps

\* While a repair is possible, there is something to repair with.
LEMMA SomethingSaved ==
  ASSUME TypeOK, Modes, WholeOnes # {}
  PROVE  /\ VolumeCount > 0
         /\ ParityByteCount > 0
         /\ SavedOnes # {}
         /\ \A v \in WholeOnes : Cardinality(SavedOnes) + v <= ShardLimit
<1>1. VolumeCount \in Nat /\ VolumeCount <= VolumeLimit
  BY VolumeCountType, EntryFacts, LimitAssumption DEF VolumeCount
<1>2. \A v \in WholeOnes : v \in Created
  BY <1>1, LimitAssumption DEF Modes, WholeOnes
<1>3. VolumeCount > 0
  BY <1>1 DEF WholeOnes
<1>4. ParityByteCount > 0
  BY <1>2 DEF Created
<1>5. ASSUME SavedOnes = {} PROVE FALSE
  <2>1. {0} \cup {Len(Original[entries[n].path]) : n \in SavedOnes} = {0}
    BY <1>5
  <2>2. ParityByteCount = 0
    BY <2>1 DEF ParityByteCount
  <2>3. QED BY <1>4, <2>2
<1>6. QED BY <1>2, <1>3, <1>4, <1>5 DEF Created

\* A shard that is as long as the longest file is reconstructed into the file of the
\* entry with its number.
LEMMA ShardFits ==
  ASSUME TypeOK, Aligned, NEW n \in SavedOnes, shardByteCount = ParityByteCount
  PROVE  HashesMatch(n)
<1> DEFINE bytes == Original[entries[n].path]
<1>1. /\ \A k \in SavedOnes : k \in DOMAIN entries /\ entries[k].saved /\ k \in Nat
      /\ \A k \in SavedOnes : {m \in SavedOnes : m <= k} = Saved(k)
  BY EntryFacts DEF SavedOnes, Saved
<1>2. \A k \in SavedOnes : Cardinality({m \in SavedOnes : m <= k}) = k
  BY <1>1, AlignedCount
<1>3. SavedEntry(n) = entries[n]
  <2>1. (CHOOSE k \in SavedOnes : Cardinality({m \in SavedOnes : m <= k}) = n) = n
    BY <1>2
  <2>2. QED BY <2>1 DEF SavedEntry
<1>4. bytes \in Seq(Byte) /\ Len(bytes) \in Nat /\ Len(bytes) <= shardByteCount
  BY <1>1, LengthType, EntryFacts, OriginalFacts
<1>5. Shard(n) = [k \in 1 .. shardByteCount |-> IF k <= Len(bytes) THEN bytes[k] ELSE 0]
  BY <1>3 DEF Shard
<1> HIDE DEF bytes
<1>6. SubSeq(Shard(n), 1, Len(bytes)) = bytes
  <2>1. shardByteCount \in Nat
    BY DEF TypeOK
  <2>2. Shard(n) \in Seq(Byte)
    <3>1. \A k \in 1 .. shardByteCount : (IF k <= Len(bytes) THEN bytes[k] ELSE 0) \in Byte
      BY <1>4, <2>1, OriginalAssumption
    <3>2. Shard(n) \in [1 .. shardByteCount -> Byte]
      BY <1>5, <3>1
    <3>3. QED BY <2>1, <3>2
  <2>3. Len(Shard(n)) = shardByteCount
    BY <1>5, <2>1, <2>2
  <2>4. /\ SubSeq(Shard(n), 1, Len(bytes)) \in Seq(Byte)
        /\ Len(SubSeq(Shard(n), 1, Len(bytes))) = Len(bytes)
        /\ \A k \in 1 .. Len(bytes) : SubSeq(Shard(n), 1, Len(bytes))[k] = Shard(n)[k]
    BY <1>4, <2>1, <2>2, <2>3
  <2>5. \A k \in 1 .. Len(bytes) : Shard(n)[k] = bytes[k]
    BY <1>4, <1>5, <2>1
  <2>6. QED BY <1>4, <2>4, <2>5
<1>7. QED BY <1>4, <1>6 DEF HashesMatch, Assembled, EntryOf, bytes

\* A repair that follows the promise can only end with a singular matrix.
LEMMA RepairOnCourse ==
  ASSUME Inv, Regular, Modes, Recoverable, AllParity, pc = "idle",
         fileData # <<>>, parityData # <<>>, touched.now = {}
  PROVE  /\ RepairError = "none" \/ (RepairError = "singular" /\ SingularDamage)
         /\ shardByteCount # 0
<1>0. TypeOK /\ Known /\ WholeOnes # {}
  BY DEF Inv, TypeInv, IndInv, Recoverable
<1>1. UnusableData = Damaged /\ DOMAIN fileData = SavedOnes
  BY DataOfDisk
<1>2. UsableParity = WholeOnes /\ Len(parityData) \in WholeOnes /\ shardByteCount = ParityByteCount
  BY <1>0 DEF AllParity
<1>3. ~(Len(fileData) + Len(parityData) > ShardLimit)
  <2>1. Len(fileData) = Cardinality(SavedOnes) /\ Len(fileData) \in Nat
    BY <1>0, Elements DEF TypeOK
  <2>2. Len(parityData) \in Nat
    BY <1>0, Elements DEF TypeOK
  <2>3. Len(fileData) + Len(parityData) <= ShardLimit
    BY <1>0, <1>2, <2>1, SomethingSaved
  <2>4. QED BY <2>1, <2>2, <2>3, LimitAssumption
<1>4. ~BuildShardsPanics
  <2>1. ASSUME NEW n \in UsableData PROVE ~(Len(fileData[n]) > shardByteCount)
    <3>1. n \in SavedOnes /\ fileData[n] = Original[entries[n].path]
      BY <1>0, <1>1 DEF UsableData, Known, KnownFile
    <3>2. Len(Original[entries[n].path]) <= ParityByteCount /\ ParityByteCount \in Nat
      BY <1>0, <3>1, LengthType
    <3>3. Len(Original[entries[n].path]) \in Nat
      BY <1>0, <3>1, EntryFacts, OriginalFacts DEF SavedOnes
    <3>4. QED BY <1>2, <3>1, <3>2, <3>3
  <2>2. QED BY <2>1 DEF BuildShardsPanics
<1>5. shardByteCount # 0
  BY <1>0, <1>2, LengthType, SomethingSaved
<1>6. RepairPossible
  BY <1>0, <1>1, <1>2, DamagedFinite DEF RepairPossible, Recoverable
<1>7. UsedParity = {v \in WholeOnes :
                      Cardinality({w \in WholeOnes : w < v}) < Cardinality(Damaged)}
  BY <1>1, <1>2 DEF UsedParity
<1>8. <<UnusableData, UsedParity>> \in Singular => SingularDamage
  BY <1>1, <1>7 DEF SingularDamage
<1>9. QED BY <1>3, <1>4, <1>5, <1>6, <1>8 DEF RepairError
\* A step that leaves the files alone, and does not end a repair.
LEMMA QuietKeeps ==
  ASSUME TypeOK, Recoverable, UNCHANGED <<disk, volumes, index, entries>>
  PROVE  Recoverable' /\ (AllOriginal' <=> AllOriginal) /\ (SingularDamage' <=> SingularDamage)
<1>1. Recoverable'
  BY KeepsRecoverable
<1>2. Damaged' = Damaged /\ WholeOnes' = WholeOnes
  BY SteadySaved, SteadyEntries DEF Damaged, WholeOnes
<1>3. QED BY <1>1, <1>2 DEF AllOriginal, SingularDamage

\* What the decoder counts of a set that nothing stops is what is left of it.
LEMMA CountsOfDisk ==
  ASSUME Inv, Regular, ReadsDisk, fileData # <<>>, parityData # <<>>, pc # "writing"
  PROVE  /\ UnusableData = Damaged /\ UsableParity = WholeOnes
         /\ RepairPossible <=> Cardinality(Damaged) <= Cardinality(WholeOnes)
<1>1. UnusableData = Damaged /\ UsableParity = WholeOnes
  BY DataOfDisk DEF ReadsDisk, AllParity
<1>2. Cardinality(Damaged) \in Nat /\ Cardinality(WholeOnes) \in Nat
  BY DamagedFinite DEF Inv, TypeInv
<1>3. QED BY <1>1, <1>2 DEF RepairPossible

\* The promise is made when verify ends, ...
LEMMA VerifyPromises ==
  ASSUME Inv, Regular, Modes, Reads, Exit, verdict # "repairPossible",
         verdict' = "repairPossible"
  PROVE  Keeps'
<1>0. TypeOK
  BY DEF Inv, TypeInv
<1>1. /\ pc = "idle" /\ pc' = "none" /\ cmd' = "none" /\ result \notin {"none", "filesLoaded"}
      /\ UNCHANGED <<disk, volumes, index, entries>>
      /\ exit' = [cmd |-> cmd, code |-> IF cmd = "repair" THEN RepairCode ELSE VerifyCode]
  BY DEF Exit, Ended, Die, fileVars
<1>2. cmd \in Verifies /\ VerifyCode = "repairPossible" /\ Watched
  BY <1>1 DEF Exit, Ended, RepairCode, Verifies, Watched
<1>3. ReadsDisk /\ cmd # "library"
  BY <1>2 DEF Reads, Verifies
<1>4. result = "parityLoaded" /\ RepairNeeded /\ RepairPossible
  BY <1>2, <1>3 DEF VerifyCode, ReadsDisk, RepairNeeded
<1>5. /\ fileData # <<>> /\ parityData # <<>> /\ AllParity
      /\ Readable(Len(entries) + 1) /\ index = "ok"
  BY <1>3, <1>4 DEF ReadsDisk
<1>6. Damaged # {} /\ Cardinality(Damaged) <= Cardinality(WholeOnes)
  BY <1>1, <1>3, <1>4, <1>5, CountsOfDisk DEF RepairNeeded
<1>7. WholeOnes # {}
  BY <1>0, <1>6, DamagedFinite, FS_EmptySet
<1>8. \A n \in SavedOnes : disk[entries[n].path] # Unreadable
  <2>1. \A n \in SavedOnes : n < Len(entries) + 1
    BY <1>0, EntryFacts DEF SavedOnes
  <2>2. QED BY <1>5, <2>1 DEF Readable
<1>9. \A v \in 1 .. VolumeCount : volumes[v] # "bad"
  <2>1. \A v \in 1 .. VolumeCount : v < VolumeCount + 1
    BY <1>0, VolumeCountType
  <2>2. QED BY <1>5, <2>1 DEF AllParity, Legible
<1>10. Recoverable
  BY <1>5, <1>6, <1>7, <1>8, <1>9 DEF Recoverable
<1>11. exit'.cmd # "repair"
  BY <1>1, <1>2 DEF Verifies
<1>12. QED BY <1>0, <1>1, <1>10, <1>11, QuietKeeps DEF Keeps, Mending, Verifies

\* ... no step of a command that follows leads it astray, ...
LEMMA CommandGoesOn ==
  ASSUME Inv, Opened, Regular, Modes, ReadsDisk, Mending, Step, cmd # "library"
  PROVE  pc' # "none" /\ OnCourse'
<1>0. TypeOK /\ Counted /\ WriteInProgress
  BY DEF Inv, TypeInv
<1>1. Recoverable /\ OnCourse /\ WholeOnes # {}
  BY StepKinds DEF Mending, Recoverable
<1>2. UNCHANGED <<volumes, index, entries>> /\ pc # "none" /\ (pc' # "none" => cmd' = cmd)
  BY StepKinds
<1>3. pc # "idle" => result \in {"none", "pending"}
  BY <1>1 DEF ReadsDisk, OnCourse
<1>4. CASE LoadFileData \/ LoadParityData
  BY <1>4 DEF LoadFileData, LoadParityData, OnCourse
<1>5. CASE LoadDataFile
  <2>1. pc = "files" /\ i \in DOMAIN entries
    BY <1>5 DEF LoadDataFile
  <2>2. ~(entries[i].saved /\ disk[entries[i].path] = Unreadable)
    BY <1>1, <2>1 DEF Recoverable, SavedOnes
  <2>3. UNCHANGED <<pc, result>>
    BY <1>5, <2>2 DEF LoadDataFile
  <2>4. QED BY <1>3, <2>1, <2>3 DEF OnCourse
<1>6. CASE StoreFileData
  <2>1. pc = "files" /\ i \notin DOMAIN entries
    BY <1>6 DEF StoreFileData
  <2>2. loading # <<>>
    <3>1. i - 1 = Len(entries)
      BY <1>0, <2>1, EntryFacts DEF Counted, TypeOK
    <3>2. Len(loading) = Cardinality(SavedOnes) /\ SavedOnes = Saved(Len(entries))
      BY <1>0, <2>1, <3>1, EntryFacts DEF Counted, Saved, SavedOnes
    <3>3. IsFiniteSet(SavedOnes) /\ SavedOnes # {}
      BY <1>0, <1>1, <3>2, EntryFacts, SavedCounts, SomethingSaved
    <3>4. Cardinality(SavedOnes) # 0
      BY <3>3, FS_EmptySet
    <3>5. QED BY <3>2, <3>4
  <2>3. pc' = "idle" /\ result' = "filesLoaded"
    BY <1>6, <2>2 DEF StoreFileData, Return
  <2>4. QED BY <2>3 DEF OnCourse
<1>7. CASE LoadVolume
  <2>1. pc = "volumes" /\ volumes[i] # "bad"
    BY <1>0, <1>1, <1>7, VolumeCountType DEF LoadVolume, Recoverable, TypeOK
  <2>2. UNCHANGED <<pc, result>>
    BY <1>7, <2>1 DEF LoadVolume
  <2>3. QED BY <1>3, <2>1, <2>2 DEF OnCourse
<1>8. CASE StoreParityData
  <2>1. VolumeCount > 0 /\ VolumeCount \in Nat
    BY <1>0, <1>1, SomethingSaved, VolumeCountType
  <2>2. pc' = "idle" /\ result' = "parityLoaded"
    BY <1>8, <2>1 DEF StoreParityData, Return
  <2>3. QED BY <2>2 DEF OnCourse
<1>9. CASE LastCall
  <2>1. pc = "idle" /\ result = "parityLoaded" /\ UNCHANGED disk
    BY <1>9 DEF LastCall, Repair, RepairFails, RepairPanics, VerifyAllData, fileVars
  <2>2. fileData # <<>> /\ parityData # <<>> /\ touched.now = {} /\ AllParity
    BY <2>1 DEF ReadsDisk
  <2>3. /\ RepairError = "none" \/ (RepairError = "singular" /\ SingularDamage)
        /\ shardByteCount # 0
    BY <1>1, <2>1, <2>2, RepairOnCourse
  <2>4. SingularDamage' <=> SingularDamage
    BY <1>0, <1>1, <1>2, <2>1, QuietKeeps
  <2>5. CASE cmd = "repair" /\ (Repair \/ RepairFails \/ RepairPanics)
    <3>1. \/ pc' = "repair" /\ result' = "pending"
          \/ pc' = "idle" /\ result' = "singular" /\ SingularDamage'
      BY <2>3, <2>4, <2>5 DEF Repair, RepairFails, RepairPanics, Return
    <3>2. QED BY <1>2, <2>5, <3>1 DEF OnCourse
  <2>6. CASE cmd = "verifyAll" /\ AllFilesUsable /\ VerifyAllData
    <3>1. pc' = "idle" /\ result' = "allDataOk"
      BY <2>3, <2>6 DEF AllFilesUsable, VerifyAllData, Return
    <3>2. QED BY <1>2, <2>6, <3>1 DEF OnCourse
  <2>7. QED BY <1>9, <2>5, <2>6 DEF LastCall
<1>10. CASE SkipFile \/ OpenFile \/ FinishWrite
  <2>1. pc \in {"repair", "writing"} /\ pc' \in {"repair", "writing"} /\ result' = result
    BY <1>10 DEF SkipFile, OpenFile, FinishWrite
  <2>2. QED BY <1>3, <2>1 DEF OnCourse
<1>11. CASE SlicePanics \/ HashMismatch
  <2>1. pc = "repair" /\ i \in DOMAIN fileData /\ (~HashesMatch(i) \/ SlicePanics)
    BY <1>11 DEF SlicePanics, HashMismatch, UnusableData
  <2>2. fileData # <<>> /\ shardByteCount = ParityByteCount
    BY <1>0, <1>1, <2>1, ShardIndex DEF ReadsDisk, AllParity
  <2>3. HashesMatch(i)
    <3>1. i \in SavedOnes
      BY <2>1, <2>2, DataOfDisk
    <3>2. QED BY <1>0, <2>2, <3>1, ShardFits DEF Regular
  <2>4. shardByteCount \in Nat /\ Len(Original[EntryOf(i).path]) \in Nat
    BY <1>0, <2>1, ShardIndex, EntryFacts, OriginalFacts DEF EntryOf, TypeOK
  <2>5. QED BY <2>1, <2>3, <2>4 DEF SlicePanics, HashesMatch
<1>12. CASE EndRepair
  <2>1. pc = "repair" /\ pc' = "idle" /\ result' = "repaired"
    BY <1>12 DEF EndRepair, Return
  <2>2. cmd = "repair"
    BY <2>1 DEF Modes
  <2>3. QED BY <1>2, <2>1, <2>2 DEF OnCourse
<1>13. CASE cmd # "library" /\ (LoadFiles \/ LoadParity \/ LastCall)
  BY <1>4, <1>9, <1>13 DEF LoadFiles, LoadParity
<1>14. QED
  BY <1>5, <1>6, <1>7, <1>8, <1>10, <1>11, <1>12, <1>13 DEF Step, LoadStep, RepairStep

LEMMA StepMends ==
  ASSUME Inv, Opened, Regular, Modes, ReadsDisk, Mending, Step
  PROVE  /\ Mending' /\ (cmd # "library" => pc' # "none")
         /\ AllOriginal => AllOriginal'
<1>0. TypeOK
  BY DEF Inv, TypeInv
<1>1. /\ cmd # "none" /\ UNCHANGED <<volumes, index, entries>>
      /\ pc' # "none" => cmd' = cmd
      /\ pc' = "none" => cmd' = "none"
  BY StepKinds
<1>2. OwnStep
  BY DEF Step, LoadFiles, LoadParity, LastCall, OwnStep, Call
<1>3. \A p \in Paths : /\ disk'[p] # Original[p] => disk[p] # Original[p]
                       /\ disk'[p] = Unreadable => disk[p] = Unreadable
  BY <1>2, StepHarmless DEF ReadsDisk
<1>4. Recoverable'
  BY <1>0, <1>1, <1>3, KeepsRecoverable DEF Mending
<1>5. AllOriginal => AllOriginal'
  <2>1. SavedOnes' = SavedOnes /\ \A n \in SavedOnes : entries[n].path \in Paths
    BY <1>0, <1>1, SteadySaved, EntryFacts DEF SavedOnes
  <2>2. Damaged' \subseteq Damaged
    BY <1>1, <1>3, <2>1 DEF Damaged
  <2>3. QED BY <2>2 DEF AllOriginal
<1>6. cmd # "library" => pc' # "none" /\ OnCourse'
  BY CommandGoesOn
<1>7. Mending'
  BY <1>1, <1>4, <1>6 DEF Mending
<1>8. QED BY <1>5, <1>6, <1>7

LEMMA BeginMends ==
  ASSUME TypeOK, Recoverable, NEW c \in {"verify", "verifyAll", "repair", "library"}, Begin(c)
  PROVE  /\ Mending' /\ (AllOriginal => AllOriginal')
         /\ cmd' = c /\ exit' = NoExit
<1>1. /\ pc' = "idle" /\ result' = "none" /\ cmd' = c /\ exit' = NoExit
      /\ UNCHANGED <<disk, volumes, index, entries>>
  BY DEF Begin, NewDecoder, fileVars, Recoverable
<1>2. QED BY <1>1, QuietKeeps DEF Mending, OnCourse

LEMMA LeaveMends ==
  ASSUME TypeOK, Mending, Leave
  PROVE  /\ Mending' /\ (AllOriginal => AllOriginal') /\ (SingularDamage' <=> SingularDamage)
         /\ cmd = "library" /\ cmd' = "none" /\ pc = "idle" /\ pc' = "none"
         /\ UNCHANGED <<exit, verdict>>
<1>1. /\ pc = "idle" /\ pc' = "none" /\ cmd = "library" /\ cmd' = "none"
      /\ UNCHANGED <<disk, volumes, index, entries, exit, verdict>>
  BY DEF Leave, Die, fileVars
<1>2. QED BY <1>1, QuietKeeps DEF Mending

\* ... and at its end, a repair has restored all files, and a verify has seen how many
\* there are to restore.
LEMMA ExitMends ==
  ASSUME Inv, Regular, Modes, ReadsDisk, Mending, Exit
  PROVE  /\ Mending' /\ (AllOriginal => AllOriginal') /\ cmd' = "none" /\ pc' = "none"
         /\ cmd = "repair" =>
              \/ exit' = [cmd |-> "repair", code |-> "success"] /\ AllOriginal'
              \/ SingularDamage'
         /\ cmd \in Verifies =>
              exit'.code = IF AllOriginal THEN "success" ELSE "repairPossible"
<1>0. TypeOK /\ Known /\ Finished
  BY DEF Inv, TypeInv, IndInv
<1>1. /\ pc = "idle" /\ pc' = "none" /\ cmd' = "none" /\ result \notin {"none", "filesLoaded"}
      /\ cmd \in {"verify", "verifyAll", "repair"}
      /\ cmd = "repair" => result # "parityLoaded"
      /\ UNCHANGED <<disk, volumes, index, entries>>
      /\ exit' = [cmd |-> cmd, code |-> IF cmd = "repair" THEN RepairCode ELSE VerifyCode]
  BY DEF Exit, Ended, Die, fileVars
<1>2. Recoverable /\ OnCourse /\ result # "pending"
  BY <1>1 DEF Mending, ReadsDisk
<1>3. Mending' /\ (AllOriginal' <=> AllOriginal) /\ (SingularDamage' <=> SingularDamage)
  BY <1>0, <1>1, <1>2, QuietKeeps DEF Mending
<1>4. ASSUME cmd = "repair", ~SingularDamage
      PROVE  exit' = [cmd |-> "repair", code |-> "success"] /\ AllOriginal
  <2>1. result = "repaired"
    BY <1>1, <1>2, <1>4 DEF OnCourse
  <2>2. fileData # <<>> /\ touched.now = {} /\ UnusableData = {}
    BY <1>0, <2>1 DEF Finished, ReadsDisk, UnusableData
  <2>3. AllOriginal
    BY <1>1, <2>2, DataOfDisk DEF AllOriginal
  <2>4. QED BY <1>1, <1>4, <2>1, <2>3 DEF RepairCode
<1>5. ASSUME cmd \in Verifies
      PROVE  VerifyCode = IF AllOriginal THEN "success" ELSE "repairPossible"
  <2>1. result \in {"parityLoaded", "allDataOk"} /\ cmd # "library"
    BY <1>1, <1>2, <1>5 DEF OnCourse, Verifies
  <2>2. UnusableData = Damaged /\ RepairPossible
    BY <1>1, <1>2, <2>1, CountsOfDisk DEF ReadsDisk, Recoverable
  <2>3. QED BY <2>1, <2>2 DEF VerifyCode, RepairNeeded, AllOriginal
<1>6. cmd \in Verifies => cmd # "repair"
  BY DEF Verifies
<1>7. QED BY <1>1, <1>3, <1>4, <1>5, <1>6

LEMMA StepKeeps ==
  ASSUME CommandInv, Regular, Modes, Reads, Keeps, CommandNext
  PROVE  Keeps'
<1> SUFFICES ASSUME verdict' = "repairPossible" PROVE Keeps'
  BY DEF Keeps
<1>0. Inv /\ Opened /\ TypeOK
  BY DEF CommandInv, Inv, TypeInv
<1>1. ASSUME verdict = "repairPossible"
      PROVE  /\ ReadsDisk /\ cmd \notin Verifies /\ Mending /\ Recoverable
             /\ exit.cmd = "repair" => /\ (exit.code = "success" /\ AllOriginal) \/ SingularDamage
                                       /\ pc = "none"
  BY <1>1 DEF Reads, Watched, Keeps, Mending
<1>2. ASSUME NEW c \in {"verify", "verifyAll", "repair", "library"}, Begin(c) PROVE Keeps'
  <2>1. verdict = "repairPossible" /\ c \notin Verifies
    BY <1>2 DEF Begin
  <2>2. QED BY <1>0, <1>1, <1>2, <2>1, BeginMends DEF Keeps, NoExit
<1>3. CASE Exit
  <2>1. CASE verdict = "repairPossible"
    <3>1. cmd = "repair"
      BY <1>1, <1>3, <2>1 DEF Exit, Ended, Verifies
    <3>2. /\ Mending' /\ cmd' = "none" /\ pc' = "none"
          /\ \/ exit' = [cmd |-> "repair", code |-> "success"] /\ AllOriginal'
             \/ SingularDamage'
      BY <1>0, <1>1, <1>3, <2>1, <3>1, ExitMends
    <3>3. QED BY <3>2 DEF Keeps, Verifies
  <2>2. CASE verdict # "repairPossible"
    BY <1>0, <1>3, <2>2, VerifyPromises
  <2>3. QED BY <2>1, <2>2
<1>4. CASE Leave
  <2>1. verdict = "repairPossible"
    BY <1>4 DEF Leave
  <2>2. /\ Mending' /\ cmd' = "none" /\ pc = "idle" /\ exit' = exit
    BY <1>0, <1>1, <1>4, <2>1, LeaveMends
  <2>3. QED BY <1>1, <2>1, <2>2 DEF Keeps, Verifies
<1>5. CASE Step
  <2>1. /\ verdict = "repairPossible" /\ pc # "none"
        /\ pc' # "none" => UNCHANGED <<cmd, exit>>
        /\ pc' = "none" => cmd' = "none" /\ exit' = [cmd |-> cmd, code |-> "panic"]
    BY <1>5, StepKinds
  <2>2. Mending' /\ (cmd # "library" => pc' # "none")
    BY <1>0, <1>1, <1>5, <2>1, StepMends
  <2>3. QED BY <1>1, <2>1, <2>2 DEF Keeps, Verifies
<1>6. QED BY <1>2, <1>3, <1>4, <1>5, PromiseSteps

LEMMA StutterMends ==
  ASSUME CommandInv, Modes, UNCHANGED commandVars
  PROVE  /\ Modes' /\ (Regular' <=> Regular)
         /\ ReadsDisk => ReadsDisk'
         /\ Mending => Mending'
<1> USE DEF commandVars, vars, fileVars, decoderVars, localVars
<1>1. TypeOK /\ (Regular' <=> Regular)
  BY RegularStep DEF CommandInv, Inv, TypeInv
<1>2. Modes'
  BY <1>1, SteadyCreated DEF Modes
<1>3. SavedOnes' = SavedOnes /\ VolumeCount' = VolumeCount /\ WholeOnes' = WholeOnes
      /\ UnusableData' = UnusableData
  BY SteadySaved, SteadyEntries DEF WholeOnes, UnusableData
<1>4. ASSUME ReadsDisk PROVE ReadsDisk'
  <2>1. (Readable(i)' <=> Readable(i)) /\ (Legible(i)' <=> Legible(i))
    BY <1>3 DEF Readable, Legible
  <2>2. QED
    BY <1>3, <1>4, <2>1, SteadyReadable, SteadyParity DEF ReadsDisk
<1>5. ASSUME Mending PROVE Mending'
  <2>1. Recoverable' /\ (SingularDamage' <=> SingularDamage)
    BY <1>1, <1>5, QuietKeeps DEF Mending
  <2>2. QED BY <1>5, <2>1 DEF Mending, OnCourse
<1>6. QED BY <1>1, <1>2, <1>4, <1>5

LEMMA StutterSettled ==
  ASSUME CommandInv, Settled, UNCHANGED commandVars
  PROVE  Settled'
<1>1. /\ Modes /\ Modes' /\ (Regular' <=> Regular)
      /\ ReadsDisk => ReadsDisk'
      /\ Mending => Mending'
  BY StutterMends DEF Settled
<1>2. UNCHANGED <<disk, volumes, index, entries, verdict, cmd, exit, pc>> /\ TypeOK
  BY DEF commandVars, vars, fileVars, CommandInv, Inv, TypeInv
<1>3. Reads => Reads'
  BY <1>1, <1>2 DEF Reads, Watched
<1>4. ASSUME Keeps PROVE Keeps'
  <2>1. verdict = "repairPossible" =>
          (AllOriginal' <=> AllOriginal) /\ (SingularDamage' <=> SingularDamage)
    BY <1>2, <1>4, QuietKeeps DEF Keeps, Mending
  <2>2. QED BY <1>1, <1>2, <1>4, <2>1 DEF Keeps
<1>5. QED BY <1>1, <1>3, <1>4 DEF Settled

\* For any set whose saved entries come first and have different paths: when verify
\* exits with "repair possible", every repair that runs before anything else goes
\* wrong, whatever other programs do with the decoder in between, exits with success and
\* leaves all files as they were, unless the matrix is singular.
THEOREM PromiseIsKept == CommandSpec => [](DistinctPaths => PromiseKept)
<1>1. CommandInv /\ Settled /\ CommandNext => Settled'
  <2> SUFFICES ASSUME CommandInv, Settled, CommandNext PROVE Settled'
    OBVIOUS
  <2>1. TypeOK /\ Modes /\ (Regular' <=> Regular) /\ (Regular => Reads /\ Keeps)
    BY StepIsClientStep, EntriesStay DEF CommandInv, Inv, TypeInv, Settled
  <2>2. Modes'
    BY <2>1, StepModes
  <2>3. Regular => Reads' /\ Keeps'
    BY <2>1, StepReads, StepKeeps
  <2>4. QED BY <2>1, <2>2, <2>3 DEF Settled
<1>2. CommandInv /\ Settled /\ UNCHANGED commandVars => Settled'
  BY StutterSettled
<1>3. Settled => (DistinctPaths => PromiseKept)
  BY DEF Settled, Keeps, PromiseKept, Regular
<1>4. QED BY <1>1, <1>2, <1>3, InitSettled, CommandInvariance, PTL DEF CommandSpec
-------------------------------------------------------------------------------
(* Once nothing else goes wrong.  The commands then do all that Converges asks *)
(* of them, step by step: what is left to fairness is that they take steps.    *)

\* Users of the commands and of the decoder, and nothing that gets in their way.
Undisturbed ==
  \/ \E c \in {"verify", "verifyAll", "repair", "library"} : Begin(c)
  \/ Step \/ Exit \/ Leave

\* Each repair that ends has succeeded and all files are as they were, unless the matrix is
\* singular; each verify that ends tells whether they are; and no file is lost.
Mends ==
  /\ cmd = "repair" /\ cmd' = "none" =>
       \/ exit' = [cmd |-> "repair", code |-> "success"] /\ AllOriginal'
       \/ SingularDamage'
  /\ cmd \in Verifies /\ cmd' = "none" =>
       exit'.code = IF AllOriginal THEN "success" ELSE "repairPossible"
  /\ AllOriginal => AllOriginal'
  /\ Recoverable'

\* What can be repaired before a command begins can be repaired by it.
LEMMA RecoverableMends ==
  ASSUME CommandInv, Modes, cmd = "none", Recoverable
  PROVE  ReadsDisk /\ Mending
BY DEF CommandInv, NoDecoder, Modes, Recoverable, ReadsDisk, Mending

LEMMA UndisturbedMends ==
  ASSUME CommandInv, Regular, Modes, ReadsDisk, Mending, Undisturbed
  PROVE  ReadsDisk' /\ Mending' /\ Mends
<1>0. Inv /\ Opened /\ TypeOK /\ Recoverable /\ index = "ok"
  BY DEF CommandInv, Inv, TypeInv, Mending, Recoverable
<1>1. ASSUME NEW c \in {"verify", "verifyAll", "repair", "library"}, Begin(c)
      PROVE  ReadsDisk' /\ Mending' /\ Mends
  <2>1. Mending' /\ (AllOriginal => AllOriginal') /\ cmd' = c
    BY <1>0, <1>1, BeginMends
  <2>2. ReadsDisk'
    BY <1>0, <1>1, BeginReadsDisk
  <2>3. QED BY <2>1, <2>2 DEF Mends, Mending
<1>2. CASE Step
  <2>1. /\ Mending' /\ (cmd # "library" => pc' # "none")
        /\ AllOriginal => AllOriginal'
    BY <1>0, <1>2, StepMends
  <2>2. cmd # "none" /\ (pc' # "none" => cmd' = cmd)
    BY <1>2, StepKinds
  <2>3. Mends
    BY <2>1, <2>2 DEF Mends, Mending, Verifies
  <2>4. QED BY <1>2, <2>1, <2>3, StepReadsDisk
<1>3. CASE Exit
  <2>1. Mending' /\ Mends
    BY <1>0, <1>3, ExitMends DEF Mends, Mending
  <2>2. QED BY <1>3, <2>1, LeavingReadsDisk
<1>4. CASE Leave
  <2>1. Mending' /\ (AllOriginal => AllOriginal') /\ cmd = "library"
    BY <1>0, <1>4, LeaveMends
  <2>2. QED BY <1>4, <2>1, LeavingReadsDisk DEF Mends, Mending, Verifies
<1>5. QED BY <1>1, <1>2, <1>3, <1>4 DEF Undisturbed

\* For any set whose saved entries come first and have different paths: from when enough is
\* left of the set and no file is damaged, no write fails and no process dies any more, every
\* repair that ends has succeeded and left all files as they were, unless the matrix is
\* singular, whatever other programs do with the decoder in between.
THEOREM UndisturbedRepairRestores ==
  CommandSpec =>
    [](Aligned /\ DistinctPaths /\ cmd = "none" /\ Recoverable /\ [][Undisturbed]_commandVars =>
         [][Mends]_commandVars)
<1> DEFINE Informed == CommandInv /\ Modes
           Mended == Regular /\ ReadsDisk /\ Mending
<1>1. CommandSpec => []Informed
  <2>1. CommandInit => Modes
    BY InitSettled DEF Settled
  <2>2. CommandInv /\ Modes /\ [CommandNext]_commandVars => Modes'
    BY StepModes, StutterMends DEF CommandInv, Inv, TypeInv
  <2>3. QED BY <2>1, <2>2, CommandInvariance, PTL DEF CommandSpec
<1>2. Informed /\ Aligned /\ DistinctPaths /\ cmd = "none" /\ Recoverable => Mended
  BY RecoverableMends DEF Regular
<1>3. Informed /\ Mended /\ [Undisturbed]_commandVars => Mended'
  <2>1. Undisturbed => Next
    BY StepIsClientStep DEF Undisturbed, CommandNext
  <2>2. CommandInv /\ Undisturbed => (Regular' <=> Regular)
    BY <2>1, EntriesStay
  <2>3. QED BY <2>2, UndisturbedMends, StutterMends
<1>4. Informed /\ Mended /\ [Undisturbed]_commandVars => [Mends]_commandVars
  BY UndisturbedMends
<1> HIDE DEF Informed, Mended
<1>5. QED BY <1>1, <1>2, <1>3, <1>4, PTL
-------------------------------------------------------------------------------
(* The steps that are left of a command, whatever it meets. *)

LeftOf(last) == IF i <= last THEN last + 1 - i ELSE 0

StepsLeft ==
  LET entryCount == Len(entries) IN
  CASE pc = "idle" /\ result = "none"         -> 3 * entryCount + VolumeCount + 6
    [] pc = "files"                           -> 2 * entryCount + VolumeCount + 5 + LeftOf(entryCount)
    [] pc = "idle" /\ result = "filesLoaded"  -> 2 * entryCount + VolumeCount + 4
    [] pc = "volumes"                         -> 2 * entryCount + 3 + LeftOf(VolumeCount)
    [] pc = "idle" /\ result = "parityLoaded" -> 2 * entryCount + 2
    [] pc = "repair"                          -> 2 * LeftOf(Len(fileData)) + 1
    [] pc = "writing"                         -> 2 * LeftOf(Len(fileData))
    [] OTHER                                  -> 0

LEMMA DataLength ==
  ASSUME TypeOK
  PROVE  /\ Len(fileData) \in Nat /\ DOMAIN fileData = 1 .. Len(fileData)
         /\ Len(fileData) <= Len(entries)
         /\ Len(entries) \in Nat /\ VolumeCount \in Nat
<1>1. Len(fileData) \in Nat /\ DOMAIN fileData = 1 .. Len(fileData) /\ Len(entries) \in Nat
  BY Elements, EntryFacts DEF TypeOK
<1>2. fileData # <<>> => Len(fileData) = Cardinality(Saved(Len(entries)))
  BY EntryFacts DEF TypeOK, Saved, SavedOnes
<1>3. fileData # <<>> => Len(fileData) <= Len(entries)
  BY <1>2, EntryFacts, SavedCounts
<1>4. fileData = <<>> => Len(fileData) <= Len(entries)
  BY <1>1
<1>5. QED BY <1>1, <1>3, <1>4, VolumeCountType

LEMMA OneFewer ==
  ASSUME NEW last \in Nat, NEW x \in 1 .. last
  PROVE  (IF x + 1 <= last THEN last + 1 - (x + 1) ELSE 0) = last - x
OBVIOUS

\* The number of the steps that are left falls with each one.
LEMMA StepsFall ==
  ASSUME TypeInv, Modes, Step, cmd # "library"
  PROVE  StepsLeft' < StepsLeft
<1> DEFINE count == Len(entries)
           data  == Len(fileData)
<1>0. /\ TypeOK /\ Counted /\ WriteInProgress
      /\ count \in Nat /\ VolumeCount \in Nat /\ data \in Nat /\ data <= count
      /\ DOMAIN entries = 1 .. count /\ DOMAIN fileData = 1 .. data
      /\ i \in Nat \ {0} /\ UnusableData \subseteq 1 .. data /\ UsableData \subseteq 1 .. data
  BY DataLength, EntryFacts DEF TypeInv, TypeOK, UnusableData, UsableData
<1>1. /\ LeftOf(count) \in Nat /\ LeftOf(VolumeCount) \in Nat /\ LeftOf(data) \in Nat
      /\ LeftOf(count) <= count /\ LeftOf(data) <= data
  BY <1>0 DEF LeftOf
<1>2. count' = count /\ VolumeCount' = VolumeCount
  BY StepKinds, SteadyEntries
<1>3. CASE LoadFiles
  <2>1. pc = "idle" /\ result = "none" /\ pc' = "files" /\ i' = 1
    BY <1>0, <1>3 DEF LoadFiles, LoadFileData, Counted
  <2>2. LeftOf(Len(entries))' = count
    BY <1>0, <1>2, <2>1 DEF LeftOf
  <2>3. StepsLeft = 3 * count + VolumeCount + 6
    BY <2>1 DEF StepsLeft
  <2>4. StepsLeft' = 2 * count + VolumeCount + 5 + count
    BY <1>2, <2>1, <2>2 DEF StepsLeft
  <2>5. QED BY <1>0, <2>3, <2>4
<1>4. CASE LoadParity
  <2>1. pc = "idle" /\ result = "filesLoaded" /\ pc' = "volumes" /\ i' = 1
    BY <1>0, <1>4 DEF LoadParity, LoadParityData, Counted
  <2>2. LeftOf(VolumeCount)' = VolumeCount
    BY <1>0, <1>2, <2>1 DEF LeftOf
  <2>3. StepsLeft = 2 * count + VolumeCount + 4
    BY <2>1 DEF StepsLeft
  <2>4. StepsLeft' = 2 * count + 3 + VolumeCount
    BY <1>2, <2>1, <2>2 DEF StepsLeft
  <2>5. QED BY <1>0, <2>3, <2>4
<1>5. CASE pc = "idle" /\ result = "parityLoaded" /\ Repair
  <2>1. pc' = "repair" /\ i' = i /\ fileData' = fileData
    BY <1>5 DEF Repair, decoderVars
  <2>2. LeftOf(Len(fileData))' = LeftOf(data)
    BY <2>1 DEF LeftOf
  <2>3. StepsLeft = 2 * count + 2
    BY <1>5 DEF StepsLeft
  <2>4. StepsLeft' = 2 * LeftOf(data) + 1
    BY <2>1, <2>2 DEF StepsLeft
  <2>5. QED BY <1>0, <1>1, <2>3, <2>4
<1>6. CASE /\ pc = "idle" /\ result = "parityLoaded"
           /\ RepairFails \/ RepairPanics \/ VerifyAllData
  <2>1. pc' = "none" \/ (pc' = "idle" /\ result' \notin {"none", "filesLoaded", "parityLoaded"})
    BY <1>6, RepairErrorType DEF RepairFails, RepairPanics, VerifyAllData, Return, Die
  <2>2. StepsLeft = 2 * count + 2 /\ StepsLeft' = 0
    BY <1>6, <2>1 DEF StepsLeft
  <2>3. QED BY <1>0, <2>2
<1>7. CASE LoadDataFile
  <2>1. /\ pc = "files" /\ i \in 1 .. count
        /\ \/ pc' = "files" /\ i' = i + 1
           \/ pc' = "idle" /\ result' = "fileError"
    BY <1>0, <1>7 DEF LoadDataFile, Return
  <2>2. StepsLeft = 2 * count + VolumeCount + 5 + (count + 1 - i)
    BY <1>0, <2>1 DEF StepsLeft, LeftOf
  <2>3. CASE pc' = "files" /\ i' = i + 1
    <3>1. LeftOf(Len(entries))' = count - i
      <4>1. LeftOf(Len(entries))' = IF i + 1 <= count THEN count + 1 - (i + 1) ELSE 0
        BY <1>2, <2>3 DEF LeftOf
      <4>2. count \in Nat /\ i \in 1 .. count
        BY <1>0, <2>1
      <4>3. QED BY <4>1, <4>2, OneFewer
    <3>2. StepsLeft' = 2 * count + VolumeCount + 5 + (count - i)
      BY <1>2, <2>3, <3>1 DEF StepsLeft
    <3>3. QED BY <1>0, <2>2, <3>2
  <2>4. CASE pc' = "idle" /\ result' = "fileError"
    <3>1. StepsLeft' = 0
      BY <2>4 DEF StepsLeft
    <3>2. QED BY <1>0, <2>1, <2>2, <3>1
  <2>5. QED BY <2>1, <2>3, <2>4
<1>8. CASE StoreFileData
  <2>1. pc = "files" /\ pc' = "idle" /\ result' \in {"noFileData", "filesLoaded"}
    BY <1>8 DEF StoreFileData, Return
  <2>2. StepsLeft = 2 * count + VolumeCount + 5 + LeftOf(count)
    BY <2>1 DEF StepsLeft
  <2>3. StepsLeft' \in {0, 2 * count + VolumeCount + 4}
    BY <1>2, <2>1 DEF StepsLeft
  <2>4. QED BY <1>0, <1>1, <2>2, <2>3
<1>9. CASE LoadVolume
  <2>1. /\ pc = "volumes" /\ i <= VolumeCount
        /\ \/ pc' = "volumes" /\ i' = i + 1
           \/ pc' = "idle" /\ result' = "parityError"
    BY <1>9 DEF LoadVolume, Return
  <2>2. StepsLeft = 2 * count + 3 + (VolumeCount + 1 - i)
    BY <1>0, <2>1 DEF StepsLeft, LeftOf
  <2>3. CASE pc' = "volumes" /\ i' = i + 1
    <3>1. LeftOf(VolumeCount)' = VolumeCount - i
      BY <1>0, <1>2, <2>1, <2>3 DEF LeftOf
    <3>2. StepsLeft' = 2 * count + 3 + (VolumeCount - i)
      BY <1>2, <2>3, <3>1 DEF StepsLeft
    <3>3. QED BY <1>0, <2>2, <3>2
  <2>4. CASE pc' = "idle" /\ result' = "parityError"
    <3>1. StepsLeft' = 0
      BY <2>4 DEF StepsLeft
    <3>2. QED BY <1>0, <2>1, <2>2, <3>1
  <2>5. QED BY <2>1, <2>3, <2>4
<1>10. CASE StoreParityData
  <2>1. pc = "volumes" /\ (pc' = "none" \/ (pc' = "idle" /\ result' = "parityLoaded"))
    BY <1>10 DEF StoreParityData, Return, Die
  <2>2. StepsLeft = 2 * count + 3 + LeftOf(VolumeCount)
    BY <2>1 DEF StepsLeft
  <2>3. StepsLeft' \in {0, 2 * count + 2}
    BY <1>2, <2>1 DEF StepsLeft
  <2>4. QED BY <1>0, <1>1, <2>2, <2>3
<1>11. CASE SkipFile \/ FinishWrite
  <2>1. /\ i \in 1 .. data /\ pc' = "repair" /\ i' = i + 1 /\ Len(fileData') = data
        /\ pc \in {"repair", "writing"}
    <3>1. CASE SkipFile
      BY <1>0, <3>1 DEF SkipFile, decoderVars
    <3>2. CASE FinishWrite
      BY <1>0, <3>2 DEF FinishWrite, WriteInProgress, TypeOK
    <3>3. QED BY <1>11, <3>1, <3>2
  <2>2. StepsLeft \in {2 * (data + 1 - i), 2 * (data + 1 - i) + 1}
    BY <1>0, <2>1 DEF StepsLeft, LeftOf
  <2>3. LeftOf(Len(fileData))' = data - i
    <3>1. LeftOf(Len(fileData))' = IF i + 1 <= data THEN data + 1 - (i + 1) ELSE 0
      BY <2>1 DEF LeftOf
    <3>2. data \in Nat /\ i \in 1 .. data
      BY <1>0, <2>1
    <3>3. QED BY <3>1, <3>2, OneFewer
  <2>4. StepsLeft' = 2 * (data - i) + 1
    BY <2>1, <2>3 DEF StepsLeft
  <2>5. QED BY <1>0, <2>1, <2>2, <2>4
<1>12. CASE OpenFile
  <2>1. pc = "repair" /\ pc' = "writing" /\ UNCHANGED <<i, fileData>>
    BY <1>12 DEF OpenFile, decoderVars
  <2>2. LeftOf(Len(fileData))' = LeftOf(data)
    BY <2>1 DEF LeftOf
  <2>3. StepsLeft = 2 * LeftOf(data) + 1 /\ StepsLeft' = 2 * LeftOf(data)
    BY <2>1, <2>2 DEF StepsLeft
  <2>4. QED BY <1>1, <2>3
<1>13. CASE SlicePanics \/ HashMismatch \/ EndRepair
  <2>1. /\ pc = "repair"
        /\ \/ pc' = "none"
           \/ pc' = "idle" /\ result' \notin {"none", "filesLoaded", "parityLoaded"}
    BY <1>13 DEF SlicePanics, HashMismatch, EndRepair, Return, Die
  <2>2. StepsLeft = 2 * LeftOf(data) + 1 /\ StepsLeft' = 0
    BY <2>1 DEF StepsLeft
  <2>3. QED BY <1>1, <2>2
<1>14. LastCall => /\ pc = "idle" /\ result = "parityLoaded"
                   /\ Repair \/ RepairFails \/ RepairPanics \/ VerifyAllData
  BY DEF LastCall, Repair, RepairFails, RepairPanics, VerifyAllData
<1>15. QED
  BY <1>3, <1>4, <1>5, <1>6, <1>7, <1>8, <1>9, <1>10, <1>11, <1>12, <1>13, <1>14
  DEF Step, LoadStep, RepairStep

LEMMA StepsCounted ==
  /\ TypeOK => StepsLeft \in Nat
  /\ TypeOK' => StepsLeft' \in Nat
<1> DEFINE Terms == /\ Len(entries) \in Nat /\ VolumeCount \in Nat /\ LeftOf(Len(entries)) \in Nat
                    /\ LeftOf(VolumeCount) \in Nat /\ LeftOf(Len(fileData)) \in Nat
           Doubles == 2 * Len(entries) \in Nat /\ 3 * Len(entries) \in Nat
                      /\ 2 * LeftOf(Len(fileData)) \in Nat
<1>1. TypeOK => Terms
  BY DataLength, EntryFacts, VolumeCountType DEF TypeOK, LeftOf
<1>2. Terms => Doubles
  OBVIOUS
<1>3. \A a, b, c \in Nat : a + b \in Nat /\ a + b + c \in Nat
  OBVIOUS
<1>4. ASSUME Terms, Doubles PROVE StepsLeft \in Nat
  BY <1>3, <1>4 DEF StepsLeft
<1>5. (TypeOK => Terms)' /\ (Terms => Doubles)'
  BY <1>1, <1>2, PTL
<1>6. ASSUME Terms', Doubles' PROVE StepsLeft' \in Nat
  BY <1>3, <1>6 DEF StepsLeft
<1>7. QED BY <1>1, <1>2, <1>4, <1>5, <1>6

LEMMA OthersDoNotRaise ==
  ASSUME TypeOK, Exit \/ Leave \/ FaultyStep \/ DamagingStep
  PROVE  StepsLeft' <= StepsLeft
<1>1. StepsLeft \in Nat
  BY StepsCounted
<1>2. CASE pc' = "none" \/ (pc' = "idle" /\ result' = "writeError")
  <2>1. StepsLeft' = 0
    BY <1>2 DEF StepsLeft
  <2>2. QED BY <1>1, <2>1
<1>3. CASE UNCHANGED <<pc, i, result, entries, fileData>>
  <2>1. VolumeCount' = VolumeCount
    BY <1>3, SteadyEntries
  <2>2. StepsLeft' = StepsLeft
    BY <1>3, <2>1 DEF StepsLeft, LeftOf
  <2>3. QED BY <1>1, <2>2
<1>4. CASE Exit \/ Leave
  BY <1>2, <1>4 DEF Exit, Leave, Die
<1>5. CASE FaultyStep
  BY <1>2, <1>5 DEF FaultyStep, Fault, OpenFails, WriteFails, CloseFails, Crash, Return, Die
<1>6. CASE DamagingStep
  BY <1>3, <1>6 DEF DamagingStep, Damage, DamageFile, DamageVolume, DamageIndex, decoderVars
<1>7. QED BY <1>4, <1>5, <1>6

\* No command runs forever, whatever the index volume, the files and the volumes hold and
\* whatever else happens: the number of its steps that are left falls with each step, and
\* nothing raises it.
THEOREM CommandsTerminate ==
  CommandSpec =>
    [][cmd \notin {"none", "library"} =>
         /\ StepsLeft \in Nat
         /\ StepsLeft' <= StepsLeft
         /\ Step => StepsLeft' < StepsLeft]_commandVars
<1>1. ASSUME CommandInv, CommandInv', Modes, CommandNext, cmd \notin {"none", "library"}
      PROVE  /\ StepsLeft \in Nat /\ StepsLeft' <= StepsLeft
             /\ Step => StepsLeft' < StepsLeft
  <2>1. TypeInv /\ TypeOK /\ TypeOK'
    BY <1>1 DEF CommandInv, Inv, TypeInv
  <2>2. StepsLeft \in Nat /\ StepsLeft' \in Nat
    BY <2>1, StepsCounted
  <2>3. Step => StepsLeft' < StepsLeft
    BY <1>1, <2>1, StepsFall
  <2>4. Step \/ Exit \/ Leave \/ FaultyStep \/ DamagingStep
    BY <1>1 DEF CommandNext, Begin
  <2>5. QED BY <2>1, <2>2, <2>3, <2>4, OthersDoNotRaise
<1>2. CommandInv /\ CommandInv' /\ Modes /\ [CommandNext]_commandVars =>
        [cmd \notin {"none", "library"} =>
           /\ StepsLeft \in Nat
           /\ StepsLeft' <= StepsLeft
           /\ Step => StepsLeft' < StepsLeft]_commandVars
  BY <1>1
<1>3. CommandInit => Modes
  BY InitSettled DEF Settled
<1>4. CommandInv /\ Modes /\ [CommandNext]_commandVars => Modes'
  BY StepModes, StutterMends DEF CommandInv, Inv, TypeInv
<1>5. QED BY <1>2, <1>3, <1>4, CommandInvariance, PTL DEF CommandSpec
===============================================================================
