------------------------------ MODULE Par2Proofs ------------------------------
(***************************************************************************)
(* Proofs about Par2Decoder, for all sets, files, slice sizes and numbers  *)
(* of volumes; and about Par2Commands: commands do what a client of the    *)
(* decoder may do, and whatever they do and however they end, what could   *)
(* be restored still can be.                                               *)
(***************************************************************************)
EXTENDS Par2Commands, FiniteSetTheorems, WellFoundedInduction, TLAPS

(* What the scan of Par2Slices finds in the bytes of an intact file. *)

Below == {pair \in Nat \X Nat : pair[1] < pair[2]}

\* A non-empty set of natural numbers has a least element: the principle that
\* stands for induction here.
LEMMA LeastNatural ==
  ASSUME NEW T \in SUBSET Nat, T # {}
  PROVE  \E x \in T : \A y \in T : x <= y
<1>1. IsWellFoundedOn(Below, Nat)
  BY NatLessThanWellFounded DEF OpToRel, Below
<1>2. \E x \in T : \A y \in T : <<y, x>> \notin Below
  BY <1>1, WFMin, Zenon
<1>3. PICK x \in T : \A y \in T : <<y, x>> \notin Below
  BY <1>2
<1>4. ASSUME NEW y \in T PROVE x <= y
  <2>1. <<y, x>> \notin Below
    BY <1>3
  <2>2. ~(y < x)
    BY <2>1, x \in Nat, y \in Nat DEF Below
  <2>3. QED BY <2>2, x \in Nat, y \in Nat, SMT
<1>5. QED BY <1>4

\* When every slice of a file is known, a scan of the file (fillShardInfos)
\* hits each of them in its place: from the start of one slice it goes to the
\* start of the next, and no hit in between can lead it astray.
THEOREM ScanFindsSlices ==
  ASSUME NEW bytes, Len(bytes) \in Nat,
         NEW known,
         \A k \in Nat : k * SliceByteCount < Len(bytes) =>
                          Slice(bytes, k * SliceByteCount) \in known
  PROVE  \A k \in Nat : k * SliceByteCount < Len(bytes) =>
                          k * SliceByteCount \in ScanHits(bytes, known)
<1> USE SliceByteCountAssumption
<1>1. ASSUME NEW offsets \in SUBSET (0 .. Len(bytes) - 1),
             ScanClosed(offsets, bytes, known)
      PROVE  \A k \in Nat : k * SliceByteCount < Len(bytes) =>
                              k * SliceByteCount \in offsets
  <2> DEFINE Skipped == {k \in Nat : /\ k * SliceByteCount < Len(bytes)
                                     /\ k * SliceByteCount \notin offsets}
  <2>1. SUFFICES ASSUME Skipped # {} PROVE FALSE
    OBVIOUS
  <2>2. PICK k \in Skipped : \A l \in Skipped : k <= l
    BY <2>1, LeastNatural, Skipped \in SUBSET Nat
  <2>3. k # 0
    BY <1>1 DEF ScanClosed
  <2> DEFINE j == (k - 1) * SliceByteCount
  <2>4. k - 1 \in Nat /\ j \in Nat /\ j + SliceByteCount = k * SliceByteCount
    BY <2>3
  <2>5. j < Len(bytes) /\ j \in offsets
    <3>1. j < Len(bytes)
      BY <2>4, k * SliceByteCount < Len(bytes)
    <3>2. k - 1 \notin Skipped
      BY <2>2, <2>4
    <3>3. QED BY <2>4, <3>1, <3>2
  <2>6. Slice(bytes, j) \in known
    BY <2>4, <2>5
  <2>7. j + SliceByteCount \in offsets
    BY <1>1, <2>4, <2>5, <2>6, k * SliceByteCount < Len(bytes) DEF ScanClosed
  <2>8. QED BY <2>4, <2>7
<1>2. ASSUME NEW k \in Nat, k * SliceByteCount < Len(bytes)
      PROVE  k * SliceByteCount \in ScanHits(bytes, known)
  <2>1. k * SliceByteCount \in 0 .. Len(bytes) - 1
    BY <1>2
  <2>2. QED BY <1>1, <1>2, <2>1 DEF ScanHits
<1>3. QED BY <1>2

-------------------------------------------------------------------------------
(* The data the decoder works on. *)

LEMMA EntryFacts ==
  /\ Len(RecoverySet) \in Nat \ {0}
  /\ \A n \in Entries : n \in Nat \ {0} /\ RecoverySet[n] \in Paths
BY RecoverySetAssumption DEF Entries

LEMMA OriginalFacts ==
  ASSUME NEW p \in Paths
  PROVE  /\ Original[p] \in Seq(Byte)
         /\ Len(Original[p]) \in Nat \ {0}
         /\ Original[p] # Missing /\ Original[p] # Unreadable
<1>1. Original[p] \in Seq(Byte) /\ Original[p] # <<>>
  BY OriginalAssumption
<1>2. Len(Original[p]) \in Nat \ {0}
  BY <1>1
<1>3. QED BY <1>1, <1>2, OriginalAssumption

LEMMA ShardFacts ==
  ASSUME NEW s \in Shards
  PROVE  /\ s[1] \in Entries
         /\ s[2] \in Nat
         /\ s = <<s[1], s[2]>>
         /\ s[2] * SliceByteCount \in Nat
         /\ s[2] * SliceByteCount < Len(Original[RecoverySet[s[1]]])
<1>1. PICK n \in Entries : \E k \in 0 .. Len(Original[RecoverySet[n]]) - 1 :
             s = <<n, k>> /\ k * SliceByteCount < Len(Original[RecoverySet[n]])
  BY DEF Shards
<1>2. PICK k \in 0 .. Len(Original[RecoverySet[n]]) - 1 :
             s = <<n, k>> /\ k * SliceByteCount < Len(Original[RecoverySet[n]])
  BY <1>1
<1>3. k \in Nat
  BY <1>2, EntryFacts, OriginalFacts
<1>4. QED BY <1>2, <1>3, SliceByteCountAssumption

LEMMA SliceType ==
  ASSUME NEW bytes \in Seq(Byte), NEW j \in Nat
  PROVE  Slice(bytes, j) \in [1..SliceByteCount -> Byte]
<1>1. ASSUME NEW k \in 1..SliceByteCount
      PROVE  (IF j + k <= Len(bytes) THEN bytes[j + k] ELSE ZeroByte) \in Byte
  BY OriginalAssumption, SliceByteCountAssumption
<1>2. QED BY <1>1 DEF Slice

LEMMA ChecksumFacts ==
  ASSUME NEW s \in Shards
  PROVE  /\ Checksum(s) \in KnownSlices
         /\ Checksum(s) # NilData
         /\ Checksum(s) # Junk
         /\ Home(s) \in Paths \X Nat
         /\ Home(s) \in LocationsOf(Checksum(s))
<1>1. Checksum(s) \in KnownSlices
  BY DEF KnownSlices
<1>2. RecoverySet[s[1]] \in Paths /\ s[2] * SliceByteCount \in Nat
  BY ShardFacts, EntryFacts
<1>3. Checksum(s) \in [1..SliceByteCount -> Byte]
  BY <1>2, SliceType, OriginalFacts DEF Checksum
<1>4. QED BY <1>1, <1>2, <1>3, ShardAssumption DEF Home, LocationsOf

LEMMA LocationsType ==
  ASSUME NEW slice
  PROVE  LocationsOf(slice) \in SUBSET (Paths \X Nat)
BY ChecksumFacts DEF LocationsOf

\* A scan adds locations to shards and never takes one away.
LEMMA FillType ==
  ASSUME NEW old \in [Shards -> ShardInfoType],
         NEW p \in Paths, NEW bytes, Len(bytes) \in Nat
  PROVE  FillShardInfos(old, p, bytes) \in [Shards -> ShardInfoType]
<1> DEFINE hits == ScanHits(bytes, KnownSlices)
           found(s) == {<<p, j>> : j \in {h \in hits : Slice(bytes, h) = Checksum(s)}}
<1>1. hits \subseteq Nat
  BY DEF ScanHits
<1>2. \A s \in Shards : found(s) \in SUBSET (Paths \X Nat)
  BY <1>1
<1> HIDE DEF hits
<1>3. ASSUME NEW s \in Shards
      PROVE  [data      |-> Checksum(s),
              locations |-> old[s].locations \cup found(s)] \in ShardInfoType
  BY <1>2, ChecksumFacts DEF ShardInfoType
<1>4. FillShardInfos(old, p, bytes) =
        [s \in Shards |->
          IF s[1] = IndexOf(RecoverySet[s[1]]) /\ found(s) # {}
          THEN [data |-> Checksum(s), locations |-> old[s].locations \cup found(s)]
          ELSE old[s]]
  BY DEF FillShardInfos, hits
<1>5. QED BY <1>3, <1>4

LEMMA BlankType == BlankInfos \in InfosType
<1>1. Missing \in FileContent
  BY DEF FileContent
<1>2. [data |-> NilData, locations |-> {}] \in ShardInfoType
  BY DEF ShardInfoType
<1>3. QED BY <1>1, <1>2 DEF BlankInfos, InfosType

LEMMA NoParityType == NoParity \in [Exponents -> {"nil", "right", "wrong"}]
BY DEF NoParity

LEMMA ReconstructionType ==
  ASSUME infos \in InfosType, NEW data \in Reconstructions
  PROVE  /\ \A s \in Shards : data[s] \in KnownSlices \cup {NilData, Junk}
         /\ \A s \in Shards \ MissingShards : data[s] = infos.shards[s].data
<1> DEFINE rebuilt(good) == [s \in Shards |->
             IF s \notin MissingShards THEN infos.shards[s].data
             ELSE IF s \in good THEN Checksum(s) ELSE Junk]
<1>1. PICK good : data = rebuilt(good)
  BY DEF Reconstructions
<1>2. \A s \in Shards : infos.shards[s].data \in KnownSlices \cup {NilData, Junk}
  BY DEF InfosType, ShardInfoType
<1>3. QED BY <1>1, <1>2, ChecksumFacts

\* What a write that is cut short leaves behind.
LEMMA PrefixType ==
  ASSUME NEW bytes \in Seq(Byte), NEW k \in 0 .. Len(bytes)
  PROVE  SubSeq(bytes, 1, k) \in Seq(Byte)
OBVIOUS

-------------------------------------------------------------------------------
(* Type correctness.  A write needs WriteInProgress beside it: the bytes it  *)
(* puts on the disk are bytes because they are those of the original file.   *)

LEMMA InitTyped == Init => TypeOK /\ WriteInProgress
<1> SUFFICES ASSUME Init PROVE TypeOK /\ WriteInProgress
  OBVIOUS
<1>1. disk \in [Paths -> FileContent]
  BY OriginalAssumption DEF Init, FileContent
<1>2. volumes \in [Volumes -> VolumeStates]
  BY DEF Init, VolumeStates
<1>3. touched \in [now : SUBSET Paths, load : SUBSET Paths]
  BY DEF Init
<1>4. wasOK \in [Entries -> BOOLEAN]
  BY DEF Init
<1>5. loaded \in BOOLEAN
  BY Zenon DEF Init
<1>6. stale \subseteq Volumes
  BY VolumeAssumption DEF Init
<1>7. QED BY <1>1, <1>2, <1>3, <1>4, <1>5, <1>6, BlankType, NoParityType, MaxDamageAssumption
          DEF Init, TypeOK, WriteInProgress

LEMMA ReturnTyped ==
  ASSUME TypeOK, NEW outcome, Return(outcome)
  PROVE  /\ pc' = "idle"
         /\ i' \in Nat \ {0}
         /\ loading' \in InfosType
         /\ matches' \subseteq Volumes
         /\ shards' \in [Exponents -> {"nil", "right", "wrong"}]
         /\ wasOK' \in [Entries -> BOOLEAN]
         /\ result' = outcome
BY BlankType, NoParityType DEF Return

LEMMA DieTyped ==
  ASSUME TypeOK, NEW outcome, Die(outcome)
  PROVE  /\ pc' = "none"
         /\ i' \in Nat \ {0}
         /\ loaded' \in BOOLEAN
         /\ infos' \in InfosType
         /\ parity' \in [Exponents -> {"nil", "right", "wrong"}]
         /\ loading' \in InfosType
         /\ matches' \subseteq Volumes
         /\ shards' \in [Exponents -> {"nil", "right", "wrong"}]
         /\ wasOK' \in [Entries -> BOOLEAN]
         /\ repaired' \subseteq Paths
         /\ result' = outcome
         /\ touched' \in [now : SUBSET Paths, load : SUBSET Paths]
<1>1. touched' \in [now : SUBSET Paths, load : SUBSET Paths]
  BY DEF Die
<1>2. loaded' \in BOOLEAN
  BY Zenon DEF Die
<1>3. QED BY <1>1, <1>2, BlankType, NoParityType DEF Die

LEMMA TearTyped ==
  ASSUME TypeOK, WriteInProgress, pc = "writing", Tear
  PROVE  disk' \in [Paths -> FileContent]
<1>1. Assembled(i) \in Seq(Byte)
  BY EntryFacts, OriginalFacts DEF WriteInProgress
<1>2. PICK k \in 0 .. Len(Assembled(i)) :
             disk' = [disk EXCEPT ![RecoverySet[i]] = SubSeq(Assembled(i), 1, k)]
  BY DEF Tear
<1>3. SubSeq(Assembled(i), 1, k) \in FileContent
  BY <1>1, PrefixType DEF FileContent
<1>4. QED BY <1>2, <1>3 DEF TypeOK

LEMMA StepTyped == TypeOK /\ WriteInProgress /\ [Next]_vars => (TypeOK /\ WriteInProgress)'
<1> SUFFICES ASSUME TypeOK, WriteInProgress, [Next]_vars
             PROVE  TypeOK' /\ WriteInProgress'
  OBVIOUS
<1> USE DEF TypeOK, WriteInProgress
<1>1. CASE NewDecoder
  BY <1>1 DEF NewDecoder, fileVars, decoderVars, localVars
<1>2. CASE LoadFileData
  BY <1>2 DEF LoadFileData, fileVars, decoderVars, localVars
<1>3. CASE LoadDataFile
  <2> DEFINE p == RecoverySet[i]
  <2>1. i \in Entries /\ p \in Paths
    BY <1>3, EntryFacts DEF LoadDataFile
  <2>2. CASE Return("fileError")
    BY <1>3, <2>2, ReturnTyped DEF LoadDataFile, fileVars, decoderVars
  <2>3. CASE /\ disk[p] # Unreadable
             /\ loading' = [read   |-> [loading.read EXCEPT ![i] = disk[p]],
                            shards |-> IF disk[p] = Missing THEN loading.shards
                                       ELSE FillShardInfos(loading.shards, p, disk[p])]
             /\ i' = i + 1
             /\ UNCHANGED <<pc, matches, shards, wasOK, result>>
    <3>1. disk[p] \in FileContent
      BY <2>1
    <3>2. [loading.read EXCEPT ![i] = disk[p]] \in [Entries -> FileContent]
      BY <2>1, <3>1 DEF InfosType
    <3>3. (IF disk[p] = Missing THEN loading.shards
           ELSE FillShardInfos(loading.shards, p, disk[p])) \in [Shards -> ShardInfoType]
      <4>1. loading.shards \in [Shards -> ShardInfoType]
        BY DEF InfosType
      <4>2. CASE disk[p] = Missing
        BY <4>1, <4>2
      <4>3. CASE disk[p] # Missing
        <5>1. Len(disk[p]) \in Nat
          BY <2>3, <3>1, <4>3 DEF FileContent
        <5>2. QED BY <2>1, <4>1, <4>3, <5>1, FillType
      <4>4. QED BY <4>2, <4>3
    <3>4. loading' \in InfosType
      BY <2>3, <3>2, <3>3 DEF InfosType
    <3>5. QED BY <1>3, <2>1, <2>3, <3>4 DEF LoadDataFile, fileVars, decoderVars
  <2>4. QED BY <1>3, <2>2, <2>3 DEF LoadDataFile
<1>4. CASE StoreFileData
  BY <1>4, ReturnTyped DEF StoreFileData, fileVars
<1>5. CASE LoadParityData
  BY <1>5 DEF LoadParityData, fileVars, decoderVars
<1>6. CASE LoadVolume
  <2>1. \A e \in Exponents : WithVolume(shards, i)[e] \in {"nil", "right", "wrong"}
    BY DEF WithVolume
  <2>2. WithVolume(shards, i) \in [Exponents -> {"nil", "right", "wrong"}]
    BY <2>1 DEF WithVolume
  <2>3. CASE Return("parityError") /\ UNCHANGED <<decoderVars, repaired, touched>>
    BY <1>6, <2>3, ReturnTyped DEF LoadVolume, fileVars, decoderVars
  <2>4. CASE Die("panic")
    BY <1>6, <2>4, DieTyped DEF LoadVolume, fileVars
  <2>5. CASE /\ shards' = IF i \in matches THEN WithVolume(shards, i) ELSE shards
             /\ i' = i + 1
             /\ UNCHANGED <<decoderVars, loading, matches, wasOK, pc, repaired, result,
                            touched>>
    BY <1>6, <2>2, <2>5 DEF LoadVolume, fileVars, decoderVars
  <2>6. QED BY <1>6, <2>3, <2>4, <2>5 DEF LoadVolume
<1>7. CASE StoreParityData
  BY <1>7, ReturnTyped DEF StoreParityData, fileVars
<1>8. CASE RepairFails
  <2>1. RepairError \in {"noInfos", "noParity", "notEnough", "singular", "none"}
    BY DEF RepairError
  <2>2. QED BY <1>8, <2>1, ReturnTyped DEF RepairFails, fileVars, decoderVars
<1>9. CASE Repair
  <2>1. PICK data \in Reconstructions :
         \/ /\ Return("parityCheck")
            /\ UNCHANGED decoderVars
         \/ /\ wasOK' = [n \in Entries |-> FileOK(infos, n)]
            /\ infos' = [infos EXCEPT !.shards =
                 [s \in Shards |-> [data      |-> data[s],
                                    locations |-> LocationsOf(data[s])]]]
            /\ pc' = "repair"
            /\ result' = "pending"
            /\ UNCHANGED <<loaded, parity, loading, matches, shards, i>>
    BY <1>9 DEF Repair
  <2>2. CASE Return("parityCheck") /\ UNCHANGED decoderVars
    BY <1>9, <2>2, ReturnTyped DEF Repair, fileVars, decoderVars
  <2>3. CASE /\ wasOK' = [n \in Entries |-> FileOK(infos, n)]
             /\ infos' = [infos EXCEPT !.shards =
                  [s \in Shards |-> [data      |-> data[s],
                                     locations |-> LocationsOf(data[s])]]]
             /\ pc' = "repair"
             /\ result' = "pending"
             /\ UNCHANGED <<loaded, parity, loading, matches, shards, i>>
    <3>1. \A s \in Shards : [data |-> data[s], locations |-> LocationsOf(data[s])]
                              \in ShardInfoType
      BY ReconstructionType, LocationsType DEF ShardInfoType
    <3>2. infos' \in InfosType
      BY <2>3, <3>1 DEF InfosType
    <3>3. \A n \in Entries : FileOK(infos, n) \in BOOLEAN
      BY DEF FileOK
    <3>4. wasOK' \in [Entries -> BOOLEAN]
      BY <2>3, <3>3
    <3>5. QED BY <1>9, <2>3, <3>2, <3>4 DEF Repair, fileVars
  <2>4. QED BY <2>1, <2>2, <2>3
<1>10. CASE SkipFile
  BY <1>10 DEF SkipFile, fileVars, decoderVars, localVars
<1>11. CASE HashMismatch
  BY <1>11, ReturnTyped DEF HashMismatch, fileVars, decoderVars
<1>12. CASE OpenFile
  <2>1. <<>> \in FileContent
    BY DEF FileContent
  <2>2. disk' \in [Paths -> FileContent]
    BY <1>12, <2>1 DEF OpenFile
  <2>3. Assembled(i)' = Assembled(i)
    BY <1>12 DEF OpenFile, decoderVars, Assembled
  <2>4. QED BY <1>12, <2>2, <2>3 DEF OpenFile, decoderVars, localVars
<1>13. CASE FinishWrite
  <2>1. i \in Entries /\ RecoverySet[i] \in Paths /\ Assembled(i) \in FileContent
    BY <1>13, EntryFacts, OriginalFacts DEF FinishWrite, FileContent
  <2>2. disk' \in [Paths -> FileContent]
    BY <1>13, <2>1 DEF FinishWrite
  <2>3. QED BY <1>13, <2>1, <2>2, EntryFacts DEF FinishWrite, decoderVars, localVars
<1>14. CASE EndRepair
  BY <1>14, ReturnTyped DEF EndRepair, fileVars, decoderVars
<1>15. CASE OpenFails
  BY <1>15, ReturnTyped DEF OpenFails, fileVars, decoderVars
<1>16. CASE WriteFails
  BY <1>16, ReturnTyped, TearTyped DEF WriteFails, decoderVars
<1>17. CASE Crash
  BY <1>17, DieTyped, TearTyped DEF Crash
<1>18. CASE DamageFile
  <2>1. PICK p \in Paths, c \in Contents :
          /\ disk' = [disk EXCEPT ![p] = c]
          /\ touched' = [now |-> touched.now \cup {p}, load |-> touched.load \cup {p}]
    BY <1>18 DEF DamageFile
  <2>2. c \in FileContent
    BY OriginalAssumption DEF FileContent
  <2>3. disk' \in [Paths -> FileContent]
    BY <2>1, <2>2
  <2>4. touched' \in [now : SUBSET Paths, load : SUBSET Paths]
    BY <2>1
  <2>5. damage' \in 0 .. MaxDamage
    BY <1>18, MaxDamageAssumption DEF DamageFile
  <2>6. Assembled(i)' = Assembled(i)
    BY <1>18 DEF DamageFile, decoderVars, Assembled
  <2>7. QED BY <1>18, <2>3, <2>4, <2>5, <2>6 DEF DamageFile, decoderVars, localVars
<1>19. CASE DamageVolume
  <2>1. volumes' \in [Volumes -> VolumeStates]
    BY <1>19 DEF DamageVolume
  <2>2. damage' \in 0 .. MaxDamage
    BY <1>19, MaxDamageAssumption DEF DamageVolume
  <2>3. Assembled(i)' = Assembled(i)
    BY <1>19 DEF DamageVolume, decoderVars, Assembled
  <2>4. QED BY <1>19, <2>1, <2>2, <2>3 DEF DamageVolume, decoderVars, localVars
<1>20. CASE DamageIndex
  <2>1. damage' \in 0 .. MaxDamage
    BY <1>20, MaxDamageAssumption DEF DamageIndex
  <2>2. Assembled(i)' = Assembled(i)
    BY <1>20 DEF DamageIndex, decoderVars, Assembled
  <2>3. QED BY <1>20, <2>1, <2>2 DEF DamageIndex, decoderVars, localVars
<1>21. CASE UNCHANGED vars
  BY <1>21 DEF vars, fileVars, decoderVars, localVars, Assembled
<1>22. QED
  BY <1>1, <1>2, <1>3, <1>4, <1>5, <1>6, <1>7, <1>8, <1>9, <1>10, <1>11, <1>12, <1>13,
     <1>14, <1>15, <1>16, <1>17, <1>18, <1>19, <1>20, <1>21
  DEF Next, Call, LoadStep, RepairStep, Fault, Damage

\* Every call, fault and change by another program keeps every variable of the
\* decoder to its type.
THEOREM TypeCorrect == Spec => [](TypeOK /\ WriteInProgress)
BY InitTyped, StepTyped, PTL DEF Spec

-------------------------------------------------------------------------------
(* What LoadFileData notes about an intact file. *)

LEMMA OwnSlicesKnown ==
  ASSUME NEW n \in Entries, NEW k \in Nat,
         k * SliceByteCount < Len(Original[RecoverySet[n]])
  PROVE  /\ <<n, k>> \in Shards
         /\ Slice(Original[RecoverySet[n]], k * SliceByteCount) \in KnownSlices
<1> DEFINE len == Len(Original[RecoverySet[n]])
<1>1. len \in Nat
  BY EntryFacts, OriginalFacts
<1>2. k <= k * SliceByteCount
  BY SliceByteCountAssumption
<1>3. k \in 0 .. len - 1
  BY <1>1, <1>2, SliceByteCountAssumption
<1>4. <<n, k>> \in Shards
  BY <1>3 DEF Shards
<1>5. Checksum(<<n, k>>) = Slice(Original[RecoverySet[n]], k * SliceByteCount)
  BY DEF Checksum
<1>6. QED BY <1>4, <1>5 DEF KnownSlices

LEMMA IndexOfEntry ==
  ASSUME DistinctIDs, NEW n \in Entries
  PROVE  IndexOf(RecoverySet[n]) = n
<1>1. \A m \in Entries : RecoverySet[m] = RecoverySet[n] => m = n
  BY DEF DistinctIDs
<1>2. \A m \in Entries : RecoverySet[m] = RecoverySet[n] => m <= n
  BY <1>1, EntryFacts
<1>3. QED BY <1>1, <1>2 DEF IndexOf

\* A scan of an intact file finds all of its shards in their places, ...
LEMMA FillFindsIntact ==
  ASSUME DistinctIDs, NEW n \in Entries, NEW old,
         NEW s \in Shards, s[1] = n
  PROVE  LET new == FillShardInfos(old, RecoverySet[n], Original[RecoverySet[n]])
         IN  new[s].data = Checksum(s) /\ Home(s) \in new[s].locations
<1> DEFINE p     == RecoverySet[n]
           bytes == Original[p]
           hits  == ScanHits(bytes, KnownSlices)
           found(t) == {<<p, j>> : j \in {h \in hits : Slice(bytes, h) = Checksum(t)}}
           new   == FillShardInfos(old, p, bytes)
           j     == s[2] * SliceByteCount
<1>1. Len(bytes) \in Nat
  BY EntryFacts, OriginalFacts
<1>2. \A k \in Nat : k * SliceByteCount < Len(bytes) =>
                        Slice(bytes, k * SliceByteCount) \in KnownSlices
  BY OwnSlicesKnown
<1>3. \A k \in Nat : k * SliceByteCount < Len(bytes) => k * SliceByteCount \in hits
  BY <1>1, <1>2, ScanFindsSlices
<1>4. j \in hits
  BY <1>3, ShardFacts
<1> HIDE DEF hits
<1>5. Slice(bytes, j) = Checksum(s)
  BY DEF Checksum
<1>6. Home(s) = <<p, j>>
  BY DEF Home
<1>7. Home(s) \in found(s)
  BY <1>4, <1>5, <1>6
<1>8. new = [t \in Shards |->
               IF t[1] = IndexOf(RecoverySet[t[1]]) /\ found(t) # {}
               THEN [data |-> Checksum(t), locations |-> old[t].locations \cup found(t)]
               ELSE old[t]]
  BY DEF FillShardInfos, hits
<1>9. new[s] = [data |-> Checksum(s), locations |-> old[s].locations \cup found(s)]
  BY <1>7, <1>8, IndexOfEntry
<1>10. QED BY <1>7, <1>9

\* ... and the scan of another file does not take them away.
LEMMA FillKeepsPlaces ==
  ASSUME NEW old, NEW p, NEW bytes, NEW s \in Shards,
         old[s].data = Checksum(s), Home(s) \in old[s].locations
  PROVE  LET new == FillShardInfos(old, p, bytes)
         IN  new[s].data = Checksum(s) /\ Home(s) \in new[s].locations
<1> DEFINE hits     == ScanHits(bytes, KnownSlices)
           found(t) == {<<p, j>> : j \in {h \in hits : Slice(bytes, h) = Checksum(t)}}
<1>1. FillShardInfos(old, p, bytes)[s] =
        IF s[1] = IndexOf(RecoverySet[s[1]]) /\ found(s) # {}
        THEN [data |-> Checksum(s), locations |-> old[s].locations \cup found(s)]
        ELSE old[s]
  BY DEF FillShardInfos
<1> HIDE DEF found
<1>2. QED BY <1>1

\* A file with all of its shards in their places is OK exactly if its hash is.
LEMMA FileOKMeansIntact ==
  ASSUME ReadFilesHold(infos, touched.now, Len(RecoverySet) + 1), NEW n \in Entries
  PROVE  FileOK(infos, n) = (infos.read[n] = Original[RecoverySet[n]])
<1>1. CASE infos.read[n] = Original[RecoverySet[n]]
  <2>1. n < Len(RecoverySet) + 1
    BY EntryFacts DEF Entries
  <2>2. InPlace(infos, n)
    BY <1>1, <2>1 DEF ReadFilesHold
  <2>3. AllShardsOK(infos, n)
    BY <2>2, ChecksumFacts DEF InPlace, AllShardsOK
  <2>4. QED BY <1>1, <2>3 DEF FileOK
<1>2. CASE infos.read[n] # Original[RecoverySet[n]]
  BY <1>2 DEF FileOK
<1>3. QED BY <1>1, <1>2

-------------------------------------------------------------------------------
(* The inductive invariant. *)

LEMMA InitConsistent == Init => IndInv
BY DEF Init, IndInv, WriteInProgress

\* A call that returns, or a process that dies, without a change to the disk.
LEMMA QuietStep ==
  ASSUME IndInv,
         UNCHANGED <<disk, touched>>,
         repaired' \subseteq repaired,
         pc' \in {"idle", "none", "volumes"},
         pc' # "volumes" => i' = 1,
         result' # "repaired",
         UNCHANGED <<loaded, infos>> \/ ~loaded'
  PROVE  IndInv'
BY DEF IndInv, WriteInProgress, ReadFilesHold, Held

\* The write of the file of entry i leaves all others as they were.
LEMMA OthersSpared ==
  ASSUME DistinctIDs, TypeOK, IndInv, pc \in {"repair", "writing"},
         i \in Entries, ~wasOK[i],
         UNCHANGED infos,
         \A q \in Paths : q # RecoverySet[i] => disk'[q] = disk[q],
         touched.now \ {RecoverySet[i]} \subseteq touched'.now
  PROVE  /\ ReadFilesHold(infos, touched.now, Len(RecoverySet) + 1)'
         /\ \A n \in Entries : n # i /\ Held(n, touched.now) => Held(n, touched.now)'
         /\ \A n \in Entries : n < i => Held(n, touched.now)'
         /\ \A q \in repaired : disk'[q] = Original[q] \/ q \in touched'.now
<1>1. ASSUME NEW n \in Entries, n # i
      PROVE  Held(n, touched.now) => Held(n, touched.now)'
  <2>1. RecoverySet[n] # RecoverySet[i] /\ RecoverySet[n] \in Paths
    BY <1>1, EntryFacts DEF DistinctIDs
  <2>2. QED BY <2>1 DEF Held
<1>2. ASSUME NEW n \in Entries, infos.read[n] = Original[RecoverySet[n]],
             n < Len(RecoverySet) + 1
      PROVE  InPlace(infos, n) /\ Held(n, touched.now)'
  <2>1. n # i
    BY <1>2 DEF IndInv
  <2>2. InPlace(infos, n) /\ Held(n, touched.now)
    BY <1>2 DEF IndInv, ReadFilesHold
  <2>3. QED BY <1>1, <2>1, <2>2
<1>3. ReadFilesHold(infos, touched.now, Len(RecoverySet) + 1)'
  BY <1>2 DEF ReadFilesHold, InPlace
<1>4. \A n \in Entries : n < i => Held(n, touched.now)'
  BY <1>1, EntryFacts DEF IndInv
<1>5. ASSUME NEW q \in repaired
      PROVE  disk'[q] = Original[q] \/ q \in touched'.now
  <2>1. PICK n \in Entries : n < i /\ q = RecoverySet[n]
    BY <1>5 DEF IndInv
  <2>2. Held(n, touched.now)'
    BY <1>4, <2>1
  <2>3. QED BY <2>1, <2>2 DEF Held
<1>6. QED BY <1>1, <1>3, <1>4, <1>5

LEMMA StepConsistent ==
  ASSUME DistinctIDs, TypeOK, IndInv, [Next]_vars
  PROVE  IndInv'
<1>0. WriteInProgress'
  BY StepTyped DEF IndInv
<1>1. CASE NewDecoder
  BY <1>1, QuietStep DEF NewDecoder, fileVars, decoderVars, localVars, IndInv
<1>2. CASE LoadFileData
  <2>1. i = 1 /\ i' = 1
    BY <1>2 DEF LoadFileData, localVars, IndInv
  <2>2. ReadFilesHold(loading, touched.load, i)'
    BY <1>2, <2>1, EntryFacts DEF LoadFileData, ReadFilesHold
  <2>3. touched'.now = touched.now
    BY <1>2 DEF LoadFileData, TypeOK
  <2>4. QED
    BY <1>0, <1>2, <2>2, <2>3 DEF LoadFileData, fileVars, decoderVars, localVars, IndInv,
       ReadFilesHold, Held
<1>3. CASE LoadDataFile
  <2> DEFINE p == RecoverySet[i]
  <2>1. i \in Entries /\ pc = "files" /\ UNCHANGED <<disk, touched, repaired, loaded, infos>>
    BY <1>3 DEF LoadDataFile, fileVars, decoderVars
  <2>2. CASE Return("fileError")
    BY <2>1, <2>2, QuietStep DEF Return
  <2>3. CASE /\ loading' = [read   |-> [loading.read EXCEPT ![i] = disk[p]],
                            shards |-> IF disk[p] = Missing THEN loading.shards
                                       ELSE FillShardInfos(loading.shards, p, disk[p])]
             /\ i' = i + 1
             /\ UNCHANGED <<pc, result>>
    <3>1. \A n \in Entries : n # i => loading'.read[n] = loading.read[n]
      BY <2>3 DEF TypeOK, InfosType
    <3>2. loading'.read[i] = disk[p]
      BY <2>1, <2>3 DEF TypeOK, InfosType
    <3>3. ASSUME NEW n \in Entries, n < i', loading'.read[n] = Original[RecoverySet[n]]
          PROVE  InPlace(loading', n) /\ Held(n, touched.load)
      <4>1. CASE n = i
        <5>1. disk[p] = Original[p] /\ disk[p] # Missing
          BY <3>2, <3>3, <4>1, EntryFacts, OriginalFacts
        <5>2. loading'.shards = FillShardInfos(loading.shards, p, Original[p])
          BY <2>3, <5>1
        <5>3. InPlace(loading', n)
          BY <4>1, <5>2, FillFindsIntact DEF InPlace
        <5>4. QED BY <4>1, <5>1, <5>3 DEF Held
      <4>2. CASE n # i
        <5>1. n < i /\ loading.read[n] = Original[RecoverySet[n]]
          BY <2>1, <2>3, <3>1, <3>3, <4>2, EntryFacts
        <5>2. InPlace(loading, n) /\ Held(n, touched.load)
          BY <2>1, <5>1 DEF IndInv, ReadFilesHold
        <5>3. ASSUME NEW s \in Shards, s[1] = n
              PROVE  /\ loading'.shards[s].data = Checksum(s)
                     /\ Home(s) \in loading'.shards[s].locations
          <6>1. /\ loading.shards[s].data = Checksum(s)
                /\ Home(s) \in loading.shards[s].locations
            BY <5>2, <5>3 DEF InPlace
          <6>2. \/ loading'.shards = loading.shards
                \/ loading'.shards = FillShardInfos(loading.shards, p, disk[p])
            BY <2>3
          <6>3. QED BY <6>1, <6>2, FillKeepsPlaces
        <5>4. QED BY <5>2, <5>3 DEF InPlace
      <4>3. QED BY <4>1, <4>2
    <3>4. ReadFilesHold(loading, touched.load, i)'
      BY <2>1, <3>3 DEF ReadFilesHold, Held
    <3>5. QED
      BY <1>0, <2>1, <2>3, <3>4 DEF IndInv, ReadFilesHold, Held
  <2>4. QED BY <1>3, <2>2, <2>3 DEF LoadDataFile
<1>4. CASE StoreFileData
  <2>1. /\ pc = "files" /\ pc' = "idle" /\ i' = 1 /\ infos' = loading
        /\ result' = "filesLoaded" /\ UNCHANGED <<disk, repaired>>
    BY <1>4 DEF StoreFileData, Return, fileVars
  <2>2. touched'.now = touched.load
    BY <1>4 DEF StoreFileData, TypeOK
  <2>3. \A n \in Entries : n < i
    BY <1>4, EntryFacts DEF StoreFileData, Entries, TypeOK
  <2>4. ReadFilesHold(loading, touched.load, i) /\ repaired = {}
    BY <2>1 DEF IndInv
  <2>5. ReadFilesHold(infos, touched.now, Len(RecoverySet) + 1)'
    BY <2>1, <2>2, <2>3, <2>4 DEF ReadFilesHold, Held
  <2>6. QED BY <1>0, <2>1, <2>4, <2>5 DEF IndInv
<1>5. CASE LoadParityData
  BY <1>5, QuietStep DEF LoadParityData, fileVars, decoderVars
<1>6. CASE LoadVolume
  <2>1. UNCHANGED disk /\ pc = "volumes"
    BY <1>6 DEF LoadVolume, fileVars
  <2>2. CASE Return("parityError") /\ UNCHANGED <<decoderVars, repaired, touched>>
    BY <2>1, <2>2, QuietStep DEF Return, decoderVars
  <2>3. CASE Die("panic")
    BY <1>0, <2>1, <2>3 DEF Die, IndInv
  <2>4. CASE UNCHANGED <<decoderVars, pc, repaired, result, touched>>
    BY <1>0, <2>1, <2>4 DEF decoderVars, IndInv, ReadFilesHold, Held
  <2>5. QED BY <1>6, <2>2, <2>3, <2>4 DEF LoadVolume
<1>7. CASE StoreParityData
  BY <1>7, QuietStep DEF StoreParityData, Return, fileVars, decoderVars
<1>8. CASE RepairFails
  <2>1. RepairError # "repaired"
    BY DEF RepairError
  <2>2. QED BY <1>0, <1>8, <2>1 DEF RepairFails, Return, fileVars, decoderVars, IndInv,
            ReadFilesHold, Held
<1>9. CASE Repair
  <2>1. /\ pc = "idle" /\ i = 1 /\ loaded /\ repaired' = {} /\ UNCHANGED <<disk, touched>>
    BY <1>9 DEF Repair, RepairError, fileVars, IndInv
  <2>2. PICK data \in Reconstructions :
         \/ /\ Return("parityCheck")
            /\ UNCHANGED decoderVars
         \/ /\ wasOK' = [n \in Entries |-> FileOK(infos, n)]
            /\ infos' = [infos EXCEPT !.shards =
                 [s \in Shards |-> [data      |-> data[s],
                                    locations |-> LocationsOf(data[s])]]]
            /\ pc' = "repair"
            /\ result' = "pending"
            /\ UNCHANGED <<loaded, parity, loading, matches, shards, i>>
    BY <1>9 DEF Repair
  <2>3. CASE Return("parityCheck") /\ UNCHANGED decoderVars
    BY <1>0, <2>1, <2>3 DEF Return, decoderVars, IndInv, ReadFilesHold, Held
  <2>4. CASE /\ wasOK' = [n \in Entries |-> FileOK(infos, n)]
             /\ infos' = [infos EXCEPT !.shards =
                  [s \in Shards |-> [data      |-> data[s],
                                     locations |-> LocationsOf(data[s])]]]
             /\ pc' = "repair"
             /\ result' = "pending"
             /\ UNCHANGED <<loaded, parity, loading, matches, shards, i>>
    <3>1. ReadFilesHold(infos, touched.now, Len(RecoverySet) + 1)
      BY <2>1 DEF IndInv
    <3>2. infos \in InfosType
      BY DEF TypeOK
    <3>3. infos'.read = infos.read
      BY <2>4, <3>2 DEF InfosType
    <3>4. \A s \in Shards : infos'.shards[s] = [data      |-> data[s],
                                                locations |-> LocationsOf(data[s])]
      BY <2>4, <3>2 DEF InfosType
    <3>5. ASSUME NEW n \in Entries, InPlace(infos, n), NEW s \in Shards, s[1] = n
          PROVE  /\ infos'.shards[s].data = Checksum(s)
                 /\ Home(s) \in infos'.shards[s].locations
      <4>1. infos.shards[s].data = Checksum(s)
        BY <3>5 DEF InPlace
      <4>2. s \notin MissingShards
        BY <4>1, ChecksumFacts DEF MissingShards
      <4>3. data[s] = Checksum(s)
        BY <3>2, <4>1, <4>2, ReconstructionType
      <4>4. Home(s) \in LocationsOf(data[s])
        BY <4>3, ChecksumFacts
      <4>5. infos'.shards[s] = [data |-> data[s], locations |-> LocationsOf(data[s])]
        BY <3>4
      <4>6. QED BY <4>3, <4>4, <4>5
    <3>6. \A n \in Entries : InPlace(infos, n) => InPlace(infos', n)
      BY <3>5 DEF InPlace
    <3>7. ReadFilesHold(infos, touched.now, Len(RecoverySet) + 1)'
      BY <2>1, <3>1, <3>3, <3>6 DEF ReadFilesHold, Held
    <3>8. \A n \in Entries : wasOK'[n] = (infos.read[n] = Original[RecoverySet[n]])
      BY <2>4, <3>1, FileOKMeansIntact
    <3>9. \A n \in Entries : ~(n < i')
      BY <2>1, <2>4, EntryFacts
    <3>10. QED BY <1>0, <2>1, <2>4, <3>3, <3>7, <3>8, <3>9 DEF IndInv
  <2>5. QED BY <2>2, <2>3, <2>4
<1>10. CASE SkipFile
  <2>1. /\ pc = "repair" /\ pc' = "repair" /\ i \in Entries /\ wasOK[i] /\ i' = i + 1
        /\ UNCHANGED <<disk, touched, repaired, loaded, infos, wasOK, result>>
    BY <1>10 DEF SkipFile, fileVars, decoderVars, localVars
  <2>2. Held(i, touched.now)
    <3>1. infos.read[i] = Original[RecoverySet[i]]
      BY <2>1 DEF IndInv
    <3>2. i < Len(RecoverySet) + 1
      BY <2>1, EntryFacts DEF Entries
    <3>3. QED BY <2>1, <3>1, <3>2 DEF IndInv, ReadFilesHold
  <2>3. \A n \in Entries : n < i' => Held(n, touched.now)
    BY <2>1, <2>2, EntryFacts DEF IndInv
  <2>4. \A q \in repaired : \E n \in Entries : n < i' /\ q = RecoverySet[n]
    BY <2>1, EntryFacts DEF IndInv
  <2>5. QED BY <1>0, <2>1, <2>3, <2>4 DEF IndInv, ReadFilesHold, Held
<1>11. CASE HashMismatch
  BY <1>11, QuietStep DEF HashMismatch, Return, fileVars, decoderVars
<1>12. CASE OpenFile
  <2>1. /\ pc = "repair" /\ pc' = "writing" /\ i \in Entries /\ ~wasOK[i]
        /\ \A q \in Paths : q # RecoverySet[i] => disk'[q] = disk[q]
        /\ UNCHANGED <<touched, repaired, loaded, infos, wasOK, i, result>>
    BY <1>12 DEF OpenFile, decoderVars, localVars, TypeOK
  <2>2. /\ ReadFilesHold(infos, touched.now, Len(RecoverySet) + 1)'
        /\ \A n \in Entries : n < i => Held(n, touched.now)'
        /\ \A q \in repaired : disk'[q] = Original[q] \/ q \in touched'.now
    BY <2>1, OthersSpared
  <2>3. QED BY <1>0, <2>1, <2>2 DEF IndInv
<1>13. CASE FinishWrite
  <2>1. /\ pc = "writing" /\ pc' = "repair" /\ i \in Entries /\ ~wasOK[i] /\ i' = i + 1
        /\ \A q \in Paths : q # RecoverySet[i] => disk'[q] = disk[q]
        /\ repaired' = repaired \cup {RecoverySet[i]}
        /\ UNCHANGED <<loaded, infos, wasOK, result>>
    BY <1>13 DEF FinishWrite, decoderVars, localVars, IndInv, WriteInProgress, TypeOK
  <2>2. disk'[RecoverySet[i]] = Original[RecoverySet[i]]
    BY <1>13, EntryFacts, <2>1 DEF FinishWrite, IndInv, WriteInProgress, TypeOK
  <2>3. touched'.now = touched.now \ {RecoverySet[i]}
    BY <1>13 DEF FinishWrite, TypeOK
  <2>4. /\ ReadFilesHold(infos, touched.now, Len(RecoverySet) + 1)'
        /\ \A n \in Entries : n < i => Held(n, touched.now)'
        /\ \A q \in repaired : disk'[q] = Original[q] \/ q \in touched'.now
    BY <2>1, <2>3, OthersSpared
  <2>5. \A n \in Entries : n < i' => n = i \/ n < i
    BY <2>1, EntryFacts
  <2>6. \A n \in Entries : n < i' => n = i \/ Held(n, touched.now)'
    BY <2>4, <2>5
  <2>7. \A n \in Entries : n < i' =>
          \/ disk'[RecoverySet[n]] = Original[RecoverySet[n]]
          \/ RecoverySet[n] \in touched'.now
    BY <2>2, <2>6 DEF Held
  <2>8. \A q \in repaired' : \E n \in Entries : n < i' /\ q = RecoverySet[n]
    BY <2>1, EntryFacts DEF IndInv
  <2>9. \A q \in repaired' : disk'[q] = Original[q] \/ q \in touched'.now
    BY <2>1, <2>2, <2>4
  <2>10. QED BY <1>0, <2>1, <2>4, <2>7, <2>8, <2>9 DEF IndInv, Held
<1>14. CASE EndRepair
  <2>1. /\ pc = "repair" /\ pc' = "idle" /\ i' = 1 /\ i \notin Entries
        /\ UNCHANGED <<disk, touched, repaired, loaded, infos>>
    BY <1>14 DEF EndRepair, Return, fileVars, decoderVars
  <2>2. \A n \in Entries : n < i
    BY <2>1, EntryFacts DEF Entries, TypeOK
  <2>3. \A n \in Entries : Held(n, touched.now)
    BY <2>1, <2>2 DEF IndInv
  <2>4. QED BY <1>0, <2>1, <2>3 DEF IndInv, ReadFilesHold, Held
<1>15. CASE OpenFails
  BY <1>15, QuietStep DEF OpenFails, Return, fileVars, decoderVars
<1>16. CASE WriteFails
  <2>1. /\ pc = "writing" /\ pc' = "idle" /\ i' = 1 /\ i \in Entries /\ ~wasOK[i]
        /\ \A q \in Paths : q # RecoverySet[i] => disk'[q] = disk[q]
        /\ result' = "writeError"
        /\ UNCHANGED <<touched, repaired, loaded, infos>>
    BY <1>16 DEF WriteFails, Tear, Return, decoderVars, IndInv, WriteInProgress, TypeOK
  <2>2. /\ ReadFilesHold(infos, touched.now, Len(RecoverySet) + 1)'
        /\ \A q \in repaired : disk'[q] = Original[q] \/ q \in touched'.now
    BY <2>1, OthersSpared
  <2>3. QED BY <1>0, <2>1, <2>2 DEF IndInv
<1>17. CASE Crash
  <2>1. pc' = "none" /\ i' = 1 /\ ~loaded' /\ repaired' = {} /\ result' = "none"
    BY <1>17 DEF Crash, Die
  <2>2. QED BY <1>0, <2>1 DEF IndInv
<1>18. CASE DamageFile
  <2>1. PICK p \in Paths, c \in Contents :
          /\ disk' = [disk EXCEPT ![p] = c]
          /\ touched' = [now |-> touched.now \cup {p}, load |-> touched.load \cup {p}]
    BY <1>18 DEF DamageFile
  <2>2. /\ touched'.now = touched.now \cup {p}
        /\ touched'.load = touched.load \cup {p}
        /\ UNCHANGED <<loaded, infos, loading, wasOK, pc, i, repaired, result>>
    BY <1>18, <2>1 DEF DamageFile, decoderVars, localVars
  <2>3. \A q \in Paths : q # p => disk'[q] = disk[q]
    BY <2>1 DEF TypeOK
  <2>4. \A n \in Entries : Held(n, touched.now) => Held(n, touched.now)'
    BY <2>2, <2>3, EntryFacts DEF Held
  <2>5. \A n \in Entries : Held(n, touched.load) => Held(n, touched.load)'
    BY <2>2, <2>3, EntryFacts DEF Held
  <2>6. \A q \in repaired : disk'[q] = Original[q] \/ q \in touched'.now
    BY <2>2, <2>3 DEF IndInv, TypeOK
  <2>7. pc = "files" => ReadFilesHold(loading, touched.load, i)'
    BY <2>2, <2>5 DEF IndInv, ReadFilesHold
  <2>8. loaded => ReadFilesHold(infos, touched.now, Len(RecoverySet) + 1)'
    BY <2>2, <2>4 DEF IndInv, ReadFilesHold
  <2>9. QED BY <1>0, <2>2, <2>4, <2>6, <2>7, <2>8 DEF IndInv
<1>19. CASE DamageVolume
  BY <1>0, <1>19 DEF DamageVolume, decoderVars, localVars, IndInv, ReadFilesHold, Held
<1>20. CASE DamageIndex
  BY <1>0, <1>20 DEF DamageIndex, decoderVars, localVars, IndInv, ReadFilesHold, Held
<1>21. CASE UNCHANGED vars
  BY <1>0, <1>21 DEF vars, fileVars, decoderVars, localVars, IndInv, ReadFilesHold, Held
<1>22. QED
  BY <1>1, <1>2, <1>3, <1>4, <1>5, <1>6, <1>7, <1>8, <1>9, <1>10, <1>11, <1>12, <1>13,
     <1>14, <1>15, <1>16, <1>17, <1>18, <1>19, <1>20, <1>21
  DEF Next, Call, LoadStep, RepairStep, Fault, Damage

\* In a recovery set without duplicate entries the decoder keeps, through every
\* call, fault and outside change, what IndInv says of its infos and the disk.
THEOREM Consistent == Spec => []DecoderConsistent
<1>1. Init => DecoderConsistent
  BY InitConsistent DEF DecoderConsistent
<1>2. DistinctIDs => DistinctIDs'
  BY DEF DistinctIDs
<1>3. TypeOK /\ DecoderConsistent /\ [Next]_vars => DecoderConsistent'
  BY <1>2, StepConsistent DEF DecoderConsistent, DistinctIDs
<1>4. QED BY <1>1, <1>3, TypeCorrect, PTL DEF Spec

\* A Repair that returns without an error leaves the original bytes in every
\* file of the set, but for those that other programs changed meanwhile.
THEOREM RepairRestores == Spec => []SuccessRestores
<1>1. DecoderConsistent => SuccessRestores
  BY DEF DecoderConsistent, IndInv, SuccessRestores, Held
<1>2. QED BY <1>1, Consistent, PTL

\* The paths that Repair returns, with or without an error, hold their original
\* bytes.
THEOREM RepairedPathsAreRestored == Spec => []RepairedPathsHold
<1>1. DecoderConsistent => RepairedPathsHold
  BY DEF DecoderConsistent, IndInv, RepairedPathsHold
<1>2. QED BY <1>1, Consistent, PTL

\* Repair never truncates a file that was intact when LoadFileData read it.
THEOREM RepairSparesIntact == Spec => IntactNotOpened
<1> DEFINE Spares == pc = "repair" /\ pc' = "writing" =>
                       (DistinctIDs => infos.read[i] # Original[RecoverySet[i]])
<1>1. ASSUME TypeOK, DecoderConsistent, DistinctIDs, [Next]_vars, pc = "repair", pc' = "writing"
      PROVE  infos.read[i] # Original[RecoverySet[i]]
  <2>1. OpenFile
    BY <1>1 DEF Next, Call, LoadStep, RepairStep, Fault, Damage, NewDecoder, LoadFileData,
       LoadDataFile, StoreFileData, LoadParityData, LoadVolume, StoreParityData, RepairFails,
       Repair, SkipFile, HashMismatch, FinishWrite, EndRepair, OpenFails, WriteFails, Crash,
       DamageFile, DamageVolume, DamageIndex, Return, Die, localVars, vars
  <2>2. i \in Entries /\ ~wasOK[i]
    BY <2>1 DEF OpenFile
  <2>3. QED BY <1>1, <2>2 DEF DecoderConsistent, IndInv
<1>2. TypeOK /\ DecoderConsistent /\ [Next]_vars => Spares
  BY <1>1
<1>3. QED BY <1>2, TypeCorrect, Consistent, PTL DEF Spec, IntactNotOpened

\* What a write puts in place of the old content is the beginning of the
\* original one, and so is what is left of it when it is cut short.
LEMMA PrefixOfOriginal ==
  ASSUME NEW n \in Entries, NEW p \in Paths, TypeOK, NEW bytes,
         disk' = [disk EXCEPT ![RecoverySet[n]] = bytes],
         NEW k \in 0 .. Len(Original[RecoverySet[n]]),
         bytes = SubSeq(Original[RecoverySet[n]], 1, k),
         disk'[p] # disk[p]
  PROVE  \E l \in 0 .. Len(Original[p]) : disk'[p] = SubSeq(Original[p], 1, l)
<1>1. p = RecoverySet[n]
  BY DEF TypeOK
<1>2. QED BY <1>1 DEF TypeOK

\* Only originals are written: the decoder checks the hash of what it assembled
\* before it opens the file, so nothing else can reach the disk.
THEOREM OnlyOriginalsWritten == Spec => WritesOnlyOriginals
<1> DEFINE Prefix(p) == \E k \in 0 .. Len(Original[p]) : disk'[p] = SubSeq(Original[p], 1, k)
           Writes == \A p \in Paths : damage' = damage /\ disk'[p] # disk[p] => Prefix(p)
<1>1. ASSUME TypeOK, WriteInProgress, [Next]_vars, NEW p \in Paths,
             damage' = damage, disk'[p] # disk[p]
      PROVE  Prefix(p)
  <2>1. CASE OpenFile
    <3>1. i \in Entries /\ disk' = [disk EXCEPT ![RecoverySet[i]] = <<>>]
      BY <2>1 DEF OpenFile
    <3>2. Original[RecoverySet[i]] \in Seq(Byte) /\ 0 \in 0 .. Len(Original[RecoverySet[i]])
      BY <3>1, EntryFacts, OriginalFacts
    <3>3. <<>> = SubSeq(Original[RecoverySet[i]], 1, 0)
      BY <3>2
    <3>4. QED BY <1>1, <3>1, <3>2, <3>3, PrefixOfOriginal
  <2>2. CASE FinishWrite
    <3> DEFINE o == Original[RecoverySet[i]]
    <3>1. i \in Entries /\ disk' = [disk EXCEPT ![RecoverySet[i]] = o]
      BY <1>1, <2>2 DEF FinishWrite, WriteInProgress
    <3>2. o \in Seq(Byte) /\ Len(o) \in 0 .. Len(o)
      BY <3>1, EntryFacts, OriginalFacts
    <3>3. o = SubSeq(o, 1, Len(o))
      BY <3>2
    <3>4. QED BY <1>1, <3>1, <3>2, <3>3, PrefixOfOriginal
  <2>3. CASE pc = "writing" /\ Tear
    <3> DEFINE o == Original[RecoverySet[i]]
    <3>1. i \in Entries /\ Assembled(i) = o
      BY <1>1, <2>3 DEF WriteInProgress
    <3>2. PICK k \in 0 .. Len(o) : disk' = [disk EXCEPT ![RecoverySet[i]] = SubSeq(o, 1, k)]
      BY <2>3, <3>1 DEF Tear
    <3>3. QED BY <1>1, <3>1, <3>2, PrefixOfOriginal
  <2>4. CASE UNCHANGED disk
    BY <1>1, <2>4
  <2>5. CASE damage' = damage + 1
    BY <1>1, <2>5 DEF TypeOK
  <2>6. QED
    BY <1>1, <2>1, <2>2, <2>3, <2>4, <2>5
    DEF Next, Call, LoadStep, RepairStep, Fault, Damage, NewDecoder, LoadFileData,
       LoadDataFile, StoreFileData, LoadParityData, LoadVolume, StoreParityData, RepairFails,
       Repair, SkipFile, HashMismatch, EndRepair, OpenFails, WriteFails, Crash, DamageFile,
       DamageVolume, DamageIndex, fileVars, vars
<1>2. TypeOK /\ WriteInProgress /\ [Next]_vars => Writes
  BY <1>1
<1>3. QED BY <1>2, TypeCorrect, PTL DEF Spec, WritesOnlyOriginals
-------------------------------------------------------------------------------
(* With volumes that are all of the files as they were, nothing wrong gets in: *)
(* the scan keeps only slices that belong where it notes them, every parity    *)
(* shard is right, and what is reconstructed from both is the original data.   *)

RightData(inf)   == \A s \in Shards : inf.shards[s].data \in {NilData, Checksum(s)}
RightParity(par) == \A e \in Exponents : par[e] # "wrong"

Unmixed ==
  /\ RightData(infos) /\ RightData(loading)
  /\ RightParity(parity) /\ RightParity(shards)
  /\ pc \in {"repair", "writing"} => \A s \in Shards : infos.shards[s].data = Checksum(s)
  /\ result \notin {"parityCheck", "hashMismatch"}

\* Byte k of a file lies in its slice of that number.
LEMMA ByteOfSlice ==
  ASSUME NEW len \in Nat, NEW k \in 1 .. len
  PROVE  LET q == (k - 1) \div SliceByteCount
             r == (k - 1) % SliceByteCount
         IN  /\ q \in Nat /\ r \in 0 .. SliceByteCount - 1
             /\ q * SliceByteCount + r = k - 1
             /\ q * SliceByteCount < len
BY SliceByteCountAssumption

\* A file whose shards are all there assembles to its original bytes.
LEMMA AssembledRight ==
  ASSUME NEW n \in Entries, \A s \in Shards : infos.shards[s].data = Checksum(s)
  PROVE  Assembled(n) = Original[RecoverySet[n]]
<1> DEFINE o    == Original[RecoverySet[n]]
           q(k) == (k - 1) \div SliceByteCount
           r(k) == (k - 1) % SliceByteCount
<1>1. o \in Seq(Byte) /\ Len(o) \in Nat
  BY EntryFacts, OriginalFacts
<1>2. ASSUME NEW k \in 1 .. Len(o)
      PROVE  infos.shards[<<n, q(k)>>].data[r(k) + 1] = o[k]
  <2>1. /\ q(k) \in Nat /\ r(k) + 1 \in 1 .. SliceByteCount
        /\ q(k) * SliceByteCount + (r(k) + 1) = k
        /\ q(k) * SliceByteCount < Len(o)
    BY <1>1, ByteOfSlice, SliceByteCountAssumption
  <2> HIDE DEF q, r
  <2>2. <<n, q(k)>> \in Shards
    BY <2>1, OwnSlicesKnown
  <2>3. infos.shards[<<n, q(k)>>].data = Slice(o, q(k) * SliceByteCount)
    BY <2>2 DEF Checksum
  <2>4. Slice(o, q(k) * SliceByteCount)[r(k) + 1] = o[k]
    BY <1>1, <2>1 DEF Slice
  <2>5. QED BY <2>3, <2>4
<1>3. Assembled(n) = [k \in 1 .. Len(o) |-> o[k]]
  BY <1>2 DEF Assembled
<1>4. o = [k \in 1 .. Len(o) |-> o[k]]
  BY <1>1
<1>5. QED BY <1>3, <1>4

LEMMA BlankRight == RightData(BlankInfos) /\ RightParity(NoParity)
BY DEF RightData, RightParity, BlankInfos, NoParity

LEMMA FillRight ==
  ASSUME NEW old, NEW p, NEW bytes, \A s \in Shards : old[s].data \in {NilData, Checksum(s)},
         NEW s \in Shards
  PROVE  FillShardInfos(old, p, bytes)[s].data \in {NilData, Checksum(s)}
<1> DEFINE hits     == ScanHits(bytes, KnownSlices)
           found(t) == {<<p, j>> : j \in {h \in hits : Slice(bytes, h) = Checksum(t)}}
<1>1. FillShardInfos(old, p, bytes)[s] =
        IF s[1] = IndexOf(RecoverySet[s[1]]) /\ found(s) # {}
        THEN [data |-> Checksum(s), locations |-> old[s].locations \cup found(s)]
        ELSE old[s]
  BY DEF FillShardInfos
<1> HIDE DEF found
<1>2. QED BY <1>1

\* What is reconstructed from right shards is all right, and agrees with the parity.
LEMMA ReconstructedRight ==
  ASSUME TypeOK, Unmixed, NEW data \in Reconstructions
  PROVE  /\ \A s \in Shards : data[s] = Checksum(s)
         /\ ParityChecks(data) = {TRUE}
<1>1. \A e \in AvailableParity : parity[e] = "right"
  BY DEF AvailableParity, TypeOK, Unmixed, RightParity
<1>2. \A e \in UsedParity : parity[e] = "right"
  BY <1>1 DEF UsedParity
<1>3. \A s \in Shards \ MissingShards : infos.shards[s].data = Checksum(s)
  BY DEF MissingShards, Unmixed, RightData
<1>4. data = [s \in Shards |->
                IF s \notin MissingShards THEN infos.shards[s].data
                ELSE IF s \in MissingShards THEN Checksum(s) ELSE Junk]
  BY <1>2, <1>3 DEF Reconstructions
<1>5. \A s \in Shards : data[s] = Checksum(s)
  BY <1>3, <1>4
<1>6. QED BY <1>1, <1>5 DEF ParityChecks

LEMMA InitUnmixed == Init => Unmixed
BY BlankRight DEF Init, Unmixed

\* A call ends, or the Decoder is gone.
LEMMA ReturnUnmixed ==
  ASSUME NEW outcome, outcome \notin {"parityCheck", "hashMismatch"}, Return(outcome),
         RightData(infos'), RightParity(parity')
  PROVE  Unmixed'
BY BlankRight DEF Return, Unmixed, RightData, RightParity

LEMMA DieUnmixed ==
  ASSUME NEW outcome, outcome \notin {"parityCheck", "hashMismatch"}, Die(outcome)
  PROVE  Unmixed'
BY BlankRight DEF Die, Unmixed, RightData, RightParity

LEMMA StepUnmixed ==
  ASSUME TypeOK, stale = {}, Unmixed, [Next]_vars
  PROVE  Unmixed'
<1>1. CASE LoadDataFile
  <2> DEFINE p == RecoverySet[i]
  <2>1. pc = "files" /\ UNCHANGED decoderVars
    BY <1>1 DEF LoadDataFile
  <2>2. CASE Return("fileError")
    BY <2>1, <2>2, ReturnUnmixed DEF decoderVars, Unmixed
  <2>3. CASE /\ loading' = [read   |-> [loading.read EXCEPT ![i] = disk[p]],
                            shards |-> IF disk[p] = Missing THEN loading.shards
                                       ELSE FillShardInfos(loading.shards, p, disk[p])]
             /\ UNCHANGED <<pc, shards, result>>
    <3>1. loading'.shards = IF disk[p] = Missing THEN loading.shards
                            ELSE FillShardInfos(loading.shards, p, disk[p])
      BY <2>3
    <3>2. \A s \in Shards : loading.shards[s].data \in {NilData, Checksum(s)}
      BY DEF Unmixed, RightData
    <3>3. RightData(loading')
      BY <3>1, <3>2, FillRight DEF RightData
    <3>4. QED BY <2>1, <2>3, <3>3 DEF decoderVars, Unmixed, RightData, RightParity
  <2>4. QED BY <1>1, <2>2, <2>3 DEF LoadDataFile
<1>2. CASE StoreFileData
  BY <1>2, ReturnUnmixed DEF StoreFileData, Unmixed
<1>3. CASE LoadVolume
  <2>1. pc = "volumes"
    BY <1>3 DEF LoadVolume
  <2>2. CASE Return("parityError") /\ UNCHANGED decoderVars
    BY <2>2, ReturnUnmixed DEF decoderVars, Unmixed
  <2>3. CASE Die("panic")
    BY <2>3, DieUnmixed
  <2>4. CASE /\ shards' = IF i \in matches THEN WithVolume(shards, i) ELSE shards
             /\ UNCHANGED <<decoderVars, loading, pc, result>>
    <3>1. RightParity(WithVolume(shards, i))
      BY DEF WithVolume, RightParity, Unmixed
    <3>2. RightParity(shards')
      BY <2>4, <3>1 DEF Unmixed
    <3>3. QED BY <2>1, <2>4, <3>2 DEF decoderVars, Unmixed, RightData, RightParity
  <2>5. QED BY <1>3, <2>2, <2>3, <2>4 DEF LoadVolume
<1>4. CASE StoreParityData
  BY <1>4, ReturnUnmixed DEF StoreParityData, Unmixed
<1>5. CASE RepairFails
  BY <1>5, ReturnUnmixed DEF RepairFails, RepairError, decoderVars, Unmixed
<1>6. CASE Repair
  <2>1. PICK data \in Reconstructions, checkParity \in BOOLEAN :
         \E matching \in IF checkParity THEN ParityChecks(data) ELSE {TRUE} :
           \/ ~matching
           \/ /\ infos' = [infos EXCEPT !.shards =
                   [s \in Shards |-> [data      |-> data[s],
                                      locations |-> LocationsOf(data[s])]]]
              /\ pc' = "repair" /\ result' = "pending"
              /\ UNCHANGED <<parity, loading, shards>>
    BY <1>6 DEF Repair
  <2>2. (\A s \in Shards : data[s] = Checksum(s)) /\ ParityChecks(data) = {TRUE}
    BY ReconstructedRight
  <2>3. /\ infos' = [infos EXCEPT !.shards =
              [s \in Shards |-> [data      |-> data[s],
                                 locations |-> LocationsOf(data[s])]]]
        /\ pc' = "repair" /\ result' = "pending"
        /\ UNCHANGED <<parity, loading, shards>>
    BY <2>1, <2>2
  <2>4. \A s \in Shards : infos'.shards[s].data = Checksum(s)
    BY <2>2, <2>3 DEF TypeOK, InfosType
  <2>5. QED BY <2>3, <2>4 DEF Unmixed, RightData, RightParity
<1>7. CASE HashMismatch
  BY <1>7, AssembledRight DEF HashMismatch, Unmixed
<1>8. CASE OpenFails \/ WriteFails \/ EndRepair
  BY <1>8, ReturnUnmixed DEF OpenFails, WriteFails, EndRepair, decoderVars, Unmixed
<1>9. CASE Crash
  BY <1>9, DieUnmixed DEF Crash
<1>10. CASE NewDecoder \/ LoadFileData \/ LoadParityData
  BY <1>10
  DEF NewDecoder, LoadFileData, LoadParityData, decoderVars, localVars, Unmixed, RightData,
      RightParity
<1>11. CASE SkipFile \/ OpenFile \/ FinishWrite
  BY <1>11
  DEF SkipFile, OpenFile, FinishWrite, decoderVars, localVars, Unmixed, RightData, RightParity
<1>12. CASE Damage \/ UNCHANGED vars
  BY <1>12
  DEF Damage, DamageFile, DamageVolume, DamageIndex, vars, decoderVars, localVars, Unmixed,
      RightData, RightParity
<1>13. QED
  BY <1>1, <1>2, <1>3, <1>4, <1>5, <1>6, <1>7, <1>8, <1>9, <1>10, <1>11, <1>12
  DEF Next, Call, LoadStep, RepairStep, Fault

NoStaleUnmixed == stale = {} => Unmixed

LEMMA StaysUnmixed == Spec => []NoStaleUnmixed
<1>1. Init => NoStaleUnmixed
  BY InitUnmixed DEF NoStaleUnmixed
<1>2. [Next]_vars => UNCHANGED stale
  BY DEF Next, Call, LoadStep, RepairStep, Fault, Damage, NewDecoder, LoadFileData,
     LoadDataFile, StoreFileData, LoadParityData, LoadVolume, StoreParityData, RepairFails,
     Repair, SkipFile, HashMismatch, EndRepair, OpenFile, FinishWrite, OpenFails, WriteFails,
     Crash, DamageFile, DamageVolume, DamageIndex, fileVars, vars
<1>3. TypeOK /\ NoStaleUnmixed /\ [Next]_vars => NoStaleUnmixed'
  BY <1>2, StepUnmixed DEF NoStaleUnmixed
<1>4. QED BY <1>1, <1>3, TypeCorrect, PTL DEF Spec

\* A shard that ShardCounts calls usable is not corrupt, after any calls and faults,
\* unless some volume is of other data.
THEOREM UsableShardsRight == Spec => []UsableNotCorrupt
<1>1. NoStaleUnmixed => UsableNotCorrupt
  BY DEF NoStaleUnmixed, Unmixed, RightData, UsableNotCorrupt
<1>2. QED BY <1>1, StaysUnmixed, PTL

\* When all volumes are of the files as they were, Repair never ends in the middle of its
\* work with data that fails a check, whatever is missing and whichever parity is there.
THEOREM MismatchOnlyIfStale == Spec => []MismatchMeansStale
<1>1. NoStaleUnmixed => MismatchMeansStale
  BY DEF NoStaleUnmixed, Unmixed, MismatchMeansStale
<1>2. QED BY <1>1, StaysUnmixed, PTL
-------------------------------------------------------------------------------
(* What the counts say after LoadFileData: every shard that is held was found  *)
(* in a file that was read.                                                    *)

FoundIn(inf, s, last) ==
  \E n \in Entries :
    /\ n < last
    /\ inf.read[n] # Missing
    /\ \E j \in 0 .. Len(inf.read[n]) - 1 : Slice(inf.read[n], j) = Checksum(s)

HeldAreFound(inf, last) ==
  \A s \in Shards : inf.shards[s].data # NilData => FoundIn(inf, s, last)

Searched ==
  /\ pc \in {"none", "idle"} => loading = BlankInfos /\ i = 1
  /\ pc = "files" => HeldAreFound(loading, i)
  /\ result = "filesLoaded" =>
       pc = "idle" /\ loaded /\ HeldAreFound(infos, Len(RecoverySet) + 1)

LEMMA ShardsFinite == IsFiniteSet(Shards)
<1> DEFINE Of(n) == {<<n, k>> : k \in {l \in 0 .. Len(Original[RecoverySet[n]]) - 1 :
                                        l * SliceByteCount < Len(Original[RecoverySet[n]])}}
           parts == {Of(n) : n \in Entries}
<1>1. ASSUME NEW n \in Entries PROVE IsFiniteSet(Of(n))
  <2> DEFINE numbers == {l \in 0 .. Len(Original[RecoverySet[n]]) - 1 :
                           l * SliceByteCount < Len(Original[RecoverySet[n]])}
             f == [k \in numbers |-> <<n, k>>]
  <2>1. Len(Original[RecoverySet[n]]) - 1 \in Nat
    BY EntryFacts, OriginalFacts
  <2>2. IsFiniteSet(0 .. Len(Original[RecoverySet[n]]) - 1)
    BY <2>1, FS_Interval
  <2>3. IsFiniteSet(numbers)
    BY <2>2, FS_Subset
  <2> HIDE DEF numbers
  <2>4. f \in Surjection(numbers, Of(n))
    BY DEF Surjection, numbers
  <2>5. QED BY <2>3, <2>4, FS_Surjection DEF ExistsSurjection
<1>2. IsFiniteSet(parts)
  <2> DEFINE f == [n \in Entries |-> Of(n)]
  <2>1. IsFiniteSet(Entries)
    BY EntryFacts, FS_Interval DEF Entries
  <2> HIDE DEF Of
  <2>2. f \in Surjection(Entries, parts)
    BY DEF Surjection
  <2>3. QED BY <2>1, <2>2, FS_Surjection DEF ExistsSurjection
<1>3. \A T \in parts : IsFiniteSet(T)
  BY <1>1
<1>4. IsFiniteSet(UNION parts)
  BY <1>2, <1>3, FS_UNION
<1>5. QED BY <1>4 DEF Shards

LEMMA NothingMissing == RepairNeeded <=> MissingShards # {}
<1>1. IsFiniteSet(MissingShards)
  BY ShardsFinite, FS_Subset DEF MissingShards
<1>2. Cardinality(MissingShards) \in Nat /\ (Cardinality(MissingShards) = 0 <=> MissingShards = {})
  BY <1>1, FS_CardinalityType, FS_EmptySet
<1>3. QED BY <1>2 DEF RepairNeeded

\* The scan of the file of entry i: what it holds was held before, or is there.
LEMMA FillFinds ==
  ASSUME NEW old, NEW p, NEW bytes, NEW s \in Shards
  PROVE  LET new == FillShardInfos(old, p, bytes)
         IN  \/ new[s].data = old[s].data
             \/ \E j \in 0 .. Len(bytes) - 1 : Slice(bytes, j) = Checksum(s)
<1> DEFINE hits     == ScanHits(bytes, KnownSlices)
           found(t) == {<<p, j>> : j \in {h \in hits : Slice(bytes, h) = Checksum(t)}}
<1>1. FillShardInfos(old, p, bytes)[s] =
        IF s[1] = IndexOf(RecoverySet[s[1]]) /\ found(s) # {}
        THEN [data |-> Checksum(s), locations |-> old[s].locations \cup found(s)]
        ELSE old[s]
  BY DEF FillShardInfos
<1>2. CASE found(s) = {}
  <2> HIDE DEF found
  <2>1. QED BY <1>1, <1>2
<1>3. CASE found(s) # {}
  <2>1. PICK j \in hits : Slice(bytes, j) = Checksum(s)
    BY <1>3
  <2>2. QED BY <2>1 DEF ScanHits
<1>4. QED BY <1>2, <1>3

LEMMA InitSearched == Init => Searched
BY DEF Init, Searched

LEMMA StepSearched ==
  ASSUME TypeOK, Searched, [Next]_vars
  PROVE  Searched'
<1>1. CASE LoadDataFile
  <2> DEFINE p == RecoverySet[i]
  <2>1. pc = "files" /\ i \in Entries /\ UNCHANGED decoderVars
    BY <1>1 DEF LoadDataFile
  <2>2. CASE Return("fileError")
    BY <2>2 DEF Return, Searched
  <2>3. CASE /\ disk[p] # Unreadable
             /\ loading' = [read   |-> [loading.read EXCEPT ![i] = disk[p]],
                            shards |-> IF disk[p] = Missing THEN loading.shards
                                       ELSE FillShardInfos(loading.shards, p, disk[p])]
             /\ i' = i + 1
             /\ UNCHANGED <<pc, result>>
    <3>1. /\ loading'.read[i] = disk[p]
          /\ \A n \in Entries : n # i => loading'.read[n] = loading.read[n]
      BY <2>1, <2>3 DEF TypeOK, InfosType
    <3>2. ASSUME NEW s \in Shards, FoundIn(loading, s, i) PROVE FoundIn(loading', s, i + 1)
      <4>1. PICK n \in Entries :
              /\ n < i /\ loading.read[n] # Missing
              /\ \E j \in 0 .. Len(loading.read[n]) - 1 : Slice(loading.read[n], j) = Checksum(s)
        BY <3>2 DEF FoundIn
      <4>2. n < i + 1 /\ n # i
        BY <2>1, <4>1, EntryFacts
      <4>3. loading'.read[n] = loading.read[n]
        BY <3>1, <4>2
      <4>4. QED BY <4>1, <4>2, <4>3 DEF FoundIn
    <3>3. ASSUME NEW s \in Shards, loading'.shards[s].data # NilData
          PROVE  FoundIn(loading', s, i + 1)
      <4>1. CASE loading'.shards[s].data = loading.shards[s].data
        BY <2>1, <3>2, <3>3, <4>1 DEF Searched, HeldAreFound
      <4>2. CASE loading'.shards[s].data # loading.shards[s].data
        <5>1. disk[p] # Missing /\ loading'.shards = FillShardInfos(loading.shards, p, disk[p])
          BY <2>3, <4>2
        <5>2. \E j \in 0 .. Len(disk[p]) - 1 : Slice(disk[p], j) = Checksum(s)
          BY <4>2, <5>1, FillFinds
        <5>3. i < i + 1
          BY <2>1, EntryFacts
        <5>4. QED BY <2>1, <3>1, <5>1, <5>2, <5>3 DEF FoundIn
      <4>3. QED BY <4>1, <4>2
    <3>4. HeldAreFound(loading', i')
      BY <2>3, <3>3 DEF HeldAreFound
    <3>5. HeldAreFound(loading, i)'
      BY <3>4 DEF HeldAreFound, FoundIn
    <3>6. QED BY <2>1, <2>3, <3>5 DEF Searched
  <2>4. QED BY <1>1, <2>2, <2>3 DEF LoadDataFile
<1>2. CASE StoreFileData
  <2>1. pc = "files" /\ i \notin Entries /\ infos' = loading /\ loaded' = TRUE /\ Return("filesLoaded")
    BY <1>2 DEF StoreFileData
  <2>2. HeldAreFound(loading, Len(RecoverySet) + 1)
    <3>1. ASSUME NEW s \in Shards, FoundIn(loading, s, i)
          PROVE  FoundIn(loading, s, Len(RecoverySet) + 1)
      <4>1. \A n \in Entries : n < Len(RecoverySet) + 1
        BY EntryFacts DEF Entries
      <4>2. QED BY <3>1, <4>1 DEF FoundIn
    <3>2. QED BY <2>1, <3>1 DEF Searched, HeldAreFound
  <2>3. HeldAreFound(infos, Len(RecoverySet) + 1)'
    BY <2>1, <2>2 DEF HeldAreFound, FoundIn
  <2>4. QED BY <2>1, <2>3 DEF Return, Searched
<1>3. CASE LoadFileData
  <2>1. loading' = BlankInfos /\ pc' = "files" /\ result' = "pending"
    BY <1>3 DEF LoadFileData, localVars, Searched
  <2>2. HeldAreFound(loading, i)'
    BY <2>1 DEF HeldAreFound, BlankInfos
  <2>3. QED BY <2>1, <2>2 DEF Searched
<1>4. CASE NewDecoder
  BY <1>4 DEF NewDecoder, localVars, Searched
<1>5. CASE LoadParityData
  BY <1>5 DEF LoadParityData, Searched
<1>6. CASE LoadVolume
  BY <1>6 DEF LoadVolume, decoderVars, Return, Die, Searched
<1>7. CASE RepairFails
  BY <1>7 DEF RepairFails, RepairError, Return, Searched
<1>8. CASE Repair
  BY <1>8 DEF Repair, Return, Searched
<1>9. CASE StoreParityData \/ HashMismatch \/ OpenFails \/ WriteFails \/ EndRepair
  BY <1>9 DEF StoreParityData, HashMismatch, OpenFails, WriteFails, EndRepair, Return, Searched
<1>10. CASE Crash
  BY <1>10 DEF Crash, Die, Searched
<1>11. CASE SkipFile \/ OpenFile \/ FinishWrite
  BY <1>11 DEF SkipFile, OpenFile, FinishWrite, localVars, decoderVars, Searched
<1>12. CASE Damage \/ UNCHANGED vars
  <2>1. UNCHANGED <<loading, infos, loaded, pc, i, result>>
    BY <1>12
    DEF Damage, DamageFile, DamageVolume, DamageIndex, vars, decoderVars, localVars
  <2>2. QED BY <2>1 DEF Searched, HeldAreFound, FoundIn
<1>13. QED
  BY <1>1, <1>2, <1>3, <1>4, <1>5, <1>6, <1>7, <1>8, <1>9, <1>10, <1>11, <1>12
  DEF Next, Call, LoadStep, RepairStep, Fault

\* What the counts say after LoadFileData can be relied on, for any recovery set and any
\* slices that repeat or overlap: no repair is needed when all files were intact, and when
\* none is needed each slice was in some file that was read.
THEOREM VerdictReliable == Spec => []VerdictSound
<1>1. ASSUME DecoderConsistent, Searched, result = "filesLoaded", AllIntact(infos), DistinctIDs
      PROVE  ~RepairNeeded /\ \A n \in Entries : FileOK(infos, n)
  <2>1. ReadFilesHold(infos, touched.now, Len(RecoverySet) + 1)
    BY <1>1 DEF DecoderConsistent, IndInv, Searched
  <2>2. \A n \in Entries : FileOK(infos, n)
    BY <1>1, <2>1, FileOKMeansIntact DEF AllIntact
  <2>3. MissingShards = {}
    BY <2>2, ShardFacts DEF FileOK, AllShardsOK, MissingShards
  <2>4. QED BY <2>2, <2>3, NothingMissing
<1>2. ASSUME Searched, result = "filesLoaded", ~RepairNeeded, NEW s \in Shards
      PROVE  \E n \in Entries :
               /\ infos.read[n] # Missing
               /\ \E j \in 0 .. Len(infos.read[n]) - 1 : Slice(infos.read[n], j) = Checksum(s)
  <2>1. infos.shards[s].data # NilData
    BY <1>2, NothingMissing DEF MissingShards
  <2>2. QED BY <1>2, <2>1 DEF Searched, HeldAreFound, FoundIn
<1>3. DecoderConsistent /\ Searched => VerdictSound
  BY <1>1, <1>2 DEF VerdictSound
<1>4. Spec => []Searched
  BY InitSearched, StepSearched, TypeCorrect, PTL DEF Spec
<1>5. QED BY <1>3, <1>4, Consistent, PTL

-------------------------------------------------------------------------------
(* The commands. *)

\* What the client of a decoder does, and no other program.
OwnStep == Call \/ LoadStep \/ RepairStep \/ Fault

LEMMA CommandSteps ==
  ASSUME CommandNext
  PROVE  \/ \E c \in {"verify", "repair"} : Begin(c)
         \/ OwnStep /\ (hope' => hope /\ (Fault => pc # "writing"))
         \/ Damage /\ hope' = FALSE
<1>1. CASE Step
  <2>1. Call \/ LoadStep \/ RepairStep
    BY <1>1 DEF Step, LoadFiles, LoadParity, RepairFiles, Call
  <2>2. pc = "writing" => FinishWrite
    BY <2>1
    DEF Call, LoadStep, RepairStep, NewDecoder, LoadFileData, LoadParityData, RepairFails,
        Repair, LoadDataFile, StoreFileData, LoadVolume, StoreParityData, SkipFile,
        HashMismatch, OpenFile, EndRepair
  <2>3. FinishWrite => pc' = "repair"
    BY DEF FinishWrite
  <2>4. Fault => pc' # "repair"
    BY DEF Fault, OpenFails, WriteFails, Crash, Return, Die
  <2>5. UNCHANGED hope
    BY <1>1 DEF Step
  <2>6. QED BY <2>1, <2>2, <2>3, <2>4, <2>5 DEF OwnStep
<1>2. CASE Exit
  <2>1. pc = "idle" /\ Die("none") /\ UNCHANGED <<fileVars, hope>>
    BY <1>2 DEF Exit
  <2>2. Crash
    BY <2>1 DEF Crash, fileVars
  <2>3. QED BY <2>1, <2>2 DEF OwnStep, Fault
<1>3. CASE FaultyStep
  BY <1>3 DEF FaultyStep, OwnStep
<1>4. CASE DamagingStep
  BY <1>4 DEF DamagingStep
<1>5. QED BY <1>1, <1>2, <1>3, <1>4 DEF CommandNext

LEMMA StepIsClientStep == CommandNext => Next
<1>1. ASSUME NEW c \in {"verify", "repair"}, Begin(c) PROVE Next
  BY <1>1 DEF Begin, Next, Call
<1>2. QED BY <1>1, CommandSteps DEF OwnStep, Next

\* The commands use the decoder as its client may, so that what is proved of the decoder
\* holds whenever the commands run.
THEOREM CommandsUseDecoder == CommandSpec => Spec
<1>1. CommandInit => Init
  BY DEF CommandInit
<1>2. [CommandNext]_commandVars => [Next]_vars
  BY StepIsClientStep DEF commandVars
<1>3. QED BY <1>1, <1>2, PTL DEF CommandSpec, Spec
-------------------------------------------------------------------------------
(* What can be repaired stays so.  A file that is rewritten loses the slices   *)
(* that were found in it; if these were in their own places, its original      *)
(* bytes have them again, and the scan finds them there.                       *)

Holds(d, p, s) ==
  /\ d[p] \notin {Missing, Unreadable}
  /\ \E j \in ScanHits(d[p], KnownSlices) : Slice(d[p], j) = Checksum(s)

Lost(d) == {s \in Shards : \A n \in Entries : ~Holds(d, RecoverySet[n], s)}

InPlaceOn(d) ==
  \A p \in Paths : d[p] \notin {Missing, Unreadable} =>
    \A j \in ScanHits(d[p], KnownSlices) : <<p, j>> \in LocationsOf(Slice(d[p], j))

Restorable(d) ==
  /\ index = "ok"
  /\ \A n \in Entries : d[RecoverySet[n]] # Unreadable
  /\ \A v \in Volumes : volumes[v] \notin {"bad", "headless"}
  /\ ParityOnDisk # {}
  /\ Cardinality(Lost(d)) <= Cardinality(ParityOnDisk)
  /\ InPlaceOn(d)

\* What the files hold once the write that is under way is complete.
Final ==
  IF pc = "writing" THEN [disk EXCEPT ![RecoverySet[i]] = Original[RecoverySet[i]]] ELSE disk

Hopeful == hope => Restorable(Final)

\* Restorable, of the disk as it is, is what hope says when a command begins.
LEMMA RestorableDisk == Restorable(disk) <=> Recoverable /\ SlicesInPlace
<1>1. \A s \in Shards : OnDisk(s) <=> \E n \in Entries : Holds(disk, RecoverySet[n], s)
  BY DEF OnDisk, Holds
<1>2. Lost(disk) = {s \in Shards : ~OnDisk(s)}
  BY <1>1 DEF Lost
<1>3. InPlaceOn(disk) <=> SlicesInPlace
  BY DEF InPlaceOn, SlicesInPlace
<1>4. QED BY <1>2, <1>3 DEF Restorable, Recoverable

\* A scan of the original bytes hits its slices in their places, and nothing else.
LEMMA HitsAreMultiples ==
  ASSUME NEW n \in Entries, NEW j \in ScanHits(Original[RecoverySet[n]], KnownSlices)
  PROVE  \E k \in Nat : j = k * SliceByteCount /\ k * SliceByteCount < Len(Original[RecoverySet[n]])
<1> DEFINE bytes   == Original[RecoverySet[n]]
           starts  == {h \in 0 .. Len(bytes) - 1 : \E k \in Nat : h = k * SliceByteCount}
<1>1. Len(bytes) \in Nat \ {0} /\ SliceByteCount \in Nat \ {0}
  BY EntryFacts, OriginalFacts, SliceByteCountAssumption
<1>2. 0 \in starts
  <2>1. 0 = 0 * SliceByteCount /\ 0 \in 0 .. Len(bytes) - 1
    BY <1>1
  <2>2. QED BY <2>1
<1>3. ASSUME NEW h \in starts
      PROVE  /\ Slice(bytes, h) \in KnownSlices
             /\ h + SliceByteCount < Len(bytes) => h + SliceByteCount \in starts
  <2>1. PICK k \in Nat : h = k * SliceByteCount
    OBVIOUS
  <2>2. h \in Nat /\ h < Len(bytes)
    BY <1>1
  <2>3. Slice(bytes, h) \in KnownSlices
    BY <2>1, <2>2, OwnSlicesKnown
  <2>4. h + SliceByteCount = (k + 1) * SliceByteCount /\ k + 1 \in Nat
    BY <1>1, <2>1
  <2>5. h + SliceByteCount < Len(bytes) => h + SliceByteCount \in 0 .. Len(bytes) - 1
    BY <1>1, <2>2
  <2>6. QED BY <2>3, <2>4, <2>5
<1>4. starts \in SUBSET (0 .. Len(bytes) - 1)
  OBVIOUS
<1>5. j \in 0 .. Len(bytes) - 1 /\ \A offsets \in SUBSET (0 .. Len(bytes) - 1) :
         ScanClosed(offsets, bytes, KnownSlices) => j \in offsets
  BY DEF ScanHits
<1> HIDE DEF starts
<1>6. ScanClosed(starts, bytes, KnownSlices)
  BY <1>2, <1>3 DEF ScanClosed
<1>7. j \in starts
  BY <1>4, <1>5, <1>6
<1>8. j < Len(bytes) /\ \E k \in Nat : j = k * SliceByteCount
  BY <1>1, <1>7 DEF starts
<1>9. PICK k \in Nat : j = k * SliceByteCount
  BY <1>8
<1>10. k * SliceByteCount < Len(Original[RecoverySet[n]])
  BY <1>8, <1>9, Zenon
<1>11. QED BY <1>9, <1>10

LEMMA OriginalInPlace ==
  ASSUME NEW n \in Entries, NEW j \in ScanHits(Original[RecoverySet[n]], KnownSlices)
  PROVE  <<RecoverySet[n], j>> \in LocationsOf(Slice(Original[RecoverySet[n]], j))
<1>1. PICK k \in Nat : j = k * SliceByteCount /\ k * SliceByteCount < Len(Original[RecoverySet[n]])
  BY HitsAreMultiples
<1>2. <<n, k>> \in Shards
  BY <1>1, OwnSlicesKnown
<1>3. Home(<<n, k>>) = <<RecoverySet[n], j>> /\ Checksum(<<n, k>>) = Slice(Original[RecoverySet[n]], j)
  BY <1>1 DEF Home, Checksum
<1>4. QED BY <1>2, <1>3 DEF LocationsOf

\* A slice at one of its places in a file is found there in the original bytes.
LEMMA PlacesFound ==
  ASSUME NEW s \in Shards, NEW q, NEW j, <<q, j>> \in LocationsOf(Checksum(s))
  PROVE  j \in ScanHits(Original[q], KnownSlices) /\ Slice(Original[q], j) = Checksum(s)
<1>1. PICK t \in Shards : Checksum(t) = Checksum(s) /\ Home(t) = <<q, j>>
  BY DEF LocationsOf
<1>2. q = RecoverySet[t[1]] /\ j = t[2] * SliceByteCount
  BY <1>1 DEF Home
<1>3. t[1] \in Entries /\ t[2] \in Nat /\ t[2] * SliceByteCount < Len(Original[q])
  BY <1>2, ShardFacts
<1>4. Len(Original[q]) \in Nat
  BY <1>2, <1>3, EntryFacts, OriginalFacts
<1>5. \A k \in Nat : k * SliceByteCount < Len(Original[q]) =>
                       Slice(Original[q], k * SliceByteCount) \in KnownSlices
  BY <1>2, <1>3, OwnSlicesKnown
<1>6. j \in ScanHits(Original[q], KnownSlices)
  BY <1>2, <1>3, <1>4, <1>5, ScanFindsSlices
<1>7. Slice(Original[q], j) = Checksum(s)
  BY <1>1, <1>2 DEF Checksum
<1>8. QED BY <1>6, <1>7

LEMMA ElementType ==
  ASSUME NEW T, NEW sequence \in Seq(T), NEW v \in 1 .. Len(sequence)
  PROVE  sequence[v] \in T
OBVIOUS

LEMMA ParityFinite ==
  /\ ParityOnDisk \subseteq Exponents
  /\ IsFiniteSet(ParityOnDisk) /\ Cardinality(ParityOnDisk) \in Nat
<1>1. VolumeShards \in Seq(SUBSET Exponents) /\ IsFiniteSet(Exponents)
  BY VolumeAssumption
<1>2. ParityOnDisk \subseteq Exponents
  <2>1. ASSUME NEW e \in ParityOnDisk PROVE e \in Exponents
    <3>1. PICK v \in Volumes : e \in VolumeShards[v]
      BY VolumeAssumption DEF ParityOnDisk, RecoveryPackets
    <3>2. v \in 1 .. Len(VolumeShards)
      BY <3>1 DEF Volumes
    <3>3. VolumeShards[v] \in SUBSET Exponents
      BY <1>1, <3>2, ElementType
    <3>4. QED BY <3>1, <3>3
  <2>2. QED BY <2>1
<1>3. IsFiniteSet(ParityOnDisk)
  BY <1>1, <1>2, FS_Subset
<1>4. QED BY <1>2, <1>3, FS_CardinalityType

LEMMA RewritingRestores ==
  ASSUME NEW d \in [Paths -> FileContent], NEW n \in Entries, Restorable(d)
  PROVE  Restorable([d EXCEPT ![RecoverySet[n]] = Original[RecoverySet[n]]])
<1> DEFINE q == RecoverySet[n]
           new == [d EXCEPT ![q] = Original[q]]
<1>1. q \in Paths /\ new[q] = Original[q] /\ \A p \in Paths : p # q => new[p] = d[p]
  BY EntryFacts
<1>2. Original[q] # Missing /\ Original[q] # Unreadable
  BY <1>1, OriginalFacts
<1> HIDE DEF new
<1>3. ASSUME NEW s \in Shards, NEW p \in Paths, Holds(d, p, s)
      PROVE  Holds(new, p, s)
  <2>1. CASE p # q
    BY <1>1, <1>3, <2>1 DEF Holds
  <2>2. CASE p = q
    <3>1. PICK j \in ScanHits(d[q], KnownSlices) : Slice(d[q], j) = Checksum(s)
      BY <1>3, <2>2 DEF Holds
    <3>2. <<q, j>> \in LocationsOf(Checksum(s))
      BY <1>1, <1>3, <2>2, <3>1 DEF Holds, Restorable, InPlaceOn
    <3>3. j \in ScanHits(Original[q], KnownSlices) /\ Slice(Original[q], j) = Checksum(s)
      BY <3>2, PlacesFound
    <3>4. QED BY <1>1, <1>2, <2>2, <3>3 DEF Holds
  <2>3. QED BY <2>1, <2>2
<1>4. Lost(new) \subseteq Lost(d)
  BY <1>3, EntryFacts DEF Lost
<1>5. Cardinality(Lost(new)) <= Cardinality(ParityOnDisk)
  <2>1. IsFiniteSet(Lost(d)) /\ Cardinality(Lost(d)) \in Nat
    BY ShardsFinite, FS_Subset, FS_CardinalityType DEF Lost
  <2>2. Cardinality(Lost(new)) \in Nat /\ Cardinality(Lost(new)) <= Cardinality(Lost(d))
    BY <1>4, <2>1, FS_Subset, FS_CardinalityType
  <2>3. IsFiniteSet(ParityOnDisk) /\ Cardinality(ParityOnDisk) \in Nat
    BY ParityFinite
  <2>4. QED BY <2>1, <2>2, <2>3 DEF Restorable
<1>6. InPlaceOn(new)
  <2>1. ASSUME NEW p \in Paths, new[p] \notin {Missing, Unreadable},
               NEW j \in ScanHits(new[p], KnownSlices)
        PROVE  <<p, j>> \in LocationsOf(Slice(new[p], j))
    <3>1. CASE p = q
      BY <1>1, <2>1, <3>1, OriginalInPlace
    <3>2. CASE p # q
      BY <1>1, <2>1, <3>2 DEF Restorable, InPlaceOn
    <3>3. QED BY <3>1, <3>2
  <2>2. QED BY <2>1 DEF InPlaceOn
<1>7. \A m \in Entries : new[RecoverySet[m]] # Unreadable
  BY <1>1, <1>2, EntryFacts DEF Restorable
<1>8. Restorable(new)
  BY <1>5, <1>6, <1>7 DEF Restorable
<1>9. QED BY <1>8 DEF new

\* A step that leaves all files alone, outside of a write.
LEMMA QuietHope ==
  ASSUME Hopeful, hope' => hope, UNCHANGED <<disk, volumes, index>>,
         pc # "writing", pc' # "writing"
  PROVE  Hopeful'
<1>1. Final = disk /\ Final' = disk
  BY DEF Final
<1>2. ParityOnDisk' = ParityOnDisk
  BY DEF ParityOnDisk, RecoveryPackets
<1>3. hope => Restorable(disk)
  BY <1>1 DEF Hopeful
<1>4. Restorable(disk)' <=> Restorable(disk)
  BY <1>2 DEF Restorable, Lost, InPlaceOn, Holds
<1>5. Restorable(Final)' <=> Restorable(disk)'
  BY <1>1 DEF Restorable, Lost, InPlaceOn, Holds
<1>6. QED BY <1>3, <1>4, <1>5 DEF Hopeful

LEMMA OwnHope ==
  ASSUME TypeOK, WriteInProgress, Hopeful, OwnStep, hope' => hope /\ (Fault => pc # "writing")
  PROVE  Hopeful'
<1> DEFINE q == RecoverySet[i]
<1>1. CASE OpenFile
  <2>1. /\ i \in Entries /\ pc = "repair" /\ pc' = "writing"
        /\ disk' = [disk EXCEPT ![q] = <<>>] /\ UNCHANGED <<volumes, index, i>>
    BY <1>1 DEF OpenFile
  <2>2. q \in Paths
    BY <2>1, EntryFacts
  <2>3. Final = disk /\ disk \in [Paths -> FileContent]
    BY <2>1 DEF Final, TypeOK
  <2>4. Final' = [disk EXCEPT ![q] = Original[q]]
    BY <2>1, <2>2, <2>3 DEF Final
  <2>5. hope' => Restorable([disk EXCEPT ![q] = Original[q]])
    BY <2>1, <2>3, RewritingRestores DEF Hopeful
  <2>6. ParityOnDisk' = ParityOnDisk
    BY <2>1 DEF ParityOnDisk, RecoveryPackets
  <2>7. Restorable(Final)' <=> Restorable([disk EXCEPT ![q] = Original[q]])
    BY <2>1, <2>4, <2>6 DEF Restorable, Lost, InPlaceOn, Holds
  <2>8. QED BY <2>5, <2>7 DEF Hopeful
<1>2. CASE FinishWrite
  <2>1. /\ pc = "writing" /\ pc' = "repair"
        /\ disk' = [disk EXCEPT ![q] = Assembled(i)] /\ UNCHANGED <<volumes, index>>
    BY <1>2 DEF FinishWrite
  <2>2. Final' = Final
    BY <2>1 DEF Final, WriteInProgress
  <2>3. ParityOnDisk' = ParityOnDisk
    BY <2>1 DEF ParityOnDisk, RecoveryPackets
  <2>4. Restorable(Final)' <=> Restorable(Final)
    BY <2>1, <2>2, <2>3 DEF Restorable, Lost, InPlaceOn, Holds
  <2>5. QED BY <2>4 DEF Hopeful
<1>3. CASE WriteFails
  BY <1>3 DEF WriteFails, Fault, Hopeful
<1>4. CASE Crash
  <2>1. CASE pc = "writing"
    BY <1>4, <2>1 DEF Fault, Hopeful
  <2>2. CASE pc # "writing"
    BY <1>4, <2>2, QuietHope DEF Crash, Die
  <2>3. QED BY <2>1, <2>2
<1>5. CASE UNCHANGED <<disk, volumes, index>> /\ pc # "writing" /\ pc' # "writing"
  BY <1>5, QuietHope
<1>6. Call => UNCHANGED <<disk, volumes, index>> /\ pc # "writing" /\ pc' # "writing"
  BY DEF Call, NewDecoder, LoadFileData, LoadParityData, RepairFails, Repair, Return, fileVars
<1>7. LoadStep => UNCHANGED <<disk, volumes, index>> /\ pc # "writing" /\ pc' # "writing"
  BY DEF LoadStep, LoadDataFile, StoreFileData, LoadVolume, StoreParityData, Return, Die, fileVars
<1>8. SkipFile \/ HashMismatch \/ OpenFails \/ EndRepair =>
        UNCHANGED <<disk, volumes, index>> /\ pc # "writing" /\ pc' # "writing"
  BY DEF SkipFile, HashMismatch, OpenFails, EndRepair, Return, fileVars
<1>9. QED
  BY <1>1, <1>2, <1>3, <1>4, <1>5, <1>6, <1>7, <1>8 DEF OwnStep, RepairStep, Fault

LEMMA StepHope ==
  ASSUME TypeOK, WriteInProgress, Hopeful, CommandNext
  PROVE  Hopeful'
<1>1. ASSUME NEW c \in {"verify", "repair"}, Begin(c) PROVE Hopeful'
  <2>1. /\ UNCHANGED <<disk, volumes, index>> /\ pc # "writing" /\ pc' # "writing"
        /\ hope' = (Recoverable /\ SlicesInPlace)
    BY <1>1 DEF Begin, NewDecoder, fileVars
  <2>2. ParityOnDisk' = ParityOnDisk /\ Final' = disk
    BY <2>1 DEF ParityOnDisk, RecoveryPackets, Final
  <2>3. Restorable(Final)' <=> Restorable(disk)
    BY <2>1, <2>2 DEF Restorable, Lost, InPlaceOn, Holds
  <2>4. QED BY <2>1, <2>3, RestorableDisk DEF Hopeful
<1>2. CASE Damage /\ hope' = FALSE
  BY <1>2 DEF Hopeful
<1>3. QED BY <1>1, <1>2, CommandSteps, OwnHope

LEMMA StutterHope == Hopeful /\ UNCHANGED commandVars => Hopeful'
BY DEF Hopeful, commandVars, vars, fileVars, Final, Restorable, Lost, InPlaceOn, Holds,
       ParityOnDisk, RecoveryPackets

\* For any recovery set, volume layout and slices that repeat, and however many commands,
\* crashes and writes that fail to begin there are: while the slices that survive are in
\* their own places, no write takes away what a later repair needs.
THEOREM NothingIsLost == CommandSpec => []StaysRecoverable
<1>1. CommandInit => Hopeful
  BY DEF CommandInit, Hopeful
<1>2. TypeOK /\ WriteInProgress /\ Hopeful /\ [CommandNext]_commandVars => Hopeful'
  BY StepHope, StutterHope
<1>3. Hopeful => StaysRecoverable
  BY RestorableDisk DEF Hopeful, StaysRecoverable, Final
<1>4. QED BY <1>1, <1>2, <1>3, CommandsUseDecoder, TypeCorrect, PTL DEF CommandSpec
-------------------------------------------------------------------------------
(* What verify promises, repair keeps.  What a command loads is exactly what   *)
(* the disk holds, so that verify and a later repair count the same shards;    *)
(* with right parity the repair then gets to its end, and leaves nothing to do *)
(* for those that follow.                                                      *)

\* The shards that no file of the set holds.
Absent == {s \in Shards : \A n \in Entries : ~Holds(disk, RecoverySet[n], s)}

\* What the files up to last hold, and nothing else.
Exact(inf, last) ==
  /\ \A n \in Entries : n < last => inf.read[n] = disk[RecoverySet[n]] /\ inf.read[n] # Unreadable
  /\ \A s \in Shards : inf.shards[s].data # NilData <=>
       \E n \in Entries : n < last /\ Holds(disk, RecoverySet[n], s)

\* What the volumes up to last hold, all of them legible.
ExactParity(par, last) ==
  /\ \A v \in Volumes : v < last => volumes[v] \notin {"bad", "headless"}
  /\ \A e \in Exponents : par[e] # "nil" <=>
       \E v \in Volumes : v < last /\ e \in RecoveryPackets(v)

Modes ==
  /\ cmd \in {"none", "verify", "repair"}
  /\ cmd = "none" <=> pc = "none"
  /\ pc \in {"none", "idle"} => shards = NoParity
  /\ pc = "none" => result \in {"none", "panic", "indexError"}

\* What the command has read so far is what the disk holds.
ReadsDisk ==
  /\ index = "ok"
  /\ pc = "files" => Exact(loading, i)
  /\ pc = "volumes" => ExactParity(shards, i) /\ matches = {v \in Volumes : volumes[v] # "absent"}
  /\ pc = "volumes" \/ result \in {"filesLoaded", "parityLoaded"} =>
       loaded /\ Exact(infos, Len(RecoverySet) + 1)
  /\ result = "parityLoaded" => ExactParity(parity, Len(VolumeShards) + 1)
  /\ result \in {"filesLoaded", "parityLoaded", "repaired"} => pc = "idle"
  /\ result = "pending" => pc \notin {"none", "idle"}

\* Enough is left, and can be read, of what the decoder looks at.
Mendable ==
  /\ \A n \in Entries : disk[RecoverySet[n]] # Unreadable
  /\ Cardinality(Absent) <= Cardinality(ParityOnDisk)

InRepair == pc \in {"repair", "writing"}

\* Nothing stops the command: what there is can be read and suffices, and a repair that
\* is under way has put right what was wrong in the files before the present one.
Mending ==
  /\ \A v \in Volumes : volumes[v] \notin {"bad", "headless"}
  /\ ParityOnDisk # {}
  /\ ~InRepair => Mendable
  /\ InRepair => \A n \in Entries :
       wasOK[n] \/ n < i <=> disk[RecoverySet[n]] = Original[RecoverySet[n]]
  /\ result = "repaired" => AllOriginal
  /\ cmd # "none" => result \in {"none", "pending", "filesLoaded", "parityLoaded", "repaired"}
  /\ cmd = "verify" => ~InRepair /\ result # "repaired"

\* A verify that runs, or one whose promise still stands.
Watched == verdict = "repairPossible" \/ (verdict = "pending" /\ cmd = "verify")

Reads == Watched => ReadsDisk

Keeps ==
  verdict = "repairPossible" =>
    /\ cmd # "verify"
    /\ Mending
    /\ exit.cmd = "repair" => exit.code = "success" /\ AllOriginal

Settled == Modes /\ Reads /\ (Sound => Keeps)

LEMMA InitSettled == CommandInit => Settled
BY DEF CommandInit, Init, Settled, Modes, Reads, Keeps, Watched, NoParity

\* A command begins, takes a step or ends; after any other step no promise stands.
LEMMA PromiseSteps ==
  ASSUME CommandNext, verdict' # "none"
  PROVE  (\E c \in {"verify", "repair"} : Begin(c)) \/ Step \/ Exit
BY DEF CommandNext, FaultyStep, DamagingStep

LEMMA StepKinds ==
  ASSUME Step
  PROVE  /\ \/ LoadFiles \/ LoadParity \/ RepairFiles
            \/ LoadDataFile \/ StoreFileData \/ LoadVolume \/ StoreParityData
            \/ SkipFile \/ HashMismatch \/ OpenFile \/ FinishWrite \/ EndRepair
         /\ cmd # "none" /\ UNCHANGED <<verdict, index, volumes>>
         /\ pc' # "none" => UNCHANGED <<cmd, exit>>
         /\ pc' = "none" => cmd' = "none"
<1>1. \/ LoadFiles \/ LoadParity \/ RepairFiles
      \/ LoadDataFile \/ StoreFileData \/ LoadVolume \/ StoreParityData
      \/ SkipFile \/ HashMismatch \/ OpenFile \/ FinishWrite \/ EndRepair
  BY DEF Step, LoadStep, RepairStep
<1>2. UNCHANGED <<index, volumes>>
  BY <1>1
  DEF LoadFiles, LoadParity, RepairFiles, LoadFileData, LoadParityData, Repair, RepairFails,
      LoadDataFile, StoreFileData, LoadVolume, StoreParityData, SkipFile, HashMismatch, OpenFile,
      FinishWrite, EndRepair, fileVars
<1>3. cmd # "none" /\ UNCHANGED verdict /\ (pc' # "none" => UNCHANGED <<cmd, exit>>)
      /\ (pc' = "none" => cmd' = "none")
  BY DEF Step
<1>4. QED BY <1>1, <1>2, <1>3

LEMMA StepModes == Modes /\ CommandNext => Modes'
<1> SUFFICES ASSUME Modes, CommandNext PROVE Modes'
  OBVIOUS
<1>1. CASE \E c \in {"verify", "repair"} : Begin(c)
  BY <1>1 DEF Begin, NewDecoder, localVars, Modes
<1>2. CASE Exit
  BY <1>2 DEF Exit, Die, Modes
<1>3. CASE DamagingStep
  BY <1>3
  DEF DamagingStep, Damage, DamageFile, DamageVolume, DamageIndex, localVars, Modes
<1>4. CASE FaultyStep
  <2>1. Fault => /\ pc' \in {"idle", "none"} /\ shards' = NoParity
                 /\ pc' = "none" => result' = "none"
    BY DEF Fault, OpenFails, WriteFails, Crash, Return, Die
  <2>2. QED BY <1>4, <2>1 DEF FaultyStep, Modes
<1>5. CASE Step
  <2>1. /\ pc' \in {"idle", "none"} => shards' = NoParity
        /\ pc' = "none" => result' \in {"none", "panic", "indexError"}
    BY <1>5, StepKinds
    DEF LoadFiles, LoadParity, RepairFiles, LoadFileData, LoadParityData, Repair, RepairFails,
        LoadDataFile, StoreFileData, LoadVolume, StoreParityData, SkipFile, HashMismatch,
        OpenFile, FinishWrite, EndRepair, Return, Die, Modes, localVars
  <2>2. QED BY <1>5, <2>1, StepKinds DEF Modes
<1>6. QED BY <1>1, <1>2, <1>3, <1>4, <1>5 DEF CommandNext

\* The file of entry i adds the shards it holds to those that were found.
LEMMA FileAdds ==
  ASSUME DistinctIDs, TypeOK, Exact(loading, i), i \in Entries, UNCHANGED disk,
         disk[RecoverySet[i]] # Unreadable,
         loading' = [read   |-> [loading.read EXCEPT ![i] = disk[RecoverySet[i]]],
                     shards |-> IF disk[RecoverySet[i]] = Missing THEN loading.shards
                                ELSE FillShardInfos(loading.shards, RecoverySet[i],
                                                    disk[RecoverySet[i]])],
         i' = i + 1
  PROVE  Exact(loading, i)'
<1> DEFINE p == RecoverySet[i]
<1>0. i \in Nat \ {0} /\ \A n \in Entries : n \in Nat /\ (n < i + 1 <=> n < i \/ n = i)
  BY EntryFacts
<1>1. \A n \in Entries : n < i + 1 =>
        loading'.read[n] = disk[RecoverySet[n]] /\ loading'.read[n] # Unreadable
  <2>1. /\ loading'.read[i] = disk[p]
        /\ \A n \in Entries : n # i => loading'.read[n] = loading.read[n]
    BY DEF TypeOK, InfosType
  <2>2. QED BY <1>0, <2>1 DEF Exact
<1>2. ASSUME NEW s \in Shards
      PROVE  loading'.shards[s].data # NilData <=>
               loading.shards[s].data # NilData \/ Holds(disk, p, s)
  <2>1. CASE disk[p] = Missing
    BY <2>1 DEF Holds
  <2>2. CASE disk[p] # Missing
    <3> DEFINE hits     == ScanHits(disk[p], KnownSlices)
               found(t) == {<<p, j>> : j \in {h \in hits : Slice(disk[p], h) = Checksum(t)}}
    <3>1. loading'.shards[s] =
            IF s[1] = IndexOf(RecoverySet[s[1]]) /\ found(s) # {}
            THEN [data |-> Checksum(s), locations |-> loading.shards[s].locations \cup found(s)]
            ELSE loading.shards[s]
      BY <2>2 DEF FillShardInfos
    <3>2. s[1] = IndexOf(RecoverySet[s[1]])
      BY IndexOfEntry, ShardFacts
    <3>3. found(s) # {} <=> Holds(disk, p, s)
      BY <2>2 DEF Holds
    <3> HIDE DEF found
    <3>4. QED BY <3>1, <3>2, <3>3, ChecksumFacts
  <2>3. QED BY <2>1, <2>2
<1>3. ASSUME NEW s \in Shards
      PROVE  loading'.shards[s].data # NilData <=>
               \E n \in Entries : n < i + 1 /\ Holds(disk, RecoverySet[n], s)
  <2>1. loading.shards[s].data # NilData <=>
          \E n \in Entries : n < i /\ Holds(disk, RecoverySet[n], s)
    BY DEF Exact
  <2>2. (\E n \in Entries : n < i + 1 /\ Holds(disk, RecoverySet[n], s)) <=>
          (\E n \in Entries : n < i /\ Holds(disk, RecoverySet[n], s)) \/ Holds(disk, p, s)
    BY <1>0
  <2>3. QED BY <1>2, <2>1, <2>2
<1>4. Exact(loading', i')
  BY <1>1, <1>3 DEF Exact
<1>5. QED BY <1>4 DEF Exact, Holds

LEMMA NothingReadYet ==
  ASSUME loading' = BlankInfos, i' = 1, UNCHANGED disk
  PROVE  Exact(loading, i)'
<1>1. \A n \in Entries : ~(n < 1)
  BY EntryFacts
<1>2. QED BY <1>1 DEF Exact, BlankInfos

\* Volume i adds its recovery packets to those that were loaded.
LEMMA VolumeAdds ==
  ASSUME TypeOK, ExactParity(shards, i), i \in Volumes, UNCHANGED volumes,
         matches = {v \in Volumes : volumes[v] # "absent"},
         i \notin matches \/ volumes[i] \in {"whole", "cut", "empty"},
         shards' = IF i \in matches THEN WithVolume(shards, i) ELSE shards,
         i' = i + 1
  PROVE  ExactParity(shards, i)'
<1>0. \A v \in Volumes : v < i + 1 <=> v < i \/ v = i
  BY VolumeAssumption DEF Volumes
<1>1. /\ volumes[i] \notin {"bad", "headless"} /\ (i \notin matches => RecoveryPackets(i) = {})
      /\ \A v \in Volumes : RecoveryPackets(v)' = RecoveryPackets(v)
  BY DEF RecoveryPackets
<1>2. ASSUME NEW e \in Exponents
      PROVE  shards'[e] # "nil" <=> shards[e] # "nil" \/ e \in RecoveryPackets(i)
  BY <1>1 DEF WithVolume
<1>3. ASSUME NEW e \in Exponents
      PROVE  shards'[e] # "nil" <=> \E v \in Volumes : v < i + 1 /\ e \in RecoveryPackets(v)
  BY <1>0, <1>2 DEF ExactParity
<1>4. ExactParity(shards', i')
  BY <1>0, <1>1, <1>3 DEF ExactParity
<1>5. QED BY <1>4 DEF ExactParity, RecoveryPackets

LEMMA NoVolumeYet ==
  ASSUME shards' = NoParity, i' = 1
  PROVE  ExactParity(shards, i)'
<1>1. \A v \in Volumes : ~(v < 1)
  BY VolumeAssumption DEF Volumes
<1>2. QED BY <1>1 DEF ExactParity, NoParity

\* When all is loaded, the counts of the decoder are those of the disk.
LEMMA CountsOfDisk ==
  /\ Exact(infos, Len(RecoverySet) + 1) => MissingShards = Absent
  /\ ExactParity(parity, Len(VolumeShards) + 1) =>
       /\ AvailableParity = ParityOnDisk
       /\ \A v \in Volumes : volumes[v] \notin {"bad", "headless"}
<1>1. \A n \in Entries : n < Len(RecoverySet) + 1
  BY EntryFacts DEF Entries
<1>2. \A v \in Volumes : v < Len(VolumeShards) + 1
  BY VolumeAssumption DEF Volumes
<1>3. ASSUME Exact(infos, Len(RecoverySet) + 1) PROVE MissingShards = Absent
  BY <1>1, <1>3 DEF Exact, MissingShards, Absent
<1>4. ASSUME ExactParity(parity, Len(VolumeShards) + 1)
      PROVE  AvailableParity = ParityOnDisk
  <2>1. \A e \in Exponents : e \in AvailableParity <=>
          \E v \in Volumes : e \in RecoveryPackets(v)
    BY <1>2, <1>4 DEF ExactParity, AvailableParity
  <2>2. ParityOnDisk \subseteq Exponents /\ AvailableParity \subseteq Exponents
    BY ParityFinite DEF AvailableParity
  <2>3. \A e : e \in ParityOnDisk <=>
          \E v \in Volumes : e \in RecoveryPackets(v)
    BY DEF ParityOnDisk
  <2>4. QED BY <2>1, <2>2, <2>3
<1>5. QED BY <1>2, <1>3, <1>4 DEF ExactParity

\* What was read stays true of the disk while no file changes.
LEMMA StepReadsDisk ==
  ASSUME DistinctIDs, TypeOK, Searched, Modes, ReadsDisk, Step
  PROVE  ReadsDisk'
<1>0. index = "ok" /\ index' = "ok" /\ UNCHANGED volumes
  BY StepKinds DEF ReadsDisk
<1>1. CASE LoadFiles
  <2>1. /\ pc' = "files" /\ result' = "pending" /\ loading' = BlankInfos /\ i' = 1
        /\ UNCHANGED disk
    BY <1>1 DEF LoadFiles, LoadFileData, localVars, fileVars, Searched
  <2>2. QED BY <1>0, <2>1, NothingReadYet DEF ReadsDisk
<1>2. CASE LoadParity
  <2>1. /\ result = "filesLoaded" /\ pc = "idle" /\ pc' = "volumes" /\ result' = "pending"
        /\ i' = i /\ UNCHANGED <<disk, shards, loaded, infos>>
        /\ matches' = {v \in Volumes : volumes[v] # "absent"}
    BY <1>2 DEF LoadParity, LoadParityData, fileVars, decoderVars
  <2>2. i' = 1 /\ shards' = NoParity
    BY <2>1 DEF Searched, Modes
  <2>3. ExactParity(shards, i)'
    BY <2>2, NoVolumeYet
  <2>4. loaded /\ Exact(infos, Len(RecoverySet) + 1)
    BY <1>0, <2>1 DEF ReadsDisk
  <2>5. Exact(infos, Len(RecoverySet) + 1)'
    BY <2>1, <2>4 DEF Exact, Holds
  <2>6. QED BY <1>0, <2>1, <2>3, <2>4, <2>5 DEF ReadsDisk
<1>3. CASE RepairFiles
  <2>1. /\ pc' \in {"idle", "repair"} /\ (result' = "pending" => pc' = "repair")
        /\ result' \notin {"filesLoaded", "parityLoaded", "repaired"}
    BY <1>3 DEF RepairFiles, Repair, RepairFails, RepairError, Return
  <2>2. QED BY <1>0, <2>1 DEF ReadsDisk
<1>4. CASE LoadDataFile
  <2>1. CASE Return("fileError")
    BY <1>0, <2>1 DEF Return, ReadsDisk
  <2>2. CASE /\ disk[RecoverySet[i]] # Unreadable
             /\ loading' =
                  [read   |-> [loading.read EXCEPT ![i] = disk[RecoverySet[i]]],
                   shards |-> IF disk[RecoverySet[i]] = Missing THEN loading.shards
                              ELSE FillShardInfos(loading.shards, RecoverySet[i],
                                                  disk[RecoverySet[i]])]
             /\ i' = i + 1
             /\ UNCHANGED <<pc, result>>
    <3>1. pc = "files" /\ i \in Entries /\ UNCHANGED disk
      BY <1>4 DEF LoadDataFile, fileVars
    <3>2. Exact(loading, i)'
      BY <1>0, <2>2, <3>1, FileAdds DEF ReadsDisk
    <3>3. pc' = "files" /\ result' = result /\ result \notin {"filesLoaded", "parityLoaded", "repaired"}
      BY <1>0, <2>2, <3>1 DEF ReadsDisk
    <3>4. QED BY <1>0, <3>2, <3>3 DEF ReadsDisk
  <2>3. QED BY <1>4, <2>1, <2>2 DEF LoadDataFile
<1>5. CASE StoreFileData
  <2>1. /\ pc = "files" /\ i \notin Entries /\ loaded' = TRUE /\ infos' = loading
        /\ pc' = "idle" /\ result' = "filesLoaded" /\ UNCHANGED disk
    BY <1>5 DEF StoreFileData, Return, fileVars
  <2>2. Exact(loading, i)
    BY <1>0, <2>1 DEF ReadsDisk
  <2>3. \A n \in Entries : n < i /\ n < Len(RecoverySet) + 1
    BY <2>1, EntryFacts DEF Entries, TypeOK
  <2>4. Exact(infos, Len(RecoverySet) + 1)'
    BY <2>1, <2>2, <2>3 DEF Exact, Holds
  <2>5. QED BY <1>0, <2>1, <2>4 DEF ReadsDisk
<1>6. CASE LoadVolume
  <2>1. CASE Return("parityError") \/ Die("panic")
    BY <1>0, <2>1 DEF Return, Die, ReadsDisk
  <2>2. CASE /\ i \notin matches \/ volumes[i] \in {"whole", "cut", "empty"}
             /\ shards' = IF i \in matches THEN WithVolume(shards, i) ELSE shards
             /\ i' = i + 1
             /\ UNCHANGED <<decoderVars, matches, pc, result>>
    <3>1. pc = "volumes" /\ i \in Volumes /\ UNCHANGED disk
      BY <1>6 DEF LoadVolume, fileVars
    <3>2. /\ ExactParity(shards, i) /\ matches = {v \in Volumes : volumes[v] # "absent"}
          /\ loaded /\ Exact(infos, Len(RecoverySet) + 1)
          /\ result \notin {"filesLoaded", "parityLoaded", "repaired"}
      BY <1>0, <3>1 DEF ReadsDisk
    <3>3. ExactParity(shards, i)'
      BY <1>0, <2>2, <3>1, <3>2, VolumeAdds
    <3>4. Exact(infos, Len(RecoverySet) + 1)' /\ loaded'
      BY <2>2, <3>1, <3>2 DEF Exact, Holds, decoderVars
    <3>5. matches' = {v \in Volumes : volumes'[v] # "absent"} /\ pc' = "volumes" /\ result' = result
      BY <1>0, <2>2, <3>1, <3>2
    <3>6. QED BY <1>0, <3>2, <3>3, <3>4, <3>5 DEF ReadsDisk
  <2>3. QED BY <1>6, <2>1, <2>2 DEF LoadVolume
<1>7. CASE StoreParityData
  <2>1. /\ pc = "volumes" /\ i \notin Volumes /\ parity' = shards
        /\ pc' = "idle" /\ result' = "parityLoaded" /\ UNCHANGED <<disk, loaded, infos>>
    BY <1>7 DEF StoreParityData, Return, fileVars
  <2>2. ExactParity(shards, i) /\ loaded /\ Exact(infos, Len(RecoverySet) + 1)
    BY <1>0, <2>1 DEF ReadsDisk
  <2>3. \A v \in Volumes : v < i /\ v < Len(VolumeShards) + 1
    BY <2>1, VolumeAssumption DEF Volumes, TypeOK
  <2>4. ExactParity(parity, Len(VolumeShards) + 1)'
    BY <1>0, <2>1, <2>2, <2>3 DEF ExactParity, RecoveryPackets
  <2>5. Exact(infos, Len(RecoverySet) + 1)' /\ loaded'
    BY <2>1, <2>2 DEF Exact, Holds
  <2>6. QED BY <1>0, <2>1, <2>4, <2>5 DEF ReadsDisk
<1>8. CASE SkipFile \/ OpenFile \/ FinishWrite
  <2>1. pc \in {"repair", "writing"} /\ pc' \in {"repair", "writing"} /\ result' = result
    BY <1>8 DEF SkipFile, OpenFile, FinishWrite
  <2>2. result \notin {"filesLoaded", "parityLoaded", "repaired"}
    BY <1>0, <2>1 DEF ReadsDisk
  <2>3. QED BY <1>0, <2>1, <2>2 DEF ReadsDisk
<1>9. CASE HashMismatch \/ EndRepair
  BY <1>0, <1>9 DEF HashMismatch, EndRepair, Return, ReadsDisk
<1>10. QED
  BY <1>1, <1>2, <1>3, <1>4, <1>5, <1>6, <1>7, <1>8, <1>9, StepKinds

LEMMA BeginReadsDisk ==
  ASSUME ReadsDisk, NEW c \in {"verify", "repair"}, Begin(c)
  PROVE  ReadsDisk'
BY DEF Begin, NewDecoder, fileVars, ReadsDisk

LEMMA ExitReadsDisk == ReadsDisk /\ Exit => ReadsDisk'
BY DEF Exit, Die, fileVars, ReadsDisk

LEMMA StepReads ==
  ASSUME DistinctIDs, TypeOK, Searched, Settled, CommandNext
  PROVE  Reads'
<1> SUFFICES ASSUME Watched' PROVE ReadsDisk'
  BY DEF Reads
<1>0. Modes /\ Reads
  BY DEF Settled
<1>1. ASSUME NEW c \in {"verify", "repair"}, Begin(c) PROVE ReadsDisk'
  <2>1. CASE index = "ok"
    BY <1>1, <2>1 DEF Begin, NewDecoder, fileVars, ReadsDisk
  <2>2. CASE index # "ok"
    <3>1. cmd' = "none" /\ verdict' = IF c = "verify" THEN "pending" ELSE verdict
      BY <1>0, <1>1, <2>2 DEF Begin, NewDecoder
    <3>2. Watched
      BY <3>1 DEF Watched
    <3>3. QED BY <1>0, <2>2, <3>2 DEF Reads, ReadsDisk
  <2>3. QED BY <2>1, <2>2
<1>2. CASE Exit
  <2>1. Watched
    BY <1>0, <1>2 DEF Exit, VerifyCode, Watched, Modes
  <2>2. QED BY <1>0, <1>2, <2>1, ExitReadsDisk DEF Reads
<1>3. CASE Step
  <2>1. Watched
    BY <1>0, <1>3, StepKinds DEF Watched
  <2>2. QED BY <1>0, <1>3, <2>1, StepReadsDisk DEF Reads
<1>4. verdict' # "none"
  BY DEF Watched
<1>5. QED BY <1>1, <1>2, <1>3, <1>4, PromiseSteps

\* Files that are all as they were hold all shards.
LEMMA NothingAbsent ==
  ASSUME AllOriginal
  PROVE  Mendable /\ Absent = {}
<1>1. ASSUME NEW s \in Shards
      PROVE  s[1] \in Entries /\ Holds(disk, RecoverySet[s[1]], s)
  <2> DEFINE q == RecoverySet[s[1]]
             j == s[2] * SliceByteCount
  <2>1. s[1] \in Entries /\ q \in Paths /\ disk[q] = Original[q]
    BY ShardFacts, EntryFacts DEF AllOriginal
  <2>2. <<q, j>> \in LocationsOf(Checksum(s))
    BY ChecksumFacts DEF Home
  <2>3. j \in ScanHits(Original[q], KnownSlices) /\ Slice(Original[q], j) = Checksum(s)
    BY <2>2, PlacesFound
  <2>4. Original[q] # Missing /\ Original[q] # Unreadable
    BY <2>1, OriginalFacts
  <2>5. QED BY <2>1, <2>3, <2>4 DEF Holds
<1>2. Absent = {}
  BY <1>1 DEF Absent
<1>3. Cardinality(Absent) <= Cardinality(ParityOnDisk)
  BY <1>2, FS_EmptySet, ParityFinite
<1>4. \A n \in Entries : disk[RecoverySet[n]] # Unreadable
  BY EntryFacts, OriginalFacts DEF AllOriginal
<1>5. QED BY <1>2, <1>3, <1>4 DEF Mendable

\* A step that changes no file, before the repair or after the command.
LEMMA QuietMends ==
  ASSUME Mending, UNCHANGED <<disk, volumes>>, ~InRepair, ~InRepair',
         result' \in {"none", "pending", "filesLoaded", "parityLoaded"}
  PROVE  Mending' /\ (AllOriginal => AllOriginal')
<1>1. ParityOnDisk' = ParityOnDisk
  BY DEF ParityOnDisk, RecoveryPackets
<1>2. Mendable' <=> Mendable
  BY <1>1 DEF Mendable, Absent, Holds
<1>3. AllOriginal' <=> AllOriginal
  BY DEF AllOriginal
<1>4. QED BY <1>1, <1>2, <1>3 DEF Mending

LEMMA RepairSucceeds ==
  ASSUME Sound, loaded, Exact(infos, Len(RecoverySet) + 1),
         ExactParity(parity, Len(VolumeShards) + 1), Mendable, ParityOnDisk # {}
  PROVE  RepairError = "none"
<1>1. MissingShards = Absent /\ AvailableParity = ParityOnDisk
  BY CountsOfDisk
<1>2. RepairPossible
  BY <1>1, ShardsFinite, FS_Subset, FS_CardinalityType, ParityFinite
  DEF RepairPossible, Mendable, Absent
<1>3. <<MissingShards, UsedParity>> \notin Singular
  BY DEF Sound
<1>4. QED BY <1>1, <1>2, <1>3 DEF RepairError

\* What a repair loads agrees with the disk, so that nothing stops it, ...
LEMMA RepairMends ==
  ASSUME DistinctIDs, Sound, TypeOK, IndInv, Unmixed, ReadsDisk, Mending, RepairFiles,
         UNCHANGED <<cmd, volumes>>
  PROVE  Mending' /\ (AllOriginal => AllOriginal')
<1>1. cmd = "repair" /\ result = "parityLoaded" /\ pc = "idle" /\ i = 1
  BY DEF RepairFiles, Repair, RepairFails, IndInv
<1>2. /\ loaded /\ Exact(infos, Len(RecoverySet) + 1)
      /\ ExactParity(parity, Len(VolumeShards) + 1)
  BY <1>1 DEF ReadsDisk
<1>3. Mendable /\ ParityOnDisk # {}
  BY <1>1 DEF Mending, InRepair
<1>4. RepairError = "none"
  BY <1>2, <1>3, RepairSucceeds
<1>5. Repair
  BY <1>4 DEF RepairFiles, RepairFails
<1>6. PICK data \in Reconstructions, checkParity \in BOOLEAN :
        \E matching \in IF checkParity THEN ParityChecks(data) ELSE {TRUE} :
          \/ ~matching
          \/ /\ wasOK' = [n \in Entries |-> FileOK(infos, n)]
             /\ pc' = "repair" /\ result' = "pending" /\ i' = i
  BY <1>5 DEF Repair
<1>7. ParityChecks(data) = {TRUE}
  BY ReconstructedRight
<1>8. wasOK' = [n \in Entries |-> FileOK(infos, n)] /\ pc' = "repair" /\ result' = "pending" /\ i' = 1
  BY <1>1, <1>6, <1>7
<1>9. UNCHANGED disk
  BY <1>5 DEF Repair, fileVars
<1>10. \A n \in Entries : infos.read[n] = disk[RecoverySet[n]]
  <2>1. \A n \in Entries : n < Len(RecoverySet) + 1
    BY EntryFacts DEF Entries
  <2>2. QED BY <1>2, <2>1 DEF Exact
<1>11. \A n \in Entries : wasOK'[n] <=> disk[RecoverySet[n]] = Original[RecoverySet[n]]
  BY <1>2, <1>8, <1>10, FileOKMeansIntact DEF IndInv
<1>12. \A n \in Entries : ~(n < 1)
  BY EntryFacts
<1>13. ParityOnDisk' = ParityOnDisk /\ (AllOriginal' <=> AllOriginal)
  BY <1>9 DEF ParityOnDisk, RecoveryPackets, AllOriginal
<1>14. QED
  BY <1>1, <1>3, <1>8, <1>9, <1>11, <1>12, <1>13 DEF Mending, InRepair

\* ... and each file is found to be as it was, or written.
LEMMA WriteMends ==
  ASSUME DistinctIDs, TypeOK, WriteInProgress, IndInv, Unmixed, ReadsDisk, Mending,
         SkipFile \/ HashMismatch \/ OpenFile \/ FinishWrite \/ EndRepair,
         UNCHANGED <<cmd, volumes>>
  PROVE  Mending' /\ (AllOriginal => AllOriginal')
<1>0. /\ InRepair /\ result # "repaired" /\ cmd # "verify"
      /\ cmd # "none" => result \in {"none", "pending", "filesLoaded", "parityLoaded", "repaired"}
      /\ \A v \in Volumes : volumes[v] \notin {"bad", "headless"}
      /\ ParityOnDisk # {} /\ ParityOnDisk' = ParityOnDisk
      /\ \A n \in Entries : wasOK[n] \/ n < i <=> disk[RecoverySet[n]] = Original[RecoverySet[n]]
  <2>1. InRepair
    BY DEF SkipFile, HashMismatch, OpenFile, FinishWrite, EndRepair, InRepair
  <2>2. QED BY <2>1 DEF Mending, ReadsDisk, InRepair, ParityOnDisk, RecoveryPackets
<1>1. i \in Nat \ {0} /\ \A n \in Entries : n \in Nat /\ (n < i + 1 <=> n < i \/ n = i)
  BY EntryFacts DEF TypeOK
<1>2. ASSUME NEW n \in Entries, i \in Entries, n # i
      PROVE  RecoverySet[n] # RecoverySet[i] /\ RecoverySet[n] \in Paths /\ RecoverySet[i] \in Paths
  BY <1>2, EntryFacts DEF DistinctIDs
<1>3. CASE SkipFile
  <2>1. /\ UNCHANGED <<disk, wasOK, result, pc>> /\ i \in Entries /\ wasOK[i] /\ i' = i + 1
    BY <1>3 DEF SkipFile, fileVars, localVars
  <2>2. AllOriginal' <=> AllOriginal
    BY <2>1 DEF AllOriginal
  <2>3. \A n \in Entries : wasOK[n] \/ n < i + 1 <=> disk[RecoverySet[n]] = Original[RecoverySet[n]]
    BY <1>0, <1>1, <2>1
  <2>4. QED BY <1>0, <2>1, <2>2, <2>3 DEF Mending, InRepair
<1>4. CASE HashMismatch
  BY <1>4, AssembledRight DEF HashMismatch, Unmixed
<1>5. CASE OpenFile
  <2>1. /\ i \in Entries /\ ~wasOK[i] /\ UNCHANGED <<wasOK, result, i>> /\ pc' = "writing"
        /\ disk' = [disk EXCEPT ![RecoverySet[i]] = <<>>]
    BY <1>5 DEF OpenFile, localVars
  <2>2. disk[RecoverySet[i]] # Original[RecoverySet[i]]
    BY <1>0, <1>1, <2>1
  <2>3. disk'[RecoverySet[i]] # Original[RecoverySet[i]]
    BY <2>1, EntryFacts, OriginalFacts DEF TypeOK
  <2>4. ASSUME NEW n \in Entries
        PROVE  wasOK[n] \/ n < i <=> disk'[RecoverySet[n]] = Original[RecoverySet[n]]
    <3>1. CASE n = i
      BY <1>1, <2>1, <2>3, <3>1
    <3>2. CASE n # i
      BY <1>0, <1>2, <2>1, <3>2 DEF TypeOK
    <3>3. QED BY <3>1, <3>2
  <2>5. ~AllOriginal
    BY <2>1, <2>2 DEF AllOriginal
  <2>6. QED BY <1>0, <2>1, <2>4, <2>5 DEF Mending, InRepair
<1>6. CASE FinishWrite
  <2>1. /\ pc = "writing" /\ pc' = "repair" /\ UNCHANGED <<wasOK, result>> /\ i' = i + 1
        /\ disk' = [disk EXCEPT ![RecoverySet[i]] = Assembled(i)]
    BY <1>6 DEF FinishWrite, localVars
  <2>2. i \in Entries /\ Assembled(i) = Original[RecoverySet[i]] /\ ~wasOK[i]
    BY <2>1 DEF WriteInProgress, IndInv
  <2>3. disk'[RecoverySet[i]] = Original[RecoverySet[i]]
    BY <2>1, <2>2, EntryFacts DEF TypeOK
  <2>4. ASSUME NEW n \in Entries
        PROVE  wasOK[n] \/ n < i + 1 <=> disk'[RecoverySet[n]] = Original[RecoverySet[n]]
    <3>1. CASE n = i
      BY <1>1, <2>3, <3>1
    <3>2. CASE n # i
      BY <1>0, <1>1, <1>2, <2>1, <2>2, <3>2 DEF TypeOK
    <3>3. QED BY <3>1, <3>2
  <2>5. ~AllOriginal
    BY <1>0, <1>1, <2>2 DEF AllOriginal
  <2>6. QED BY <1>0, <2>1, <2>4, <2>5 DEF Mending, InRepair
<1>7. CASE EndRepair
  <2>1. /\ i \notin Entries /\ pc' = "idle" /\ result' = "repaired" /\ UNCHANGED disk
    BY <1>7 DEF EndRepair, Return, fileVars
  <2>2. \A n \in Entries : n < i
    BY <1>1, <2>1, EntryFacts DEF Entries
  <2>3. AllOriginal /\ AllOriginal'
    BY <1>0, <2>1, <2>2 DEF AllOriginal
  <2>4. Mendable'
    <3>1. Mendable
      BY <2>3, NothingAbsent
    <3>2. QED BY <1>0, <2>1, <3>1 DEF Mendable, Absent, Holds
  <2>5. QED BY <1>0, <2>1, <2>3, <2>4 DEF Mending, InRepair
<1>8. QED BY <1>3, <1>4, <1>5, <1>6, <1>7

\* A command that nothing stops goes on to its end, ...
LEMMA StepMends ==
  ASSUME DistinctIDs, Sound, TypeOK, WriteInProgress, IndInv, Unmixed, Modes, ReadsDisk,
         Mending, Step
  PROVE  Mending' /\ pc' # "none" /\ (AllOriginal => AllOriginal')
<1>0. /\ cmd # "none" /\ UNCHANGED volumes
      /\ \A v \in Volumes : volumes[v] \notin {"bad", "headless"}
      /\ ~InRepair => Mendable
  BY StepKinds DEF Mending
<1>1. CASE pc' # "none" /\ UNCHANGED disk /\ ~InRepair /\ ~InRepair'
           /\ result' \in {"none", "pending", "filesLoaded", "parityLoaded"}
  BY <1>0, <1>1, QuietMends
<1>2. CASE LoadFiles \/ LoadParity \/ StoreFileData \/ StoreParityData
  BY <1>1, <1>2
  DEF LoadFiles, LoadParity, LoadFileData, LoadParityData, StoreFileData, StoreParityData,
      Return, fileVars, InRepair
<1>3. CASE LoadDataFile
  <2>1. pc = "files" /\ i \in Entries /\ UNCHANGED disk /\ ~InRepair
    BY <1>3 DEF LoadDataFile, fileVars, InRepair
  <2>2. disk[RecoverySet[i]] # Unreadable
    BY <1>0, <2>1 DEF Mendable
  <2>3. pc' = "files" /\ result' = result
    BY <1>3, <2>1, <2>2 DEF LoadDataFile
  <2>4. result \in {"none", "pending", "filesLoaded", "parityLoaded"}
    BY <1>0, <2>1 DEF Mending, ReadsDisk
  <2>5. QED BY <1>1, <2>1, <2>3, <2>4 DEF InRepair
<1>4. CASE LoadVolume
  <2>1. pc = "volumes" /\ i \in Volumes /\ UNCHANGED disk /\ ~InRepair
    BY <1>4 DEF LoadVolume, fileVars, InRepair
  <2>2. matches = {v \in Volumes : volumes[v] # "absent"}
    BY <2>1 DEF ReadsDisk
  <2>3. pc' = "volumes" /\ result' = result
    BY <1>0, <1>4, <2>1, <2>2 DEF LoadVolume
  <2>4. result \in {"none", "pending", "filesLoaded", "parityLoaded"}
    BY <1>0, <2>1 DEF Mending, ReadsDisk
  <2>5. QED BY <1>1, <2>1, <2>3, <2>4 DEF InRepair
<1>5. CASE RepairFiles
  <2>1. pc' # "none"
    BY <1>5 DEF RepairFiles, Repair, RepairFails, Return
  <2>2. QED BY <1>0, <1>5, <2>1, StepKinds, RepairMends
<1>6. CASE SkipFile \/ HashMismatch \/ OpenFile \/ FinishWrite \/ EndRepair
  <2>1. pc' # "none"
    BY <1>6 DEF SkipFile, HashMismatch, OpenFile, FinishWrite, EndRepair, Return
  <2>2. QED BY <1>0, <1>6, <2>1, StepKinds, WriteMends
<1>7. QED BY <1>2, <1>3, <1>4, <1>5, <1>6, StepKinds

\* ... where a repair has succeeded and a verify has found no more than can be repaired.
LEMMA ExitMends ==
  ASSUME Modes, ReadsDisk, Mending, Exit
  PROVE  /\ Mending' /\ (AllOriginal => AllOriginal')
         /\ cmd = "repair" => exit' = [cmd |-> "repair", code |-> "success"] /\ AllOriginal'
         /\ cmd = "verify" => /\ exit'.cmd = "verify"
                              /\ exit'.code \in {"success", "repairPossible"}
<1>1. /\ pc = "idle" /\ pc' = "none" /\ result' = "none" /\ UNCHANGED <<disk, volumes>>
      /\ result \notin {"none", "filesLoaded"} /\ (cmd = "repair" => result # "parityLoaded")
      /\ exit' = [cmd |-> cmd, code |-> IF cmd = "verify" THEN VerifyCode ELSE RepairCode]
  BY DEF Exit, Die, fileVars
<1>2. Mending' /\ (AllOriginal => AllOriginal')
  BY <1>1, QuietMends DEF InRepair
<1>3. result = IF cmd = "repair" THEN "repaired" ELSE "parityLoaded"
  BY <1>1 DEF Exit, Modes, ReadsDisk, Mending
<1>4. ASSUME cmd = "repair"
      PROVE  exit' = [cmd |-> "repair", code |-> "success"] /\ AllOriginal'
  <2>1. AllOriginal /\ RepairCode = "success"
    BY <1>3, <1>4 DEF Mending, RepairCode
  <2>2. QED BY <1>1, <1>2, <1>4, <2>1
<1>5. ASSUME cmd = "verify" PROVE VerifyCode \in {"success", "repairPossible"}
  <2>1. MissingShards = Absent /\ AvailableParity = ParityOnDisk
    BY <1>3, <1>5, CountsOfDisk DEF ReadsDisk
  <2>2. RepairPossible
    BY <1>1, <2>1, ShardsFinite, FS_Subset, FS_CardinalityType, ParityFinite
    DEF RepairPossible, Mending, Mendable, InRepair, Absent
  <2>3. QED BY <1>3, <1>5, <2>2 DEF VerifyCode
<1>6. QED BY <1>1, <1>2, <1>4, <1>5

LEMMA BeginMends ==
  ASSUME ReadsDisk, Mending, NEW c \in {"verify", "repair"}, Begin(c)
  PROVE  /\ Mending' /\ (AllOriginal => AllOriginal')
         /\ cmd' = c /\ exit' = exit
<1>1. /\ pc = "none" /\ pc' = "idle" /\ result' = "none" /\ UNCHANGED <<disk, volumes>>
      /\ cmd' = c /\ exit' = exit
  BY DEF Begin, NewDecoder, fileVars, ReadsDisk
<1>2. QED BY <1>1, QuietMends DEF InRepair

\* The promise is made when verify ends, ...
LEMMA VerifyPromises ==
  ASSUME TypeOK, Modes, Reads, Exit, verdict = "pending", verdict' = "repairPossible"
  PROVE  Keeps'
<1>0. /\ pc = "idle" /\ pc' = "none" /\ result' = "none" /\ cmd' = "none"
      /\ UNCHANGED <<disk, volumes>>
  BY DEF Exit, Die, fileVars
<1>1. ParityOnDisk' = ParityOnDisk
  BY <1>0 DEF ParityOnDisk, RecoveryPackets
<1>2. Mendable' <=> Mendable
  BY <1>0, <1>1 DEF Mendable, Absent, Holds
<1>3. result = "parityLoaded" /\ RepairNeeded /\ RepairPossible
  BY DEF Exit, VerifyCode
<1>4. cmd = "verify" /\ exit'.cmd = "verify"
  BY <1>3 DEF Exit, Modes
<1>5. Exact(infos, Len(RecoverySet) + 1) /\ ExactParity(parity, Len(VolumeShards) + 1)
  BY <1>3, <1>4 DEF Reads, ReadsDisk, Watched
<1>6. /\ MissingShards = Absent /\ AvailableParity = ParityOnDisk
      /\ \A v \in Volumes : volumes[v] \notin {"bad", "headless"}
  BY <1>5, CountsOfDisk
<1>7. Cardinality(Absent) > 0 /\ Cardinality(Absent) <= Cardinality(ParityOnDisk)
  BY <1>3, <1>6, ParityFinite, ShardsFinite, FS_Subset, FS_CardinalityType
  DEF RepairNeeded, RepairPossible, Absent
<1>8. Cardinality(Absent) \in Nat
  BY ShardsFinite, FS_Subset, FS_CardinalityType DEF Absent
<1>9. Cardinality(ParityOnDisk) # 0
  BY <1>7, <1>8, ParityFinite
<1>10. ParityOnDisk # {}
  BY <1>9, FS_EmptySet
<1>11. \A n \in Entries : disk[RecoverySet[n]] # Unreadable
  <2>1. \A n \in Entries : n < Len(RecoverySet) + 1
    BY EntryFacts DEF Entries
  <2>2. QED BY <1>5, <2>1 DEF Exact
<1>12. Mendable
  BY <1>7, <1>11 DEF Mendable
<1>13. QED BY <1>0, <1>1, <1>2, <1>4, <1>6, <1>10, <1>12 DEF Keeps, Mending, InRepair

\* ... and kept from then on.
LEMMA StepKeeps ==
  ASSUME DistinctIDs, Sound, TypeOK, WriteInProgress, IndInv, Unmixed, Settled, CommandNext
  PROVE  Keeps'
<1> SUFFICES ASSUME verdict' = "repairPossible" PROVE Keeps'
  BY DEF Keeps
<1>0. Modes /\ Reads /\ Keeps
  BY DEF Settled
<1>1. ASSUME verdict = "repairPossible"
      PROVE  /\ ReadsDisk /\ cmd # "verify" /\ Mending
             /\ exit.cmd = "repair" => exit.code = "success" /\ AllOriginal
  BY <1>0, <1>1 DEF Reads, Watched, Keeps
<1>2. ASSUME NEW c \in {"verify", "repair"}, Begin(c) PROVE Keeps'
  <2>1. verdict = "repairPossible" /\ c = "repair"
    BY <1>2 DEF Begin
  <2>2. QED BY <1>1, <1>2, <2>1, BeginMends DEF Keeps
<1>3. CASE Exit
  <2>1. CASE verdict = "repairPossible"
    <3>1. cmd = "repair" /\ cmd' = "none"
      BY <1>0, <1>1, <1>3, <2>1 DEF Modes, Exit
    <3>2. QED BY <1>0, <1>1, <1>3, <2>1, <3>1, ExitMends DEF Keeps
  <2>2. CASE verdict # "repairPossible"
    <3>1. verdict = "pending"
      BY <1>3, <2>2 DEF Exit
    <3>2. QED BY <1>0, <1>3, <3>1, VerifyPromises
  <2>3. QED BY <2>1, <2>2
<1>4. CASE Step
  <2>1. verdict = "repairPossible" /\ (pc' # "none" => UNCHANGED <<cmd, exit>>)
    BY <1>4, StepKinds
  <2>2. Mending' /\ pc' # "none" /\ (AllOriginal => AllOriginal')
    BY <1>0, <1>1, <1>4, <2>1, StepMends
  <2>3. QED BY <1>1, <2>1, <2>2 DEF Keeps
<1>5. QED BY <1>2, <1>3, <1>4, PromiseSteps

LEMMA StaleStays == CommandNext => (Sound' <=> Sound)
<1>1. Next => UNCHANGED stale
  BY DEF Next, Call, LoadStep, RepairStep, Fault, Damage, NewDecoder, LoadFileData,
     LoadDataFile, StoreFileData, LoadParityData, LoadVolume, StoreParityData, RepairFails,
     Repair, SkipFile, HashMismatch, EndRepair, OpenFile, FinishWrite, OpenFails, WriteFails,
     Crash, DamageFile, DamageVolume, DamageIndex, fileVars
<1>2. QED BY <1>1, StepIsClientStep DEF Sound

LEMMA StutterMends ==
  ASSUME UNCHANGED commandVars
  PROVE  (Modes => Modes') /\ (ReadsDisk => ReadsDisk') /\ (Mending => Mending') /\ (Sound => Sound')
<1> USE DEF commandVars, vars, fileVars, decoderVars, localVars
<1>1. Modes => Modes'
  BY DEF Modes
<1>2. ReadsDisk => ReadsDisk'
  BY DEF ReadsDisk, Exact, ExactParity, RecoveryPackets, Holds
<1>3. Mending => Mending'
  BY DEF Mending, InRepair, Mendable, Absent, Holds, ParityOnDisk, RecoveryPackets, AllOriginal
<1>4. Sound => Sound'
  BY DEF Sound
<1>5. QED BY <1>1, <1>2, <1>3, <1>4

LEMMA StutterSettled == Settled /\ UNCHANGED commandVars => Settled'
<1> SUFFICES ASSUME Settled, UNCHANGED commandVars PROVE Settled'
  OBVIOUS
<1>1. /\ UNCHANGED <<verdict, cmd, exit>> /\ (Sound' => Sound)
      /\ AllOriginal => AllOriginal'
  BY DEF commandVars, vars, fileVars, Sound, AllOriginal
<1>2. Reads'
  BY <1>1, StutterMends DEF Settled, Reads, Watched
<1>3. Sound' => Keeps'
  BY <1>1, StutterMends DEF Settled, Keeps
<1>4. QED BY <1>2, <1>3, StutterMends DEF Settled

\* For any recovery set of distinct files, volume layout and damage: when verify exits
\* with "repair possible", every repair that runs before anything else goes wrong exits
\* with success and leaves all files as they were.  Parity has to be right and the
\* matrix invertible.
THEOREM PromiseIsKept ==
  ASSUME DistinctIDs
  PROVE  CommandSpec => []PromiseKept
<1> DEFINE Known == /\ TypeOK /\ WriteInProgress /\ DecoderConsistent
                    /\ NoStaleUnmixed /\ Searched
<1>1. CommandSpec => []Known
  <2>1. Spec => []Searched
    BY InitSearched, StepSearched, TypeCorrect, PTL DEF Spec
  <2>2. QED BY <2>1, CommandsUseDecoder, TypeCorrect, Consistent, StaysUnmixed, PTL
<1>2. Known /\ Settled /\ CommandNext => Settled'
  BY StepModes, StepReads, StepKeeps, StaleStays
  DEF Settled, DecoderConsistent, NoStaleUnmixed, Sound
<1>3. Settled => PromiseKept
  BY DEF Settled, Keeps, PromiseKept
<1> HIDE DEF Known
<1>4. QED BY <1>1, <1>2, <1>3, InitSettled, StutterSettled, PTL DEF CommandSpec
-------------------------------------------------------------------------------
(* Once nothing else goes wrong.  The commands then do all that Converges asks *)
(* of them, step by step: what is left to fairness is that they take steps.    *)

\* The steps that are left of a command, whatever it meets.
LeftOf(last) == IF i <= last THEN last + 1 - i ELSE 0

StepsLeft ==
  LET fileCount   == Len(RecoverySet)
      volumeCount == Len(VolumeShards) IN
  CASE pc = "idle" /\ result = "none"         -> 3 * fileCount + volumeCount + 6
    [] pc = "files"                           -> 2 * fileCount + volumeCount + 5 + LeftOf(fileCount)
    [] pc = "idle" /\ result = "filesLoaded"  -> 2 * fileCount + volumeCount + 4
    [] pc = "volumes"                         -> 2 * fileCount + 3 + LeftOf(volumeCount)
    [] pc = "idle" /\ result = "parityLoaded" -> 2 * fileCount + 2
    [] pc = "repair"                          -> 2 * LeftOf(fileCount) + 1
    [] pc = "writing"                         -> 2 * LeftOf(fileCount)
    [] OTHER                                  -> 0

\* A user who runs the commands, and nothing that gets in their way.
Undisturbed == (\E c \in {"verify", "repair"} : Begin(c)) \/ Step \/ Exit

\* Each repair that ends has succeeded and all files are as they were, each verify that
\* ends says that no repair is needed or that it is possible, and no file is lost.
Mends ==
  /\ cmd = "repair" /\ cmd' = "none" => exit' = [cmd |-> "repair", code |-> "success"] /\ AllOriginal'
  /\ cmd = "verify" /\ cmd' = "none" => exit'.code \in {"success", "repairPossible"}
  /\ AllOriginal => AllOriginal'

\* What can be repaired before a command begins can be repaired by it.
LEMMA RecoverableMends ==
  ASSUME Modes, cmd = "none", Recoverable
  PROVE  ReadsDisk /\ Mending
<1>1. \A s \in Shards : OnDisk(s) <=> \E n \in Entries : Holds(disk, RecoverySet[n], s)
  BY DEF OnDisk, Holds
<1>2. Absent = {s \in Shards : ~OnDisk(s)}
  BY <1>1 DEF Absent
<1>3. pc = "none" /\ result \in {"none", "panic", "indexError"}
  BY DEF Modes
<1>4. QED BY <1>2, <1>3 DEF Recoverable, ReadsDisk, Mending, Mendable, InRepair

LEMMA UndisturbedMends ==
  ASSUME DistinctIDs, Sound, TypeOK, WriteInProgress, IndInv, Unmixed, Searched, Modes,
         ReadsDisk, Mending, Undisturbed
  PROVE  ReadsDisk' /\ Mending' /\ Sound' /\ Mends
<1>1. Sound'
  BY StaleStays DEF Undisturbed, CommandNext
<1>2. ASSUME NEW c \in {"verify", "repair"}, Begin(c)
      PROVE  ReadsDisk' /\ Mending' /\ Mends
  <2>1. /\ Mending' /\ cmd' # "none" /\ (AllOriginal => AllOriginal')
    BY <1>2, BeginMends
  <2>2. QED BY <1>2, <2>1, BeginReadsDisk DEF Mends
<1>3. CASE Step
  <2>1. /\ Mending' /\ cmd' # "none" /\ (AllOriginal => AllOriginal')
    BY <1>3, StepMends, StepKinds
  <2>2. QED BY <1>1, <1>3, <2>1, StepReadsDisk DEF Mends
<1>4. CASE Exit
  <2>1. Mending' /\ Mends
    BY <1>4, ExitMends DEF Mends
  <2>2. QED BY <1>1, <1>4, <2>1, ExitReadsDisk
<1>5. QED BY <1>1, <1>2, <1>3, <1>4 DEF Undisturbed

\* For any recovery set of distinct files and volume layout: from when enough is left of
\* the set and no file is damaged, no write fails and no process dies any more, every
\* repair that ends has succeeded and left all files as they were, and they stay so.
\* Parity has to be right and the matrix invertible.
THEOREM UndisturbedRepairRestores ==
  ASSUME DistinctIDs
  PROVE  CommandSpec =>
           [](Sound /\ cmd = "none" /\ Recoverable /\ [][Undisturbed]_commandVars =>
                [][Mends]_commandVars)
<1> DEFINE Known == /\ TypeOK /\ WriteInProgress /\ DecoderConsistent
                    /\ NoStaleUnmixed /\ Searched
           Mended == Sound /\ ReadsDisk /\ Mending
<1>1. CommandSpec => [](Known /\ Modes)
  <2>1. Spec => []Searched
    BY InitSearched, StepSearched, TypeCorrect, PTL DEF Spec
  <2>2. CommandInit => Modes
    BY InitSettled DEF Settled
  <2>3. Modes /\ [CommandNext]_commandVars => Modes'
    BY StepModes, StutterMends
  <2>4. QED BY <2>1, <2>2, <2>3, CommandsUseDecoder, TypeCorrect, Consistent, StaysUnmixed, PTL
    DEF CommandSpec
<1>2. Modes /\ Sound /\ cmd = "none" /\ Recoverable => Mended
  BY RecoverableMends
<1>3. Known /\ Modes /\ Mended /\ [Undisturbed]_commandVars => Mended'
  BY UndisturbedMends, StutterMends DEF DecoderConsistent, NoStaleUnmixed, Sound
<1>4. Known /\ Modes /\ Mended /\ [Undisturbed]_commandVars => [Mends]_commandVars
  BY UndisturbedMends DEF DecoderConsistent, NoStaleUnmixed, Sound
<1> HIDE DEF Known, Mended
<1>5. QED BY <1>1, <1>2, <1>3, <1>4, PTL

\* Every loop over the entries or the volumes begins at the first one.
AtStart == pc \in {"none", "idle"} => i = 1

LEMMA BeginsAtStart == Spec => []AtStart
<1>1. Init => AtStart
  BY DEF Init, AtStart
<1>2. AtStart /\ [Next]_vars => AtStart'
  <2> SUFFICES ASSUME AtStart, [Next]_vars PROVE AtStart'
    OBVIOUS
  <2>1. CASE UNCHANGED vars
    BY <2>1 DEF vars, AtStart
  <2>2. CASE Call
    <3>1. \/ pc \in {"none", "idle"} /\ i' = i
          \/ pc' \notin {"none", "idle"}
          \/ pc' = "idle" /\ i' = 1
      BY <2>2
      DEF Call, NewDecoder, LoadFileData, LoadParityData, RepairFails, Repair, Return, localVars
    <3>2. QED BY <3>1 DEF AtStart
  <2>3. CASE LoadStep
    BY <2>3
    DEF LoadStep, LoadDataFile, StoreFileData, LoadVolume, StoreParityData, Return, Die, AtStart
  <2>4. CASE RepairStep
    BY <2>4
    DEF RepairStep, SkipFile, HashMismatch, OpenFile, FinishWrite, EndRepair, Return, AtStart
  <2>5. CASE Fault
    BY <2>5 DEF Fault, OpenFails, WriteFails, Crash, Return, Die, AtStart
  <2>6. CASE Damage
    BY <2>6 DEF Damage, DamageFile, DamageVolume, DamageIndex, localVars, AtStart
  <2>7. QED BY <2>1, <2>2, <2>3, <2>4, <2>5, <2>6 DEF Next
<1>3. QED BY <1>1, <1>2, PTL DEF Spec

\* The number of the steps that are left falls with each one.
LEMMA StepsFall ==
  ASSUME TypeOK, WriteInProgress, AtStart, Step
  PROVE  StepsLeft' < StepsLeft
<1> DEFINE fileCount   == Len(RecoverySet)
           volumeCount == Len(VolumeShards)
<1>0. fileCount \in Nat \ {0} /\ volumeCount \in Nat /\ Entries = 1 .. fileCount /\ Volumes = 1 .. volumeCount
  BY EntryFacts, VolumeAssumption DEF Entries, Volumes
<1>1. i \in Nat \ {0} /\ LeftOf(fileCount) \in Nat /\ LeftOf(volumeCount) \in Nat
  BY <1>0 DEF TypeOK, LeftOf
<1>2. CASE LoadFiles
  <2>1. pc = "idle" /\ result = "none" /\ pc' = "files" /\ i' = 1
    BY <1>2 DEF LoadFiles, LoadFileData, AtStart
  <2>2. LeftOf(fileCount)' = fileCount
    BY <1>0, <2>1 DEF LeftOf
  <2>3. StepsLeft = 3 * fileCount + volumeCount + 6
    BY <2>1 DEF StepsLeft
  <2>4. StepsLeft' = 2 * fileCount + volumeCount + 5 + fileCount
    BY <2>1, <2>2 DEF StepsLeft
  <2>5. QED BY <1>0, <2>3, <2>4
<1>3. CASE LoadParity
  <2>1. pc = "idle" /\ result = "filesLoaded" /\ pc' = "volumes" /\ i' = 1
    BY <1>3 DEF LoadParity, LoadParityData, AtStart
  <2>2. LeftOf(volumeCount)' = volumeCount
    BY <1>0, <2>1 DEF LeftOf
  <2>3. StepsLeft = 2 * fileCount + volumeCount + 4
    BY <2>1 DEF StepsLeft
  <2>4. StepsLeft' = 2 * fileCount + 3 + volumeCount
    BY <2>1, <2>2 DEF StepsLeft
  <2>5. QED BY <1>0, <2>3, <2>4
<1>4. CASE RepairFiles
  <2>1. /\ pc = "idle" /\ result = "parityLoaded"
        /\ \/ pc' = "repair" /\ i' = 1
           \/ pc' = "idle" /\ result' \notin {"none", "filesLoaded", "parityLoaded"}
    BY <1>4 DEF RepairFiles, Repair, RepairFails, RepairError, Return, AtStart
  <2>2. QED BY <1>0, <2>1 DEF StepsLeft, LeftOf
<1>5. CASE LoadDataFile
  <2>1. /\ pc = "files" /\ i \in Entries
        /\ \/ pc' = "files" /\ i' = i + 1
           \/ pc' = "idle" /\ result' = "fileError"
    BY <1>5 DEF LoadDataFile, Return
  <2>2. QED BY <1>0, <1>1, <2>1 DEF StepsLeft, LeftOf
<1>6. CASE StoreFileData
  <2>1. pc = "files" /\ pc' = "idle" /\ result' = "filesLoaded"
    BY <1>6 DEF StoreFileData, Return
  <2>2. QED BY <1>0, <1>1, <2>1 DEF StepsLeft
<1>7. CASE LoadVolume
  <2>1. /\ pc = "volumes" /\ i \in Volumes
        /\ \/ pc' = "volumes" /\ i' = i + 1
           \/ pc' = "idle" /\ result' = "parityError"
           \/ pc' = "none"
    BY <1>7 DEF LoadVolume, Return, Die
  <2>2. QED BY <1>0, <1>1, <2>1 DEF StepsLeft, LeftOf
<1>8. CASE StoreParityData
  <2>1. pc = "volumes" /\ pc' = "idle" /\ result' = "parityLoaded"
    BY <1>8 DEF StoreParityData, Return
  <2>2. QED BY <1>0, <1>1, <2>1 DEF StepsLeft
<1>9. CASE SkipFile
  <2>1. pc = "repair" /\ i \in Entries /\ pc' = "repair" /\ i' = i + 1
    BY <1>9 DEF SkipFile
  <2>2. QED BY <1>0, <1>1, <2>1 DEF StepsLeft, LeftOf
<1>10. CASE OpenFile
  <2>1. pc = "repair" /\ i \in Entries /\ pc' = "writing" /\ i' = i
    BY <1>10 DEF OpenFile
  <2>2. QED BY <1>0, <1>1, <2>1 DEF StepsLeft, LeftOf
<1>11. CASE FinishWrite
  <2>1. pc = "writing" /\ i \in Entries /\ pc' = "repair" /\ i' = i + 1
    BY <1>11 DEF FinishWrite, WriteInProgress
  <2>2. QED BY <1>0, <1>1, <2>1 DEF StepsLeft, LeftOf
<1>12. CASE HashMismatch \/ EndRepair
  <2>1. /\ pc = "repair" /\ pc' = "idle"
        /\ result' \notin {"none", "filesLoaded", "parityLoaded"}
    BY <1>12 DEF HashMismatch, EndRepair, Return
  <2>2. QED BY <1>0, <1>1, <2>1 DEF StepsLeft
<1>13. QED
  BY <1>2, <1>3, <1>4, <1>5, <1>6, <1>7, <1>8, <1>9, <1>10, <1>11, <1>12, StepKinds

LEMMA StepsCounted == (TypeOK => StepsLeft \in Nat) /\ (TypeOK' => StepsLeft' \in Nat)
<1>1. Len(RecoverySet) \in Nat /\ Len(VolumeShards) \in Nat
  BY EntryFacts, VolumeAssumption
<1>2. TypeOK => LeftOf(Len(RecoverySet)) \in Nat /\ LeftOf(Len(VolumeShards)) \in Nat
  BY <1>1 DEF TypeOK, LeftOf
<1>3. TypeOK => StepsLeft \in Nat
  BY <1>1, <1>2 DEF StepsLeft
<1>4. TypeOK' => LeftOf(Len(RecoverySet))' \in Nat /\ LeftOf(Len(VolumeShards))' \in Nat
  BY <1>1 DEF TypeOK, LeftOf
<1>5. TypeOK' => StepsLeft' \in Nat
  BY <1>1, <1>4 DEF StepsLeft
<1>6. QED BY <1>3, <1>5

LEMMA OthersDoNotRaise ==
  ASSUME TypeOK, Exit \/ FaultyStep \/ DamagingStep
  PROVE  StepsLeft' <= StepsLeft
<1>1. StepsLeft \in Nat
  BY StepsCounted
<1>2. CASE pc' = "none" \/ (pc' = "idle" /\ result' = "writeError")
  <2>1. StepsLeft' = 0
    BY <1>2 DEF StepsLeft
  <2>2. QED BY <1>1, <2>1
<1>3. CASE UNCHANGED <<pc, i, result>>
  <2>1. StepsLeft' = StepsLeft
    BY <1>3 DEF StepsLeft, LeftOf
  <2>2. QED BY <1>1, <2>1
<1>4. CASE Exit
  BY <1>2, <1>4 DEF Exit, Die
<1>5. CASE FaultyStep
  BY <1>2, <1>5 DEF FaultyStep, Fault, OpenFails, WriteFails, Crash, Return, Die
<1>6. CASE DamagingStep
  BY <1>3, <1>6 DEF DamagingStep, Damage, DamageFile, DamageVolume, DamageIndex
<1>7. QED BY <1>4, <1>5, <1>6

\* No command runs forever, whatever the files and volumes hold and whatever else happens:
\* the number of its steps that are left falls with each step, and nothing raises it.
THEOREM CommandsTerminate ==
  CommandSpec => [][cmd # "none" => /\ StepsLeft \in Nat
                                    /\ StepsLeft' <= StepsLeft
                                    /\ Step => StepsLeft' < StepsLeft]_commandVars
<1>1. ASSUME TypeOK, TypeOK', WriteInProgress, AtStart, CommandNext, cmd # "none"
      PROVE  /\ StepsLeft \in Nat /\ StepsLeft' <= StepsLeft
             /\ Step => StepsLeft' < StepsLeft
  <2>1. StepsLeft \in Nat /\ StepsLeft' \in Nat
    BY <1>1, StepsCounted
  <2>2. Step => StepsLeft' < StepsLeft
    BY <1>1, StepsFall
  <2>3. Step \/ Exit \/ FaultyStep \/ DamagingStep
    BY <1>1 DEF CommandNext, Begin
  <2>4. QED BY <1>1, <2>1, <2>2, <2>3, OthersDoNotRaise
<1>2. TypeOK /\ TypeOK' /\ WriteInProgress /\ AtStart /\ [CommandNext]_commandVars =>
        [cmd # "none" => /\ StepsLeft \in Nat /\ StepsLeft' <= StepsLeft
                         /\ Step => StepsLeft' < StepsLeft]_commandVars
  BY <1>1
<1>3. QED BY <1>2, CommandsUseDecoder, TypeCorrect, BeginsAtStart, PTL DEF CommandSpec
===============================================================================
