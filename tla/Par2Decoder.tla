------------------------------ MODULE Par2Decoder ------------------------------
(***************************************************************************)
(* The PAR2 decoder (par2/decoder.go): a Decoder object over the data      *)
(* files and the parity volumes of one recovery set.  A client calls       *)
(* LoadFileData, LoadParityData and Repair in any order and any number of  *)
(* times; each call reads or writes one file per step, so that other       *)
(* programs may change a file, and the process may die, in between.        *)
(***************************************************************************)
EXTENDS Par2Slices

CONSTANTS
  Paths,          \* paths of data files
  RecoverySet,    \* the entries of the main packet, in file ID order
  Original,       \* Original[p]: the bytes path p had when parity was created
  Byte,           \* the bytes files are made of
  Contents,       \* what other programs may leave in a data file
  Missing,        \* the "content" of a file that does not exist
  Unreadable,     \* the "content" of a file that ReadFile fails on
  NilData,        \* the nil data of a shard that was not found
  Junk,           \* a slice that is not one of any file
  Exponents,      \* exponents of recovery packets
  VolumeShards,   \* VolumeShards[v]: the exponents volume v holds packets for
  CutShards,      \* CutShards[v]: those of them before the place where it is cut
  StaleChoices,   \* which volumes may be of other data under the same set ID
  Singular,       \* <<missing shards, parity rows>> with a singular matrix
  MaxDamage       \* bound on the number of changes other programs make

Entries == 1 .. Len(RecoverySet)
Volumes == 1 .. Len(VolumeShards)

\* Shard <<n, k>> is slice k (from 0) of entry n.
Shards ==
  UNION {{<<n, k>> : k \in {l \in 0 .. Len(Original[RecoverySet[n]]) - 1 :
                             l * SliceByteCount < Len(Original[RecoverySet[n]])}}
         : n \in Entries}

Checksum(s) == Slice(Original[RecoverySet[s[1]]], s[2] * SliceByteCount)
Home(s)     == <<RecoverySet[s[1]], s[2] * SliceByteCount>>
KnownSlices == {Checksum(s) : s \in Shards}

\* The state of a volume on disk: "bad" stands for a read error, a malformed
\* packet or a main packet that does not match; "empty" for a file without
\* packets of this set; "headless" for one that ends before its main packet,
\* and "cut" for one that ends after it, between two packets.
VolumeStates == {"whole", "cut", "absent", "empty", "headless", "bad"}

ASSUME RecoverySetAssumption ==
  /\ RecoverySet \in Seq(Paths)
  /\ RecoverySet # <<>>
ASSUME OriginalAssumption ==
  /\ Original \in [Paths -> Seq(Byte)]
  /\ \A p \in Paths : Original[p] # <<>>   \* empty files are rejected
  /\ Byte \subseteq Nat
  /\ ZeroByte \in Byte
  /\ Contents \subseteq Seq(Byte) \cup {Missing, Unreadable}
  /\ Missing \notin Seq(Byte) /\ Unreadable \notin Seq(Byte)
  /\ Missing # Unreadable
ASSUME ShardAssumption ==
  /\ Junk \in [1..SliceByteCount -> Byte]
  /\ Junk \notin KnownSlices
  /\ NilData \notin [1..SliceByteCount -> Byte]
ASSUME VolumeAssumption ==
  /\ Exponents \subseteq Nat /\ IsFiniteSet(Exponents)     \* they are uint16
  /\ VolumeShards \in Seq(SUBSET Exponents)
  /\ \A v \in Volumes : CutShards[v] \subseteq VolumeShards[v]
  /\ StaleChoices \subseteq SUBSET Volumes
ASSUME MaxDamageAssumption == MaxDamage \in Nat

VARIABLES
  disk,      \* disk[p]: what path p holds
  volumes,   \* volumes[v]: the state of parity volume v
  stale,     \* the volumes that were computed from other data
  index,     \* "ok" or "bad": the index file
  damage,    \* number of changes other programs made
  pc,        \* "none" without a Decoder, "idle" between calls, else the call
  i,         \* the loop index of the call
  loaded,    \* whether d.fileIntegrityInfos is set
  infos,     \* d.fileIntegrityInfos
  parity,    \* d.parityShards
  loading,   \* fileIntegrityInfos, local to LoadFileData
  matches,   \* the volumes LoadParityData's glob returned
  shards,    \* parityShards, local to LoadParityData
  wasOK,     \* local to Repair
  repaired,  \* the repairedPaths Repair returns
  result,    \* how the last call ended
  touched    \* history: the paths other programs changed since the decoder
             \* last read (.now) or wrote them, and since LoadFileData
             \* began (.load)

fileVars    == <<disk, volumes, stale, index, damage>>
decoderVars == <<loaded, infos, parity>>
localVars   == <<loading, matches, shards, wasOK>>
vars == <<fileVars, decoderVars, localVars, pc, i, repaired, result, touched>>

-------------------------------------------------------------------------------
(* The data of the decoder. *)

\* The last entry of a path: fileIDIndices keeps one index per file ID.
IndexOf(p) ==
  CHOOSE n \in Entries : /\ RecoverySet[n] = p
                         /\ \A m \in Entries : RecoverySet[m] = p => m <= n

\* Mutation: the shards of a file are numbered from one.
LocationsFromOne(slice) ==
  {<<Home(s)[1], Home(s)[2] - SliceByteCount>> : s \in {t \in Shards : Checksum(t) = slice}}

\* checksumToLocation: where a slice belongs.
LocationsOf(slice) == {Home(s) : s \in {t \in Shards : Checksum(t) = slice}}

BlankInfos ==
  [read   |-> [n \in Entries |-> Missing],
   shards |-> [s \in Shards |-> [data |-> NilData, locations |-> {}]]]
NoParity == [e \in Exponents |-> "nil"]

\* Mutation: a location is noted only with the first copy of a shard.
FillShardInfosOnce(old, p, bytes) ==
  LET found(s) == {<<p, j>> : j \in {h \in ScanHits(bytes, KnownSlices) :
                                       Slice(bytes, h) = Checksum(s)}}
  IN  [s \in Shards |->
        IF s[1] = IndexOf(RecoverySet[s[1]]) /\ found(s) # {} /\ old[s].data = NilData
        THEN [data |-> Checksum(s), locations |-> found(s)]
        ELSE old[s]]

\* Mutation: a later copy of a shard takes the place of the earlier ones.
FillShardInfosLast(old, p, bytes) ==
  LET found(s) == {<<p, j>> : j \in {h \in ScanHits(bytes, KnownSlices) :
                                       Slice(bytes, h) = Checksum(s)}}
  IN  [s \in Shards |->
        IF s[1] = IndexOf(RecoverySet[s[1]]) /\ found(s) # {}
        THEN [data |-> Checksum(s), locations |-> found(s)]
        ELSE old[s]]

\* fillShardInfos: note, for every known slice in the bytes of path p, that
\* the shards with these checksums were found there.
FillShardInfos(old, p, bytes) ==
  LET hits     == ScanHits(bytes, KnownSlices)
      found(s) == {<<p, j>> : j \in {h \in hits : Slice(bytes, h) = Checksum(s)}}
  IN  [s \in Shards |->
        IF s[1] = IndexOf(RecoverySet[s[1]]) /\ found(s) # {}
        THEN [data      |-> Checksum(s),
              locations |-> old[s].locations \cup found(s)]
        ELSE old[s]]

\* fileIntegrityInfo.ok.  A file is neither missing nor of the wrong hash or
\* length iff the content that was read is the original one.
AllShardsOK(inf, n) ==
  \A s \in Shards : s[1] = n => /\ inf.shards[s].data # NilData
                                /\ Home(s) \in inf.shards[s].locations
\* Mutation: the hash and the length of the whole file are not looked at.
FileOKByShards(inf, n) == AllShardsOK(inf, n)

FileOK(inf, n) == inf.read[n] = Original[RecoverySet[n]] /\ AllShardsOK(inf, n)

MissingShards   == {s \in Shards : infos.shards[s].data = NilData}
AvailableParity == {e \in Exponents : parity[e] # "nil"}

\* ShardCounts.RepairNeeded and ShardCounts.RepairPossible.
RepairNeeded   == Cardinality(MissingShards) > 0
RepairPossible == Cardinality(AvailableParity) >= Cardinality(MissingShards)

\* ReconstructData uses as many of the first parity shards as are missing.
UsedParity ==
  {e \in AvailableParity :
     Cardinality({x \in AvailableParity : x < e}) < Cardinality(MissingShards)}

\* What ReconstructData may put in the data shards: the originals when all
\* shards it starts from are, and something else in at least one otherwise.
Reconstructions ==
  LET rebuilt(good) == [s \in Shards |->
        IF s \notin MissingShards THEN infos.shards[s].data
        ELSE IF s \in good THEN Checksum(s) ELSE Junk]
  IN  IF /\ \A e \in UsedParity : parity[e] = "right"
         /\ \A s \in Shards \ MissingShards : infos.shards[s].data = Checksum(s)
      THEN {rebuilt(MissingShards)}
      ELSE {rebuilt(good) : good \in (SUBSET MissingShards) \ {MissingShards}}
             \cup (IF MissingShards = {} THEN {rebuilt({})} ELSE {})

\* Whether the parity of data may equal every loaded parity shard (checkParity).
\* The rows that data was solved from always agree with it.
ParityChecks(data) ==
  IF \A s \in Shards : data[s] = Checksum(s)
  THEN {\A e \in AvailableParity : parity[e] = "right"}
  ELSE IF AvailableParity = UsedParity THEN {TRUE} ELSE BOOLEAN

\* Mutation: the padding of the last shard is kept.
AssembledWhole(n) ==
  [k \in 1 .. SliceByteCount * Cardinality({s \in Shards : s[1] = n}) |->
     infos.shards[<<n, (k - 1) \div SliceByteCount>>]
       .data[((k - 1) % SliceByteCount) + 1]]

\* The first byteCount bytes of the data shards of entry n.
Assembled(n) ==
  [k \in 1 .. Len(Original[RecoverySet[n]]) |->
     infos.shards[<<n, (k - 1) \div SliceByteCount>>]
       .data[((k - 1) % SliceByteCount) + 1]]

-------------------------------------------------------------------------------
Init ==
  /\ disk = Original
  /\ volumes = [v \in Volumes |-> "whole"]
  /\ stale \in StaleChoices
  /\ index = "ok"
  /\ damage = 0
  /\ pc = "none"
  /\ i = 1
  /\ loaded = FALSE
  /\ infos = BlankInfos
  /\ parity = NoParity
  /\ loading = BlankInfos
  /\ matches = {}
  /\ shards = NoParity
  /\ wasOK = [n \in Entries |-> FALSE]
  /\ repaired = {}
  /\ result = "none"
  /\ touched = [now |-> {}, load |-> {}]

\* A call is over: its locals are gone.
Return(outcome) ==
  /\ pc' = "idle"
  /\ i' = 1
  /\ loading' = BlankInfos
  /\ matches' = {}
  /\ shards' = NoParity
  /\ wasOK' = [n \in Entries |-> FALSE]
  /\ result' = outcome

\* The process is gone, and the Decoder with it.
Die(outcome) ==
  /\ pc' = "none"
  /\ i' = 1
  /\ loaded' = FALSE
  /\ infos' = BlankInfos
  /\ parity' = NoParity
  /\ loading' = BlankInfos
  /\ matches' = {}
  /\ shards' = NoParity
  /\ wasOK' = [n \in Entries |-> FALSE]
  /\ repaired' = {}
  /\ result' = outcome
  /\ touched' = [now |-> {}, load |-> {}]

NewDecoder ==
  /\ pc = "none"
  /\ IF index = "ok" THEN pc' = "idle" /\ result' = "none"
                     ELSE pc' = "none" /\ result' = "indexError"
  /\ UNCHANGED <<fileVars, decoderVars, localVars, i, repaired, touched>>

-------------------------------------------------------------------------------
(* LoadFileData: the infos are built in a local and only then stored. *)

LoadFileData ==
  /\ pc = "idle"
  /\ pc' = "files"
  /\ result' = "pending"
  /\ repaired' = {}
  /\ touched' = [touched EXCEPT !.load = {}]
  /\ UNCHANGED <<fileVars, decoderVars, localVars, i>>

\* fillFileIntegrityInfos on the file of entry i.
LoadDataFile ==
  /\ pc = "files"
  /\ i \in Entries
  /\ LET p == RecoverySet[i] IN
       \/ /\ disk[p] = Unreadable
          /\ Return("fileError")
       \/ /\ disk[p] # Unreadable
          /\ loading' =
               [read   |-> [loading.read EXCEPT ![i] = disk[p]],
                shards |-> IF disk[p] = Missing THEN loading.shards
                           ELSE FillShardInfos(loading.shards, p, disk[p])]
          /\ i' = i + 1
          /\ UNCHANGED <<pc, matches, shards, wasOK, result>>
  /\ UNCHANGED <<fileVars, decoderVars, repaired, touched>>

StoreFileData ==
  /\ pc = "files"
  /\ i \notin Entries
  /\ loaded' = TRUE
  /\ infos' = loading
  /\ touched' = [touched EXCEPT !.now = touched.load]
  /\ Return("filesLoaded")
  /\ UNCHANGED <<fileVars, parity, repaired>>

-------------------------------------------------------------------------------
(* LoadParityData: the volumes are listed first and read afterwards. *)

LoadParityData ==
  /\ pc = "idle"
  /\ pc' = "volumes"
  /\ matches' = {v \in Volumes : volumes[v] # "absent"}
  /\ result' = "pending"
  /\ repaired' = {}
  /\ UNCHANGED <<fileVars, decoderVars, loading, shards, wasOK, i, touched>>

\* The exponents of the recovery packets that readFile finds in volume v.
RecoveryPackets(v) ==
  CASE volumes[v] = "whole" -> VolumeShards[v]
    [] volumes[v] = "cut"   -> CutShards[v]
    [] OTHER                -> {}

\* Mutation: recovery packets are stored one exponent too low.
WithVolumeShifted(old, v) ==
  [e \in Exponents |-> IF e + 1 \in RecoveryPackets(v) THEN "wrong" ELSE old[e]]

\* The parity shards with those of volume v, which win over earlier ones.
WithVolume(old, v) ==
  [e \in Exponents |-> IF e \notin RecoveryPackets(v) THEN old[e]
                       ELSE IF v \in stale THEN "wrong" ELSE "right"]

LoadVolume ==
  /\ pc = "volumes"
  /\ i \in Volumes
  /\ \/ /\ i \in matches /\ volumes[i] \in {"absent", "bad"}
        /\ Return("parityError")
        /\ UNCHANGED <<decoderVars, repaired, touched>>
     \/ /\ i \in matches /\ volumes[i] = "headless"
        /\ Die("panic")        \* parityFile.mainPacket is nil
     \/ /\ i \notin matches \/ volumes[i] \in {"whole", "cut", "empty"}
        /\ shards' = IF i \in matches THEN WithVolume(shards, i) ELSE shards
        /\ i' = i + 1
        /\ UNCHANGED <<decoderVars, loading, matches, wasOK, pc, repaired, result,
                       touched>>
  /\ UNCHANGED fileVars

StoreParityData ==
  /\ pc = "volumes"
  /\ i \notin Volumes
  /\ parity' = shards
  /\ Return("parityLoaded")
  /\ UNCHANGED <<fileVars, loaded, infos, repaired, touched>>

-------------------------------------------------------------------------------
(* Repair: all in memory first, then one file after another is rewritten. *)

\* The errors before any shard is looked at or filled in.
RepairError ==
  IF ~loaded THEN "noInfos"
  ELSE IF AvailableParity = {} THEN "noParity"
  ELSE IF ~RepairPossible THEN "notEnough"
  ELSE IF <<MissingShards, UsedParity>> \in Singular THEN "singular"
  ELSE "none"

RepairFails ==
  /\ pc = "idle"
  /\ RepairError # "none"
  /\ repaired' = {}
  /\ Return(RepairError)
  /\ UNCHANGED <<fileVars, decoderVars, touched>>

\* ReconstructData, the optional parity check, wasOK, and the shard infos
\* that replace the loaded ones.
Repair ==
  /\ pc = "idle"
  /\ RepairError = "none"
  /\ repaired' = {}
  /\ \E data \in Reconstructions, checkParity \in BOOLEAN :
       \E matching \in IF checkParity THEN ParityChecks(data) ELSE {TRUE} :
         \/ /\ ~matching
            /\ Return("parityCheck")
            /\ UNCHANGED decoderVars
         \/ /\ matching
            /\ wasOK' = [n \in Entries |-> FileOK(infos, n)]
            /\ infos' = [infos EXCEPT !.shards =
                 [s \in Shards |-> [data      |-> data[s],
                                    locations |-> LocationsOf(data[s])]]]
            /\ pc' = "repair"
            /\ result' = "pending"
            /\ UNCHANGED <<loaded, parity, loading, matches, shards, i>>
  /\ UNCHANGED <<fileVars, touched>>

SkipFile ==
  /\ pc = "repair"
  /\ i \in Entries
  /\ wasOK[i]
  /\ i' = i + 1
  /\ UNCHANGED <<fileVars, decoderVars, localVars, pc, repaired, result, touched>>

HashMismatch ==
  /\ pc = "repair"
  /\ i \in Entries
  /\ ~wasOK[i]
  /\ Assembled(i) # Original[RecoverySet[i]]
  /\ Return("hashMismatch")
  /\ UNCHANGED <<fileVars, decoderVars, repaired, touched>>

\* Mutation: the hash of the reconstructed data is not checked.
OpenFileUnchecked ==
  /\ pc = "repair"
  /\ i \in Entries
  /\ ~wasOK[i]
  /\ disk' = [disk EXCEPT ![RecoverySet[i]] = <<>>]
  /\ pc' = "writing"
  /\ UNCHANGED <<volumes, stale, index, damage, decoderVars, localVars, i, repaired, result,
                 touched>>

\* WriteFile truncates the file, ...
OpenFile ==
  /\ pc = "repair"
  /\ i \in Entries
  /\ ~wasOK[i]
  /\ Assembled(i) = Original[RecoverySet[i]]
  /\ disk' = [disk EXCEPT ![RecoverySet[i]] = <<>>]
  /\ pc' = "writing"
  /\ UNCHANGED <<volumes, stale, index, damage, decoderVars, localVars, i, repaired, result,
                 touched>>

\* ... or fails to open it, ...
OpenFails ==
  /\ pc = "repair"
  /\ i \in Entries
  /\ ~wasOK[i]
  /\ Assembled(i) = Original[RecoverySet[i]]
  /\ Return("writeError")
  /\ UNCHANGED <<fileVars, decoderVars, repaired, touched>>

\* Mutation: every file is written under the path of the first one.
FinishWriteFirst ==
  /\ pc = "writing"
  /\ disk' = [disk EXCEPT ![RecoverySet[1]] = Assembled(i)]
  /\ repaired' = repaired \cup {RecoverySet[i]}
  /\ touched' = [touched EXCEPT !.now = @ \ {RecoverySet[i]}]
  /\ pc' = "repair"
  /\ i' = i + 1
  /\ UNCHANGED <<volumes, stale, index, damage, decoderVars, localVars, result>>

\* ... and then writes all of the data, ...
FinishWrite ==
  /\ pc = "writing"
  /\ disk' = [disk EXCEPT ![RecoverySet[i]] = Assembled(i)]
  /\ repaired' = repaired \cup {RecoverySet[i]}
  /\ touched' = [touched EXCEPT !.now = @ \ {RecoverySet[i]}]
  /\ pc' = "repair"
  /\ i' = i + 1
  /\ UNCHANGED <<volumes, stale, index, damage, decoderVars, localVars, result>>

\* ... or only a part of it, or all of it before Close fails.
Tear == \E k \in 0 .. Len(Assembled(i)) :
          disk' = [disk EXCEPT ![RecoverySet[i]] = SubSeq(Assembled(i), 1, k)]

\* Mutation: the path is appended before the error is looked at.
WriteFailsListed ==
  /\ pc = "writing"
  /\ Tear
  /\ repaired' = repaired \cup {RecoverySet[i]}
  /\ Return("writeError")
  /\ UNCHANGED <<volumes, stale, index, damage, decoderVars, touched>>

WriteFails ==
  /\ pc = "writing"
  /\ Tear
  /\ Return("writeError")
  /\ UNCHANGED <<volumes, stale, index, damage, decoderVars, repaired, touched>>

EndRepair ==
  /\ pc = "repair"
  /\ i \notin Entries
  /\ Return("repaired")
  /\ UNCHANGED <<fileVars, decoderVars, repaired, touched>>

-------------------------------------------------------------------------------
(* The process may end at any time, and so may a write. *)

Crash ==
  /\ pc # "none"
  /\ IF pc = "writing" THEN Tear ELSE UNCHANGED disk
  /\ Die("none")
  /\ UNCHANGED <<volumes, stale, index, damage>>

(* Other programs change files, but never the one that is being written. *)

DamageFile ==
  /\ damage < MaxDamage
  /\ \E p \in Paths, c \in Contents :
       /\ ~(pc = "writing" /\ p = RecoverySet[i])
       /\ disk' = [disk EXCEPT ![p] = c]
       /\ touched' = [now |-> touched.now \cup {p}, load |-> touched.load \cup {p}]
  /\ damage' = damage + 1
  /\ UNCHANGED <<volumes, stale, index, decoderVars, localVars, pc, i, repaired, result>>

DamageVolume ==
  /\ damage < MaxDamage
  /\ \E v \in Volumes, state \in VolumeStates \ {"whole"} :
       volumes' = [volumes EXCEPT ![v] = state]
  /\ damage' = damage + 1
  /\ UNCHANGED <<disk, stale, index, decoderVars, localVars, pc, i, repaired, result, touched>>

DamageIndex ==
  /\ damage < MaxDamage
  /\ index' = "bad"
  /\ damage' = damage + 1
  /\ UNCHANGED <<disk, volumes, stale, decoderVars, localVars, pc, i, repaired, result, touched>>

LoadStep   == LoadDataFile \/ StoreFileData \/ LoadVolume \/ StoreParityData
RepairStep == SkipFile \/ HashMismatch \/ OpenFile \/ FinishWrite \/ EndRepair
Fault      == OpenFails \/ WriteFails \/ Crash
Call       == NewDecoder \/ LoadFileData \/ LoadParityData \/ RepairFails \/ Repair
Damage     == DamageFile \/ DamageVolume \/ DamageIndex

Next == Call \/ LoadStep \/ RepairStep \/ Fault \/ Damage

Spec == Init /\ [][Next]_vars
-------------------------------------------------------------------------------
(* Properties. *)

\* Entries of a recovery set written by one call of Create for distinct files.
DistinctIDs == \A m, n \in Entries : RecoverySet[m] = RecoverySet[n] => m = n

AllIntact(inf) == \A n \in Entries : inf.read[n] = Original[RecoverySet[n]]

ShardInfoType == [data      : KnownSlices \cup {NilData, Junk},
                  locations : SUBSET (Paths \X Nat)]
FileContent == Seq(Byte) \cup {Missing, Unreadable}
InfosType == [read   : [Entries -> FileContent],
              shards : [Shards -> ShardInfoType]]

\* Every variable keeps to its type: no call leaves a decoder half built.
TypeOK ==
  /\ disk \in [Paths -> FileContent]
  /\ volumes \in [Volumes -> VolumeStates]
  /\ stale \subseteq Volumes
  /\ index \in {"ok", "bad"}
  /\ damage \in 0 .. MaxDamage
  /\ pc \in {"none", "idle", "files", "volumes", "repair", "writing"}
  /\ i \in Nat \ {0}
  /\ loaded \in BOOLEAN
  /\ infos \in InfosType
  /\ parity \in [Exponents -> {"nil", "right", "wrong"}]
  /\ loading \in InfosType
  /\ matches \subseteq Volumes
  /\ shards \in [Exponents -> {"nil", "right", "wrong"}]
  /\ wasOK \in [Entries -> BOOLEAN]
  /\ repaired \subseteq Paths
  /\ result \in {"none", "pending", "panic", "indexError", "fileError", "filesLoaded",
                 "parityError", "parityLoaded", "noInfos", "noParity", "notEnough",
                 "singular", "parityCheck", "hashMismatch", "writeError", "repaired"}
  /\ touched \in [now : SUBSET Paths, load : SUBSET Paths]

\* The inductive invariant behind the two properties that follow it.  A file
\* that was intact when it was read has all of its shards, in their places
\* (InPlace), so that wasOK says exactly which files were intact; those are
\* never opened, and stay intact unless other programs touch them.
InPlace(inf, n) ==
  \A s \in Shards : s[1] = n => /\ inf.shards[s].data = Checksum(s)
                                /\ Home(s) \in inf.shards[s].locations
Held(n, changed) ==
  disk[RecoverySet[n]] = Original[RecoverySet[n]] \/ RecoverySet[n] \in changed

ReadFilesHold(inf, changed, last) ==
  \A n \in Entries : n < last /\ inf.read[n] = Original[RecoverySet[n]] =>
    InPlace(inf, n) /\ Held(n, changed)

WriteInProgress ==
  pc = "writing" => i \in Entries /\ Assembled(i) = Original[RecoverySet[i]]

IndInv ==
  /\ WriteInProgress
  /\ pc \in {"none", "idle"} => i = 1
  /\ pc = "files" => ReadFilesHold(loading, touched.load, i) /\ repaired = {}
  /\ loaded => ReadFilesHold(infos, touched.now, Len(RecoverySet) + 1)
  /\ pc \in {"repair", "writing"} =>
       /\ loaded
       /\ \A n \in Entries : wasOK[n] = (infos.read[n] = Original[RecoverySet[n]])
       /\ \A n \in Entries : n < i => Held(n, touched.now)
       /\ \A p \in repaired : \E n \in Entries : n < i /\ p = RecoverySet[n]
  /\ pc = "writing" => ~wasOK[i]
  /\ result = "repaired" => pc = "idle" /\ \A n \in Entries : Held(n, touched.now)
  /\ \A p \in repaired : disk[p] = Original[p] \/ p \in touched.now

\* IndInv holds for a recovery set without duplicate entries.
DecoderConsistent == DistinctIDs => IndInv

\* When Repair returns without an error, every file of the set holds its
\* original bytes, except those that other programs changed since the decoder
\* read or wrote them: the files it skipped and those it wrote add up to all.
SuccessRestores ==
  DistinctIDs /\ result = "repaired" =>
    \A n \in Entries : \/ disk[RecoverySet[n]] = Original[RecoverySet[n]]
                       \/ RecoverySet[n] \in touched.now

\* The paths Repair returns are files that hold their original bytes, also
\* when it returns them beside an error of a later file.
RepairedPathsHold ==
  DistinctIDs => \A p \in repaired : disk[p] = Original[p] \/ p \in touched.now

\* Whatever the volumes hold and whatever calls came before, the decoder
\* changes a file only into its original bytes or, when a write is cut short,
\* into the first of them.
WritesOnlyOriginals ==
  [][\A p \in Paths :
       damage' = damage /\ disk'[p] # disk[p] =>
         \E k \in 0 .. Len(Original[p]) : disk'[p] = SubSeq(Original[p], 1, k)]_vars

\* Repair never truncates a file that was intact when LoadFileData read it:
\* the scan finds every slice of an intact file in its place, so that
\* allShardsOK agrees with the hash of the whole file.
IntactNotOpened ==
  [][pc = "repair" /\ pc' = "writing" =>
       (DistinctIDs => infos.read[i] # Original[RecoverySet[i]])]_vars

\* What LoadFileData finds: files that are all intact need no repair, and when
\* no shard is missing the bytes of each one lie in some file that was read.
VerdictSound ==
  result = "filesLoaded" =>
    /\ AllIntact(infos) /\ DistinctIDs =>
         ~RepairNeeded /\ \A n \in Entries : FileOK(infos, n)
    /\ ~RepairNeeded =>
         \A s \in Shards : \E n \in Entries :
           /\ infos.read[n] # Missing
           /\ \E j \in 0 .. Len(infos.read[n]) - 1 : Slice(infos.read[n], j) = Checksum(s)

\* With volumes that were all computed from the files as they were, Repair
\* never gets to data that fails a check: it has all of the original data or
\* says that it cannot have it.
MismatchMeansStale == result \in {"parityCheck", "hashMismatch"} => stale # {}

\* ShardCounts calls a shard usable when it is "not missing and not corrupt":
\* it is, unless stale parity was used.
UsableNotCorrupt ==
  stale = {} => \A s \in Shards : infos.shards[s].data \in {NilData, Checksum(s)}

\* "RepairNeeded returns whether repair is needed": it is, when some file does
\* not hold its original bytes.
DamageNeedsRepair ==
  result = "filesLoaded" /\ ~AllIntact(infos) => RepairNeeded
===============================================================================
