------------------------------ MODULE Par1Decoder ------------------------------
(***************************************************************************)
(* The PAR1 decoder (par1/decoder.go).  A shard is a whole file here, and  *)
(* a file is usable only when its hash is right.  As for PAR2, a client    *)
(* calls the methods in any order, each access to a file is a step, and    *)
(* other programs and crashes come in between.                             *)
(***************************************************************************)
EXTENDS Integers, Sequences, FiniteSets

CONSTANTS
  Paths,         \* paths of data files
  EntryLists,    \* lists of entries [path, saved] an index volume may have
  Original,      \* Original[p]: the bytes path p had when parity was created
  Byte,          \* the bytes files are made of
  Contents,      \* what other programs may leave in a data file
  Missing,       \* the "content" of a file that does not exist
  Unreadable,    \* the "content" of a file that ReadFile fails on
  Nil,           \* the nil data of a file that is missing or corrupt
  ShardLimit,    \* 256: bound on data and parity shards together
  VolumeLimit,   \* 99: bound on the volumes that are looked for
  Written,       \* the number of volumes that were created
  Singular,      \* <<missing shards, parity shards>> with a singular matrix
  MaxDamage      \* bound on the number of changes other programs make

ASSUME OriginalAssumption ==
  /\ Original \in [Paths -> Seq(Byte)]
  /\ Byte \subseteq Nat /\ 0 \in Byte
  /\ Contents \subseteq Seq(Byte) \cup {Missing, Unreadable}
  /\ Missing \notin Seq(Byte) /\ Unreadable \notin Seq(Byte) /\ Nil \notin Seq(Byte)
  /\ Missing # Unreadable
ASSUME EntryAssumption == EntryLists \subseteq Seq([path : Paths, saved : BOOLEAN])
ASSUME LimitAssumption ==
  /\ ShardLimit \in Nat \ {0}
  /\ VolumeLimit \in Nat \ {0}
  /\ Written \in 0 .. VolumeLimit
  /\ MaxDamage \in Nat

VARIABLES
  disk,            \* disk[p]: what path p holds
  volumes,         \* volumes[v]: "whole", "absent" or "bad"
  index,           \* "ok" or "bad": the index volume
  entries,         \* d.indexVolume.entries
  damage,          \* number of changes other programs made
  pc,              \* "none" without a Decoder, "idle" between calls, else the call
  i,               \* the loop index of the call
  fileData,        \* d.fileData: one element per saved entry
  parityData,      \* d.parityData: whether there is data for a volume
  shardByteCount,  \* d.shardByteCount
  loading,         \* fileData, local to LoadFileData
  found,           \* the volumes LoadParityData has read
  repaired,        \* the repairedPaths Repair returns
  result,          \* how the last call ended
  touched          \* history: the paths other programs changed since the decoder
                   \* last read (.now) or wrote them, and since LoadFileData
                   \* began (.load); and those of a Close that failed (.now)

fileVars    == <<disk, volumes, index, entries, damage>>
decoderVars == <<fileData, parityData, shardByteCount>>
localVars   == <<loading, found>>
vars == <<fileVars, decoderVars, localVars, pc, i, repaired, result, touched>>

-------------------------------------------------------------------------------
(* The data of the decoder. *)

SavedOnes == {n \in DOMAIN entries : entries[n].saved}

\* The n-th of the saved entries.
SavedEntry(n) ==
  entries[CHOOSE k \in SavedOnes : Cardinality({m \in SavedOnes : m <= k}) = n]

\* 256 minus the number of all entries, in 64 bits without a sign, and at
\* most 99.
VolumeCount ==
  IF Len(entries) <= ShardLimit /\ ShardLimit - Len(entries) < VolumeLimit
  THEN ShardLimit - Len(entries)
  ELSE VolumeLimit

\* The longest file of those that the parity is of.
ParityByteCount ==
  LET lengths == {0} \cup {Len(Original[entries[n].path]) : n \in SavedOnes}
  IN  CHOOSE l \in lengths : \A m \in lengths : m <= l

\* The volumes there were at first: none for files without a byte, nor beyond
\* the limit of the coder.
Created ==
  {v \in 1 .. Written : ParityByteCount > 0 /\ Cardinality(SavedOnes) + v <= ShardLimit}

UnusableData  == {n \in DOMAIN fileData : fileData[n] = Nil}
UsableData    == {n \in DOMAIN fileData : fileData[n] # Nil}
UsableParity  == {v \in DOMAIN parityData : parityData[v]}

\* FileCounts.RepairNeeded and FileCounts.RepairPossible.
RepairNeeded   == UnusableData # {}
RepairPossible == Cardinality(UsableParity) >= Cardinality(UnusableData)

\* The parity shards that missing data is computed from: the first ones.
UsedParity ==
  {v \in UsableParity :
     Cardinality({w \in UsableParity : w < v}) < Cardinality(UnusableData)}

\* buildShards makes room for shardByteCount - len(data) bytes.
BuildShardsPanics == \E n \in UsableData : Len(fileData[n]) > shardByteCount

\* What Repair ends with before it looks at reconstructed data.
RepairError ==
  IF fileData = <<>> \/ parityData = <<>> THEN "noShardCount"
  ELSE IF Len(fileData) + Len(parityData) > ShardLimit THEN "tooManyShards"
  ELSE IF BuildShardsPanics THEN "panic"
  ELSE IF shardByteCount = 0 THEN "noShardData"
  ELSE IF ~RepairPossible THEN "tooFewShards"
  ELSE IF <<UnusableData, UsedParity>> \in Singular THEN "singular"
  ELSE "none"

\* Shard n after reconstruction: the set hash ties the parity to the contents
\* of all saved files.
Shard(n) ==
  LET bytes == Original[SavedEntry(n).path]
  IN  [k \in 1 .. shardByteCount |-> IF k <= Len(bytes) THEN bytes[k] ELSE 0]

\* The entry that Repair takes for shard n.
EntryOf(n) == entries[n]

Assembled(n) == SubSeq(Shard(n), 1, Len(Original[EntryOf(n).path]))

-------------------------------------------------------------------------------
Init ==
  /\ disk = Original
  /\ index = "ok"
  /\ entries \in EntryLists
  /\ volumes = [v \in 1 .. VolumeLimit |-> IF v \in Created THEN "whole" ELSE "absent"]
  /\ damage = 0
  /\ pc = "none"
  /\ i = 1
  /\ fileData = <<>>
  /\ parityData = <<>>
  /\ shardByteCount = 0
  /\ loading = <<>>
  /\ found = {}
  /\ repaired = {}
  /\ result = "none"
  /\ touched = [now |-> {}, load |-> {}]

\* A call is over: its locals are gone.
Return(outcome) ==
  /\ pc' = "idle"
  /\ i' = 1
  /\ loading' = <<>>
  /\ found' = {}
  /\ result' = outcome

\* The process is gone, and the Decoder with it.
Die(outcome) ==
  /\ pc' = "none"
  /\ i' = 1
  /\ fileData' = <<>>
  /\ parityData' = <<>>
  /\ shardByteCount' = 0
  /\ loading' = <<>>
  /\ found' = {}
  /\ repaired' = {}
  /\ result' = outcome
  /\ touched' = [now |-> {}, load |-> {}]

NewDecoder ==
  /\ pc = "none"
  /\ IF index = "ok" THEN pc' = "idle" /\ result' = "none"
                     ELSE pc' = "none" /\ result' = "indexError"
  /\ UNCHANGED <<fileVars, decoderVars, localVars, i, repaired, touched>>

-------------------------------------------------------------------------------
(* LoadFileData *)

LoadFileData ==
  /\ pc = "idle"
  /\ pc' = "files"
  /\ result' = "pending"
  /\ repaired' = {}
  /\ touched' = [touched EXCEPT !.load = {}]
  /\ UNCHANGED <<fileVars, decoderVars, localVars, i>>

\* Mutation: the bytes are kept whatever their hash is.
UsableUnchecked(bytes, p) == bytes # Missing

\* Neither os.IsNotExist nor a hash mismatch.
Usable(bytes, p) == bytes = Original[p]

\* Mutation: a file that cannot be used gets no element.
FileDataSkipping(e) ==
  IF e.saved /\ Usable(disk[e.path], e.path) THEN <<disk[e.path]>> ELSE <<>>

\* What is appended for an entry: nothing when it is not saved.
FileDataOf(e) ==
  IF ~e.saved THEN <<>>
  ELSE <<IF Usable(disk[e.path], e.path) THEN disk[e.path] ELSE Nil>>

LoadDataFile ==
  /\ pc = "files"
  /\ i \in DOMAIN entries
  /\ LET failed == entries[i].saved /\ disk[entries[i].path] = Unreadable IN
       \/ /\ failed
          /\ Return("fileError")
       \/ /\ ~failed
          /\ loading' = loading \o FileDataOf(entries[i])
          /\ i' = i + 1
          /\ UNCHANGED <<pc, found, result>>
  /\ UNCHANGED <<fileVars, decoderVars, repaired, touched>>

StoreFileData ==
  /\ pc = "files"
  /\ i \notin DOMAIN entries
  /\ IF loading = <<>>
     THEN Return("noFileData") /\ UNCHANGED <<fileData, touched>>
     ELSE /\ Return("filesLoaded")
          /\ fileData' = loading
          /\ touched' = [touched EXCEPT !.now = touched.load]
  /\ UNCHANGED <<fileVars, parityData, shardByteCount, repaired>>

-------------------------------------------------------------------------------
(* LoadParityData *)

LoadParityData ==
  /\ pc = "idle"
  /\ pc' = "volumes"
  /\ result' = "pending"
  /\ repaired' = {}
  /\ UNCHANGED <<fileVars, decoderVars, localVars, i, touched>>

LoadVolume ==
  /\ pc = "volumes"
  /\ i <= VolumeCount
  /\ \/ /\ volumes[i] = "bad"
        /\ Return("parityError")
     \/ /\ volumes[i] # "bad"
        /\ found' = IF volumes[i] = "whole" THEN found \cup {i} ELSE found
        /\ i' = i + 1
        /\ UNCHANGED <<pc, loading, result>>
  /\ UNCHANGED <<fileVars, decoderVars, repaired, touched>>

\* The slice parityData[:maxI+1] has an element even when no volume was found.
ParityLength ==
  IF found = {} THEN 1 ELSE CHOOSE v \in found : \A w \in found : w <= v

StoreParityData ==
  /\ pc = "volumes"
  /\ i > VolumeCount
  /\ \/ /\ VolumeCount = 0
        /\ Die("panic")           \* parityData[:1] of a slice without elements
     \/ /\ VolumeCount > 0
        /\ parityData' = [v \in 1 .. ParityLength |-> v \in found]
        /\ shardByteCount' = IF found = {} THEN 0 ELSE ParityByteCount
        /\ Return("parityLoaded")
        /\ UNCHANGED <<fileData, repaired, touched>>
  /\ UNCHANGED fileVars

-------------------------------------------------------------------------------
(* Repair *)

RepairFails ==
  /\ pc = "idle"
  /\ RepairError \notin {"none", "panic"}
  /\ repaired' = {}
  /\ Return(RepairError)
  /\ UNCHANGED <<fileVars, decoderVars, touched>>

RepairPanics ==
  /\ pc = "idle"
  /\ RepairError = "panic"
  /\ Die("panic")
  /\ UNCHANGED fileVars

Repair ==
  /\ pc = "idle"
  /\ RepairError = "none"
  /\ repaired' = {}
  /\ pc' = "repair"
  /\ result' = "pending"
  /\ UNCHANGED <<fileVars, decoderVars, localVars, i, touched>>

SkipFile ==
  /\ pc = "repair"
  /\ i \in UsableData
  /\ i' = i + 1
  /\ UNCHANGED <<fileVars, decoderVars, localVars, pc, repaired, result, touched>>

\* The entry says that the file is longer than the shard, whose capacity may still
\* be enough for the slice: then there is only a mismatch.
SlicePanics ==
  /\ pc = "repair"
  /\ i \in UnusableData
  /\ Len(Original[EntryOf(i).path]) > shardByteCount
  /\ Die("panic")
  /\ UNCHANGED fileVars

\* Mutation: only the length of the data is looked at.
HashesMatchByLength(n) == Len(Original[EntryOf(n).path]) <= shardByteCount

\* The data has the hashes of the entry.
HashesMatch(n) ==
  /\ Len(Original[EntryOf(n).path]) <= shardByteCount
  /\ Assembled(n) = Original[EntryOf(n).path]

HashMismatch ==
  /\ pc = "repair"
  /\ i \in UnusableData
  /\ ~HashesMatch(i)
  /\ Return("hashMismatch")
  /\ UNCHANGED <<fileVars, decoderVars, repaired, touched>>

OpenFails ==
  /\ pc = "repair"
  /\ i \in UnusableData
  /\ HashesMatch(i)
  /\ Return("writeError")
  /\ UNCHANGED <<fileVars, decoderVars, repaired, touched>>

\* Mutation: usable files are written, too.
OpenFileAnyway ==
  /\ pc = "repair"
  /\ i \in DOMAIN fileData
  /\ HashesMatch(i)
  /\ disk' = [disk EXCEPT ![EntryOf(i).path] = <<>>]
  /\ pc' = "writing"
  /\ UNCHANGED <<volumes, index, entries, damage, decoderVars, localVars, i, repaired,
                 result, touched>>

\* WriteFile truncates the file, ...
OpenFile ==
  /\ pc = "repair"
  /\ i \in UnusableData
  /\ HashesMatch(i)
  /\ disk' = [disk EXCEPT ![EntryOf(i).path] = <<>>]
  /\ pc' = "writing"
  /\ UNCHANGED <<volumes, index, entries, damage, decoderVars, localVars, i, repaired,
                 result, touched>>

\* ... and then writes all of the data, which is usable from then on, ...
FinishWrite ==
  /\ pc = "writing"
  /\ disk' = [disk EXCEPT ![EntryOf(i).path] = Assembled(i)]
  /\ repaired' = repaired \cup {EntryOf(i).path}
  /\ touched' = [touched EXCEPT !.now = touched.now \ {EntryOf(i).path}]
  /\ fileData' = [fileData EXCEPT ![i] = Assembled(i)]
  /\ pc' = "repair"
  /\ i' = i + 1
  /\ UNCHANGED <<volumes, index, entries, damage, parityData, shardByteCount, localVars,
                 result>>

\* ... or only a part of it, ...
Tear == \E k \in 0 .. Len(Assembled(i)) - 1 :
          disk' = [disk EXCEPT ![EntryOf(i).path] = SubSeq(Assembled(i), 1, k)]

\* Mutation: the data is kept as usable before the error is looked at.
WriteFailsKept ==
  /\ pc = "writing"
  /\ Tear
  /\ Return("writeError")
  /\ fileData' = [fileData EXCEPT ![i] = Assembled(i)]
  /\ UNCHANGED <<volumes, index, entries, damage, parityData, shardByteCount, repaired, touched>>

WriteFails ==
  /\ pc = "writing"
  /\ Tear
  /\ Return("writeError")
  /\ UNCHANGED <<volumes, index, entries, damage, decoderVars, repaired, touched>>

\* ... or all of it before Close fails, and then the file is not known to be intact.
CloseFails ==
  /\ pc = "writing"
  /\ disk' = [disk EXCEPT ![EntryOf(i).path] = Assembled(i)]
  /\ touched' = [touched EXCEPT !.now = touched.now \cup {EntryOf(i).path}]
  /\ Return("writeError")
  /\ UNCHANGED <<volumes, index, entries, damage, decoderVars, repaired>>

EndRepair ==
  /\ pc = "repair"
  /\ i \notin DOMAIN fileData
  /\ Return("repaired")
  /\ UNCHANGED <<fileVars, decoderVars, repaired, touched>>

-------------------------------------------------------------------------------
(* VerifyAllData, which writes nothing. *)

VerifyAllData ==
  /\ pc = "idle"
  /\ repaired' = {}
  /\ \/ /\ RepairError = "panic"
        /\ Die("panic")
     \/ /\ RepairError # "panic"
        /\ Return(IF RepairError \in {"noShardCount", "tooManyShards"} THEN RepairError
                  ELSE IF \/ shardByteCount = 0
                          \/ UnusableData # {}
                          \/ UsableParity # DOMAIN parityData THEN "verifyError"
                  ELSE "allDataOk")
        /\ UNCHANGED <<decoderVars, touched>>
  /\ UNCHANGED fileVars

-------------------------------------------------------------------------------
(* The process may end at any time, and so may a write. *)

Crash ==
  /\ pc # "none"
  /\ IF pc = "writing" /\ Assembled(i) # <<>> THEN Tear ELSE UNCHANGED disk
  /\ Die("none")
  /\ UNCHANGED <<volumes, index, entries, damage>>

(* Other programs change files, but never the one that is being written. *)

DamageFile ==
  /\ damage < MaxDamage
  /\ \E p \in Paths, c \in Contents :
       /\ ~(pc = "writing" /\ p = EntryOf(i).path)
       /\ disk' = [disk EXCEPT ![p] = c]
       /\ touched' = [now |-> touched.now \cup {p}, load |-> touched.load \cup {p}]
  /\ damage' = damage + 1
  /\ UNCHANGED <<volumes, index, entries, decoderVars, localVars, pc, i, repaired, result>>

DamageVolume ==
  /\ damage < MaxDamage
  /\ \E v \in Created, state \in {"absent", "bad"} :
       volumes' = [volumes EXCEPT ![v] = state]
  /\ damage' = damage + 1
  /\ UNCHANGED <<disk, index, entries, decoderVars, localVars, pc, i, repaired, result,
                 touched>>

DamageIndex ==
  /\ damage < MaxDamage
  /\ index' = "bad"
  /\ damage' = damage + 1
  /\ UNCHANGED <<disk, volumes, entries, decoderVars, localVars, pc, i, repaired, result,
                 touched>>

Call       == NewDecoder \/ LoadFileData \/ LoadParityData \/ Repair \/ RepairFails
                \/ RepairPanics \/ VerifyAllData
LoadStep   == LoadDataFile \/ StoreFileData \/ LoadVolume \/ StoreParityData
RepairStep == SkipFile \/ SlicePanics \/ HashMismatch \/ OpenFile \/ FinishWrite
                \/ EndRepair
Fault      == OpenFails \/ WriteFails \/ CloseFails \/ Crash
Damage     == DamageFile \/ DamageVolume \/ DamageIndex

Next == Call \/ LoadStep \/ RepairStep \/ Fault \/ Damage

Spec == Init /\ [][Next]_vars
-------------------------------------------------------------------------------
(* Properties. *)

\* Every entry before a saved one is saved, so that the index of a shard is
\* that of its entry: as in any index volume that gopar writes.
Aligned ==
  \A m, n \in DOMAIN entries : m < n /\ entries[n].saved => entries[m].saved

DistinctPaths ==
  \A m, n \in DOMAIN entries : entries[m].path = entries[n].path => m = n

FileContent == Seq(Byte) \cup {Missing, Unreadable}

\* Every variable keeps to its type, and LoadFileData leaves an element for every
\* saved entry.
TypeOK ==
  /\ disk \in [Paths -> FileContent]
  /\ volumes \in [1 .. VolumeLimit -> {"whole", "absent", "bad"}]
  /\ index \in {"ok", "bad"}
  /\ entries \in EntryLists
  /\ damage \in 0 .. MaxDamage
  /\ pc \in {"none", "idle", "files", "volumes", "repair", "writing"}
  /\ i \in Nat \ {0}
  /\ fileData \in Seq(Seq(Byte) \cup {Nil})
  /\ fileData # <<>> => Len(fileData) = Cardinality(SavedOnes)
  /\ parityData \in Seq(BOOLEAN)
  /\ shardByteCount \in Nat
  /\ loading \in Seq(Seq(Byte) \cup {Nil})
  /\ found \subseteq 1 .. VolumeCount
  /\ repaired \subseteq Paths
  /\ result \in {"none", "pending", "panic", "indexError", "fileError", "noFileData",
                 "filesLoaded", "parityError", "parityLoaded", "noShardCount",
                 "tooManyShards", "noShardData", "tooFewShards", "singular",
                 "hashMismatch", "writeError", "repaired", "verifyError", "allDataOk"}
  /\ touched \in [now : SUBSET Paths, load : SUBSET Paths]

\* What the decoder holds for a file is on the disk, too, unless others
\* changed the file since it was read or written; so what counts as usable is
\* usable, after a Repair that wrote only some files as well.
UsableIsOnDisk ==
  Aligned /\ DistinctPaths =>
    \A n \in UsableData :
      /\ fileData[n] = Original[entries[n].path]
      /\ \/ disk[entries[n].path] = Original[entries[n].path]
         \/ entries[n].path \in touched.now

\* When Repair returns without an error, every saved file holds its original
\* bytes, unless others changed it.
SuccessRestores ==
  Aligned /\ DistinctPaths /\ result = "repaired" =>
    \A n \in DOMAIN entries :
      LET p == entries[n].path
      IN  entries[n].saved => disk[p] = Original[p] \/ p \in touched.now

\* Whatever entries the index volume has, and in whatever order, the decoder
\* changes a file only into its original bytes or the first of them.
WritesOnlyOriginals ==
  [][\A p \in Paths :
       damage' = damage /\ disk'[p] # disk[p] =>
         \E k \in 0 .. Len(Original[p]) : disk'[p] = SubSeq(Original[p], 1, k)]_vars

\* A file that holds its original bytes is never opened for writing, unless others
\* changed it after it was read, or its Close failed: not after a Repair that failed
\* half-way, either.
IntactNotOpened ==
  [][pc = "repair" /\ pc' = "writing" /\ Aligned /\ DistinctPaths =>
       \A p \in Paths : disk'[p] # disk[p] => disk[p] # Original[p] \/ p \in touched.now]_vars

\* "RepairPossible returns whether repair is possible": a repair that it calls
\* possible does not end the process.
PossibleNotPanic ==
  [][RepairPossible /\ fileData # <<>> /\ parityData # <<>> => result' # "panic"]_vars
===============================================================================
