------------------------------ MODULE Par2Encoder ------------------------------
(***************************************************************************)
(* par2.Create and its Encoder (par2/create.go, par2/encoder.go): the data *)
(* files are read one by one, the parity is computed, and the index file   *)
(* and the volumes are written one by one, over what earlier calls left.   *)
(* Other programs change data files, writes fail and the process dies.     *)
(* What was written is looked at through the reader of the PAR2 decoder.   *)
(***************************************************************************)
EXTENDS Par2Packets

CONSTANTS
  Paths,         \* paths of data files
  Arguments,     \* the lists filePaths that Create is called with
  Contents,      \* what a data file may hold
  FirstFiles,    \* what the data files may hold at first
  Empty,         \* the content without a byte
  Missing,       \* the "content" of a file that cannot be read
  Start,         \* Start[c]: the first 16k and the length of content c
  Rank,          \* Rank[id]: the place of a file ID in the order of fileIDLess
  Counts,        \* the numbers of parity shards that are asked for
  Oversized,     \* <<data, count>>: more data or parity shards than the coder takes
  NoFile,        \* the "packets" of a volume that does not exist
  MaxChanges,    \* bound on the number of changes to data files
  MaxFaults      \* bound on the number of failed writes and crashes

\* Mutation: the ID does not depend on the data.
FileIDByName(p, c) == <<p, Start[Empty]>>

\* computeFileID: the ID is a hash of the first 16k, the length and the name.
FileID(p, c) == <<p, Start[c]>>
IDs == {FileID(p, c) : p \in Paths, c \in Contents}

ASSUME FilesAssumption ==
  /\ Arguments \subseteq Seq(Paths) \ {<<>>}
  /\ FirstFiles \subseteq [Paths -> Contents]
  /\ Empty \in Contents /\ Missing \notin Contents
  /\ \A c \in Contents \ {Empty} : Start[c] # Start[Empty]
  /\ \A x, y \in IDs : Rank[x] = Rank[y] => x = y
\* A set ID is never taken for none.
ASSUME SetIDAssumption ==
  \A paths \in Arguments : \A ids \in [DOMAIN paths -> IDs] : AnySet # [recoverySet |-> ids]
ASSUME CountsAssumption == Counts \subseteq Nat \ {0}
ASSUME BoundsAssumption == MaxChanges \in Nat /\ MaxFaults \in Nat

\* What the packets of a file may hold that can be read.
Bodies ==
  [client : {"gopar"}] \cup [recoverySet : Seq(IDs)] \cup [id : IDs, content : Contents]
    \cup [exponent : Nat, data : [exponent : Nat, of : Seq(Contents)]]
Packets ==
  [set  : [recoverySet : Seq(IDs)],
   type : {"creator", "main", "fileDesc", "ifsc", "recovery"},
   body : Bodies]
ASSUME PacketsAssumption ==
  Broken \notin Packets /\ Malformed \notin Bodies /\ NoFile \notin Seq(Packets)

\* The volumes of a set with count parity shards hold 1, 2, 4, ... of them, and
\* the last one the rest: the least set with 0 and what follows each of its members.
Firsts(count) ==
  {first \in 0 .. count - 1 :
     \A S \in SUBSET (0 .. count - 1) :
       (0 \in S /\ \A m \in S : 2 * m + 1 < count => 2 * m + 1 \in S) => first \in S}

\* A volume is named after its first exponent and the number of its shards.
VolumeName(count, first) ==
  <<first, IF 2 * first + 1 <= count THEN first + 1 ELSE count - first>>
VolumeNames(count) == {VolumeName(count, first) : first \in Firsts(count)}
Volumes == UNION {VolumeNames(count) : count \in Counts}
Index   == <<0, 0>>   \* the file without recovery packets

VARIABLES
  files,        \* files[p]: the content of a data file
  par,          \* par[f]: the packets of the index file or a volume
  pc,           \* the step of Create that is next, "idle" between calls
  filePaths,    \* e.filePaths
  i,            \* the loop index of LoadFileData
  count,        \* e.parityShardCount
  recoverySet,  \* e.recoverySet
  infos,        \* e.recoverySetInfos: the content by file ID
  parity,       \* e.parityShards: the data shards they were computed from
  target,       \* the file that Write is at
  result,       \* how the last call ended
  changes,      \* number of changes to data files
  faults,       \* number of failed writes and crashes
  since         \* history, since Create began: whether data files changed
                \* (.changed) and whether it opened a file (.wrote)

diskVars    == <<files, par, changes>>
encoderVars == <<filePaths, count, recoverySet, infos, parity>>
vars == <<diskVars, encoderVars, pc, i, target, result, faults, since>>

-------------------------------------------------------------------------------
NoInfos == [id \in {} |-> Missing]
NoData  == <<>>

Init ==
  /\ files \in FirstFiles
  /\ par = [f \in {Index} \cup Volumes |-> NoFile]
  /\ pc = "idle"
  /\ filePaths \in Arguments
  /\ i = 1
  /\ count \in Counts
  /\ recoverySet = <<>>
  /\ infos = NoInfos
  /\ parity = NoData
  /\ target = Index
  /\ result = "none"
  /\ changes = 0
  /\ faults = 0
  /\ since = [changed |-> FALSE, wrote |-> FALSE]

\* Create is over, and its Encoder is gone.
Return(outcome) ==
  /\ pc' = "idle"
  /\ i' = 1
  /\ recoverySet' = <<>>
  /\ infos' = NoInfos
  /\ parity' = NoData
  /\ target' = Index
  /\ result' = outcome
  /\ UNCHANGED <<filePaths, count>>

Create ==
  /\ pc = "idle"
  /\ filePaths' \in Arguments
  /\ count' \in Counts
  /\ pc' = "load"
  /\ result' = "pending"
  /\ since' = [changed |-> FALSE, wrote |-> FALSE]
  /\ UNCHANGED <<diskVars, recoverySet, infos, parity, i, target, faults>>

\* One round of the loop of LoadFileData.
LoadFile ==
  /\ pc = "load"
  /\ i <= Len(filePaths)
  /\ LET p == filePaths[i]  c == files[p] IN
       \/ /\ c = Missing
          /\ Return("fileError")
       \/ /\ c # Missing
          /\ recoverySet' = Append(recoverySet, FileID(p, c))
          /\ infos' = [id \in DOMAIN infos \cup {FileID(p, c)} |->
                         IF id = FileID(p, c) THEN c ELSE infos[id]]
          /\ i' = i + 1
          /\ UNCHANGED <<filePaths, count, parity, pc, target, result>>
  /\ UNCHANGED <<diskVars, faults, since>>

\* The orders that sort.Slice may leave the IDs in.
SortedByID(ids) ==
  {s \in [DOMAIN ids -> {ids[k] : k \in DOMAIN ids}] :
    /\ \A j, k \in DOMAIN s : j < k => Rank[s[j]] <= Rank[s[k]]
    /\ \A id \in {ids[k] : k \in DOMAIN ids} :
         Cardinality({k \in DOMAIN s : s[k] = id}) = Cardinality({k \in DOMAIN ids : ids[k] = id})}

\* The data shards, as the contents of the files of ids in their order.
ShardsOf(ids) == [k \in DOMAIN ids |-> infos[ids[k]]]

\* Mutation: the parity is computed from the files in the order they were read.
ComputeParityUnsorted ==
  /\ pc = "load"
  /\ i > Len(filePaths)
  /\ \/ /\ \A id \in DOMAIN infos : infos[id] = Empty
        /\ Return("panic")
     \/ /\ \E id \in DOMAIN infos : infos[id] # Empty
        /\ <<ShardsOf(recoverySet), count>> \in Oversized
        /\ Return("tooManyShards")
     \/ /\ \E id \in DOMAIN infos : infos[id] # Empty
        /\ <<ShardsOf(recoverySet), count>> \notin Oversized
        /\ recoverySet' \in SortedByID(recoverySet)
        /\ parity' = ShardsOf(recoverySet)
        /\ pc' = "write"
        /\ UNCHANGED <<filePaths, count, infos, i, target, result>>
  /\ UNCHANGED <<diskVars, faults, since>>

\* The end of LoadFileData and all of ComputeParityData.  Without any shard the
\* coder panics, and it refuses more than it has numbers for, in any order.
ComputeParityData ==
  /\ pc = "load"
  /\ i > Len(filePaths)
  /\ \/ /\ \A id \in DOMAIN infos : infos[id] = Empty
        /\ Return("panic")
     \/ /\ \E id \in DOMAIN infos : infos[id] # Empty
        /\ <<ShardsOf(recoverySet), count>> \in Oversized
        /\ Return("tooManyShards")
     \/ /\ \E id \in DOMAIN infos : infos[id] # Empty
        /\ <<ShardsOf(recoverySet), count>> \notin Oversized
        /\ recoverySet' \in SortedByID(recoverySet)
        /\ parity' = ShardsOf(recoverySet')
        /\ pc' = "write"
        /\ UNCHANGED <<filePaths, count, infos, i, target, result>>
  /\ UNCHANGED <<diskVars, faults, since>>

-------------------------------------------------------------------------------
(* Write *)

\* The packets for the file f.
PacketsOf(f) ==
  WriteFile([recoverySet |-> recoverySet],
            [id \in DOMAIN infos |-> [id |-> id, content |-> infos[id]]],
            [id \in DOMAIN infos |-> [id |-> id, content |-> infos[id]]],
            [e \in f[1] .. f[1] + f[2] - 1 |-> [exponent |-> e, of |-> parity]])

\* writeFile fails on a file description without bytes.
WriteRefused ==
  /\ pc = "write"
  /\ \E id \in DOMAIN infos : infos[id] = Empty
  /\ Return("emptyFile")
  /\ UNCHANGED <<diskVars, faults, since>>

\* Mutation: a file is opened before its packets are made.
OpenFileEarly ==
  /\ pc = "write"
  /\ par' = [par EXCEPT ![target] = <<>>]
  /\ pc' = "writing"
  /\ since' = [since EXCEPT !.wrote = TRUE]
  /\ UNCHANGED <<files, changes, encoderVars, i, target, result, faults>>

\* A file is truncated, ...
OpenFile ==
  /\ pc = "write"
  /\ \A id \in DOMAIN infos : infos[id] # Empty
  /\ par' = [par EXCEPT ![target] = <<>>]
  /\ pc' = "writing"
  /\ since' = [since EXCEPT !.wrote = TRUE]
  /\ UNCHANGED <<files, changes, encoderVars, i, target, result, faults>>

\* Mutation: volumes that exist are not written again.
NextVolumesMissing(f) ==
  {v \in VolumeNames(count) : v[1] = f[1] + f[2] /\ par[v] = NoFile}

\* The volume after file f, if there is one.
NextVolumes(f) ==
  {v \in VolumeNames(count) : v[1] = f[1] + f[2]}

\* ... written, and followed by the next one.
FinishWrite ==
  /\ pc = "writing"
  /\ par' = [par EXCEPT ![target] = PacketsOf(target)]
  /\ \/ /\ NextVolumes(target) = {}
        /\ Return("created")
     \/ /\ target' \in NextVolumes(target)
        /\ pc' = "write"
        /\ UNCHANGED <<encoderVars, i, result>>
  /\ UNCHANGED <<files, changes, faults, since>>

-------------------------------------------------------------------------------
(* Faults, and other programs. *)

OpenFails ==
  /\ pc = "write"
  /\ faults < MaxFaults
  /\ faults' = faults + 1
  /\ Return("writeError")
  /\ UNCHANGED <<diskVars, since>>

\* A write that is cut short, by an error or by the end of the process.
WriteFails ==
  /\ pc = "writing"
  /\ faults < MaxFaults
  /\ faults' = faults + 1
  /\ \E packets \in TornWrites(PacketsOf(target)) : par' = [par EXCEPT ![target] = packets]
  /\ Return("writeError")
  /\ UNCHANGED <<files, changes, since>>

Crash ==
  /\ pc \in {"load", "write"}
  /\ faults < MaxFaults
  /\ faults' = faults + 1
  /\ Return("killed")
  /\ UNCHANGED <<diskVars, since>>

ChangeFile ==
  /\ changes < MaxChanges
  /\ \E p \in Paths, c \in Contents \cup {Missing} : files' = [files EXCEPT ![p] = c]
  /\ changes' = changes + 1
  /\ since' = [since EXCEPT !.changed = TRUE]
  /\ UNCHANGED <<par, encoderVars, pc, i, target, result, faults>>

Step == LoadFile \/ ComputeParityData \/ WriteRefused \/ OpenFile \/ FinishWrite
Next == Create \/ Step \/ OpenFails \/ WriteFails \/ Crash \/ ChangeFile

Fairness == WF_vars(Create) /\ WF_vars(Step)

Spec == Init /\ [][Next]_vars /\ Fairness
-------------------------------------------------------------------------------
(* What NewDecoder and LoadParityData make of the files. *)

\* NewDecoder returns no error.
DecoderOpens ==
  /\ par[Index] # NoFile
  /\ ReadOutcome(AnySet, par[Index]) = "ok"
  /\ HasMain(AnySet, par[Index])
  /\ OfType(AnySet, par[Index], "recovery") = {}
  /\ \A k \in DOMAIN MainOf(AnySet, par[Index]).recoverySet :
       MainOf(AnySet, par[Index]).recoverySet[k] \in
         IDsOf(AnySet, par[Index], "fileDesc") \cap IDsOf(AnySet, par[Index], "ifsc")

\* d.setID, d.recoverySet, and the contents that the hashes belong to.
SetID  == par[Index][1].set
SetIDs == MainOf(AnySet, par[Index]).recoverySet
Described(k) == DescriptionOf(AnySet, par[Index], SetIDs[k]).content

\* LoadParityData skips a volume without packets of the set, and fails on one
\* that cannot be read to its end or has no main packet.
Loadable(v) ==
  \/ par[v] = NoFile
  \/ ReadOutcome(SetID, par[v]) = "noPackets"
  \/ ReadOutcome(SetID, par[v]) = "ok" /\ HasMain(SetID, par[v])
ParityLoads == \A v \in Volumes : Loadable(v)

\* The volumes with shard e, the last of which in the order of names wins.
Holders(e) ==
  {v \in Volumes : par[v] # NoFile /\ e \in DOMAIN Recovery(SetID, par[v])}
Winner(e) ==
  CHOOSE v \in Holders(e) :
    \A w \in Holders(e) : w[1] < v[1] \/ (w[1] = v[1] /\ w[2] <= v[2])
Loaded(e) == Recovery(SetID, par[Winner(e)])[e]

\* What the decoder takes shard e for: the one of the files described.
Right(e, shard) == shard = [exponent |-> e, of |-> [k \in DOMAIN SetIDs |-> Described(k)]]

\* LoadFileData finds the shards of entry k: fileIDIndices keeps the last of the
\* entries with one ID, and those before it are never filled in.
Found(k) == \A m \in DOMAIN SetIDs : SetIDs[m] = SetIDs[k] => m <= k

GivenOnce(p) == \A m, n \in DOMAIN filePaths : filePaths[m] = p /\ filePaths[n] = p => m = n

\* The data files are those the index describes, the shards of each path that was
\* given once are found, and all parity that was asked for is there and right.
Protected ==
  /\ DecoderOpens
  /\ \A k \in DOMAIN SetIDs : GivenOnce(SetIDs[k][1]) => Found(k)
  /\ \A n \in DOMAIN filePaths :
       \E k \in DOMAIN SetIDs :
         LET c == files[filePaths[n]]
         IN  c # Missing /\ SetIDs[k] = FileID(filePaths[n], c) /\ Described(k) = c
  /\ ParityLoads
  /\ \A e \in 0 .. count - 1 : Holders(e) # {} /\ Right(e, Loaded(e))

-------------------------------------------------------------------------------
(* Properties. *)

\* The contents that the index and the volumes were made from.
Recorded ==
  LET packets(type) ==
        UNION {{par[f][k].body : k \in {n \in DOMAIN par[f] : par[f][n] # Broken /\ par[f][n].type = type}}
                 : f \in {g \in DOMAIN par : par[g] # NoFile}}
  IN  {b.content : b \in packets("fileDesc")}
        \cup UNION {{b.data.of[k] : k \in DOMAIN b.data.of} : b \in packets("recovery")}

\* Two of them have the same length and the same first 16k.
HeadsShared == \E c, d \in Recorded : c # d /\ Start[c] = Start[d]

\* A volume that the last call did not write, but the decoder does not skip.
Leftover ==
  \E v \in Volumes \ VolumeNames(count) :
    par[v] # NoFile /\ ReadOutcome(SetID, par[v]) # "noPackets"

Refusals == {"fileError", "panic", "tooManyShards", "emptyFile"}

\* When Create succeeds, the decoder finds the data files described as they
\* are and every parity shard that was asked for, right: unless a file changed
\* meanwhile, or a volume of another name is left that is damaged or of the
\* same set.
CreatedIsProtected ==
  result = "created" /\ ~since.changed /\ ~Leftover => Protected

\* The files of several calls of Create, complete or cut short, never mix: at
\* any time, when the decoder opens the index and loads the volumes, each shard
\* it gets belongs to the very contents that the index describes.  (The set ID
\* keeps them apart, as long as it tells the contents apart.)
MixIsSafe ==
  DecoderOpens =>
    \/ \A v \in Volumes : par[v] # NoFile =>
         \A e \in DOMAIN Recovery(SetID, par[v]) : Right(e, Recovery(SetID, par[v])[e])
    \/ HeadsShared

\* A call that cannot work with the data files leaves the old index and volumes
\* alone.
RefusalSpares == result \in Refusals => ~since.wrote

\* Whatever interrupted calls left, calling Create again ends in protected
\* files, unless the call is refused or volumes of another name are in the way.
RerunProtects ==
  <>[](pc = "idle" => Protected \/ result \in Refusals \/ (DecoderOpens /\ Leftover))
===============================================================================
