------------------------------ MODULE Par1Encoder ------------------------------
(***************************************************************************)
(* par1.Create and its Encoder (par1/create.go, par1/encoder.go): all data *)
(* files are read, the parity is computed, and the index volume and the    *)
(* parity volumes are written one by one, over what earlier calls left.    *)
(* Other programs change data files, writes fail and the process dies.     *)
(* What was written is looked at through NewDecoder and LoadParityData.    *)
(***************************************************************************)
EXTENDS Integers, Sequences, FiniteSets

CONSTANTS
  Paths,         \* paths of data files, all beside the index volume
  Arguments,     \* the lists filePaths that Create is called with
  Contents,      \* what a data file may hold
  Empty,         \* the content without a byte
  Missing,       \* the "content" of a file that cannot be read
  Counts,        \* the numbers of parity volumes that are asked for
  NoFile,        \* a volume that does not exist
  Broken,        \* a volume that is cut short: its control hash is wrong
  ShardLimit,    \* 256: bound on data and parity shards together
  VolumeLimit,   \* 99: bound on the volumes that the decoder looks for
  MaxChanges,    \* bound on the number of changes to data files
  MaxFaults      \* bound on the number of failed writes and crashes

ASSUME ArgumentAssumption ==
  Arguments \subseteq Seq(Paths) \ {<<>>} /\ Empty \in Contents /\ Missing \notin Contents
ASSUME BoundAssumption ==
  /\ Counts \subseteq Nat \ {0}
  /\ ShardLimit \in Nat /\ VolumeLimit \in Nat \ {0}
  /\ MaxChanges \in Nat /\ MaxFaults \in Nat

\* What a volume that can be read holds.
Volume ==
  [set     : Seq(Contents),
   entries : Seq([path : Paths, content : Contents]),
   parity  : Seq(Contents)]
ASSUME VolumeAssumption == NoFile \notin Volume /\ Broken \notin Volume

Index   == 0
Volumes == {v \in 1 .. ShardLimit : \E count \in Counts : v <= count}

VARIABLES
  files,       \* files[p]: the content of a data file
  par,         \* par[v]: the index volume or a parity volume
  pc,          \* the step of Create that is next, "idle" between calls
  filePaths,   \* e.filePaths
  count,       \* e.volumeCount
  fileData,    \* e.fileData, as far as it is read
  parityData,  \* e.parityData: the data it was computed from
  i,           \* the volume that Write is at
  result,      \* how the last call ended
  changes,     \* number of changes to data files
  faults,      \* number of failed writes and crashes
  since        \* history, since Create began: whether data files changed
               \* (.changed) and whether it opened a volume (.wrote)

diskVars    == <<files, par, changes>>
encoderVars == <<filePaths, count, fileData, parityData>>
vars == <<diskVars, encoderVars, pc, i, result, faults, since>>

-------------------------------------------------------------------------------
Init ==
  /\ files \in [Paths -> Contents]
  /\ par = [v \in {Index} \cup Volumes |-> NoFile]
  /\ pc = "idle"
  /\ filePaths \in Arguments
  /\ count \in Counts
  /\ fileData = <<>>
  /\ parityData = <<>>
  /\ i = Index
  /\ result = "none"
  /\ changes = 0
  /\ faults = 0
  /\ since = [changed |-> FALSE, wrote |-> FALSE]

\* Create is over, and its Encoder is gone.
Return(outcome) ==
  /\ pc' = "idle"
  /\ fileData' = <<>>
  /\ parityData' = <<>>
  /\ i' = Index
  /\ result' = outcome
  /\ UNCHANGED <<filePaths, count>>

\* newEncoder refuses two files of the same name.
Collision(paths) == \E m, n \in DOMAIN paths : m # n /\ paths[m] = paths[n]

Create ==
  /\ pc = "idle"
  /\ filePaths' \in Arguments
  /\ count' \in Counts
  /\ IF Collision(filePaths') THEN pc' = "idle" /\ result' = "collision"
                              ELSE pc' = "load" /\ result' = "pending"
  /\ since' = [changed |-> FALSE, wrote |-> FALSE]
  /\ UNCHANGED <<diskVars, fileData, parityData, i, faults>>

\* One round of the loop of LoadFileData.
LoadFile ==
  /\ pc = "load"
  /\ Len(fileData) < Len(filePaths)
  /\ LET c == files[filePaths[Len(fileData) + 1]] IN
       \/ /\ c = Missing
          /\ Return("fileError")
       \/ /\ c # Missing
          /\ fileData' = Append(fileData, c)
          /\ UNCHANGED <<filePaths, count, parityData, pc, i, result>>
  /\ UNCHANGED <<diskVars, faults, since>>

\* Too many shards for a byte, or shards without data.
CoderError ==
  \/ Len(fileData) + count > ShardLimit
  \/ \A n \in DOMAIN fileData : fileData[n] = Empty

ComputeParityData ==
  /\ pc = "load"
  /\ Len(fileData) = Len(filePaths)
  /\ \/ /\ CoderError
        /\ Return("coderError")
     \/ /\ ~CoderError
        /\ parityData' = fileData
        /\ pc' = "write"
        /\ UNCHANGED <<filePaths, count, fileData, i, result>>
  /\ UNCHANGED <<diskVars, faults, since>>

-------------------------------------------------------------------------------
(* Write *)

\* Mutation: the set is told by the names of its files.
SetHashOfNames == filePaths

\* The hash of the hashes of all files, in the order of the arguments.
SetHash == fileData

\* Volume v: the index volume has a comment where the others have parity.
VolumeOf(v) ==
  [set     |-> SetHash,
   entries |-> [n \in DOMAIN filePaths |-> [path |-> filePaths[n], content |-> fileData[n]]],
   parity  |-> IF v = Index THEN <<>> ELSE parityData]

\* Mutation: a volume is opened before its contents are known.
OpenVolumeEarly ==
  /\ pc \in {"load", "write"}
  /\ par' = [par EXCEPT ![i] = Broken]
  /\ pc' = IF pc = "load" THEN "load" ELSE "writing"
  /\ since' = [since EXCEPT !.wrote = TRUE]
  /\ UNCHANGED <<files, changes, encoderVars, i, result, faults>>

\* A volume is truncated, ...
OpenVolume ==
  /\ pc = "write"
  /\ par' = [par EXCEPT ![i] = Broken]
  /\ pc' = "writing"
  /\ since' = [since EXCEPT !.wrote = TRUE]
  /\ UNCHANGED <<files, changes, encoderVars, i, result, faults>>

\* Mutation: the last volume is left out.
LastEarly == i + 1 >= count

\* Mutation: nothing more is written once the other volumes exist.
LastMissing == \A v \in i + 1 .. count : par[v] # NoFile

\* The loop over e.parityData ends.
Last == i = count

\* ... written, and followed by the next one.
FinishWrite ==
  /\ pc = "writing"
  /\ par' = [par EXCEPT ![i] = VolumeOf(i)]
  /\ IF Last
     THEN Return("created")
     ELSE /\ i' = i + 1
          /\ pc' = "write"
          /\ UNCHANGED <<encoderVars, result>>
  /\ UNCHANGED <<files, changes, faults, since>>

-------------------------------------------------------------------------------
(* Faults, and other programs. *)

OpenFails ==
  /\ pc = "write"
  /\ faults < MaxFaults
  /\ faults' = faults + 1
  /\ Return("writeError")
  /\ UNCHANGED <<diskVars, since>>

\* A write that is cut short leaves the volume broken; all is written when it is
\* Close that fails.
WriteFails ==
  /\ pc = "writing"
  /\ faults < MaxFaults
  /\ faults' = faults + 1
  /\ par' \in {par, [par EXCEPT ![i] = VolumeOf(i)]}
  /\ Return("writeError")
  /\ UNCHANGED <<files, changes, since>>

Crash ==
  /\ pc # "idle"
  /\ faults < MaxFaults
  /\ faults' = faults + 1
  /\ Return("killed")
  /\ UNCHANGED <<diskVars, since>>

ChangeFile ==
  /\ changes < MaxChanges
  /\ \E p \in Paths, c \in Contents \cup {Missing} : files' = [files EXCEPT ![p] = c]
  /\ changes' = changes + 1
  /\ since' = [since EXCEPT !.changed = TRUE]
  /\ UNCHANGED <<par, encoderVars, pc, i, result, faults>>

Step == LoadFile \/ ComputeParityData \/ OpenVolume \/ FinishWrite
Next == Create \/ Step \/ OpenFails \/ WriteFails \/ Crash \/ ChangeFile

\* A process that is not killed goes on, and the user calls Create again.
Fairness == WF_vars(Create) /\ WF_vars(Step)

Spec == Init /\ [][Next]_vars /\ Fairness
-------------------------------------------------------------------------------
(* What NewDecoder and LoadParityData make of the volumes. *)

IsVolume(v)  == par[v] \notin {NoFile, Broken}
DecoderOpens == IsVolume(Index)
Entries      == par[Index].entries

\* The volumes that LoadParityData looks for.
Looked ==
  {v \in Volumes : v <= VolumeLimit /\ v <= ShardLimit - Len(Entries)}

\* It skips those that do not exist, and fails on one that cannot be read or
\* is of another set.
Loadable(v)  == par[v] = NoFile \/ (IsVolume(v) /\ par[v].set = par[Index].set)
ParityLoads  == \A v \in Looked : Loadable(v)

\* The parity in volume v is that of the files that the index describes.
Right(v) == par[v].parity = [n \in DOMAIN Entries |-> Entries[n].content]

\* The data files are those that the index describes, and the volumes that were
\* asked for are there and right, as far as the decoder looks for them.
Protected ==
  /\ DecoderOpens
  /\ Entries = [n \in DOMAIN filePaths |->
                  [path |-> filePaths[n], content |-> files[filePaths[n]]]]
  /\ ParityLoads
  /\ \A v \in 1 .. count : v <= VolumeLimit => IsVolume(v) /\ Right(v)

\* A volume that the last call did not write, but the decoder looks for.
Leftover == \E v \in Looked : v > count /\ ~Loadable(v)

-------------------------------------------------------------------------------
(* Properties. *)

\* When Create succeeds, the decoder finds the files described as they are and
\* can use the volumes: unless a file changed meanwhile, or an earlier call with
\* more volumes left one that is broken or of another set.
CreatedIsProtected ==
  result = "created" /\ ~since.changed /\ ~Leftover => Protected

\* The volumes of several calls, complete or cut short, never mix: at any time,
\* when the decoder opens the index and loads the volumes, the parity in each is
\* that of the very contents that the index describes.
MixIsSafe ==
  DecoderOpens /\ ParityLoads => \A v \in Looked : par[v] # NoFile => Right(v)

\* A call that cannot work with its arguments leaves the old volumes alone.
RefusalSpares ==
  result \in {"collision", "fileError", "coderError"} => ~since.wrote

\* Whatever interrupted calls left, calling Create again ends in protected
\* files, unless the call is refused or leftovers are in the way for good.
RerunProtects ==
  <>[](pc = "idle" =>
         \/ Protected
         \/ result \in {"collision", "fileError", "coderError"}
         \/ DecoderOpens /\ Leftover)
===============================================================================
