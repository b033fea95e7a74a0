--------------------------- MODULE Par1EncoderProofs ---------------------------
(***************************************************************************)
(* Proofs about Par1Encoder, for any files, arguments, limits and numbers  *)
(* of calls, faults and changes: volumes of different calls never mix, and *)
(* a call that succeeds leaves the files protected.                        *)
(***************************************************************************)
EXTENDS Par1Encoder, TLAPS

Data == Contents \cup {Missing}

\* What Create has read, and what it computed parity from.
Reading ==
  /\ files \in [Paths -> Data]
  /\ filePaths \in Seq(Paths)
  /\ fileData \in Seq(Contents)
  /\ pc \in {"idle", "load", "write", "writing"}
  /\ pc = "load" => Len(fileData) <= Len(filePaths)
  /\ pc \in {"write", "writing"} => parityData = fileData /\ Len(fileData) = Len(filePaths)

\* A volume is as it was written: the set hash, the parity and the entries are of
\* the same contents.
WrittenVolume(v) ==
  /\ v # Index => par[v].parity = par[v].set
  /\ v = Index => [n \in DOMAIN par[v].entries |-> par[v].entries[n].content] = par[v].set

VolumesAgree ==
  /\ DOMAIN par = {Index} \cup Volumes
  /\ \A v \in DOMAIN par : IsVolume(v) => WrittenVolume(v)

\* A call that has not opened a volume has not written.
Sparing ==
  /\ pc # "idle" => result = "pending"
  /\ pc = "load" => ~since.wrote
  /\ result \in {"collision", "fileError", "coderError"} => ~since.wrote

\* Between calls there is no Encoder.
Idle == pc = "idle" => fileData = <<>>

Inv == Reading /\ VolumesAgree /\ Sparing /\ Idle

LEMMA AppendData ==
  ASSUME NEW S, NEW s \in Seq(S), NEW x \in S
  PROVE  Append(s, x) \in Seq(S) /\ Len(Append(s, x)) = Len(s) + 1
OBVIOUS

LEMMA SequenceFacts ==
  ASSUME NEW S, NEW s \in Seq(S)
  PROVE  /\ Len(s) \in Nat /\ DOMAIN s = 1 .. Len(s) /\ \A n \in DOMAIN s : s[n] \in S
         /\ s = [n \in 1 .. Len(s) |-> s[n]]
OBVIOUS

\* The contents in the entries of a volume that is written are those its parity and its
\* set hash are of.
LEMMA VolumeWritten ==
  ASSUME Reading, pc = "writing", NEW v
  PROVE  LET f == VolumeOf(v)
         IN  /\ f.set = fileData
             /\ v # Index => f.parity = fileData
             /\ [n \in DOMAIN f.entries |-> f.entries[n].content] = fileData
<1>1. /\ DOMAIN filePaths = 1 .. Len(fileData)
      /\ fileData = [n \in 1 .. Len(fileData) |-> fileData[n]]
      /\ parityData = fileData
  BY SequenceFacts DEF Reading
<1>2. VolumeOf(v).entries =
        [n \in 1 .. Len(fileData) |-> [path |-> filePaths[n], content |-> fileData[n]]]
  BY <1>1 DEF VolumeOf
<1>3. \A n \in 1 .. Len(fileData) : VolumeOf(v).entries[n].content = fileData[n]
  BY <1>2
<1>4. DOMAIN VolumeOf(v).entries = 1 .. Len(fileData)
  BY <1>2
<1>5. [n \in DOMAIN VolumeOf(v).entries |-> VolumeOf(v).entries[n].content] = fileData
  BY <1>1, <1>3, <1>4
<1>6. VolumeOf(v).set = fileData /\ (v # Index => VolumeOf(v).parity = fileData)
  BY <1>1 DEF VolumeOf, SetHash
<1>7. QED BY <1>5, <1>6

LEMMA InitInv == Init => Inv
<1> SUFFICES ASSUME Init PROVE Inv
  OBVIOUS
<1>1. Reading
  BY ArgumentAssumption DEF Init, Reading, Data
<1>2. VolumesAgree
  BY DEF Init, VolumesAgree, IsVolume
<1>3. Sparing
  BY DEF Init, Sparing
<1>4. QED BY <1>1, <1>2, <1>3 DEF Init, Inv, Idle

LEMMA ReturnInv ==
  ASSUME Inv, NEW outcome, Return(outcome), UNCHANGED <<files, since>>, VolumesAgree',
         outcome \in {"collision", "fileError", "coderError"} => ~since.wrote
  PROVE  Inv'
<1>1. Reading'
  BY DEF Inv, Reading, Return
<1>2. Sparing'
  BY DEF Return, Sparing
<1>3. QED BY <1>1, <1>2 DEF Inv, Idle, Return

LEMMA SameVolumes ==
  ASSUME Inv, UNCHANGED par
  PROVE  VolumesAgree'
BY DEF Inv, VolumesAgree, IsVolume, WrittenVolume

\* What Write leaves agrees with the set hash that it carries.
LEMMA WrittenAgrees ==
  ASSUME Inv, pc = "writing", par' = [par EXCEPT ![i] = VolumeOf(i)]
  PROVE  VolumesAgree'
<1>0. Reading /\ VolumesAgree
  BY DEF Inv
<1>1. ASSUME NEW v \in DOMAIN par, IsVolume(v)' PROVE WrittenVolume(v)'
  <2>1. CASE v = i
    <3>1. par'[v] = VolumeOf(v)
      BY <2>1
    <3>2. QED BY <1>0, <3>1, VolumeWritten DEF WrittenVolume
  <2>2. CASE v # i
    <3>1. par'[v] = par[v]
      BY <2>2
    <3>2. QED BY <1>0, <1>1, <3>1 DEF VolumesAgree, IsVolume, WrittenVolume
  <2>3. QED BY <2>1, <2>2
<1>2. QED BY <1>0, <1>1 DEF VolumesAgree

LEMMA StepInv == Inv /\ [Next]_vars => Inv'
<1> SUFFICES ASSUME Inv, [Next]_vars PROVE Inv'
  OBVIOUS
<1>0. Reading /\ VolumesAgree /\ Sparing /\ Idle
  BY DEF Inv
<1>1. CASE Create
  <2>1. /\ filePaths' \in Seq(Paths) /\ UNCHANGED <<files, fileData, par>>
        /\ since'.wrote = FALSE /\ pc = "idle"
        /\ (pc' = "idle" /\ result' = "collision") \/ (pc' = "load" /\ result' = "pending")
    BY <1>1, ArgumentAssumption DEF Create, diskVars
  <2>2. Len(fileData) <= Len(filePaths')
    BY <1>0, <2>1, SequenceFacts DEF Reading, Idle
  <2>3. Reading'
    BY <1>0, <2>1, <2>2 DEF Reading
  <2>4. QED BY <1>0, <2>1, <2>3, SameVolumes DEF Inv, Sparing, Idle
<1>2. CASE LoadFile
  <2> DEFINE c == files[filePaths[Len(fileData) + 1]]
  <2>1. UNCHANGED <<files, par, since>> /\ pc = "load" /\ Len(fileData) < Len(filePaths)
    BY <1>2 DEF LoadFile, diskVars
  <2>2. CASE Return("fileError")
    BY <1>0, <2>1, <2>2, ReturnInv, SameVolumes DEF Sparing
  <2>3. CASE /\ c # Missing
             /\ fileData' = Append(fileData, c)
             /\ UNCHANGED <<filePaths, pc, result>>
    <3>1. filePaths[Len(fileData) + 1] \in Paths
      BY <1>0, <2>1, SequenceFacts DEF Reading
    <3>2. c \in Contents
      BY <1>0, <2>3, <3>1 DEF Reading, Data
    <3> HIDE DEF c
    <3>3. fileData' \in Seq(Contents) /\ Len(fileData') <= Len(filePaths)
      BY <1>0, <2>1, <2>3, <3>2, AppendData, SequenceFacts DEF Reading
    <3>4. Reading'
      BY <1>0, <2>1, <2>3, <3>3 DEF Reading
    <3>5. QED BY <1>0, <2>1, <2>3, <3>4, SameVolumes DEF Inv, Sparing, Idle
  <2>4. QED BY <1>2, <2>2, <2>3 DEF LoadFile
<1>3. CASE ComputeParityData
  <2>1. UNCHANGED <<files, par, since>> /\ pc = "load" /\ Len(fileData) = Len(filePaths)
    BY <1>3 DEF ComputeParityData, diskVars
  <2>2. CASE Return("coderError")
    BY <1>0, <2>1, <2>2, ReturnInv, SameVolumes DEF Sparing
  <2>3. CASE /\ parityData' = fileData /\ pc' = "write"
             /\ UNCHANGED <<filePaths, fileData, result>>
    <3>1. Reading'
      BY <1>0, <2>1, <2>3 DEF Reading
    <3>2. QED BY <1>0, <2>1, <2>3, <3>1, SameVolumes DEF Inv, Sparing, Idle
  <2>4. QED BY <1>3, <2>2, <2>3 DEF ComputeParityData
<1>4. CASE OpenVolume
  <2>1. /\ UNCHANGED <<files, filePaths, fileData, parityData, result>>
        /\ pc = "write" /\ pc' = "writing" /\ par' = [par EXCEPT ![i] = Broken]
    BY <1>4 DEF OpenVolume, encoderVars
  <2>2. Reading'
    BY <1>0, <2>1 DEF Reading
  <2>3. VolumesAgree'
    BY <1>0, <2>1 DEF VolumesAgree, IsVolume, WrittenVolume
  <2>4. Sparing'
    BY <1>0, <2>1 DEF Sparing
  <2>5. QED BY <1>0, <2>1, <2>2, <2>3, <2>4 DEF Inv, Idle
<1>5. CASE FinishWrite
  <2>1. UNCHANGED <<files, since>> /\ pc = "writing" /\ par' = [par EXCEPT ![i] = VolumeOf(i)]
    BY <1>5 DEF FinishWrite
  <2>2. VolumesAgree'
    BY <2>1, WrittenAgrees
  <2>3. CASE Return("created")
    BY <1>0, <2>1, <2>2, <2>3 DEF Return, Inv, Idle, Reading, Sparing
  <2>4. CASE pc' = "write" /\ UNCHANGED <<encoderVars, result>>
    BY <1>0, <2>1, <2>2, <2>4 DEF encoderVars, Inv, Idle, Reading, Sparing
  <2>5. QED BY <1>5, <2>3, <2>4 DEF FinishWrite
<1>6. CASE OpenFails \/ WriteFails \/ Crash
  <2>1. PICK outcome \in {"writeError", "killed"} : Return(outcome)
    BY <1>6 DEF OpenFails, WriteFails, Crash
  <2>2. UNCHANGED <<files, since>> /\ VolumesAgree'
    BY <1>0, <1>6, WrittenAgrees, SameVolumes DEF OpenFails, WriteFails, Crash, diskVars
  <2>3. QED BY <2>1, <2>2, ReturnInv
<1>7. CASE ChangeFile
  <2>1. PICK p \in Paths, c \in Contents \cup {Missing} : files' = [files EXCEPT ![p] = c]
    BY <1>7 DEF ChangeFile
  <2>2. UNCHANGED <<par, filePaths, fileData, parityData, pc, result>>
    BY <1>7 DEF ChangeFile, encoderVars
  <2>3. files' \in [Paths -> Data]
    BY <1>0, <2>1 DEF Reading, Data
  <2>4. Reading'
    BY <1>0, <2>2, <2>3 DEF Reading
  <2>5. Sparing'
    BY <1>0, <1>7 DEF ChangeFile, Sparing
  <2>6. QED BY <1>0, <2>2, <2>4, <2>5, SameVolumes DEF Inv, Idle
<1>8. CASE UNCHANGED vars
  BY <1>0, <1>8, SameVolumes DEF vars, diskVars, encoderVars, Inv, Reading, Sparing, Idle
<1>9. QED
  BY <1>1, <1>2, <1>3, <1>4, <1>5, <1>6, <1>7, <1>8 DEF Next, Step

LEMMA Invariance == Spec => []Inv
BY InitInv, StepInv, PTL DEF Spec

\* Whatever calls of Create were made, cut short or killed, and however files changed:
\* the volumes that the decoder loads hold parity of the contents in the index it opened.
THEOREM VolumesNeverMix == Spec => []MixIsSafe
<1>1. ASSUME Inv, DecoderOpens, ParityLoads, NEW v \in Looked, par[v] # NoFile
      PROVE  Right(v)
  <2>1. v \in DOMAIN par /\ Index \in DOMAIN par /\ v # Index
    BY <1>1, BoundAssumption DEF Inv, VolumesAgree, Looked, Volumes, Index
  <2>2. IsVolume(v) /\ par[v].set = par[Index].set
    BY <1>1 DEF ParityLoads, Loadable
  <2>3. par[v].parity = par[v].set
    BY <1>1, <2>1, <2>2 DEF Inv, VolumesAgree, WrittenVolume
  <2>4. [n \in DOMAIN Entries |-> Entries[n].content] = par[Index].set
    BY <1>1, <2>1 DEF Inv, VolumesAgree, WrittenVolume, DecoderOpens, Entries
  <2>5. QED BY <2>2, <2>3, <2>4 DEF Right
<1>2. Inv => MixIsSafe
  BY <1>1 DEF MixIsSafe
<1>3. QED BY <1>2, Invariance, PTL

\* A call that is refused, at whichever point, has opened no volume.
THEOREM RefusedCallsSpare == Spec => []RefusalSpares
<1>1. Inv => RefusalSpares
  BY DEF Inv, Sparing, RefusalSpares
<1>2. QED BY <1>1, Invariance, PTL
-------------------------------------------------------------------------------
(* What a call writes is what the files hold, unless one changed meanwhile.    *)

\* The volumes that are to be written for the files as they are.
Snapshot == [n \in DOMAIN filePaths |-> files[filePaths[n]]]
Made(v) ==
  [set     |-> Snapshot,
   entries |-> [n \in DOMAIN filePaths |-> [path |-> filePaths[n], content |-> files[filePaths[n]]]],
   parity  |-> IF v = Index THEN <<>> ELSE Snapshot]

\* The volumes up to v are written, of as many as there may be.
MadeTo(v) ==
  /\ Snapshot \in Seq(Contents)
  /\ Len(filePaths) + count <= ShardLimit
  /\ \A w \in 0 .. v : par[w] = Made(w)

UpToDate ==
  /\ count \in Counts
  /\ since \in [changed : BOOLEAN, wrote : BOOLEAN]
  /\ ~since.changed =>
       /\ pc = "load" => \A n \in DOMAIN fileData : fileData[n] = files[filePaths[n]]
       /\ pc \in {"write", "writing"} => fileData = Snapshot /\ i \in 0 .. count /\ MadeTo(i - 1)
       /\ result = "created" => MadeTo(count)
  /\ pc = "idle" \/ pc = "load" => i = Index

\* Nothing that was made, or is needed to make more, changes.
LEMMA SteadyMade ==
  ASSUME UNCHANGED <<files, filePaths, count, par>>
  PROVE  Snapshot' = Snapshot /\ \A v : MadeTo(v)' <=> MadeTo(v)
BY DEF MadeTo, Made, Snapshot

LEMMA ReturnUpToDate ==
  ASSUME UpToDate, NEW outcome, Return(outcome), outcome # "created", UNCHANGED since
  PROVE  UpToDate'
BY DEF Return, UpToDate

LEMMA StepUpToDate == Inv /\ UpToDate /\ [Next]_vars => UpToDate'
<1> SUFFICES ASSUME Inv, UpToDate, [Next]_vars PROVE UpToDate'
  OBVIOUS
<1>0. Reading /\ VolumesAgree /\ Sparing /\ Idle
  BY DEF Inv
<1>1. CASE Create
  <2>1. /\ count' \in Counts /\ fileData' = <<>> /\ pc' \in {"idle", "load"} /\ i' = i
        /\ result' \in {"collision", "pending"} /\ pc = "idle"
        /\ since' = [changed |-> FALSE, wrote |-> FALSE]
    BY <1>0, <1>1 DEF Create, Idle
  <2>2. QED BY <2>1 DEF UpToDate
<1>2. CASE LoadFile
  <2> DEFINE c == files[filePaths[Len(fileData) + 1]]
  <2>1. UNCHANGED <<files, since>> /\ pc = "load"
    BY <1>2 DEF LoadFile, diskVars
  <2>2. CASE Return("fileError")
    BY <2>1, <2>2, ReturnUpToDate
  <2>3. CASE fileData' = Append(fileData, c) /\ UNCHANGED <<filePaths, count, pc, i, result>>
    <3>1. Len(fileData) \in Nat /\ DOMAIN fileData = 1 .. Len(fileData)
      BY <1>0, SequenceFacts DEF Reading
    <3>2. \A n \in DOMAIN fileData' :
            fileData'[n] = IF n = Len(fileData) + 1 THEN c ELSE fileData[n]
      BY <1>0, <2>3 DEF Reading
    <3>3. DOMAIN fileData' = 1 .. Len(fileData) + 1
      BY <1>0, <2>3 DEF Reading
    <3>4. ~since.changed => \A n \in DOMAIN fileData' : fileData'[n] = files[filePaths[n]]
      <4>1. \A n \in DOMAIN fileData' : n = Len(fileData) + 1 \/ n \in DOMAIN fileData
        BY <3>1, <3>3
      <4>2. QED BY <2>1, <3>2, <4>1 DEF UpToDate
    <3>5. result # "created"
      BY <1>0, <2>1 DEF Sparing
    <3>6. QED BY <2>1, <2>3, <3>4, <3>5 DEF UpToDate
  <2>4. QED BY <1>2, <2>2, <2>3 DEF LoadFile
<1>3. CASE ComputeParityData
  <2>1. UNCHANGED <<files, par, since>> /\ pc = "load" /\ Len(fileData) = Len(filePaths)
    BY <1>3 DEF ComputeParityData, diskVars
  <2>2. CASE Return("coderError")
    BY <2>1, <2>2, ReturnUpToDate
  <2>3. CASE ~CoderError /\ pc' = "write" /\ UNCHANGED <<filePaths, count, fileData, i, result>>
    <3>1. DOMAIN filePaths = DOMAIN fileData /\ fileData = [n \in DOMAIN fileData |-> fileData[n]]
      BY <1>0, <2>1, SequenceFacts DEF Reading
    <3>2. ~since.changed => fileData = Snapshot
      BY <2>1, <3>1 DEF UpToDate, Snapshot
    <3>3. Len(fileData) + count <= ShardLimit
      <4>1. Len(fileData) \in Nat /\ count \in Nat /\ ShardLimit \in Nat
        BY <1>0, SequenceFacts, BoundAssumption DEF Reading, UpToDate
      <4>2. QED BY <2>3, <4>1 DEF CoderError
    <3>4. i' = 0 /\ i' \in 0 .. count
      BY <2>1, <2>3, BoundAssumption DEF UpToDate, Index
    <3>5. ~since.changed => MadeTo(i - 1)'
      <4>1. 0 .. i' - 1 = {}
        BY <3>4
      <4>2. Snapshot' = Snapshot
        BY <2>1, <2>3 DEF Snapshot
      <4>3. QED BY <1>0, <2>1, <2>3, <3>2, <3>3, <4>1, <4>2 DEF MadeTo, Reading
    <3>6. result' # "created" /\ Snapshot' = Snapshot
      BY <1>0, <2>1, <2>3 DEF Sparing, Snapshot
    <3>7. QED BY <2>1, <2>3, <3>2, <3>4, <3>5, <3>6 DEF UpToDate
  <2>4. QED BY <1>3, <2>2, <2>3 DEF ComputeParityData
<1>4. CASE OpenVolume
  <2>1. /\ UNCHANGED <<files, filePaths, count, fileData, i, result>> /\ since' = [since EXCEPT !.wrote = TRUE]
        /\ pc = "write" /\ pc' = "writing" /\ par' = [par EXCEPT ![i] = Broken]
    BY <1>4 DEF OpenVolume, encoderVars
  <2>2. ASSUME ~since.changed
        PROVE  fileData' = Snapshot' /\ i' \in 0 .. count' /\ MadeTo(i - 1)'
    <3>1. /\ fileData = Snapshot /\ i \in 0 .. count /\ count \in Nat
          /\ Snapshot \in Seq(Contents) /\ Len(filePaths) + count <= ShardLimit
          /\ \A w \in 0 .. i - 1 : par[w] = Made(w)
      BY <2>1, <2>2, BoundAssumption DEF UpToDate, MadeTo
    <3>2. \A w \in 0 .. i - 1 : par'[w] = par[w]
      BY <2>1, <3>1
    <3>3. Snapshot' = Snapshot /\ \A w : Made(w)' = Made(w)
      BY <2>1 DEF Snapshot, Made
    <3>4. \A w \in 0 .. i - 1 : par'[w] = Made(w)
      BY <3>1, <3>2
    <3>5. MadeTo(i - 1)'
      BY <2>1, <3>1, <3>3, <3>4 DEF MadeTo, Made
    <3>6. QED BY <2>1, <3>1, <3>3, <3>5
  <2>3. result # "created"
    BY <1>0, <2>1 DEF Sparing
  <2>4. since' \in [changed : BOOLEAN, wrote : BOOLEAN] /\ since'.changed = since.changed
    BY <2>1 DEF UpToDate
  <2>5. QED BY <2>1, <2>2, <2>3, <2>4 DEF UpToDate
<1>5. CASE FinishWrite
  <2>1. /\ UNCHANGED <<files, filePaths, count, since>> /\ pc = "writing"
        /\ par' = [par EXCEPT ![i] = VolumeOf(i)]
    BY <1>5 DEF FinishWrite, encoderVars, Return
  <2>2. ASSUME ~since.changed
        PROVE  /\ i \in 0 .. count /\ count \in Nat
               /\ Snapshot' = Snapshot /\ fileData = Snapshot
               /\ Snapshot' \in Seq(Contents) /\ Len(filePaths') + count' <= ShardLimit
               /\ \A w \in 0 .. i : par'[w] = Made(w)'
    <3>1. /\ fileData = Snapshot /\ i \in 0 .. count /\ count \in Nat
          /\ Snapshot \in Seq(Contents) /\ Len(filePaths) + count <= ShardLimit
          /\ \A w \in 0 .. i - 1 : par[w] = Made(w)
      BY <2>1, <2>2, BoundAssumption DEF UpToDate, MadeTo
    <3>2. i \in DOMAIN par
      <4>1. ShardLimit \in Nat /\ Len(filePaths) \in Nat /\ count \in Counts
        BY <1>0, BoundAssumption, SequenceFacts DEF Reading, UpToDate
      <4>2. i = 0 \/ i \in 1 .. ShardLimit
        BY <3>1, <4>1
      <4>3. i = 0 \/ i \in Volumes
        BY <3>1, <4>1, <4>2 DEF Volumes
      <4>4. QED BY <1>0, <4>3 DEF VolumesAgree, Index
    <3>3. Snapshot' = Snapshot /\ \A w : Made(w)' = Made(w)
      BY <2>1 DEF Snapshot, Made
    <3>4. VolumeOf(i) = Made(i)
      <4>1. parityData = Snapshot /\ fileData = Snapshot
        BY <1>0, <2>1, <3>1 DEF Reading
      <4>2. \A n \in DOMAIN filePaths : Snapshot[n] = files[filePaths[n]]
        BY DEF Snapshot
      <4>3. QED BY <4>1, <4>2 DEF VolumeOf, Made, SetHash
    <3>5. ASSUME NEW w \in 0 .. i PROVE par'[w] = Made(w)
      <4>1. CASE w = i
        BY <2>1, <3>2, <3>4, <4>1
      <4>2. CASE w # i
        <5>1. w \in 0 .. i - 1
          BY <3>1, <4>2
        <5>2. QED BY <2>1, <3>1, <4>2, <5>1
      <4>3. QED BY <4>1, <4>2
    <3>6. \A w \in 0 .. i : par'[w] = Made(w)'
      BY <3>3, <3>5
    <3>7. Snapshot' \in Seq(Contents) /\ Len(filePaths') + count' <= ShardLimit
      BY <2>1, <3>1, <3>3
    <3>8. QED BY <3>1, <3>3, <3>6, <3>7
  <2>3. CASE Last /\ Return("created")
    <3>1. i = count /\ pc' = "idle" /\ i' = Index /\ count' = count /\ since' = since
      BY <2>1, <2>3 DEF Last, Return
    <3>2. ~since.changed => MadeTo(count)'
      <4> SUFFICES ASSUME ~since.changed PROVE MadeTo(count)'
        OBVIOUS
      <4>1. \A w \in 0 .. count' : par'[w] = Made(w)'
        BY <2>2, <3>1
      <4>2. QED BY <2>2, <4>1 DEF MadeTo
    <3>3. QED BY <3>1, <3>2 DEF UpToDate
  <2>4. CASE ~Last /\ i' = i + 1 /\ pc' = "write" /\ UNCHANGED <<encoderVars, result>>
    <3>1. i # count /\ fileData' = fileData /\ count' = count /\ since' = since
          /\ result' # "created"
      BY <1>0, <2>1, <2>4 DEF Last, Sparing, encoderVars
    <3>2. ~since.changed => fileData' = Snapshot' /\ i' \in 0 .. count' /\ MadeTo(i - 1)'
      <4> SUFFICES ASSUME ~since.changed
                   PROVE  fileData' = Snapshot' /\ i' \in 0 .. count' /\ MadeTo(i - 1)'
        OBVIOUS
      <4>1. i \in 0 .. count /\ count \in Nat
        BY <2>2
      <4>2. i' \in 0 .. count' /\ i' - 1 = i
        BY <2>4, <3>1, <4>1
      <4>3. \A w \in 0 .. i' - 1 : par'[w] = Made(w)'
        BY <2>2, <4>2
      <4>4. fileData' = Snapshot'
        BY <2>2, <3>1
      <4>5. MadeTo(i - 1)'
        BY <2>2, <4>3 DEF MadeTo
      <4>6. QED BY <4>2, <4>4, <4>5
    <3>3. QED BY <2>4, <3>1, <3>2 DEF UpToDate
  <2>5. QED BY <1>5, <2>3, <2>4 DEF FinishWrite
<1>6. CASE OpenFails \/ WriteFails \/ Crash
  <2>1. PICK outcome \in {"writeError", "killed"} : Return(outcome)
    BY <1>6 DEF OpenFails, WriteFails, Crash
  <2>2. UNCHANGED since
    BY <1>6 DEF OpenFails, WriteFails, Crash
  <2>3. QED BY <2>1, <2>2, ReturnUpToDate
<1>7. CASE ChangeFile
  <2>1. UNCHANGED <<count, pc, i>> /\ since' = [since EXCEPT !.changed = TRUE]
    BY <1>7 DEF ChangeFile, encoderVars
  <2>2. since' \in [changed : BOOLEAN, wrote : BOOLEAN] /\ since'.changed
    BY <2>1 DEF UpToDate
  <2>3. QED BY <2>1, <2>2 DEF UpToDate
<1>8. CASE UNCHANGED vars
  <2>1. UNCHANGED <<files, filePaths, count, par, since, pc, result, fileData, i>>
    BY <1>8 DEF vars, diskVars, encoderVars
  <2>2. QED BY <2>1, SteadyMade DEF UpToDate
<1>9. QED
  BY <1>1, <1>2, <1>3, <1>4, <1>5, <1>6, <1>7, <1>8 DEF Next, Step

LEMMA AlwaysUpToDate == Spec => []UpToDate
<1>1. Init => UpToDate
  BY DEF Init, UpToDate
<1>2. QED BY <1>1, StepUpToDate, Invariance, PTL DEF Spec

\* A volume that was made can be read, and its parity is that of its entries.
LEMMA MadeIsRight ==
  ASSUME NEW v, Snapshot \in Seq(Contents), filePaths \in Seq(Paths), par[v] = Made(v)
  PROVE  /\ IsVolume(v)
         /\ v # Index => par[v].parity = Snapshot
         /\ par[v].set = Snapshot
<1> DEFINE entry(n) == [path |-> filePaths[n], content |-> files[filePaths[n]]]
<1>1. DOMAIN filePaths = 1 .. Len(filePaths) /\ Len(filePaths) \in Nat
  BY SequenceFacts
<1>2. ASSUME NEW n \in DOMAIN filePaths
      PROVE  entry(n) \in [path : Paths, content : Contents]
  <2>1. filePaths[n] \in Paths
    BY <1>2, SequenceFacts
  <2>2. Snapshot[n] \in Contents /\ Snapshot[n] = files[filePaths[n]]
    BY <1>2, SequenceFacts DEF Snapshot
  <2>3. QED BY <2>1, <2>2
<1>3. [n \in DOMAIN filePaths |-> entry(n)] \in Seq([path : Paths, content : Contents])
  BY <1>1, <1>2
<1>4. (IF v = Index THEN <<>> ELSE Snapshot) \in Seq(Contents)
  OBVIOUS
<1>5. Made(v) \in Volume
  BY <1>3, <1>4 DEF Made, Volume
<1>6. IsVolume(v)
  BY <1>5, VolumeAssumption DEF IsVolume
<1>7. (v # Index => Made(v).parity = Snapshot) /\ Made(v).set = Snapshot
  BY DEF Made
<1>8. QED BY <1>6, <1>7

\* When PAR1's Create succeeds, all files were read as they are and every volume was
\* written of them; what the decoder opens describes the files, and nothing but a
\* leftover of an earlier call can keep it from the volumes.
THEOREM CreateProtects == Spec => []CreatedIsProtected
<1>1. ASSUME Inv, UpToDate, result = "created", ~since.changed, ~Leftover
      PROVE  Protected
  <2>1. /\ Snapshot \in Seq(Contents) /\ filePaths \in Seq(Paths) /\ count \in Nat
        /\ \A v \in 0 .. count : par[v] = Made(v)
    BY <1>1, BoundAssumption DEF Inv, Reading, UpToDate, MadeTo
  <2>2. \A v \in 0 .. count : /\ IsVolume(v) /\ par[v].set = Snapshot
                              /\ v # Index => par[v].parity = Snapshot
    BY <2>1, MadeIsRight
  <2>3. Index \in 0 .. count
    BY <2>1 DEF Index
  <2>4. DecoderOpens
    BY <2>2, <2>3 DEF DecoderOpens
  <2>5. Entries = [n \in DOMAIN filePaths |->
                     [path |-> filePaths[n], content |-> files[filePaths[n]]]]
    <3>1. par[Index] = Made(Index)
      BY <2>1, <2>3
    <3>2. Made(Index).entries = [n \in DOMAIN filePaths |->
                                   [path |-> filePaths[n], content |-> files[filePaths[n]]]]
      BY DEF Made
    <3>3. QED BY <3>1, <3>2 DEF Entries
  <2>6. ASSUME NEW v \in Looked
        PROVE  Loadable(v)
    <3>1. v \in Nat
      BY BoundAssumption DEF Looked, Volumes
    <3>2. CASE v <= count
      <4>1. v \in 0 .. count
        BY <2>1, <3>1, <3>2
      <4>2. QED BY <2>2, <2>3, <4>1 DEF Loadable
    <3>3. CASE v > count
      BY <1>1, <3>3 DEF Leftover
    <3>4. QED BY <2>1, <3>1, <3>2, <3>3
  <2>7. [n \in DOMAIN Entries |-> Entries[n].content] = Snapshot
    BY <2>5 DEF Snapshot
  <2>8. \A v \in 1 .. count : IsVolume(v) /\ Right(v)
    BY <2>1, <2>2, <2>7 DEF Right, Index
  <2>9. QED BY <2>4, <2>5, <2>6, <2>8 DEF Protected, ParityLoads
<1>2. Inv /\ UpToDate => CreatedIsProtected
  BY <1>1 DEF CreatedIsProtected
<1>3. QED BY <1>2, Invariance, AlwaysUpToDate, PTL
===============================================================================
