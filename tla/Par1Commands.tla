----------------------------- MODULE Par1Commands -----------------------------
(***************************************************************************)
(* The commands "par verify", "par verify -a" and "par repair" on a .par   *)
(* file: the calls that par1/verify.go and par1/repair.go make on a        *)
(* Decoder, and the exit codes of cmd/par/main.go.  Between commands,      *)
(* another program may use the Decoder as a library, with its methods in   *)
(* any order; files are damaged, writes fail and processes die.            *)
(***************************************************************************)
EXTENDS Par1Decoder

CONSTANT
  MaxFaults     \* bound on failed writes and crashes

ASSUME MaxFaultsAssumption == MaxFaults \in Nat

VARIABLES
  cmd,      \* "verify", "verifyAll" or "repair", "library" for another program
            \* that has a Decoder, or "none"
  exit,     \* the last command and its exit code, until something else begins
  faults,   \* number of failed writes and crashes
  verdict,  \* history: the exit code of the last verify, unless a file was
            \* damaged or a call met a fault after it began ("pending" while it
            \* runs)
  hope      \* history: the set was Recoverable when the Decoder was created, and
            \* since then no file was damaged

commandVars == <<vars, cmd, exit, faults, verdict, hope>>

Verifies == {"verify", "verifyAll"}

(* What can be repaired from what the disk holds. *)

Damaged     == {n \in SavedOnes : disk[entries[n].path] # Original[entries[n].path]}
WholeOnes   == {v \in 1 .. VolumeCount : volumes[v] = "whole"}
AllOriginal == Damaged = {}

Recoverable ==
  /\ index = "ok"
  /\ \A n \in SavedOnes : disk[entries[n].path] # Unreadable
  /\ \A v \in 1 .. VolumeCount : volumes[v] # "bad"
  /\ WholeOnes # {}
  /\ Cardinality(Damaged) <= Cardinality(WholeOnes)

\* The volumes that are left cannot be solved for the files that are not.
SingularDamage ==
  <<Damaged, {v \in WholeOnes :
     Cardinality({w \in WholeOnes : w < v}) < Cardinality(Damaged)}>> \in Singular

-------------------------------------------------------------------------------
NoExit == [cmd |-> "none", code |-> "none"]

CommandInit ==
  /\ Init
  /\ cmd = "none"
  /\ exit = NoExit
  /\ faults = 0
  /\ verdict = "none"
  /\ hope = FALSE

\* A command that gets no Decoder ends with an error.
Begin(c) ==
  /\ cmd = "none"
  /\ NewDecoder
  /\ verdict' = IF c \in Verifies THEN "pending" ELSE verdict
  /\ cmd' = IF pc' = "none" THEN "none" ELSE c
  /\ exit' = IF pc' = "none" /\ c # "library" THEN [cmd |-> c, code |-> "logicError"] ELSE NoExit
  /\ hope' = Recoverable
  /\ UNCHANGED faults

LoadFiles ==
  /\ result = "none"
  /\ LoadFileData

LoadParity ==
  /\ result = "filesLoaded"
  /\ LoadParityData

\* FileCounts.AllFilesUsable.
AllFilesUsable == UnusableData = {} /\ UsableParity = DOMAIN parityData

\* The last call of a command.
LastCall ==
  /\ result = "parityLoaded"
  /\ \/ cmd = "repair" /\ (Repair \/ RepairFails \/ RepairPanics)
     \/ cmd = "verifyAll" /\ AllFilesUsable /\ VerifyAllData

\* The next call of the command, or of another program, or a step of it.  A
\* panic ends the process.
Step ==
  /\ cmd # "none"
  /\ \/ cmd # "library" /\ (LoadFiles \/ LoadParity \/ LastCall)
     \/ cmd = "library" /\ Call
     \/ LoadStep
     \/ RepairStep
  /\ IF pc' = "none"
     THEN cmd' = "none" /\ exit' = [cmd |-> cmd, code |-> "panic"]
     ELSE UNCHANGED <<cmd, exit>>
  /\ UNCHANGED <<faults, verdict, hope>>

\* Mutation: volumes that were not found count as usable.
VerifyCodeAllVolumes ==
  IF result \notin {"parityLoaded", "allDataOk"} THEN "logicError"
  ELSE IF ~RepairNeeded THEN "success"
  ELSE IF Len(parityData) >= Cardinality(UnusableData) THEN "repairPossible"
  ELSE "repairNotPossible"

\* processRepairChecker on the file counts.
VerifyCode ==
  IF result \notin {"parityLoaded", "allDataOk"} THEN "logicError"
  ELSE IF ~RepairNeeded THEN "success"
  ELSE IF RepairPossible THEN "repairPossible"
  ELSE "repairNotPossible"

\* Any error ends the command before processRepairResultAndExit looks at it.
RepairCode == IF result = "repaired" THEN "success" ELSE "logicError"

Ended ==
  /\ cmd \in {"verify", "verifyAll", "repair"}
  /\ pc = "idle"
  /\ result \notin {"none", "filesLoaded"}
  /\ result = "parityLoaded" =>
       cmd = "verify" \/ (cmd = "verifyAll" /\ ~AllFilesUsable)

Exit ==
  /\ Ended
  /\ LET code == IF cmd = "repair" THEN RepairCode ELSE VerifyCode IN
       /\ exit' = [cmd |-> cmd, code |-> code]
       /\ verdict' = IF verdict = "pending" THEN code ELSE verdict
  /\ cmd' = "none"
  /\ Die("none")
  /\ UNCHANGED <<fileVars, faults, hope>>

\* Another program drops its Decoder.
Leave ==
  /\ cmd = "library"
  /\ pc = "idle"
  /\ cmd' = "none"
  /\ Die("none")
  /\ UNCHANGED <<fileVars, exit, faults, verdict, hope>>

FaultyStep ==
  /\ cmd # "none"
  /\ faults < MaxFaults
  /\ Fault
  /\ faults' = faults + 1
  /\ verdict' = "none"
  /\ IF pc' = "none"
     THEN cmd' = "none" /\ exit' = [cmd |-> cmd, code |-> "killed"]
     ELSE UNCHANGED <<cmd, exit>>
  /\ UNCHANGED hope

DamagingStep ==
  /\ Damage
  /\ verdict' = "none"
  /\ hope' = FALSE
  /\ UNCHANGED <<cmd, exit, faults>>

CommandNext ==
  \/ \E c \in {"verify", "verifyAll", "repair", "library"} : Begin(c)
  \/ Step
  \/ Exit
  \/ Leave
  \/ FaultyStep
  \/ DamagingStep

\* A command that runs goes on, and the user runs repair again and again.
CommandFairness ==
  /\ WF_commandVars(cmd # "library" /\ Step)
  /\ WF_commandVars(Exit)
  /\ SF_commandVars(Begin("repair"))

CommandSpec == CommandInit /\ [][CommandNext]_commandVars /\ CommandFairness

-------------------------------------------------------------------------------
(* Properties. *)

\* What verify promises, repair keeps: when verify exited with "repair
\* possible" and nothing was damaged and no call met a fault since, repair exits
\* with success and leaves every file as it was, unless the matrix is singular.
PromiseKept ==
  Aligned /\ verdict = "repairPossible" /\ exit.cmd = "repair" =>
    (exit.code = "success" /\ AllOriginal) \/ SingularDamage

\* After a verify that says that repair is necessary but not possible, repair
\* says so too: "Match exit codes to par2cmdline."  (Some volume must be there: without
\* one, a repair may panic or have no shard at all.)
NotPossibleAgreed ==
  WholeOnes # {} /\ verdict = "repairNotPossible" /\ exit.cmd = "repair" =>
    exit.code = "repairNotPossible"

\* Nothing that can be restored is lost, by a command or by another program, and
\* however it ends: a set with enough volumes when a Decoder was created has
\* enough of them at any time after that, in the middle of a write too.
StaysRecoverable == Aligned /\ DistinctPaths /\ hope => Recoverable

\* When damage and faults have stopped, rerunning repair restores all files,
\* unless too little is left of the set, or another program keeps its Decoder.
Converges ==
  Aligned /\ DistinctPaths =>
    <>[](AllOriginal \/ ~Recoverable \/ SingularDamage \/ cmd = "library")
===============================================================================
