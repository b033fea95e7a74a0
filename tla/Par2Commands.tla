----------------------------- MODULE Par2Commands -----------------------------
(***************************************************************************)
(* The commands "par verify" and "par repair" on a .par2 file: the calls   *)
(* that par2/verify.go and par2/repair.go make on a Decoder, and the exit  *)
(* codes of cmd/par/main.go.  A user runs one command after another while  *)
(* files are damaged, writes fail and processes die, each only so often.   *)
(***************************************************************************)
EXTENDS Par2Decoder

CONSTANT
  MaxFaults     \* bound on failed writes and crashes

ASSUME MaxFaultsAssumption == MaxFaults \in Nat

VARIABLES
  cmd,      \* the command that runs, or "none"
  exit,     \* the last command that ended and its exit code
  faults,   \* number of failed writes and crashes
  verdict,  \* history: the exit code of the last verify, unless a file was
            \* damaged or a command met a fault after it began ("pending"
            \* while it runs)
  hope      \* history: when the command began the set was Recoverable and
            \* SlicesInPlace, and since then no file was damaged and no write cut
            \* short

commandVars == <<vars, cmd, exit, faults, verdict, hope>>

(* What can be repaired from what the disk holds. *)

OnDisk(s) ==
  \E n \in Entries : LET p == RecoverySet[n] IN
    /\ disk[p] \notin {Missing, Unreadable}
    /\ \E j \in ScanHits(disk[p], KnownSlices) : Slice(disk[p], j) = Checksum(s)

ParityOnDisk == UNION {RecoveryPackets(v) : v \in Volumes}

AllOriginal == \A n \in Entries : disk[RecoverySet[n]] = Original[RecoverySet[n]]

SlicesInPlace ==
  \A p \in Paths : disk[p] \notin {Missing, Unreadable} =>
    \A j \in ScanHits(disk[p], KnownSlices) : <<p, j>> \in LocationsOf(Slice(disk[p], j))

Recoverable ==
  /\ index = "ok"
  /\ \A n \in Entries : disk[RecoverySet[n]] # Unreadable
  /\ \A v \in Volumes : volumes[v] \notin {"bad", "headless"}
  /\ ParityOnDisk # {}
  /\ Cardinality({s \in Shards : ~OnDisk(s)}) <= Cardinality(ParityOnDisk)

-------------------------------------------------------------------------------
CommandInit ==
  /\ Init
  /\ cmd = "none"
  /\ exit = [cmd |-> "none", code |-> "none"]
  /\ faults = 0
  /\ verdict = "none"
  /\ hope = FALSE

Begin(c) ==
  /\ cmd = "none"
  /\ NewDecoder
  /\ verdict' = IF c = "verify" THEN "pending" ELSE verdict
  /\ IF pc' = "none"
     THEN cmd' = cmd /\ exit' = [cmd |-> c, code |-> "logicError"]
     ELSE cmd' = c   /\ exit' = exit
  /\ hope' = (Recoverable /\ SlicesInPlace)
  /\ UNCHANGED faults

LoadFiles ==
  /\ result = "none"
  /\ LoadFileData

LoadParity ==
  /\ result = "filesLoaded"
  /\ LoadParityData

RepairFiles ==
  /\ cmd = "repair"
  /\ result = "parityLoaded"
  /\ Repair \/ RepairFails

\* The next call of the command, or a step of it; a panic ends the process.
Step ==
  /\ cmd # "none"
  /\ LoadFiles \/ LoadParity \/ RepairFiles \/ LoadStep \/ RepairStep
  /\ IF pc' = "none"
     THEN cmd' = "none" /\ exit' = [cmd |-> cmd, code |-> "panic"]
     ELSE UNCHANGED <<cmd, exit>>
  /\ UNCHANGED <<faults, verdict, hope>>

\* Mutation: parity shards that were not found count as usable.
VerifyCodeAllParity ==
  IF result # "parityLoaded" THEN "logicError"
  ELSE IF ~RepairNeeded THEN "success"
  ELSE IF Cardinality(Exponents) >= Cardinality(MissingShards) THEN "repairPossible"
  ELSE "repairNotPossible"

\* processRepairChecker on the shard counts.
VerifyCode ==
  IF result # "parityLoaded" THEN "logicError"
  ELSE IF ~RepairNeeded THEN "success"
  ELSE IF RepairPossible THEN "repairPossible"
  ELSE "repairNotPossible"

\* processRepairResultAndExit: only a NotEnoughParityShardsError means that
\* repair is necessary but not possible.
RepairCode ==
  IF result = "repaired" THEN "success"
  ELSE IF result = "notEnough" THEN "repairNotPossible"
  ELSE "logicError"

Exit ==
  /\ cmd # "none"
  /\ pc = "idle"
  /\ result \notin {"none", "filesLoaded"}
  /\ cmd = "repair" => result # "parityLoaded"
  /\ exit' = [cmd |-> cmd, code |-> IF cmd = "verify" THEN VerifyCode ELSE RepairCode]
  /\ verdict' = IF verdict = "pending" THEN VerifyCode ELSE verdict
  /\ cmd' = "none"
  /\ Die("none")
  /\ UNCHANGED <<fileVars, faults, hope>>

FaultyStep ==
  /\ cmd # "none"
  /\ faults < MaxFaults
  /\ Fault
  /\ faults' = faults + 1
  /\ verdict' = "none"
  /\ hope' = (hope /\ pc # "writing")
  /\ IF pc' = "none"
     THEN cmd' = "none" /\ exit' = [cmd |-> cmd, code |-> "killed"]
     ELSE UNCHANGED <<cmd, exit>>

DamagingStep ==
  /\ Damage
  /\ verdict' = "none"
  /\ hope' = FALSE
  /\ UNCHANGED <<cmd, exit, faults>>

CommandNext ==
  \/ \E c \in {"verify", "repair"} : Begin(c)
  \/ Step
  \/ Exit
  \/ FaultyStep
  \/ DamagingStep

\* A command that runs goes on, and the user runs repair again and again.
CommandFairness ==
  /\ WF_commandVars(Step)
  /\ WF_commandVars(Exit)
  /\ SF_commandVars(Begin("repair"))

CommandSpec == CommandInit /\ [][CommandNext]_commandVars /\ CommandFairness

-------------------------------------------------------------------------------
(* Properties. *)

\* Parity that no one tampered with and matrices that can be inverted.
Sound == stale = {} /\ Singular = {}

\* What verify promises, repair keeps: when verify exited with "repair
\* possible" and nothing was damaged and no write failed since, repair exits
\* with success and leaves every file as it was.
PromiseKept ==
  Sound /\ verdict = "repairPossible" /\ exit.cmd = "repair" =>
    exit.code = "success" /\ AllOriginal

\* A command does not lose what it cannot restore: when the slices that
\* survive are in their own places, a set that could be repaired when the
\* command began can be repaired whenever no file is half written, also after
\* a write that failed to begin or a crash between two writes.  (A write that
\* is cut short may lose slices: hope is given up then.)
StaysRecoverable == hope /\ pc # "writing" => Recoverable

\* When damage and faults have stopped, rerunning repair restores all files,
\* unless too little is left of the set.
Converges == Sound => <>[](AllOriginal \/ ~Recoverable)
===============================================================================
