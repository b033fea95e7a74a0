# gopar in TLA+

gopar implements the PAR1 and PAR2 file formats: from a set of data files it
creates parity volumes, and from the volumes it later checks the files and
restores what was lost.  This directory holds TLA+ models of that program,
configurations that check them with TLC on small instances, and proofs that the
TLA+ proof system checks for every instance.

`PROJECT.json` lists the components, the runs, the theorems, the hazards each
property is aimed at, and for each definition the lines of the source it was
translated from.

## The system

| component | state it keeps | operations | what is hard |
|---|---|---|---|
| PAR2 decoder, `par2/decoder.go` | the recovery set read from the index file; per data shard its bytes and the places they were found (`fileIntegrityInfos`); the parity shards by exponent | `NewDecoder`, `LoadFileData`, `LoadParityData`, `ShardCounts`, `Repair` | many files read and written one by one while other programs change them; failed and torn writes; state kept from call to call; shards found out of place |
| PAR2 verify and repair, `par2/verify.go`, `par2/repair.go` | one decoder per command | the calls on the decoder in order, exit codes in `cmd/par/main.go` | one command predicts what another will do later |
| PAR2 encoder and create, `par2/encoder.go`, `par2/create.go` | the data shards of each file by file ID, the parity shards | `LoadFileData`, `ComputeParityData`, `Write` | index and volumes are written one by one, over older ones, under a set ID that may be the same |
| PAR2 packets, `par2/file.go`, `par2/*_packet.go` | none | `readFile`, `writeFile` and one reader and writer per packet | duplicate, foreign, damaged and missing packets |
| rolling CRC32, `par2/crc32.go` | a table | `update` | equality with the checksum computed afresh |
| Reed-Solomon coder, `rsec16/coder.go` | the parity matrix | `GenerateParity`, `ReconstructData` | choice of rows; singular submatrices |
| parallel application of a matrix, `rsec16/matrix.go` | output rows shared by goroutines | `applyMatrixParallelData`, `applyMatrixParallelOut` | data races, division of the work, completion |
| arithmetic, `gf2p16`, `gf2` | tables | field operations, slices, matrices, row reduction | SIMD kernels against plain Go |
| PAR1 decoder and encoder, `par1` | whole files as shards | as for PAR2 | indices of files against indices of shards; lengths |
| command line, `cmd/par/main.go` | none | flags, messages, exit codes | |

Components call each other directly; the only concurrency inside the program is
in `rsec16/matrix.go`.  The others share the disk: with other programs, with
later commands, and with themselves after a crash.

What makes each component correct:

- decoder: it never reports success over files it did not restore, never writes
  anything but original bytes, never touches what was intact, and its verdict
  (repair needed, repair possible) agrees with the disk and with what `Repair`
  does;
- commands: what verify promises repair keeps; rerunning repair ends in
  restored files; a failed command does not make things worse;
- parallel application: no data race, and the product is complete when the call
  returns;
- encoder: what it wrote the decoder can read back, and an interrupted create is
  never taken for a complete one;
- packets: what is written is read back; a damaged file is refused as a whole;
- coder and matrices: reconstruction is the inverse of generation or an error.

## Modules

| module | models | with |
|---|---|---|
| `Par2Slices` | slices of a file, the result of the scan for known slices (`fillShardInfos`) | |
| `Par2Decoder` | the decoder over files and volumes on disk; extends `Par2Slices` | `MCPar2Decoder`, `Par2Proofs` |
| `Par2Commands` | `par verify` and `par repair` run again and again; extends `Par2Decoder` | `MCPar2Commands`, `Par2Proofs` |
| `Par2Packets` | what a file of packets says (`readFile`) and what is written into one (`writeFile`), as operators | |
| `Par2Reader` | the loop of `readFile`, packet by packet; shown to return what `Par2Packets` says | `MCPar2Reader`, `Par2ReaderProofs` |
| `Par2Encoder` | create run again and again over what earlier calls left; looks at the result with `Par2Packets` | `MCPar2Encoder`, `Par2EncoderProofs` |
| `Crc32Window` | the checksum of a slice, afresh and rolled on by a byte, as operators | |
| `Par2Scan` | the loop of `fillShardInfos` over a rolled checksum; shown to find what `Par2Slices` says | `MCPar2Scan`, `Par2ScanProofs` |
| `Gf2p16` | elements of the field, their logarithms and tables, products of slices, as operators | |
| `Reconstruction` | the list of parity shards, the coder and its reduction of rows; extends `Gf2p16` | `MCReconstruction`, `ReconstructionProofs` |
| `MatrixProduct` | abstract: a product that is there when the call returns | |
| `ParallelApply` | the goroutines of `rsec16/matrix.go`; implements `MatrixProduct` | `MCParallelApply`, `ParallelApplyProofs` |
| `Par1Decoder` | the PAR1 decoder over whole files | `Par1Proofs` |
| `Par1Commands` | `par verify`, `par verify -a` and `par repair` on a `.par` file; extends `Par1Decoder` | `MCPar1Commands`, `Par1Proofs` |
| `Par1Encoder` | the PAR1 create, over what earlier calls left | `MCPar1Encoder`, `Par1EncoderProofs` |

### Par2Slices and Par2Decoder

`disk`, `volumes` and `index` are the files; a data file holds a sequence of
bytes, or is `Missing`, or cannot be read.  `infos`, `parity` and `loaded` are
the fields of `Decoder`; `loading`, `matches`, `shards`, `wasOK` and `repaired`
are locals of the call in progress, `pc` says which one that is and `i` is its
loop index.  Each access to a file is a step of its own: `LoadDataFile` is one
round of the loop of `LoadFileData`, `LoadVolume` one of `LoadParityData`, and a
write is the truncation (`OpenFile`) and then the data (`FinishWrite`), or a
part of it, or all of it and an error of `Close` (`WriteFails`, `Crash`).  Between any two steps another program may
change a file (`DamageFile`, `DamageVolume`, `DamageIndex`), though never the
one being written.  What happens in memory only is one step: `Repair` stands for
the coder, the optional parity check and the replacement of the shard infos.

Abstractions:

- A slice stands for its own CRC32 and MD5, and the bytes of a file for their
  hashes: two contents collide iff they are equal.
- The Reed-Solomon algebra is replaced by what it guarantees: from shards that
  are all original, `ReconstructData` yields the originals, or an error if the
  submatrix is singular (`Singular` says which are); from shards that are not,
  data that is wrong somewhere (`Reconstructions`), and the parity check may
  then pass or not, except that the rows used for the solution always agree with
  it (`ParityChecks`).  `Reconstruction` models the algebra itself.
- `Exponents` stands for the exponents of packets; parity shards are `nil`,
  `right`, or `wrong` (from a volume in `stale`, computed from other data under the
  same set ID, which depends on the first 16k of each file only).
- The packets of a volume are abstracted to what `LoadParityData` makes of them:
  recovery packets, the part of them before a cut between two packets (`CutShards`), none
  of this set, a file that ends before its main packet, an error.  `Par2Packets` and `Par2Reader` model the packets themselves.
- `touched` is a history variable that names the files other programs changed
  after the decoder looked at them; no property could hold without it.

### Par2Commands

`Begin`, `Step` and `Exit` run the calls of one command in the order of
`verify.go` and `repair.go` and end in the exit code of `main.go`.  `verdict`
(what the last verify said, if nothing happened since) and `hope` (whether the
set was recoverable, with its slices in their own places, when the command began) are history variables.
`Recoverable` says from the disk alone whether enough is left, in the files of the set
and in the volumes.

### Par2Packets and Par2Reader

A file is a sequence of packets with a set, a type and a body.  What
`readNextPacket` fails on is one value, `Broken`, and what a reader of a packet
type fails on is another, `Malformed`: how many bytes of which kind are wrong makes
no difference to `readFile`, which gives up on both.  The last duplicate of a main
packet, a description or a checksum packet wins, two recovery packets with one
exponent must be equal.  `Par2Packets` says this of a file as a whole;
`Par2Reader` has one action per kind of packet, with the variables of the loop.
The MD5 of the main packet, which is the ID of the recovery set, is taken to be
the main packet itself.

### Par2Encoder

`files` are the data files and `par` the index and the volumes, each a sequence of
packets or `NoFile`.  `Create` begins a call with one of `Arguments` as its list of
paths and one of `Counts` as its number of parity shards, and its steps are those of
`create`: one `LoadFile` per data file, the parity, for which the coder may be given too
many shards (`Oversized`), and for each file to write a
truncation (`OpenFile`) and the data (`FinishWrite`).  `WriteFails` leaves any
beginning of the packets, with or without a broken one at its end.  The content of a
file is one value, with `Start[c]` its length and first 16k, which is all that the
file ID depends on; a parity shard is its exponent with the contents it was computed
from.  `sort.Slice` is not stable, so `SortedByID` is the set of all sorted orders,
and an action takes one of them; equal IDs make no difference between them.
`Protected` looks at the disk as `NewDecoder`, the indices of `LoadFileData` (`Found`) and
`LoadParityData` do; of a path that was given more than once it does not ask that its
shards are found, as the code does not find them.  `since` is a
history variable that premises of properties speak of.

### Crc32Window and Par2Scan

A byte and a checksum are the sets of the positions of their bits (`ZeroByte` is the
byte of the padding).  `Checksum` goes through a slice byte by byte; `Update` removes the oldest byte of the window by the
table `MaskedTable`, as the code does with the effect of a byte and of the initial
and final masks, and appends the next.  `Par2Scan` is the loop of `fillShardInfos`:
`Miss` rolls on, `Hit` skips a slice, after which the checksum is computed afresh
(`justMissed`).  The width of a byte and of a checksum and the polynomial are
constants: 8, 32 and the IEEE polynomial in the code.

### Gf2p16 and Reconstruction

`Gf2p16` has polynomials over GF(2), the tables of powers and logarithms of 3,
the operations of `T`, and the products of slices by the tables of halves
(`mulTable`) and of quarters of a word (`mulTable64`), which the vector instructions use on whole chunks
while the rest is done word by word.  The width of an element and the polynomial are
constants: 16 and 0x1100b in the code.

`Reconstruction` starts at the recovery packets: `PlacePacket` puts one into the list
of parity shards as `LoadParityData` does, in any order, with the new length computed
in the width of an exponent.  `NewCoder` makes a coder of either kind, with any data
shards missing.  `ReconstructData` chooses the parity shards and makes the matrices;
`Pivot`, `ClearBelow`, `NextPivot`, `ClearAbove` and `NextColumn` are the rounds of
the loops of `rowReduceForInverse`; `Store` applies the result.  Data shard `k` is the
`k`-th unit vector: what happens to shards is linear, so that what is right for these
is right for all data.

### ParallelApply

The caller cuts the output into ranges of bytes (`ByRow = FALSE`) or of rows
and starts a goroutine for each; the ranges are rounded up as in the code, with
its constants `MinLength` and `Divisor`.  A goroutine takes one shared word at a
time through a read and a write that other goroutines may come between.  A word
holds the set of the columns that were multiplied and added into it, or the
`Old` contents.  The `WaitGroup` is the set of goroutines that have not finished.

### Par1Decoder

As `Par2Decoder`, with `fileData`, `parityData` and `shardByteCount` for the fields of
`Decoder`.  An entry of the index volume has a path and the bit `saved`: `fileData` has
an element per saved entry only, while `Repair` takes the entry with the index of the
shard (`EntryOf`), so the two are the same only when no entry that is not saved comes
before one that is (`Aligned`, which holds of every volume that gopar writes).  The
decoder's panics are steps that end the process: `RepairPanics` (negative padding),
`SlicePanics` (an entry longer than the shards; in the code the slice may still fit the
capacity of the buffer and end in a hash mismatch, which writes nothing either) and one disjunct of `StoreParityData`
(no volume to look for).  A volume is whole, absent, or one that `LoadParityData`
gives up on.  A write that is complete before `Close` fails is an action of its own
(`CloseFails`): the file is then as it should be and the decoder takes it for unusable.
The coder, a library, is modelled by its errors and by the shards that
the set hash ties the volumes to.  `ShardLimit` and `VolumeLimit` stand for 256 and
99.

### Par1Commands

As `Par2Commands`, with a third command `verifyAll` (`-a`) and with another program
(`cmd = "library"`) that has a `Decoder` and calls its methods in any order, so that
one run covers both the commands and the decoder by itself.  The commands restrict the
decoder's steps and add none: `CommandSpec` implies the decoder's `Spec`, which is a
theorem.  A panic anywhere ends the command with the code of a panic.  What
`VerifyAllData` finds does not change the exit code, and any error of `par repair` ends it before
`processRepairResultAndExit`.

### Par1Encoder

As `Par2Encoder`.  A volume has a set hash (the contents of all files in the order of
the arguments), entries, and parity; one that is cut short is `Broken`, since its
control hash covers all of it.  `Create` refuses two files of the same name, and the
coder more shards than a byte can number.

## Runs

| run | configuration | shows |
|---|---|---|
| `decoder` | two files of 2 and 1 slices, two volumes whose exponents overlap and the second of which may be stale or cut behind one of its shards, two changes by other programs at any moments, some matrices singular | any sequence of calls: the invariants `DecoderConsistent`, `SuccessRestores`, `RepairedPathsHold`, `VerdictSound`, `MismatchMeansStale`, `UsableNotCorrupt` and the action properties `WritesOnlyOriginals`, `IntactNotOpened` |
| `commands` | verify and repair again and again, two changes, two faults, volumes with 1 and 2 recovery packets | `PromiseKept`, `StaysRecoverable` and the liveness property `Converges` |
| `reader` | files of up to three packets out of 15, of two sets, with every expected set ID | `ReadsAsDefined`, with the inductive invariant `IndInv` |
| `scan` | all files of up to six bytes of two bits, slices of four bytes, checksums of two bytes, three sets of known slices | `RollsRight`, `HitsAsDefined` |
| `reconstruction` | the field of 16 elements, any subset of five exponents in any order, both kinds of coder, 1, 2, 4 or 15 data shards, any of them missing | `TablesRight`, `ParityInPlace`, `SolutionKept`, `ReconstructedRight`, `RefusedRightly` |
| `encoder` | two files whose IDs have another order than the arguments, or one of them named twice; contents with equal IDs, and some with too many slices for the coder; 2 or 3 shards, one change, one fault | `CreatedIsProtected`, `MixIsSafe`, `RefusalSpares` and the liveness property `RerunProtects` |
| `apply_data` | 2 rows, 2 columns, 34 bytes, 3 goroutines: two ranges of 16 bytes and a short one | `NoRace`, `IndInv`, and the refinement `Implements` of `MatrixProduct` with its termination |
| `par1` | nine lists of up to five entries over three files (one empty), two volumes, two changes, one fault, commands and another program | `UsableIsOnDisk`, `SuccessRestores`, `PromiseKept`, `StaysRecoverable`, `WritesOnlyOriginals`, `IntactNotOpened` and the liveness property `Converges` |
| `par1_encoder` | three lists of two files (one list is refused), 1, 3 or 4 volumes with a limit of 5 shards and 2 volumes, one change, one fault | `CreatedIsProtected`, `MixIsSafe`, `RefusalSpares`, `RerunProtects` |
| `par1_no_volumes`, `par1_not_possible`, `repair_needed` | one property each | a comment of the code is not what the code does; see Findings |

Why these bounds are enough.  Slices are two bytes, the smallest size with an
offset that is not a multiple of it; "a" has a whole slice and one with padding,
and "b" a slice that also begins inside of a damaged "a", so that hits out of
place, hits that hide another slice and hits in padding all happen.  Two files
are needed for a repair that fails between two writes.  With two changes one can
come before and one during a call, or a data file and the volume needed for it
can both go.  Three exponents in two volumes give both too little and more parity
than is missing.  Three packets are enough for two
conflicting ones and the creator packet without which nothing is returned.  Files of
six bytes have misses before, inside of and behind a slice of four, and three offsets
at which it is padded; with 16 slices to a checksum, hits that the MD5 must reject happen.
In the field of 16 elements 8 powers of 2 are generators, as 32768 are in the real one, so
that 15 data shards are too many for PAR2 and, with parity, for Cauchy; the exponents 0 and
3, and 13 to 15, leave gaps, are dependent on some columns, and reach the last one, whose successor wraps; up to
four missing shards make every kind of round of the row reduction happen, swaps included.
Two and three shards give volumes of the same and of different names (`vol01+01` and
`vol01+02`), which is what leftovers need; contents of more than four slices are too many for the coder.  Four and two as `ShardLimit`
and `VolumeLimit` give lists of entries below, at and beyond the limit; five and two
give the encoder more volumes than are looked for, and more than are possible.  34 bytes
give three ranges whose last one has less than the minimum.

`CHECK_DEADLOCK FALSE`: the models of the decoders and commands stop nowhere but in
states where the client makes no further call and damage is used up; the parallel
product, `readFile`, the scan and the reconstruction end when the call has returned.

### Fairness

`Par2Commands`: a command that runs goes on (`WF` on `Step` and on `Exit`: the
process is scheduled), and the user who wants the files back runs repair again
after each failure (`SF` on `Begin("repair")`: strong, because verify commands
come in between).  Faults and damage are bounded, so they end.  `Par1Commands`: the
same for commands; another program owes nothing, and may keep its `Decoder` for ever,
which `Converges` allows for.  `Par2Encoder` and `Par1Encoder`: `WF` on `Create` and on
`Step`, for a user who calls create again.  `ParallelApply`:
`WF` on every goroutine and on the caller, which is what the Go scheduler gives
to goroutines that never block.

### Findings

Three comments disagree with the code; the runs with the expected outcome
`violation` show a behaviour for each.

- `RepairNeeded` is false for files that were swapped, renamed onto each other or
  appended to, since shards count as usable wherever they are found, although
  `Repair` rewrites these files.  Its comment gives two meanings ("whether repair is
  needed, i.e. whether UnusableDataShardCount is non-zero"), which these files tell apart.
- In PAR1, without any volume `RepairPossible` is true when all files are intact, and
  `Repair` panics.
- In PAR1, with too few but some volumes, `par verify` says that repair is not possible
  where `par repair` ends with the code of a logic error, beside a comment on codes that
  match.  `NotPossibleAgreed` asks for a volume, since without any a repair may panic
  instead; Go's exit status for a panic is 2, which happens to be the code of
  `ExitRepairNotPossible`.

Observations that contradict no comment and so are no runs:

- PAR2 decoder.  Without any parity shard `RepairPossible` is true when no shard is
  missing, where `Repair` refuses with "no parity shards", and `par repair` ends with the
  code of a logic error.  When a file ID occurs twice in the main packet, shards of intact files count
  as unusable, and after a torn write a second `Repair` of the same decoder can
  succeed over a torn file (hence the premise `DistinctIDs`).  When slices are out of
  place a failed write can destroy the only copy of a slice of another file, and a
  write that is cut short can lose slices of its own file (hence the premises of
  `StaysRecoverable`).  A volume that was cut after its creator packet has no main
  packet and makes `LoadParityData` dereference a nil pointer.  The length of the
  data of a recovery packet is not compared with the slice size.  A recovery packet with exponent
  65535 ends in a panic, since its successor is computed in 16 bits.
- Coder.  It takes the first parity rows there are, as many as it needs, so that it
  may call a matrix singular though other rows would do.
- PAR2 create.  With fewer shards, over the volumes of one with more, it leaves volumes of
  other names; if they are of the same set ID but of other contents their shards can
  win over the new ones, and if one is damaged no verify gets past it (hence the last
  premise of `CreatedIsProtected`).  Data files that are all empty make the coder
  panic in `ComputeParityData`, while one empty file among others is refused in `Write`.
- PAR1 decoder.  An entry that is not saved and comes before a saved one makes a
  repair check shards against the hashes of other entries: it fails, panics, or, when
  the entry of an empty file is hit, ends with success and the damaged file as it was
  (hence the premise `Aligned`).  An index volume of exactly 256 entries makes
  `LoadParityData` panic.  The result of `par verify -a` is not part of the exit code.
- PAR1 create.  Volumes left by a call with more of them, of another set, make the set one
  that cannot be loaded (hence the last premise of `CreatedIsProtected`).  Volumes beyond the
  99th are written and never looked for.

## Proofs

The theorems hold for all values of the constants that satisfy the modules'
assumptions: all files, contents, sizes, lists and limits, and any number of
calls, faults and changes.

**`Par2Proofs`**, of the decoder: `TypeCorrect`, `Consistent`, `RepairRestores`,
`RepairedPathsAreRestored`, `RepairSparesIntact`, `OnlyOriginalsWritten`,
`UsableShardsRight`, `MismatchOnlyIfStale` and `VerdictReliable`: every property of the
`decoder` run.  The assumptions are those on the constants of `Par2Decoder`: files are
sequences of bytes and not empty, `Missing` and the like are none of them, `Junk` is no
slice of a file.

The inductive invariant is `IndInv`.  A file that was read as its original has
all of its shards in their places (`InPlace`): so `wasOK` says exactly which files
were intact, and `Repair` skips just those.  It holds because the scan of an intact
file hits each slice in its place (`ScanFindsSlices`), and
because later copies found elsewhere only add to the locations.  That needs every
file to have its own entry (`DistinctIDs`), for the shards of a duplicate entry are
never filled in.  A file once intact or written stays so unless others touch it
(`Held`), since no file is opened before its turn.  With the loop index at the end
these add up to `SuccessRestores`.  `WriteInProgress`, that the data about to be
written are original whatever the parity was, gives `WritesOnlyOriginals`
without any premise.

Without stale volumes, every shard that is held is a true one or missing, in `infos`,
in the load in progress and in what was reconstructed (`Unmixed`): this gives
`UsableNotCorrupt`, and `MismatchMeansStale`, since data put together from true
shards has the hash of the file (`AssembledRight`).  `Searched`, that
every shard that is held was found in some file that was read, gives one half of
`VerdictSound`; the other half follows from `IndInv`.

`ScanFindsSlices` is an induction along the scan.  The offsets the scan visits are
defined as those in every set closed under its moves, so the induction is over
natural numbers by a least counterexample, and needs no recursion.

**`Par2Proofs`**, of the commands: `CommandsUseDecoder` is that `CommandSpec` implies the
decoder's `Spec`, which brings all of the theorems above to the commands.

`NothingIsLost` is `StaysRecoverable`, for any entries, duplicate ones too.  The
invariant is about the files as they will be when the write under way is complete
(`Final`): as many shards are found in them as before.  A file that is rewritten loses
what the scan found in it; since each hit was in one of its places, the original bytes
have the same slice there, and the scan of original bytes hits all of their slices
(`ScanFindsSlices`) and nothing between them (`HitsAreMultiples`), so that the slices
that survive stay in their places, too.

`PromiseIsKept` is `PromiseKept`, for distinct files.  `Reads` says that what a verify
loads, or a repair while the promise of a verify stands, is exactly what the disk holds:
a shard is held iff some file has it, a parity shard iff some whole volume does.  So the
verify and the repair count the same shards, none of the errors of `Repair` is
possible, `Unmixed` excludes a mismatch, and each file is found to be as it was or is
written (`Keeps`).  A repair that follows finds nothing to write.

For distinct files, too, `UndisturbedRepairRestores` is about the commands alone, without a
verify before them: from
any moment on where no command runs, the set is `Recoverable` and nothing but commands
and their steps happens any more, each repair that ends has succeeded and left all
files as they were, and they stay so.  It rests on the same two facts as `PromiseIsKept`: what
is read is what the disk holds (`ReadsDisk`), and no step leads astray a command that
began while the set was recoverable (`Mending`).  `CommandsTerminate` needs no such premise and holds
for duplicate entries too, since all it takes is that every loop begins at the first entry
(`AtStart`): the number `StepsLeft` falls with each step of a command, and neither damage nor a fault raises it.  Together
they are `Converges` but for the fairness that lets the steps be taken.

**`Par2ReaderProofs`** proves `TypeCorrect`, `ReadsSoFar` and `ReadsRight` for all
packets and files of all lengths.  The invariant `SoFar` says of each map what
`Par2Packets` says of a file, restricted to the first `k` packets: the steps of the
proof are that one more position changes the last packet about an ID exactly as
assigning to the map does (`PutLatest`), and that the set ID the loop has settled
on selects the packets of `Mine` (`SetMatches`).  The assumptions are about packets:
that a creator packet or one of an unknown type is never malformed, and that a main
packet that was read is not nil.

**`Par2EncoderProofs`** proves `VolumesNeverMix`, `RefusedCallsSpare` and `CreateProtects`.  The
invariant is that every packet on disk tells the truth about the contents it was made
from (`PacketOK`): a main packet is what its set ID stands for, the IDs of
descriptions and of the set are those of contents, and a shard is of one content for
each ID of its set.  The packets of a complete write have this (`PacketsWritten`),
and so has any beginning of them (`TornOK`).  The decoder takes from volumes only
packets with the set ID of the index, so that a shard and the descriptions are of
contents with the same IDs; they are the same contents unless two contents share
their first 16k and length.  That is stronger than what a decoder needs: it holds of
each volume by itself, also when another one fails to load.  The assumptions are that
the ID of a set is never taken for none, and that no packet is taken for a broken one.

`CreateProtects` is `CreatedIsProtected` for any number of shards.  As long as no other program
changes a file, the IDs and infos describe what the files hold, also when a file is
given twice and after sorting (`SortedHasAll`), and what is on disk before the file that
`Write` is at is what was made of them (`UpToDate`, `Before`).  When no volume follows,
all were written (`Chain`) and together they hold every exponent (`Covered`): this is why
`VolumeNames` is stated as a least set and not with powers of two, for which the provers
have no laws.  `Layout` and `MadeRead` are the round trip of `writeFile` and
`readFile`: a file that was written whole gives back its main packet, descriptions
and shards.  It also shows that the order in which the decoder visits volumes is
immaterial then, since all that hold a shard hold the same one.

**`ParallelApplyProofs`** proves `Computed` (`IndInv`), `RaceFree` and
`ImplementsProduct`.  The
ranges are disjoint and cover the output, by a few lemmas of arithmetic on
rounding up; so each word has one owner, and what it holds is a function of how far
its owner has come (`Expected`).  That all owners are done when the `WaitGroup` is
empty makes the product complete.  The run is of ranges of bytes; ranges of rows are
covered by the proof only, which is for both.

**`Par1Proofs`**, of the decoder, proves `TypeCorrect`, `OnlyOriginalsWritten`, `UsableDataOnDisk`,
`RepairRestores` and `IntactFilesNotOpened`.  `TypeInv` adds to the types that the
data about to be written match the hashes of the entry they are written under, and that
`fileData` counts the saved entries; it holds of any entries, and so does
`WritesOnlyOriginals`.  For entries that are `Regular` (no entry that is not saved before
one that is, no path twice), `IndInv` says what the decoder knows: an element of
`fileData` is what was read or written and is still on disk unless others touched it
(`Known`), so far as the load in progress has come (`Read`), and what `Repair` has yet
to write (`Repairing`) and has written (`Finished`).

**`Par1Proofs`**, of the commands: `CommandsUseDecoder` is that `CommandSpec` implies the decoder's
`Spec`, step by step, which brings all of the theorems above to the commands.
`NothingIsLost` is `StaysRecoverable`: a write goes to a file that was damaged when it was read, whose
change by another program gave up hope, or whose `Close` failed after an earlier repair of the
same decoder.  Such a repair counts the files it takes for unusable against the volumes it
loaded, so that there are never more files it may open than whole volumes (`Enough`), and
the set stays within reach.  `PromiseIsKept` is `PromiseKept`, for lists without a path twice: what a decoder
has loaded since the verify began is what the disk holds (`Reads`), so that the files
without data are the damaged ones and the volumes that are loaded are all that are whole.
The repair then has as many shards as the verify counted, all of the right length, and
meets none of the errors of `Repair` but the singular matrix (`RepairOnCourse`); no file
is lost that another program's repair writes in between (`Keeps`).
`UndisturbedRepairRestores` and `CommandsTerminate` are as those of `Par2Proofs`; the first
also holds while other programs use a decoder in between, and the second is about
commands only, as other programs may call a decoder as often as they like.

**`Par1EncoderProofs`** proves `VolumesNeverMix`, `RefusedCallsSpare` and `CreateProtects`.
A volume is as it was written: its set hash, its entries and its parity are of the same
contents (`VolumesAgree`), so that volumes with the set hash of the index have its parity.
`CreateProtects` is `CreatedIsProtected`: as long as no other program changes a file, what was read is
what the files hold, and each volume from the index to the one that `Write` is at was written of
that (`UpToDate`).  The assumption is that a volume that is not there, or is broken, is
none of those that can be read.

**`Par2ScanProofs`** proves `UpdateRolls`, `CrcIsRolledRight` and `SearchFindsAll`.
`UpdateRolls` is about the operators alone: for every width of a byte and of a
checksum, every polynomial and every window, `Update` gives the checksum of the window
one byte on.  A checksum is what a register holds that every byte moves on (`Moved`), a
step that is linear over exclusive or; so the checksum of two slices combined is that
of each, combined (`ChecksumXor`), the effect of the oldest byte is that of this byte before
zeros (`Lead`), and that of the initial and final masks is one constant
(`LeaderOnes`, `MaskedTableRight`).  For the loop, `IndInv` says that the checksum that is held is
that of the slice at the offset, padded as it is, that the offsets looked at so far
are closed under the moves of the scan but for the next one (`LookedAt`), and that every
set so closed, of which the definition of the search takes the least, has them (`Needed`).  The assumptions are that a window is
at least as long as a checksum, without which `newCRC32Window` panics, and that the
polynomial fits a checksum.

**`ReconstructionProofs`** proves `FieldIsRight`, `TablesAreRight`, `ParityIsInPlace`,
`SolutionIsKept`, `ReconstructsRight` and `RefusesRightly`, for every width of an element that
has quarters, every polynomial of that degree of which 3 is a generator
(`GeneratorAssumption`, without which `init` of `t.go` panics), any numbers of shards
(`CountAssumption`), any set of exponents, and any shards missing.

- The field.  A product by 3 is a shift, an addition and at most one subtraction of the
  polynomial (`Times3`), and so additive.  Every element but zero is a power of 3, because
  the powers differ and there are as many of them; so products by any element are
  additive, which with the laws of exponents makes a field.  A polynomial is reduced to
  its value at the element 2 (`Value`), which is additive and turns shifts into products: hence
  the product by logarithms is that of polynomials, and the tables of halves and of quarters
  of a word, which are products of parts of it, add up to it.
- The list of parity shards.  `ParityInv` is that each exponent that was read is in its
  place, and that the list ends with the greatest; it holds for every order of the packets.
- The reduction.  `ReducedInv` adds, round by round, that a row of the left matrix
  times the missing shards is the row of the right one times the input (`SolutionInv`),
  and how far the left matrix is the identity (`EchelonInv`).  When `Store` comes it is
  all of it, so that the right matrix times the input is the missing shards:
  `ReconstructsRight`.
- The refusals.  What the reduced matrix takes to zero, the first one does (`KernelInv`),
  since the operations on rows can be undone.  When a column has no pivot, back substitution
  gives a combination of columns that the reduced matrix takes to zero: so the missing columns were
  dependent, and the error is justified.  For a Cauchy matrix the part still to be reduced
  keeps the form a(r) b(c) / (x(r) + y(c)) with factors that are not zero
  (`CauchyInv`): every pivot is there, and a Cauchy matrix is never called singular.

`NilAssumption` says that no packet and no shard is taken for a missing one.

The library's induction takes an operator as a parameter, which is out of the
provers' reach.  Both modules get by with sets: a nonempty set of numbers has a
least element (`LeastNatural`), so that a set with zero and the successors of its elements
has all numbers (`Induction`), and a function that is given by a value at zero and a step
exists (`Recursion`) and is the only one.

Only model-checked: the liveness properties `Converges` and `RerunProtects`, and the
termination in `Implements`, since fairness speaks of ENABLED, which is out of the prover's
reach.  (`UndisturbedRepairRestores` and `CommandsTerminate` are the part of `Converges` that
does without.)  That the violations of the three runs with that outcome exist is shown by TLC's
counterexamples.

## Plan

Done, the most important first: the PAR2 decoder, its commands, the parallel product,
packets and their reader, the PAR2 encoder, the PAR1 decoder, commands and encoder,
the scan with its rolling checksum, the coder with its arithmetic, and theorems for all
invariants and action properties that the runs check, and for the part of `Converges` that is
not about fairness.  What is left: main packets that name a
file twice in the configuration of the decoder, with the properties that hold without
`DistinctIDs`.

## Not modelled

- The instructions of the kernels in assembly (`gf2p16/slice_amd64.s`): tested against
  plain Go in the repository.  How their tables are made and used is in `Gf2p16`.
- `Matrix.Times` and `Matrix.Inverse`, which only tests call.
- Checksum packets with fewer checksums than the file has slices: `NewDecoder` does not
  compare the two numbers, and `Repair` would cut a buffer that is too short (or fit
  its capacity), before it writes the file.
- Hash functions: two contents have one hash iff they are equal (the 16k hash apart,
  which is modelled by `Start` and by the stale volumes of the decoder's runs).
- Names: `checkFilename`, encoding of strings, `filepath.Rel`; the only property that
  depends on them is that PAR1 refuses two files of one name.
- Flags, usage and messages of the command line, progress delegates, `memfs` (a
  stand-in for the disk in tests), `par2cmdline` (constants of exit codes).
- The fields of PAR1 volumes and the lengths of PAR2 packets, byte by byte: a volume or
  packet that its reader refuses is one value.
- The coder that PAR1 uses, a library.
- Numbers of slices and shards that leave 16 bits beyond what the coder refuses
  (`Oversized`), and lengths that exceed an integer.
- PAR1 volumes of one set hash that were computed from different files.
