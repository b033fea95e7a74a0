------------------------------- MODULE Par2Scan -------------------------------
(***************************************************************************)
(* fillShardInfos (par2/decoder.go): the search for known slices in the    *)
(* bytes of a file, one offset after another.  After a miss the CRC of the *)
(* next slice is rolled on from that of the last; after a hit it is        *)
(* computed afresh.  MD5 hashes are taken to tell all slices apart.        *)
(***************************************************************************)
EXTENDS Par2Slices, Crc32Window

CONSTANTS
  Files,        \* the files that are searched
  KnownSets     \* the sets of slices that are known

ASSUME FilesAssumption ==
  /\ Files \subseteq Seq(Byte)
  /\ KnownSets \subseteq SUBSET [1 .. SliceByteCount -> Byte]
  /\ SliceByteCount >= CrcBytes      \* otherwise newCRC32Window panics
  /\ ZeroByte = {}

VARIABLES
  data,         \* the bytes of the file
  known,        \* the slices in checksumToLocation
  j,            \* the offset that is next
  justMissed,   \* whether there was a miss before it
  crcSlice,     \* the CRC of the slice before it
  hits          \* the offsets of the hits: what is stored as locations

vars == <<data, known, j, justMissed, crcSlice, hits>>

Window == MaskedTable(SliceByteCount)

Init ==
  /\ data \in Files
  /\ known \in KnownSets
  /\ j = 0
  /\ justMissed = FALSE
  /\ crcSlice = {}
  /\ hits = {}

\* The CRC that is looked up for the slice at j.
CrcNext ==
  IF justMissed THEN Update(Window, crcSlice, data[j], Slice(data, j)[SliceByteCount])
                ELSE Checksum(Slice(data, j))

\* Mutation: only the CRC is looked at.
FoundByCrc(crc, slice) == {k \in known : Checksum(k) = crc}

\* checksumShardLocationMap.get: first by the CRC, then by the MD5 hash.
Found(crc, slice) == {k \in known : Checksum(k) = crc /\ k = slice}

Miss ==
  /\ j < Len(data)
  /\ Found(CrcNext, Slice(data, j)) = {}
  /\ crcSlice' = CrcNext
  /\ justMissed' = TRUE
  /\ j' = j + 1
  /\ UNCHANGED <<data, known, hits>>

Hit ==
  /\ j < Len(data)
  /\ Found(CrcNext, Slice(data, j)) # {}
  /\ crcSlice' = CrcNext
  /\ justMissed' = FALSE
  /\ j' = j + SliceByteCount
  /\ hits' = hits \cup {j}
  /\ UNCHANGED <<data, known>>

Next == Miss \/ Hit

Spec == Init /\ [][Next]_vars
-------------------------------------------------------------------------------
(* Properties. *)

\* The CRC that is rolled from offset to offset is the one computed afresh, up
\* to the last slices, which are padded.
RollsRight == justMissed => crcSlice = Checksum(Slice(data, j - 1))

\* The loop hits the offsets that the definition of the search says.
HitsAsDefined == j >= Len(data) => hits = ScanHits(data, known)
===============================================================================
