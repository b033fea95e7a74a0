------------------------------ MODULE Par2Reader ------------------------------
(***************************************************************************)
(* readFile (par2/file.go) as the loop it is: one packet per step, kept in *)
(* the maps and flags that are returned at the end.  Par2Packets says what *)
(* the result should be.                                                   *)
(***************************************************************************)
EXTENDS Par2Packets

CONSTANTS
  Packets,     \* the packets that files are made of
  MaxLength,   \* bound on the packets of a file
  None         \* nil: no main packet

Types == {"creator", "main", "fileDesc", "ifsc", "recovery", "unknown"}

ASSUME PacketsAssumption ==
  /\ Broken \in Packets
  /\ \A p \in Packets \ {Broken} :
       /\ DOMAIN p = {"set", "type", "body"}
       /\ p.set # AnySet
       /\ p.type \in Types
       /\ p.type \in {"creator", "unknown"} => p.body # Malformed
       /\ p.type = "main" => p.body # None
ASSUME MaxLengthAssumption == MaxLength \in Nat

VARIABLES
  expected,         \* the argument expectedSetID
  fileBytes,        \* the argument fileBytes: the packets of the file
  k,                \* number of packets that were read
  setID,            \* AnySet stands for hasSetID = FALSE
  foundPacket,
  foundClientID,
  mainPacket,
  descriptions,     \* fileDescriptionPackets
  checksums,        \* ifscPackets
  recovery,         \* recoveryPackets
  outcome           \* "reading" until readFile returns

arguments == <<expected, fileBytes>>
maps == <<descriptions, checksums, recovery>>
vars == <<arguments, k, setID, foundPacket, foundClientID, mainPacket, maps, outcome>>

NoPackets == [x \in {} |-> None]

Init ==
  /\ expected \in {AnySet} \cup {p.set : p \in Packets \ {Broken}}
  /\ fileBytes \in UNION {[1 .. n -> Packets] : n \in 0 .. MaxLength}
  /\ k = 0
  /\ setID = expected
  /\ foundPacket = FALSE
  /\ foundClientID = FALSE
  /\ mainPacket = None
  /\ descriptions = NoPackets
  /\ checksums = NoPackets
  /\ recovery = NoPackets
  /\ outcome = "reading"

More == outcome = "reading" /\ k < Len(fileBytes)
Packet == fileBytes[k + 1]

Fail ==
  /\ outcome' = "error"
  /\ UNCHANGED <<arguments, k, setID, foundPacket, foundClientID, mainPacket, maps>>

\* readNextPacket returns an error other than io.EOF.
ReadBroken ==
  /\ More
  /\ Packet = Broken
  /\ Fail

\* A packet of another set.
SkipOther ==
  /\ More
  /\ Packet # Broken
  /\ setID # AnySet /\ Packet.set # setID
  /\ k' = k + 1
  /\ UNCHANGED <<arguments, setID, foundPacket, foundClientID, mainPacket, maps, outcome>>

\* Mutation: packets of other sets are taken when no set is expected.
TakeAny(type) ==
  /\ More
  /\ Packet # Broken
  /\ setID \in {AnySet, Packet.set} \/ expected = AnySet
  /\ Packet.type = type

\* A packet of the set, which the first packet decides when none is expected.
Take(type) ==
  /\ More
  /\ Packet # Broken
  /\ setID \in {AnySet, Packet.set}
  /\ Packet.type = type

Taken ==
  /\ setID' = Packet.set
  /\ foundPacket' = TRUE
  /\ k' = k + 1
  /\ UNCHANGED <<arguments, outcome>>

ReadMalformed ==
  /\ \E type \in Types : Take(type)
  /\ Packet.body = Malformed
  /\ Fail

ReadCreator ==
  /\ Take("creator")
  /\ Taken
  /\ foundClientID' = TRUE
  /\ UNCHANGED <<mainPacket, maps>>

ReadMain ==
  /\ Take("main")
  /\ Packet.body # Malformed
  /\ Taken
  /\ mainPacket' = Packet.body
  /\ UNCHANGED <<foundClientID, maps>>

Put(map, key, value) == [x \in DOMAIN map \cup {key} |-> IF x = key THEN value ELSE map[x]]

ReadFileDescription ==
  /\ Take("fileDesc")
  /\ Packet.body # Malformed
  /\ Taken
  /\ descriptions' = Put(descriptions, Packet.body.id, Packet.body)
  /\ UNCHANGED <<foundClientID, mainPacket, checksums, recovery>>

ReadIFSC ==
  /\ Take("ifsc")
  /\ Packet.body # Malformed
  /\ Taken
  /\ checksums' = Put(checksums, Packet.body.id, Packet.body)
  /\ UNCHANGED <<foundClientID, mainPacket, descriptions, recovery>>

Duplicate ==
  /\ Packet.body.exponent \in DOMAIN recovery
  /\ recovery[Packet.body.exponent] # Packet.body.data

\* Mutation: a duplicate exponent replaces what was read before.
ReadRecoveryAnyway ==
  /\ Take("recovery")
  /\ Packet.body # Malformed
  /\ Taken
  /\ recovery' = Put(recovery, Packet.body.exponent, Packet.body.data)
  /\ UNCHANGED <<foundClientID, mainPacket, descriptions, checksums>>

ReadRecovery ==
  /\ Take("recovery")
  /\ Packet.body # Malformed
  /\ ~Duplicate
  /\ Taken
  /\ recovery' = Put(recovery, Packet.body.exponent, Packet.body.data)
  /\ UNCHANGED <<foundClientID, mainPacket, descriptions, checksums>>

ReadDuplicate ==
  /\ Take("recovery")
  /\ Packet.body # Malformed
  /\ Duplicate
  /\ Fail

ReadUnknown ==
  /\ Take("unknown")
  /\ Taken
  /\ UNCHANGED <<foundClientID, mainPacket, maps>>

\* Mutation: a file without a creator packet is taken for a whole one.
ReturnFileWithoutCreator ==
  /\ outcome = "reading"
  /\ k = Len(fileBytes)
  /\ outcome' = IF ~foundPacket THEN "noPackets" ELSE "ok"
  /\ UNCHANGED <<arguments, k, setID, foundPacket, foundClientID, mainPacket, maps>>

ReturnFile ==
  /\ outcome = "reading"
  /\ k = Len(fileBytes)
  /\ outcome' = IF ~foundPacket THEN "noPackets"
                ELSE IF ~foundClientID THEN "noCreator"
                ELSE "ok"
  /\ UNCHANGED <<arguments, k, setID, foundPacket, foundClientID, mainPacket, maps>>

Next ==
  \/ ReadBroken \/ SkipOther \/ ReadMalformed
  \/ ReadCreator \/ ReadMain \/ ReadFileDescription \/ ReadIFSC
  \/ ReadRecovery \/ ReadDuplicate \/ ReadUnknown
  \/ ReturnFile

Spec == Init /\ [][Next]_vars
-------------------------------------------------------------------------------
(* Properties. *)

MainPackets == {p.body : p \in {q \in Packets \ {Broken} : q.type = "main"}} \ {Malformed}

\* The maps are keyed by what their packets are about.
TypeOK ==
  /\ fileBytes \in UNION {[1 .. n -> Packets] : n \in 0 .. MaxLength}
  /\ k \in 0 .. Len(fileBytes)
  /\ setID \in {AnySet} \cup {p.set : p \in Packets \ {Broken}}
  /\ foundPacket \in BOOLEAN
  /\ foundClientID \in BOOLEAN
  /\ mainPacket \in MainPackets \cup {None}
  /\ \A id \in DOMAIN descriptions : descriptions[id].id = id
  /\ \A id \in DOMAIN checksums : checksums[id].id = id
  /\ outcome \in {"reading", "error", "noPackets", "noCreator", "ok"}

\* What was read so far: the flags and maps say of the first k packets what
\* Par2Packets says of a whole file.
Before(type) == {j \in OfType(expected, fileBytes, type) : j <= k}

LatestByID(map, type) ==
  map = [id \in {fileBytes[j].body.id : j \in Before(type)} |->
           fileBytes[LastOf({j \in Before(type) : fileBytes[j].body.id = id})].body]

SoFar ==
  /\ \A j \in 1 .. k : fileBytes[j] # Broken
  /\ setID = IF expected = AnySet /\ k > 0 THEN fileBytes[1].set ELSE expected
  /\ foundPacket = (\E j \in Mine(expected, fileBytes) : j <= k)
  /\ \A j \in Mine(expected, fileBytes) : j <= k => fileBytes[j].body # Malformed
  /\ foundClientID = (Before("creator") # {})
  /\ mainPacket = IF Before("main") = {} THEN None
                  ELSE fileBytes[LastOf(Before("main"))].body
  /\ LatestByID(descriptions, "fileDesc")
  /\ LatestByID(checksums, "ifsc")
  /\ recovery = [e \in {fileBytes[j].body.exponent : j \in Before("recovery")} |-> recovery[e]]
  /\ \A j \in Before("recovery") :
       recovery[fileBytes[j].body.exponent] = fileBytes[j].body.data

IndInv == outcome = "reading" => SoFar

\* The loop returns what Par2Packets says of the file as a whole, whatever the
\* order of its packets and however sets are mixed in it.
ReadsAsDefined ==
  outcome # "reading" =>
    /\ outcome = ReadOutcome(expected, fileBytes)
    /\ outcome = "ok" =>
         /\ mainPacket = IF HasMain(expected, fileBytes)
                         THEN MainOf(expected, fileBytes) ELSE None
         /\ descriptions = [id \in IDsOf(expected, fileBytes, "fileDesc") |->
                              DescriptionOf(expected, fileBytes, id)]
         /\ checksums = [id \in IDsOf(expected, fileBytes, "ifsc") |->
                           ChecksumsOf(expected, fileBytes, id)]
         /\ recovery = Recovery(expected, fileBytes)
===============================================================================
