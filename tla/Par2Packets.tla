------------------------------ MODULE Par2Packets ------------------------------
(***************************************************************************)
(* The packets of a PAR2 file (par2/file.go): what writeFile puts into a   *)
(* file and what readFile takes out of whatever a file holds.  A file is a *)
(* sequence of packets [set, type, body].  A packet whose header, length   *)
(* or hash is wrong, or that ends too early, is Broken.  The ID of a       *)
(* recovery set is the MD5 of its main packet, and stands for it here.     *)
(***************************************************************************)
EXTENDS Integers, Sequences, FiniteSets

CONSTANTS
  Broken,      \* a packet that readNextPacket fails on
  Malformed,   \* a body that the reader of its packet type fails on
  AnySet       \* the set ID to expect when none is known yet (nil)

-------------------------------------------------------------------------------
(* readFile *)

\* The packets that are read and not skipped: those of the expected set, or,
\* without one, those of the set of the first packet.
Mine(expected, packets) ==
  {k \in DOMAIN packets :
     /\ \A j \in 1 .. k : packets[j] # Broken
     /\ packets[k].set = IF expected = AnySet THEN packets[1].set ELSE expected}

OfType(expected, packets, type) ==
  {k \in Mine(expected, packets) : packets[k].type = type}

\* Two recovery packets with one exponent must have the same data.
Conflict(expected, packets) ==
  \E j, k \in OfType(expected, packets, "recovery") :
    /\ packets[j].body.exponent = packets[k].body.exponent
    /\ packets[j].body.data # packets[k].body.data

\* The error of readFile, or "ok".
ReadOutcome(expected, packets) ==
  IF \E k \in DOMAIN packets : packets[k] = Broken THEN "error"
  ELSE IF Mine(expected, packets) = {} THEN "noPackets"
  ELSE IF \E k \in Mine(expected, packets) : packets[k].body = Malformed THEN "error"
  ELSE IF Conflict(expected, packets) THEN "error"
  ELSE IF OfType(expected, packets, "creator") = {} THEN "noCreator"
  ELSE "ok"

\* The last packet of a type wins.
LastOf(positions) == CHOOSE k \in positions : \A j \in positions : j <= k

HasMain(expected, packets) == OfType(expected, packets, "main") # {}
MainOf(expected, packets) ==
  packets[LastOf(OfType(expected, packets, "main"))].body

\* The files that packets of a type are about, and the positions of those
\* packets.
IDsOf(expected, packets, type) ==
  {packets[k].body.id : k \in OfType(expected, packets, type)}
About(expected, packets, type, id) ==
  {k \in OfType(expected, packets, type) : packets[k].body.id = id}
DescriptionOf(expected, packets, id) ==
  packets[LastOf(About(expected, packets, "fileDesc", id))].body
ChecksumsOf(expected, packets, id) ==
  packets[LastOf(About(expected, packets, "ifsc", id))].body

\* The data of the recovery packets, by exponent.
Recovery(expected, packets) ==
  LET positions == OfType(expected, packets, "recovery")
  IN  [e \in {packets[k].body.exponent : k \in positions} |->
         packets[CHOOSE k \in positions : packets[k].body.exponent = e].body.data]

-------------------------------------------------------------------------------
(* writeFile *)

\* The packets of a file with main packet main: creator, main, description
\* and checksums of every file of the set, and the recovery packets in the
\* order of their exponents.
WriteFile(main, description, checksums, recovery) ==
  LET packet(type, body) == [set |-> main, type |-> type, body |-> body]
      fixed == 2 + 2 * Len(main.recoverySet)
      exponent(n) == CHOOSE e \in DOMAIN recovery :
                       Cardinality({x \in DOMAIN recovery : x < e}) = n
  IN  [k \in 1 .. fixed + Cardinality(DOMAIN recovery) |->
        IF k = 1 THEN packet("creator", [client |-> "gopar"])
        ELSE IF k = 2 THEN packet("main", main)
        ELSE IF k > fixed
          THEN LET e == exponent(k - fixed - 1)
               IN  packet("recovery", [exponent |-> e, data |-> recovery[e]])
        ELSE LET id == main.recoverySet[(k - 1) \div 2]
             IN  IF k % 2 = 1 THEN packet("fileDesc", description[id])
                              ELSE packet("ifsc", checksums[id])]

\* What a file may hold after a write of packets that failed: a part of them, or
\* all of them when it is Close that fails.
TornWrites(packets) ==
  {SubSeq(packets, 1, k) : k \in 0 .. Len(packets)}
    \cup {Append(SubSeq(packets, 1, k), Broken) : k \in 0 .. Len(packets) - 1}
===============================================================================
