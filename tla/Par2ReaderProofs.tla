--------------------------- MODULE Par2ReaderProofs ---------------------------
(***************************************************************************)
(* Proofs about Par2Reader: what the loop of readFile has gathered after k *)
(* packets is what Par2Packets says of the first k packets, and so what it *)
(* returns is what Par2Packets says of the file.                           *)
(***************************************************************************)
EXTENDS Par2Reader, SequenceTheorems, TLAPS

\* A file is a sequence of packets.
LEMMA FileIsSequence ==
  ASSUME TypeOK
  PROVE  /\ Len(fileBytes) \in Nat
         /\ DOMAIN fileBytes = 1 .. Len(fileBytes)
         /\ \A j \in 1 .. Len(fileBytes) : fileBytes[j] \in Packets
         /\ k \in Nat /\ k <= Len(fileBytes)
<1>1. PICK n \in 0 .. MaxLength : fileBytes \in [1 .. n -> Packets]
  BY DEF TypeOK
<1>2. n \in Nat
  BY MaxLengthAssumption
<1>3. fileBytes \in Seq(Packets)
  BY <1>1, <1>2, SeqDef
<1>4. Len(fileBytes) \in Nat /\ DOMAIN fileBytes = 1 .. Len(fileBytes)
  BY <1>3, LenProperties
<1>5. 1 .. n = DOMAIN fileBytes
  BY <1>1
<1>6. \A j \in 1 .. Len(fileBytes) : fileBytes[j] \in Packets
  BY <1>1, <1>4, <1>5
<1>7. k \in 0 .. Len(fileBytes)
  BY DEF TypeOK
<1> QED
  BY <1>4, <1>6, <1>7

-------------------------------------------------------------------------------
(* The last position of a set. *)

LEMMA LastIsNew ==
  ASSUME NEW n \in Nat, NEW S, S \subseteq 1 .. n
  PROVE  LastOf(S \cup {n + 1}) = n + 1
<1> DEFINE T == S \cup {n + 1}
<1>1. \A j \in T : j \in Nat /\ j <= n + 1
  OBVIOUS
<1>2. n + 1 \in T /\ \A j \in T : j <= n + 1
  BY <1>1
<1>3. \A m \in T : (\A j \in T : j <= m) => m = n + 1
  BY <1>1, <1>2
<1> QED
  BY <1>2, <1>3 DEF LastOf

\* The packets at positions S, as a map by ID in which the last one wins.
Latest(file, S) ==
  [id \in {file[j].body.id : j \in S} |->
     file[LastOf({j \in S : file[j].body.id = id})].body]

\* Adding to the map is what one more position does.
LEMMA PutLatest ==
  ASSUME NEW file, NEW n \in Nat, NEW S, S \subseteq 1 .. n
  PROVE  Latest(file, S \cup {n + 1})
           = Put(Latest(file, S), file[n + 1].body.id, file[n + 1].body)
<1> DEFINE new == file[n + 1].body.id
           T == S \cup {n + 1}
           At(U, id) == {j \in U : file[j].body.id = id}
           IDs(U) == {file[j].body.id : j \in U}
<1>1. IDs(T) = IDs(S) \cup {new}
  OBVIOUS
<1>2. At(T, new) = At(S, new) \cup {n + 1}
  OBVIOUS
<1>3. LastOf(At(T, new)) = n + 1
  <2>1. At(S, new) \subseteq 1 .. n
    OBVIOUS
  <2> QED
    BY <1>2, <2>1, LastIsNew
<1>4. \A id \in IDs(S) \ {new} : At(T, id) = At(S, id)
  OBVIOUS
<1>5. DOMAIN Latest(file, S) = IDs(S)
  BY DEF Latest
<1>6. \A id \in IDs(S) : Latest(file, S)[id] = file[LastOf(At(S, id))].body
  BY DEF Latest
<1>7. Latest(file, T) = [id \in IDs(T) |-> file[LastOf(At(T, id))].body]
  BY DEF Latest
<1> HIDE DEF IDs, At, T, new
<1>8. \A id \in IDs(T) :
        file[LastOf(At(T, id))].body
          = IF id = new THEN file[n + 1].body ELSE Latest(file, S)[id]
  BY <1>1, <1>3, <1>4, <1>6
<1>9. Put(Latest(file, S), new, file[n + 1].body)
        = [id \in IDs(T) |-> IF id = new THEN file[n + 1].body ELSE Latest(file, S)[id]]
  BY <1>1, <1>5 DEF Put
<1>10. Latest(file, T) = Put(Latest(file, S), new, file[n + 1].body)
  BY <1>7, <1>8, <1>9
<1> QED
  BY <1>10 DEF new, T

-------------------------------------------------------------------------------
(* The next packet. *)

\* The ID that readFile compares with tells the packets of the set from others.
LEMMA SetMatches ==
  ASSUME TypeOK, SoFar, More, Packet # Broken
  PROVE  /\ Packet \in Packets \ {Broken}
         /\ Packet.set # AnySet
         /\ k + 1 \in Mine(expected, fileBytes) <=> setID \in {AnySet, Packet.set}
         /\ setID \in {AnySet, Packet.set} =>
              Packet.set = IF expected = AnySet THEN fileBytes[1].set ELSE expected
         /\ setID \notin {AnySet, Packet.set} =>
              setID = IF expected = AnySet THEN fileBytes[1].set ELSE expected
<1>1. /\ k \in Nat
      /\ k + 1 \in DOMAIN fileBytes
      /\ k + 1 \in 1 .. Len(fileBytes)
      /\ \A j \in 1 .. Len(fileBytes) : fileBytes[j] \in Packets
      /\ k > 0 => 1 \in 1 .. Len(fileBytes) /\ 1 \in 1 .. k
  BY FileIsSequence DEF More
<1>2. Packet \in Packets \ {Broken}
  BY <1>1 DEF Packet
<1>3. Packet.set # AnySet
  BY <1>2, PacketsAssumption
<1>4. \A j \in 1 .. k + 1 : fileBytes[j] # Broken
  <2>1. \A j \in 1 .. k : fileBytes[j] # Broken
    BY DEF SoFar
  <2>2. fileBytes[k + 1] # Broken
    BY DEF Packet
  <2>3. \A j \in 1 .. k + 1 : j \in 1 .. k \/ j = k + 1
    BY <1>1
  <2> QED
    BY <2>1, <2>2, <2>3
<1>5. k + 1 \in Mine(expected, fileBytes)
        <=> Packet.set = IF expected = AnySet THEN fileBytes[1].set ELSE expected
  BY <1>1, <1>4 DEF Mine, Packet
<1>6. setID = IF expected = AnySet /\ k > 0 THEN fileBytes[1].set ELSE expected
  BY DEF SoFar
<1>7. CASE expected # AnySet
  BY <1>2, <1>3, <1>5, <1>6, <1>7
<1>8. CASE expected = AnySet /\ k > 0
  <2>1. fileBytes[1] \in Packets \ {Broken}
    BY <1>1, <1>4, <1>8
  <2>2. fileBytes[1].set # AnySet
    BY <2>1, PacketsAssumption
  <2> QED
    BY <1>2, <1>3, <1>5, <1>6, <1>8, <2>2
<1>9. CASE expected = AnySet /\ ~(k > 0)
  <2>1. k = 0
    BY <1>1, <1>9
  <2>2. Packet = fileBytes[1]
    BY <2>1 DEF Packet
  <2> QED
    BY <1>2, <1>3, <1>5, <1>6, <1>9, <2>2
<1> QED
  BY <1>7, <1>8, <1>9

\* What one more packet does to the positions that were read.
LEMMA BeforeGrows ==
  ASSUME TypeOK, UNCHANGED arguments, k' = k + 1, NEW type
  PROVE  /\ Before(type) \subseteq 1 .. k
         /\ k + 1 \in OfType(expected, fileBytes, type) => Before(type)' = Before(type) \cup {k + 1}
         /\ k + 1 \notin OfType(expected, fileBytes, type) => Before(type)' = Before(type)
<1>1. k \in Nat /\ DOMAIN fileBytes = 1 .. Len(fileBytes) /\ Len(fileBytes) \in Nat
  BY FileIsSequence
<1>2. OfType(expected, fileBytes, type) \subseteq 1 .. Len(fileBytes)
  BY <1>1 DEF OfType, Mine
<1>3. expected' = expected /\ fileBytes' = fileBytes
  BY DEF arguments
<1>4. Before(type)' = {j \in OfType(expected, fileBytes, type) : j <= k + 1}
  BY <1>3 DEF Before
<1>5. \A j \in OfType(expected, fileBytes, type) : j <= k + 1 <=> j <= k \/ j = k + 1
  BY <1>1, <1>2
<1>6. Before(type)' = {j \in OfType(expected, fileBytes, type) : j <= k \/ j = k + 1}
  BY <1>4, <1>5
<1>7. Before(type) \subseteq 1 .. k
  BY <1>1, <1>2 DEF Before
<1> QED
  BY <1>6, <1>7 DEF Before

\* A packet that was read without an error leaves no broken packet behind.
LEMMA StillUnbroken ==
  ASSUME TypeOK, SoFar, Packet # Broken, UNCHANGED fileBytes, k' = k + 1
  PROVE  \A j \in 1 .. k' : fileBytes'[j] # Broken
<1>1. k \in Nat
  BY FileIsSequence
<1>2. \A j \in 1 .. k + 1 : j \in 1 .. k \/ j = k + 1
  BY <1>1
<1> QED
  BY <1>2 DEF SoFar, Packet

\* What the types of packets have in common.
LEMMA TakenKeeps ==
  ASSUME TypeOK, SoFar, NEW type, Take(type), Taken, Packet.body # Malformed
  PROVE  /\ Packet \in Packets \ {Broken}
         /\ k + 1 \in OfType(expected, fileBytes, type)
         /\ \A j \in 1 .. k' : fileBytes'[j] # Broken
         /\ setID' = IF expected' = AnySet /\ k' > 0 THEN fileBytes'[1].set ELSE expected'
         /\ foundPacket' = (\E j \in Mine(expected', fileBytes') : j <= k')
         /\ \A j \in Mine(expected', fileBytes') : j <= k' => fileBytes'[j].body # Malformed
         /\ Before(type) \subseteq 1 .. k
         /\ Before(type)' = Before(type) \cup {k + 1}
         /\ \A other : other # type => Before(other)' = Before(other)
<1>1. /\ More /\ Packet # Broken /\ setID \in {AnySet, Packet.set} /\ Packet.type = type
      /\ setID' = Packet.set /\ foundPacket' = TRUE /\ k' = k + 1
      /\ UNCHANGED arguments /\ expected' = expected /\ fileBytes' = fileBytes
  BY DEF Take, Taken, arguments
<1>2. k \in Nat /\ DOMAIN fileBytes = 1 .. Len(fileBytes) /\ Len(fileBytes) \in Nat
  BY FileIsSequence
<1>3. /\ Packet \in Packets \ {Broken}
      /\ k + 1 \in Mine(expected, fileBytes)
      /\ Packet.set = IF expected = AnySet THEN fileBytes[1].set ELSE expected
  BY <1>1, SetMatches
<1>4. k + 1 \in OfType(expected, fileBytes, type)
  BY <1>1, <1>3 DEF OfType, Packet
<1>5. \A j \in 1 .. k' : fileBytes'[j] # Broken
  BY <1>1, StillUnbroken
<1>6. setID' = IF expected' = AnySet /\ k' > 0 THEN fileBytes'[1].set ELSE expected'
  BY <1>1, <1>2, <1>3
<1>7. foundPacket' = (\E j \in Mine(expected', fileBytes') : j <= k')
  BY <1>1, <1>2, <1>3
<1>8. \A j \in Mine(expected', fileBytes') : j <= k' => fileBytes'[j].body # Malformed
  <2> SUFFICES ASSUME NEW j \in Mine(expected, fileBytes), j <= k + 1
               PROVE  fileBytes[j].body # Malformed
    BY <1>1
  <2>1. j \in Nat
    BY <1>2 DEF Mine
  <2>2. CASE j <= k
    BY <2>2 DEF SoFar
  <2>3. CASE j = k + 1
    BY <2>3 DEF Packet
  <2> QED
    BY <1>2, <2>1, <2>2, <2>3
<1>9. Before(type) \subseteq 1 .. k /\ Before(type)' = Before(type) \cup {k + 1}
  BY <1>1, <1>4, BeforeGrows
<1>10. ASSUME NEW other, other # type
       PROVE  Before(other)' = Before(other)
  <2>1. k + 1 \notin OfType(expected, fileBytes, other)
    BY <1>1, <1>10 DEF OfType, Packet
  <2> QED
    BY <1>1, <2>1, BeforeGrows
<1> QED
  BY <1>3, <1>4, <1>5, <1>6, <1>7, <1>8, <1>9, <1>10

-------------------------------------------------------------------------------
(* The steps of the loop.  A packet disturbs the part of SoFar for its type. *)

\* What SoFar says of the maps and flags that only some packets change.
CreatorSoFar   == foundClientID = (Before("creator") # {})
MainSoFar      == mainPacket = IF Before("main") = {} THEN None
                               ELSE fileBytes[LastOf(Before("main"))].body
RecoverySoFar ==
  /\ recovery = [e \in {fileBytes[j].body.exponent : j \in Before("recovery")} |-> recovery[e]]
  /\ \A j \in Before("recovery") :
       recovery[fileBytes[j].body.exponent] = fileBytes[j].body.data
MapsSoFar ==
  /\ CreatorSoFar
  /\ MainSoFar
  /\ LatestByID(descriptions, "fileDesc")
  /\ LatestByID(checksums, "ifsc")
  /\ RecoverySoFar

LEMMA SoFarIsMaps ==
  SoFar <=>
    /\ \A j \in 1 .. k : fileBytes[j] # Broken
    /\ setID = IF expected = AnySet /\ k > 0 THEN fileBytes[1].set ELSE expected
    /\ foundPacket = (\E j \in Mine(expected, fileBytes) : j <= k)
    /\ \A j \in Mine(expected, fileBytes) : j <= k => fileBytes[j].body # Malformed
    /\ MapsSoFar
  BY DEF SoFar, MapsSoFar, CreatorSoFar, MainSoFar, RecoverySoFar

\* LatestByID in terms of what it depends on.
LEMMA LatestFacts ==
  /\ LatestByID(descriptions, "fileDesc") <=> descriptions = Latest(fileBytes, Before("fileDesc"))
  /\ LatestByID(checksums, "ifsc") <=> checksums = Latest(fileBytes, Before("ifsc"))
BY DEF LatestByID, Latest

\* A part of SoFar stays when nothing of its type was read.
LEMMA OthersStay ==
  ASSUME SoFar, UNCHANGED fileBytes
  PROVE  /\ UNCHANGED foundClientID /\ Before("creator")' = Before("creator") => CreatorSoFar'
         /\ UNCHANGED mainPacket /\ Before("main")' = Before("main") => MainSoFar'
         /\ UNCHANGED descriptions /\ Before("fileDesc")' = Before("fileDesc")
              => LatestByID(descriptions, "fileDesc")'
         /\ UNCHANGED checksums /\ Before("ifsc")' = Before("ifsc")
              => LatestByID(checksums, "ifsc")'
         /\ UNCHANGED recovery /\ Before("recovery")' = Before("recovery") => RecoverySoFar'
<1>1. MapsSoFar
  BY SoFarIsMaps
<1>2. UNCHANGED foundClientID /\ Before("creator")' = Before("creator") => CreatorSoFar'
  BY <1>1 DEF MapsSoFar, CreatorSoFar
<1>3. UNCHANGED mainPacket /\ Before("main")' = Before("main") => MainSoFar'
  BY <1>1 DEF MapsSoFar, MainSoFar
<1>a. /\ descriptions = Latest(fileBytes, Before("fileDesc"))
      /\ checksums = Latest(fileBytes, Before("ifsc"))
  BY <1>1, LatestFacts DEF MapsSoFar
<1>b. /\ LatestByID(descriptions, "fileDesc")' <=>
            descriptions' = Latest(fileBytes', Before("fileDesc")')
      /\ LatestByID(checksums, "ifsc")' <=> checksums' = Latest(fileBytes', Before("ifsc")')
  BY DEF LatestByID, Latest
<1>4. UNCHANGED descriptions /\ Before("fileDesc")' = Before("fileDesc")
        => LatestByID(descriptions, "fileDesc")'
  <2>1. Before("fileDesc")' = Before("fileDesc") =>
          Latest(fileBytes', Before("fileDesc")') = Latest(fileBytes, Before("fileDesc"))
    OBVIOUS
  <2>2. QED BY <1>a, <1>b, <2>1
<1>5. UNCHANGED checksums /\ Before("ifsc")' = Before("ifsc") => LatestByID(checksums, "ifsc")'
  <2>1. Before("ifsc")' = Before("ifsc") =>
          Latest(fileBytes', Before("ifsc")') = Latest(fileBytes, Before("ifsc"))
    OBVIOUS
  <2>2. QED BY <1>a, <1>b, <2>1
<1>6. UNCHANGED recovery /\ Before("recovery")' = Before("recovery") => RecoverySoFar'
  <2> DEFINE Holds(map, bytes, before) ==
               /\ map = [e \in {bytes[j].body.exponent : j \in before} |-> map[e]]
               /\ \A j \in before : map[bytes[j].body.exponent] = bytes[j].body.data
  <2>1. Holds(recovery, fileBytes, Before("recovery"))
    BY <1>1 DEF MapsSoFar, RecoverySoFar
  <2>2. Holds(recovery', fileBytes', Before("recovery")') => RecoverySoFar'
    BY DEF RecoverySoFar
  <2> HIDE DEF Holds
  <2>3. recovery' = recovery /\ fileBytes' = fileBytes /\ Before("recovery")' = Before("recovery")
          => Holds(recovery', fileBytes', Before("recovery")')
    BY <2>1
  <2>4. QED BY <2>2, <2>3
<1> QED
  BY <1>2, <1>3, <1>4, <1>5, <1>6

\* A map by ID after one more packet for it.
LEMMA LatestGrows ==
  ASSUME TypeOK, NEW map, NEW type, LatestByID(map, type), Before(type) \subseteq 1 .. k
  PROVE  Put(map, Packet.body.id, Packet.body) = Latest(fileBytes, Before(type) \cup {k + 1})
<1>1. k \in Nat
  BY FileIsSequence
<1>2. map = Latest(fileBytes, Before(type))
  BY DEF LatestByID, Latest
<1> QED
  BY <1>1, <1>2, PutLatest DEF Packet

LEMMA SoFarSkips ==
  ASSUME TypeOK, SoFar, SkipOther
  PROVE  SoFar'
<1>1. /\ More /\ Packet # Broken /\ k' = k + 1 /\ setID \notin {AnySet, Packet.set}
      /\ UNCHANGED arguments /\ fileBytes' = fileBytes /\ expected' = expected /\ setID' = setID
      /\ UNCHANGED <<foundPacket, foundClientID, mainPacket, descriptions, checksums, recovery>>
  BY DEF SkipOther, arguments, maps
<1>2. k \in Nat /\ DOMAIN fileBytes = 1 .. Len(fileBytes) /\ Len(fileBytes) \in Nat
  BY FileIsSequence
<1>3. k + 1 \notin Mine(expected, fileBytes)
  BY <1>1, SetMatches
<1>4. setID = IF expected = AnySet THEN fileBytes[1].set ELSE expected
  BY <1>1, SetMatches
<1>5. \A type : Before(type)' = Before(type)
  BY <1>1, <1>3, BeforeGrows DEF OfType
<1>6. \A j \in Mine(expected, fileBytes) : j <= k + 1 <=> j <= k
  BY <1>2, <1>3 DEF Mine
<1>7. \A j \in 1 .. k' : fileBytes'[j] # Broken
  BY <1>1, StillUnbroken
<1>8. setID' = IF expected' = AnySet /\ k' > 0 THEN fileBytes'[1].set ELSE expected'
  BY <1>1, <1>2, <1>4
<1>9. foundPacket' = (\E j \in Mine(expected', fileBytes') : j <= k')
  BY <1>1, <1>6 DEF SoFar
<1>10. \A j \in Mine(expected', fileBytes') : j <= k' => fileBytes'[j].body # Malformed
  BY <1>1, <1>6 DEF SoFar
<1>11. MapsSoFar'
  BY <1>1, <1>5, OthersStay DEF MapsSoFar
<1> QED
  BY <1>7, <1>8, <1>9, <1>10, <1>11 DEF SoFar, MapsSoFar, CreatorSoFar, MainSoFar, RecoverySoFar

\* For the packets that are taken it remains to look at the maps.
LEMMA SoFarTakes ==
  ASSUME TypeOK, SoFar, NEW type, Take(type), Taken, Packet.body # Malformed, MapsSoFar'
  PROVE  SoFar'
  BY TakenKeeps DEF SoFar, MapsSoFar, CreatorSoFar, MainSoFar, RecoverySoFar

LEMMA SoFarStep ==
  ASSUME TypeOK, IndInv, Next, outcome' = "reading"
  PROVE  IndInv'
<1> USE DEF IndInv
<1>1. ASSUME SkipOther PROVE SoFar'
  BY <1>1, SoFarSkips DEF SkipOther, More
<1>2. ASSUME ReadCreator PROVE SoFar'
  <2>1. Take("creator") /\ Taken /\ SoFar
    BY <1>2 DEF ReadCreator, Take, More
  <2>2. Packet \in Packets \ {Broken} /\ Packet.type = "creator"
    BY <2>1, SetMatches DEF Take
  <2>3. Packet.body # Malformed
    BY <2>2, PacketsAssumption
  <2>4. Before("creator")' # {}
    BY <2>1, <2>3, TakenKeeps
  <2>5. CreatorSoFar'
    BY <1>2, <2>4 DEF CreatorSoFar, ReadCreator
  <2>6. MapsSoFar'
    BY <1>2, <2>1, <2>3, <2>5, TakenKeeps, OthersStay DEF MapsSoFar, ReadCreator, maps, Taken, arguments
  <2> QED
    BY <2>1, <2>3, <2>6, SoFarTakes
<1>3. ASSUME ReadMain PROVE SoFar'
  <2>1. Take("main") /\ Taken /\ SoFar /\ Packet.body # Malformed /\ k \in Nat
    BY <1>3, FileIsSequence DEF ReadMain, Take, More
  <2>2. /\ Before("main")' = Before("main") \cup {k + 1}
        /\ Before("main") \subseteq 1 .. k
    BY <2>1, TakenKeeps
  <2>3. LastOf(Before("main")') = k + 1 /\ Before("main")' # {}
    BY <2>1, <2>2, LastIsNew
  <2>4. MainSoFar'
    BY <1>3, <2>1, <2>3 DEF MainSoFar, ReadMain, Packet, Taken, arguments
  <2>5. MapsSoFar'
    BY <1>3, <2>1, <2>4, TakenKeeps, OthersStay DEF MapsSoFar, ReadMain, maps, Taken, arguments
  <2> QED
    BY <2>1, <2>5, SoFarTakes
<1>4. ASSUME ReadFileDescription PROVE SoFar'
  <2>1. Take("fileDesc") /\ Taken /\ SoFar /\ Packet.body # Malformed
    BY <1>4 DEF ReadFileDescription, Take, More
  <2>2. /\ Before("fileDesc")' = Before("fileDesc") \cup {k + 1}
        /\ Before("fileDesc") \subseteq 1 .. k
    BY <2>1, TakenKeeps
  <2>3. LatestByID(descriptions, "fileDesc")
    BY <2>1 DEF SoFar
  <2>4. descriptions' = Latest(fileBytes, Before("fileDesc")')
    BY <1>4, <2>2, <2>3, LatestGrows DEF ReadFileDescription
  <2>5. LatestByID(descriptions, "fileDesc")'
    BY <2>1, <2>4 DEF LatestByID, Latest, Taken, arguments
  <2>6. MapsSoFar'
    BY <1>4, <2>1, <2>5, TakenKeeps, OthersStay DEF MapsSoFar, ReadFileDescription, Taken, arguments
  <2> QED
    BY <2>1, <2>6, SoFarTakes
<1>5. ASSUME ReadIFSC PROVE SoFar'
  <2>1. Take("ifsc") /\ Taken /\ SoFar /\ Packet.body # Malformed
    BY <1>5 DEF ReadIFSC, Take, More
  <2>2. /\ Before("ifsc")' = Before("ifsc") \cup {k + 1}
        /\ Before("ifsc") \subseteq 1 .. k
    BY <2>1, TakenKeeps
  <2>3. LatestByID(checksums, "ifsc")
    BY <2>1 DEF SoFar
  <2>4. checksums' = Latest(fileBytes, Before("ifsc")')
    BY <1>5, <2>2, <2>3, LatestGrows DEF ReadIFSC
  <2>5. LatestByID(checksums, "ifsc")'
    BY <2>1, <2>4 DEF LatestByID, Latest, Taken, arguments
  <2>6. MapsSoFar'
    BY <1>5, <2>1, <2>5, TakenKeeps, OthersStay DEF MapsSoFar, ReadIFSC, Taken, arguments
  <2> QED
    BY <2>1, <2>6, SoFarTakes
<1>6. ASSUME ReadRecovery PROVE SoFar'
  <2>1. /\ Take("recovery") /\ Taken /\ SoFar /\ Packet.body # Malformed
        /\ fileBytes' = fileBytes
    BY <1>6 DEF ReadRecovery, Take, More, Taken, arguments
  <2>2. Before("recovery")' = Before("recovery") \cup {k + 1}
    BY <2>1, TakenKeeps
  <2> DEFINE e0 == Packet.body.exponent
             d0 == Packet.body.data
             exponents == {fileBytes[j].body.exponent : j \in Before("recovery")}
  <2>3. /\ recovery = [e \in exponents |-> recovery[e]]
        /\ \A j \in Before("recovery") :
             recovery[fileBytes[j].body.exponent] = fileBytes[j].body.data
    BY <2>1 DEF SoFar
  <2>4. DOMAIN recovery = exponents
    BY <2>3
  <2>5. e0 \in DOMAIN recovery => recovery[e0] = d0
    BY <1>6 DEF ReadRecovery, Duplicate
  <2>6. recovery' = [e \in exponents \cup {e0} |-> IF e = e0 THEN d0 ELSE recovery[e]]
    BY <1>6, <2>4 DEF ReadRecovery, Put
  <2>7. {fileBytes'[j].body.exponent : j \in Before("recovery")'} = exponents \cup {e0}
    BY <2>1, <2>2 DEF Packet
  <2>8. ASSUME NEW j \in Before("recovery")'
        PROVE  recovery'[fileBytes'[j].body.exponent] = fileBytes'[j].body.data
    <3>1. CASE j \in Before("recovery")
      BY <2>1, <2>3, <2>4, <2>5, <2>6, <3>1
    <3>2. CASE j = k + 1
      BY <2>1, <2>6, <3>2 DEF Packet
    <3> QED
      BY <2>2, <2>8, <3>1, <3>2
  <2>9. RecoverySoFar'
    BY <2>6, <2>7, <2>8 DEF RecoverySoFar
  <2>10. MapsSoFar'
    BY <1>6, <2>1, <2>9, TakenKeeps, OthersStay DEF MapsSoFar, ReadRecovery
  <2> QED
    BY <2>1, <2>10, SoFarTakes
<1>7. ASSUME ReadUnknown PROVE SoFar'
  <2>1. Take("unknown") /\ Taken /\ SoFar
    BY <1>7 DEF ReadUnknown, Take, More
  <2>2. Packet \in Packets \ {Broken} /\ Packet.type = "unknown"
    BY <2>1, SetMatches DEF Take
  <2>3. Packet.body # Malformed
    BY <2>2, PacketsAssumption
  <2>4. MapsSoFar'
    BY <1>7, <2>1, <2>3, TakenKeeps, OthersStay DEF MapsSoFar, ReadUnknown, maps, Taken, arguments
  <2> QED
    BY <2>1, <2>3, <2>4, SoFarTakes
<1>8. ~ReadBroken /\ ~ReadMalformed /\ ~ReadDuplicate /\ ~ReturnFile
  BY DEF ReadBroken, ReadMalformed, ReadDuplicate, Fail, ReturnFile
<1> QED
  BY <1>1, <1>2, <1>3, <1>4, <1>5, <1>6, <1>7, <1>8 DEF Next

\* The arguments are kept, and a call that has returned does nothing more.
LEMMA TypeStep ==
  ASSUME TypeOK, IndInv, [Next]_vars
  PROVE  TypeOK'
<1>1. CASE UNCHANGED vars
  BY <1>1 DEF TypeOK, vars, arguments, maps
<1>2. ASSUME Next PROVE outcome = "reading" /\ SoFar /\ UNCHANGED arguments
  BY <1>2 DEF Next, ReadBroken, SkipOther, ReadMalformed, ReadCreator, ReadMain, ReadFileDescription,
     ReadIFSC, ReadRecovery, ReadDuplicate, ReadUnknown, ReturnFile, Fail, Taken, Take, More, IndInv
<1>3. ASSUME NEW type, Take(type), Taken, SoFar
      PROVE  /\ Packet \in Packets \ {Broken} /\ Packet.type = type
             /\ k' \in 0 .. Len(fileBytes')
             /\ fileBytes' = fileBytes
             /\ setID' \in {AnySet} \cup {p.set : p \in Packets \ {Broken}}
             /\ foundPacket' \in BOOLEAN
             /\ outcome' = outcome
  <2>1. Packet \in Packets \ {Broken}
    BY <1>3, SetMatches DEF Take
  <2> QED
    BY <1>3, <2>1, FileIsSequence DEF Take, Taken, More, arguments
<1>4. ASSUME Fail \/ ReturnFile PROVE TypeOK'
  BY <1>4 DEF TypeOK, Fail, ReturnFile, arguments, maps
<1>5. ASSUME SkipOther PROVE TypeOK'
  <2>1. k' \in 0 .. Len(fileBytes)
    BY <1>5, FileIsSequence DEF SkipOther, More
  <2> QED
    BY <1>5, <2>1 DEF TypeOK, SkipOther, arguments, maps
<1>6. ASSUME NEW map, \A id \in DOMAIN map : map[id].id = id
      PROVE  \A id \in DOMAIN Put(map, Packet.body.id, Packet.body) :
               Put(map, Packet.body.id, Packet.body)[id].id = id
  BY <1>6 DEF Put
<1>7. ASSUME ReadCreator PROVE TypeOK'
  BY <1>2, <1>3, <1>7 DEF TypeOK, ReadCreator, maps, Next
<1>8. ASSUME ReadMain PROVE TypeOK'
  <2>1. mainPacket' \in MainPackets
    BY <1>2, <1>3, <1>8 DEF ReadMain, MainPackets, Next
  <2> QED
    BY <1>2, <1>3, <1>8, <2>1 DEF TypeOK, ReadMain, maps, Next
<1>9. ASSUME ReadFileDescription PROVE TypeOK'
  BY <1>2, <1>3, <1>6, <1>9 DEF TypeOK, ReadFileDescription, Next
<1>10. ASSUME ReadIFSC PROVE TypeOK'
  BY <1>2, <1>3, <1>6, <1>10 DEF TypeOK, ReadIFSC, Next
<1>11. ASSUME ReadRecovery PROVE TypeOK'
  BY <1>2, <1>3, <1>11 DEF TypeOK, ReadRecovery, Next
<1>12. ASSUME ReadUnknown PROVE TypeOK'
  BY <1>2, <1>3, <1>12 DEF TypeOK, ReadUnknown, maps, Next
<1> QED
  BY <1>1, <1>4, <1>5, <1>7, <1>8, <1>9, <1>10, <1>11, <1>12
  DEF Next, ReadBroken, ReadMalformed, ReadDuplicate

-------------------------------------------------------------------------------
(* What is returned. *)

LEMMA InitOK == Init => TypeOK /\ IndInv
<1> SUFFICES ASSUME Init PROVE TypeOK /\ IndInv
  OBVIOUS
<1>1. PICK n \in 0 .. MaxLength : fileBytes \in [1 .. n -> Packets]
  BY DEF Init
<1>2. n \in Nat
  BY MaxLengthAssumption
<1>3. fileBytes \in Seq(Packets)
  BY <1>1, <1>2, SeqDef
<1>4. Len(fileBytes) \in Nat /\ DOMAIN fileBytes = 1 .. Len(fileBytes)
  BY <1>3, LenProperties
<1>5. TypeOK
  <2>1. fileBytes \in UNION {[1 .. m -> Packets] : m \in 0 .. MaxLength}
    BY DEF Init
  <2>2. k \in 0 .. Len(fileBytes) /\ setID \in {AnySet} \cup {p.set : p \in Packets \ {Broken}}
    BY <1>4 DEF Init
  <2>3. DOMAIN descriptions = {} /\ DOMAIN checksums = {}
    BY DEF Init, NoPackets
  <2> QED
    BY <2>1, <2>2, <2>3 DEF Init, TypeOK
<1>6. \A j \in DOMAIN fileBytes : ~(j <= k)
  BY <1>4 DEF Init
<1>7. \A type : Before(type) = {}
  BY <1>6 DEF Before, OfType, Mine
<1>8. \A j \in Mine(expected, fileBytes) : ~(j <= k)
  BY <1>6 DEF Mine
<1>9. CreatorSoFar /\ MainSoFar
  BY <1>7 DEF CreatorSoFar, MainSoFar, Init
<1>10. NoPackets = Latest(fileBytes, {})
  BY DEF NoPackets, Latest
<1>11. LatestByID(descriptions, "fileDesc") /\ LatestByID(checksums, "ifsc")
  BY <1>7, <1>10 DEF LatestByID, Latest, Init
<1>12. RecoverySoFar
  <2>1. recovery = [e \in {} |-> recovery[e]]
    BY DEF Init, NoPackets
  <2> QED
    BY <1>7, <2>1 DEF RecoverySoFar
<1>13. SoFar
  <2>1. k = 0 /\ setID = expected /\ foundPacket = FALSE
    BY DEF Init
  <2>2. MapsSoFar
    BY <1>9, <1>11, <1>12 DEF MapsSoFar
  <2>3. \A j \in 1 .. k : fileBytes[j] # Broken
    BY <2>1
  <2>4. setID = IF expected = AnySet /\ k > 0 THEN fileBytes[1].set ELSE expected
    BY <2>1
  <2>5. foundPacket = (\E j \in Mine(expected, fileBytes) : j <= k)
    BY <1>8, <2>1
  <2>6. \A j \in Mine(expected, fileBytes) : j <= k => fileBytes[j].body # Malformed
    BY <1>8
  <2> QED
    BY <2>2, <2>3, <2>4, <2>5, <2>6, SoFarIsMaps
<1> QED
  BY <1>5, <1>13 DEF IndInv

\* The errors of the loop are those of the definition.
LEMMA FailsAsDefined ==
  ASSUME TypeOK, SoFar, ReadBroken \/ ReadMalformed \/ ReadDuplicate
  PROVE  ReadOutcome(expected, fileBytes) = "error"
<1>1. /\ More /\ k \in Nat
      /\ DOMAIN fileBytes = 1 .. Len(fileBytes) /\ Len(fileBytes) \in Nat
      /\ k + 1 \in DOMAIN fileBytes
  BY FileIsSequence DEF ReadBroken, ReadMalformed, ReadDuplicate, Take, More
<1>2. CASE ReadBroken
  BY <1>1, <1>2 DEF ReadBroken, Packet, ReadOutcome
<1>3. CASE ReadMalformed
  <2>1. k + 1 \in Mine(expected, fileBytes) /\ fileBytes[k + 1].body = Malformed
    BY <1>3, SetMatches DEF ReadMalformed, Take, Packet
  <2> QED
    BY <2>1 DEF ReadOutcome
<1>4. CASE ReadDuplicate
  <2>1. /\ k + 1 \in Mine(expected, fileBytes) /\ fileBytes[k + 1].type = "recovery"
        /\ fileBytes[k + 1].body.exponent \in DOMAIN recovery
        /\ recovery[fileBytes[k + 1].body.exponent] # fileBytes[k + 1].body.data
    BY <1>4, SetMatches DEF ReadDuplicate, Duplicate, Take, Packet
  <2>2. PICK j \in Before("recovery") : fileBytes[j].body.exponent = fileBytes[k + 1].body.exponent
    BY <2>1 DEF SoFar
  <2>3. recovery[fileBytes[k + 1].body.exponent] = fileBytes[j].body.data
    BY <2>2 DEF SoFar
  <2>4. Conflict(expected, fileBytes)
    BY <2>1, <2>2, <2>3 DEF Conflict, OfType, Before
  <2>5. Mine(expected, fileBytes) # {}
    BY <2>1
  <2> QED
    BY <2>4, <2>5 DEF ReadOutcome
<1> QED
  BY <1>2, <1>3, <1>4

\* At the end of the file, what was read so far is the file.
LEMMA ReturnsAsDefined ==
  ASSUME TypeOK, SoFar, ReturnFile
  PROVE  ReadsAsDefined'
<1>1. /\ k = Len(fileBytes)
      /\ outcome' = IF ~foundPacket THEN "noPackets" ELSE IF ~foundClientID THEN "noCreator" ELSE "ok"
      /\ fileBytes' = fileBytes /\ expected' = expected /\ mainPacket' = mainPacket
      /\ descriptions' = descriptions /\ checksums' = checksums /\ recovery' = recovery
  BY DEF ReturnFile, arguments, maps
<1>2. DOMAIN fileBytes = 1 .. k /\ k \in Nat
  BY <1>1, FileIsSequence
<1>3. \A j \in Mine(expected, fileBytes) : j <= k
  BY <1>2 DEF Mine
<1>4. \A type : Before(type) = OfType(expected, fileBytes, type)
  BY <1>3 DEF Before, OfType
<1>5. ~\E j \in DOMAIN fileBytes : fileBytes[j] = Broken
  BY <1>2 DEF SoFar
<1>6. foundPacket <=> Mine(expected, fileBytes) # {}
  BY <1>3 DEF SoFar
<1>7. ~\E j \in Mine(expected, fileBytes) : fileBytes[j].body = Malformed
  BY <1>3 DEF SoFar
<1>8. ~Conflict(expected, fileBytes)
  BY <1>4 DEF SoFar, Conflict
<1>9. foundClientID <=> OfType(expected, fileBytes, "creator") # {}
  BY <1>4 DEF SoFar
<1>10. outcome' = ReadOutcome(expected, fileBytes)
  BY <1>1, <1>5, <1>6, <1>7, <1>8, <1>9 DEF ReadOutcome
<1>11. mainPacket = IF HasMain(expected, fileBytes) THEN MainOf(expected, fileBytes) ELSE None
  BY <1>4 DEF SoFar, HasMain, MainOf
<1>12. ASSUME NEW map, NEW type, LatestByID(map, type)
       PROVE  map = [id \in IDsOf(expected, fileBytes, type) |->
                       fileBytes[LastOf(About(expected, fileBytes, type, id))].body]
  BY <1>4, <1>12 DEF LatestByID, IDsOf, About
<1>13. descriptions = [id \in IDsOf(expected, fileBytes, "fileDesc") |->
                         DescriptionOf(expected, fileBytes, id)]
  BY <1>12 DEF SoFar, DescriptionOf
<1>14. checksums = [id \in IDsOf(expected, fileBytes, "ifsc") |->
                      ChecksumsOf(expected, fileBytes, id)]
  BY <1>12 DEF SoFar, ChecksumsOf
<1>15. recovery = Recovery(expected, fileBytes)
  <2> DEFINE positions == OfType(expected, fileBytes, "recovery")
             exponents == {fileBytes[j].body.exponent : j \in positions}
             First(e) == CHOOSE j \in positions : fileBytes[j].body.exponent = e
  <2>1. recovery = [e \in exponents |-> recovery[e]]
    BY <1>4 DEF SoFar
  <2>2. ASSUME NEW e \in exponents
        PROVE  recovery[e] = fileBytes[First(e)].body.data
    <3>1. First(e) \in positions /\ fileBytes[First(e)].body.exponent = e
      OBVIOUS
    <3> QED
      BY <1>4, <3>1 DEF SoFar
  <2>3. recovery = [e \in exponents |-> fileBytes[First(e)].body.data]
    BY <2>1, <2>2
  <2> QED
    BY <2>3 DEF Recovery
<1> QED
  BY <1>1, <1>10, <1>11, <1>13, <1>14, <1>15 DEF ReadsAsDefined

LEMMA ReadsAsDefinedStep ==
  ASSUME TypeOK, IndInv, ReadsAsDefined, [Next]_vars
  PROVE  ReadsAsDefined'
<1>1. CASE UNCHANGED vars
  BY <1>1 DEF ReadsAsDefined, vars, arguments, maps
<1>2. CASE outcome' = "reading"
  BY <1>2 DEF ReadsAsDefined
<1>3. CASE Next /\ outcome' # "reading"
  <2>1. ReadBroken \/ ReadMalformed \/ ReadDuplicate \/ ReturnFile
    BY <1>3 DEF Next, SkipOther, ReadCreator, ReadMain, ReadFileDescription, ReadIFSC,
       ReadRecovery, ReadUnknown, Taken, Take, More
  <2>2. SoFar
    BY <2>1 DEF IndInv, ReadBroken, ReadMalformed, ReadDuplicate, ReturnFile, Take, More
  <2>3. CASE ReturnFile
    BY <2>2, <2>3, ReturnsAsDefined
  <2>4. CASE ReadBroken \/ ReadMalformed \/ ReadDuplicate
    <3>1. Fail
      BY <2>4 DEF ReadBroken, ReadMalformed, ReadDuplicate
    <3>2. ReadOutcome(expected, fileBytes) = "error"
      BY <2>2, <2>4, FailsAsDefined
    <3>3. outcome' = "error" /\ ReadOutcome(expected, fileBytes)' = "error"
      BY <3>1, <3>2 DEF Fail, arguments
    <3> QED
      BY <3>3 DEF ReadsAsDefined
  <2> QED
    BY <2>1, <2>3, <2>4
<1> QED
  BY <1>1, <1>2, <1>3

-------------------------------------------------------------------------------
(* The theorems. *)

LEMMA InvStep ==
  ASSUME TypeOK, IndInv, [Next]_vars
  PROVE  TypeOK' /\ IndInv'
<1>1. TypeOK'
  BY TypeStep
<1>2. CASE UNCHANGED vars
  <2>1. /\ UNCHANGED <<expected, fileBytes, k, setID, foundPacket, foundClientID, mainPacket>>
        /\ UNCHANGED <<descriptions, checksums, recovery, outcome>>
    BY <1>2 DEF vars, arguments, maps
  <2>2. \A type : Before(type)' = Before(type)
    BY <2>1 DEF Before
  <2>3. ASSUME SoFar PROVE SoFar'
    <3>1. MapsSoFar'
      BY <2>1, <2>2, <2>3, OthersStay DEF MapsSoFar
    <3>2. /\ \A j \in 1 .. k' : fileBytes'[j] # Broken
          /\ setID' = IF expected' = AnySet /\ k' > 0 THEN fileBytes'[1].set ELSE expected'
          /\ foundPacket' = (\E j \in Mine(expected', fileBytes') : j <= k')
          /\ \A j \in Mine(expected', fileBytes') : j <= k' => fileBytes'[j].body # Malformed
      BY <2>1, <2>3 DEF SoFar
    <3> QED
      BY <3>1, <3>2 DEF SoFar, MapsSoFar, CreatorSoFar, MainSoFar, RecoverySoFar
  <2> QED
    BY <1>1, <2>1, <2>3 DEF IndInv
<1>3. CASE Next /\ outcome' = "reading"
  BY <1>1, <1>3, SoFarStep
<1>4. CASE outcome' # "reading"
  BY <1>1, <1>4 DEF IndInv
<1> QED
  BY <1>1, <1>2, <1>3, <1>4

\* The flags and maps of the loop keep to their types.
THEOREM TypeCorrect == Spec => []TypeOK
<1>1. TypeOK /\ IndInv /\ [Next]_vars => (TypeOK /\ IndInv)'
  BY InvStep
<1> QED
  BY InitOK, <1>1, PTL DEF Spec

\* After every packet, the flags and maps of readFile say of the packets read so
\* far what Par2Packets says of a file: for all files and all sets of packets.
THEOREM ReadsSoFar == Spec => []IndInv
<1>1. TypeOK /\ IndInv /\ [Next]_vars => (TypeOK /\ IndInv)'
  BY InvStep
<1> QED
  BY InitOK, <1>1, PTL DEF Spec

\* readFile returns what Par2Packets, which the model of the encoder looks at
\* files with, says of the file as a whole.
THEOREM ReadsRight == Spec => []ReadsAsDefined
<1>1. Init => ReadsAsDefined
  BY DEF Init, ReadsAsDefined
<1>2. TypeOK /\ IndInv /\ ReadsAsDefined /\ [Next]_vars => ReadsAsDefined'
  BY ReadsAsDefinedStep
<1> QED
  BY TypeCorrect, ReadsSoFar, <1>1, <1>2, PTL DEF Spec
===============================================================================
