--------------------------- MODULE MCPacketStream ---------------------------
(***************************************************************************)
(* Peers for model checking PacketStream with the real field widths.       *)
(***************************************************************************)
EXTENDS PacketStream, SequencesExt

Report(version, data) ==
    [ head |-> 61423, cmdType |-> 1, itemType |-> 770, msgVersion |-> version,
      cypherModel |-> 5, veryfyModel |-> 6, saveCmd |-> 66048, data |-> data,
      veryfyData |-> [i \in 1..16 |-> 100 + i] ]

\* A peer that sends each chunk in turn: packets are records, junk is bytes.
IsPacket(chunk) == "head" \in DOMAIN chunk
Wire(chunk) == IF IsPacket(chunk) THEN Data(chunk) ELSE chunk.junk
Junk(bytes) == [junk |-> bytes]

MakePeer(chunks) ==
    LET upTo(i) == FoldLeft(LAMBDA acc, c : acc \o Wire(c), <<>>, SubSeq(chunks, 1, i))
        indices == SelectSeq([i \in 1..Len(chunks) |-> i], LAMBDA i : IsPacket(chunks[i]))
    IN  [ bytes  |-> upTo(Len(chunks)),
          starts |-> [k \in 1..Len(indices) |-> Len(upTo(indices[k] - 1))],
          sent   |-> [k \in 1..Len(indices) |-> chunks[indices[k]]] ]

A == Report(16672, <<7, 8>>)
B == FromString(<<>>)
Marked == Report(17184, <<9, 239, 239, 1, 239>>) \* the marker inside the data

\* The length field of the first packet is damaged in transit.
Damaged(c, byte, value) == [c EXCEPT !.bytes[byte] = value]

MCPeers ==
    { MakePeer(<<A, B, A>>),
      MakePeer(<<Junk(<<1, 2, 3>>), B, Junk(<<4>>), A, Junk(<<5>>)>>),
      MakePeer(<<Marked, A>>),
      Damaged(MakePeer(<<A, B, B>>), 18, 40),
      Damaged(MakePeer(<<B, A>>), 16, 1) }

MCSizeMod == 16777216
=============================================================================
