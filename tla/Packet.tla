------------------------------- MODULE Packet -------------------------------
(***************************************************************************)
(* CPacket (src/data/Packet): the wire format of a report and the two       *)
(* steps that recover a packet from a run of received bytes.               *)
(*                                                                         *)
(* Bytes are 0..255 and a run of bytes is a sequence, addressed by the     *)
(* 0-based offsets the C++ pointers use: offset p is element p + 1.        *)
(* The layout of a packet at offset p is                                   *)
(*                                                                         *)
(*   p  EF EF | cmd | item | version | cypher | verify | save | length     *)
(*      2       2     2      2         1        1        4      4          *)
(*   p + 18  data (length bytes) | verifyData (16)                         *)
(***************************************************************************)
EXTENDS Integers, Sequences, PacketMove

CONSTANT SizeMod \* values of size_t: 2^64 in the build, smaller for TLC

Byte == 0..255
WordMax == 65535
Word == 0..WordMax     \* uint16_t
MarkByte == 239       \* 0xEF, either byte of the start marker 0xEFEF
FieldBytes == 18      \* the fields before the data, marker included
VerifyBytes == 16     \* sizeof(m_veryfyData)

\* The model of size_t needs room for the offsets of one connection.
ASSUME SizeModAssumption == SizeMod \in Nat /\ SizeMod > 2 * (FieldBytes + VerifyBytes)

-----------------------------------------------------------------------------
(* Mutants: plausible mistakes in the definitions below.                   *)

ReadU16Swapped(b, p) == b[p + 2] * 256 + b[p + 1]
HeadAtEither(b, p, end, stale) ==
    b[p + 1] = MarkByte \/ (IF p + 1 < end THEN b[p + 2] ELSE stale) = MarkByte
TooLongNoVerify(b, p, end) ==
    LET At(i) == b[p + i + 1]
    IN  ((At(14) * 256 + At(15)) * 256 + At(16)) * 256 + At(17) > end - p - FieldBytes
TooLongHeadTwice(b, p, end) ==
    LET At(i) == b[p + i + 1]
    IN  ((At(14) * 256 + At(15)) * 256 + At(16)) * 256 + At(17)
            > end - p - 2 * FieldBytes - VerifyBytes

-----------------------------------------------------------------------------
\* m_headSize: a packet with no data, fields and verification data together.
HeadSize == 34

\* Subtraction on size_t wraps around below zero.
SizeSub(a, b) == IF a >= b THEN a - b ELSE SizeMod + a - b

\* ntohs and ntohl on the bytes at offset p: the next byte is the less
\* significant one.
ShiftIn(x, byte) == x * 256 + byte
ReadU16(b, p) == ShiftIn(b[p + 1], b[p + 2])
ReadU32(b, p) == ShiftIn(ShiftIn(ShiftIn(b[p + 1], b[p + 2]), b[p + 3]), b[p + 4])

\* htons and htonl.
U16(v) == <<v \div 256, v % 256>>
U32(v) == U16(v \div 65536) \o U16(v % 65536)

\* CPacket::Data(): the packet as it goes on the wire.
Data(k) ==
    U16(k.head) \o U16(k.cmdType) \o U16(k.itemType) \o U16(k.msgVersion)
    \o <<k.cypherModel, k.veryfyModel>> \o U32(k.saveCmd) \o U32(Len(k.data))
    \o k.data \o k.veryfyData

\* CPacket(std::string): a packet that only carries data.
FromString(str) ==
    [ head |-> 61423, cmdType |-> 0, itemType |-> 0, msgVersion |-> 0, cypherModel |-> 0,
      veryfyModel |-> 0, saveCmd |-> 0, data |-> str, veryfyData |-> [i \in 1..VerifyBytes |-> 0] ]

\* CPacket::Size().
Size(k) == Len(k.data) + 34

-----------------------------------------------------------------------------
(* FindHeadStart reads two bytes at every offset below the size it is      *)
(* given, so at the last offset the second byte lies beyond the received   *)
(* data: it is whatever the buffer's memory holds there (stale).           *)

ByteAt(b, p, end, stale) == IF p < end THEN b[p + 1] ELSE stale

HeadAt(b, p, end, stale) ==
    /\ b[p + 1] = MarkByte
    /\ ByteAt(b, p + 1, end, stale) = MarkByte

\* FindHeadStart returns 0 and offset p, for the received bytes base..end-1.
IsFirstHead(b, p, base, end, stale) ==
    /\ p \in base..(end - 1)
    /\ HeadAt(b, p, end, stale)
    /\ \A q \in base..(p - 1) : ~HeadAt(b, q, end, stale)

\* FindHeadStart returns -1.
NoHead(b, base, end, stale) ==
    \A q \in base..(end - 1) : ~HeadAt(b, q, end, stale)

(* ConstructData on the bytes p..end-1, which start with a head.  It        *)
(* returns -1 when TooShort, -3 when TooLong and 0 otherwise; its own       *)
(* search for the head stops at p at once.                                 *)
TooShort(p, end) == end - p < HeadSize

DataLength(b, p) == ReadU32(b, p + 14)

TooLong(b, p, end) ==
    DataLength(b, p) > SizeSub(SizeSub(end - p, FieldBytes), VerifyBytes)

\* The fields ConstructData leaves in the object when it returns 0.
Constructed(b, p) ==
    LET len == DataLength(b, p)
        from == p + FieldBytes
    IN  [ head        |-> ReadU16(b, p),
          cmdType     |-> ReadU16(b, p + 2),
          itemType    |-> ReadU16(b, p + 4),
          msgVersion  |-> ReadU16(b, p + 6),
          cypherModel |-> b[p + 9],
          veryfyModel |-> b[p + 10],
          saveCmd     |-> ReadU32(b, p + 10),
          data        |-> SubSeq(b, from + 1, from + len),
          veryfyData  |-> SubSeq(b, from + len + 1, from + len + VerifyBytes) ]

\* The members a packet takes over from another: the move constructor, which
\* makes SolveTask's parameter and the packet in the bound task, and the copy
\* constructor, which makes ExcuteTask's parameter.
Moved(k) ==
    [ head |-> k.head, cmdType |-> k.cmdType, itemType |-> k.itemType, msgVersion |-> k.msgVersion,
      cypherModel |-> k.cypherModel, veryfyModel |-> k.veryfyModel, saveCmd |-> k.saveCmd,
      data |-> k.data, veryfyData |-> k.veryfyData ]

Copied(k) ==
    [ head |-> k.head, cmdType |-> k.cmdType, itemType |-> k.itemType, msgVersion |-> k.msgVersion,
      cypherModel |-> k.cypherModel, veryfyModel |-> k.veryfyModel, saveCmd |-> k.saveCmd,
      data |-> k.data, veryfyData |-> k.veryfyData ]

\* The bytes ConstructData reports as used (its nSize on return 0).
UsedBytes(b, p) == FieldBytes + DataLength(b, p) + VerifyBytes
=============================================================================
