------------------------- MODULE PacketStreamProofs -------------------------
(***************************************************************************)
(* What holds of PacketStream for every set of peers, every stream and     *)
(* every way TCP may cut it.                                               *)
(***************************************************************************)
EXTENDS PacketStream, TLAPS

(* Facts about the operators of Packet.  They are stated for any function  *)
(* whose first n values are bytes, so that the solver never has to reason  *)
(* about sequences and arithmetic in one step.                             *)

Bytes(b, n) == \A i \in 1..n : b[i] \in Byte

\* A byte is a natural number.
LEMMA ByteIsNat == \A x \in Byte : x \in Nat
BY DEF Byte

\* Two bytes make a 16-bit number.
LEMMA TwoBytes ==
    ASSUME NEW x \in Byte, NEW y \in Byte
    PROVE  ShiftIn(x, y) \in Word
<1>1. x \in Int /\ y \in Int /\ 0 <= x /\ x <= 255 /\ 0 <= y /\ y <= 255
  BY DEF Byte
<1>2. x * 256 + y \in Int /\ 0 <= x * 256 + y /\ x * 256 + y <= WordMax /\ WordMax \in Int
  BY <1>1 DEF WordMax
<1> QED
  BY <1>2 DEF ShiftIn, Word

\* One more byte of a big-endian number.
LEMMA MoreBytes ==
    ASSUME NEW x \in Nat, NEW y \in Nat
    PROVE  ShiftIn(x, y) \in Nat
BY DEF ShiftIn

\* ntohs of received bytes.
LEMMA ReadU16Type ==
    ASSUME NEW b, NEW n \in Nat, Bytes(b, n), NEW p \in Nat, p + 2 <= n
    PROVE  ReadU16(b, p) \in Word
<1>1. b[p + 1] \in Byte
  BY DEF Bytes
<1>2. b[p + 2] \in Byte
  BY DEF Bytes
<1> QED
  BY <1>1, <1>2, TwoBytes, Zenon DEF ReadU16

\* ntohl of received bytes.
LEMMA ReadU32Type ==
    ASSUME NEW b, NEW n \in Nat, Bytes(b, n), NEW p \in Nat, p + 4 <= n
    PROVE  ReadU32(b, p) \in Nat
<1>1. b[p + 1] \in Byte /\ b[p + 2] \in Byte /\ b[p + 3] \in Byte /\ b[p + 4] \in Byte
  BY DEF Bytes
<1>2. b[p + 1] \in Nat /\ b[p + 2] \in Nat /\ b[p + 3] \in Nat /\ b[p + 4] \in Nat
  BY <1>1, ByteIsNat, Zenon
<1>3. ShiftIn(b[p + 1], b[p + 2]) \in Nat
  BY <1>2, MoreBytes, Zenon
<1>4. ShiftIn(ShiftIn(b[p + 1], b[p + 2]), b[p + 3]) \in Nat
  BY <1>2, <1>3, MoreBytes, Zenon
<1> QED
  BY <1>2, <1>4, MoreBytes, Zenon DEF ReadU32

\* What ConstructData accepts lies within the received bytes: the unsigned
\* subtraction in its length test cannot wrap once HeadSize bytes are there.
LEMMA AcceptedFits ==
    ASSUME NEW b, NEW n \in Nat, Bytes(b, n), NEW p \in Nat, NEW end \in Nat,
           end <= n, p <= end, ~TooShort(p, end), ~TooLong(b, p, end)
    PROVE  /\ DataLength(b, p) \in Nat
           /\ p + HeadSize <= end
           /\ p + HeadSize <= p + UsedBytes(b, p)
           /\ p + UsedBytes(b, p) <= end
<1>1. end - p >= 34
  BY DEF TooShort, HeadSize
<1>2. DataLength(b, p) \in Nat
  <2>1. p + 14 \in Nat /\ (p + 14) + 4 <= n
    BY <1>1
  <2> QED
    BY <2>1, ReadU32Type DEF DataLength
<1>3. SizeSub(SizeSub(end - p, FieldBytes), VerifyBytes) = end - p - 34
  BY <1>1 DEF SizeSub, FieldBytes, VerifyBytes
<1>4. DataLength(b, p) <= end - p - 34
  BY <1>2, <1>3 DEF TooLong
<1> QED
  BY <1>1, <1>2, <1>4 DEF UsedBytes, FieldBytes, VerifyBytes, HeadSize

\* A run of bytes taken out of a received one.
LEMMA SubBytes ==
    ASSUME NEW b \in Seq(Byte), NEW m \in Nat, NEW n \in Nat, 1 <= m, n <= Len(b)
    PROVE  SubSeq(b, m, n) \in Seq(Byte)
OBVIOUS

\* ConstructData fills a packet of the right type from received bytes.
LEMMA ConstructedType ==
    ASSUME NEW b \in Seq(Byte), NEW p \in Nat, NEW end \in Nat,
           end <= Len(b), p <= end, ~TooShort(p, end), ~TooLong(b, p, end)
    PROVE  Constructed(b, p) \in PacketType
<1> DEFINE n == Len(b)
           len == DataLength(b, p)
<1>1. n \in Nat /\ Bytes(b, n)
  BY DEF Bytes
<1> HIDE DEF n
<1>2. /\ DataLength(b, p) \in Nat
      /\ p + HeadSize <= end
      /\ p + UsedBytes(b, p) <= end
  BY <1>1, AcceptedFits DEF n
<1>3. /\ len \in Nat
      /\ p + 34 <= n
      /\ p + 34 + len <= n
  BY <1>1, <1>2 DEF HeadSize, UsedBytes, FieldBytes, VerifyBytes, n
<1>4. ReadU32(b, p + 10) \in Nat
  <2>1. p + 10 \in Nat /\ (p + 10) + 4 <= n
    BY <1>1, <1>3
  <2> QED
    BY <1>1, <2>1, ReadU32Type
<1>5. ReadU16(b, p) \in Word
  <2>1. p + 2 <= n
    BY <1>1, <1>3
  <2> QED
    BY <1>1, <2>1, ReadU16Type
<1>6. ReadU16(b, p + 2) \in Word
  <2>1. p + 2 \in Nat /\ (p + 2) + 2 <= n
    BY <1>1, <1>3
  <2> QED
    BY <1>1, <2>1, ReadU16Type
<1>7. ReadU16(b, p + 4) \in Word
  <2>1. p + 4 \in Nat /\ (p + 4) + 2 <= n
    BY <1>1, <1>3
  <2> QED
    BY <1>1, <2>1, ReadU16Type
<1>8. ReadU16(b, p + 6) \in Word
  <2>1. p + 6 \in Nat /\ (p + 6) + 2 <= n
    BY <1>1, <1>3
  <2> QED
    BY <1>1, <2>1, ReadU16Type
<1>9. b[p + 9] \in Byte /\ b[p + 10] \in Byte
  BY <1>1, <1>3 DEF Bytes
<1> DEFINE from == p + FieldBytes
<1>10. SubSeq(b, from + 1, from + len) \in Seq(Byte)
  <2>1. from + 1 \in Nat /\ from + len \in Nat /\ 1 <= from + 1 /\ from + len <= Len(b)
    BY <1>1, <1>3 DEF FieldBytes, n
  <2> HIDE DEF from, len
  <2> QED
    BY <2>1, SubBytes
<1>11. SubSeq(b, from + len + 1, from + len + VerifyBytes) \in Seq(Byte)
  <2>1. /\ from + len + 1 \in Nat /\ from + len + VerifyBytes \in Nat
        /\ 1 <= from + len + 1 /\ from + len + VerifyBytes <= Len(b)
    BY <1>1, <1>3 DEF FieldBytes, VerifyBytes, n
  <2> HIDE DEF from, len
  <2> QED
    BY <2>1, SubBytes
<1> DEFINE data == SubSeq(b, from + 1, from + len)
           verify == SubSeq(b, from + len + 1, from + len + VerifyBytes)
<1>12. Constructed(b, p) =
        [ head |-> ReadU16(b, p), cmdType |-> ReadU16(b, p + 2),
          itemType |-> ReadU16(b, p + 4), msgVersion |-> ReadU16(b, p + 6),
          cypherModel |-> b[p + 9], veryfyModel |-> b[p + 10],
          saveCmd |-> ReadU32(b, p + 10), data |-> data, veryfyData |-> verify ]
  BY Zenon DEF Constructed
<1>13. data \in Seq(Byte) /\ verify \in Seq(Byte)
  BY <1>10, <1>11
<1> HIDE DEF data, verify, from, len
<1> QED
  BY <1>4, <1>5, <1>6, <1>7, <1>8, <1>9, <1>12, <1>13 DEF PacketType

(* Facts about FindHeadStart: the byte beyond the received ones (stale)    *)
(* matters at the last offset only.                                        *)

\* The offset FindHeadStart returns holds a marker unless it is the last
\* one, and no marker lies before it.
LEMMA FirstHead ==
    ASSUME NEW b, NEW r \in Nat, NEW end \in Nat, NEW stale, NEW p \in Nat,
           IsFirstHead(b, p, r, end, stale)
    PROVE  /\ r <= p /\ p < end
           /\ b[p + 1] = MarkByte
           /\ p + 1 < end => Marker(b, p)
           /\ \A q \in Nat : r <= q /\ q < p => ~Marker(b, q)
<1>1. p \in r..(end - 1) /\ HeadAt(b, p, end, stale)
  BY DEF IsFirstHead
<1>2. r <= p /\ p < end
  BY <1>1
<1>3. b[p + 1] = MarkByte
  BY <1>1 DEF HeadAt
<1>4. p + 1 < end => Marker(b, p)
  BY <1>1, <1>2 DEF HeadAt, ByteAt, Marker
<1>5. ASSUME NEW q \in Nat, r <= q, q < p
      PROVE  ~Marker(b, q)
  <2>1. ~HeadAt(b, q, end, stale)
    BY <1>5 DEF IsFirstHead
  <2>2. q + 1 < end
    BY <1>2, <1>5
  <2> QED
    BY <2>1, <2>2 DEF HeadAt, ByteAt, Marker
<1> QED
  BY <1>2, <1>3, <1>4, <1>5

\* When FindHeadStart fails there is no whole marker among the bytes.
LEMMA NoWholeMarker ==
    ASSUME NEW b, NEW r \in Nat, NEW end \in Nat, NEW stale,
           NoHead(b, r, end, stale), NEW q \in Nat, r <= q, q + 1 < end
    PROVE  ~Marker(b, q)
<1>1. q \in r..(end - 1)
  OBVIOUS
<1>2. ~HeadAt(b, q, end, stale)
  BY <1>1 DEF NoHead
<1> QED
  BY <1>2 DEF HeadAt, ByteAt, Marker

-----------------------------------------------------------------------------
(* The three things one onMessage can do.                                  *)

Received(end) ==
    /\ end \in Nat /\ wr < end /\ end <= Len(peer.bytes)
    /\ wr' = end
    /\ peer' = peer /\ conn' = conn

Threw(end) ==
    \E stale \in StaleByte :
        Received(end) /\ Discard(end, stale)

Kept(end) ==
    \E stale \in StaleByte, p \in Nat :
        /\ Received(end)
        /\ IsFirstHead(peer.bytes, p, rd, end, stale)
        /\ TooShort(p, end) \/ TooLong(peer.bytes, p, end)
        /\ KeepPartial(p, end)

Took(end) ==
    \E stale \in StaleByte, p \in Nat :
        /\ Received(end)
        /\ IsFirstHead(peer.bytes, p, rd, end, stale)
        /\ ~TooShort(p, end) /\ ~TooLong(peer.bytes, p, end)
        /\ Dispatch(p)

\* A peer's stream is a sequence of bytes and its packets lie within it.
LEMMA PeerFacts ==
    ASSUME peer \in Peers
    PROVE  /\ peer.bytes \in Seq(Byte)
           /\ Len(peer.bytes) \in Nat
           /\ Bytes(peer.bytes, Len(peer.bytes))
           /\ peer.starts \in Seq(Nat)
           /\ \A k \in 1..Len(peer.starts) : peer.starts[k] + HeadSize <= Len(peer.bytes)
<1>1. /\ peer.bytes \in Seq(Byte)
      /\ peer.starts \in Seq(Nat)
      /\ \A k \in 1..Len(peer.starts) : peer.starts[k] + HeadSize <= Len(peer.bytes)
  BY PeersAssumption, Zenon
<1>2. Len(peer.bytes) \in Nat
  BY <1>1
<1>3. Bytes(peer.bytes, Len(peer.bytes))
  BY <1>1 DEF Bytes
<1> QED
  BY <1>1, <1>2, <1>3, Zenon

\* Every step is one of those three or the end of the connection.
LEMMA Steps ==
    ASSUME TypeOK, Next
    PROVE  \/ \E end \in Nat : Threw(end) \/ Kept(end) \/ Took(end)
           \/ OnConnectionDown
<1>1. rd \in Nat /\ wr \in Nat /\ Len(peer.bytes) \in Nat
  BY PeerFacts DEF TypeOK
<1>2. CASE OnConnectionDown
  BY <1>2, Zenon
<1>3. ASSUME NEW n \in 1..Len(peer.bytes), NEW stale \in StaleByte, OnMessage(n, stale)
      PROVE  \E end \in Nat : Threw(end) \/ Kept(end) \/ Took(end)
  <2> DEFINE end == wr + n
  <2>1. end \in Nat /\ wr < end
    BY <1>1
  <2>2. Received(end)
    BY <1>3, <2>1 DEF OnMessage, Received
  <2>3. \/ Discard(end, stale)
        \/ \E p \in rd..(end - 1) :
             /\ IsFirstHead(peer.bytes, p, rd, end, stale)
             /\ \/ TooShort(p, end) /\ KeepPartial(p, end)
                \/ ~TooShort(p, end) /\ TooLong(peer.bytes, p, end) /\ KeepPartial(p, end)
                \/ ~TooShort(p, end) /\ ~TooLong(peer.bytes, p, end) /\ Dispatch(p)
    BY <1>3, Zenon DEF OnMessage
  <2>4. \A p \in rd..(end - 1) : p \in Nat
    BY <1>1, <2>1
  <2> HIDE DEF end
  <2>5. Threw(end) \/ Kept(end) \/ Took(end)
    BY <2>2, <2>3, <2>4, Zenon DEF Threw, Kept, Took
  <2> QED
    BY <2>1, <2>5, Zenon
<1> QED
  BY <1>2, <1>3, Zenon DEF Next

\* What a step that takes a packet knows of it.
LEMMA TookFacts ==
    ASSUME TypeOK, NEW end \in Nat, Took(end)
    PROVE  \E p \in Nat :
             /\ rd <= p
             /\ Marker(peer.bytes, p)
             /\ p + HeadSize <= end
             /\ \A q \in Nat : rd <= q /\ q < p => ~Marker(peer.bytes, q)
             /\ Constructed(peer.bytes, p) \in PacketType
             /\ FrameEnd(peer.bytes, p) \in Nat
             /\ p + HeadSize <= FrameEnd(peer.bytes, p)
             /\ FrameEnd(peer.bytes, p) <= end
             /\ rd' = FrameEnd(peer.bytes, p)
             /\ packets' = Append(packets, [at |-> p, packet |-> Constructed(peer.bytes, p)])
             /\ split' = split
             /\ alive' \in BOOLEAN
<1> PICK stale \in StaleByte, p \in Nat :
        /\ Received(end)
        /\ IsFirstHead(peer.bytes, p, rd, end, stale)
        /\ ~TooShort(p, end) /\ ~TooLong(peer.bytes, p, end)
        /\ Dispatch(p)
  BY Zenon DEF Took
<1> DEFINE b == peer.bytes
           L == Len(peer.bytes)
<1>1. rd \in Nat /\ L \in Nat /\ b \in Seq(Byte) /\ Bytes(b, L) /\ end <= L
  BY PeerFacts DEF TypeOK, Received
<1>2. /\ rd <= p /\ p < end
      /\ p + 1 < end => Marker(b, p)
      /\ \A q \in Nat : rd <= q /\ q < p => ~Marker(b, q)
  <2>1. rd \in Nat /\ IsFirstHead(b, p, rd, end, stale)
    BY <1>1
  <2> HIDE DEF b, L
  <2> QED
    BY <2>1, FirstHead
<1>3. /\ p <= end
  BY <1>2
<1>4. Constructed(b, p) \in PacketType
  BY <1>1, <1>3, ConstructedType, Zenon
<1>5. /\ DataLength(b, p) \in Nat
      /\ p + HeadSize <= end
      /\ p + HeadSize <= p + UsedBytes(b, p)
      /\ p + UsedBytes(b, p) <= end
  BY <1>1, <1>3, AcceptedFits, Zenon
<1> HIDE DEF b, L
<1>6. UsedBytes(b, p) \in Nat
  BY <1>5 DEF UsedBytes, FieldBytes, VerifyBytes
<1>7. p + 1 < end
  BY <1>5 DEF HeadSize
<1>8. FrameEnd(b, p) = p + UsedBytes(b, p) /\ FrameEnd(b, p) \in Nat
  BY <1>6 DEF FrameEnd
<1>9. /\ rd' = FrameEnd(b, p)
      /\ packets' = Append(packets, [at |-> p, packet |-> Constructed(b, p)])
      /\ split' = split
      /\ alive' \in BOOLEAN
  BY <1>8, Zenon DEF Dispatch, Survives, b
<1> QED
  BY <1>2, <1>4, <1>5, <1>7, <1>8, <1>9, Zenon DEF b

\* Appending to the sequence of packets.
LEMMA Appended ==
    ASSUME NEW S, NEW s \in Seq(S), NEW e \in S
    PROVE  Append(s, e) \in Seq(S)
OBVIOUS

Entry == [at : Nat, packet : PacketType]

\* The taken packet is a well-formed entry.
LEMMA EntryType ==
    ASSUME NEW p \in Nat, NEW k \in PacketType
    PROVE  /\ [at |-> p, packet |-> k] \in Entry
           /\ [at |-> p, packet |-> k].at = p /\ [at |-> p, packet |-> k].packet = k
BY DEF Entry

-----------------------------------------------------------------------------
(* Type correctness: no retrieve ever exceeds the readable bytes.          *)

\* One step keeps the types and the order of the buffer's offsets.
LEMMA TypeStep ==
    ASSUME TypeOK, Next
    PROVE  TypeOK'
<1>1. /\ peer \in Peers /\ conn \in {"up", "down"} /\ rd \in Nat /\ wr \in Nat
      /\ rd <= wr /\ wr <= Len(peer.bytes) /\ packets \in Seq(Entry)
      /\ alive \in BOOLEAN /\ split \in BOOLEAN
  BY Zenon DEF TypeOK, Entry
<1>2. CASE OnConnectionDown
  BY <1>1, <1>2 DEF OnConnectionDown, TypeOK, Entry
<1>3. ASSUME NEW end \in Nat, Threw(end)
      PROVE  TypeOK'
  <2>1. /\ rd' = end /\ wr' = end /\ peer' = peer /\ conn' = conn /\ end <= Len(peer.bytes)
        /\ packets' = packets /\ alive' = alive /\ split' \in BOOLEAN
    BY <1>3, Zenon DEF Threw, Received, Discard
  <2> QED
    BY <1>1, <2>1 DEF TypeOK, Entry
<1>4. ASSUME NEW end \in Nat, Kept(end)
      PROVE  TypeOK'
  <2> PICK stale \in StaleByte, p \in Nat :
            /\ Received(end)
            /\ IsFirstHead(peer.bytes, p, rd, end, stale)
            /\ KeepPartial(p, end)
    BY <1>4, Zenon DEF Kept
  <2>1. p < end
    BY <1>1, FirstHead, Zenon
  <2>2. /\ rd' = p /\ wr' = end /\ peer' = peer /\ conn' = conn /\ end <= Len(peer.bytes)
        /\ packets' = packets /\ alive' = alive /\ split' = split
    BY Zenon DEF Received, KeepPartial
  <2> QED
    BY <1>1, <2>1, <2>2 DEF TypeOK, Entry
<1>5. ASSUME NEW end \in Nat, Took(end)
      PROVE  TypeOK'
  <2>1. PICK p \in Nat :
            /\ Constructed(peer.bytes, p) \in PacketType
            /\ FrameEnd(peer.bytes, p) \in Nat
            /\ FrameEnd(peer.bytes, p) <= end
            /\ rd' = FrameEnd(peer.bytes, p)
            /\ packets' = Append(packets, [at |-> p, packet |-> Constructed(peer.bytes, p)])
            /\ split' = split
            /\ alive' \in BOOLEAN
    BY <1>5, TookFacts, Zenon
  <2>2. wr' = end /\ peer' = peer /\ conn' = conn /\ end <= Len(peer.bytes)
    BY <1>5, Zenon DEF Took, Received
  <2>3. packets' \in Seq(Entry)
    BY <1>1, <2>1, Appended, EntryType, Zenon
  <2> QED
    BY <1>1, <2>1, <2>2, <2>3 DEF TypeOK, Entry
<1> QED
  BY <1>2, <1>3, <1>4, <1>5, Steps, Zenon

\* The initial state has the types: a new connection's buffer is empty.
LEMMA TypeInit == Init => TypeOK
<1> SUFFICES ASSUME Init PROVE TypeOK
  OBVIOUS
<1>1. Len(peer.bytes) \in Nat
  BY PeerFacts DEF Init
<1>2. packets \in Seq([at : Nat, packet : PacketType])
  BY DEF Init
<1>3. rd \in Nat /\ wr \in Nat /\ rd <= wr /\ wr <= Len(peer.bytes)
  BY <1>1 DEF Init
<1> QED
  BY <1>2, <1>3, Zenon DEF Init, TypeOK

\* In every behaviour of onMessage the retrieved bytes are received ones and
\* the packets handed to SolveTask are well formed.
THEOREM TypeCorrect == Spec => []TypeOK
<1>1. TypeOK /\ [Next]_vars => TypeOK'
  <2> SUFFICES ASSUME TypeOK, [Next]_vars PROVE TypeOK'
    OBVIOUS
  <2>1. CASE Next
    BY <2>1, TypeStep
  <2>2. CASE UNCHANGED vars
    BY <2>2, Zenon DEF vars, TypeOK
  <2> QED
    BY <2>1, <2>2
<1> QED
  BY TypeInit, <1>1, PTL DEF Spec

-----------------------------------------------------------------------------
(* What is handed over: whole packets, no byte in two of them.             *)

\* How a step changes the packets: it leaves them alone and never gives
\* bytes back, or it appends one that starts at or after rd.
LEMMA Grows ==
    ASSUME TypeOK, Next
    PROVE  /\ peer' = peer
           /\ Len(packets) \in Nat
           /\ rd \in Nat
           /\ \/ packets' = packets /\ rd' \in Nat /\ rd <= rd'
              \/ \E p \in Nat :
                   /\ rd <= p
                   /\ Marker(peer.bytes, p)
                   /\ p + HeadSize <= Len(peer.bytes)
                   /\ rd' = FrameEnd(peer.bytes, p)
                   /\ FrameEnd(peer.bytes, p) \in Nat
                   /\ p + HeadSize <= FrameEnd(peer.bytes, p)
                   /\ Len(packets') = Len(packets) + 1
                   /\ \A k \in 1..Len(packets) : packets'[k] = packets[k]
                   /\ packets'[Len(packets) + 1].at = p
                   /\ packets'[Len(packets) + 1].packet = Constructed(peer.bytes, p)
<1>1. /\ rd \in Nat /\ wr \in Nat /\ rd <= wr /\ packets \in Seq(Entry) /\ peer \in Peers
  BY Zenon DEF TypeOK, Entry
<1>2. Len(packets) \in Nat
  BY <1>1
<1>3. CASE OnConnectionDown
  <2>1. peer' = peer /\ packets' = packets /\ rd' = rd
    BY <1>3, Zenon DEF OnConnectionDown
  <2>2. rd <= rd
    BY <1>1
  <2> QED
    BY <1>1, <1>2, <2>1, <2>2, Zenon
<1>4. ASSUME NEW end \in Nat, Threw(end)
      PROVE  peer' = peer /\ packets' = packets /\ rd' \in Nat /\ rd <= rd'
  <2>1. peer' = peer /\ packets' = packets /\ rd' = end /\ wr < end
    BY <1>4, Zenon DEF Threw, Received, Discard
  <2> QED
    BY <1>1, <2>1
<1>5. ASSUME NEW end \in Nat, Kept(end)
      PROVE  peer' = peer /\ packets' = packets /\ rd' \in Nat /\ rd <= rd'
  <2> PICK stale \in StaleByte, p \in Nat :
            /\ Received(end)
            /\ IsFirstHead(peer.bytes, p, rd, end, stale)
            /\ KeepPartial(p, end)
    BY <1>5, Zenon DEF Kept
  <2>1. rd <= p
    BY <1>1, FirstHead, Zenon
  <2> QED
    BY <2>1, Zenon DEF Received, KeepPartial
<1>6. ASSUME NEW end \in Nat, Took(end)
      PROVE  /\ peer' = peer
             /\ \E p \in Nat :
                   /\ rd <= p
                   /\ Marker(peer.bytes, p)
                   /\ p + HeadSize <= Len(peer.bytes)
                   /\ rd' = FrameEnd(peer.bytes, p)
                   /\ FrameEnd(peer.bytes, p) \in Nat
                   /\ p + HeadSize <= FrameEnd(peer.bytes, p)
                   /\ Len(packets') = Len(packets) + 1
                   /\ \A k \in 1..Len(packets) : packets'[k] = packets[k]
                   /\ packets'[Len(packets) + 1].at = p
                   /\ packets'[Len(packets) + 1].packet = Constructed(peer.bytes, p)
  <2>1. PICK p \in Nat :
            /\ rd <= p
            /\ Marker(peer.bytes, p)
            /\ p + HeadSize <= end
            /\ Constructed(peer.bytes, p) \in PacketType
            /\ FrameEnd(peer.bytes, p) \in Nat
            /\ p + HeadSize <= FrameEnd(peer.bytes, p)
            /\ rd' = FrameEnd(peer.bytes, p)
            /\ packets' = Append(packets, [at |-> p, packet |-> Constructed(peer.bytes, p)])
    BY <1>6, TookFacts, Zenon
  <2>2. peer' = peer /\ end <= Len(peer.bytes)
    BY <1>6, Zenon DEF Took, Received
  <2>3. /\ Len(packets') = Len(packets) + 1
        /\ \A k \in 1..Len(packets) : packets'[k] = packets[k]
        /\ packets'[Len(packets) + 1] = [at |-> p, packet |-> Constructed(peer.bytes, p)]
    <3> DEFINE e == [at |-> p, packet |-> Constructed(peer.bytes, p)]
    <3>1. e \in Entry /\ packets' = Append(packets, e)
      BY <2>1, EntryType, Zenon
    <3> HIDE DEF e
    <3>3. Len(packets') = Len(packets) + 1
      BY <1>1, <3>1
    <3>4. \A k \in 1..Len(packets) : packets'[k] = packets[k]
      BY <1>1, <3>1
    <3>5. packets'[Len(packets) + 1] = e
      BY <1>1, <3>1
    <3> QED
      BY <3>3, <3>4, <3>5, Zenon DEF e
  <2>4. /\ packets'[Len(packets) + 1].at = p
        /\ packets'[Len(packets) + 1].packet = Constructed(peer.bytes, p)
    <3> DEFINE c == Constructed(peer.bytes, p)
    <3>1. c \in PacketType /\ packets'[Len(packets) + 1] = [at |-> p, packet |-> c]
      BY <2>1, <2>3, Zenon
    <3> HIDE DEF c
    <3>2. packets'[Len(packets) + 1].at = p /\ packets'[Len(packets) + 1].packet = c
      BY <3>1, EntryType
    <3> QED
      BY <3>2, Zenon DEF c
  <2>5. Len(peer.bytes) \in Nat
    BY <1>1, PeerFacts, Zenon
  <2>6. p + HeadSize <= Len(peer.bytes)
    <3> DEFINE L == Len(peer.bytes)
    <3>1. L \in Nat /\ end <= L /\ p + HeadSize <= end
      BY <2>1, <2>2, <2>5, Zenon
    <3> HIDE DEF L
    <3>2. p + HeadSize <= L
      BY <3>1 DEF HeadSize
    <3> QED
      BY <3>2 DEF L
  <2> QED
    BY <2>1, <2>2, <2>3, <2>4, <2>6, Zenon
<1> QED
  BY <1>1, <1>2, <1>3, <1>4, <1>5, <1>6, Steps, Zenon

\* Needed for induction: the end of a packet handed over is a number, as it
\* is computed from received bytes only.
Framed ==
    \A k \in 1..Len(packets) :
        FrameEnd(peer.bytes, packets[k].at) \in Nat /\ packets[k].at \in Nat

FrameInv == TypeOK /\ Framed /\ WholeFrames

\* One step keeps the packets whole and apart.
LEMMA FrameStep ==
    ASSUME FrameInv, Next
    PROVE  FrameInv'
<1> USE DEF FrameInv
<1> DEFINE b == peer.bytes
           m == Len(packets)
           F(k) == FrameEnd(b, packets[k].at)
<1>0. /\ \A k \in 1..m : Marker(b, packets[k].at) /\ F(k) <= rd
      /\ \A j, k \in 1..m : j < k => F(j) <= packets[k].at
      /\ \A k \in 1..m : F(k) \in Nat /\ packets[k].at \in Nat
  BY Zenon DEF WholeFrames, Framed
<1>1. peer' = peer /\ m \in Nat /\ rd \in Nat
  BY Grows, Zenon
<1>2. TypeOK'
  BY TypeStep, Zenon
<1>3. CASE packets' = packets /\ rd' \in Nat /\ rd <= rd'
  <2>1. \A k \in 1..m : F(k) <= rd'
    <3> HIDE DEF F
    <3> QED BY <1>0, <1>1, <1>3
  <2>2. WholeFrames'
    BY <1>0, <1>1, <1>3, <2>1, Zenon DEF WholeFrames
  <2>3. Framed'
    BY <1>0, <1>1, <1>3, Zenon DEF Framed
  <2> QED
    BY <1>2, <2>2, <2>3, Zenon
<1>4. CASE \E p \in Nat :
             /\ rd <= p
             /\ Marker(peer.bytes, p)
             /\ rd' = FrameEnd(peer.bytes, p)
             /\ FrameEnd(peer.bytes, p) \in Nat
             /\ p + HeadSize <= FrameEnd(peer.bytes, p)
             /\ Len(packets') = Len(packets) + 1
             /\ \A k \in 1..Len(packets) : packets'[k] = packets[k]
             /\ packets'[Len(packets) + 1].at = p
  <2>1. PICK p \in Nat :
             /\ rd <= p
             /\ Marker(b, p)
             /\ rd' = FrameEnd(b, p)
             /\ FrameEnd(b, p) \in Nat
             /\ p + HeadSize <= FrameEnd(b, p)
             /\ Len(packets') = m + 1
             /\ \A k \in 1..m : packets'[k] = packets[k]
             /\ packets'[m + 1].at = p
    BY <1>4, Zenon
  <2> DEFINE G(k) == FrameEnd(b, packets'[k].at)
  <2>2. G(m + 1) = FrameEnd(b, p)
    BY <2>1, Zenon
  <2>3. \A k \in 1..m : G(k) = F(k) /\ packets'[k].at = packets[k].at
    BY <2>1, Zenon
  <2>4. m + 1 \in 1..(m + 1) /\ \A k \in 1..(m + 1) : k \in 1..m \/ k = m + 1
    BY <1>1
  <2>5. rd <= rd'
    BY <1>1, <2>1 DEF HeadSize
  <2>6. \A k \in 1..m : F(k) <= rd' /\ F(k) <= p
    <3> HIDE DEF F
    <3> QED BY <1>0, <1>1, <2>1, <2>5
  <2>7. rd' <= rd'
    BY <2>1
  <2>8. \A j, k \in 1..(m + 1) : j < k => j \in 1..m
    BY <1>1
  <2> HIDE DEF F, G
  <2>9. \A k \in 1..(m + 1) : /\ Marker(b, packets'[k].at) /\ G(k) <= rd'
                              /\ G(k) \in Nat /\ packets'[k].at \in Nat
    BY <1>0, <2>1, <2>2, <2>3, <2>4, <2>6, <2>7, Zenon
  <2>10. \A j, k \in 1..(m + 1) : j < k => G(j) <= packets'[k].at
    BY <1>0, <2>1, <2>3, <2>4, <2>6, <2>8, Zenon
  <2>11. WholeFrames' /\ Framed'
    BY <1>1, <2>1, <2>9, <2>10, Zenon DEF WholeFrames, Framed, G
  <2> QED
    BY <1>2, <2>11, Zenon
<1> QED
  BY <1>3, <1>4, Grows, Zenon

\* A new connection has handed over nothing.
LEMMA FrameInit == Init => FrameInv
<1> SUFFICES ASSUME Init PROVE FrameInv
  OBVIOUS
<1>1. 1..Len(packets) = {}
  BY DEF Init
<1> QED
  BY <1>1, TypeInit, Zenon DEF FrameInv, Framed, WholeFrames

\* The inductive invariant behind the theorems below.
LEMMA FrameInvariant == Spec => []FrameInv
<1>1. FrameInv /\ [Next]_vars => FrameInv'
  <2> SUFFICES ASSUME FrameInv, [Next]_vars PROVE FrameInv'
    OBVIOUS
  <2>1. CASE Next
    BY <2>1, FrameStep
  <2>2. CASE UNCHANGED vars
    BY <2>2, Zenon DEF vars, TypeOK, Framed, WholeFrames, FrameInv
  <2> QED
    BY <2>1, <2>2
<1> QED
  BY FrameInit, <1>1, PTL DEF Spec

\* onMessage hands over whole received packets, and no byte twice, whatever
\* the peer sends and however the stream is cut.
THEOREM HandsOverWholeFrames == Spec => []WholeFrames
<1>1. FrameInv => WholeFrames
  BY Zenon DEF FrameInv
<1> QED
  BY FrameInvariant, <1>1, PTL

-----------------------------------------------------------------------------
(* Resynchronisation.                                                      *)

\* One step takes a packet at a marker only, so at a start if the marker
\* occurs nowhere else.
LEMMA StartsStep ==
    ASSUME TypeOK, OnlySentStarts, Next
    PROVE  OnlySentStarts'
<1> DEFINE m == Len(packets)
           Start(p) == \E j \in 1..Len(peer.starts) : p = peer.starts[j]
<1>1. peer' = peer /\ m \in Nat
  BY Grows, Zenon
<1> SUFFICES ASSUME Transparent(peer)
             PROVE  \A k \in 1..Len(packets') : Start(packets'[k].at)
  BY <1>1, Zenon DEF OnlySentStarts
<1>2. \A k \in 1..m : Start(packets[k].at)
  BY Zenon DEF OnlySentStarts
<1>3. CASE packets' = packets
  BY <1>2, <1>3, Zenon
<1>4. ASSUME NEW p \in Nat, Marker(peer.bytes, p), p + HeadSize <= Len(peer.bytes),
             Len(packets') = m + 1,
             \A k \in 1..m : packets'[k] = packets[k],
             packets'[m + 1].at = p
      PROVE  \A k \in 1..Len(packets') : Start(packets'[k].at)
  <2>1. p \in 0..(Len(peer.bytes) - 2)
    <3> DEFINE L == Len(peer.bytes)
    <3>1. L \in Nat
      BY PeerFacts DEF TypeOK
    <3>2. p + HeadSize <= L
      BY <1>4
    <3> HIDE DEF L
    <3>3. p \in 0..(L - 2)
      BY <3>1, <3>2 DEF HeadSize
    <3> QED
      BY <3>3 DEF L
  <2>2. Start(p)
    BY <1>4, <2>1, Zenon DEF Transparent
  <2>3. \A k \in 1..(m + 1) : k \in 1..m \/ k = m + 1
    BY <1>1
  <2> QED
    BY <1>2, <1>4, <2>2, <2>3, Zenon
<1> QED
  BY <1>3, <1>4, Grows, Zenon

\* A peer whose marker occurs only where its packets start never has the
\* middle of a packet executed, whatever was lost or damaged before it.
THEOREM ResyncsAtStarts == Spec => []OnlySentStarts
<1>1. Init => OnlySentStarts
  <2>1. Init => 1..Len(packets) = {}
    BY DEF Init
  <2> QED
    BY <2>1, Zenon DEF OnlySentStarts
<1>2. TypeOK /\ OnlySentStarts /\ [Next]_vars => OnlySentStarts'
  <2> SUFFICES ASSUME TypeOK, OnlySentStarts, [Next]_vars PROVE OnlySentStarts'
    OBVIOUS
  <2>1. CASE Next
    BY <2>1, StartsStep
  <2>2. CASE UNCHANGED vars
    BY <2>2, Zenon DEF vars, OnlySentStarts
  <2> QED
    BY <2>1, <2>2
<1> QED
  BY TypeCorrect, <1>1, <1>2, PTL DEF Spec

-----------------------------------------------------------------------------
(* A waiting packet is served.                                             *)

\* A whole packet at the front is the first head, long enough and not too
\* long, whatever arrives after it.
THEOREM ServesTheFront == Spec => FrontIsServed
<1> DEFINE Waiting == /\ wr - rd >= HeadSize
                      /\ Marker(peer.bytes, rd)
                      /\ FrameEnd(peer.bytes, rd) <= wr
                      /\ wr' > wr
           Served == /\ Len(packets') = Len(packets) + 1
                     /\ packets'[Len(packets')].at = rd
<1>1. ASSUME TypeOK, Next, Waiting
      PROVE  Served
  <2> DEFINE b == peer.bytes
             L == Len(peer.bytes)
  <2>1. /\ rd \in Nat /\ wr \in Nat /\ L \in Nat /\ Bytes(b, L) /\ wr <= L
        /\ wr - rd >= 34 /\ Marker(b, rd) /\ FrameEnd(b, rd) <= wr
    BY <1>1, PeerFacts DEF TypeOK, HeadSize
  <2>2. ~OnConnectionDown
    BY <1>1, <2>1 DEF OnConnectionDown
  <2>3. ASSUME NEW end \in Nat, Threw(end)
        PROVE  FALSE
    <3> PICK stale \in StaleByte : Received(end) /\ Discard(end, stale)
      BY <2>3, Zenon DEF Threw
    <3>1. NoHead(b, rd, end, stale) /\ wr < end
      BY Zenon DEF Discard, Received
    <3>2. rd <= rd /\ rd + 1 < end
      BY <2>1, <3>1
    <3> QED
      BY <2>1, <3>1, <3>2, NoWholeMarker, Zenon
  <2>4. ASSUME NEW end \in Nat, NEW p \in Nat, NEW stale, wr < end,
               IsFirstHead(b, p, rd, end, stale)
        PROVE  p = rd
    <3>1. rd <= p /\ \A q \in Nat : rd <= q /\ q < p => ~Marker(b, q)
      <4>1. rd \in Nat /\ IsFirstHead(b, p, rd, end, stale)
        BY <2>1, <2>4, Zenon
      <4> HIDE DEF b
      <4> QED
        BY <4>1, FirstHead, Zenon
    <3> QED
      BY <2>1, <3>1
  <2>5. ASSUME NEW end \in Nat, wr < end, end <= L
        PROVE  ~TooShort(rd, end) /\ ~TooLong(b, rd, end)
    <3> HIDE DEF b, L
    <3>1. DataLength(b, rd) \in Nat
      <4>1. rd + 14 \in Nat /\ (rd + 14) + 4 <= L
        BY <2>1
      <4> QED
        BY <2>1, <4>1, ReadU32Type DEF DataLength
    <3>2. rd + 18 + DataLength(b, rd) + 16 <= wr
      BY <2>1, <3>1 DEF FrameEnd, UsedBytes, FieldBytes, VerifyBytes
    <3>3. SizeSub(SizeSub(end - rd, FieldBytes), VerifyBytes) = end - rd - 34
      BY <2>1, <2>5 DEF SizeSub, FieldBytes, VerifyBytes
    <3>4. ~TooShort(rd, end)
      BY <2>1, <2>5 DEF TooShort, HeadSize
    <3>5. ~(DataLength(b, rd) > end - rd - 34)
      BY <2>1, <2>5, <3>1, <3>2
    <3> QED
      BY <3>3, <3>4, <3>5, Zenon DEF TooLong
  <2>6. ASSUME NEW end \in Nat, Kept(end)
        PROVE  FALSE
    <3>1. PICK stale \in StaleByte, p \in Nat :
              /\ Received(end)
              /\ IsFirstHead(b, p, rd, end, stale)
              /\ TooShort(p, end) \/ TooLong(b, p, end)
      BY <2>6, Zenon DEF Kept
    <3>2. wr < end /\ end <= L
      BY <3>1, Zenon DEF Received
    <3>3. p = rd
      BY <2>4, <3>1, <3>2, Zenon
    <3> QED
      BY <2>5, <3>1, <3>2, <3>3, Zenon
  <2>7. ASSUME NEW end \in Nat, Took(end)
        PROVE  Served
    <3>1. PICK stale \in StaleByte, p \in Nat :
              /\ Received(end)
              /\ IsFirstHead(b, p, rd, end, stale)
              /\ Dispatch(p)
      BY <2>7, Zenon DEF Took
    <3>2. wr < end
      BY <3>1, Zenon DEF Received
    <3>3. p = rd
      BY <2>4, <3>1, <3>2, Zenon
    <3>4. packets' = Append(packets, [at |-> rd, packet |-> Constructed(b, rd)])
      BY <3>1, <3>3, Zenon DEF Dispatch
    <3> DEFINE e == [at |-> rd, packet |-> Constructed(b, rd)]
    <3>5. packets \in Seq(Entry) /\ e.at = rd /\ packets' = Append(packets, e)
      BY <1>1, <3>4, Zenon DEF TypeOK, Entry
    <3> HIDE DEF e
    <3>6. Len(packets') = Len(packets) + 1
      BY <3>5
    <3>7. packets'[Len(packets) + 1] = e
      BY <3>5
    <3> QED
      BY <3>5, <3>6, <3>7, Zenon
  <2> QED
    BY <1>1, <2>2, <2>3, <2>6, <2>7, Steps, Zenon
<1>2. TypeOK /\ [Next]_vars => [Waiting => Served]_vars
  BY <1>1, Zenon
<1> QED
  BY TypeCorrect, <1>2, PTL DEF Spec, FrontIsServed

-----------------------------------------------------------------------------
(* Order: with a clean peer the first head after rd is the start of the    *)
(* next packet, unless half of that packet's marker was thrown away.       *)

\* The packets of a clean peer, as numbers: where each starts and ends.
LEMMA CleanFacts ==
    ASSUME peer \in Peers, Clean(peer)
    PROVE  /\ Len(peer.starts) \in Nat
           /\ \A k \in 1..Len(peer.starts) :
                /\ peer.starts[k] \in Nat
                /\ Marker(peer.bytes, peer.starts[k])
                /\ FrameEnd(peer.bytes, peer.starts[k]) \in Nat
                /\ peer.starts[k] + HeadSize <= FrameEnd(peer.bytes, peer.starts[k])
           /\ \A j, k \in 1..Len(peer.starts) :
                j < k => FrameEnd(peer.bytes, peer.starts[j]) <= peer.starts[k]
           /\ \A p \in 0..(Len(peer.bytes) - 1) :
                peer.bytes[p + 1] = MarkByte =>
                    \E k \in 1..Len(peer.starts) :
                        peer.starts[k] <= p /\ p < FrameEnd(peer.bytes, peer.starts[k])
<1> DEFINE b == peer.bytes
           s == peer.starts
           L == Len(b)
<1>1. /\ L \in Nat /\ Bytes(b, L) /\ s \in Seq(Nat)
      /\ \A k \in 1..Len(s) : s[k] + HeadSize <= L
  BY PeerFacts, Zenon
<1>2. Len(s) \in Nat /\ \A k \in 1..Len(s) : s[k] \in Nat
  BY <1>1
<1>3. ASSUME NEW k \in 1..Len(s)
      PROVE  /\ FrameEnd(b, s[k]) \in Nat
             /\ s[k] + HeadSize <= FrameEnd(b, s[k])
  <2>1. s[k] \in Nat /\ s[k] + HeadSize <= L
    BY <1>1, <1>2, Zenon
  <2> HIDE DEF b, L, s
  <2>2. s[k] + 14 \in Nat /\ (s[k] + 14) + 4 <= L
    BY <1>1, <2>1 DEF HeadSize
  <2>3. DataLength(b, s[k]) \in Nat
    BY <1>1, <2>2, ReadU32Type, Zenon DEF DataLength
  <2> QED
    BY <2>1, <2>3 DEF FrameEnd, UsedBytes, FieldBytes, VerifyBytes, HeadSize
<1> QED
  BY <1>2, <1>3, Zenon DEF Clean

\* The first head at or after rd, before which lie the first m packets of a
\* clean peer, is the start of the next packet.
LEMMA NextStart ==
    ASSUME peer \in Peers, Clean(peer), NEW m \in Nat, NEW r \in Nat,
           m <= Len(peer.starts),
           \A k \in 1..m : FrameEnd(peer.bytes, peer.starts[k]) <= r,
           m < Len(peer.starts) => r <= peer.starts[m + 1],
           NEW p \in Nat, r <= p, p < Len(peer.bytes), peer.bytes[p + 1] = MarkByte,
           \A q \in Nat : r <= q /\ q < p => ~Marker(peer.bytes, q)
    PROVE  m < Len(peer.starts) /\ p = peer.starts[m + 1]
<1> DEFINE b == peer.bytes
           n == Len(peer.starts)
           S(k) == peer.starts[k]
           E(k) == FrameEnd(peer.bytes, peer.starts[k])
<1>1. /\ n \in Nat
      /\ \A k \in 1..n : S(k) \in Nat /\ Marker(b, S(k)) /\ E(k) \in Nat /\ S(k) + HeadSize <= E(k)
      /\ \A j, k \in 1..n : j < k => E(j) <= S(k)
  BY CleanFacts, Zenon
<1>2. p \in 0..(Len(peer.bytes) - 1)
  <2>1. Len(peer.bytes) \in Nat
    BY PeerFacts, Zenon
  <2> QED
    BY <2>1
<1>3. PICK k \in 1..n : S(k) <= p /\ p < E(k)
  BY <1>2, CleanFacts, Zenon
<1>4. /\ \A j \in 1..m : E(j) <= r
      /\ m < n => r <= S(m + 1)
      /\ m <= n
  BY Zenon
<1> HIDE DEF n, S, E
<1>5. m < k
  <2> SUFFICES ASSUME ~(m < k) PROVE FALSE
    OBVIOUS
  <2>1. k \in 1..m
    BY <1>1
  <2>2. E(k) <= r /\ E(k) \in Nat
    BY <1>1, <1>4, <2>1, Zenon
  <2> QED
    BY <1>3, <2>2
<1>6. m < n /\ m + 1 \in 1..n
  BY <1>1, <1>5
<1>7. /\ S(m + 1) \in Nat /\ Marker(b, S(m + 1)) /\ E(m + 1) \in Nat
      /\ S(m + 1) + HeadSize <= E(m + 1)
      /\ S(k) \in Nat
      /\ r <= S(m + 1)
  BY <1>1, <1>3, <1>4, <1>6, Zenon
<1>8. S(m + 1) <= p
  <2>1. CASE k = m + 1
    BY <1>3, <2>1, Zenon
  <2>2. CASE m + 1 < k
    <3>1. E(m + 1) <= S(k)
      BY <1>1, <1>3, <1>6, <2>2, Zenon
    <3> QED
      BY <1>3, <1>7, <3>1 DEF HeadSize
  <2>3. k = m + 1 \/ m + 1 < k
    BY <1>1, <1>5
  <2> QED
    BY <2>1, <2>2, <2>3, Zenon
<1>9. ~(S(m + 1) < p)
  BY <1>7, Zenon
<1>10. p = S(m + 1)
  BY <1>7, <1>8, <1>9
<1> QED
  BY <1>6, <1>10, Zenon DEF S, n

\* One step keeps the order of a clean peer's packets.
LEMMA OrderStep ==
    ASSUME FrameInv, InOrderUnlessSplit, Next
    PROVE  InOrderUnlessSplit'
<1> DEFINE b == peer.bytes
           m == Len(packets)
           n == Len(peer.starts)
           S(k) == peer.starts[k]
<1>1. /\ peer \in Peers /\ rd \in Nat /\ wr \in Nat /\ rd <= wr
      /\ wr <= Len(b) /\ Len(b) \in Nat /\ m \in Nat /\ TypeOK
  BY PeerFacts, Grows, Zenon DEF FrameInv, TypeOK
<1>2. peer' = peer
  BY <1>1, Grows, Zenon
<1> SUFFICES ASSUME Clean(peer), ~split'
             PROVE  /\ Len(packets') <= n
                    /\ \A k \in 1..Len(packets') : packets'[k].at = S(k)
                    /\ Len(packets') < n => rd' <= S(Len(packets') + 1)
  BY <1>2, Zenon DEF InOrderUnlessSplit
<1>3. ~split
  BY <1>1, Steps, TookFacts, Zenon DEF Threw, Kept, Discard, KeepPartial, OnConnectionDown
<1>4. /\ m <= n
      /\ \A k \in 1..m : packets[k].at = S(k)
      /\ m < n => rd <= S(m + 1)
  BY <1>3, Zenon DEF InOrderUnlessSplit
<1>5. \A k \in 1..m : FrameEnd(b, S(k)) <= rd
  BY <1>4, Zenon DEF FrameInv, WholeFrames
<1>6. /\ n \in Nat
      /\ \A k \in 1..n : S(k) \in Nat /\ Marker(b, S(k)) /\ FrameEnd(b, S(k)) \in Nat
      /\ \A j, k \in 1..n : j < k => FrameEnd(b, S(j)) <= S(k)
  BY <1>1, CleanFacts, Zenon
<1>7. CASE OnConnectionDown
  BY <1>4, <1>7, Zenon DEF OnConnectionDown
<1>8. ASSUME NEW end \in Nat, Threw(end)
      PROVE  packets' = packets /\ (m < n => rd' <= S(m + 1))
  <2>1. PICK stale \in StaleByte : Received(end) /\ Discard(end, stale)
    BY <1>8, Zenon DEF Threw
  <2>2. /\ NoHead(b, rd, end, stale) /\ rd' = end /\ packets' = packets
        /\ b[end] # MarkByte /\ wr < end /\ end <= Len(b)
    BY <2>1, Zenon DEF Discard, Received
  <2>3. ASSUME m < n, ~(end <= S(m + 1))
        PROVE  FALSE
    <3>1. m + 1 \in 1..n /\ rd <= S(m + 1)
      BY <1>1, <1>4, <1>6, <2>3
    <3>2. S(m + 1) \in Nat /\ Marker(b, S(m + 1))
      BY <1>6, <3>1, Zenon
    <3>3. ~(S(m + 1) + 1 < end)
      BY <1>1, <2>2, <3>1, <3>2, NoWholeMarker, Zenon
    <3>4. S(m + 1) + 1 = end
      BY <2>3, <3>2, <3>3
    <3>5. b[S(m + 1) + 1] = MarkByte
      BY <3>2, Zenon DEF Marker
    <3> QED
      BY <2>2, <3>4, <3>5, Zenon
  <2> QED
    BY <2>2, <2>3, Zenon
<1>9. ASSUME NEW end \in Nat, end <= Len(b), NEW stale, NEW p \in Nat,
             IsFirstHead(b, p, rd, end, stale)
      PROVE  m < n /\ p = S(m + 1)
  <2>1. /\ rd <= p /\ p < end
        /\ b[p + 1] = MarkByte
        /\ \A q \in Nat : rd <= q /\ q < p => ~Marker(b, q)
    <3>1. rd \in Nat /\ IsFirstHead(b, p, rd, end, stale)
      BY <1>1, <1>9, Zenon
    <3> HIDE DEF b
    <3> QED
      BY <3>1, FirstHead, Zenon
  <2>2. p < Len(b)
    <3> DEFINE L == Len(b)
    <3>1. L \in Nat /\ end <= L /\ p < end
      BY <1>1, <1>9, <2>1, Zenon
    <3> HIDE DEF L
    <3>2. p < L
      BY <3>1
    <3> QED
      BY <3>2 DEF L
  <2> QED
    BY <1>1, <1>4, <1>5, <2>1, <2>2, NextStart, Zenon
<1>10. ASSUME NEW end \in Nat, Kept(end)
       PROVE  packets' = packets /\ (m < n => rd' <= S(m + 1))
  <2>1. PICK stale \in StaleByte, p \in Nat :
            /\ Received(end)
            /\ IsFirstHead(b, p, rd, end, stale)
            /\ KeepPartial(p, end)
    BY <1>10, Zenon DEF Kept
  <2>2. p = S(m + 1)
    BY <1>9, <2>1, Zenon DEF Received
  <2>3. p <= p
    OBVIOUS
  <2> QED
    BY <2>1, <2>2, <2>3, Zenon DEF KeepPartial
<1>11. ASSUME NEW end \in Nat, Took(end)
       PROVE  /\ m < n
              /\ rd' = FrameEnd(b, S(m + 1))
              /\ Len(packets') = m + 1
              /\ \A k \in 1..m : packets'[k] = packets[k]
              /\ packets'[m + 1].at = S(m + 1)
  <2>1. PICK stale \in StaleByte, p \in Nat :
            /\ Received(end)
            /\ IsFirstHead(b, p, rd, end, stale)
            /\ Dispatch(p)
    BY <1>11, Zenon DEF Took
  <2>2. m < n /\ p = S(m + 1)
    BY <1>9, <2>1, Zenon DEF Received
  <2> DEFINE e == [at |-> p, packet |-> Constructed(b, p)]
  <2>3. packets \in Seq(Entry) /\ e.at = p /\ packets' = Append(packets, e)
    BY <1>1, <2>1, Zenon DEF TypeOK, Entry, Dispatch
  <2>4. rd' = FrameEnd(b, p)
    BY <2>1, Zenon DEF Dispatch, FrameEnd
  <2> HIDE DEF e
  <2>5. Len(packets') = m + 1
    BY <2>3
  <2>6. \A k \in 1..m : packets'[k] = packets[k]
    BY <2>3
  <2>7. packets'[m + 1] = e
    BY <2>3
  <2> QED
    BY <2>2, <2>3, <2>4, <2>5, <2>6, <2>7, Zenon
<1>12. ASSUME NEW end \in Nat, Took(end)
       PROVE  /\ Len(packets') <= n
              /\ \A k \in 1..Len(packets') : packets'[k].at = S(k)
              /\ Len(packets') < n => rd' <= S(Len(packets') + 1)
  <2>1. m < n
    BY <1>11, <1>12, Zenon
  <2> HIDE DEF m, n
  <2>2. m + 1 \in 1..n /\ m + 1 <= n
    BY <1>1, <1>6, <2>1
  <2>3. m + 1 < n => m + 1 < (m + 1) + 1 /\ (m + 1) + 1 \in 1..n
    BY <1>1, <1>6
  <2>4. \A k \in 1..(m + 1) : k \in 1..m \/ k = m + 1
    BY <1>1
  <2> QED
    BY <1>4, <1>6, <1>11, <1>12, <2>2, <2>3, <2>4, Zenon
<1> QED
  BY <1>1, <1>4, <1>7, <1>8, <1>10, <1>12, Steps, Zenon

\* A peer that sends whole packets has them executed in the order sent, none
\* skipped and none twice, as long as no half marker was thrown away.
THEOREM InOrder == Spec => []InOrderUnlessSplit
<1>1. Init => InOrderUnlessSplit
  <2> SUFFICES ASSUME Init, Clean(peer) PROVE InOrderUnlessSplit
    BY Zenon DEF InOrderUnlessSplit
  <2>1. peer \in Peers /\ Len(packets) = 0 /\ rd = 0 /\ 1..Len(packets) = {}
    BY DEF Init
  <2>2. Len(peer.starts) \in Nat /\ \A k \in 1..Len(peer.starts) : peer.starts[k] \in Nat
    BY <2>1, CleanFacts, Zenon
  <2>3. 0 <= Len(peer.starts)
    BY <2>2
  <2>4. 0 < Len(peer.starts) => 0 <= peer.starts[0 + 1]
    BY <2>2
  <2> QED
    BY <2>1, <2>3, <2>4 DEF InOrderUnlessSplit
<1>2. FrameInv /\ InOrderUnlessSplit /\ [Next]_vars => InOrderUnlessSplit'
  <2> SUFFICES ASSUME FrameInv, InOrderUnlessSplit, [Next]_vars PROVE InOrderUnlessSplit'
    OBVIOUS
  <2>1. CASE Next
    BY <2>1, OrderStep
  <2>2. CASE UNCHANGED vars
    BY <2>2, Zenon DEF vars, InOrderUnlessSplit
  <2> QED
    BY <2>1, <2>2
<1> QED
  BY FrameInvariant, <1>1, <1>2, PTL DEF Spec

-----------------------------------------------------------------------------
(* ConstructData undoes Data().                                            *)

\* The halves of a 32-bit number and of a 16-bit one.
Upper(v) == v \div 65536
Lower(v) == v % 65536
High(v) == v \div 256
Low(v) == v % 256

\* The two bytes of a number make the number.
LEMMA Word16 ==
    ASSUME NEW v \in Nat
    PROVE  High(v) \in Nat /\ Low(v) \in Nat /\ ShiftIn(High(v), Low(v)) = v
BY DEF ShiftIn, High, Low

\* So do the four.
LEMMA Word32 ==
    ASSUME NEW v \in Nat
    PROVE  /\ Upper(v) \in Nat /\ Lower(v) \in Nat
           /\ ShiftIn(ShiftIn(ShiftIn(High(Upper(v)), Low(Upper(v))), High(Lower(v))), Low(Lower(v))) = v
<1>1. Upper(v) \in Nat /\ Lower(v) \in Nat /\ Upper(v) * 65536 + Lower(v) = v
  BY DEF Upper, Lower
<1>2. ShiftIn(High(Upper(v)), Low(Upper(v))) = Upper(v)
  BY <1>1, Word16
<1>3. High(Lower(v)) \in Nat /\ Low(Lower(v)) \in Nat /\ ShiftIn(High(Lower(v)), Low(Lower(v))) = Lower(v)
  BY <1>1, Word16
<1>4. ASSUME NEW x \in Nat, NEW y \in Nat, NEW z \in Nat, NEW l \in Nat, y * 256 + z = l
      PROVE  (x * 256 + y) * 256 + z = x * 65536 + l
  BY <1>4
<1>5. ShiftIn(ShiftIn(Upper(v), High(Lower(v))), Low(Lower(v))) = Upper(v) * 65536 + Lower(v)
  BY <1>1, <1>3, <1>4 DEF ShiftIn
<1> QED
  BY <1>1, <1>2, <1>5

\* A sequence of two.
LEMMA Pair ==
    ASSUME NEW a \in Nat, NEW b \in Nat
    PROVE  <<a, b>> \in Seq(Nat) /\ Len(<<a, b>>) = 2 /\ <<a, b>>[1] = a /\ <<a, b>>[2] = b
OBVIOUS

\* What is joined is behind what it is joined to.
LEMMA JoinedSeq ==
    ASSUME NEW s \in Seq(Nat), NEW t \in Seq(Nat)
    PROVE  /\ s \o t \in Seq(Nat) /\ Len(s \o t) = Len(s) + Len(t)
           /\ \A i \in 1..Len(s) : (s \o t)[i] = s[i]
           /\ \A i \in 1..Len(t) : (s \o t)[Len(s) + i] = t[i]
OBVIOUS

\* A sequence of bytes is one of numbers.
LEMMA NatSeq == ASSUME NEW s \in Seq(Byte) PROVE s \in Seq(Nat)
<1>1. Len(s) \in Nat /\ s \in [1..Len(s) -> Byte]
  OBVIOUS
<1>a. \A x \in Byte : x \in Nat
  BY DEF Byte
<1>2. s \in [1..Len(s) -> Nat]
  BY <1>1, <1>a
<1> QED
  BY <1>1, <1>2

\* htons.
LEMMA TwoWide ==
    ASSUME NEW v \in Nat
    PROVE  /\ U16(v) \in Seq(Nat) /\ Len(U16(v)) = 2
           /\ U16(v)[1] = High(v) /\ U16(v)[2] = Low(v)
<1>1. High(v) \in Nat /\ Low(v) \in Nat
  BY Word16
<1>2. U16(v) = <<High(v), Low(v)>>
  BY DEF U16, High, Low
<1> QED
  BY <1>1, <1>2, Pair

\* htonl.
LEMMA FourWide ==
    ASSUME NEW v \in Nat
    PROVE  /\ U32(v) \in Seq(Nat) /\ Len(U32(v)) = 4
           /\ U32(v)[1] = High(Upper(v)) /\ U32(v)[2] = Low(Upper(v))
           /\ U32(v)[3] = High(Lower(v)) /\ U32(v)[4] = Low(Lower(v))
<1> DEFINE s == U16(Upper(v))
           t == U16(Lower(v))
           w == U32(v)
<1>1. Upper(v) \in Nat /\ Lower(v) \in Nat
  BY Word32
<1>2. /\ s \in Seq(Nat) /\ Len(s) = 2 /\ s[1] = High(Upper(v)) /\ s[2] = Low(Upper(v))
      /\ t \in Seq(Nat) /\ Len(t) = 2 /\ t[1] = High(Lower(v)) /\ t[2] = Low(Lower(v))
  BY <1>1, TwoWide, Zenon
<1>3. w = s \o t
  BY DEF U32, Upper, Lower
<1> HIDE DEF s, t, w
<1>4. /\ w \in Seq(Nat) /\ Len(w) = Len(s) + Len(t)
      /\ \A i \in 1..Len(s) : w[i] = s[i]
      /\ \A i \in 1..Len(t) : w[Len(s) + i] = t[i]
  BY <1>2, <1>3, JoinedSeq, Zenon
<1>5. w \in Seq(Nat) /\ Len(w) = 4 /\ w[1] = s[1] /\ w[2] = s[2] /\ w[3] = t[1] /\ w[4] = t[2]
  BY <1>2, <1>4
<1> QED
  BY <1>2, <1>5, Zenon DEF w

\* w begins with s.
Begins(w, s) == \A i \in 1..Len(s) : w[i] = s[i]

\* t comes behind s in j.
Behind(j, s, t) ==
    /\ j \in Seq(Nat) /\ Len(j) = Len(s) + Len(t)
    /\ \A i \in 1..Len(t) : j[Len(s) + i] = t[i]
    /\ \A w : Begins(w, j) => Begins(w, s)

\* Joining puts one behind the other.
LEMMA PutBehind ==
    ASSUME NEW s \in Seq(Nat), NEW t \in Seq(Nat)
    PROVE  Behind(s \o t, s, t)
<1> DEFINE j == s \o t
<1>1. /\ j \in Seq(Nat) /\ Len(j) = Len(s) + Len(t) /\ Len(s) \in Nat /\ Len(t) \in Nat
      /\ \A i \in 1..Len(s) : j[i] = s[i]
      /\ \A i \in 1..Len(t) : j[Len(s) + i] = t[i]
  BY JoinedSeq
<1> HIDE DEF j
<1>2. \A i \in 1..Len(s) : i \in 1..Len(j)
  BY <1>1
<1>3. \A w : Begins(w, j) => Begins(w, s)
  BY <1>1, <1>2, Zenon DEF Begins
<1> QED
  BY <1>1, <1>3, Zenon DEF j, Behind

\* The fields of a packet are numbers.
LEMMA FieldsAreNumbers ==
    ASSUME NEW k \in PacketType
    PROVE  /\ k.head \in Nat /\ k.cmdType \in Nat /\ k.itemType \in Nat /\ k.msgVersion \in Nat
           /\ k.cypherModel \in Nat /\ k.veryfyModel \in Nat /\ k.saveCmd \in Nat
<1>1. /\ k.head \in Word /\ k.cmdType \in Word /\ k.itemType \in Word /\ k.msgVersion \in Word
      /\ k.cypherModel \in Byte /\ k.veryfyModel \in Byte /\ k.saveCmd \in Nat
  BY DEF PacketType
<1>2. (\A x \in Word : x \in Nat) /\ (\A x \in Byte : x \in Nat)
  BY DEF Word, WordMax, Byte
<1> QED
  BY <1>1, <1>2, Zenon

\* Where Data() puts the fields.
LEMMA Wire ==
    ASSUME NEW k \in PacketType, Len(k.veryfyData) = VerifyBytes
    PROVE  LET w == Data(k)
               n == Len(k.data)
           IN  /\ n \in Nat /\ Len(w) = n + HeadSize
               /\ w[1] = High(k.head) /\ w[2] = Low(k.head)
               /\ w[3] = High(k.cmdType) /\ w[4] = Low(k.cmdType)
               /\ w[5] = High(k.itemType) /\ w[6] = Low(k.itemType)
               /\ w[7] = High(k.msgVersion) /\ w[8] = Low(k.msgVersion)
               /\ w[9] = k.cypherModel /\ w[10] = k.veryfyModel
               /\ w[11] = High(Upper(k.saveCmd)) /\ w[12] = Low(Upper(k.saveCmd))
               /\ w[13] = High(Lower(k.saveCmd)) /\ w[14] = Low(Lower(k.saveCmd))
               /\ w[15] = High(Upper(n)) /\ w[16] = Low(Upper(n))
               /\ w[17] = High(Lower(n)) /\ w[18] = Low(Lower(n))
               /\ \A i \in 1..n : w[FieldBytes + i] = k.data[i]
               /\ \A i \in 1..VerifyBytes : w[FieldBytes + n + i] = k.veryfyData[i]
<1> DEFINE n == Len(k.data)
           w1 == U16(k.head)
           w2 == w1 \o U16(k.cmdType)
           w3 == w2 \o U16(k.itemType)
           w4 == w3 \o U16(k.msgVersion)
           w5 == w4 \o <<k.cypherModel, k.veryfyModel>>
           w6 == w5 \o U32(k.saveCmd)
           w7 == w6 \o U32(n)
           w8 == w7 \o k.data
           w == Data(k)
<1>1. /\ k.head \in Nat /\ k.cmdType \in Nat /\ k.itemType \in Nat /\ k.msgVersion \in Nat
      /\ k.cypherModel \in Nat /\ k.veryfyModel \in Nat /\ k.saveCmd \in Nat
  BY FieldsAreNumbers, Zenon
<1>2. k.data \in Seq(Nat) /\ k.veryfyData \in Seq(Nat) /\ n \in Nat
  <2>1. k.data \in Seq(Byte) /\ k.veryfyData \in Seq(Byte)
    BY DEF PacketType
  <2>2. n \in Nat
    BY <2>1
  <2> QED
    BY <2>1, <2>2, NatSeq, Zenon
<1>3. w = w8 \o k.veryfyData
  BY Zenon DEF Data
<1>5. w1 \in Seq(Nat) /\ Len(w1) = 2 /\ w1[1] = High(k.head) /\ w1[2] = Low(k.head)
  BY <1>1, TwoWide, Zenon
<1> HIDE DEF w1
<1>6. /\ w2 \in Seq(Nat) /\ Len(w2) = 4 /\ \A v : Begins(v, w2) => Begins(v, w1)
      /\ w2[3] = High(k.cmdType) /\ w2[4] = Low(k.cmdType)
  <2> DEFINE t == U16(k.cmdType)
  <2>1. /\ t \in Seq(Nat) /\ Len(t) = 2
        /\ t[1] = High(k.cmdType) /\ t[2] = Low(k.cmdType)
    BY <1>1, TwoWide, Zenon
  <2> HIDE DEF t
  <2>2. Behind(w2, w1, t)
    BY <1>5, <2>1, PutBehind, Zenon DEF t
  <2> HIDE DEF w2
  <2> QED
    BY <1>5, <2>1, <2>2 DEF Behind
<1> HIDE DEF w2
<1>7. /\ w3 \in Seq(Nat) /\ Len(w3) = 6 /\ \A v : Begins(v, w3) => Begins(v, w2)
      /\ w3[5] = High(k.itemType) /\ w3[6] = Low(k.itemType)
  <2> DEFINE t == U16(k.itemType)
  <2>1. /\ t \in Seq(Nat) /\ Len(t) = 2
        /\ t[1] = High(k.itemType) /\ t[2] = Low(k.itemType)
    BY <1>1, TwoWide, Zenon
  <2> HIDE DEF t
  <2>2. Behind(w3, w2, t)
    BY <1>6, <2>1, PutBehind, Zenon DEF t
  <2> HIDE DEF w3
  <2> QED
    BY <1>6, <2>1, <2>2 DEF Behind
<1> HIDE DEF w3
<1>8. /\ w4 \in Seq(Nat) /\ Len(w4) = 8 /\ \A v : Begins(v, w4) => Begins(v, w3)
      /\ w4[7] = High(k.msgVersion) /\ w4[8] = Low(k.msgVersion)
  <2> DEFINE t == U16(k.msgVersion)
  <2>1. /\ t \in Seq(Nat) /\ Len(t) = 2
        /\ t[1] = High(k.msgVersion) /\ t[2] = Low(k.msgVersion)
    BY <1>1, TwoWide, Zenon
  <2> HIDE DEF t
  <2>2. Behind(w4, w3, t)
    BY <1>7, <2>1, PutBehind, Zenon DEF t
  <2> HIDE DEF w4
  <2> QED
    BY <1>7, <2>1, <2>2 DEF Behind
<1> HIDE DEF w4
<1>9. /\ w5 \in Seq(Nat) /\ Len(w5) = 10 /\ \A v : Begins(v, w5) => Begins(v, w4)
      /\ w5[9] = k.cypherModel /\ w5[10] = k.veryfyModel
  <2> DEFINE t == <<k.cypherModel, k.veryfyModel>>
  <2>1. /\ t \in Seq(Nat) /\ Len(t) = 2
        /\ t[1] = k.cypherModel /\ t[2] = k.veryfyModel
    BY <1>1, Pair
  <2> HIDE DEF t
  <2>2. Behind(w5, w4, t)
    BY <1>8, <2>1, PutBehind, Zenon DEF t
  <2> HIDE DEF w5
  <2> QED
    BY <1>8, <2>1, <2>2 DEF Behind
<1> HIDE DEF w5
<1>10. /\ w6 \in Seq(Nat) /\ Len(w6) = 14 /\ \A v : Begins(v, w6) => Begins(v, w5)
      /\ w6[11] = High(Upper(k.saveCmd)) /\ w6[12] = Low(Upper(k.saveCmd))
      /\ w6[13] = High(Lower(k.saveCmd)) /\ w6[14] = Low(Lower(k.saveCmd))
  <2> DEFINE t == U32(k.saveCmd)
  <2>1. /\ t \in Seq(Nat) /\ Len(t) = 4
        /\ t[1] = High(Upper(k.saveCmd)) /\ t[2] = Low(Upper(k.saveCmd))
        /\ t[3] = High(Lower(k.saveCmd)) /\ t[4] = Low(Lower(k.saveCmd))
    BY <1>1, <1>2, FourWide, Zenon
  <2> HIDE DEF t
  <2>2. Behind(w6, w5, t)
    BY <1>9, <2>1, PutBehind, Zenon DEF t
  <2> HIDE DEF w6
  <2> QED
    BY <1>9, <2>1, <2>2 DEF Behind
<1> HIDE DEF w6
<1>11. /\ w7 \in Seq(Nat) /\ Len(w7) = 18 /\ \A v : Begins(v, w7) => Begins(v, w6)
      /\ w7[15] = High(Upper(n)) /\ w7[16] = Low(Upper(n))
      /\ w7[17] = High(Lower(n)) /\ w7[18] = Low(Lower(n))
  <2> DEFINE t == U32(n)
  <2>1. /\ t \in Seq(Nat) /\ Len(t) = 4
        /\ t[1] = High(Upper(n)) /\ t[2] = Low(Upper(n))
        /\ t[3] = High(Lower(n)) /\ t[4] = Low(Lower(n))
    BY <1>1, <1>2, FourWide, Zenon
  <2> HIDE DEF t
  <2>2. Behind(w7, w6, t)
    BY <1>10, <2>1, PutBehind, Zenon DEF t
  <2> HIDE DEF w7
  <2> QED
    BY <1>10, <2>1, <2>2 DEF Behind
<1> HIDE DEF w7
<1>12. /\ w8 \in Seq(Nat) /\ Len(w8) = 18 + n /\ \A i \in 1..n : w8[18 + i] = k.data[i]
       /\ \A v : Begins(v, w8) => Begins(v, w7)
  <2>1. Behind(w8, w7, k.data)
    BY <1>2, <1>11, PutBehind, Zenon
  <2> HIDE DEF w8
  <2> QED
    BY <1>2, <1>11, <2>1 DEF Behind
<1> HIDE DEF w8
<1>13. /\ Len(w) = 18 + n + 16 /\ \A i \in 1..16 : w[18 + n + i] = k.veryfyData[i]
       /\ Begins(w, w8)
  <2>1. Behind(w, w8, k.veryfyData)
    BY <1>2, <1>3, <1>12, PutBehind, Zenon
  <2>2. Len(k.veryfyData) = 16
    BY DEF VerifyBytes
  <2> HIDE DEF w, n
  <2>3. Begins(w, w)
    BY Zenon DEF Begins
  <2> QED
    BY <1>2, <1>12, <2>1, <2>2, <2>3 DEF Behind
<1> HIDE DEF w, n
<1>14. /\ Begins(w, w7) /\ Begins(w, w6) /\ Begins(w, w5) /\ Begins(w, w4) /\ Begins(w, w3) /\ Begins(w, w2)
       /\ Begins(w, w1)
  BY <1>6, <1>7, <1>8, <1>9, <1>10, <1>11, <1>12, <1>13, Zenon
<1>15. w[1] = w1[1] /\ w[2] = w1[2]
  BY <1>5, <1>14 DEF Begins
<1>16. w[3] = w2[3] /\ w[4] = w2[4]
  BY <1>6, <1>14 DEF Begins
<1>17. w[5] = w3[5] /\ w[6] = w3[6]
  BY <1>7, <1>14 DEF Begins
<1>18. w[7] = w4[7] /\ w[8] = w4[8]
  BY <1>8, <1>14 DEF Begins
<1>19. w[9] = w5[9] /\ w[10] = w5[10]
  BY <1>9, <1>14 DEF Begins
<1>20. w[11] = w6[11] /\ w[12] = w6[12] /\ w[13] = w6[13] /\ w[14] = w6[14]
  <2>1. 11 \in 1..Len(w6) /\ 12 \in 1..Len(w6) /\ 13 \in 1..Len(w6) /\ 14 \in 1..Len(w6)
    BY <1>10
  <2> QED
    BY <1>14, <2>1, Zenon DEF Begins
<1>21. w[15] = w7[15] /\ w[16] = w7[16] /\ w[17] = w7[17] /\ w[18] = w7[18]
  <2>1. 15 \in 1..Len(w7) /\ 16 \in 1..Len(w7) /\ 17 \in 1..Len(w7) /\ 18 \in 1..Len(w7)
    BY <1>11
  <2> QED
    BY <1>14, <2>1, Zenon DEF Begins
<1>22. /\ Len(w) = n + HeadSize
       /\ \A i \in 1..n : w[FieldBytes + i] = k.data[i]
       /\ \A i \in 1..VerifyBytes : w[FieldBytes + n + i] = k.veryfyData[i]
  <2>1. Len(w) = n + 34 /\ \A i \in 1..n : 18 + i \in 1..(18 + n)
    BY <1>2, <1>13
  <2>2. \A i \in 1..n : w[18 + i] = k.data[i]
    BY <1>12, <1>13, <2>1, Zenon DEF Begins
  <2> QED
    BY <1>13, <2>1, <2>2, Zenon DEF HeadSize, FieldBytes, VerifyBytes
<1> QED
  BY <1>2, <1>5, <1>6, <1>7, <1>8, <1>9, <1>10, <1>11, <1>15, <1>16, <1>17, <1>18, <1>19, <1>20, <1>21, <1>22, Zenon DEF w, n

\* ConstructData on bytes that Data() made of a packet: every field is the
\* packet's.
LEMMA Decoded ==
    ASSUME NEW k \in PacketType, Len(k.veryfyData) = VerifyBytes,
           NEW b, NEW p \in Nat,
           \A i \in 1..Len(Data(k)) : b[p + i] = Data(k)[i]
    PROVE  /\ ReadU16(b, p) = k.head /\ ReadU16(b, p + 2) = k.cmdType
           /\ ReadU16(b, p + 4) = k.itemType /\ ReadU16(b, p + 6) = k.msgVersion
           /\ b[p + 9] = k.cypherModel /\ b[p + 10] = k.veryfyModel
           /\ ReadU32(b, p + 10) = k.saveCmd
           /\ DataLength(b, p) = Len(k.data)
<1> DEFINE w == Data(k)
           n == Len(k.data)
<1>1. k.head \in Nat /\ k.cmdType \in Nat /\ k.itemType \in Nat /\ k.msgVersion \in Nat /\ k.saveCmd \in Nat
  BY FieldsAreNumbers, Zenon
<1>2. /\ n \in Nat /\ Len(w) = n + HeadSize
      /\ w[1] = High(k.head) /\ w[2] = Low(k.head)
      /\ w[3] = High(k.cmdType) /\ w[4] = Low(k.cmdType)
      /\ w[5] = High(k.itemType) /\ w[6] = Low(k.itemType)
      /\ w[7] = High(k.msgVersion) /\ w[8] = Low(k.msgVersion)
      /\ w[9] = k.cypherModel /\ w[10] = k.veryfyModel
      /\ w[11] = High(Upper(k.saveCmd)) /\ w[12] = Low(Upper(k.saveCmd))
      /\ w[13] = High(Lower(k.saveCmd)) /\ w[14] = Low(Lower(k.saveCmd))
      /\ w[15] = High(Upper(n)) /\ w[16] = Low(Upper(n))
      /\ w[17] = High(Lower(n)) /\ w[18] = Low(Lower(n))
  BY Wire, Zenon
<1>3. \A i \in 1..Len(w) : b[p + i] = w[i]
  OBVIOUS
<1> HIDE DEF w, n
<1>4. \A i \in 1..18 : b[p + i] = w[i]
  <2>1. n \in Nat /\ Len(w) = n + HeadSize
    BY <1>2, Zenon
  <2>2. \A i \in 1..18 : i \in 1..(n + HeadSize)
    BY <2>1 DEF HeadSize
  <2> QED
    BY <1>3, <2>1, <2>2, Zenon
<1>5. ASSUME NEW q \in Nat, NEW i \in Nat, NEW x \in Nat, q = p + i, i <= 16,
             w[i + 1] = High(x), w[i + 2] = Low(x)
      PROVE  ReadU16(b, q) = x
  <2>1. b[q + 1] = w[i + 1] /\ b[q + 2] = w[i + 2]
    <3>1. i + 1 \in 1..18 /\ i + 2 \in 1..18 /\ p + (i + 1) = q + 1 /\ p + (i + 2) = q + 2
      BY <1>5
    <3>2. b[p + (i + 1)] = w[i + 1] /\ b[p + (i + 2)] = w[i + 2]
      BY <1>4, <3>1, Zenon
    <3> QED
      BY <3>1, <3>2, Zenon
  <2> QED
    BY <1>5, <2>1, Word16, Zenon DEF ReadU16
<1>6. ASSUME NEW q \in Nat, NEW i \in Nat, NEW x \in Nat, q = p + i, i <= 14,
             w[i + 1] = High(Upper(x)), w[i + 2] = Low(Upper(x)), w[i + 3] = High(Lower(x)), w[i + 4] = Low(Lower(x))
      PROVE  ReadU32(b, q) = x
  <2>1. b[q + 1] = w[i + 1] /\ b[q + 2] = w[i + 2] /\ b[q + 3] = w[i + 3] /\ b[q + 4] = w[i + 4]
    <3>1. /\ i + 1 \in 1..18 /\ i + 2 \in 1..18 /\ i + 3 \in 1..18 /\ i + 4 \in 1..18
          /\ p + (i + 1) = q + 1 /\ p + (i + 2) = q + 2 /\ p + (i + 3) = q + 3 /\ p + (i + 4) = q + 4
      BY <1>6
    <3>2. /\ b[p + (i + 1)] = w[i + 1] /\ b[p + (i + 2)] = w[i + 2]
          /\ b[p + (i + 3)] = w[i + 3] /\ b[p + (i + 4)] = w[i + 4]
      BY <1>4, <3>1, Zenon
    <3> QED
      BY <3>1, <3>2, Zenon
  <2> QED
    BY <1>6, <2>1, Word32, Zenon DEF ReadU32
<1>7. ReadU16(b, p) = k.head
  <2>1. p \in Nat /\ p = p + 0 /\ 0 \in Nat /\ 0 <= 16 /\ w[0 + 1] = High(k.head) /\ w[0 + 2] = Low(k.head)
    BY <1>2
  <2> QED
    BY <1>1, <1>5, <2>1, Zenon
<1>8. ReadU16(b, p + 2) = k.cmdType
  <2>1. p + 2 \in Nat /\ 2 \in Nat /\ 2 <= 16 /\ w[2 + 1] = High(k.cmdType) /\ w[2 + 2] = Low(k.cmdType)
    BY <1>2
  <2> QED
    BY <1>1, <1>5, <2>1, Zenon
<1>9. ReadU16(b, p + 4) = k.itemType
  <2>1. p + 4 \in Nat /\ 4 \in Nat /\ 4 <= 16 /\ w[4 + 1] = High(k.itemType) /\ w[4 + 2] = Low(k.itemType)
    BY <1>2
  <2> QED
    BY <1>1, <1>5, <2>1, Zenon
<1>10. ReadU16(b, p + 6) = k.msgVersion
  <2>1. p + 6 \in Nat /\ 6 \in Nat /\ 6 <= 16 /\ w[6 + 1] = High(k.msgVersion) /\ w[6 + 2] = Low(k.msgVersion)
    BY <1>2
  <2> QED
    BY <1>1, <1>5, <2>1, Zenon
<1>11. b[p + 9] = k.cypherModel /\ b[p + 10] = k.veryfyModel
  BY <1>2, <1>4
<1>12. ReadU32(b, p + 10) = k.saveCmd
  <2>1. /\ p + 10 \in Nat /\ 10 \in Nat /\ 10 <= 14
        /\ w[10 + 1] = High(Upper(k.saveCmd)) /\ w[10 + 2] = Low(Upper(k.saveCmd))
        /\ w[10 + 3] = High(Lower(k.saveCmd)) /\ w[10 + 4] = Low(Lower(k.saveCmd))
    BY <1>2
  <2> QED
    BY <1>1, <1>6, <2>1, ZenonT(40)
<1>13. DataLength(b, p) = n
  <2>1. /\ p + 14 \in Nat /\ 14 \in Nat /\ 14 <= 14
        /\ w[14 + 1] = High(Upper(n)) /\ w[14 + 2] = Low(Upper(n))
        /\ w[14 + 3] = High(Lower(n)) /\ w[14 + 4] = Low(Lower(n))
    BY <1>2
  <2> QED
    BY <1>2, <1>6, <2>1, Zenon DEF DataLength
<1> QED
  BY <1>7, <1>8, <1>9, <1>10, <1>11, <1>12, <1>13, Zenon DEF n

\* The elements behind a of a sequence, m of them.
LEMMA PartIs ==
    ASSUME NEW b \in Seq(Byte), NEW a \in Nat, NEW t \in Seq(Byte), a + Len(t) <= Len(b),
           \A i \in 1..Len(t) : b[a + i] = t[i]
    PROVE  SubSeq(b, a + 1, a + Len(t)) = t
<1> DEFINE m == Len(t)
           s == SubSeq(b, a + 1, a + m)
<1>1. m \in Nat /\ Len(b) \in Nat
  OBVIOUS
<1>2. s \in Seq(Byte) /\ Len(s) = m /\ \A i \in 1..m : s[i] = b[a + i]
  <2>1. a + 1 \in Nat /\ a + m \in Nat /\ 1 <= a + 1 /\ a + m <= Len(b) /\ a + 1 <= (a + m) + 1
    BY <1>1
  <2> HIDE DEF m
  <2> QED
    BY <1>1, <2>1
<1>3. \A i \in 1..m : s[i] = t[i]
  BY <1>2, Zenon
<1> HIDE DEF s
<1>4. s = t
  BY <1>2, <1>3
<1> QED
  BY <1>4, Zenon DEF s

\* ... so that the packet is the one that was encoded.
LEMMA DecodedPacket ==
    ASSUME NEW k \in PacketType, Len(k.veryfyData) = VerifyBytes,
           NEW b \in Seq(Byte), NEW p \in Nat, p + UsedBytes(b, p) <= Len(b),
           \A i \in 1..Len(Data(k)) : b[p + i] = Data(k)[i]
    PROVE  Constructed(b, p) = k
<1> DEFINE w == Data(k)
           n == Len(k.data)
           from == p + FieldBytes
<1>1. /\ ReadU16(b, p) = k.head /\ ReadU16(b, p + 2) = k.cmdType
      /\ ReadU16(b, p + 4) = k.itemType /\ ReadU16(b, p + 6) = k.msgVersion
      /\ b[p + 9] = k.cypherModel /\ b[p + 10] = k.veryfyModel
      /\ ReadU32(b, p + 10) = k.saveCmd
      /\ DataLength(b, p) = n
  BY Decoded, Zenon
<1>2. /\ n \in Nat /\ Len(w) = n + HeadSize
      /\ \A i \in 1..n : w[FieldBytes + i] = k.data[i]
      /\ \A i \in 1..VerifyBytes : w[FieldBytes + n + i] = k.veryfyData[i]
  BY Wire, Zenon
<1>3. k.data \in Seq(Byte) /\ k.veryfyData \in Seq(Byte)
  BY DEF PacketType
<1>4. \A i \in 1..Len(w) : b[p + i] = w[i]
  OBVIOUS
<1> HIDE DEF w, n, from
<1>5. Len(b) \in Nat /\ from \in Nat /\ (from + n) + VerifyBytes <= Len(b)
  <2>1. Len(b) \in Nat
    OBVIOUS
  <2>2. p + (FieldBytes + n + VerifyBytes) <= Len(b)
    BY <1>1, Zenon DEF UsedBytes
  <2> DEFINE L == Len(b)
  <2> HIDE DEF L
  <2>3. L \in Nat /\ p + (18 + n + 16) <= L
    BY <2>1, <2>2 DEF L, FieldBytes, VerifyBytes
  <2>4. p + 18 \in Nat /\ ((p + 18) + n) + 16 <= L
    BY <1>2, <2>3
  <2> QED
    BY <2>3, <2>4, Zenon DEF L, from, FieldBytes, VerifyBytes
<1>6. \A i \in 1..n : b[from + i] = k.data[i]
  <2>1. \A i \in 1..n : FieldBytes + i \in 1..Len(w) /\ from + i = p + (FieldBytes + i)
    BY <1>2 DEF HeadSize, FieldBytes, from
  <2> QED
    BY <1>2, <1>4, <2>1, Zenon
<1>7. \A i \in 1..VerifyBytes : b[(from + n) + i] = k.veryfyData[i]
  <2>1. \A i \in 1..VerifyBytes : /\ FieldBytes + n + i \in 1..Len(w)
                                  /\ (from + n) + i = p + (FieldBytes + n + i)
    BY <1>2 DEF HeadSize, FieldBytes, VerifyBytes, from
  <2> QED
    BY <1>2, <1>4, <2>1, ZenonT(40)
<1>8. SubSeq(b, from + 1, from + n) = k.data
  <2>1. from + Len(k.data) <= Len(b)
    BY <1>2, <1>5 DEF n, VerifyBytes
  <2> QED
    BY <1>3, <1>5, <1>6, <2>1, PartIs, Zenon DEF n
<1>9. SubSeq(b, (from + n) + 1, (from + n) + VerifyBytes) = k.veryfyData
  <2>1. from + n \in Nat
    BY <1>2, <1>5
  <2> QED
    BY <1>3, <1>5, <1>7, <2>1, PartIs, Zenon
<1>10. Constructed(b, p) =
          [ head |-> k.head, cmdType |-> k.cmdType, itemType |-> k.itemType, msgVersion |-> k.msgVersion,
            cypherModel |-> k.cypherModel, veryfyModel |-> k.veryfyModel, saveCmd |-> k.saveCmd,
            data |-> k.data, veryfyData |-> k.veryfyData ]
  BY <1>1, <1>8, <1>9, Zenon DEF Constructed, from
<1> QED
  BY <1>10 DEF PacketType

-----------------------------------------------------------------------------
(* What is delivered.                                                      *)

\* Each packet handed over is what ConstructData makes of the bytes at its
\* offset.
AsFound ==
    \A k \in 1..Len(packets) : packets[k].packet = Constructed(peer.bytes, packets[k].at)

\* One step adds a packet as it found it.
LEMMA FoundStep ==
    ASSUME TypeOK, AsFound, Next
    PROVE  AsFound'
<1> DEFINE m == Len(packets)
           Found(e) == e.packet = Constructed(peer.bytes, e.at)
<1>1. peer' = peer /\ m \in Nat
  BY Grows, Zenon
<1>2. \A k \in 1..m : Found(packets[k])
  BY Zenon DEF AsFound
<1>3. CASE packets' = packets
  BY <1>1, <1>3, Zenon DEF AsFound
<1>4. ASSUME NEW p \in Nat,
             Len(packets') = m + 1,
             \A k \in 1..m : packets'[k] = packets[k],
             packets'[m + 1].at = p,
             packets'[m + 1].packet = Constructed(peer.bytes, p)
      PROVE  AsFound'
  <2>1. \A k \in 1..(m + 1) : k \in 1..m \/ k = m + 1
    BY <1>1
  <2>2. \A k \in 1..Len(packets') : Found(packets'[k])
    BY <1>2, <1>4, <2>1, Zenon
  <2> QED
    BY <1>1, <2>2, Zenon DEF AsFound
<1> QED
  BY <1>3, <1>4, Grows, Zenon

\* Moving and copying a packet changes none of its members.
LEMMA PassedOn ==
    ASSUME NEW k \in PacketType
    PROVE  Moved(k) = k /\ Copied(k) = k
BY DEF PacketType, Moved, Copied

\* What ExcuteTask gets is in every field the packet that Data() encoded, if
\* the stream has that packet at the offset, for every packet, whatever comes
\* before and behind it and however the stream is cut.
THEOREM DecodesWhatWasEncoded == Spec => []DeliveredAsSent
<1>1. Init => AsFound
  <2>1. Init => 1..Len(packets) = {}
    BY DEF Init
  <2> QED
    BY <2>1, Zenon DEF AsFound
<1>2. TypeOK /\ AsFound /\ [Next]_vars => AsFound'
  <2> SUFFICES ASSUME TypeOK, AsFound, [Next]_vars PROVE AsFound'
    OBVIOUS
  <2>1. CASE Next
    BY <2>1, FoundStep
  <2>2. CASE UNCHANGED vars
    BY <2>2, Zenon DEF vars, AsFound
  <2> QED
    BY <2>1, <2>2
<1>3. FrameInv /\ AsFound => DeliveredAsSent
  <2> SUFFICES ASSUME FrameInv, AsFound,
                      NEW k \in 1..Len(packets), NEW j \in 1..Len(peer.starts),
                      packets[k].at = peer.starts[j], Intact(peer, j)
               PROVE  Copied(Moved(Moved(packets[k].packet))) = peer.sent[j]
    BY Zenon DEF DeliveredAsSent
  <2> DEFINE b == peer.bytes
             p == packets[k].at
             s == peer.sent[j]
  <2>1. TypeOK /\ peer \in Peers /\ rd \in Nat /\ wr \in Nat /\ rd <= wr /\ wr <= Len(b)
    BY Zenon DEF FrameInv, TypeOK
  <2>2. s \in PacketType /\ Len(s.veryfyData) = VerifyBytes
    BY <2>1, PeersAssumption, Zenon
  <2>3. b \in Seq(Byte) /\ Len(b) \in Nat
    BY <2>1, PeerFacts, Zenon
  <2>4. p \in Nat /\ FrameEnd(b, p) \in Nat /\ FrameEnd(b, p) <= rd
    BY Zenon DEF FrameInv, Framed, WholeFrames
  <2>5. p + UsedBytes(b, p) <= Len(b)
    <3> DEFINE e == FrameEnd(b, p)
               L == Len(b)
    <3>1. e \in Nat /\ L \in Nat /\ e <= rd /\ rd <= wr /\ wr <= L /\ rd \in Nat /\ wr \in Nat
      BY <2>1, <2>3, <2>4, Zenon
    <3> HIDE DEF e, L
    <3>2. e <= L
      BY <3>1
    <3> QED
      BY <3>2, Zenon DEF e, L, FrameEnd
  <2>6. \A i \in 1..Len(Data(s)) : b[p + i] = Data(s)[i]
    BY Zenon DEF Intact
  <2>7. packets[k].packet = Constructed(b, p)
    BY Zenon DEF AsFound
  <2> HIDE DEF b, p, s
  <2>8. Constructed(b, p) = s
    BY <2>2, <2>3, <2>4, <2>5, <2>6, DecodedPacket, Zenon
  <2>9. Copied(Moved(Moved(s))) = s
    BY <2>2, PassedOn, Zenon
  <2> QED
    BY <2>7, <2>8, <2>9, Zenon DEF s
<1> QED
  BY TypeCorrect, FrameInvariant, <1>1, <1>2, <1>3, PTL DEF Spec
=============================================================================
