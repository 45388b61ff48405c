---------------------------- MODULE PacketStream ----------------------------
(***************************************************************************)
(* One TCP connection of CMuduoServer: bytes arrive in chunks of any size,  *)
(* and each arrival runs onMessage once on the connection's input buffer.  *)
(*                                                                         *)
(* The buffer is modelled by two offsets into the peer's byte stream: the   *)
(* received bytes that were not retrieved yet are rd..wr-1.  A peer is     *)
(* what the other end does: the bytes it sends, the packets it means to    *)
(* send and the offsets where they start.  All of that is fixed at the     *)
(* start; what varies is how TCP cuts the stream, the memory beyond the    *)
(* received bytes, and when the connection goes down.                      *)
(***************************************************************************)
EXTENDS Packet

CONSTANT Peers \* records [bytes, starts, sent]

PacketType ==
    [ head : Word, cmdType : Word, itemType : Word, msgVersion : Word,
      cypherModel : Byte, veryfyModel : Byte, saveCmd : Nat,
      data : Seq(Byte), veryfyData : Seq(Byte) ]

ASSUME PeersAssumption ==
    \A c \in Peers :
        /\ c.bytes \in Seq(Byte)
        /\ c.starts \in Seq(Nat)
        /\ \A k \in 1..Len(c.starts) :
               c.sent[k] \in PacketType /\ Len(c.sent[k].veryfyData) = VerifyBytes
        /\ \A k \in 1..Len(c.starts) : c.starts[k] + HeadSize <= Len(c.bytes)
        /\ Len(c.bytes) < SizeMod

VARIABLES
    peer,    \* the peer of this connection
    conn,    \* "up" or "down"
    rd,      \* bytes retrieved from the buffer so far
    wr,      \* bytes received so far
    packets, \* what onMessage handed to SolveTask: the offset and the packet
    alive,   \* FALSE once the process has aborted
    split    \* history: a trailing first half of a marker was thrown away

vars == <<peer, conn, rd, wr, packets, alive, split>>

StaleByte == {0, MarkByte} \* FindHeadStart only compares it with MarkByte

-----------------------------------------------------------------------------
(* Mutants: plausible mistakes in the definitions below.                   *)

DispatchKeepsBytes(p) ==
    /\ rd' = p + FieldBytes
    /\ packets' = Append(packets, [at |-> p, packet |-> Constructed(peer.bytes, p)])
    /\ \E low \in PointerLow : alive' = Survives(low)
    /\ UNCHANGED split

KeepPartialDrops(p, end) ==
    /\ rd' = end
    /\ UNCHANGED <<packets, alive, split>>

-----------------------------------------------------------------------------
Init ==
    /\ peer \in Peers
    /\ conn = "up"
    /\ rd = 0
    /\ wr = 0
    /\ packets = <<>>
    /\ alive = TRUE
    /\ split = FALSE

\* No head anywhere: buf->retrieveAll().
Discard(end, stale) ==
    /\ NoHead(peer.bytes, rd, end, stale)
    /\ rd' = end
    /\ split' = (split \/ peer.bytes[end] = MarkByte)
    /\ UNCHANGED <<packets, alive>>

\* A head at p but no whole packet yet: the bytes before p are retrieved.
KeepPartial(p, end) ==
    /\ rd' = p
    /\ UNCHANGED <<packets, alive, split>>

\* A whole packet at p is retrieved and moved into SolveTask.  When the
\* moved-from packet is destroyed on return, m_strOut's pointer no longer
\* names its own short-string buffer if its low byte changed, and is freed:
\* the process aborts.
Dispatch(p) ==
    /\ rd' = p + UsedBytes(peer.bytes, p)
    /\ packets' = Append(packets, [at |-> p, packet |-> Constructed(peer.bytes, p)])
    /\ \E low \in PointerLow : alive' = Survives(low)
    /\ UNCHANGED split

\* n more bytes arrive and onMessage runs.  At most one packet is taken.
OnMessage(n, stale) ==
    LET end == wr + n
        b == peer.bytes
    IN  /\ conn = "up"
        /\ alive
        /\ end <= Len(b)
        /\ wr' = end
        /\ \/ Discard(end, stale)
           \/ \E p \in rd..(end - 1) :
                /\ IsFirstHead(b, p, rd, end, stale)
                /\ \/ TooShort(p, end) /\ KeepPartial(p, end)
                   \/ ~TooShort(p, end) /\ TooLong(b, p, end) /\ KeepPartial(p, end)
                   \/ ~TooShort(p, end) /\ ~TooLong(b, p, end) /\ Dispatch(p)
        /\ UNCHANGED <<peer, conn>>

\* The connection goes down; onConnection only logs it and the buffer dies.
OnConnectionDown ==
    /\ conn = "up"
    /\ alive
    /\ conn' = "down"
    /\ UNCHANGED <<peer, rd, wr, packets, alive, split>>

Next ==
    \/ \E n \in 1..Len(peer.bytes), stale \in StaleByte : OnMessage(n, stale)
    \/ OnConnectionDown

Spec == Init /\ [][Next]_vars

-----------------------------------------------------------------------------
(* What a peer may be.                                                     *)

Marker(b, p) == b[p + 1] = MarkByte /\ b[p + 2] = MarkByte

FrameEnd(b, p) == p + UsedBytes(b, p)

\* The marker occurs where packets start and nowhere else.
Transparent(c) ==
    \A p \in 0..(Len(c.bytes) - 2) :
        Marker(c.bytes, p) => \E k \in 1..Len(c.starts) : c.starts[k] = p

\* Whole packets in order, with no marker byte between them.
Clean(c) ==
    LET b == c.bytes
        s == c.starts
    IN  /\ \A k \in 1..Len(s) : Marker(b, s[k]) /\ FrameEnd(b, s[k]) <= Len(b)
        /\ \A j, k \in 1..Len(s) : j < k => FrameEnd(b, s[j]) <= s[k]
        /\ \A p \in 0..(Len(b) - 1) :
              b[p + 1] = MarkByte =>
                  \E k \in 1..Len(s) : s[k] <= p /\ p < FrameEnd(b, s[k])

\* Packet j is in the stream as Data() encodes it.
Intact(c, j) ==
    LET wire == Data(c.sent[j])
    IN  \A i \in 1..Len(wire) : c.bytes[c.starts[j] + i] = wire[i]

-----------------------------------------------------------------------------
(* Properties.                                                             *)

\* Every variable has its type and the buffer's offsets are in order: no
\* retrieve in onMessage ever takes more than the readable bytes, which
\* muduo::net::Buffer::retrieve asserts.
TypeOK ==
    /\ peer \in Peers
    /\ conn \in {"up", "down"}
    /\ rd \in Nat
    /\ wr \in Nat
    /\ rd <= wr /\ wr <= Len(peer.bytes)
    /\ packets \in Seq([at : Nat, packet : PacketType])
    /\ alive \in BOOLEAN
    /\ split \in BOOLEAN

\* Whatever the peer sends and however the stream is cut, what onMessage
\* hands over are whole, received packets that start with the marker, and
\* no byte is part of two of them.
WholeFrames ==
    /\ \A k \in 1..Len(packets) :
          /\ Marker(peer.bytes, packets[k].at)
          /\ FrameEnd(peer.bytes, packets[k].at) <= rd
    /\ \A j, k \in 1..Len(packets) :
          j < k => FrameEnd(peer.bytes, packets[j].at) <= packets[k].at

\* If the marker occurs only where packets start, resynchronising after lost
\* or damaged bytes never takes the middle of a packet for a packet.
OnlySentStarts ==
    Transparent(peer) =>
        \A k \in 1..Len(packets) :
            \E j \in 1..Len(peer.starts) : packets[k].at = peer.starts[j]

\* A peer that sends whole packets, with or without junk between them, has
\* them executed one by one in the order sent, none skipped and none twice,
\* however the stream is cut and however many arrive together, as long as
\* no first half of a marker was thrown away.
InOrderUnlessSplit ==
    Clean(peer) /\ ~split =>
        /\ Len(packets) <= Len(peer.starts)
        /\ \A k \in 1..Len(packets) : packets[k].at = peer.starts[k]
        /\ Len(packets) < Len(peer.starts) => rd <= peer.starts[Len(packets) + 1]

\* What ExcuteTask gets, after ConstructData and the moves and the copy on the
\* way through the pool, is in every field the packet that Data() put on the
\* wire at that offset, if the stream has it there intact.
DeliveredAsSent ==
    \A k \in 1..Len(packets), j \in 1..Len(peer.starts) :
        packets[k].at = peer.starts[j] /\ Intact(peer, j) =>
            Copied(Moved(Moved(packets[k].packet))) = peer.sent[j]

\* A whole packet that waits at the front of the buffer, left there by an
\* earlier onMessage that took the packet before it, is the one the next
\* onMessage takes.
FrontIsServed ==
    [][ (/\ wr - rd >= HeadSize
         /\ Marker(peer.bytes, rd)
         /\ FrameEnd(peer.bytes, rd) <= wr
         /\ wr' > wr)
        => /\ Len(packets') = Len(packets) + 1
           /\ packets'[Len(packets')].at = rd ]_vars

\* The bytes thrown away are never part of a packet: "clear everything out
\* of the stream that is not a packet" (onMessage).
NothingLost ==
    Clean(peer) =>
        \A j \in 1..Len(peer.starts) :
            peer.starts[j] < rd =>
                \E k \in 1..Len(packets) : packets[k].at = peer.starts[j]

=============================================================================
