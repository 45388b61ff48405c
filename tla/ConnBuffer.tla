----------------------------- MODULE ConnBuffer -----------------------------
(***************************************************************************)
(* muduo::net::Buffer, the input buffer of a connection that onMessage     *)
(* peeks into and retrieves from: a vector of bytes with a reader and a    *)
(* writer index, which moves its bytes to the front or grows when there is *)
(* no room behind them.  Integers are in network order.                    *)
(***************************************************************************)
EXTENDS Integers, Sequences

CONSTANTS
    ByteMod,      \* 256
    CheapPrepend, \* kCheapPrepend
    InitialSize,  \* kInitialSize
    Chunks,       \* byte sequences that are appended, received or prepended
    Widths,       \* sizes of the integers
    Marks,        \* ends of a line that are looked for: "\\r\\n" and "\\n"
    MaxContent    \* bound: readable bytes

Byte == 0..(ByteMod - 1)

ASSUME BufferAssumption ==
    /\ ByteMod \in Nat /\ ByteMod > 1
    /\ CheapPrepend \in Nat \ {0} /\ InitialSize \in Nat /\ MaxContent \in Nat
    /\ Chunks \subseteq Seq(Byte)
    /\ Widths \subseteq {1, 2, 4, 8}
    /\ Marks \subseteq Seq(Byte) \ {<<>>}

VARIABLES
    buffer,      \* buffer_
    readerIndex, \* readerIndex_
    writerIndex, \* writerIndex_
    value,       \* the integer that was read, or the length of the line, last
    asserted,    \* history: every assert that was passed held
    peak         \* history: the most bytes that were to be held at once

vars == <<buffer, readerIndex, writerIndex, value, asserted, peak>>

readableBytes == writerIndex - readerIndex
writableBytes == Len(buffer) - writerIndex
prependableBytes == readerIndex

\* The bytes peek() points to.
Readable == SubSeq(buffer, readerIndex + 1, writerIndex)

-----------------------------------------------------------------------------
(* Mutants: plausible mistakes in the definitions below.                   *)

FitsInFrontLoose(b, len) == Len(b.buffer) - b.w + b.r >= len
FitsInFrontNever(b, len) == FALSE
-----------------------------------------------------------------------------
(* Integers and their bytes.                                               *)

\* What a byte at place k of a little-endian integer counts.
Weight[k \in 0..8] == IF k = 0 THEN 1 ELSE ByteMod * Weight[k - 1]

\* intN_t, in w bytes.
Ints(w) == (-(Weight[w] \div 2))..((Weight[w] - 1) \div 2)

\* An integer in the memory of a little-endian host, and back.
HostBytes(x, w) == [k \in 1..w |-> ((x % Weight[w]) \div Weight[k - 1]) % ByteMod]

\* What the first k bytes amount to.
Unsigned(s) ==
    LET sum[k \in 0..Len(s)] == IF k = 0 THEN 0 ELSE sum[k - 1] + s[k] * Weight[k - 1]
    IN  sum

HostInt(s) ==
    LET w == Len(s)
        n == Unsigned(s)[w]
    IN  IF n \in Ints(w) THEN n ELSE n - Weight[w]

\* htobe and betoh.
Flipped(s) == [k \in 1..Len(s) |-> s[Len(s) + 1 - k]]

Encode(x, w) == Flipped(HostBytes(x, w))

-----------------------------------------------------------------------------
(* The vector and the indices, as a record while an operation works on it. *)

Now == [buffer |-> buffer, r |-> readerIndex, w |-> writerIndex]

Fresh == [ buffer |-> [k \in 1..(CheapPrepend + InitialSize) |-> 0],
           r |-> CheapPrepend, w |-> CheapPrepend ]

FitsInFront(b, len) == Len(b.buffer) - b.w + b.r >= len + CheapPrepend

\* The two branches of makeSpace: the readable bytes move to the front, or
\* the vector is resized to the writer index plus len.
MovedToFront(b) ==
    LET n == b.w - b.r
    IN  [ buffer |-> [k \in 1..Len(b.buffer) |->
                         IF k \in (CheapPrepend + 1)..(CheapPrepend + n)
                         THEN b.buffer[b.r + k - CheapPrepend] ELSE b.buffer[k]],
          r |-> CheapPrepend, w |-> CheapPrepend + n ]

Resized(b, len) ==
    [b EXCEPT !.buffer = @ \o [k \in 1..(len - (Len(@) - b.w)) |-> 0]]

makeSpace(b, len) == IF FitsInFront(b, len) THEN MovedToFront(b) ELSE Resized(b, len)

ensureWritableBytes(b, len) ==
    IF Len(b.buffer) - b.w < len THEN makeSpace(b, len) ELSE b

\* std::copy to beginWrite() and hasWritten.
Written(b, s) ==
    [b EXCEPT !.buffer = [k \in 1..Len(b.buffer) |->
                             IF k \in (b.w + 1)..(b.w + Len(s)) THEN s[k - b.w] ELSE @[k]],
              !.w = @ + Len(s)]

Appended(b, s) == Written(ensureWritableBytes(b, Len(s)), s)

\* The asserts of ensureWritableBytes, makeSpace and hasWritten.
AppendAsserts(b, len) ==
    /\ Len(ensureWritableBytes(b, len).buffer) - ensureWritableBytes(b, len).w >= len
    /\ Len(b.buffer) - b.w < len /\ FitsInFront(b, len) => CheapPrepend < b.r

Become(b) == buffer' = b.buffer /\ readerIndex' = b.r /\ writerIndex' = b.w

-----------------------------------------------------------------------------
Init ==
    /\ buffer = Fresh.buffer /\ readerIndex = Fresh.r /\ writerIndex = Fresh.w
    /\ value = 0
    /\ asserted = TRUE
    /\ peak = 0

Larger(a, b) == IF a > b THEN a ELSE b

\* append, and appendInt8 to appendInt64.
AppendBytes(s) ==
    /\ readableBytes + Len(s) <= MaxContent
    /\ Become(Appended(Now, s))
    /\ asserted' = (asserted /\ AppendAsserts(Now, Len(s)))
    /\ peak' = Larger(peak, readableBytes + Len(s))
    /\ UNCHANGED value

AppendInt(x, w) == AppendBytes(Encode(x, w))

\* readFd (external): bytes from the socket go behind the writer index, what
\* does not fit there is appended.
ReadFd(s) ==
    LET fits == IF Len(s) <= writableBytes THEN Len(s) ELSE writableBytes
        b == Written(Now, SubSeq(s, 1, fits))
    IN  /\ readableBytes + Len(s) <= MaxContent
        /\ Become(Appended(b, SubSeq(s, fits + 1, Len(s))))
        /\ asserted' = (asserted /\ AppendAsserts(b, Len(s) - fits))
        /\ peak' = Larger(peak, readableBytes + Len(s))
        /\ UNCHANGED value

\* retrieve, and with it retrieveAll, retrieveUntil and retrieveAsString:
\* both indices go back to the start when nothing is left.
Retrieved(len) ==
    /\ readerIndex' = IF len < readableBytes THEN readerIndex + len ELSE CheapPrepend
    /\ writerIndex' = IF len < readableBytes THEN writerIndex ELSE CheapPrepend
    /\ UNCHANGED buffer

Retrieve(len) ==
    /\ len <= readableBytes
    /\ Retrieved(len)
    /\ UNCHANGED <<value, asserted, peak>>

\* findCRLF and findEOL from an offset into the readable bytes on: the place of
\* the first mark, none for NULL.
FindMark(mark, from) ==
    LET At(p) == SubSeq(buffer, p + 1, p + Len(mark)) = mark
    IN  {p \in (readerIndex + from)..(writerIndex - Len(mark)) :
            At(p) /\ \A q \in (readerIndex + from)..(p - 1) : ~At(q)}

\* ... and retrieveUntil behind it.
RetrieveUntil(mark, from) ==
    /\ from <= readableBytes
    /\ \E p \in FindMark(mark, from) :
          /\ value' = p - readerIndex
          /\ Retrieved(value' + Len(mark))
    /\ UNCHANGED <<asserted, peak>>

\* wrong: no betoh
PeekIntHostOrder(w) == HostInt(SubSeq(buffer, readerIndex + 1, readerIndex + w))

\* peekInt8 to peekInt64.
PeekInt(w) == HostInt(Flipped(SubSeq(buffer, readerIndex + 1, readerIndex + w)))

\* readInt8 to readInt64.
ReadInt(w) ==
    /\ w <= readableBytes
    /\ value' = PeekInt(w)
    /\ Retrieved(w)
    /\ UNCHANGED <<asserted, peak>>

Unwrite(len) ==
    /\ len <= readableBytes
    /\ writerIndex' = writerIndex - len
    /\ UNCHANGED <<buffer, readerIndex, value, asserted, peak>>

\* prepend, and prependInt8 to prependInt64.
Prepend(s) ==
    /\ Len(s) <= prependableBytes /\ readableBytes + Len(s) <= MaxContent
    /\ readerIndex' = readerIndex - Len(s)
    /\ buffer' = [k \in 1..Len(buffer) |->
                     IF k \in (readerIndex' + 1)..readerIndex
                     THEN s[k - readerIndex'] ELSE buffer[k]]
    /\ peak' = Larger(peak, readableBytes + Len(s))
    /\ UNCHANGED <<writerIndex, value, asserted>>

\* shrink swaps with a fresh buffer that has room for the content and reserve.
Shrink(reserve) ==
    LET n == readableBytes
        other == ensureWritableBytes(Fresh, n + reserve)
    IN  /\ n + reserve <= MaxContent
        /\ Become(Appended(other, Readable))
        /\ asserted' = (asserted /\ AppendAsserts(Fresh, n + reserve)
                                 /\ AppendAsserts(other, n))
        /\ peak' = Larger(peak, n + reserve)
        /\ UNCHANGED value

Next ==
    \/ \E s \in Chunks : AppendBytes(s) \/ ReadFd(s) \/ Prepend(s)
    \/ \E w \in Widths : ReadInt(w) \/ \E x \in Ints(w) : AppendInt(x, w)
    \/ \E n \in 0..MaxContent : Retrieve(n) \/ Unwrite(n) \/ Shrink(n)
    \/ \E mark \in Marks, from \in 0..MaxContent : RetrieveUntil(mark, from)

Spec == Init /\ [][Next]_vars

-----------------------------------------------------------------------------
(* Properties.                                                             *)

AllChunks == Chunks \cup UNION { { Encode(x, w) : x \in Ints(w) } : w \in Widths }

Q == INSTANCE ByteQueue WITH content <- Readable, Chunks <- AllChunks

\* However bytes are moved to the front, the vector grown, and received bytes
\* split between it and an overflow area, what is read is what was appended,
\* in order, an integer is read as the one whose bytes are in front, and the
\* end of a line is found at its first place.
IsByteQueue == Q!Spec

\* None of the asserts in ensureWritableBytes, makeSpace and hasWritten ever
\* fails, in whatever order the operations are called.
AssertsHold == asserted

\* A reader that falls behind costs memory for at most twice the bytes that
\* were waiting at some time: the bytes already read are reused, and growth
\* does not add up over the life of a connection.
GrowthBounded == Len(buffer) <= CheapPrepend + Larger(InitialSize, 2 * peak)
=============================================================================
