----------------------------- MODULE ByteQueue ------------------------------
(***************************************************************************)
(* What a connection's input buffer promises: bytes that are appended are  *)
(* read back in order; some may be put back in front or taken off the end. *)
(* An integer is read as the value whose encoding is in front, a line as   *)
(* the bytes before the first mark.                                        *)
(***************************************************************************)
EXTENDS Integers, Sequences

CONSTANTS
    Chunks,        \* byte sequences that are appended or prepended
    Ints(_),       \* the integers of each width
    Encode(_, _),  \* their bytes in network order
    Widths,
    Marks          \* ends of a line

VARIABLES
    content, \* the readable bytes
    value    \* the integer or the length of the line that was read last

Init == content = <<>> /\ value = 0

Append_(s) == content' = content \o s /\ UNCHANGED value
Prepend(s) == content' = s \o content /\ UNCHANGED value

Retrieve(n) ==
    /\ content' = SubSeq(content, n + 1, Len(content))
    /\ UNCHANGED value

Unwrite(n) ==
    /\ content' = SubSeq(content, 1, Len(content) - n)
    /\ UNCHANGED value

ReadInt(w) ==
    /\ w <= Len(content)
    /\ \E x \in Ints(w) : Encode(x, w) = SubSeq(content, 1, w) /\ value' = x
    /\ content' = SubSeq(content, w + 1, Len(content))

\* the line may be known to go on until its byte from
ReadLine(mark, from) ==
    \E n \in from..(Len(content) - Len(mark)) :
        /\ SubSeq(content, n + 1, n + Len(mark)) = mark
        /\ \A i \in from..(n - 1) : SubSeq(content, i + 1, i + Len(mark)) # mark
        /\ value' = n
        /\ content' = SubSeq(content, n + Len(mark) + 1, Len(content))

Next ==
    \/ \E s \in Chunks : Append_(s) \/ Prepend(s)
    \/ \E n \in 0..Len(content) : Retrieve(n) \/ Unwrite(n)
    \/ \E w \in Widths : ReadInt(w)
    \/ \E mark \in Marks, from \in 0..Len(content) : ReadLine(mark, from)

Spec == Init /\ [][Next]_<<content, value>>
=============================================================================
