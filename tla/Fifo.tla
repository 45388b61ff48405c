-------------------------------- MODULE Fifo --------------------------------
(***************************************************************************)
(* What a queue between threads promises: items come out in the order in   *)
(* which they went in, one at a time or all that wait at once, and none is *)
(* lost or comes out twice.                                                *)
(***************************************************************************)
EXTENDS Sequences

CONSTANT Items

VARIABLES
    in,     \* what was put in so far
    buffer, \* what waits
    out     \* what was taken so far

Init == in = <<>> /\ buffer = <<>> /\ out = <<>>

Put(v) ==
    /\ in' = Append(in, v)
    /\ buffer' = Append(buffer, v)
    /\ UNCHANGED out

Take ==
    /\ buffer # <<>>
    /\ buffer' = Tail(buffer)
    /\ out' = Append(out, Head(buffer))
    /\ UNCHANGED in

Drain ==
    /\ buffer' = <<>>
    /\ out' = out \o buffer
    /\ UNCHANGED in

Next == Take \/ Drain \/ \E v \in Items : Put(v)

Spec == Init /\ [][Next]_<<in, buffer, out>>
=============================================================================
