----------------------------- MODULE MCReports -----------------------------
(***************************************************************************)
(* For each class reports with each form of the data (missing, null, a     *)
(* text, a number, an object), a complete one and all that differ from it  *)
(* in one common member: missing, null, a number, a negative or too large  *)
(* number, an object; contents that are complete, incomplete or empty; and *)
(* texts that are no object or no JSON.                                    *)
(***************************************************************************)
EXTENDS Reports

S(t) == [ty |-> "str", v |-> t]
I(n) == [ty |-> "int", v |-> n]
Obj  == [ty |-> "obj", v |-> 0]
Null == [ty |-> "null", v |-> 0]

MCCommon ==
    [m \in CommonMembers |-> IF m \in Shorts \union {"systemID"} THEN I(1) ELSE S(m)]

MCContent(c) ==
    [m \in {c.reads[k] : k \in Range(c.cols)} \ {"dictAck"} |-> IF m = "deleteAlg" THEN I(5) ELSE S(m)]

Without(f, m) == [k \in DOMAIN f \ {m} |-> f[k]]

\* f, and f with one member left out or changed
Variants(f) ==
    {f} \union {Without(f, m) : m \in DOMAIN f}
        \union {[f EXCEPT ![m] = x] : m \in DOMAIN f, x \in {Null, I(3), I(-1), I(9), Obj, S("other")}}

\* a report's members with each form of its data
Roots(f) == {f} \union {"data" :> x @@ f : x \in {Null, S("other"), I(3), Obj}}

MCMessage(text, root, content, acks) ==
    [text |-> text, root |-> root, data |-> "DataType" :> I(2), content |-> content, acks |-> acks]

MCMessages(c) ==
    {MCMessage("object", x, MCContent(c), <<"a:1", "b:2">>) : x \in UNION {Roots(f) : f \in Variants(MCCommon)}}
    \union {MCMessage("object", x, y, <<>>) : x \in Roots(MCCommon), y \in {MCContent(c), <<>>}}
    \union {MCMessage(t, <<>>, <<>>, <<>>) : t \in {"no object", "no JSON"}}
=============================================================================
