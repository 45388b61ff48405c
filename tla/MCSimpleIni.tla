---------------------------- MODULE MCSimpleIni ----------------------------
(***************************************************************************)
(* Every file of up to two lines of a small alphabet and of up to MaxLines *)
(* of its core, and values and comments that need every form Save has.     *)
(***************************************************************************)
EXTENDS SimpleIni

CONSTANT MaxLines

MCLower(s) == CASE s = "K" -> "k" [] s = "S" -> "s" [] s = "V" -> "v" [] s \notin {"K", "S", "V"} -> s

Opt(multiKey, multiLine, quotes, keyOnly) ==
    [multiKey |-> multiKey, multiLine |-> multiLine, quotes |-> quotes, keyOnly |-> keyOnly]

MCOptions ==
    { Opt(FALSE, FALSE, FALSE, FALSE), Opt(TRUE, FALSE, TRUE, FALSE),
      Opt(TRUE, TRUE, FALSE, TRUE), Opt(FALSE, TRUE, TRUE, FALSE) }

Padded(t) == [Piece(t) EXCEPT !.pad = TRUE]

MCLines ==
    { Blank, Comment("#c"), Section("s"), BadSection("s"), Pair("k", Piece("v")), Pair("K", Padded("w")),
      Pair("", Piece("v")), Pair("j", [Padded("w") EXCEPT !.q = "both"]), Pair("k", Piece("<<<X")),
      Pair("k", Piece("<<<")), Text(Piece("X")), Text(Piece("j")) }

\* the lines that work together over more than two lines
CoreLines ==
    { Blank, Comment("#c"), Section("s"), BadSection("s"), Pair("k", Piece("v")), Pair("k", Piece("<<<X")),
      Text(Piece("X")) }

MCFiles == {[bom |-> FALSE, lines |-> l] : l \in SeqOf(MCLines, 2) \union SeqOf(CoreLines, MaxLines)}
           \union {[bom |-> TRUE, lines |-> <<Pair("k", Piece("v"))>>]}

Call(s, k, v, c, force) == [sec |-> <<s>>, key |-> k, val |-> v, com |-> c, force |-> force]

CommentText == <<Comment("#c"), Blank, Comment("#d")>>

MCSetCalls ==
    { Call("s", NoText, NoText, CommentText, FALSE),
      Call("", NoText, NoText, NoText, FALSE),
      Call("s", <<"j">>, <<Text(Piece("<<<X"))>>, NoText, FALSE),
      Call("", <<"j">>, <<Text(Piece("END_OF_TEXT")), Blank>>, NoText, FALSE),
      Call("", <<"j">>, NoText, NoText, FALSE),
      Call("S", <<"k">>, <<Text(Padded("w"))>>, CommentText, FALSE),
      Call("s", <<"k">>, <<Text(Padded("v")), Text(Piece("w"))>>, NoText, FALSE),
      Call("s", <<"j">>, <<Text(Piece("v")), Blank>>, NoText, FALSE),
      Call("", <<"K">>, <<Text(Piece("v"))>>, CommentText, TRUE),
      Call("s", <<"k">>, <<Text(Piece("V"))>>, NoText, TRUE) }

MCLongCalls ==
    { [sec |-> <<"s">>, key |-> <<"k">>, n |-> -1, hex |-> TRUE, force |-> FALSE],
      [sec |-> <<"S">>, key |-> <<"k">>, n |-> 26, hex |-> TRUE, force |-> TRUE],
      [sec |-> <<"">>, key |-> <<"j">>, n |-> -128, hex |-> FALSE, force |-> FALSE] }

MCDoubleCalls ==
    { [sec |-> <<"s">>, key |-> <<"k">>, d |-> -1298, force |-> TRUE],   \* -12.98
      [sec |-> <<"">>, key |-> <<"j">>, d |-> 123456, force |-> FALSE] } \* does not fit

MCBoolCalls ==
    { [sec |-> <<"s">>, key |-> <<"k">>, b |-> TRUE, force |-> TRUE],
      [sec |-> <<"">>, key |-> <<"K">>, b |-> FALSE, force |-> FALSE] }

Deletion(s, k, v, removeEmpty) == [sec |-> <<s>>, key |-> k, val |-> v, removeEmpty |-> removeEmpty]

MCDeleteCalls ==
    { Deletion("s", NoText, NoText, FALSE),
      Deletion("", <<"k">>, NoText, TRUE),
      Deletion("s", <<"k">>, <<Text(Piece("V"))>>, FALSE),
      Deletion("s", <<"K">>, <<Text(Piece("w"))>>, TRUE) }
=============================================================================
