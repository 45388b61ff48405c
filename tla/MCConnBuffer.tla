---------------------------- MODULE MCConnBuffer ----------------------------
(***************************************************************************)
(* Chunks shorter and longer than what fits behind, in front and at all.   *)
(***************************************************************************)
EXTENDS ConnBuffer

MCMarks == { <<1, 0>>, <<0>> }

MCChunks == { <<>>, <<1>>, <<0, 1>>, <<1, 1, 0, 1>> }
=============================================================================
