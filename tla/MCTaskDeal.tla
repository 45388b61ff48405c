----------------------------- MODULE MCTaskDeal -----------------------------
(***************************************************************************)
(* Packets for model checking TaskDeal: one per way ExcuteTask can go.     *)
(***************************************************************************)
EXTENDS TaskDeal

CONSTANTS report, mistyped, backup, unknown

MCVersion ==
    [t \in Tasks |->
        CASE t = backup -> \h4300 [] t = unknown -> \h4130
          [] OTHER -> \h4120]

\* the report may carry a literal or plain words
MCContents ==
    { [t \in Tasks |-> IF t = mistyped THEN "mistyped" ELSE text] : text \in {"literal", "words"} }

\* the code as it is and as it is meant to be
MCBuilds == { [sm4 |-> FALSE, wired |-> FALSE], [sm4 |-> TRUE, wired |-> TRUE] }
=============================================================================
