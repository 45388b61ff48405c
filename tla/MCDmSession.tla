----------------------------- MODULE MCDmSession ----------------------------
(***************************************************************************)
(* Two threads with three reports, a query and a statement of a backup job. *)
(***************************************************************************)
EXTENDS DmSession

CONSTANTS query, job

MCKind == [c \in Calls |-> CASE c = query -> "query" [] c = job -> "job"
                             [] OTHER -> "insert"]
=============================================================================
