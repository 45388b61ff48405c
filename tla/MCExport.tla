------------------------------ MODULE MCExport ------------------------------
(***************************************************************************)
(* Two columns, in the configured order or with the first one added later, *)
(* and line sizes below, at and above what there can be.                   *)
(***************************************************************************)
EXTENDS Export

MCOrders == { <<1, 2>>, <<2, 1>> }
MCGarbage == { -1, 0, 2, 5 }
=============================================================================
