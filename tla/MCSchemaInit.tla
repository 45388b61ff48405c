---------------------------- MODULE MCSchemaInit ----------------------------
(***************************************************************************)
(* A small configuration, and another schema that also has table 2.        *)
(***************************************************************************)
EXTENDS SchemaInit

SomeForeign == {<<2, 2>>}
=============================================================================
