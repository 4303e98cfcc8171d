--------------------------- MODULE MCHiveContext ----------------------------
(* Instances of HiveContext for TLC. *)
EXTENDS HiveContext
=============================================================================
