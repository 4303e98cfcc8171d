---------------------------- MODULE MCMergeQueue -----------------------------
(* Instances of MergeQueue for TLC. *)
EXTENDS MergeQueue
=============================================================================
