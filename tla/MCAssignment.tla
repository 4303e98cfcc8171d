---------------------------- MODULE MCAssignment -----------------------------
(* Instances of Assignment for TLC: one story depends on the other. *)
EXTENDS Assignment

ChainDeps == [s \in Story |-> IF s = "last" THEN Story \ {"last"} ELSE {}]
=============================================================================
