---------------------------- MODULE MCRaftStore -----------------------------
(* Instances of RaftStore for TLC. *)
EXTENDS RaftStore, TLC

\* Nothing compares event ids.
EventSymmetry == Permutations(Event)
=============================================================================
