----------------------------- MODULE MCElection -----------------------------
(* Instances of Election for TLC. *)
EXTENDS Election, TLC

CONSTANTS n1, n2, n3

\* A cluster whose nodes all name each other in their configuration.
FullMesh == [n \in Node |-> Node \ {n}]

\* Two configured nodes, and a third one that knows n1 only and has to join.
OneJoiner == [n \in Node |-> IF n = n1 THEN {n2} ELSE {n1}]

NodeSymmetry == Permutations(Node)
=============================================================================
