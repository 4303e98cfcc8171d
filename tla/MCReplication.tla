--------------------------- MODULE MCReplication ----------------------------
(* Instances of Replication for TLC. *)
EXTENDS Replication

CONSTANTS n1, n2, n3, k1, k2

RankOfNodes == [n \in Node |-> IF n = n1 THEN 1 ELSE IF n = n2 THEN 2 ELSE 3]
RankOfKeys == [k \in Key |-> IF k = k1 THEN 1 ELSE 2]

\* Clocks in step, and the clock of n2 ahead by the time of two scans.
NoOffset == [n \in Node |-> 0]
SecondAhead == [n \in Node |-> IF n = n2 THEN 2 ELSE 0]
=============================================================================
