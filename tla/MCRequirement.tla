--------------------------- MODULE MCRequirement ----------------------------
EXTENDS Requirement
OfStory   == [s \in Story |-> IF s = "s3" THEN "r2" ELSE "r1"]
OwnTeams  == [r \in Req |-> IF r = "r1" THEN "t1" ELSE "t2"]
SameTeam  == [r \in Req |-> "t1"]
=============================================================================
