SPECIFICATION FairSpec
CONSTANTS
    n1 = n1
    n2 = n2
    n3 = n3
    Node = {n1, n2}
    Nil = Nil
    StaticPeers <- FullMesh
    MaxTerm = 2
    MaxElections = 2
    MaxBeats = 2
    MaxRestarts = 1
    MaxChanges = 1
    MaxCatchUps = 1
CHECK_DEADLOCK FALSE
INVARIANTS
    LeaderWonItsTerm
    SecondVoteOnlyAfterWinning
PROPERTIES
    VoteIsKept
    StaleLeaderIsDeposed
    
