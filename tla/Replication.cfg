SPECIFICATION FairSpec
CONSTANTS
    n1 = n1
    n2 = n2
    n3 = n3
    k1 = k1
    k2 = k2
    Node = {n1, n2}
    NoNode = NoNode
    Rank <- RankOfNodes
    Key = {k1}
    KeyRank <- RankOfKeys
    Value = {v1, v2}
    NoRow = NoRow
    Offset <- NoOffset
    DeltaLimit = 1
    CacheLimit = 9
    KeepEvents = 2
    MaxWrites = 2
    MaxCrashes = 1
    MaxCounter = 6
CHECK_DEADLOCK FALSE
INVARIANTS
    VectorHasNoGaps
    

    
    
