SPECIFICATION Spec
CONSTANTS
    n1 = n1
    n2 = n2
    n3 = n3
    Node = {n1, n2, n3}
    Nil = Nil
    StaticPeers <- FullMesh
    MaxTerm = 1
    MaxElections = 2
    MaxBeats = 2
    MaxRestarts = 0
    MaxChanges = 0
    MaxCatchUps = 0
CHECK_DEADLOCK FALSE
INVARIANT OneWinnerPerTerm
