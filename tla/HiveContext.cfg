SPECIFICATION Spec
CONSTANTS
    Command = {c1, c2}
    Daemon = {c1}
    Poll = {p1}
    Message = {m1}
    Nobody = Nobody
    Absent = Absent
    MaxOps = 1
    MaxMishaps = 1
CHECK_DEADLOCK FALSE
INVARIANTS
    
    MutualExclusion
    AcknowledgedIsSaved
    NoHalfTransaction
    DeliveredIsSaved
