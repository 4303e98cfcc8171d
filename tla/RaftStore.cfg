SPECIFICATION Spec
CONSTANTS
    Event = {e1, e2, e3}
    NoEvent = NoEvent
    Junk = Junk
    MaxLogEntries = 2
    MaxIndex = 6
    MaxTerm = 2
    MaxCrashes = 3
    MaxTears = 2
SYMMETRY EventSymmetry
CHECK_DEADLOCK FALSE
INVARIANTS
    OncePerEvent
    DroppedIsCovered
    
