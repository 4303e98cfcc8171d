SPECIFICATION FairSpec
CONSTANTS
    Story = {s1, s2}
    Poll = {p1}
    Conn = {c1, c2}
    MaxFaults = 1
INVARIANT CancelledIsStopped
PROPERTIES   CompletionIsReported
CHECK_DEADLOCK FALSE
