SPECIFICATION FairSpec
CONSTANTS
    Session = {s1}
    Story = {x1, x2}
    Shown <- AllScreens
    Branchless = {x2}
    MaxNudges = 1
    HardReset = 1
    MaxAgents = 2
    MaxEvents = 1
INVARIANTS NudgesBounded
PROPERTIES  HumanIsTold StuckIsSeen
CHECK_DEADLOCK FALSE
