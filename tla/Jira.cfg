SPECIFICATION FairSpec
CONSTANTS
    Story = {s1}
    Node = {n1, n2}
    Column = {"ToDo", "InProgress", "InReview", "Done"}
    Means <- ReadmeMeans
    Entry = "ToDo"
    Sprints = {"moved"}
    MaxMishaps = 1
    MaxSetbacks = 1
    MaxDrags = 1
INVARIANTS DuplicatesAreAccountedFor
PROPERTIES  SubtasksAppear 
CHECK_DEADLOCK FALSE
