SPECIFICATION FairSpec
CONSTANTS
    Story = {"s1"}
    Branch = {"b1"}
    Sessions = 1
    PerReviewer = 1
    Forms = {"number", "none"}
    Feedback = TRUE
    MaxRows = 2
    MaxPulls = 1
    MaxVerdicts = 1
    MaxMishaps = 1
    MaxDeaths = 1
CHECK_DEADLOCK FALSE
INVARIANTS
    TypeOK
    Inside
PROPERTY Delivers
