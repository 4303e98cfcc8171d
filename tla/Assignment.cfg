SPECIFICATION FairSpec
CONSTANTS
    Story = {"first", "last"}
    Deps <- ChainDeps
    Simple = {"last"}
    PerSenior = 1
    Failures = {"none"}
    MaxAgents = 5
    MaxDeaths = 2
    MaxMishaps = 1
    MaxVerdicts = 1
    MaxClaims = 1
CHECK_DEADLOCK FALSE
INVARIANTS
    TypeOK
    CurrentIsAssigned
    BuiltOnLanded
 
