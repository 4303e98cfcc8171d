SPECIFICATION FairSpec
CONSTANTS
    Req = {"r1", "r2"}
    Own = {"r2"}
    Story = {"s1", "s2", "s3"}
    Of <- OfStory
    Team <- OwnTeams
    Recorded = TRUE
    Trouble = {"leadDies", "spawn", "testerDies", "again", "manager", "leadLost", "hasty", "races", "restart", "git", "testerLost", "gh", "unrecorded"}
    MaxTrouble = 1
INVARIANTS TypeOK  VerdictIsTrue
 
