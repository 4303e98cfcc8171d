SPECIFICATION FairSpec
CONSTANTS
    Req = {"r1", "r2"}
    Own = {"r2"}
    Story = {"s1", "s2", "s3"}
    Of <- OfStory
    Team <- OwnTeams
    Recorded = FALSE
    Trouble = {}
    MaxTrouble = 0
PROPERTY LeavesSignOff
