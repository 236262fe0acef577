SPECIFICATION FairSpec
CONSTANTS
    PRs = {p1, p2}
    Busy = {p1}
    Setups <- MCSetups
    MaxCommits = 2
    MaxEvents = 3
    MaxFaults = 1
INVARIANTS
    
    TagsFollow
PROPERTIES
    CommitsAreScanned
CHECK_DEADLOCK FALSE
