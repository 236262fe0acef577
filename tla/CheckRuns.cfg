SPECIFICATION FairSpec
CONSTANTS
    Scans = {s1, s2}
    Delegated = {s1, s2}
    MaxRuns = 5
    MaxFaults = 1
INVARIANTS
    GreenIsTrue
    ChecksConclude
PROPERTIES
    FeedbackShows
CHECK_DEADLOCK FALSE
