SPECIFICATION FairSpec
CONSTANTS
    Requests = {pr}
    PullRequests = {pr}
    Agents = {a1, a2, a3}
    Verifies = {a1, a2}
    Able = {a1, a3}
    Copy = {k1, k2}
    ScanRetries = 2
    MaxScans = 3
    MaxFaults = 2
INVARIANTS
    NoSilentLoss
    OneOutcome
    RetryBudget
    PullRequestsWatched
PROPERTIES
    DelegationEnds
CHECK_DEADLOCK FALSE
