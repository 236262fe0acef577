SPECIFICATION FairSpec
CONSTANTS
    scan = scan
    Scans = {scan}
    Workflow <- OnlyPush
    Copy = {c1, c2, c3, c4}
    Prefetch = 1
    Interval = 2
    Backoff = 3
    MaxInterval = 5
    MaxFaults = 2
CHECK_DEADLOCK FALSE
INVARIANTS
    FeedbackIsTrue
    NoSilentLoss
    AtMostOnce
    BackoffInRange
PROPERTIES
    MonitoringEnds
    ImplementsMonitor
