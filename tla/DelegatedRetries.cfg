SPECIFICATION Spec
CONSTANTS
    Requests = {push}
    PullRequests = {}
    Agents = {a1}
    Verifies = {a1}
    Able = {a1}
    Copy = {k1, k2}
    ScanRetries = 2
    MaxScans = 1
    MaxFaults = 0
INVARIANTS
    RetriesAsDocumented
CHECK_DEADLOCK FALSE
