SPECIFICATION FairSpec
CONSTANTS
    Calls = {c1, c2}
    Clones = {k1}
    Owners <- TheOwners
    Retries = 2
    MaxFaults = 2
INVARIANTS
    OwnToken
    RefusalHasCause
    CloneHeals
    OneRenewal
    DirsRemoved
PROPERTIES
    JobsEnd
CHECK_DEADLOCK FALSE
