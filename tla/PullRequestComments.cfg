SPECIFICATION Spec
CONSTANTS
    Scans = {s1, s2}
    Delegated = {s1}
    Services = {"gh", "gh_status", "adoe_checks", "bbc_checks", "bbdc", "gl"}
    Disturbed = {"gh", "gh_status", "adoe_checks", "bbdc", "gl"}
    PageSize = 1
    MaxComments = 2
    MaxFaults = 1
INVARIANTS
    DecorationIsTrue
    OneComment
    FinalWord
CHECK_DEADLOCK FALSE
