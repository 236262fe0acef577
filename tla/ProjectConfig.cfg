SPECIFICATION ConfigSpec
CONSTANTS
    t1 = t1
    t2 = t2
    w1 = w1
    Loads = {t1, t2}
    Workers = {w1}
    WorkerOf <- Workplaces
    GroupPaths <- TwoPaths
    MaxEdits = 1
    MaxFailures = 1
INVARIANTS
    OneProject
    FailuresHaveCause
PROPERTIES
    UpdateKeeps
    GroupsAssigned
CHECK_DEADLOCK FALSE
