SPECIFICATION FairManagerSpec
CONSTANTS
    Background = {b1, b2, b3}
    Foreground = {f1}
    NoTask = NoTask
INVARIANTS
    NothingAbandoned
PROPERTIES
    WorkerProgresses
CHECK_DEADLOCK FALSE
