SPECIFICATION FairSpec
CONSTANTS
    Scans = {s1}
    Http = {h1, h2}
    Amqp = {q1}
    Retries = 2
    MaxFaults = 2
INVARIANTS
    DeliveryBudget
    NoDestinationSkipped
PROPERTIES
    DeliveryEnds
CHECK_DEADLOCK FALSE
