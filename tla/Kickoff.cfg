SPECIFICATION FairSpec
CONSTANTS
    main = main
    dev = dev
    other = other
    repo = repo
    repo2 = repo2
    trunk = trunk
    branch = branch
    Clients <- TwoClients
    ProjectOf <- ProjectsOf
    BranchOf <- BranchesOf
    Workers = {w1, w2}
    MaxRunning = 1
    Setups <- FourSetups
    MaxReruns = 1
    MaxFaults = 1
INVARIANTS
    LimitBound
    OneKickoffScan
PROPERTIES
    ClientsAnswered
CHECK_DEADLOCK FALSE
