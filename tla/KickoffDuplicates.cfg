SPECIFICATION Spec
CONSTANTS
    main = main
    dev = dev
    other = other
    repo = repo
    repo2 = repo2
    trunk = trunk
    branch = branch
    Clients <- OneClient
    ProjectOf <- ProjectsOf
    BranchOf <- BranchesOf
    Workers = {w1}
    MaxRunning = 1
    Setups <- DelegatedSetups
    MaxReruns = 1
    MaxFaults = 0
INVARIANTS
    NoDuplicateScans
CHECK_DEADLOCK FALSE
