SPECIFICATION LlmPoolsSpec
CONSTANTS
    j1 = j1
    j2 = j2
    d1 = d1
    Job = {j1, j2}
    Size <- Sizes
    Harbor = {j1}
    Ip = {1, 2, 3}
    Vmid = {1, 2, 3, 4}
    Deletion = {d1}
    Target <- Targets
    Faults <- Split
    NoJob = NoJob
    w1 = w1
    PowerRequests = {w1}
    Pools <- SomePools
    MaxUpsets = 2
INVARIANTS
    AddressHeld
    AddressNotShared
    DeletedAreGone
    RunningIsComplete
    ShownIsTrue
PROPERTIES
    ReservesAddresses
    ProvisioningEnds
    OperationEnds
CHECK_DEADLOCK FALSE
