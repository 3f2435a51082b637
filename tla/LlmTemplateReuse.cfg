SPECIFICATION Spec
CONSTANTS
    j1 = j1
    j2 = j2
    d1 = d1
    Job = {j1, j2}
    Size <- Sizes
    Harbor = {j1}
    Ip = {1, 2, 3}
    Vmid = {1, 2, 3, 4}
    Deletion = {d1}
    Target <- Targets
    Faults <- NoFaults
    NoJob = NoJob
INVARIANTS
    OthersUntouched
CHECK_DEADLOCK FALSE
