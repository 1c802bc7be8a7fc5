SPECIFICATION Spec
CONSTANTS
    MaxAccount = 2
    Client = {c1, c2}
    Job = {j1, j2}
    Slots = 1
    Shared = TRUE
    MaxRegistered = 1
CHECK_DEADLOCK FALSE
SYMMETRY GoroutineSymmetry
INVARIANTS
    OneJobPerPid
    FetchingHasJob
    SlotsMatchJobs
    RowsHaveOwner
