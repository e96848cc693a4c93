SPECIFICATION FairSpec
CONSTANTS
    Callers = {c1, c2}
    NoOne = NoOne
    MaxThreads = 3
    HasStopFn = TRUE
    CreateFails = TRUE
    UsesJoin = TRUE
    StartsOnce = TRUE
CHECK_DEADLOCK FALSE
INVARIANTS
    ThreadInv
    NoOrphanThread
    TeardownAfterThreadEnds
    SetUpWhileRunning
PROPERTY
    StopReturns
