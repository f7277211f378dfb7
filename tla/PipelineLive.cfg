SPECIFICATION FairSpec
CONSTANTS
    j1 = j1
    j2 = j2
    w1 = w1
    w2 = w2
    NoSlot = NoSlot
    Jobs <- OneJob
    Workers <- TwoWorkers
    MaxCopies = 1
    MaxDeliveries = 1
    OldJobs <- OneJob
    DeletableJobs <- OneJob
    FaultKinds <- Setbacks
    MaxFaults = 2
    MaxClock = 2
PROPERTIES
    EveryJobSettles
    DoomedFilesGo
CHECK_DEADLOCK FALSE
