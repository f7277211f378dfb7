SPECIFICATION Spec
CONSTANTS
    j1 = j1
    j2 = j2
    w1 = w1
    w2 = w2
    NoSlot = NoSlot
    Jobs <- OneJob
    Workers <- OneWorker
    MaxCopies = 1
    MaxDeliveries = 1
    OldJobs <- OneJob
    DeletableJobs <- NoJobs
    FaultKinds <- NoFaults
    MaxFaults = 0
    MaxClock = 1
INVARIANTS
    RefundAtMostOnce
CHECK_DEADLOCK FALSE
