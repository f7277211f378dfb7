SPECIFICATION Spec
CONSTANTS
    j1 = j1
    j2 = j2
    w1 = w1
    w2 = w2
    NoSlot = NoSlot
    Jobs <- TwoJobs
    Workers <- TwoWorkers
    MaxCopies = 1
    MaxDeliveries = 2
    OldJobs <- NoJobs
    DeletableJobs <- SecondJob
    FaultKinds <- LocalFaults
    MaxFaults = 2
    MaxClock = 2
SYMMETRY WorkerSymmetry
INVARIANTS
    RefundAtMostOnce
    RefundedIsNotOk
PROPERTIES
    OkSignalIsFinal
    LeavesQueueWithOutcome
CHECK_DEADLOCK FALSE
