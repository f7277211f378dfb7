SPECIFICATION Spec
CONSTANTS
    j1 = j1
    j2 = j2
    NoTime = NoTime
    Jobs <- TwoJobs
    Comp <- SecondJob
    TicksPerSecond = 2
    MaxTime = 6
    MaxRows = 2
    Lookback = 3
    MaxWindow = 5
    FaultKinds <- AnyFault
    MaxFaults = 2
CHECK_DEADLOCK FALSE
INVARIANTS RetriesBillOnce NoGap
