SPECIFICATION FairSpec
CONSTANTS
    r1 = r1
    r2 = r2
    r3 = r3
    r4 = r4
    r5 = r5
    k1 = k1
    k2 = k2
    Account = Account
    NoLimit = NoLimit
    Requests <- Five
    Keys <- OneKey
    KeyOf <- SameKey
    SizeOf <- UnitSize
    MaxSize = 1
    FreeBytes = 5
    PaidEnabled = FALSE
    CapBytes = 0
    KeyLimit <- NoKeyLimit
    Warm = TRUE
    MaxRejected = 3
    MaxConcurrent = 2
    MaxPeriod = 1
    FaultKinds <- Crashes
    MaxFaults = 2
CHECK_DEADLOCK FALSE
INVARIANTS RejectionsBounded
PROPERTIES LockoutEnds
