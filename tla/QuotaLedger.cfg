SPECIFICATION Spec
CONSTANTS
    r1 = r1
    r2 = r2
    r3 = r3
    r4 = r4
    r5 = r5
    k1 = k1
    k2 = k2
    Account = Account
    NoLimit = NoLimit
    Requests <- Three
    Keys <- TwoKeys
    KeyOf <- SplitKeys
    SizeOf <- MixedSize
    MaxSize = 2
    FreeBytes = 3
    PaidEnabled = FALSE
    CapBytes = 1
    KeyLimit <- FirstKeyOnly
    Warm = TRUE
    MaxRejected = 1
    MaxConcurrent = 2
    MaxPeriod = 2
    FaultKinds <- AnyFault
    MaxFaults = 2
CHECK_DEADLOCK FALSE
INVARIANTS NeverOvercounted CapOvershootBounded CountersBalance
