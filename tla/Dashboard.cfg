SPECIFICATION MCSpec
CONSTANTS
    KeyIds = {k1, k2}
    KeyNames = {n1, n2}
    KeySlots = 2
    None = None
    MaxKeys = 1
    PerGB = 2
    Typed <- TypedTexts
    MaxKeyCalls = 2
    MaxResizes = 1
    MaxJobs = 3
    MaxOldJobs = 1
    JobPageSize = 1
    PollSlots = 2
    Outcomes = {"error"}
    MaxJobEvents = 1
    Lookups = {q1}
    MaxTime = 1
    MaxSpans = 4
    MaxLoads = 2
    MaxZoom = 1
    Setters = {p1, p2}
    Checkers = {g1, g2}
    Limits = {3}
    LimitTTL = 2
    LimitUnit = 2
    MaxQuotaCalls = 3
INVARIANTS
    KeyLimitKept
    UntypedLimitHolds
    ListWhole
    FlameSound
PROPERTIES
    RowsSettle
    LimitEnforced
CHECK_DEADLOCK FALSE
