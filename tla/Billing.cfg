SPECIFICATION Spec
CONSTANTS
    HandlerSlots = 2
    MaxUpdates = 2
    Caps = {1}
    DefaultCap = 2
    None = None
    BlockTTL = 2
    TTL = 2
    MaxCalls = 3
    k1 = k1
    k2 = k2
    Meters = {k1, k2}
    NameOf <- NameOfKey
    Charges = {1, 2, 3}
    Earlier = {2}
    Nameless = {}
    MeterOf <- KeyOfCharge
    BytesOf <- SizeOfCharge
    UnitSize = 2
    FreeUnits = 1
    NoValue = NoValue
    MaxUsageLoads = 1
    MaxMishaps = 2
    People = {u1, u2}
    Me = u1
    NoOne = NoOne
    InvoiceTTL = 1
    ReaderSlots = 2
    MaxBilled = 1
    MaxReads = 2
    MaxQueued = 2
    MaxLosses = 1
    MaxOverviews = 1
    Runs = {w1, w2}
    Documents <- OnePagers
INVARIANTS
    GatewayFresh
    ChangesKept
    UsageShown
    InvoicesOwn
    LinksLead
    OverviewCovers
CHECK_DEADLOCK FALSE
