SPECIFICATION Spec
CONSTANTS
    KeyIds = {k1}
    Secrets = {s1, s2, s3}
    Requests = {r1, r2}
    Callers = {c1}
    None = None
    TTL = 2
    MaxKeys = 1
    MaxCalls = 3
    MaxFaults = 1
SYMMETRY Symmetric
CHECK_DEADLOCK FALSE
INVARIANTS ShownKeyWorks OnlyShownKeyWorks
PROPERTY KeepsPromise
