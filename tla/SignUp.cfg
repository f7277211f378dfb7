SPECIFICATION Spec
SYMMETRY Symmetry
CONSTANTS
    Emails = {e1, e2}
    Links = {l1, l2}
    Users = {u1, u2}
    Clicks = {c1, c2}
    Visits = {v1, v2}
    None = None
    EmailMax = 1
    IpMax = 2
    Window = 1
    MaxClicks = 3
    MaxVisits = 2
    MaxFaults = 1
INVARIANTS
    LinksUsedOnce
    AccountWhole
    OneFirstKey
CHECK_DEADLOCK FALSE
