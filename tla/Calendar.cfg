SPECIFICATION Spec
CONSTANTS
    Anchors <- EdgeAnchors
    FirstYear = 2026
    LastYear = 2028
CHECK_DEADLOCK FALSE
INVARIANTS StartIsLatestAnchorDate CounterOutlivesPeriod PortalAgrees
PROPERTIES PeriodsAdvance
