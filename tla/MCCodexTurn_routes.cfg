SPECIFICATION Spec
CONSTANTS
    MaxId = 6
    MaxItems = 6
    MaxShown = 5
INVARIANTS
    SeedsAcrossRoutes
CHECK_DEADLOCK FALSE
