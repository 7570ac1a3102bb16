SPECIFICATION Spec
CONSTANTS
    MaxId = 9
    MaxItems = 8
    MaxShown = 7
INVARIANTS
    TypeOK
    RejectedOnlyAfterLoss
    CommittedOnce
    SeedsFromSummary
CHECK_DEADLOCK FALSE
