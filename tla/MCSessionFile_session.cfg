SPECIFICATION Spec
CONSTANTS
    MaxEvents = 1
    WorkerMayCrash = TRUE
    DaemonMayDie = TRUE
INVARIANT TypeOK
PROPERTIES ExitIsFinal DeadIsRecorded
CHECK_DEADLOCK FALSE
