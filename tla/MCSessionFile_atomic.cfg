SPECIFICATION Spec
CONSTANTS
    MaxEvents = 2
    WorkerMayCrash = FALSE
    DaemonMayDie = FALSE
INVARIANT WrittenIsKept
CHECK_DEADLOCK FALSE
