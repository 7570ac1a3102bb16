SPECIFICATION Spec
CONSTANTS
    Worktrees = {}
    Clones = {}
    Extern = {er}
    Pool = {t1}
    Nobody = Nobody
    MaxId = 1
    MaxJobs = 1
    MaxMsgs = 1
    MaxProbes = 1
    MaxEvents = 1
PROPERTY StaleRowsReconciled
CHECK_DEADLOCK FALSE
