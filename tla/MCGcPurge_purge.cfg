SPECIFICATION Spec
CONSTANTS
    Worktrees = {wt}
    Clones = {}
    Extern = {er}
    Pool = {t1}
    Nobody = Nobody
    MaxId = 2
    MaxJobs = 2
    MaxMsgs = 1
    MaxProbes = 1
    MaxEvents = 2
INVARIANT TypeOK
PROPERTIES WorkIsKept StandingRowKept IdleIsReclaimed GoneWorktreeForgotten
CHECK_DEADLOCK FALSE
