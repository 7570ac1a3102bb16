\* Two clients, one that does not see the exit, and a child that writes two chunks.
SPECIFICATION Spec
CONSTANTS
    c1 = c1
    c2 = c2
    None = None
    Clients <- MCClients
    Interactive <- MCInteractive
    BacklogLimit = 1
    MaxOutput = 2
    DaemonMayDie = FALSE
    MayInterrupt = FALSE
INVARIANTS OneAttached CompleteBeforeExit
PROPERTIES AttachedLearnsExit WorkerEnds EvictedInSession
CHECK_DEADLOCK FALSE
