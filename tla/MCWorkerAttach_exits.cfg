\* Two clients, and all three threads that may end the session.
SPECIFICATION Spec
CONSTANTS
    c1 = c1
    c2 = c2
    None = None
    Clients <- MCClients
    Interactive <- MCNobody
    BacklogLimit = 2
    MaxOutput = 0
    DaemonMayDie = TRUE
    MayInterrupt = TRUE
INVARIANTS TypeOK OneExitCode
CHECK_DEADLOCK FALSE
