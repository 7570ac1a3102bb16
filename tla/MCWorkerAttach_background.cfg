\* One client after the other.
SPECIFICATION Spec
CONSTANTS
    c1 = c1
    c2 = c2
    None = None
    Clients <- MCClients
    Interactive <- MCNobody
    BacklogLimit = 1
    MaxOutput = 0
    DaemonMayDie = FALSE
    MayInterrupt = FALSE
INVARIANT AttachedIsForeground
CHECK_DEADLOCK FALSE
