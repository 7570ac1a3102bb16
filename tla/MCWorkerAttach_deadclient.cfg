\* One client that may crash at any time.
SPECIFICATION Spec
CONSTANTS
    c1 = c1
    c2 = c2
    None = None
    Clients <- MCOne
    Interactive <- MCNobody
    BacklogLimit = 1
    MaxOutput = 1
    DaemonMayDie = FALSE
    MayInterrupt = FALSE
PROPERTY DeadIsEvicted
CHECK_DEADLOCK FALSE
