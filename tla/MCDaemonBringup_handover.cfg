SPECIFICATION Spec
CONSTANTS
    c1 = c1
    c2 = c2
    c3 = c3
    Clients = {c1, c2, c3}
    OldClients = {}
    Restarters = {}
    Stoppers = {}
    None = None
    Slow = FALSE
    ClientsMayDie = FALSE
    DaemonsMayDie = FALSE
INVARIANT ServingOwnsRegistry
CHECK_DEADLOCK FALSE
