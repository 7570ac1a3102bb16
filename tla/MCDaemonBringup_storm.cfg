SPECIFICATION Spec
CONSTANTS
    c1 = c1
    c2 = c2
    c3 = c3
    Clients = {c1, c2, c3}
    OldClients = {c3}
    Restarters = {c2}
    Stoppers = {c1}
    None = None
    Slow = TRUE
    ClientsMayDie = TRUE
    DaemonsMayDie = TRUE
INVARIANTS TypeOK OneRegistryOwner
PROPERTY CommandReturns
CHECK_DEADLOCK FALSE
