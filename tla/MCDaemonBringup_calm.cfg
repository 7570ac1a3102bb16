SPECIFICATION Spec
CONSTANTS
    c1 = c1
    c2 = c2
    c3 = c3
    Clients = {c1, c2, c3}
    OldClients = {c3}
    Restarters = {}
    Stoppers = {}
    None = None
    Slow = FALSE
    ClientsMayDie = FALSE
    DaemonsMayDie = TRUE
INVARIANTS AtMostOneDaemon ServingIsDiscoverable
PROPERTIES ImplementsSingleDaemon
CHECK_DEADLOCK FALSE
