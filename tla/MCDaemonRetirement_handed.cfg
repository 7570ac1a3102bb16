SPECIFICATION Spec
CONSTANTS
    c1 = c1
    c2 = c2
    Clients = {c1, c2}
    BatchedPrune = FALSE
    MaxEvents = 2
INVARIANT SessionsPreventRetirement
CHECK_DEADLOCK FALSE
