SPECIFICATION Spec
CONSTANTS
    c1 = c1
    c2 = c2
    Clients = {c1, c2}
    BatchedPrune = TRUE
    MaxEvents = 2
INVARIANT RetiresUnasked
CHECK_DEADLOCK FALSE
