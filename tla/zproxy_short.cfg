CONSTANTS
    c1 = c1
    c2 = c2
    b1 = b1
    b2 = b2
    Clients = {c1}
    Backends = {b1}
    MaxRecords = 1
SPECIFICATION Spec
INVARIANTS
    AsSent
CHECK_DEADLOCK FALSE
