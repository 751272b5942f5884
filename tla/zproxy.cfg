CONSTANTS
    c1 = c1
    c2 = c2
    b1 = b1
    b2 = b2
    Clients <- MCClients
    Backends <- MCBackends
    MaxRecords = 1
SPECIFICATION Spec
INVARIANTS
    TypeOK
    OneToOne
    InOrder
    ClientsDoNoHarm
    PidfileTellsTruth
    NothingHeldBack
CHECK_DEADLOCK FALSE
