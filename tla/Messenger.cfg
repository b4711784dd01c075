SPECIFICATION FairSpec
CONSTANTS
    P = P
    Q = Q
    M1 = M1
    M2 = M2
    Peer = {P, Q}
    Message = {M1, M2}
    Request = {}
    from <- MCFrom
    to <- MCTo
    Lossy = {M2}
    MaxCopies = 1
    MaxOnline = 2
CHECK_DEADLOCK FALSE
INVARIANTS
    DeliveredOnce
    RecordsAreOpen
    ReportedAsOften
PROPERTIES
    ImplementsDelivery
    DeliveredOrMissed
