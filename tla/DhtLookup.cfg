SPECIFICATION Spec
CONSTANTS
    S = S
    A = A
    B = B
    ES = ES
    EA = EA
    EB = EB
    C1 = C1
    C2 = C2
    None = None
    Id <- MCId
    Endpoint <- MCEndpoint
    home <- MCHome
    Distance <- MCDistance
    Call = {C1, C2}
    caller <- TwoByA
    target <- TwoForB
    Running = {S, A}
    Bootstrap = {S}
    K = 2
    PingPeriod = 1
    BadPeriod = 2
    ExpiredTime = 3
    Wrap = 16
    Alpha = 1
    MaxNodesInResponse = 8
    Lossy = FALSE
    Overwriting = TRUE
    Copied = {"pong", "send_nodes"}
    MaxMishaps = 1
    Asks <- Everyone
    MaxBootstraps = 1
    Periodic = {}
    MaxPending = 0
    MaxStops = 0
    MaxTime = 0
    TaskGap = 1
SYMMETRY CallSymmetry
CHECK_DEADLOCK FALSE
INVARIANTS
    TypeOK
    CallbacksAreKept
PROPERTIES
    EmptySlotIsForGood
