SPECIFICATION Spec
CONSTANTS
    S = S
    A = A
    B = B
    ES = ES
    EA = EA
    EB = EB
    C1 = C1
    C2 = C2
    None = None
    Id <- MCId
    Endpoint <- MCEndpoint
    home <- MCHome
    Distance <- MCDistance
    Call = {}
    caller <- NoCalls
    target <- NoCalls
    Running = {S, A, B}
    Bootstrap = {S}
    K = 1
    PingPeriod = 1
    BadPeriod = 2
    ExpiredTime = 3
    Wrap = 16
    Alpha = 3
    MaxNodesInResponse = 8
    Lossy = FALSE
    Overwriting = FALSE
    Copied = {}
    MaxMishaps = 0
    Asks <- Everyone
    MaxBootstraps = 1
    Periodic = {}
    MaxPending = 0
    MaxStops = 0
    MaxTime = 0
    TaskGap = 1
CHECK_DEADLOCK FALSE
INVARIANTS
    EvictedIsRecalled
